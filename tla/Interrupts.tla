----------------------------- MODULE Interrupts -----------------------------
(***************************************************************************)
(* Worker threads and the exceptions that other threads raise in them: the *)
(* manager of TimeLimit, the notifications of ShutdownNotifications and    *)
(* what becomes of a message, of the hooks around it and of the coroutine  *)
(* of an async actor when an Interrupt arrives at any point                *)
(* (worker.py:522, middleware/time_limit.py, middleware/shutdown.py,       *)
(* threading.py, asyncio.py, broker.py:111).                               *)
(*                                                                         *)
(* Interrupt is a BaseException: the hooks' callers, which log and drop an *)
(* Exception, let it through, and run() of a worker thread does not catch  *)
(* it, so that outside of process_message it ends the thread.              *)
(***************************************************************************)
EXTENDS Integers, FiniteSets, Sequences, Functions

CONSTANTS
  Threads,      \* worker threads
  Ids,          \* messages, each delivered once to this worker, in this order
  Setups,       \* how workers may be set up
  None          \* no message

Hooks == {"age", "time", "shutdown", "prometheus", "retries"}

Setup == [manager    : {"ctypes", "gevent"},  \* of the time limits
          middleware : Seq(Hooks),            \* in the order it was added, each once
          limited    : SUBSET Ids,            \* messages with a finite time limit
          notify     : SUBSET Ids,            \* messages with notify_shutdown
          async      : SUBSET Ids]            \* messages of async actors

ASSUME InterruptsAssumption ==
  /\ Ids \subseteq Nat /\ None \notin Ids
  /\ IsFiniteSet(Ids) /\ IsFiniteSet(Threads)
  /\ Setups \subseteq {s \in Setup : IsInjective(s.middleware)}

VARIABLES
  setup,          \* how this worker is set up
  thread,         \* the worker threads
  pending,        \* threads with an exception set that has not been raised yet
  deadlines,      \* threads whose deadline the time limit manager knows
  killing,        \* threads the manager is about to interrupt
  thrown,         \* gevent: the thread whose timer has thrown and is still known
  stray,          \* gevent: timers of each thread that run and nobody can close
  notifications,  \* threads to notify of a shutdown
  inprogress,     \* the gauge of messages in progress (middleware/prometheus.py)
  message,        \* what became of each message
  coroutine,      \* the coroutine of each message of an async actor
  main            \* the main thread, from the shutdown of the worker on

vars == <<setup, thread, pending, deadlines, killing, thrown, stray,
          notifications, inprogress, message, coroutine, main>>
timers == <<thrown, stray>>
monitors == <<deadlines, killing, timers, notifications, main>>

Thread == [pc   : {"idle", "taken", "before", "actor", "start", "await", "cancel",
                   "cleanup", "after", "post", "stopped", "dead"},
           at   : Ids \cup {None},
           todo : SUBSET Nat,          \* of this emit: places in the middleware
           why  : {"none", "result", "exception", "skip", "interrupt"}]
Message == [taken : BOOLEAN, succeeded : BOOLEAN, retried : BOOLEAN, failed : BOOLEAN,
            settled : {"no", "ack", "nack"},
            cut     : BOOLEAN,         \* an interrupt hit an exception handler
            gaveUp  : BOOLEAN]         \* its coroutine was not waited for
Main == [pc   : {"up", "notify", "stopping", "done"},
         left : SUBSET Threads,        \* threads the iteration has to visit
         size : 0 .. Cardinality(Threads),
         broke : BOOLEAN,              \* the set changed under the iteration
         late : BOOLEAN]               \* a notification came after it began

Untouched == [taken |-> FALSE, succeeded |-> FALSE, retried |-> FALSE,
              failed |-> FALSE, settled |-> "no", cut |-> FALSE, gaveUp |-> FALSE]

TypeOK ==
  /\ setup \in Setups
  /\ thread \in [Threads -> Thread]
  /\ pending \subseteq Threads /\ deadlines \subseteq Threads
  /\ killing \subseteq Threads /\ notifications \subseteq Threads
  /\ thrown \subseteq Threads /\ stray \in [Threads -> Nat]
  /\ inprogress \in (0 - Cardinality(Ids) * 2) .. Cardinality(Threads)
  /\ message \in [Ids -> Message]
  /\ coroutine \in [Ids -> [state : {"none", "queued", "running", "cleanup", "over",
                                     "dropped"}, cancel : BOOLEAN]]
  /\ main \in Main

Init ==
  /\ setup \in Setups
  /\ thread = [t \in Threads |-> [pc |-> "idle", at |-> None, todo |-> {},
                                  why |-> "none"]]
  /\ pending = {} /\ deadlines = {} /\ killing = {} /\ notifications = {}
  /\ thrown = {} /\ stray = [t \in Threads |-> 0]
  /\ inprogress = 0
  /\ message = [id \in Ids |-> Untouched]
  /\ coroutine = [id \in Ids |-> [state |-> "none", cancel |-> FALSE]]
  /\ main = [pc |-> "up", left |-> {}, size |-> 0, broke |-> FALSE, late |-> FALSE]

At(t) == thread[t].at
Move(t, pc) == thread' = [thread EXCEPT ![t].pc = pc]

(* emit_before goes through the middleware in order, emit_after backwards;
   hooks that do nothing for the message are left out.                     *)
Without(hooks) ==
  {i \in DOMAIN setup.middleware : setup.middleware[i] \notin hooks}
Before(t) ==
  [thread[t] EXCEPT !.pc = "before", !.todo = Without({"retries"})]
(* Mutant: the hooks are not told of messages that were skipped.           *)
AfterUnlessSkipped(t, why) ==
  [thread[t] EXCEPT !.pc = "after", !.why = why,
     !.todo = IF why = "skip" THEN {}
              ELSE Without({"age"} \cup IF why = "exception" THEN {} ELSE {"retries"})]
After(t, why) ==
  [thread[t] EXCEPT !.pc = "after", !.why = why,
     !.todo = Without({"age"} \cup IF why = "exception" THEN {} ELSE {"retries"})]

-----------------------------------------------------------------------------
(* Worker threads.                                                         *)

Running == main.pc \in {"up", "notify"}

Take(t) ==
  /\ thread[t].pc = "idle" /\ Running
  /\ \E id \in Ids :
       /\ {i \in Ids : ~message[i].taken /\ i <= id} = {id}
       /\ message' = [message EXCEPT ![id].taken = TRUE]
       /\ thread' = [thread EXCEPT ![t].pc = "taken", ![t].at = id]
  /\ UNCHANGED <<setup, monitors, pending, inprogress, coroutine>>

Leave(t) ==
  /\ thread[t].pc = "idle" /\ ~Running
  /\ Move(t, "stopped")
  /\ UNCHANGED <<setup, monitors, pending, inprogress, message, coroutine>>

Begin(t) ==
  /\ thread[t].pc = "taken"
  /\ thread' = [thread EXCEPT ![t] = Before(t)]
  /\ UNCHANGED <<setup, monitors, pending, inprogress, message, coroutine>>

NextHook(t, i) == thread' = [thread EXCEPT ![t].todo = @ \ {i}]

(* AgeLimit fails a message that is too old and skips it.                  *)
CheckAge(t, i) ==
  /\ \/ NextHook(t, i) /\ UNCHANGED message
     \/ /\ thread' = [thread EXCEPT ![t] = After(t, "skip")]
        /\ message' = [message EXCEPT ![At(t)].failed = TRUE]
  /\ UNCHANGED <<monitors, inprogress>>

AddTimeout(t, i) ==
  /\ NextHook(t, i)
  /\ deadlines' = IF At(t) \in setup.limited THEN deadlines \cup {t} ELSE deadlines
  /\ UNCHANGED <<killing, timers, notifications, main, inprogress, message>>

(* The iteration of a shutdown may or may not come to a new element.       *)
AddNotification(t, i) ==
  /\ NextHook(t, i)
  /\ IF At(t) \notin setup.notify THEN UNCHANGED <<notifications, main>>
     ELSE /\ notifications' = notifications \cup {t}
          /\ main' \in {[main EXCEPT !.late = main.pc # "up", !.left = left] :
                          left \in {main.left} \cup
                            (IF main.pc = "notify" THEN {main.left \cup {t}} ELSE {})}
  /\ UNCHANGED <<deadlines, killing, timers, inprogress, message>>

Increment(t, i) ==
  /\ NextHook(t, i)
  /\ inprogress' = inprogress + 1
  /\ UNCHANGED <<monitors, message>>

BeforeHook(t) ==
  /\ thread[t].pc = "before"
  /\ \E i \in thread[t].todo :
       /\ \A k \in thread[t].todo : i <= k
       /\ LET hook == setup.middleware[i] IN
          \/ hook = "age" /\ CheckAge(t, i)
          \/ hook = "time" /\ AddTimeout(t, i)
          \/ hook = "shutdown" /\ AddNotification(t, i)
          \/ hook = "prometheus" /\ Increment(t, i)
  /\ UNCHANGED <<setup, pending, coroutine>>

(* The actor is called; an async one is handed to the event loop, before the
   try of run_coroutine is entered.                                        *)
Call(t) ==
  /\ thread[t].pc = "before" /\ thread[t].todo = {}
  /\ IF At(t) \in setup.async
     THEN /\ Move(t, "start")
          /\ coroutine' = [coroutine EXCEPT ![At(t)].state = "queued"]
     ELSE Move(t, "actor") /\ UNCHANGED coroutine
  /\ UNCHANGED <<setup, monitors, pending, inprogress, message>>

Await(t) ==
  /\ thread[t].pc = "start"
  /\ Move(t, "await")
  /\ UNCHANGED <<setup, monitors, pending, inprogress, message, coroutine>>

Ends(t) ==
  \E ok \in BOOLEAN :
    /\ thread' = [thread EXCEPT ![t] = After(t, IF ok THEN "result" ELSE "exception")]
    /\ message' = [message EXCEPT ![At(t)].succeeded = ok]

ActorEnds(t) ==
  /\ thread[t].pc = "actor"
  /\ Ends(t)
  /\ UNCHANGED <<setup, monitors, pending, inprogress, coroutine>>

CoroutineEnds(t) ==
  /\ thread[t].pc = "await" /\ coroutine[At(t)].state = "over"
  /\ Ends(t)
  /\ UNCHANGED <<setup, monitors, pending, inprogress, coroutine>>

(* Mutant: run_coroutine raises at once, without waiting for the coroutine. *)
NoWait(t) ==
  /\ thread[t].pc = "cleanup"
  /\ thread' = [thread EXCEPT ![t] = After(t, "exception")]
  /\ UNCHANGED <<setup, monitors, pending, inprogress, message, coroutine>>

(* After an interrupt run_coroutine tells the loop to cancel the coroutine ... *)
Cancel(t) ==
  /\ thread[t].pc = "cancel"
  /\ Move(t, "cleanup")
  /\ coroutine' = [coroutine EXCEPT ![At(t)].cancel = TRUE]
  /\ UNCHANGED <<setup, monitors, pending, inprogress, message>>

(* ... and waits for the done event, which only the coroutine sets, but no
   longer than a second.                                                   *)
AwaitCleanup(t) ==
  /\ thread[t].pc = "cleanup"
  /\ thread' = [thread EXCEPT ![t] = After(t, "exception")]
  /\ message' = [message EXCEPT
       ![At(t)].gaveUp = @ \/ coroutine[At(t)].state # "over"]
  /\ UNCHANGED <<setup, monitors, pending, inprogress, coroutine>>

(* Retries: another message carries the job on, or the message is failed.  *)
RetryOrFail(t) ==
  \E retry \in BOOLEAN :
    message' = [message EXCEPT ![At(t)].retried = @ \/ retry,
                               ![At(t)].failed = @ \/ ~retry]

RemoveNotification(t) ==
  /\ notifications' = notifications \ {t}
  /\ main' = [main EXCEPT !.left = @ \ {t}]

AfterHook(t) ==
  /\ thread[t].pc = "after"
  /\ \E i \in thread[t].todo :
       /\ \A k \in thread[t].todo : k <= i
       /\ NextHook(t, i)
       /\ LET hook == setup.middleware[i] IN
          /\ deadlines' = IF hook = "time" THEN deadlines \ {t} ELSE deadlines
          /\ inprogress' = IF hook = "prometheus" THEN inprogress - 1 ELSE inprogress
          /\ IF hook = "shutdown" THEN RemoveNotification(t)
             ELSE UNCHANGED <<notifications, main>>
          /\ IF hook = "retries" THEN RetryOrFail(t) ELSE UNCHANGED message
  /\ UNCHANGED <<setup, killing, timers, pending, coroutine>>

HooksDone(t) ==
  /\ thread[t].pc = "after" /\ thread[t].todo = {}
  /\ Move(t, "post")
  /\ UNCHANGED <<setup, monitors, pending, inprogress, message, coroutine>>

(* The finally of process_message; an exception raised in a handler goes on
   from there and ends the thread.  What a settled message went through is
   of no use afterwards.                                                   *)
Post(t) ==
  /\ thread[t].pc = "post"
  /\ message' = [message EXCEPT
       ![At(t)] = [Untouched EXCEPT
          !.taken = TRUE,
          !.settled = IF message[At(t)].failed THEN "nack" ELSE "ack"]]
  /\ thread' = [thread EXCEPT
       ![t].pc = IF thread[t].why = "interrupt" THEN "dead" ELSE "idle",
       ![t].at = None, ![t].why = "none"]
  /\ UNCHANGED <<setup, monitors, pending, inprogress, coroutine>>

-----------------------------------------------------------------------------
(* Exceptions from other threads.                                          *)

(* Mutant: process_message handles Exception, not BaseException.           *)
InterruptedUnhandled(t) ==
  LET here == thread[t] IN
  IF here.pc \in {"idle", "taken", "post"} THEN Move(t, "dead") /\ UNCHANGED message
  ELSE /\ thread' = [thread EXCEPT ![t].pc = "post", ![t].why = "interrupt"]
       /\ message' = [message EXCEPT ![At(t)].cut = @ \/ here.pc = "after"]

(* Where an Interrupt takes the thread in which it is raised.              *)
Interrupted(t) ==
  LET here == thread[t]
      handling == here.pc = "after" /\ here.why # "result"
  IN  CASE here.pc \in {"idle", "taken", "post"} ->
             Move(t, "dead") /\ UNCHANGED message
        [] handling ->
             /\ thread' = [thread EXCEPT ![t].pc = "post", ![t].why = "interrupt"]
             /\ message' = [message EXCEPT ![here.at].cut = TRUE]
        [] here.pc = "await" -> Move(t, "cancel") /\ UNCHANGED message
        [] OTHER ->
             /\ thread' = [thread EXCEPT ![t] = After(t, "exception")]
             /\ message' = [message EXCEPT ![here.at].gaveUp = @ \/ here.pc \in {"start", "cancel", "cleanup"}]

Ended(t) == thread[t].pc \in {"dead", "stopped"}

(* The thread raises the exception that was set in it.                     *)
Deliver(t) ==
  /\ t \in pending /\ ~Ended(t)
  /\ pending' = pending \ {t}
  /\ Interrupted(t)
  /\ UNCHANGED <<setup, monitors, inprogress, coroutine>>

(* Mutant: all deadlines that have passed go, but one thread is interrupted. *)
HandleFirst ==
  /\ setup.manager = "ctypes" /\ killing = {}
  /\ \E due \in (SUBSET deadlines) \ {{}} :
       killing' \in {{t} : t \in due} /\ deadlines' = deadlines \ due
  /\ UNCHANGED <<setup, thread, pending, timers, notifications, inprogress, message,
                 coroutine, main>>

(* The manager takes the deadlines that have passed, under its lock ...    *)
HandleDeadlines ==
  /\ setup.manager = "ctypes" /\ killing = {}
  /\ \E due \in (SUBSET deadlines) \ {{}} :
       killing' = due /\ deadlines' = deadlines \ due
  /\ UNCHANGED <<setup, thread, pending, timers, notifications, inprogress, message,
                 coroutine, main>>

(* ... and interrupts their threads, one by one, after releasing it.  The
   exception replaces one that is pending; none is set in a dead thread.   *)
RaiseTimeLimit ==
  /\ \E t \in killing :
       /\ killing' = killing \ {t}
       /\ pending' = IF Ended(t) THEN pending ELSE pending \cup {t}
  /\ UNCHANGED <<setup, thread, deadlines, timers, notifications, inprogress, message,
                 coroutine, main>>

(* A timer of gevent throws its exception into the greenlet as it expires,
   and the hub goes on only when that greenlet waits for something ...     *)
Expire(t) ==
  /\ setup.manager = "gevent" /\ thrown = {} /\ thrown' = {t}
  /\ \/ t \in deadlines /\ deadlines' = deadlines \ {t} /\ UNCHANGED stray
     \/ stray[t] > 0 /\ stray' = [stray EXCEPT ![t] = @ - 1] /\ UNCHANGED deadlines
  /\ IF Ended(t) THEN UNCHANGED <<thread, message>> ELSE Interrupted(t)
  /\ UNCHANGED <<setup, pending, killing, notifications, inprogress, coroutine, main>>

(* ... with dropping what the manager then has for this thread: by now it may
   be the timer of its next message, which goes on running.                *)
Drop(t) ==
  /\ t \in thrown /\ thrown' = {}
  /\ deadlines' = deadlines \ {t}
  /\ stray' = [stray EXCEPT ![t] = IF t \in deadlines THEN @ + 1 ELSE @]
  /\ UNCHANGED <<setup, thread, pending, killing, notifications, inprogress, message,
                 coroutine, main>>

-----------------------------------------------------------------------------
(* The event loop thread.                                                  *)

LoopOnly == UNCHANGED <<setup, monitors, thread, pending, inprogress, message>>
State(id, state) == coroutine' = [coroutine EXCEPT ![id].state = state]

LoopStarts(id) ==
  /\ coroutine[id].state = "queued" /\ State(id, "running") /\ LoopOnly

(* A coroutine that is cancelled before its first step never runs, so that
   nothing sets the done event; another one cleans up.                     *)
LoopCancels(id) ==
  /\ coroutine[id].cancel /\ coroutine[id].state \in {"queued", "running"}
  /\ State(id, IF coroutine[id].state = "queued" THEN "dropped" ELSE "cleanup")
  /\ LoopOnly

LoopEnds(id) ==
  /\ coroutine[id].state \in {"running", "cleanup"} /\ State(id, "over") /\ LoopOnly

-----------------------------------------------------------------------------
(* The main thread stops the worker.                                       *)

MainOnly == UNCHANGED <<setup, thread, deadlines, killing, timers, notifications,
                        inprogress, message, coroutine>>

Shutdown ==
  /\ main.pc = "up"
  /\ main' = [main EXCEPT !.pc = "notify", !.left = notifications,
                          !.size = Cardinality(notifications)]
  /\ MainOnly /\ UNCHANGED pending

(* Mutant: only the first thread is notified.                              *)
NotifyFirst ==
  /\ main.pc = "notify"
  /\ IF main.left = {} THEN pending' = pending
     ELSE \E t \in main.left : pending' = pending \cup {t}
  /\ main' = [main EXCEPT !.pc = "stopping", !.left = {}]
  /\ MainOnly

(* shutdown() interrupts each thread in the set.  If the set changed its
   size, the iteration raises, and emit_before logs and drops that.        *)
NotifyNext ==
  /\ main.pc = "notify"
  /\ \/ /\ Cardinality(notifications) # main.size
        /\ main' = [main EXCEPT !.pc = "stopping", !.left = {}, !.broke = TRUE]
        /\ UNCHANGED pending
     \/ /\ Cardinality(notifications) = main.size /\ main.left = {}
        /\ main' = [main EXCEPT !.pc = "stopping"]
        /\ UNCHANGED pending
     \/ /\ Cardinality(notifications) = main.size
        /\ \E t \in main.left :
             /\ main' = [main EXCEPT !.left = @ \ {t}]
             /\ pending' = IF Ended(t) THEN pending ELSE pending \cup {t}
  /\ MainOnly

Joined ==
  /\ main.pc = "stopping" /\ \A t \in Threads : Ended(t)
  /\ main' = [main EXCEPT !.pc = "done"]
  /\ MainOnly /\ UNCHANGED pending

(* With gevent nothing runs besides the greenlet that was thrown into, until
   it waits for something.                                                 *)
Runs(t) == thrown \subseteq {t}

Proceed(t) == \/ Take(t) \/ Leave(t) \/ Begin(t) \/ BeforeHook(t) \/ Call(t)
              \/ Await(t) \/ CoroutineEnds(t) \/ Cancel(t) \/ AwaitCleanup(t)
              \/ AfterHook(t) \/ HooksDone(t) \/ Post(t)

Next == \/ \E t \in Threads : \/ Runs(t) /\ (Proceed(t) \/ ActorEnds(t))
                              \/ thrown = {} /\ Deliver(t)
                              \/ Expire(t) \/ Drop(t)
        \/ /\ thrown = {}
           /\ \/ HandleDeadlines \/ RaiseTimeLimit
              \/ \E id \in Ids : LoopStarts(id) \/ LoopCancels(id) \/ LoopEnds(id)
              \/ Shutdown \/ NotifyNext \/ Joined

(* Threads and the event loop keep running, a deadline passes and is
   noticed, an exception that was set is raised (the code of the thread is
   not in a system call), and a coroutine that is cancelled cleans up.
   Actors, sync or async, need never end.                                  *)
Fairness ==
  /\ \A t \in Threads : /\ WF_vars(Proceed(t)) /\ WF_vars(Deliver(t))
                        /\ WF_vars(Expire(t)) /\ WF_vars(Drop(t))
                        /\ WF_vars(HandleDeadlines /\ t \in killing')
  /\ WF_vars(RaiseTimeLimit) /\ WF_vars(NotifyNext) /\ WF_vars(Joined)
  /\ \A id \in Ids : /\ WF_vars(LoopStarts(id)) /\ WF_vars(LoopCancels(id))
                     /\ WF_vars(coroutine[id].state = "cleanup" /\ LoopEnds(id))

Spec == Init /\ [][Next]_vars /\ Fairness

-----------------------------------------------------------------------------
(* Properties.                                                             *)

(* Whatever happened to the messages before, a thread that is between two
   messages has no deadline and is not registered for notifications, so that
   neither is meant for the wrong message; and the gauge of messages in
   progress never counts more than the threads that are processing one.
   With gevent it has no deadline that remove_timeout could have closed: the
   timer of a message that began before the greenlet had waited since it was
   interrupted is dropped instead (time_limit.py:184), and is left behind.  *)
NothingLeftBehind ==
  LET between == {t \in Threads : thread[t].pc \in {"idle", "taken", "stopped"}}
  IN  /\ TypeOK
      /\ \A t \in Threads : stray[t] > 0 => setup.manager = "gevent"
      /\ between \cap (deadlines \cup notifications) = {}
      /\ inprogress <= Cardinality(Threads \ between)

Settles(id) == message[id].settled = "no" /\ message'[id].settled # "no"

(* A message is acked only if its actor succeeded or another message carries
   the job on, however often it was interrupted: but for an interrupt that
   hits the handling of an earlier failure, which costs the job and the
   thread (worker.py:600).  Without Retries nothing carries a job on.      *)
Retrying == "retries" \in Range(setup.middleware)
AckedIsDone ==
  [][\A id \in Ids : Settles(id) /\ message'[id].settled = "ack" /\ Retrying =>
       message[id].succeeded \/ message[id].retried \/ message[id].cut]_vars

(* When the message of an async actor is settled its coroutine is over, or
   never ran, unless its cleanup took longer than run_coroutine waits, a
   second interrupt ended the wait, or the first one came when it had been
   queued and the try that cancels it not been entered (asyncio.py:142).   *)
CoroutinesEnd ==
  [][\A id \in Ids : Settles(id) =>
       coroutine[id].state \in {"none", "over", "dropped"} \/ message[id].gaveUp]_vars

(* An actor with a time limit that hangs is interrupted, the time limit of
   an earlier message on the same thread notwithstanding.                  *)
InActor(id) == \E t \in Threads : thread[t].pc \in {"actor", "start", "await"} /\ At(t) = id
HungActorsEnd ==
  \A id \in Ids : InActor(id) /\ id \in setup.limited ~> ~InActor(id)

(* A worker whose actors all have a time limit or are notified of shutdowns
   stops, unless the set of notifications changed under the iteration or
   one was added after it began.                                           *)
StopEnds ==
  main.pc = "notify" /\ Ids \subseteq setup.limited \cup setup.notify
    ~> main.pc = "done" \/ main.broke \/ main.late
=============================================================================
