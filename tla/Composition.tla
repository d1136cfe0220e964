---------------------------- MODULE Composition ----------------------------
(***************************************************************************)
(* Groups of pipelines with a completion callback (composition.py) over a  *)
(* queue that delivers again what a crashed worker had: the middleware     *)
(* that runs after a message (GroupCallbacks, Results, Retries, Pipelines),*)
(* one hook after the other, and what cuts in between two of them, a crash *)
(* or an interrupt (TimeLimitExceeded, Shutdown).                          *)
(***************************************************************************)
EXTENDS Naturals, FiniteSets, SequencesExt

CONSTANTS
  Children,       \* of the group: pipelines
  Length,         \* their numbers of messages
  Workers,
  Hooks,          \* after_process_message, in the order emit_after runs them
  MaxRetries,
  MaxFaults       \* bound: crashes, interrupts, failing enqueues and stores, together

HookNames == {"group", "results", "retries", "pipe"}
FaultNames == {"crash", "interrupt", "error", "store"}

(* No middleware is added twice, which add_middleware warns of.            *)
ASSUME CompositionAssumption ==
  /\ IsFiniteSet(Children) /\ Children # {}
  /\ Length \in [Children -> Nat \ {0}]
  /\ Hooks \in Seq(HookNames) /\ IsInjective(Hooks)
  /\ MaxRetries \in Nat /\ MaxFaults \in Nat

Messages == UNION {{c} \X (1 .. Length[c]) : c \in Children}
Copies == Messages \X (0 .. MaxRetries)  \* a message and its retries so far
Following(m) == <<m[1], m[2] + 1>>
IsLast(m) == m[2] = Length[m[1]]

(* Mutant: the next message is enqueued whether or not this one succeeded. *)
ActsAlways(h, ok, m) == CASE h = "group" -> ok /\ IsLast(m)
                          [] h = "results" -> ok
                          [] h = "retries" -> ~ok
                          [] h = "pipe" -> ~IsLast(m)

(* The hooks that do not return at once for a message.                     *)
Acts(h, ok, m) == CASE h = "group" -> ok /\ IsLast(m)
                    [] h = "results" -> ok
                    [] h = "retries" -> ~ok
                    [] h = "pipe" -> ok /\ ~IsLast(m)
After(ok, x) == {h \in ToSet(Hooks) : Acts(h, ok, x[1])}
Rank == [h \in ToSet(Hooks) |-> CHOOSE i \in DOMAIN Hooks : Hooks[i] = h]

VARIABLES
  queue,      \* how many copies are queued
  producer,   \* group.run: the barrier is created, children enqueued
  worker,     \* what each worker does with which copy
  barrier,    \* the completion barrier, 0 when there is none
  result,     \* the results backend
  unstored,   \* messages whose result was lost: to store it raised
  completed,  \* messages whose actor returned at least once
  failed,     \* messages that failed for good
  begun,      \* messages that were ever enqueued
  called,     \* how often the callback was enqueued
  faults      \* the faults so far

vars == <<queue, producer, worker, barrier, result, unstored, completed, failed,
          begun, called, faults>>

NoWork == [pc |-> "idle", todo |-> {}, fail |-> FALSE, copy |-> {}]

TypeOK ==
  /\ queue \in [Copies -> Nat]
  /\ producer \in [pc : {"new", "created", "raised"}, sent : SUBSET Children]
  /\ \A w \in Workers :
       worker[w] \in [pc : {"idle", "act", "hook", "callback", "post", "nacked"},
                      todo : SUBSET HookNames, fail : BOOLEAN, copy : SUBSET Copies]
  /\ barrier \in 0 .. Cardinality(Children)
  /\ result \in [Messages -> {"none", "value", "exception"}]
  /\ {completed, failed, begun, unstored} \subseteq SUBSET Messages
  /\ called \in Nat
  /\ faults \in [FaultNames -> 0 .. MaxFaults]

Init ==
  /\ queue = [x \in Copies |-> 0]
  /\ producer = [pc |-> "new", sent |-> {}]
  /\ worker = [w \in Workers |-> NoWork]
  /\ barrier = 0
  /\ result = [m \in Messages |-> "none"]
  /\ completed = {} /\ failed = {} /\ begun = {} /\ unstored = {} /\ called = 0
  /\ faults = [f \in FaultNames |-> 0]

Fault(f) ==
  /\ faults["crash"] + faults["interrupt"] + faults["error"] + faults["store"] < MaxFaults
  /\ faults' = [faults EXCEPT ![f] = @ + 1]

(* An enqueue, or its exception.                                           *)
Put(x) == /\ queue' = [queue EXCEPT ![x] = @ + 1]
          /\ begun' = begun \cup {x[1]}
          /\ UNCHANGED faults
PutFails == Fault("error") /\ UNCHANGED <<queue, begun>>

-----------------------------------------------------------------------------
(* group.run()                                                             *)

OutsideProducer == UNCHANGED <<worker, result, unstored, completed, failed, called>>

CreateBarrier ==
  /\ producer.pc = "new"
  /\ barrier' = Cardinality(Children)
  /\ producer' = [producer EXCEPT !.pc = "created"]
  /\ OutsideProducer /\ UNCHANGED <<queue, begun, faults>>

(* Mutant: children are enqueued before the barrier is there.              *)
RunAnyTime(c) ==
  /\ producer.pc # "raised" /\ c \notin producer.sent
  /\ \/ Put(<<<<c, 1>>, 0>>) /\ producer' = [producer EXCEPT !.sent = @ \cup {c}]
     \/ PutFails /\ producer' = [producer EXCEPT !.pc = "raised"]
  /\ OutsideProducer /\ UNCHANGED barrier

(* A child is enqueued, or the group raises and enqueues no more.          *)
Run(c) ==
  /\ producer.pc = "created" /\ c \notin producer.sent
  /\ \/ Put(<<<<c, 1>>, 0>>) /\ producer' = [producer EXCEPT !.sent = @ \cup {c}]
     \/ PutFails /\ producer' = [producer EXCEPT !.pc = "raised"]
  /\ OutsideProducer /\ UNCHANGED barrier

-----------------------------------------------------------------------------
(* WorkerThread.process_message()                                          *)

OutsideWorker == UNCHANGED producer

Receive(w) ==
  /\ worker[w].pc = "idle"
  /\ \E x \in Copies :
       /\ queue[x] > 0
       /\ queue' = [queue EXCEPT ![x] = @ - 1]
       /\ worker' = [worker EXCEPT ![w] = [NoWork EXCEPT !.pc = "act", !.copy = {x}]]
  /\ OutsideWorker
  /\ UNCHANGED <<barrier, result, unstored, completed, failed, begun, called, faults>>

Todo(w, hooks) ==
  [worker[w] EXCEPT !.pc = IF hooks = {} THEN "post" ELSE "hook", !.todo = hooks]
HookDone(w, h) == Todo(w, worker[w].todo \ {h})
Hook(w, h) ==
  /\ worker[w].pc = "hook" /\ h \in worker[w].todo
  /\ \A g \in worker[w].todo : Rank[h] <= Rank[g]

Complete(w, ok) ==
  completed' = IF ok THEN completed \cup {x[1] : x \in worker[w].copy} ELSE completed

(* The actor returns or raises, and the hooks begin.                       *)
Act(w) ==
  /\ worker[w].pc = "act"
  /\ \E ok \in BOOLEAN, x \in worker[w].copy :
       /\ Complete(w, ok)
       /\ worker' = [worker EXCEPT ![w] = Todo(w, After(ok, x))]
  /\ OutsideWorker /\ UNCHANGED <<queue, barrier, result, unstored, failed, begun, called, faults>>

(* Mutant: the barrier is taken to be cleared at zero.                     *)
WaitAtZero(w) ==
  /\ Hook(w, "group")
  /\ \/ barrier < 1 /\ worker' = [worker EXCEPT ![w].pc = "callback"] /\ UNCHANGED barrier
     \/ barrier >= 1 /\ worker' = [worker EXCEPT ![w] = HookDone(w, "group")] /\ barrier' = barrier - 1
  /\ OutsideWorker
  /\ UNCHANGED <<queue, result, unstored, completed, failed, begun, called, faults>>

(* GroupCallbacks: the last message of a child waits on the barrier, without
   blocking; the one that cannot count below one goes on to the callback.  *)
Wait(w) ==
  /\ Hook(w, "group")
  /\ \/ barrier < 2 /\ worker' = [worker EXCEPT ![w].pc = "callback"] /\ UNCHANGED barrier
     \/ barrier >= 2 /\ worker' = [worker EXCEPT ![w] = HookDone(w, "group")] /\ barrier' = barrier - 1
  /\ OutsideWorker
  /\ UNCHANGED <<queue, result, unstored, completed, failed, begun, called, faults>>

(* The callback is enqueued; emit_after swallows the exception if not.     *)
Callback(w) ==
  /\ worker[w].pc = "callback"
  /\ worker' = [worker EXCEPT ![w] = HookDone(w, "group")]
  /\ \/ called' = called + 1 /\ UNCHANGED <<queue, begun, faults>>
     \/ PutFails /\ UNCHANGED called
  /\ OutsideWorker /\ UNCHANGED <<barrier, result, unstored, completed, failed>>

(* Results: the value is stored; emit_after swallows the exception if not. *)
StoreResult(w) ==
  /\ Hook(w, "results")
  /\ \E x \in worker[w].copy :
       \/ result' = [result EXCEPT ![x[1]] = "value"] /\ UNCHANGED <<unstored, faults>>
       \/ Fault("store") /\ unstored' = unstored \cup {x[1]} /\ UNCHANGED result
  /\ worker' = [worker EXCEPT ![w] = HookDone(w, "results")]
  /\ OutsideWorker /\ UNCHANGED <<queue, barrier, completed, failed, begun, called>>

(* Retries: another copy; or the message fails, out of retries or because
   the actor's "throws" names the exception.                               *)
Retry(w) ==
  /\ Hook(w, "retries")
  /\ \E x \in worker[w].copy :
       \/ /\ x[2] < MaxRetries
          /\ Put(<<x[1], x[2] + 1>>) \/ PutFails
          /\ worker' = [worker EXCEPT ![w] = HookDone(w, "retries")]
       \/ /\ worker' = [worker EXCEPT ![w] = [HookDone(w, "retries") EXCEPT !.fail = TRUE]]
          /\ UNCHANGED <<queue, begun, faults>>
  /\ OutsideWorker /\ UNCHANGED <<barrier, result, unstored, completed, failed, called>>

(* Pipelines: the next message is enqueued.                                *)
Pipe(w) ==
  /\ Hook(w, "pipe")
  /\ \E x \in worker[w].copy : Put(<<Following(x[1]), 0>>) \/ PutFails
  /\ worker' = [worker EXCEPT ![w] = HookDone(w, "pipe")]
  /\ OutsideWorker /\ UNCHANGED <<barrier, result, unstored, completed, failed, called>>

(* The message is acked, or rejected.                                      *)
Post(w) ==
  /\ worker[w].pc = "post"
  /\ \E x \in worker[w].copy :
       IF worker[w].fail
       THEN /\ failed' = failed \cup {x[1]}
            /\ worker' = [worker EXCEPT ![w].pc = "nacked"]
       ELSE worker' = [worker EXCEPT ![w] = NoWork] /\ UNCHANGED failed
  /\ OutsideWorker
  /\ UNCHANGED <<queue, barrier, result, unstored, completed, begun, called, faults>>

(* Results: why it was rejected is stored, or not.                         *)
StoreException(w) ==
  /\ worker[w].pc = "nacked"
  /\ \E x \in worker[w].copy :
       \/ result' = [result EXCEPT ![x[1]] = "exception"] /\ UNCHANGED faults
       \/ Fault("store") /\ UNCHANGED result
  /\ worker' = [worker EXCEPT ![w] = NoWork]
  /\ OutsideWorker
  /\ UNCHANGED <<queue, barrier, unstored, completed, failed, begun, called>>

WorkerStep(w) ==
  \/ Receive(w) \/ Act(w) \/ Wait(w) \/ Callback(w) \/ StoreResult(w)
  \/ Retry(w) \/ Pipe(w) \/ Post(w) \/ StoreException(w)

(* An interrupt between two hooks of a message that succeeded: no hook
   catches it, and the hooks run again, for a failure.                     *)
Interrupt(w) ==
  /\ worker[w].pc \in {"hook", "callback"} /\ ~Hook(w, "retries")
  /\ Fault("interrupt")
  /\ \E x \in worker[w].copy :
       worker' = [worker EXCEPT ![w] = Todo(w, After(FALSE, x))]
  /\ OutsideWorker /\ UNCHANGED <<queue, barrier, result, unstored, completed, failed, begun, called>>

(* A worker crashes; what it had is delivered again.                       *)
Crash(w) ==
  /\ worker[w].pc # "idle"
  /\ Fault("crash")
  /\ queue' = [x \in Copies |-> IF x \in worker[w].copy /\ worker[w].pc # "nacked"
                                THEN queue[x] + 1 ELSE queue[x]]
  /\ worker' = [worker EXCEPT ![w] = NoWork]
  /\ OutsideWorker /\ UNCHANGED <<barrier, result, unstored, completed, failed, begun, called>>

Next ==
  \/ CreateBarrier \/ \E c \in Children : Run(c)
  \/ \E w \in Workers : WorkerStep(w) \/ Interrupt(w) \/ Crash(w)

(* The producer and the workers go on.                                     *)
Fairness == /\ WF_vars(CreateBarrier) /\ \A c \in Children : WF_vars(Run(c))
            /\ \A w \in Workers : WF_vars(WorkerStep(w))

Spec == Init /\ [][Next]_vars /\ Fairness

-----------------------------------------------------------------------------
(* Properties.                                                             *)

LastOf(c) == <<c, Length[c]>>
AllCompleted == \A c \in Children : LastOf(c) \in completed

(* "Adds a completion callback to run once every job in this group has
   completed successfully ... If any job in the group does not complete
   successfully, the completion callback will not be run."
   (composition.py:204-210)                                                *)
CallbackAfterAll == called > 0 => AllCompleted

(* So it is unless a message was processed again after its actor returned,
   whatever else fails; and each such message has it enqueued at most once
   more than the one time the group should.                                *)
Again == faults["crash"] + faults["interrupt"]
CallbackOnce ==
  TypeOK /\ called <= 1 + Again /\ (Again = 0 => CallbackAfterAll)

(* A failing enqueue may lose a job, a message that is processed again may
   fail the second time, and an interrupted one is retried.                *)
Spoilt(m) == m \in failed \/ faults["error"] > 0 \/ faults["interrupt"] > 0

(* The callback of a group whose jobs all completed is enqueued, even if a
   worker crashes between clearing the barrier and enqueueing it.          *)
CallbackRuns ==
  AllCompleted ~> called > 0 \/ \E c \in Children : Spoilt(LastOf(c))

(* The next message of a pipeline, which was given the result of the one
   before as an argument (pipelines.py:56), does not get ahead of it: that
   result is in the backend, where the pipeline's get_results looks for it,
   whatever crash, interrupt and retry came.  Only if storing it raised, which
   emit_after logs and goes on from (broker.py:126), is it missing.         *)
ResultsBeforeNext ==
  \A m \in begun : LET before == <<m[1], m[2] - 1>> IN
    m[2] > 1 => result[before] # "none" \/ before \in unstored

(* A pipeline goes on from each message that completed, through crashes.   *)
PipelineGoesOn ==
  \A m \in {x \in Messages : ~IsLast(x)} :
    m \in completed ~> Following(m) \in begun \/ Spoilt(m)

(* And each message that was enqueued completes or fails for good.         *)
MessagesEnd ==
  \A m \in Messages : m \in begun ~> m \in completed \cup failed \/ faults["error"] > 0

(* Together: a group that was run comes to its callback, or to a failure.  *)
GroupGoesOn == CallbackRuns /\ PipelineGoesOn /\ MessagesEnd
=============================================================================
