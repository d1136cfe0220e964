------------------------------- MODULE Worker -------------------------------
(***************************************************************************)
(* One worker process on the Redis broker: a consumer thread per queue     *)
(* name, which polls the broker and holds delayed messages until their     *)
(* eta, worker threads that take messages off the shared work queue, and   *)
(* the main thread, which pauses, resumes and stops them (worker.py), over *)
(* the consumers of brokers/redis.py and the store of RedisStore.          *)
(*                                                                         *)
(* A job is what a caller of send() asked for.  It is carried by one       *)
(* message after another: a delayed message is moved to its queue as a     *)
(* copy, and a retry is a delayed copy.                                    *)
(***************************************************************************)
EXTENDS RedisStore

CONSTANTS
  Me,           \* the broker id of this process
  Threads,      \* worker threads
  Prefetch,     \* messages a consumer may have outstanding, per queue name
  Jobs,
  None,         \* no message in hand
  NoJob,
  Setups,       \* where jobs are sent, which are bad, the retries of a job, whether stop() may give
                \* up waiting for its threads or come before they run, and bounds:
                \* pauses, and calls to the server that fail
  MaxStops      \* bound: 1 if the worker may be stopped

(* A queue is declared together with its delay queue.  Threads are none of
   the names that the flags of consumers and the places of messages have.  *)
ASSUME WorkerAssumption ==
  /\ Me \in Workers
  /\ QueueNames # {}
  /\ \A q \in QueueNames : \E n \in QueueNames :
       Canonical[n] # n /\ Canonical[n] = Canonical[q]
  /\ Threads \cap (QueueNames \cup {"cache", "hand", "delayQ", "workQueue", "drained"}) = {}
  /\ Prefetch \in [QueueNames -> Nat \ {0}]
  /\ None \notin Ids /\ NoJob \notin Jobs
  /\ MaxStops \in Nat /\ IsFiniteSet(Jobs)
  /\ Setups \subseteq [queues    : [Jobs -> SUBSET QueueNames],  \* where they are sent
                       poison    : SUBSET Jobs,   \* their messages cannot be decoded
                       unknown   : SUBSET Jobs,   \* their actor is not declared
                       impatient : BOOLEAN, early : BOOLEAN,
                       retries : Nat, pauses : Nat, failures : Nat]

VARIABLES
  setup,      \* one of Setups
  store,      \* what the Redis server holds
  job,        \* the job each message carries, or NoJob: its message_id, which a
              \* retry and a delayed copy share with the message they come from
  finished,   \* jobs that succeeded or were given up
  retries,    \* retries per job
  unretried,  \* jobs of which a retry could not be enqueued
  consumer,   \* the consumer thread of each queue name
  thread,     \* the worker threads
  workQueue,  \* <<id, queue name>> of the messages ready for a thread
  running,    \* the running flag of each thread
  paused,     \* the paused flag of each thread
  main,       \* what the main thread does
  failures    \* calls that failed so far

vars == <<setup, store, job, finished, retries, unretried, consumer, thread, workQueue,
          running, paused, main, failures>>
work == <<setup, job, finished, retries, unretried>>

IsDelay(n) == Canonical[n] # n
Children == Threads \cup QueueNames

Consumer == [pc       : {"new", "top", "paused", "next", "handle", "reject",
                         "delayed", "copy", "ackcopy", "error", "restart", "stopped", "dead"},
             at       : Ids \cup {None},
             cache    : Seq(Ids),
             queued   : SUBSET Jobs,   \* the consumer's queued_message_ids
             delayQ   : SUBSET Ids,
             pending  : Nat,
             event    : BOOLEAN]
Thread == [pc     : {"new", "idle", "get", "paused", "run", "post", "stopped"},
           at     : Ids \cup {None},
           queue  : QueueNames,
           failed : BOOLEAN,
           event  : BOOLEAN]
Main == [pc      : {"up", "pausing", "resuming", "stopping", "joining", "draining",
                    "requeue", "closing", "done", "failed"},
         toTell  : SUBSET Children,           \* whose flag is still to be set
         toClear : SUBSET Children,           \* whose event is cleared next
         drained : SUBSET (Ids \X QueueNames), \* taken off the work queue by stop()
         toClose : SUBSET QueueNames,
         pauses  : Nat,
         stops   : 0 .. MaxStops,
         gaveUp  : BOOLEAN,   \* stop() did not wait for a thread to end
         early   : BOOLEAN]   \* a thread was told to stop before it ran

TypeOK ==
  /\ setup \in Setups
  /\ store \in Store
  /\ job \in [Ids -> Jobs \cup {NoJob}]
  /\ finished \subseteq Jobs
  /\ retries \in [Jobs -> 0 .. setup.retries]
  /\ unretried \subseteq Jobs
  /\ consumer \in [QueueNames -> Consumer]
  /\ thread \in [Threads -> Thread]
  /\ workQueue \subseteq Ids \X QueueNames
  /\ running \in [Children -> BOOLEAN]
  /\ paused \in [Children -> BOOLEAN]
  /\ main \in Main
  /\ failures \in 0 .. setup.failures

(* A consumer thread and a worker thread as they are started.              *)
NewConsumer == [pc |-> "new", at |-> None, cache |-> <<>>, queued |-> {},
                delayQ |-> {}, pending |-> 0, event |-> FALSE]
NewThread == [pc |-> "new", at |-> None, queue |-> CHOOSE n \in QueueNames : TRUE,
              failed |-> FALSE, event |-> FALSE]

Init ==
  /\ setup \in Setups
  /\ store = EmptyStore
  /\ job = [id \in Ids |-> NoJob]
  /\ finished = {}
  /\ retries = [j \in Jobs |-> 0]
  /\ unretried = {}
  /\ consumer = [n \in QueueNames |->
       IF setup.early THEN NewConsumer ELSE [NewConsumer EXCEPT !.pc = "top"]]
  /\ thread = [t \in Threads |->
       IF setup.early THEN NewThread ELSE [NewThread EXCEPT !.pc = "idle"]]
  /\ workQueue = {}
  /\ running = [c \in Children |-> ~setup.early]
  /\ paused = [c \in Children |-> FALSE]
  /\ main = [pc |-> "up", toTell |-> {}, toClear |-> {}, drained |-> {}, toClose |-> {},
             pauses |-> 0, stops |-> 0, gaveUp |-> FALSE, early |-> FALSE]
  /\ failures = 0

(* A call to the server that turns the store into s.                       *)
Works(s) == store' = s /\ UNCHANGED failures

(* A call that raises a ConnectionError, before or after the server ran
   the command.                                                            *)
Breaks(s) ==
  /\ failures < setup.failures
  /\ failures' = failures + 1
  /\ store' \in {store, s}

(* The store in which a command of this process runs.                      *)
Server == Heartbeat(store, Me)

Fresh == CHOOSE id \in Ids : job[id] = NoJob
HasFresh == \E id \in Ids : job[id] = NoJob

(* A caller in another process enqueues a job, delayed or not.             *)
Send(j, n) ==
  /\ \A id \in Ids : job[id] # j
  /\ n \in setup.queues[j] /\ HasFresh
  /\ job' = [job EXCEPT ![Fresh] = j]
  /\ store' = Enqueued(store, n, Fresh)
  /\ UNCHANGED <<setup, finished, retries, unretried, consumer, thread, workQueue,
                 running, paused, main, failures>>

-----------------------------------------------------------------------------
(* Consumer threads.                                                       *)

Goto(n, pc) == [consumer EXCEPT ![n].pc = pc]
ConsumerOnly == UNCHANGED <<work, thread, workQueue, running, paused, main>>

(* run() sets the flag that stop() clears, whichever comes first.          *)
ConsumerStarts(n) ==
  /\ consumer[n].pc = "new"
  /\ running' = [running EXCEPT ![n] = TRUE]
  /\ consumer' = Goto(n, "top")
  /\ UNCHANGED <<work, thread, workQueue, paused, main, store, failures>>

(* The top of the loop: stop, pause, or make a new consumer.               *)
ConsumerTop(n) ==
  /\ consumer[n].pc = "top"
  /\ IF ~running[n] THEN consumer' = Goto(n, "stopped")
     ELSE IF paused[n] THEN consumer' = Goto(n, "paused")
     ELSE consumer' = [consumer EXCEPT ![n].pc = "next",
                                       ![n].cache = <<>>,
                                       ![n].queued = {}]
  /\ ConsumerOnly /\ UNCHANGED <<store, failures>>

ConsumerPaused(n) ==
  /\ consumer[n].pc = "paused"
  /\ consumer' = [consumer EXCEPT ![n].pc = "top", ![n].event = TRUE]
  /\ ConsumerOnly /\ UNCHANGED <<store, failures>>

(* Mutant: messages in progress are not counted.                           *)
OutstandingCached(n) == Len(consumer[n].cache)

Outstanding(n) == Cardinality(consumer[n].queued) + Len(consumer[n].cache)

(* __next__ found nothing: a paused consumer leaves the loop and restarts. *)
AfterNone(n) == IF paused[n] THEN "restart" ELSE "delayed"

(* __next__ with a message in the cache.  It is counted by its message_id. *)
NextCached(n) ==
  /\ consumer[n].pc = "next" /\ consumer[n].cache # <<>>
  /\ LET id == Head(consumer[n].cache)
         rest == [consumer EXCEPT ![n].cache = Tail(@)]
     IN  consumer' = IF job[id] \in setup.poison THEN [rest EXCEPT ![n].pc = "error"]
                     ELSE [rest EXCEPT ![n].pc = "handle",
                                       ![n].at = id,
                                       ![n].queued = @ \cup {job[id]}]
  /\ ConsumerOnly /\ UNCHANGED <<store, failures>>

NextFull(n) ==
  /\ consumer[n].pc = "next" /\ consumer[n].cache = <<>>
  /\ Outstanding(n) >= Prefetch[n]
  /\ consumer' = Goto(n, AfterNone(n))
  /\ ConsumerOnly /\ UNCHANGED <<store, failures>>

(* On a connection error the consumer thread replaces its delay queue.     *)
NextFetch(n) ==
  /\ consumer[n].pc = "next" /\ consumer[n].cache = <<>>
  /\ Outstanding(n) < Prefetch[n]
  /\ LET size == Prefetch[n] - Outstanding(n)
         ids == Popped(Server, n, size)
         s == Fetched(Server, Me, n, size)
     IN  \/ /\ Works(s)
            /\ consumer' = IF ids = <<>> THEN Goto(n, AfterNone(n))
                           ELSE [consumer EXCEPT ![n].cache = ids]
         \/ /\ Breaks(s)
            /\ consumer' = [consumer EXCEPT ![n].pc = "restart",
                                            ![n].delayQ = {},
                                            ![n].pending = 0]
  /\ ConsumerOnly

HandleMessage(n) ==
  /\ consumer[n].pc = "handle"
  /\ LET id == consumer[n].at IN
     \/ /\ IsDelay(n)
        /\ consumer' = [consumer EXCEPT ![n].pc = "delayed",
                                        ![n].at = None,
                                        ![n].delayQ = @ \cup {id},
                                        ![n].pending = @ + 1]
        /\ UNCHANGED <<workQueue, finished>>
     \/ /\ ~IsDelay(n) /\ job[id] \notin setup.unknown
        /\ consumer' = [consumer EXCEPT ![n].pc = "delayed", ![n].at = None]
        /\ workQueue' = workQueue \cup {<<id, n>>}
        /\ UNCHANGED finished
     \/ /\ ~IsDelay(n) /\ job[id] \in setup.unknown
        /\ consumer' = Goto(n, "reject")
        /\ finished' = finished \cup {job[id]}
        /\ UNCHANGED workQueue
  /\ UNCHANGED <<setup, store, failures, job, retries, unretried, thread, running,
                 paused, main>>

(* post_process_message: ack or nack until the connection works; the
   consumer stops counting the message_id either way.                      *)
Post(n, id, failed, ok, again) ==
  LET s == IF failed THEN Nacked(Server, Me, n, id)
           ELSE Acknowledged(Server, Me, n, id)
  IN  (Works(s) /\ ok) \/ (Breaks(s) /\ again)

RejectUnknown(n) ==
  /\ consumer[n].pc = "reject"
  /\ LET discarded == [consumer EXCEPT ![n].queued = @ \ {job[consumer[n].at]}]
     IN  Post(n, consumer[n].at, TRUE,
              consumer' = [discarded EXCEPT ![n].pc = "delayed", ![n].at = None],
              consumer' = discarded)
  /\ ConsumerOnly

(* handle_delayed_messages takes the message with the lowest eta, if that
   eta has passed; otherwise the loop goes on.                             *)
DelayedDue(n) ==
  /\ consumer[n].pc = "delayed"
  /\ \E id \in consumer[n].delayQ :
       consumer' = [consumer EXCEPT ![n].pc = "copy",
                                    ![n].at = id,
                                    ![n].delayQ = @ \ {id}]
  /\ ConsumerOnly /\ UNCHANGED <<store, failures>>

DelayedNone(n) ==
  /\ consumer[n].pc = "delayed"
  /\ consumer' = Goto(n, IF running[n] THEN "next" ELSE "stopped")
  /\ ConsumerOnly /\ UNCHANGED <<store, failures>>

(* Mutant: the delayed message is acked before its copy is enqueued.       *)
AckThenCopy(n) ==
  /\ consumer[n].pc = "copy"
  /\ Works(Acknowledged(Server, Me, n, consumer[n].at))
  /\ consumer' = Goto(n, "ackcopy")
  /\ ConsumerOnly

(* The copy goes to the queue proper.  The error of a failed enqueue is no
   BrokerConnectionError: it goes to the handler of unexpected errors.     *)
CopyDelayed(n) ==
  /\ consumer[n].pc = "copy"
  /\ HasFresh
  /\ LET s == Enqueued(Server, Canonical[n], Fresh) IN
     \/ /\ Works(s)
        /\ consumer' = Goto(n, "ackcopy")
     \/ /\ Breaks(s)
        /\ consumer' = [consumer EXCEPT ![n].pc = "error", ![n].at = None]
  /\ job' = IF Fresh \in store'.msgs[Canonical[n]]
            THEN [job EXCEPT ![Fresh] = job[consumer[n].at]] ELSE job
  /\ UNCHANGED <<setup, finished, retries, unretried, thread, workQueue, running,
                 paused, main>>

AckCopied(n) ==
  /\ consumer[n].pc = "ackcopy"
  /\ LET discarded == [consumer EXCEPT ![n].queued = @ \ {job[consumer[n].at]}]
     IN  Post(n, consumer[n].at, FALSE,
              consumer' = [discarded EXCEPT ![n].pc = "delayed",
                                            ![n].at = None,
                                            ![n].pending = @ - 1],
              consumer' = discarded)
  /\ ConsumerOnly

requeue_messages(n, ids, ok, raised) ==
  \E order \in Orders(Returnable(Server, Me, n, ids)) :
    LET s == Requeued(Server, Me, n, ids, order)
    IN  (Works(s) /\ ok) \/ (Breaks(s) /\ raised)

(* close() empties the delay queue and gives its messages back.  The error
   of a failed requeue is not caught: the thread that closes ends.         *)
Close(n, ok, raised) ==
  IF consumer[n].delayQ = {} THEN ok /\ UNCHANGED <<store, failures>>
  ELSE requeue_messages(n, consumer[n].delayQ, ok, raised)

Emptied(n, pc) == [consumer EXCEPT ![n].delayQ = {}, ![n].pc = pc]

ConsumerError(n) ==
  /\ consumer[n].pc = "error"
  /\ Close(n, consumer' = Emptied(n, "restart"), consumer' = Emptied(n, "dead"))
  /\ ConsumerOnly

ConsumerRestart(n) ==
  /\ consumer[n].pc = "restart"
  /\ IF running[n]
     THEN Close(n, consumer' = Emptied(n, "top"), consumer' = Emptied(n, "dead"))
     ELSE consumer' = Goto(n, "stopped") /\ UNCHANGED <<store, failures>>
  /\ ConsumerOnly

ConsumerStep(n) ==
  \/ ConsumerStarts(n) \/ ConsumerTop(n) \/ ConsumerPaused(n)
  \/ NextCached(n) \/ NextFull(n) \/ NextFetch(n)
  \/ HandleMessage(n) \/ RejectUnknown(n)
  \/ DelayedDue(n) \/ DelayedNone(n) \/ CopyDelayed(n) \/ AckCopied(n)
  \/ ConsumerError(n) \/ ConsumerRestart(n)

-----------------------------------------------------------------------------
(* Worker threads.                                                         *)

ThreadOnly == UNCHANGED <<consumer, running, paused, main>>

ThreadStarts(t) ==
  /\ thread[t].pc = "new"
  /\ running' = [running EXCEPT ![t] = TRUE]
  /\ thread' = [thread EXCEPT ![t].pc = "idle"]
  /\ UNCHANGED <<work, consumer, workQueue, paused, main, store, failures>>

(* Mutant: a paused thread does not look at its running flag.              *)
ThreadTopPausedFirst(t) ==
  /\ thread[t].pc = "idle"
  /\ thread' = [thread EXCEPT ![t].pc = IF paused[t] THEN "paused"
                                        ELSE IF running[t] THEN "get" ELSE "stopped"]
  /\ ThreadOnly /\ UNCHANGED <<work, workQueue, store, failures>>

(* The top of the loop: stop, pause, or go on to the work queue.           *)
ThreadTop(t) ==
  /\ thread[t].pc = "idle"
  /\ thread' = [thread EXCEPT ![t].pc = IF ~running[t] THEN "stopped"
                                        ELSE IF paused[t] THEN "paused" ELSE "get"]
  /\ ThreadOnly /\ UNCHANGED <<work, workQueue, store, failures>>

(* Mutant: a message is read off the work queue and left there.            *)
ThreadPeek(t) ==
  /\ thread[t].pc = "get"
  /\ \E item \in workQueue :
       thread' = [thread EXCEPT ![t].pc = "run", ![t].at = item[1],
                                ![t].queue = item[2]]
  /\ ThreadOnly /\ UNCHANGED <<work, workQueue, store, failures>>

(* get() waits for a message until its timeout.  Meanwhile the thread may be
   paused or stopped: it processes what it gets all the same.              *)
ThreadGet(t) ==
  /\ thread[t].pc = "get"
  /\ \/ \E item \in workQueue :
          /\ workQueue' = workQueue \ {item}
          /\ thread' = [thread EXCEPT ![t].pc = "run",
                                     ![t].at = item[1],
                                     ![t].queue = item[2]]
     \/ /\ workQueue = {}
        /\ thread' = [thread EXCEPT ![t].pc = "idle"]
        /\ UNCHANGED workQueue
  /\ ThreadOnly /\ UNCHANGED <<work, store, failures>>

ThreadPaused(t) ==
  /\ thread[t].pc = "paused"
  /\ thread' = [thread EXCEPT ![t].pc = "idle", ![t].event = TRUE]
  /\ ThreadOnly /\ UNCHANGED <<work, workQueue, store, failures>>

(* The actor succeeds, or fails for good: the message is acked or nacked.  *)
Finish(t) ==
  /\ thread[t].pc = "run"
  /\ \E failed \in BOOLEAN :
       thread' = [thread EXCEPT ![t].pc = "post", ![t].failed = failed]
  /\ finished' = finished \cup {job[thread[t].at]}
  /\ ThreadOnly
  /\ UNCHANGED <<setup, job, retries, unretried, workQueue, store, failures>>

(* The actor fails and Retries enqueues a delayed copy.  emit_after logs
   whatever Retries raises: the message is acked in any case.              *)
RetryLater(t) ==
  LET j == job[thread[t].at]
      dq == CHOOSE n \in QueueNames :
              IsDelay(n) /\ Canonical[n] = Canonical[thread[t].queue]
      s == Enqueued(Server, dq, Fresh)
  IN  /\ thread[t].pc = "run"
      /\ retries[j] < setup.retries
      /\ HasFresh
      /\ Works(s) \/ Breaks(s)
      /\ IF Fresh \in store'.msgs[dq]
         THEN job' = [job EXCEPT ![Fresh] = j] /\ UNCHANGED unretried
         ELSE unretried' = unretried \cup {j} /\ UNCHANGED job
      /\ retries' = [retries EXCEPT ![j] = @ + 1]
      /\ thread' = [thread EXCEPT ![t].pc = "post", ![t].failed = FALSE]
      /\ ThreadOnly /\ UNCHANGED <<setup, finished, workQueue>>

(* Mutant: the consumer goes on counting a message that was settled.       *)
PostUncounted(t) ==
  /\ thread[t].pc = "post"
  /\ Post(thread[t].queue, thread[t].at, thread[t].failed,
          thread' = [thread EXCEPT ![t].pc = "idle", ![t].at = None,
                                   ![t].failed = FALSE],
          UNCHANGED thread)
  /\ UNCHANGED <<work, consumer, workQueue, running, paused, main>>

PostProcess(t) ==
  /\ thread[t].pc = "post"
  /\ Post(thread[t].queue, thread[t].at, thread[t].failed,
          thread' = [thread EXCEPT ![t].pc = "idle", ![t].at = None,
                                   ![t].failed = FALSE],
          UNCHANGED thread)
  /\ consumer' = [consumer EXCEPT ![thread[t].queue].queued = @ \ {job[thread[t].at]}]
  /\ UNCHANGED <<work, workQueue, running, paused, main>>

ThreadStep(t) == \/ ThreadStarts(t) \/ ThreadTop(t) \/ ThreadPaused(t)
                 \/ ThreadGet(t) \/ Finish(t) \/ RetryLater(t) \/ PostProcess(t)

-----------------------------------------------------------------------------
(* The main thread.                                                        *)

MainOnly == UNCHANGED <<work, store, failures, workQueue>>

Paused == \E c \in Children : paused[c]

Pause ==
  /\ main.pc = "up" /\ ~Paused /\ main.pauses < setup.pauses
  /\ main' = [main EXCEPT !.pc = "pausing", !.toTell = Children, !.pauses = @ + 1]
  /\ MainOnly /\ UNCHANGED <<consumer, thread, running, paused>>

Resume ==
  /\ main.pc = "up" /\ Paused
  /\ main' = [main EXCEPT !.pc = "resuming", !.toTell = Children]
  /\ MainOnly /\ UNCHANGED <<consumer, thread, running, paused>>

(* pause() and resume() tell one child after the other, the consumers before
   the worker threads: they set its flag, and then clear its event.        *)
TellChild(c) ==
  /\ main.pc \in {"pausing", "resuming"} /\ main.toClear = {}
  /\ c \in main.toTell /\ (c \in QueueNames \/ main.toTell \subseteq Threads)
  /\ main' = [main EXCEPT !.toTell = @ \ {c}, !.toClear = {c}]
  /\ paused' = [paused EXCEPT ![c] = main.pc = "pausing"]
  /\ MainOnly /\ UNCHANGED <<consumer, thread, running>>

(* Mutant: the event of an earlier pause is not cleared.                   *)
KeepEvent(c) ==
  /\ c \in main.toClear
  /\ main' = [main EXCEPT !.toClear = {}]
  /\ MainOnly /\ UNCHANGED <<consumer, thread, running, paused>>

ClearEvent(c) ==
  /\ c \in main.toClear
  /\ main' = [main EXCEPT !.toClear = {}]
  /\ IF c \in QueueNames
     THEN consumer' = [consumer EXCEPT ![c].event = FALSE] /\ UNCHANGED thread
     ELSE thread' = [thread EXCEPT ![c].event = FALSE] /\ UNCHANGED consumer
  /\ MainOnly /\ UNCHANGED <<running, paused>>

AllTold == main.toTell = {} /\ main.toClear = {}

(* pause() returns once every thread has signalled that it is paused.      *)
AllPaused == /\ \A n \in QueueNames : consumer[n].event
             /\ \A t \in Threads : thread[t].event
PauseReturns ==
  /\ main.pc = "pausing" /\ AllTold /\ AllPaused
  /\ main' = [main EXCEPT !.pc = "up"]
  /\ MainOnly /\ UNCHANGED <<consumer, thread, running, paused>>

ResumeReturns ==
  /\ main.pc = "resuming" /\ AllTold
  /\ main' = [main EXCEPT !.pc = "up"]
  /\ MainOnly /\ UNCHANGED <<consumer, thread, running, paused>>

(* stop() stops the worker threads, waits, stops the consumers, waits.     *)
Stop ==
  /\ main.pc = "up" /\ main.stops < MaxStops
  /\ main' = [main EXCEPT !.pc = "stopping", !.toTell = Threads, !.stops = @ + 1]
  /\ MainOnly /\ UNCHANGED <<consumer, thread, running, paused>>

New(c) == IF c \in QueueNames THEN consumer[c].pc = "new" ELSE thread[c].pc = "new"
StopChild(c) ==
  /\ main.pc \in {"stopping", "joining"} /\ c \in main.toTell
  /\ main' = [main EXCEPT !.toTell = @ \ {c}, !.early = @ \/ New(c)]
  /\ running' = [running EXCEPT ![c] = FALSE]
  /\ MainOnly /\ UNCHANGED <<consumer, thread, paused>>

WorkersJoined ==
  /\ main.pc = "stopping" /\ AllTold
  /\ LET ended == \A t \in Threads : thread[t].pc = "stopped" IN
     /\ setup.impatient \/ ended
     /\ main' = [main EXCEPT !.pc = "joining", !.toTell = QueueNames, !.gaveUp = ~ended]
  /\ MainOnly /\ UNCHANGED <<consumer, thread, running, paused>>

ConsumersJoined ==
  /\ main.pc = "joining" /\ AllTold
  /\ LET ended == \A n \in QueueNames : consumer[n].pc \in {"stopped", "dead"} IN
     /\ setup.impatient \/ ended
     /\ main' = [main EXCEPT !.pc = "draining", !.gaveUp = @ \/ ~ended]
  /\ MainOnly /\ UNCHANGED <<consumer, thread, running, paused>>

(* The work queue is emptied, message by message.                          *)
DrainWork ==
  /\ main.pc = "draining"
  /\ \/ \E item \in workQueue :
          /\ workQueue' = workQueue \ {item}
          /\ main' = [main EXCEPT !.drained = @ \cup {item}]
     \/ /\ workQueue = {}
        /\ main' = [main EXCEPT !.pc = "requeue"]
        /\ UNCHANGED workQueue
  /\ UNCHANGED <<work, consumer, thread, running, paused, store, failures>>

(* Mutant: stop() forgets the work queue.                                  *)
RequeueNothing ==
  /\ main.pc = "requeue"
  /\ main' = [main EXCEPT !.pc = "closing", !.toClose = QueueNames]
  /\ UNCHANGED <<work, consumer, thread, workQueue, running, paused, store, failures>>

(* What was on the work queue is given back, queue by queue; an error of the
   connection ends stop().                                                 *)
RequeueWork ==
  /\ main.pc = "requeue"
  /\ IF main.drained = {}
     THEN /\ main' = [main EXCEPT !.pc = "closing", !.toClose = QueueNames]
          /\ UNCHANGED <<store, failures>>
     ELSE \E n \in {item[2] : item \in main.drained} :
            LET ids == {item[1] : item \in {i \in main.drained : i[2] = n}}
                rest == main.drained \ (ids \X {n})
            IN  requeue_messages(n, ids, main' = [main EXCEPT !.drained = rest],
                     main' = [main EXCEPT !.drained = rest, !.pc = "failed"])
  /\ UNCHANGED <<work, consumer, thread, workQueue, running, paused>>

CloseConsumers ==
  /\ main.pc = "closing"
  /\ IF main.toClose = {}
     THEN /\ main' = [main EXCEPT !.pc = "done"]
          /\ UNCHANGED <<store, failures, consumer>>
     ELSE \E n \in main.toClose :
            /\ consumer' = Emptied(n, consumer[n].pc)
            /\ Close(n, main' = [main EXCEPT !.toClose = @ \ {n}],
                        main' = [main EXCEPT !.pc = "failed"])
  /\ UNCHANGED <<work, thread, workQueue, running, paused>>

PauseStep == PauseReturns \/ ResumeReturns
             \/ \E c \in Children : TellChild(c) \/ ClearEvent(c)
StopStep == \/ WorkersJoined \/ ConsumersJoined \/ DrainWork
            \/ RequeueWork \/ CloseConsumers
            \/ \E c \in Children : StopChild(c)

MainStep == Pause \/ Resume \/ PauseStep \/ Stop \/ StopStep

Next == \/ \E j \in Jobs, n \in QueueNames : Send(j, n)
        \/ \E n \in QueueNames : ConsumerStep(n)
        \/ \E t \in Threads : ThreadStep(t)
        \/ MainStep

Spec == Init /\ [][Next]_vars

-----------------------------------------------------------------------------
(* Properties.                                                             *)

(* The places of this process in which it holds messages of a queue.       *)
Places == {"cache", "hand", "delayQ", "workQueue", "drained"} \cup Threads
At(n, place) ==
  CASE place = "cache" -> ToSet(consumer[n].cache)
    [] place = "hand" -> {consumer[n].at} \ {None}
    [] place = "delayQ" -> consumer[n].delayQ
    [] place = "workQueue" -> {id \in Ids : <<id, n>> \in workQueue}
    [] place = "drained" -> {id \in Ids : <<id, n>> \in main.drained}
    [] OTHER -> IF thread[place].queue = n THEN {thread[place].at} \ {None} ELSE {}
InHand(n) == UNION {At(n, place) : place \in Places}

(* A job that was sent is finished, or a message in the store still carries
   it: a delayed message is acked only once its copy is enqueued, and no
   path of the worker acks a message that was neither processed nor
   replaced (advanced.rst:174, "only ever acknowledged ... after they have
   been successfully processed").  The exception is a message whose retry
   could not be enqueued: it is acked all the same (retries.py:148).       *)
NoJobLost ==
  \A id \in Ids :
    \/ job[id] \in finished \cup unretried \cup {NoJob}
    \/ \E i \in Ids, n \in QueueNames : job[i] = job[id] /\ i \in store.msgs[n]

(* A message the process holds is held in one place, and is not on the
   queue at the same time, where another worker would fetch it: a restart,
   a pause or a shutdown gives back only what no thread will process.      *)
HeldOnce ==
  /\ TypeOK
  /\ \A n \in QueueNames :
       /\ InHand(n) \cap ToSet(store.list[n]) = {}
       /\ \A p, r \in Places : p # r => At(n, p) \cap At(n, r) = {}

(* Every message that the server counts as fetched by this process is
   somewhere in the process: none waits for the process to die to be
   delivered again.  Once stop() is through, and did not give up waiting
   for a thread, what is left of them is in a consumer's own cache, which is
   not given back: the work queue and the delay queues are.
   Excused are a call that fails, and a message that cannot be decoded: it
   is forgotten itself, and with it what its consumer had in its cache.     *)
NoError == failures = 0 /\ \A id \in Ids : job[id] \notin setup.poison
NoneForgotten ==
  NoError =>
    /\ \A n \in QueueNames : store.acks[Me][n] \subseteq InHand(n)
    /\ main.pc = "done" /\ ~main.gaveUp =>
         \A n \in QueueNames : store.acks[Me][n] \subseteq ToSet(consumer[n].cache)

(* After pause() returned and until resume(), no thread processes anything
   and no consumer talks to the server.                                    *)
PausedIsQuiet ==
  main.pc = "up" /\ Paused =>
    /\ \A t \in Threads : thread[t].pc \in {"idle", "paused"}
    /\ \A n \in QueueNames : consumer[n].pc \in {"top", "paused"}

(* The messages of a queue that the process holds are within its prefetch,
   those in progress included (reference.rst:287), until a pause or an error
   makes a new consumer, which does not count those of the one before it.
   A retry whose original is not yet acked shares its entry in the count, and
   loses it to the ack (redis.py:315): so retries, which come by the delay
   queue, are within the prefetch there but may exceed it on their queue.  *)
WithinPrefetch ==
  main.pauses = 0 /\ NoError =>
    \A n \in QueueNames :
      LET counted == {id \in InHand(n) : IsDelay(n) \/ retries[job[id]] = 0}
      IN  Cardinality(counted) <= Prefetch[n]

(* Every thread keeps running; the actors return; the eta of a delayed
   message passes, and is then noticed by the consumer's loop.             *)
Fairness ==
  /\ \A n \in QueueNames : WF_vars(ConsumerStep(n)) /\ SF_vars(DelayedDue(n))
  /\ \A t \in Threads : WF_vars(ThreadStep(t))
  /\ WF_vars(PauseStep) /\ WF_vars(Resume) /\ WF_vars(StopStep)

FairSpec == Spec /\ Fairness

(* stop() comes to an end, whatever the threads are doing when it is
   called: paused, restarting, or retrying to ack a message.  A thread that
   was told to stop before it ran does not hear of it: stop() waits for it
   until its timeout.                                                      *)
StopEnds == main.pc = "stopping" ~> main.pc \in {"done", "failed"} \/ main.early

(* A worker that is not stopped finishes every job while the connections
   hold, and is not kept from it by having been paused.                    *)
JobsFinish == \A j \in Jobs :
  (\E id \in Ids : job[id] = j) ~> j \in finished \/ main.stops > 0 \/ failures > 0
=============================================================================
