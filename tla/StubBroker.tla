----------------------------- MODULE StubBroker -----------------------------
(***************************************************************************)
(* The broker for unit tests (brokers/stub.py): two queues of the standard *)
(* library, with their counts of unfinished tasks, the consumers that hand *)
(* messages to worker threads and move delayed ones back, Retries, and a   *)
(* test that enqueues jobs, joins the queue and flushes it.                *)
(***************************************************************************)
EXTENDS Naturals, FiniteSets, Sequences, SequencesExt

CONSTANTS
  Jobs,
  Threads,      \* worker threads
  Prefetch,
  MaxRetries,
  MaxPauses     \* bound: replaced consumers

ASSUME StubAssumption ==
  /\ IsFiniteSet(Jobs) /\ IsFiniteSet(Threads)
  /\ Prefetch \in Nat \ {0} /\ MaxRetries \in Nat /\ MaxPauses \in Nat

Queues == {"q", "dq"}

VARIABLES
  queue,       \* the messages in each queue: the job each one is of
  unfinished,  \* the queues' counts
  consumer,    \* per queue: slots of its semaphore, delayed messages, how
               \* often it was replaced, and a message to ack
  work,        \* the work queue
  thread,      \* the worker threads
  tries,       \* retries of each job
  done,        \* jobs that succeeded, and jobs that were flushed
  dead,        \* dead_letters
  main,        \* the test
  moved        \* a delayed message was moved back while join() was between
               \* looking at the one queue and at the other

vars == <<queue, unfinished, consumer, work, thread, tries, done, dead, main, moved>>

NoItems == <<>>

TypeOK ==
  /\ queue \in [Queues -> Seq(Jobs)] /\ work \in Seq(Jobs)
  /\ unfinished \in [Queues -> Nat]
  /\ \A name \in Queues :
       consumer[name] \in [slots : 0 .. Prefetch * (MaxPauses + 1), held : SUBSET Jobs,
                           copied : SUBSET Jobs, replaced : 0 .. MaxPauses]
  /\ thread \in [Threads -> [pc : {"idle", "run", "ack", "nack", "nacked"},
                             item : SUBSET Jobs]]
  /\ tries \in [Jobs -> 0 .. MaxRetries]
  /\ done \subseteq Jobs /\ dead \subseteq Jobs
  /\ main \in [pc : {"idle", "flush q", "flush dq", "flush letters", "join q", "join dq",
                     "check q", "check dq", "letters"},
               sent : SUBSET Jobs, raised : BOOLEAN]
  /\ moved \in BOOLEAN

Init ==
  /\ queue = [name \in Queues |-> NoItems] /\ work = NoItems
  /\ unfinished = [name \in Queues |-> 0]
  /\ consumer = [name \in Queues |->
       [slots |-> Prefetch, held |-> {}, copied |-> {}, replaced |-> 0]]
  /\ thread = [t \in Threads |-> [pc |-> "idle", item |-> {}]]
  /\ tries = [j \in Jobs |-> 0]
  /\ done = {} /\ dead = {}
  /\ main = [pc |-> "idle", sent |-> {}, raised |-> FALSE]
  /\ moved = FALSE

Put(name, j) == /\ queue' = [queue EXCEPT ![name] = Append(@, j)]
                /\ unfinished' = [unfinished EXCEPT ![name] = @ + 1]
TaskDone(name) == unfinished' = [unfinished EXCEPT ![name] = @ - 1]
ReleaseSlot(name) == consumer' = [consumer EXCEPT ![name].slots = @ + 1]

-----------------------------------------------------------------------------
(* Consumers.                                                              *)

OutsideConsumer == UNCHANGED <<thread, tries, done, dead, main>>

(* __next__ takes a slot for the message; one with an eta is held.         *)
Fetch(name) ==
  /\ consumer[name].slots > 0 /\ consumer[name].copied = {}
  /\ queue[name] # <<>>
  /\ LET j == Head(queue[name]) IN
       IF name = "dq"
       THEN /\ consumer' = [consumer EXCEPT ![name].slots = @ - 1,
                                            ![name].held = @ \cup {j}]
            /\ UNCHANGED work
       ELSE /\ consumer' = [consumer EXCEPT ![name].slots = @ - 1]
            /\ work' = Append(work, j)
  /\ queue' = [queue EXCEPT ![name] = Tail(@)]
  /\ OutsideConsumer /\ UNCHANGED <<unfinished, moved>>

(* handle_delayed_messages: a copy goes to the queue, then the message is
   acked.                                                                  *)
Copy ==
  \E j \in consumer["dq"].held :
    /\ consumer["dq"].copied = {}
    /\ Put("q", j)
    /\ consumer' = [consumer EXCEPT !["dq"].held = @ \ {j}, !["dq"].copied = {j}]
    /\ moved' = (moved \/ main.pc = "check dq")
    /\ OutsideConsumer /\ UNCHANGED work

AckCopied ==
  /\ consumer["dq"].copied # {}
  /\ TaskDone("dq")
  /\ consumer' = [consumer EXCEPT !["dq"].copied = {}, !["dq"].slots = @ + 1]
  /\ OutsideConsumer /\ UNCHANGED <<queue, work, moved>>

(* A pause replaces the consumer.  Its requeue() does nothing, not even look
   at the delayed messages, which stay.                                    *)
Replace(name) ==
  /\ consumer[name].replaced < MaxPauses /\ consumer[name].copied = {}
  /\ consumer' = [consumer EXCEPT ![name].slots = Prefetch, ![name].replaced = @ + 1]
  /\ OutsideConsumer /\ UNCHANGED <<queue, unfinished, work, moved>>

-----------------------------------------------------------------------------
(* Worker threads.                                                         *)

Take(t) ==
  /\ thread[t].pc = "idle" /\ work # <<>>
  /\ thread' = [thread EXCEPT ![t] = [pc |-> "run", item |-> {Head(work)}]]
  /\ work' = Tail(work)
  /\ UNCHANGED <<queue, unfinished, consumer, tries, done, dead, main, moved>>

(* Mutant: the retries are not counted.                                    *)
RunUncounted(t) ==
  /\ thread[t].pc = "run"
  /\ \E j \in thread[t].item :
       \/ /\ done' = done \cup {j}
          /\ thread' = [thread EXCEPT ![t].pc = "ack"]
          /\ UNCHANGED <<queue, unfinished, tries>>
       \/ /\ tries[j] < MaxRetries
          /\ UNCHANGED tries
          /\ Put("dq", j)
          /\ thread' = [thread EXCEPT ![t].pc = "ack"]
          /\ UNCHANGED done
       \/ /\ tries[j] = MaxRetries
          /\ thread' = [thread EXCEPT ![t].pc = "nack"]
          /\ UNCHANGED <<queue, unfinished, tries, done>>
  /\ UNCHANGED <<consumer, work, dead, main, moved>>

(* The actor succeeds, or fails and Retries delays it or gives it up.      *)
Run(t) ==
  /\ thread[t].pc = "run"
  /\ \E j \in thread[t].item :
       \/ /\ done' = done \cup {j}
          /\ thread' = [thread EXCEPT ![t].pc = "ack"]
          /\ UNCHANGED <<queue, unfinished, tries>>
       \/ /\ tries[j] < MaxRetries
          /\ tries' = [tries EXCEPT ![j] = @ + 1]
          /\ Put("dq", j)
          /\ thread' = [thread EXCEPT ![t].pc = "ack"]
          /\ UNCHANGED done
       \/ /\ tries[j] = MaxRetries
          /\ thread' = [thread EXCEPT ![t].pc = "nack"]
          /\ UNCHANGED <<queue, unfinished, tries, done>>
  /\ UNCHANGED <<consumer, work, dead, main, moved>>

OutsideAck == UNCHANGED <<queue, work, tries, done, main, moved>>

Ack(t) ==
  /\ thread[t].pc = "ack"
  /\ TaskDone("q") /\ ReleaseSlot("q")
  /\ thread' = [thread EXCEPT ![t] = [pc |-> "idle", item |-> {}]]
  /\ OutsideAck /\ UNCHANGED dead

(* nack() ends the task before it adds the message to dead_letters.        *)
Nack(t) ==
  /\ thread[t].pc = "nack"
  /\ TaskDone("q")
  /\ thread' = [thread EXCEPT ![t].pc = "nacked"]
  /\ OutsideAck /\ UNCHANGED <<dead, consumer>>

(* Mutant: the slot of a failed message is not released.                   *)
DeadLetterOnly(t) ==
  /\ thread[t].pc = "nacked"
  /\ dead' = dead \cup thread[t].item
  /\ thread' = [thread EXCEPT ![t] = [pc |-> "idle", item |-> {}]]
  /\ OutsideAck /\ UNCHANGED <<unfinished, consumer>>

DeadLetter(t) ==
  /\ thread[t].pc = "nacked"
  /\ dead' = dead \cup thread[t].item
  /\ ReleaseSlot("q")
  /\ thread' = [thread EXCEPT ![t] = [pc |-> "idle", item |-> {}]]
  /\ OutsideAck /\ UNCHANGED unfinished

-----------------------------------------------------------------------------
(* The test.                                                               *)

OutsideMain == UNCHANGED <<consumer, work, thread, tries>>
Goto(pc) == main' = [main EXCEPT !.pc = pc]

Enqueue(j) ==
  /\ main.pc = "idle" /\ j \notin main.sent
  /\ Put("q", j)
  /\ main' = [main EXCEPT !.sent = @ \cup {j}]
  /\ OutsideMain /\ UNCHANGED <<done, dead, moved>>

(* flush_all() drops what it finds in the one queue and then in the other,
   message by message, and the dead letters; messages that a consumer fetched
   are not touched, nor what is put behind its back.                       *)
FlushAll ==
  /\ main.pc = "idle" /\ Goto("flush q")
  /\ OutsideMain /\ UNCHANGED <<queue, unfinished, done, dead, moved>>

Flush(name) ==
  /\ main.pc = (IF name = "q" THEN "flush q" ELSE "flush dq")
  /\ queue[name] # <<>>
  /\ queue' = [queue EXCEPT ![name] = Tail(@)]
  /\ TaskDone(name)
  /\ done' = done \cup {Head(queue[name])}
  /\ OutsideMain /\ UNCHANGED <<dead, main, moved>>

Flushed ==
  /\ \/ main.pc = "flush q" /\ queue["q"] = <<>> /\ Goto("flush dq")
     \/ main.pc = "flush dq" /\ queue["dq"] = <<>> /\ Goto("flush letters")
  /\ OutsideMain /\ UNCHANGED <<queue, unfinished, done, dead, moved>>

FlushLetters ==
  /\ main.pc = "flush letters" /\ Goto("idle")
  /\ done' = done \cup dead /\ dead' = {}
  /\ OutsideMain /\ UNCHANGED <<queue, unfinished, moved>>

FlushStep == (\E name \in Queues : Flush(name)) \/ Flushed \/ FlushLetters

Join ==
  /\ main.pc = "idle" /\ Goto("join q") /\ moved' = FALSE
  /\ OutsideMain /\ UNCHANGED <<queue, unfinished, done, dead>>

OutsideJoin == OutsideMain /\ UNCHANGED <<queue, unfinished, done, dead, moved>>

(* join_queue, of the one queue and of the other.                          *)
JoinQueue ==
  /\ \/ main.pc = "join q" /\ unfinished["q"] = 0 /\ Goto("join dq")
     \/ main.pc = "join dq" /\ unfinished["dq"] = 0 /\ Goto("check q")
  /\ OutsideJoin

(* Mutant: the queues are not looked at again.                             *)
CheckNothing ==
  /\ \/ main.pc = "check q" /\ Goto("check dq")
     \/ main.pc = "check dq" /\ Goto("letters")
  /\ OutsideJoin

(* Then both are looked at again, in that order.                           *)
Check ==
  /\ \/ main.pc = "check q" /\ unfinished["q"] = 0 /\ Goto("check dq")
     \/ main.pc = "check dq" /\ unfinished["dq"] = 0 /\ Goto("letters")
     \/ main.pc = "check q" /\ unfinished["q"] > 0 /\ Goto("join q")
     \/ main.pc = "check dq" /\ unfinished["dq"] > 0 /\ Goto("join q")
  /\ OutsideJoin

(* join() raises the exception of a dead letter, or returns.               *)
Letters ==
  /\ main.pc = "letters"
  /\ main' = [main EXCEPT !.pc = "idle", !.raised = dead # {}]
  /\ OutsideJoin

JoinStep == JoinQueue \/ Check \/ Letters

Next ==
  \/ \E name \in Queues : Fetch(name) \/ Replace(name)
  \/ Copy \/ AckCopied
  \/ \E t \in Threads : Take(t) \/ Run(t) \/ Ack(t) \/ Nack(t) \/ DeadLetter(t)
  \/ \E j \in Jobs : Enqueue(j)
  \/ FlushAll \/ FlushStep \/ Join \/ JoinStep

(* Threads run, delays pass, and the test goes on with join().             *)
Fairness ==
  /\ \A name \in Queues : WF_vars(Fetch(name))
  /\ WF_vars(Copy) /\ WF_vars(AckCopied)
  /\ \A t \in Threads :
       WF_vars(Take(t)) /\ WF_vars(Run(t)) /\ WF_vars(Ack(t) \/ Nack(t) \/ DeadLetter(t))
  /\ WF_vars(FlushStep) /\ WF_vars(JoinStep)

Spec == Init /\ [][Next]_vars /\ Fairness

-----------------------------------------------------------------------------
(* Properties.                                                             *)

Busy(pcs) == {t \in Threads : thread[t].pc \in pcs}

(* The queues count what is in them, what a consumer holds and what is not
   yet acked: join() waits for messages that are nowhere in the queues.    *)
UnfinishedCounts ==
  /\ unfinished["q"] = Len(queue["q"]) + Len(work)
                         + Cardinality(Busy({"run", "ack", "nack"}))
  /\ unfinished["dq"] = Len(queue["dq"]) + Cardinality(consumer["dq"].held)
                          + Cardinality(consumer["dq"].copied)

(* And slots are neither lost nor made: as many messages are out as slots are
   taken.  Only a replaced consumer has more, by what the one before it had
   fetched, and never more than as much again.                             *)
SlotsKept ==
  LET out == [name \in Queues |->
               IF name = "q" THEN Len(work) + Cardinality(Busy({"run", "ack", "nack", "nacked"}))
               ELSE Cardinality(consumer["dq"].held) + Cardinality(consumer["dq"].copied)]
  IN  \A name \in Queues :
        LET c == consumer[name] IN
        /\ c.slots + out[name] >= Prefetch
        /\ c.slots + out[name] <= Prefetch * (c.replaced + 1)

Counts == TypeOK /\ UnfinishedCounts /\ SlotsKept

(* "Wait for all the messages on the given queue to be processed": a job that
   was enqueued is settled when join() ends, through any number of retries;
   and "when [fail_fast] is True and any message gets dead-lettered during
   the join, then an exception will be raised": all jobs succeeded if it
   returns, but for one whose nack() is between its two steps.  The one way
   out of both is a delayed message that is moved back while join() is
   between its looks at the two queues.                                    *)
Ends == main.pc = "letters" /\ main'.pc = "idle"
Settled == done \cup dead \cup UNION {thread[t].item : t \in Busy({"nacked"})}
JoinWaits ==
  [][Ends /\ ~moved =>
       /\ main.sent \subseteq Settled
       /\ main'.raised \/ main.sent \subseteq done \/ Busy({"nacked"}) # {}]_vars

(* join() and flush_all() end: retries run out.                            *)
JoinEnds == main.pc # "idle" ~> main.pc = "idle"
=============================================================================
