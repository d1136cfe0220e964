--------------------------- MODULE RabbitmqBroker ---------------------------
(***************************************************************************)
(* The RabbitMQ broker (brokers/rabbitmq.py) on one queue: the threads of   *)
(* RabbitmqPublisher, and a worker process whose consumer                   *)
(* thread, over pika, hands messages to its worker threads and sends their *)
(* acks.  Connections fail, the consumer is replaced after an error and    *)
(* after a pause, the process crashes, the queue is deleted while empty.   *)
(*                                                                         *)
(* The server numbers the deliveries of each channel from one: a delivery  *)
(* tag means a message only on the channel that delivered it.              *)
(***************************************************************************)
EXTENDS RabbitmqPublisher

CONSTANTS
  Poison,       \* jobs whose messages cannot be decoded
  Threads,      \* worker threads
  Prefetch

ASSUME RabbitmqAssumption == Poison \subseteq Jobs /\ Prefetch \in Nat \ {0}

VARIABLES
  consumer,  \* the consumer thread and its consumer
  work,      \* the work queue
  thread     \* the worker threads

inWorker == <<consumer, work, thread>>
vars == <<setup, server, job, finished, sent, pending, sender, link, count, inWorker>>

TypeOK ==
  /\ PublisherTypeOK
  /\ consumer \in [pc : {"top", "next", "restart", "closing"},
                   channel : {"closed", "open", "consuming", "cancelled"},
                   next : Tags \cup {Cardinality(Ids) + 1},
                   known : SUBSET Tags,
                   callbacks : Seq([kind : {"ack", "nack"}, tag : Tags]),
                   replaced : BOOLEAN]  \* history, see Replaced
  /\ work \subseteq Delivery
  /\ \A t \in Threads :
       thread[t] \in [pc : {"idle", "run", "post"}, item : SUBSET Delivery]

NoConsumer == [pc |-> "top", channel |-> "closed", next |-> 1,
               known |-> {}, callbacks |-> <<>>, replaced |-> FALSE]
NoThread == [pc |-> "idle", item |-> {}]

Init ==
  /\ PublisherInit
  /\ consumer = NoConsumer
  /\ work = {}
  /\ thread = [t \in Threads |-> NoThread]

-----------------------------------------------------------------------------
(* The consumer thread.                                                    *)

OutsideConsumer == UNCHANGED <<setup, job, finished, sent, sender, link, thread>>

(* A closed channel gives its unacked deliveries back to the queue.        *)
Returned == [server EXCEPT !.ready = @ \cup {d.id : d \in server.unacked},
                           !.unacked = {}]

(* consume() ensures the queue and opens a channel.  It replaces a consumer
   if one that delivered a message went before in this process.            *)
ConsumerTop ==
  /\ consumer.pc = "top" /\ setup.worker
  /\ \/ /\ server' = [server EXCEPT !.queues = IF "worker" \in pending THEN Queues ELSE @]
        /\ pending' = pending \ {"worker"}
        /\ consumer' = [NoConsumer EXCEPT !.pc = "next", !.channel = "open",
                          !.replaced = consumer.replaced \/ consumer.next > 1]
        /\ UNCHANGED count
     \/ /\ Counted("faults")
        /\ consumer' = [consumer EXCEPT !.pc = "restart"]
        /\ UNCHANGED <<server, pending>>
  /\ OutsideConsumer /\ UNCHANGED work

(* The first __next__ starts consuming, and finds out if the queue is gone. *)
StartConsuming ==
  /\ consumer.pc = "next" /\ consumer.channel = "open"
  /\ IF "queue" \in server.queues
     THEN /\ consumer' = [consumer EXCEPT !.channel = "consuming"]
          /\ UNCHANGED pending
     ELSE /\ consumer' = [consumer EXCEPT !.channel = "closed", !.pc = "restart"]
          /\ pending' = pending \cup {"worker"}
  /\ OutsideConsumer /\ UNCHANGED <<server, work, count>>

(* __next__ with a message: the tag of one that is decoded becomes known.  *)
Deliver ==
  /\ consumer.pc = "next" /\ consumer.channel = "consuming"
  /\ Cardinality(server.unacked) < Prefetch
  /\ \E id \in server.ready :
       LET d == [id |-> id, tag |-> consumer.next] IN
       /\ server' = [server EXCEPT !.ready = @ \ {id}, !.unacked = @ \cup {d}]
       /\ IF job[id] \in Poison
          THEN /\ consumer' = [consumer EXCEPT !.next = @ + 1,
                    !.callbacks = Append(@, [kind |-> "nack", tag |-> d.tag])]
               /\ finished' = finished \cup {job[id]}
               /\ UNCHANGED work
          ELSE /\ consumer' = [consumer EXCEPT !.next = @ + 1,
                                               !.known = @ \cup {d.tag}]
               /\ work' = work \cup {d}
               /\ UNCHANGED finished
  /\ UNCHANGED <<setup, job, sent, sender, link, thread, pending, count>>

(* The connection runs the callbacks in order, in next() and in close().   *)
RunCallback ==
  /\ consumer.pc \in {"next", "restart"}
  /\ consumer.channel \in {"open", "consuming", "cancelled"}
  /\ consumer.callbacks # <<>>
  /\ LET c == Head(consumer.callbacks)
         done == {d \in server.unacked : d.tag = c.tag}
     IN  server' = [server EXCEPT !.unacked = @ \ done,
                      !.dead = IF c.kind = "nack" THEN @ \cup {d.id : d \in done} ELSE @]
  /\ consumer' = [consumer EXCEPT !.callbacks = Tail(@)]
  /\ OutsideConsumer /\ UNCHANGED <<work, pending, count>>

(* Mutant: a consumer whose connection is closed is not replaced.          *)
LeaveLoopOpen ==
  /\ consumer.pc = "next"
  /\ \/ consumer.channel = "cancelled" /\ UNCHANGED count
     \/ consumer.channel = "consuming" /\ Counted("pauses")
  /\ consumer' = [consumer EXCEPT !.pc = "restart"]
  /\ OutsideConsumer /\ UNCHANGED <<server, work, pending>>

(* The loop over the consumer ends: the connection is closed, the server
   cancelled the consumer, or the worker is paused.                        *)
LeaveLoop ==
  /\ consumer.pc = "next"
  /\ \/ consumer.channel \in {"closed", "cancelled"} /\ UNCHANGED count
     \/ consumer.channel = "consuming" /\ Counted("pauses")
  /\ consumer' = [consumer EXCEPT !.pc = "restart"]
  /\ OutsideConsumer /\ UNCHANGED <<server, work, pending>>

(* close() waits for the callbacks it finds, then closes the channel.      *)
AwaitCallbacks ==
  /\ consumer.pc = "restart"
  /\ consumer.callbacks = <<>> \/ consumer.channel = "closed"
  /\ consumer' = [consumer EXCEPT !.pc = "closing"]
  /\ OutsideConsumer /\ UNCHANGED <<server, work, pending, count>>

Close ==
  /\ consumer.pc = "closing"
  /\ server' = Returned
  /\ consumer' = [consumer EXCEPT !.pc = "top", !.channel = "closed",
                                  !.callbacks = <<>>]
  /\ OutsideConsumer /\ UNCHANGED <<work, pending, count>>

ConsumerStep == \/ ConsumerTop \/ StartConsuming \/ Deliver \/ RunCallback
                \/ LeaveLoop \/ AwaitCallbacks \/ Close

-----------------------------------------------------------------------------
(* Worker threads.                                                         *)

OutsideThread == UNCHANGED <<setup, server, job, sent, pending, sender, link, count>>

(* Acks, and nacks of messages that failed, are left to the connection.    *)
Call(known, tag) ==
  \E kind \in {"ack", "nack"} :
    consumer' = [consumer EXCEPT !.known = known,
                   !.callbacks = Append(@, [kind |-> kind, tag |-> tag])]

(* Mutant: a message is acked before it is processed.                     *)
TakeAcks(t) ==
  /\ thread[t].pc = "idle"
  /\ \E d \in work :
       /\ work' = work \ {d}
       /\ thread' = [thread EXCEPT ![t] = [pc |-> "run", item |-> {d}]]
       /\ IF d.tag \in consumer.known /\ consumer.channel # "closed"
          THEN Call(consumer.known \ {d.tag}, d.tag) ELSE UNCHANGED consumer
  /\ OutsideThread /\ UNCHANGED finished

Take(t) ==
  /\ thread[t].pc = "idle"
  /\ \E d \in work :
       /\ work' = work \ {d}
       /\ thread' = [thread EXCEPT ![t] = [pc |-> "run", item |-> {d}]]
  /\ OutsideThread /\ UNCHANGED <<finished, consumer>>

Process(t) ==
  /\ thread[t].pc = "run"
  /\ thread' = [thread EXCEPT ![t].pc = "post"]
  /\ finished' = finished \cup {job[d.id] : d \in thread[t].item}
  /\ OutsideThread /\ UNCHANGED <<work, consumer>>

(* Mutant: the tags of a consumer stay known.                              *)
PostKnown(t) ==
  /\ thread[t].pc = "post"
  /\ \E d \in thread[t].item :
       IF d.tag \in consumer.known /\ consumer.channel # "closed"
       THEN Call(consumer.known, d.tag) ELSE UNCHANGED consumer
  /\ thread' = [thread EXCEPT ![t] = NoThread]
  /\ OutsideThread /\ UNCHANGED <<finished, work>>

(* ack() and nack() through the consumer there is now.  A tag it does not
   know is dropped; on a closed connection the call is repeated, by which
   time the tag is no longer known.                                        *)
Post(t) ==
  /\ thread[t].pc = "post"
  /\ \E d \in thread[t].item :
       \/ /\ d.tag \notin consumer.known
          /\ thread' = [thread EXCEPT ![t] = NoThread]
          /\ UNCHANGED consumer
       \/ /\ d.tag \in consumer.known /\ consumer.channel # "closed"
          /\ thread' = [thread EXCEPT ![t] = NoThread]
          /\ Call(consumer.known \ {d.tag}, d.tag)
       \/ /\ d.tag \in consumer.known /\ consumer.channel = "closed"
          /\ consumer' = [consumer EXCEPT !.known = @ \ {d.tag}]
          /\ UNCHANGED thread
  /\ OutsideThread /\ UNCHANGED <<finished, work>>

ThreadStep(t) == Take(t) \/ Process(t) \/ Post(t)

-----------------------------------------------------------------------------
(* What happens to them.                                                   *)

(* The consumer's connection fails; the server notices at once.            *)
Disconnect ==
  /\ consumer.channel # "closed"
  /\ Counted("faults")
  /\ server' = Returned
  /\ consumer' = [consumer EXCEPT !.channel = "closed", !.callbacks = <<>>]
  /\ OutsideConsumer /\ UNCHANGED <<work, pending>>

(* The worker process crashes; a new one starts with the queue pending.    *)
Crash ==
  /\ setup.worker
  /\ Counted("crashes")
  /\ server' = Returned
  /\ consumer' = [NoConsumer EXCEPT !.replaced = consumer.replaced]
  /\ work' = {}
  /\ thread' = [t \in Threads |-> NoThread]
  /\ pending' = pending \cup {"worker"}
  /\ UNCHANGED <<setup, job, finished, sent, sender, link>>

DeleteQueue ==
  /\ "queue" \in server.queues /\ server.ready = {} /\ server.unacked = {}
  /\ Counted("deletions")
  /\ server' = [server EXCEPT !.queues = @ \ {"queue"}]
  /\ consumer' = IF consumer.channel = "consuming"
                 THEN [consumer EXCEPT !.channel = "cancelled"] ELSE consumer
  /\ OutsideConsumer /\ UNCHANGED <<work, pending>>

Next == \/ PublisherNext /\ UNCHANGED inWorker
        \/ ConsumerStep
        \/ \E t \in Threads : ThreadStep(t)
        \/ Disconnect \/ Crash \/ DeleteQueue

(* The threads run, and the actors return.                                 *)
Fairness == /\ \A t \in Senders : WF_vars(SenderStep(t) /\ UNCHANGED inWorker)
            /\ WF_vars(ConsumerStep)
            /\ \A t \in Threads : WF_vars(ThreadStep(t))

Spec == Init /\ [][Next]_vars /\ Fairness

-----------------------------------------------------------------------------
(* Properties.                                                             *)

OnServer(j) ==
  \E id \in Ids : job[id] = j
    /\ id \in server.ready \cup server.dead \cup {d.id : d \in server.unacked}
InMemory(j) ==
  \E d \in work \cup UNION {thread[t].item : t \in Threads} : job[d.id] = j

(* "Messages are only ever acknowledged to (removed from) the broker after
   they have been successfully processed" (advanced.rst:174): a job whose
   enqueue() returned is finished, or the server still has a copy of it,
   whatever becomes of the process.                                        *)
AckedWhenDone == \A j \in sent : j \in finished \/ OnServer(j)

(* That holds until a consumer that delivered messages is succeeded by
   another in a process that goes on: errors of connections, pauses and
   crashes alone do not break it.  Then each job is at least in the process's
   memory, so that only a crash can lose it.                               *)
Replaced == consumer.replaced
NoJobLost ==
  \A j \in sent : \/ j \in finished \/ OnServer(j)
                  \/ Replaced /\ (InMemory(j) \/ count.crashes > 0)

(* The server never sees a delivery tag twice, nor one it did not hand out
   on the channel: it would close the channel and with it drop the acks of
   the other messages ("we don't attempt to send invalid tags").           *)
TagsAreValid ==
  LET called == {consumer.callbacks[i].tag : i \in DOMAIN consumer.callbacks}
  IN  /\ TypeOK
      /\ consumer.channel # "closed" =>
           /\ consumer.known \cup called = {d.tag : d \in server.unacked}
           /\ consumer.known \cap called = {}
           /\ Len(consumer.callbacks) = Cardinality(called)

(* A call does what it says or has a reason not to.  enqueue() gets over
   errors, a broker that is closed, and a queue that disappears, which costs
   at most an attempt for each thread that calls the broker: another may just
   then take it off queues_pending, having declared it before.  It raises
   ConnectionClosed when its attempts are spent, or a KeyError if the error
   came before the channel was recorded.  A flush() that returns has dropped
   what lay in the queues, unless the broker was closed.                   *)
CallsHold ==
  [][ \A t \in Senders : sender[t].pc # "idle" /\ sender'[t].pc = "idle" =>
        LET faults == count'.faults + count'.closes
            threads == Cardinality(setup.senders)
        IN  /\ sender[t].pc \in {"declare", "publish"} /\ sender'[t].error # "none" =>
                 \/ sender'[t].error = "ConnectionClosed"
                    /\ \/ faults + threads * count'.deletions >= MAX_ENQUEUE_ATTEMPTS
                       \/ faults >= MAX_DECLARE_ATTEMPTS
                 \/ sender'[t].error = "KeyError" /\ count'.faults > 0
            /\ sender[t].pc = "flush" /\ sender'[t].error = "none" =>
                 \/ sender[t].before \cap (server'.ready \cup server'.dead) = {}
                 \/ setup.worker \/ count'.closes > 0 ]_vars

(* Every job whose enqueue() returned is finished, unless a crash takes what
   a replaced consumer acked too early.                                    *)
JobsFinish ==
  \A j \in Jobs : j \in sent /\ setup.worker ~> j \in finished \/ (count.crashes > 0 /\ Replaced)
=============================================================================
