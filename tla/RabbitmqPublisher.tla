--------------------------- MODULE RabbitmqPublisher ---------------------------
(***************************************************************************)
(* The threads of a process that call a RabbitmqBroker                     *)
(* (brokers/rabbitmq.py) with confirm_delivery: enqueue, flush and join on *)
(* one queue.  Each thread has a connection and a channel, made when it    *)
(* first needs them; queues_pending, the queues that may have to be        *)
(* declared, is shared by the threads.                                     *)
(***************************************************************************)
EXTENDS Naturals, FiniteSets, Sequences

CONSTANTS
  Ids,          \* the copies of messages that are published
  Jobs,         \* the messages
  NoJob,
  Senders,      \* threads that call the broker
  MAX_ENQUEUE_ATTEMPTS,
  MAX_DECLARE_ATTEMPTS,
  MinSuccesses, \* of join()
  Setups        \* which threads there are, what is in the dead letter queue, and
                \* bounds: errors and other events, and calls of flush and join

ASSUME PublisherAssumption ==
  /\ Ids \subseteq Nat /\ NoJob \notin Jobs
  /\ IsFiniteSet(Ids) /\ IsFiniteSet(Jobs) /\ IsFiniteSet(Senders)
  /\ {MAX_ENQUEUE_ATTEMPTS, MAX_DECLARE_ATTEMPTS, MinSuccesses} \subseteq Nat \ {0}
  /\ Setups \subseteq [senders : SUBSET Senders, worker : BOOLEAN, old : SUBSET Ids,
                       events : Nat, calls : Nat]
  /\ \A s \in Setups : Cardinality(Ids \ s.old) >= Cardinality(Jobs) + s.events

VARIABLES
  setup,     \* one of Setups
  server,    \* the queues that exist and what is in them
  job,       \* the message each copy is of, or NoJob
  finished,  \* jobs that succeeded, failed for good or were purged
  sent,      \* jobs whose enqueue() returned
  pending,   \* the processes that have the queue in queues_pending
  sender,    \* what each thread is doing
  link,      \* its connection and its channel (broker.state), as facts
  count      \* the bounded events and calls so far

(* The queue itself, its delay queue and its dead letter queue, in the order
   in which they are declared and purged.                                  *)
Names == <<"queue", "delayed", "dead">>
Queues == {Names[i] : i \in 1 .. 3}
Tags == 1 .. Cardinality(Ids)
Delivery == [id : Ids, tag : Tags]
Events == {"faults", "closes", "pauses", "crashes", "deletions"}

(* "channel": state has a channel; "recorded": it is among broker.channels;
   "open": the connection has not been closed.                             *)
Linked == {"connection", "channel", "recorded", "open"}

PublisherTypeOK ==
  /\ setup \in Setups
  /\ server \in [queues : SUBSET Queues, ready : SUBSET Ids,
                 unacked : SUBSET Delivery, dead : SUBSET Ids]
  /\ job \in [Ids -> Jobs \cup {NoJob}]
  /\ finished \subseteq Jobs /\ sent \subseteq Jobs
  /\ pending \subseteq {"publisher", "worker"}
  /\ \A t \in Senders : sender[t] \in
       [pc : {"idle", "declare", "discard", "publish", "flush", "join"},
        job : Jobs \cup {NoJob},
        attempts : 0 .. MAX_ENQUEUE_ATTEMPTS - 1,
        declares : 0 .. MAX_DECLARE_ATTEMPTS - 1,
        done : Nat,              \* queues purged, or empty polls of join()
        before : SUBSET Ids,     \* what a flush should drop
        error : {"none", "ConnectionClosed", "KeyError", "AMQPError",
                  "QueueJoinTimeout"}]
  /\ link \in [Senders -> SUBSET Linked]
  /\ count \in [Events \cup {"calls"} -> Nat]

NoCall == [pc |-> "idle", job |-> NoJob, attempts |-> 0, declares |-> 0,
           done |-> 0, before |-> {}, error |-> "none"]

PublisherInit ==
  /\ setup \in Setups
  /\ server = [queues |-> IF setup.old = {} THEN {} ELSE Queues,
               ready |-> {}, unacked |-> {}, dead |-> setup.old]
  /\ job = [id \in Ids |-> NoJob]
  /\ finished = {} /\ sent = {}
  /\ pending = {"publisher", "worker"}
  /\ sender = [t \in Senders |-> NoCall]
  /\ link = [t \in Senders |-> {}]
  /\ count = [kind \in Events \cup {"calls"} |-> 0]

Counted(kind) ==
  /\ count.faults + count.closes + count.pauses + count.crashes + count.deletions
       < setup.events
  /\ count' = [count EXCEPT ![kind] = @ + 1]

CallCounted == /\ count.calls < setup.calls
               /\ count' = [count EXCEPT !.calls = @ + 1]

-----------------------------------------------------------------------------
(* Connections and channels.                                               *)

(* A call over the channel works; the connection and the channel are made
   if there are none.                                                      *)
Reaches(t) ==
  /\ "connection" \in link[t] => "open" \in link[t]
  /\ link' = [link EXCEPT ![t] = Linked]
  /\ UNCHANGED count

(* What is left of the link when an error is raised: as the connection is
   made, or the channel, or the channel is made to confirm deliveries, which
   is before it is recorded, or in the call.                               *)
Broken(t) == {l \in {{}, {"connection"}, {"connection", "channel"},
                     {"connection", "channel", "recorded"}} :
                link[t] \ {"open"} \subseteq l}

Closed(t) == "connection" \in link[t] /\ "open" \notin link[t]

(* The call fails, with l left of the link: it is new to a thread that the
   connection was closed, or the connection fails now.                     *)
Fails(t, l) ==
  \/ Closed(t) /\ l = link[t] /\ UNCHANGED count
  \/ ~Closed(t) /\ Counted("faults") /\ l \in Broken(t)

(* del self.channel: a channel that is not recorded cannot be removed from
   the set, which raises a KeyError.                                       *)
DeleteChannel(t, l, ok, raised) ==
  /\ link' = [link EXCEPT ![t] = l \ {"channel", "recorded"}]
  /\ IF "channel" \in l /\ "recorded" \notin l THEN raised ELSE ok

(* del self.connection deletes the channel first.                          *)
DeleteConnection(t, l, ok, raised) ==
  IF "channel" \in l /\ "recorded" \notin l
  THEN DeleteChannel(t, l, ok, raised)
  ELSE ok /\ link' = [link EXCEPT ![t] = {}]

Raise(t, error) == sender' = [sender EXCEPT ![t] = [NoCall EXCEPT !.error = error]]

-----------------------------------------------------------------------------
(* enqueue().                                                              *)

Enqueue(t, j) ==
  /\ sender[t].pc = "idle" /\ t \in setup.senders
  /\ j \notin sent /\ \A id \in Ids : job[id] # j
  /\ \A s \in Senders : sender[s].job # j
  /\ sender' = [sender EXCEPT ![t] = [NoCall EXCEPT !.pc = "declare", !.job = j]]
  /\ UNCHANGED <<setup, server, job, finished, sent, pending, link, count>>

(* _ensure_queue declares a pending queue.  Its own attempts are few, and the
   ConnectionClosed it raises is not one enqueue() retries.                *)
EnsureQueue(t) ==
  /\ sender[t].pc = "declare"
  /\ \/ /\ "publisher" \notin pending
        /\ sender' = [sender EXCEPT ![t].pc = "publish", ![t].declares = 0]
        /\ UNCHANGED <<server, link, count>>
     \/ /\ "publisher" \in pending
        /\ Reaches(t)
        /\ server' = [server EXCEPT !.queues = Queues]
        /\ sender' = [sender EXCEPT ![t].pc = "discard"]
     \/ /\ "publisher" \in pending
        /\ \E l \in SUBSET Linked, made \in 0 .. 3 :
             /\ Fails(t, l)
             /\ made > 0 => "recorded" \in l /\ ~Closed(t)
             /\ server' = [server EXCEPT !.queues = @ \cup {Names[i] : i \in 1 .. made}]
             /\ DeleteConnection(t, l,
                  IF sender[t].declares + 1 >= MAX_DECLARE_ATTEMPTS
                  THEN Raise(t, "ConnectionClosed")
                  ELSE sender' = [sender EXCEPT ![t].declares = @ + 1],
                  Raise(t, "KeyError"))
  /\ UNCHANGED <<setup, job, finished, sent, pending>>

Discard(t) ==
  /\ sender[t].pc = "discard"
  /\ pending' = pending \ {"publisher"}
  /\ sender' = [sender EXCEPT ![t].pc = "publish", ![t].declares = 0]
  /\ UNCHANGED <<setup, server, job, finished, sent, link, count>>

(* Another attempt, which ensures the queue again.                         *)
Again(t) == IF sender[t].attempts + 1 >= MAX_ENQUEUE_ATTEMPTS
            THEN Raise(t, "ConnectionClosed")
            ELSE sender' = [sender EXCEPT ![t].pc = "declare", ![t].attempts = @ + 1]

Fresh == CHOOSE id \in Ids \ setup.old : job[id] = NoJob
Stored(t) == /\ server' = [server EXCEPT !.ready = @ \cup {Fresh}]
             /\ job' = [job EXCEPT ![Fresh] = sender[t].job]

(* basic_publish: confirmed; or the connection fails before or after the
   server stored the message; or the queue is gone.                        *)
Confirmed(t) ==
  /\ sender[t].pc = "publish" /\ "queue" \in server.queues
  /\ Reaches(t)
  /\ Stored(t)
  /\ sent' = sent \cup {sender[t].job}
  /\ sender' = [sender EXCEPT ![t] = NoCall]
  /\ UNCHANGED <<setup, finished, pending>>

PublishFails(t) ==
  /\ sender[t].pc = "publish"
  /\ \E l \in SUBSET Linked :
       /\ Fails(t, l)
       /\ \/ "recorded" \in l /\ ~Closed(t) /\ "queue" \in server.queues /\ Stored(t)
          \/ UNCHANGED <<server, job>>
       /\ DeleteConnection(t, l, Again(t), Raise(t, "KeyError"))
  /\ UNCHANGED <<setup, finished, sent, pending>>

(* Mutant: a queue that disappeared is not declared again.                 *)
UnroutableKept(t) ==
  /\ sender[t].pc = "publish" /\ "queue" \notin server.queues
  /\ "connection" \in link[t] => "open" \in link[t]
  /\ link' = [link EXCEPT ![t] = {}]
  /\ Again(t)
  /\ UNCHANGED <<setup, server, job, finished, sent, pending, count>>

Unroutable(t) ==
  /\ sender[t].pc = "publish" /\ "queue" \notin server.queues
  /\ ~Closed(t)
  /\ link' = [link EXCEPT ![t] = {}]
  /\ pending' = pending \cup {"publisher"}
  /\ Again(t)
  /\ UNCHANGED <<setup, server, job, finished, sent, count>>

Publish(t) == Confirmed(t) \/ PublishFails(t) \/ Unroutable(t)

-----------------------------------------------------------------------------
(* flush() and join().                                                     *)

Flush(t) ==
  /\ sender[t].pc = "idle" /\ t \in setup.senders
  /\ CallCounted
  /\ sender' = [sender EXCEPT ![t] =
       [NoCall EXCEPT !.pc = "flush", !.before = server.ready \cup server.dead]]
  /\ UNCHANGED <<setup, server, job, finished, sent, pending, link>>

NextQueue(t) ==
  sender' = IF sender[t].done = 2 THEN [sender EXCEPT ![t] = NoCall]
            ELSE [sender EXCEPT ![t].done = @ + 1]

Purges(name) ==
  /\ server' = [server EXCEPT !.ready = IF name = "queue" THEN {} ELSE @,
                              !.dead = IF name = "dead" THEN {} ELSE @]
  /\ finished' = finished \cup (IF name = "queue" THEN {job[id] : id \in server.ready}
                                ELSE {})

(* The queue is purged; or it does not exist, or the channel is found to be
   closed, and flush() deletes the channel and goes on; or it raises the
   error of the connection, which it keeps.                                *)
Purge(t) ==
  /\ sender[t].pc = "flush"
  /\ LET name == Names[sender[t].done + 1] IN
     \/ /\ name \in server.queues
        /\ Reaches(t) /\ Purges(name) /\ NextQueue(t)
     \/ /\ name \notin server.queues /\ ~Closed(t)
        /\ link' = [link EXCEPT ![t] = {"connection", "open"}]
        /\ NextQueue(t)
        /\ UNCHANGED <<server, finished, count>>
     \/ /\ Closed(t) /\ "channel" \in link[t]
        /\ DeleteChannel(t, link[t], NextQueue(t), Raise(t, "KeyError"))
        /\ UNCHANGED <<server, finished, count>>
     \/ \E l \in SUBSET Linked :
          /\ ~(Closed(t) /\ "channel" \in link[t])
          /\ Fails(t, l)
          /\ \/ "recorded" \in l /\ name \in server.queues /\ Purges(name)
             \/ UNCHANGED <<server, finished>>
          /\ link' = [link EXCEPT ![t] = l]
          /\ Raise(t, "AMQPError")
  /\ UNCHANGED <<setup, job, sent, pending>>

Join(t) ==
  /\ sender[t].pc = "idle" /\ t \in setup.senders
  /\ CallCounted
  /\ sender' = [sender EXCEPT ![t] = [NoCall EXCEPT !.pc = "join"]]
  /\ UNCHANGED <<setup, server, job, finished, sent, pending, link>>

(* get_queue_message_counts declares the three queues.                     *)
GetCounts(t, ok) ==
  \/ /\ Reaches(t)
     /\ server' = [server EXCEPT !.queues = Queues]
     /\ ok
  \/ \E l \in SUBSET Linked, made \in 0 .. 3 :
       /\ Fails(t, l)
       /\ made > 0 => "recorded" \in l /\ ~Closed(t)
       /\ server' = [server EXCEPT !.queues = @ \cup {Names[i] : i \in 1 .. made}]
       /\ link' = [link EXCEPT ![t] = l]
       /\ Raise(t, "AMQPError")

Poll(t) ==
  /\ sender[t].pc = "join"
  /\ \/ GetCounts(t, sender' =
              IF server.ready # {} THEN [sender EXCEPT ![t].done = 0]
              ELSE IF sender[t].done + 1 = MinSuccesses THEN [sender EXCEPT ![t] = NoCall]
              ELSE [sender EXCEPT ![t].done = @ + 1])
     \/ Raise(t, "QueueJoinTimeout") /\ UNCHANGED <<server, link, count>>
  /\ UNCHANGED <<setup, job, finished, sent, pending>>

-----------------------------------------------------------------------------

(* close(), in another thread, closes the connections of the threads; if one
   makes or deletes its own meanwhile, it may raise and leave the others.  *)
CloseBroker ==
  /\ Counted("closes")
  /\ \E closed \in SUBSET {t \in Senders : "open" \in link[t]} :
       /\ (\A t \in Senders : sender[t].pc = "idle")
            => \A t \in Senders \ closed : "open" \notin link[t]
       /\ link' = [t \in Senders |-> IF t \in closed THEN link[t] \ {"open"} ELSE link[t]]
  /\ UNCHANGED <<setup, server, job, finished, sent, pending, sender>>

SenderStep(t) == \/ EnsureQueue(t) \/ Discard(t) \/ Publish(t)
                 \/ Purge(t) \/ Poll(t)
PublisherNext ==
  \/ \E t \in Senders : \/ \E j \in Jobs : Enqueue(t, j)
                         \/ Flush(t) \/ Join(t) \/ SenderStep(t)
  \/ CloseBroker
=============================================================================
