------------------------ MODULE RabbitmqBrokerProofs ------------------------
(***************************************************************************)
(* Proofs about RabbitmqBroker, for any threads, messages and bounds.      *)
(***************************************************************************)
EXTENDS RabbitmqBroker, FiniteSetTheorems, TLAPS

Used == {id \in Ids : job[id] # NoJob}
Spent == count.faults + count.closes + count.pauses + count.crashes + count.deletions
Enqueuing == {"declare", "discard", "publish"}

(* A copy is published once for each enqueue() that returned or failed.    *)
PublisherInv ==
  /\ PublisherTypeOK
  /\ sender = [t \in Senders |-> sender[t]]
  /\ server.ready \subseteq Used
  /\ \A d \in server.unacked : d.id \in Used
  /\ Used \cap setup.old = {}
  /\ Spent <= setup.events
  /\ Cardinality(Used) <= Cardinality(sent) + Spent
  /\ \A t \in Senders : sender[t].pc \in Enqueuing =>
       /\ sender[t].job \in Jobs \ sent
       /\ \A s \in Senders \ {t} :
            sender[s].pc \in Enqueuing => sender[s].job # sender[t].job
  /\ \A j \in sent : \E id \in Used : job[id] = j

Memory == work \cup UNION {thread[t].item : t \in Threads}
Called == {consumer.callbacks[i].tag : i \in DOMAIN consumer.callbacks}
Unacked == {d.tag : d \in server.unacked}

WorkerType ==
  /\ TypeOK
  /\ thread = [t \in Threads |-> thread[t]]
  /\ \A d \in Memory : d.id \in Used
  /\ \A t \in Threads : thread[t].pc = "idle" => thread[t].item = {}

ChannelInv ==
  /\ consumer.channel # "closed" =>
       /\ consumer.known \cup Called = Unacked
       /\ consumer.known \cap Called = {}
       /\ consumer.next - 1 <= Cardinality(Used \ server.ready)
  /\ Len(consumer.callbacks) = Cardinality(Called)
  /\ \A i, k \in DOMAIN consumer.callbacks :
       consumer.callbacks[i].tag = consumer.callbacks[k].tag => i = k
  /\ \A d \in server.unacked : d.tag < consumer.next
  /\ \A d, e \in server.unacked : d.tag = e.tag => d = e
  /\ consumer.channel \in {"closed", "open"} => server.unacked = {}
  /\ consumer.pc = "top" => consumer.channel = "closed"

Safe(id) == job[id] \in finished
            \/ (Replaced /\ (InMemory(job[id]) \/ count.crashes > 0))

JobsInv ==
  /\ \A id \in Used : \/ id \in server.ready
                      \/ \E d \in server.unacked : d.id = id
                      \/ Safe(id)
  /\ \A d \in server.unacked : d \in Memory \/ job[d.id] \in finished
  /\ \A t \in Threads : thread[t].pc = "post" =>
       \A d \in thread[t].item : job[d.id] \in finished
  /\ ~Replaced =>
       /\ \A d \in server.unacked : d.tag \in Called => job[d.id] \in finished
       /\ \A d \in Memory, u \in server.unacked : d.tag = u.tag => d = u
       /\ \A d \in Memory : d.tag < consumer.next

IInv == PublisherInv /\ WorkerType /\ ChannelInv /\ JobsInv

-----------------------------------------------------------------------------
(* What the threads that publish do.                                       *)

Servers == [queues : SUBSET Queues, ready : SUBSET Ids,
            unacked : SUBSET Delivery, dead : SUBSET Ids]
Calls == [pc : {"idle", "declare", "discard", "publish", "flush", "join"},
          job : Jobs \cup {NoJob},
          attempts : 0 .. MAX_ENQUEUE_ATTEMPTS - 1,
          declares : 0 .. MAX_DECLARE_ATTEMPTS - 1,
          done : Nat,
          before : SUBSET Ids,
          error : {"none", "ConnectionClosed", "KeyError", "AMQPError",
                    "QueueJoinTimeout"}]
Counters == [Events \cup {"calls"} -> Nat]

(* A thread goes on with its call or ends it; it starts no enqueue().      *)
GoesOn(t) ==
  \E r \in Calls :
    /\ sender' = [sender EXCEPT ![t] = r]
    /\ r.pc \in Enqueuing => sender[t].pc \in Enqueuing /\ r.job = sender[t].job

Counting ==
  /\ count' \in Counters
  /\ Spent <= Spent' /\ Spent' <= setup.events
  /\ count'.crashes = count.crashes

(* What a thread that publishes does to what the worker relies on.         *)
SparesWorker ==
  /\ server'.unacked = server.unacked
  /\ finished \subseteq finished'
  /\ Used \subseteq Used'
  /\ \A id \in Used : job'[id] = job[id]
  /\ Used' \ Used \subseteq server'.ready
  /\ server'.ready \subseteq server.ready \cup (Used' \ Used)
  /\ \A id \in server.ready \ server'.ready : job[id] \in finished'
  /\ count'.crashes = count.crashes

LEMMA Typed ==
  PublisherInv =>
    /\ setup \in Setups /\ server \in Servers /\ count \in Counters
    /\ job \in [Ids -> Jobs \cup {NoJob}] /\ link \in [Senders -> SUBSET Linked]
    /\ finished \subseteq Jobs /\ sent \subseteq Jobs
    /\ pending \subseteq {"publisher", "worker"}
    /\ \A t \in Senders : sender[t] \in Calls
BY DEF PublisherInv, PublisherTypeOK, Servers, Counters, Calls

LEMMA CountersType ==
  ASSUME NEW c \in Counters
  PROVE  /\ c.faults \in Nat /\ c.closes \in Nat /\ c.pauses \in Nat
         /\ c.crashes \in Nat /\ c.deletions \in Nat /\ c.calls \in Nat
BY DEF Counters, Events

LEMMA CountedCounts ==
  ASSUME PublisherInv, NEW kind \in Events, Counted(kind)
  PROVE  /\ count' \in Counters
         /\ Spent' = Spent + 1 /\ Spent' <= setup.events
         /\ kind # "crashes" => count'.crashes = count.crashes
         /\ kind = "crashes" => count'.crashes > 0
<1>1. count \in Counters /\ count' = [count EXCEPT ![kind] = count[kind] + 1]
      /\ Spent < setup.events /\ setup.events \in Nat
  BY Typed, PublisherAssumption DEF Counted, Spent
<1>2. count' \in Counters
  BY <1>1 DEF Counters
<1>3. \A k \in Events : count'[k] = IF k = kind THEN count[k] + 1 ELSE count[k]
  BY <1>1 DEF Counters
<1>4. /\ count'.faults = IF "faults" = kind THEN count.faults + 1 ELSE count.faults
      /\ count'.closes = IF "closes" = kind THEN count.closes + 1 ELSE count.closes
      /\ count'.pauses = IF "pauses" = kind THEN count.pauses + 1 ELSE count.pauses
      /\ count'.crashes = IF "crashes" = kind THEN count.crashes + 1 ELSE count.crashes
      /\ count'.deletions =
           IF "deletions" = kind THEN count.deletions + 1 ELSE count.deletions
  BY <1>3 DEF Events
<1>5. Spent' = Spent + 1
  BY <1>1, <1>4, CountersType DEF Spent, Events
<1>6. Spent' <= setup.events
  BY <1>1, <1>5, CountersType DEF Spent
<1> QED BY <1>1, <1>2, <1>4, <1>5, <1>6, CountersType

LEMMA SpentType == PublisherInv => Spent \in Nat /\ Cardinality(sent) \in Nat
                                   /\ Cardinality(sent) <= Cardinality(Jobs)
                                   /\ Cardinality(Jobs) \in Nat /\ IsFiniteSet(sent)
<1> SUFFICES ASSUME PublisherInv
             PROVE  Spent \in Nat /\ Cardinality(sent) \in Nat
                    /\ Cardinality(sent) <= Cardinality(Jobs)
                    /\ Cardinality(Jobs) \in Nat /\ IsFiniteSet(sent)
  OBVIOUS
<1>1. Spent \in Nat
  BY Typed, CountersType DEF Spent
<1>2. IsFiniteSet(Jobs) /\ sent \subseteq Jobs
  BY Typed, PublisherAssumption
<1> QED BY <1>1, <1>2, FS_Subset, FS_CardinalityType

LEMMA Uncounted ==
  ASSUME PublisherInv, count' = count PROVE Counting
BY Typed, CountersType DEF Counting, PublisherInv, Spent

LEMMA CountedCounting ==
  ASSUME PublisherInv, NEW kind \in Events \ {"crashes"}, Counted(kind) PROVE Counting
<1>1. Spent \in Nat
  BY Typed, CountersType DEF Spent
<1> QED BY <1>1, CountedCounts DEF Counting

LEMMA CallCounting ==
  ASSUME PublisherInv, CallCounted PROVE Counting
<1>1. count \in Counters /\ count' = [count EXCEPT !["calls"] = count["calls"] + 1]
  BY Typed DEF CallCounted
<1>2. count' \in Counters /\ \A k \in Events : count'[k] = count[k]
  BY <1>1 DEF Counters, Events
<1>3. /\ count'.faults = count.faults /\ count'.closes = count.closes
      /\ count'.pauses = count.pauses /\ count'.crashes = count.crashes
      /\ count'.deletions = count.deletions
  BY <1>2 DEF Events
<1> QED BY <1>1, <1>2, <1>3, CountersType DEF Counting, Spent, PublisherInv

LEMMA UsedFinite ==
  /\ IsFiniteSet(Used) /\ Cardinality(Used) \in Nat
  /\ \A S \in SUBSET Used : IsFiniteSet(S) /\ Cardinality(S) \in Nat
                            /\ Cardinality(S) <= Cardinality(Used)
<1>1. IsFiniteSet(Used)
  BY PublisherAssumption, FS_Subset DEF Used
<1> QED BY <1>1, FS_Subset, FS_CardinalityType

(* A step that publishes nothing.                                          *)
LEMMA Quiet ==
  ASSUME PublisherInv, NEW t \in Senders, GoesOn(t), Counting,
         link' \in [Senders -> SUBSET Linked],
         pending' \subseteq {"publisher", "worker"},
         server' \in Servers, server'.unacked = server.unacked,
         server'.ready \subseteq server.ready,
         finished \subseteq finished', finished' \subseteq Jobs,
         \A id \in server.ready \ server'.ready : job[id] \in finished',
         setup' = setup, job' = job, sent' = sent
  PROVE  PublisherInv' /\ SparesWorker
<1>1. PICK r \in Calls :
        /\ sender' = [sender EXCEPT ![t] = r]
        /\ r.pc \in Enqueuing => sender[t].pc \in Enqueuing /\ r.job = sender[t].job
  BY DEF GoesOn
<1>2. sender = [s \in Senders |-> sender[s]]
  BY DEF PublisherInv
<1>3. /\ sender'[t] = r
      /\ \A s \in Senders \ {t} : sender'[s] = sender[s]
      /\ sender' = [s \in Senders |-> sender'[s]]
  BY <1>1, <1>2
<1>4. \A s \in Senders : sender'[s].pc \in Enqueuing =>
        sender[s].pc \in Enqueuing /\ sender'[s].job = sender[s].job
  BY <1>1, <1>3
<1>5. Used' = Used
  BY DEF Used
<1>6. \A s \in Senders : sender'[s] \in Calls
  BY <1>1, <1>3, Typed
<1>7. PublisherTypeOK'
  BY <1>6, Typed DEF PublisherTypeOK, Servers, Counters, Calls, Counting
<1>8. Cardinality(Used') <= Cardinality(sent') + Spent'
  <2>1. Cardinality(sent) \in Nat /\ Spent \in Nat
    BY SpentType
  <2>2. Spent' \in Nat
    BY CountersType DEF Spent, Counting
  <2> QED BY <1>5, <2>1, <2>2, UsedFinite DEF PublisherInv, Counting
<1>9. \A s \in Senders : sender'[s].pc \in Enqueuing =>
        /\ sender'[s].job \in Jobs \ sent'
        /\ \A u \in Senders \ {s} :
             sender'[u].pc \in Enqueuing => sender'[u].job # sender'[s].job
  BY <1>4 DEF PublisherInv
<1>10. PublisherInv'
  BY <1>3, <1>5, <1>7, <1>8, <1>9 DEF PublisherInv, Counting
<1>11. SparesWorker
  BY <1>5 DEF SparesWorker, Counting
<1> QED BY <1>10, <1>11

(* A copy is stored of the message that a thread publishes: there is one to
   use, for each is of an enqueue() that returned or of an event.          *)
LEMMA FreshExists ==
  ASSUME PublisherInv, Cardinality(Used) < Cardinality(Ids \ setup.old)
  PROVE  Fresh \in Ids \ setup.old /\ Fresh \notin Used
<1>1. \E id \in Ids \ setup.old : job[id] = NoJob
  <2> SUFFICES ASSUME ~ \E id \in Ids \ setup.old : job[id] = NoJob PROVE FALSE
    OBVIOUS
  <2>1. Ids \ setup.old \in SUBSET Used
    BY DEF Used
  <2>2. Cardinality(Ids \ setup.old) <= Cardinality(Used)
        /\ Cardinality(Ids \ setup.old) \in Nat
    BY <2>1, UsedFinite
  <2> QED BY <2>2, UsedFinite
<1> QED BY <1>1 DEF Fresh, Used

(* "more" is the room the new copy needs: a message that is sent, or an event. *)
LEMMA Storing ==
  ASSUME PublisherInv, NEW t \in Senders, GoesOn(t), Counting,
         link' \in [Senders -> SUBSET Linked], Stored(t),
         sender[t].pc = "publish",
         \/ /\ sent' = sent \cup {sender[t].job}
            /\ sender'[t].pc \notin Enqueuing
         \/ sent' = sent /\ Spent' = Spent + 1,
         setup' = setup, finished' = finished, pending' = pending
  PROVE  PublisherInv' /\ SparesWorker
<1> DEFINE j == sender[t].job
<1>1. /\ j \in Jobs \ sent
      /\ \A s \in Senders \ {t} : sender[s].pc \in Enqueuing => sender[s].job # j
  BY DEF PublisherInv, Enqueuing
<1>2. /\ server' = [server EXCEPT !.ready = server.ready \cup {Fresh}]
      /\ job' = [job EXCEPT ![Fresh] = j]
  BY DEF Stored
<1>3. setup \in Setups /\ setup.events \in Nat
      /\ Cardinality(Ids \ setup.old) >= Cardinality(Jobs) + setup.events
  BY Typed, PublisherAssumption
<1>4. Spent \in Nat /\ Spent <= Spent' /\ Spent' <= setup.events /\ Spent' \in Nat
  BY SpentType, CountersType DEF Counting, Spent
<1>5. /\ IsFiniteSet(sent) /\ Cardinality(sent) \in Nat
      /\ Cardinality(sent \cup {j}) = Cardinality(sent) + 1
      /\ Cardinality(sent \cup {j}) <= Cardinality(Jobs)
      /\ Cardinality(Jobs) \in Nat
  <2>1. IsFiniteSet(sent) /\ j \notin sent
    BY SpentType, <1>1
  <2>2. Cardinality(sent \cup {j}) = Cardinality(sent) + 1
    BY <2>1, FS_AddElement
  <2>3. sent \cup {j} \subseteq Jobs /\ IsFiniteSet(Jobs)
    BY <1>1, Typed, PublisherAssumption
  <2>4. Cardinality(sent \cup {j}) <= Cardinality(Jobs)
    BY <2>3, FS_Subset
  <2> QED BY <2>2, <2>4, SpentType
<1>6. Cardinality(Used) <= Cardinality(sent) + Spent
      /\ Cardinality(sent') + Spent' >= Cardinality(sent) + Spent + 1
      /\ Cardinality(sent) + Spent < Cardinality(Jobs) + setup.events
  <2>1. Cardinality(Used) <= Cardinality(sent) + Spent
    BY DEF PublisherInv
  <2>2. CASE sent' = sent \cup {j}
    BY <1>3, <1>4, <1>5, <2>1, <2>2
  <2>3. CASE sent' = sent /\ Spent' = Spent + 1
    BY <1>3, <1>4, <1>5, <2>1, <2>3, SpentType
  <2> QED BY <2>2, <2>3
<1>7. Fresh \in Ids \ setup.old /\ Fresh \notin Used
  <2>1. Cardinality(Used) < Cardinality(Ids \ setup.old)
    <3>1. Cardinality(Ids \ setup.old) \in Nat
      BY PublisherAssumption, FS_Subset, FS_CardinalityType
    <3> QED BY <1>3, <1>4, <1>5, <1>6, <3>1, UsedFinite
  <2> QED BY <2>1, FreshExists
<1> HIDE DEF j
<1>8. job \in [Ids -> Jobs \cup {NoJob}] /\ server \in Servers
  BY Typed
<1>9. /\ job' \in [Ids -> Jobs \cup {NoJob}]
      /\ job'[Fresh] = j /\ \A id \in Ids \ {Fresh} : job'[id] = job[id]
  BY <1>1, <1>2, <1>7, <1>8
<1>10. Used' = Used \cup {Fresh}
  BY <1>1, <1>7, <1>9, PublisherAssumption DEF Used
<1>11. Cardinality(Used') <= Cardinality(sent') + Spent'
  <2>1. Cardinality(Used') = Cardinality(Used) + 1
    BY <1>7, <1>10, UsedFinite, FS_AddElement
  <2>2. Cardinality(sent') \in Nat /\ Cardinality(sent) \in Nat
    <3>1. Cardinality(sent') \in {Cardinality(sent \cup {j}), Cardinality(sent)}
      BY Zenon DEF j
    <3> QED BY <1>5, <3>1
  <2>3. Cardinality(Used) \in Nat
    BY UsedFinite
  <2> QED BY <1>4, <1>6, <2>1, <2>2, <2>3
<1>12. /\ server' \in Servers /\ server'.unacked = server.unacked
       /\ server'.ready = server.ready \cup {Fresh}
  BY <1>2, <1>7, <1>8 DEF Servers
<1>13. PICK r \in Calls :
         /\ sender' = [sender EXCEPT ![t] = r]
         /\ r.pc \in Enqueuing => sender[t].pc \in Enqueuing /\ r.job = sender[t].job
  BY DEF GoesOn
<1>14. /\ sender'[t] = r
       /\ \A s \in Senders \ {t} : sender'[s] = sender[s]
       /\ sender' = [s \in Senders |-> sender'[s]]
  BY <1>13 DEF PublisherInv
<1>15. \A s \in Senders : sender'[s] \in Calls
  BY <1>13, <1>14, Typed
<1>16. sent' \subseteq Jobs
  BY <1>1, Typed DEF j
<1>17. PublisherTypeOK'
  BY <1>9, <1>12, <1>15, <1>16, Typed
  DEF PublisherTypeOK, Servers, Counters, Calls, Counting
<1>18. \A s \in Senders : sender'[s].pc \in Enqueuing =>
         /\ sender'[s].job \in Jobs \ sent'
         /\ \A u \in Senders \ {s} :
              sender'[u].pc \in Enqueuing => sender'[u].job # sender'[s].job
  <2>1. \A s \in Senders : sender'[s].pc \in Enqueuing =>
          sender[s].pc \in Enqueuing /\ sender'[s].job = sender[s].job
    BY <1>13, <1>14
  <2>2. \A s \in Senders : sender'[s].pc \in Enqueuing => sender[s].job \notin sent'
    BY <1>1, <2>1 DEF PublisherInv, j
  <2> QED BY <2>1, <2>2 DEF PublisherInv
<1>19. \A i \in sent' : \E id \in Used' : job'[id] = i
  <2>1. \A id \in Used : id \in Used' /\ job'[id] = job[id]
    BY <1>7, <1>9, <1>10 DEF Used
  <2>2. \A i \in sent : \E id \in Used' : job'[id] = i
    BY <2>1 DEF PublisherInv
  <2> QED BY <1>9, <1>10, <2>2 DEF j
<1>20. /\ server'.ready \subseteq Used' /\ Used' \cap setup'.old = {}
       /\ \A d \in server'.unacked : d.id \in Used'
  BY <1>7, <1>10, <1>12 DEF PublisherInv
<1>21. PublisherInv'
  BY <1>4, <1>11, <1>14, <1>17, <1>18, <1>19, <1>20 DEF PublisherInv
<1>22. SparesWorker
  BY <1>7, <1>9, <1>10, <1>12 DEF SparesWorker, Counting, Used
<1> QED BY <1>21, <1>22

LEMMA Limits ==
  MAX_ENQUEUE_ATTEMPTS \in Nat \ {0} /\ MAX_DECLARE_ATTEMPTS \in Nat \ {0}
BY PublisherAssumption

LEMMA CallFields ==
  ASSUME NEW c \in Calls
  PROVE  /\ c.attempts \in Nat /\ c.declares \in Nat /\ c.done \in Nat
         /\ \A n \in Nat : n < MAX_ENQUEUE_ATTEMPTS =>
              [c EXCEPT !.pc = "declare", !.attempts = n] \in Calls
         /\ \A n \in Nat : n < MAX_DECLARE_ATTEMPTS =>
              [c EXCEPT !.declares = n] \in Calls
         /\ [c EXCEPT !.pc = "publish", !.declares = 0] \in Calls
         /\ [c EXCEPT !.pc = "discard"] \in Calls
<1>1. 0 \in 0 .. MAX_DECLARE_ATTEMPTS - 1
  BY Limits
<1>2. \A n \in Nat : n < MAX_DECLARE_ATTEMPTS => n \in 0 .. MAX_DECLARE_ATTEMPTS - 1
  BY Limits
<1>3. \A n \in Nat : n < MAX_ENQUEUE_ATTEMPTS => n \in 0 .. MAX_ENQUEUE_ATTEMPTS - 1
  BY Limits
<1>4. c.attempts \in Nat /\ c.declares \in Nat /\ c.done \in Nat
  BY Limits DEF Calls
<1>5. [c EXCEPT !.pc = "publish", !.declares = 0] \in Calls
  BY <1>1 DEF Calls
<1>6. \A n \in Nat : n < MAX_ENQUEUE_ATTEMPTS =>
              [c EXCEPT !.pc = "declare", !.attempts = n] \in Calls
  BY <1>3 DEF Calls
<1>7. \A n \in Nat : n < MAX_DECLARE_ATTEMPTS => [c EXCEPT !.declares = n] \in Calls
  BY <1>2 DEF Calls
<1>8. [c EXCEPT !.pc = "discard"] \in Calls
  BY DEF Calls
<1> QED BY <1>4, <1>5, <1>6, <1>7, <1>8

LEMMA IdleCall ==
  ASSUME NEW e \in {"none", "ConnectionClosed", "KeyError", "AMQPError",
                     "QueueJoinTimeout"}
  PROVE  /\ [NoCall EXCEPT !.error = e] \in Calls
         /\ [NoCall EXCEPT !.error = e].pc = "idle"
         /\ NoCall \in Calls /\ NoCall.pc = "idle"
BY PublisherAssumption DEF NoCall, Calls

LEMMA EndGoes ==
  ASSUME NEW t \in Senders,
         \/ sender' = [sender EXCEPT ![t] = NoCall]
         \/ \E e \in {"ConnectionClosed", "KeyError", "AMQPError", "QueueJoinTimeout"} :
              Raise(t, e)
  PROVE  GoesOn(t)
BY IdleCall DEF GoesOn, Raise, Enqueuing

LEMMA AgainGoes ==
  ASSUME PublisherInv, NEW t \in Senders, sender[t].pc = "publish", Again(t)
  PROVE  GoesOn(t)
<1>1. CASE Raise(t, "ConnectionClosed")
  BY <1>1, EndGoes
<1>2. CASE sender[t].attempts + 1 < MAX_ENQUEUE_ATTEMPTS
           /\ sender' = [sender EXCEPT ![t].pc = "declare", ![t].attempts = @ + 1]
  <2> DEFINE n == sender[t].attempts + 1
             r == [sender[t] EXCEPT !.pc = "declare", !.attempts = n]
  <2>5. sender[t] \in Calls
    BY Typed
  <2>4. n \in Nat /\ n < MAX_ENQUEUE_ATTEMPTS
    BY <1>2, <2>5 DEF Calls
  <2>1. r \in Calls
    BY <2>4, <2>5, CallFields
  <2>3. r.pc = "declare" /\ r.job = sender[t].job
    BY Typed DEF Calls
  <2>2. sender' = [sender EXCEPT ![t] = r]
    BY <1>2 DEF PublisherInv
  <2> QED BY <2>1, <2>2, <2>3 DEF GoesOn, Enqueuing
<1>3. sender[t].attempts \in Nat /\ MAX_ENQUEUE_ATTEMPTS \in Nat
  BY Typed, PublisherAssumption DEF Calls
<1> QED BY <1>1, <1>2, <1>3 DEF Again

LEMMA FailsCounting ==
  ASSUME PublisherInv, NEW t, NEW l, Fails(t, l)
  PROVE  Counting
BY Uncounted, CountedCounting DEF Fails, Events

LEMMA ReachesCounting ==
  ASSUME PublisherInv, NEW t \in Senders, Reaches(t)
  PROVE  Counting /\ link' \in [Senders -> SUBSET Linked]
BY Uncounted, Typed DEF Reaches

(* Declaring queues changes neither messages nor deliveries.               *)
LEMMA DeclareServer ==
  ASSUME PublisherInv, NEW S \in SUBSET Queues,
         server' = [server EXCEPT !.queues = S]
  PROVE  server' \in Servers /\ server'.unacked = server.unacked
         /\ server'.ready = server.ready
BY Typed DEF Servers

LEMMA DeclaredType ==
  ASSUME PublisherInv, NEW made \in 0 .. 3
  PROVE  server.queues \cup {Names[i] : i \in 1 .. made} \subseteq Queues
<1>1. \A i \in 1 .. made : i \in 1 .. 3
  OBVIOUS
<1> QED BY <1>1, Typed DEF Queues, Servers

LEMMA EnsureQueueStep ==
  ASSUME PublisherInv, NEW t \in Senders, EnsureQueue(t)
  PROVE  PublisherInv' /\ SparesWorker
<1>1. /\ setup' = setup /\ job' = job /\ sent' = sent
      /\ finished' = finished /\ finished \subseteq Jobs
      /\ pending' \subseteq {"publisher", "worker"}
      /\ sender[t].pc = "declare" /\ sender[t] \in Calls
  BY Typed DEF EnsureQueue
<1>2. CASE /\ sender' = [sender EXCEPT ![t].pc = "publish", ![t].declares = 0]
           /\ UNCHANGED <<server, link, count>>
  <2> DEFINE r == [sender[t] EXCEPT !.pc = "publish", !.declares = 0]
  <2>1. r \in Calls /\ r.job = sender[t].job
    BY <1>1, CallFields DEF Calls
  <2>2. sender' = [sender EXCEPT ![t] = r]
    BY <1>2 DEF PublisherInv
  <2>3. GoesOn(t)
    BY <1>1, <2>1, <2>2 DEF GoesOn, Enqueuing
  <2> QED BY <1>1, <1>2, <2>3, Uncounted, Typed, Quiet
<1>3. CASE /\ Reaches(t)
           /\ server' = [server EXCEPT !.queues = Queues]
           /\ sender' = [sender EXCEPT ![t].pc = "discard"]
  <2> DEFINE r == [sender[t] EXCEPT !.pc = "discard"]
  <2>1. r \in Calls /\ r.job = sender[t].job
    BY <1>1 DEF Calls
  <2>2. sender' = [sender EXCEPT ![t] = r]
    BY <1>3 DEF PublisherInv
  <2>3. GoesOn(t)
    BY <1>1, <2>1, <2>2 DEF GoesOn, Enqueuing
  <2> QED BY <1>1, <1>3, <2>3, ReachesCounting, DeclareServer, Quiet
<1>4. ASSUME NEW l \in SUBSET Linked, NEW made \in 0 .. 3,
             Fails(t, l),
             server' = [server EXCEPT !.queues = @ \cup {Names[i] : i \in 1 .. made}],
             DeleteConnection(t, l,
               IF sender[t].declares + 1 >= MAX_DECLARE_ATTEMPTS
               THEN Raise(t, "ConnectionClosed")
               ELSE sender' = [sender EXCEPT ![t].declares = @ + 1],
               Raise(t, "KeyError"))
      PROVE  PublisherInv' /\ SparesWorker
  <2>1. link' \in [Senders -> SUBSET Linked]
    BY <1>4, Typed DEF DeleteConnection, DeleteChannel
  <2>2. \/ Raise(t, "ConnectionClosed") \/ Raise(t, "KeyError")
        \/ (/\ ~ (sender[t].declares + 1 >= MAX_DECLARE_ATTEMPTS)
            /\ sender' = [sender EXCEPT ![t].declares = @ + 1])
    BY <1>4 DEF DeleteConnection, DeleteChannel
  <2>3. GoesOn(t)
    <3>1. CASE /\ ~ (sender[t].declares + 1 >= MAX_DECLARE_ATTEMPTS)
               /\ sender' = [sender EXCEPT ![t].declares = @ + 1]
      <4> DEFINE r == [sender[t] EXCEPT !.declares = @ + 1]
      <4>1. r \in Calls /\ r.job = sender[t].job /\ r.pc = sender[t].pc
        BY <1>1, <3>1, PublisherAssumption DEF Calls
      <4>2. sender' = [sender EXCEPT ![t] = r]
        BY <3>1 DEF PublisherInv
      <4> QED BY <4>1, <4>2 DEF GoesOn
    <3> QED BY <2>2, <3>1, EndGoes
  <2>4. server' \in Servers /\ server'.unacked = server.unacked
        /\ server'.ready = server.ready
    BY <1>4, DeclaredType, DeclareServer
  <2> QED BY <1>1, <1>4, <2>1, <2>3, <2>4, FailsCounting, Quiet
<1> QED BY <1>2, <1>3, <1>4 DEF EnsureQueue

LEMMA DiscardStep ==
  ASSUME PublisherInv, NEW t \in Senders, Discard(t)
  PROVE  PublisherInv' /\ SparesWorker
<1> DEFINE r == [sender[t] EXCEPT !.pc = "publish", !.declares = 0]
<1>1. sender[t].pc = "discard" /\ sender[t] \in Calls
  BY Typed DEF Discard
<1>2. r \in Calls /\ r.job = sender[t].job
  BY <1>1, CallFields DEF Calls
<1>3. sender' = [sender EXCEPT ![t] = r]
  BY DEF Discard, PublisherInv
<1>4. GoesOn(t)
  BY <1>1, <1>2, <1>3 DEF GoesOn, Enqueuing
<1>5. /\ setup' = setup /\ job' = job /\ sent' = sent /\ finished' = finished
      /\ server' = server /\ link' = link /\ count' = count
      /\ pending' = pending \ {"publisher"}
  BY DEF Discard
<1> QED BY <1>4, <1>5, Uncounted, Typed, Quiet

LEMMA PublishStep ==
  ASSUME PublisherInv, NEW t \in Senders, Publish(t)
  PROVE  PublisherInv' /\ SparesWorker
<1>1. CASE Confirmed(t)
  <2>1. sender' = [sender EXCEPT ![t] = NoCall] /\ Reaches(t) /\ Stored(t)
        /\ sender[t].pc = "publish" /\ sent' = sent \cup {sender[t].job}
        /\ setup' = setup /\ finished' = finished /\ pending' = pending
    BY <1>1 DEF Confirmed
  <2>2. GoesOn(t) /\ sender'[t].pc \notin Enqueuing
    BY <2>1, EndGoes, IdleCall DEF PublisherInv, Enqueuing
  <2> QED BY <2>1, <2>2, ReachesCounting, Storing
<1>2. CASE PublishFails(t)
  <2>1. PICK l \in SUBSET Linked :
          /\ Fails(t, l)
          /\ \/ "recorded" \in l /\ ~Closed(t) /\ "queue" \in server.queues /\ Stored(t)
             \/ UNCHANGED <<server, job>>
          /\ DeleteConnection(t, l, Again(t), Raise(t, "KeyError"))
    BY <1>2 DEF PublishFails
  <2>2. /\ setup' = setup /\ sent' = sent /\ finished' = finished /\ pending' = pending
        /\ sender[t].pc = "publish"
    BY <1>2 DEF PublishFails
  <2>3. link' \in [Senders -> SUBSET Linked]
    BY <2>1, Typed DEF DeleteConnection, DeleteChannel
  <2>4. Again(t) \/ Raise(t, "KeyError")
    BY <2>1 DEF DeleteConnection, DeleteChannel
  <2>5. GoesOn(t) /\ Counting
    BY <2>1, <2>2, <2>4, AgainGoes, EndGoes, FailsCounting
  <2>6. CASE ~Closed(t) /\ Stored(t)
    <3>1. Spent' = Spent + 1
      BY <2>1, <2>6, CountedCounts DEF Fails, Events
    <3> QED BY <2>2, <2>3, <2>5, <2>6, <3>1, Storing
  <2>7. CASE UNCHANGED <<server, job>>
    BY <2>2, <2>3, <2>5, <2>7, Typed, Quiet
  <2> QED BY <2>1, <2>6, <2>7
<1>3. CASE Unroutable(t)
  <2>1. /\ setup' = setup /\ server' = server /\ job' = job /\ sent' = sent
        /\ finished' = finished /\ count' = count
        /\ pending' = pending \cup {"publisher"}
        /\ link' = [link EXCEPT ![t] = {}]
        /\ sender[t].pc = "publish" /\ Again(t)
    BY <1>3 DEF Unroutable
  <2>2. link' \in [Senders -> SUBSET Linked]
    BY <2>1, Typed
  <2>3. pending' \subseteq {"publisher", "worker"}
    BY <2>1, Typed
  <2> QED BY <2>1, <2>2, <2>3, AgainGoes, Uncounted, Typed, Quiet
<1> QED BY <1>1, <1>2, <1>3 DEF Publish

LEMMA EnqueueStep ==
  ASSUME PublisherInv, NEW t \in Senders, NEW j \in Jobs, Enqueue(t, j)
  PROVE  PublisherInv' /\ SparesWorker
<1> DEFINE r == [NoCall EXCEPT !.pc = "declare", !.job = j]
<1>1. /\ j \notin sent /\ \A s \in Senders : sender[s].job # j
      /\ sender' = [sender EXCEPT ![t] = r]
      /\ UNCHANGED <<setup, server, job, finished, sent, pending, link, count>>
  BY DEF Enqueue
<1>2. r \in Calls /\ r.job = j /\ r.pc = "declare"
  <2>1. NoCall \in Calls
    BY IdleCall
  <2> QED BY <2>1 DEF Calls
<1> HIDE DEF r
<1>3. /\ sender'[t] = r
      /\ \A s \in Senders \ {t} : sender'[s] = sender[s]
      /\ sender' = [s \in Senders |-> sender'[s]]
  BY <1>1 DEF PublisherInv
<1>4. \A s \in Senders : sender'[s] \in Calls
  BY <1>2, <1>3, Typed
<1>5. PublisherTypeOK'
  BY <1>1, <1>4, Typed DEF PublisherTypeOK, Servers, Counters, Calls
<1>6. \A s \in Senders : sender'[s].pc \in Enqueuing =>
        /\ sender'[s].job \in Jobs \ sent'
        /\ \A u \in Senders \ {s} :
             sender'[u].pc \in Enqueuing => sender'[u].job # sender'[s].job
  BY <1>1, <1>2, <1>3 DEF PublisherInv
<1>7. Used' = Used /\ Spent' = Spent
  BY <1>1 DEF Used, Spent
<1>8. PublisherInv'
  BY <1>1, <1>3, <1>5, <1>6, <1>7 DEF PublisherInv
<1>9. SparesWorker
  BY <1>1, <1>7 DEF SparesWorker
<1> QED BY <1>8, <1>9

LEMMA CallStep ==
  ASSUME PublisherInv, NEW t \in Senders, Flush(t) \/ Join(t)
  PROVE  PublisherInv' /\ SparesWorker
<1>1. /\ UNCHANGED <<setup, server, job, finished, sent, pending, link>>
      /\ Counting
  BY CallCounting DEF Flush, Join
<1>2. PICK r \in {[NoCall EXCEPT !.pc = "flush", !.before = server.ready \cup server.dead],
                  [NoCall EXCEPT !.pc = "join"]} :
        sender' = [sender EXCEPT ![t] = r]
  BY DEF Flush, Join
<1>3. r \in Calls /\ r.pc \notin Enqueuing
  <2>1. NoCall \in Calls /\ server.ready \cup server.dead \subseteq Ids
    BY IdleCall, Typed DEF Servers
  <2> QED BY <1>2, <2>1 DEF Calls, Enqueuing
<1>4. GoesOn(t)
  BY <1>2, <1>3 DEF GoesOn
<1> QED BY <1>1, <1>4, Typed, Quiet

LEMMA PurgesServer ==
  ASSUME PublisherInv, NEW name, Purges(name)
  PROVE  /\ server' \in Servers /\ server'.unacked = server.unacked
         /\ server'.ready \subseteq server.ready
         /\ finished \subseteq finished' /\ finished' \subseteq Jobs
         /\ \A id \in server.ready \ server'.ready : job[id] \in finished'
<1>1. server \in Servers /\ server.ready \subseteq Used /\ finished \subseteq Jobs
      /\ \A id \in Used : job[id] \in Jobs
  BY Typed DEF PublisherInv, Used
<1>2. /\ server'.ready = IF name = "queue" THEN {} ELSE server.ready
      /\ server'.unacked = server.unacked /\ server' \in Servers
  BY <1>1 DEF Purges, Servers
<1>3. finished' = finished \cup (IF name = "queue" THEN {job[id] : id \in server.ready}
                                 ELSE {})
  BY DEF Purges
<1> QED BY <1>1, <1>2, <1>3

(* The next queue of a flush, or the next poll of a join.                 *)
LEMMA DoneGoes ==
  ASSUME PublisherInv, NEW t \in Senders, NEW n \in Nat,
         sender[t].pc \in {"flush", "join"},
         \/ sender' = [sender EXCEPT ![t] = NoCall]
         \/ sender' = [sender EXCEPT ![t].done = n]
  PROVE  GoesOn(t)
<1>1. CASE sender' = [sender EXCEPT ![t] = NoCall]
  BY <1>1, EndGoes
<1>2. CASE sender' = [sender EXCEPT ![t].done = n]
  <2> DEFINE r == [sender[t] EXCEPT !.done = n]
  <2>1. sender[t] \in Calls
    BY Typed
  <2>2. r \in Calls
    BY <2>1 DEF Calls
  <2>3. r.pc \notin Enqueuing
    BY <2>1 DEF Calls, Enqueuing
  <2>4. sender' = [sender EXCEPT ![t] = r]
    BY <1>2 DEF PublisherInv
  <2> QED BY <2>2, <2>3, <2>4 DEF GoesOn
<1> QED BY <1>1, <1>2

LEMMA NextQueueGoes ==
  ASSUME PublisherInv, NEW t \in Senders, sender[t].pc = "flush", NextQueue(t)
  PROVE  GoesOn(t)
<1>1. sender[t] \in Calls
  BY Typed
<1>2. sender[t].done + 1 \in Nat
  BY <1>1 DEF Calls
<1>3. \/ sender' = [sender EXCEPT ![t] = NoCall]
      \/ sender' = [sender EXCEPT ![t].done = sender[t].done + 1]
  BY DEF NextQueue
<1> QED BY <1>2, <1>3, DoneGoes

LEMMA PurgeStep ==
  ASSUME PublisherInv, NEW t \in Senders, Purge(t)
  PROVE  PublisherInv' /\ SparesWorker
<1> DEFINE name == Names[sender[t].done + 1]
<1>1. /\ UNCHANGED <<setup, job, sent, pending>>
      /\ sender[t].pc = "flush" /\ finished \subseteq Jobs
      /\ pending \subseteq {"publisher", "worker"}
      /\ server \in Servers /\ link \in [Senders -> SUBSET Linked]
  BY Typed DEF Purge
<1>2. CASE Reaches(t) /\ Purges(name) /\ NextQueue(t)
  BY <1>1, <1>2, ReachesCounting, PurgesServer, NextQueueGoes, Quiet
<1>3. CASE /\ link' = [link EXCEPT ![t] = {"connection", "open"}]
           /\ NextQueue(t)
           /\ UNCHANGED <<server, finished, count>>
  <2>1. link' \in [Senders -> SUBSET Linked]
    BY <1>1, <1>3 DEF Linked
  <2> QED BY <1>1, <1>3, <2>1, NextQueueGoes, Uncounted, Quiet
<1>4. CASE /\ DeleteChannel(t, link[t], NextQueue(t), Raise(t, "KeyError"))
           /\ UNCHANGED <<server, finished, count>>
  <2>1. link' \in [Senders -> SUBSET Linked]
    BY <1>1, <1>4 DEF DeleteChannel
  <2>2. NextQueue(t) \/ Raise(t, "KeyError")
    BY <1>4 DEF DeleteChannel
  <2> QED BY <1>1, <1>4, <2>1, <2>2, NextQueueGoes, EndGoes, Uncounted, Quiet
<1>5. ASSUME NEW l \in SUBSET Linked, Fails(t, l),
             Purges(name) \/ UNCHANGED <<server, finished>>,
             link' = [link EXCEPT ![t] = l], Raise(t, "AMQPError")
      PROVE  PublisherInv' /\ SparesWorker
  <2>1. link' \in [Senders -> SUBSET Linked]
    BY <1>1, <1>5
  <2>2. GoesOn(t) /\ Counting
    BY <1>5, EndGoes, FailsCounting
  <2>3. CASE Purges(name)
    BY <1>1, <2>1, <2>2, <2>3, PurgesServer, Quiet
  <2>4. CASE UNCHANGED <<server, finished>>
    BY <1>1, <2>1, <2>2, <2>4, Quiet
  <2> QED BY <1>5, <2>3, <2>4
<1> QED BY <1>2, <1>3, <1>4, <1>5 DEF Purge

LEMMA PollStep ==
  ASSUME PublisherInv, NEW t \in Senders, Poll(t)
  PROVE  PublisherInv' /\ SparesWorker
<1> DEFINE ok ==
      sender' = IF server.ready # {} THEN [sender EXCEPT ![t].done = 0]
                ELSE IF sender[t].done + 1 = MinSuccesses
                THEN [sender EXCEPT ![t] = NoCall]
                ELSE [sender EXCEPT ![t].done = @ + 1]
<1>1. /\ UNCHANGED <<setup, job, finished, sent, pending>>
      /\ sender[t].pc = "join" /\ finished \subseteq Jobs
      /\ pending \subseteq {"publisher", "worker"}
      /\ server \in Servers /\ link \in [Senders -> SUBSET Linked]
      /\ sender[t] \in Calls
  BY Typed DEF Poll
<1>2. ok => GoesOn(t)
  <2> SUFFICES ASSUME ok PROVE GoesOn(t)
    OBVIOUS
  <2>1. sender[t].done + 1 \in Nat
    BY <1>1 DEF Calls
  <2>2. \/ sender' = [sender EXCEPT ![t].done = 0]
        \/ sender' = [sender EXCEPT ![t] = NoCall]
        \/ sender' = [sender EXCEPT ![t].done = sender[t].done + 1]
    OBVIOUS
  <2> QED BY <1>1, <2>1, <2>2, DoneGoes
<1> HIDE DEF ok
<1>3. CASE Reaches(t) /\ server' = [server EXCEPT !.queues = Queues] /\ ok
  BY <1>1, <1>2, <1>3, ReachesCounting, DeclareServer, Quiet
<1>4. ASSUME NEW l \in SUBSET Linked, NEW made \in 0 .. 3, Fails(t, l),
             server' = [server EXCEPT !.queues = @ \cup {Names[i] : i \in 1 .. made}],
             link' = [link EXCEPT ![t] = l], Raise(t, "AMQPError")
      PROVE  PublisherInv' /\ SparesWorker
  <2>1. link' \in [Senders -> SUBSET Linked]
    BY <1>1, <1>4
  <2>2. GoesOn(t) /\ Counting
    BY <1>4, EndGoes, FailsCounting
  <2>3. server' \in Servers /\ server'.unacked = server.unacked
        /\ server'.ready = server.ready
    BY <1>4, DeclaredType, DeclareServer
  <2> QED BY <1>1, <2>1, <2>2, <2>3, Quiet
<1>5. CASE Raise(t, "QueueJoinTimeout") /\ UNCHANGED <<server, link, count>>
  BY <1>1, <1>5, EndGoes, Uncounted, Quiet
<1> QED BY <1>3, <1>4, <1>5 DEF Poll, GetCounts, ok

LEMMA CloseBrokerStep ==
  ASSUME PublisherInv, CloseBroker
  PROVE  PublisherInv' /\ SparesWorker
<1>1. /\ UNCHANGED <<setup, server, job, finished, sent, pending, sender>>
      /\ Counting
      /\ link' \in [Senders -> SUBSET Linked]
  BY CountedCounting, Typed DEF CloseBroker, Events
<1>2. Used' = Used /\ Cardinality(sent') = Cardinality(sent)
  BY <1>1 DEF Used
<1>3. PublisherTypeOK'
  BY <1>1, Typed DEF PublisherTypeOK, Servers, Counters, Calls, Counting
<1>4. Cardinality(Used') <= Cardinality(sent') + Spent'
  <2>1. Spent' \in Nat
    BY <1>1, CountersType DEF Spent, Counting
  <2> QED BY <1>1, <1>2, <2>1, SpentType, UsedFinite DEF PublisherInv, Counting
<1>5. PublisherInv'
  BY <1>1, <1>2, <1>3, <1>4 DEF PublisherInv, Counting
<1>6. SparesWorker
  BY <1>1, <1>2 DEF SparesWorker, Counting
<1> QED BY <1>5, <1>6

LEMMA PublisherStep ==
  PublisherInv /\ PublisherNext => PublisherInv' /\ SparesWorker
BY EnqueueStep, CallStep, EnsureQueueStep, DiscardStep, PublishStep, PurgeStep,
   PollStep, CloseBrokerStep DEF PublisherNext, SenderStep

-----------------------------------------------------------------------------
(* What the publishers leave of the worker's invariants.                   *)

Consumers == [pc : {"top", "next", "restart", "closing"},
              channel : {"closed", "open", "consuming", "cancelled"},
              next : Tags \cup {Cardinality(Ids) + 1},
              known : SUBSET Tags,
              callbacks : Seq([kind : {"ack", "nack"}, tag : Tags]),
              replaced : BOOLEAN]

WorkerInv == WorkerType /\ ChannelInv /\ JobsInv

LEMMA WorkerTyped ==
  WorkerType => /\ consumer \in Consumers /\ Memory \subseteq Delivery
                /\ work \subseteq Delivery
                /\ \A t \in Threads : thread[t].item \subseteq Memory
BY DEF WorkerType, TypeOK, Consumers, Memory

LEMMA IdSets ==
  /\ Cardinality(Ids) \in Nat
  /\ \A S \in SUBSET Ids :
       /\ IsFiniteSet(S) /\ Cardinality(S) \in Nat /\ Cardinality(S) <= Cardinality(Ids)
       /\ \A T \in SUBSET S : Cardinality(T) <= Cardinality(S)
BY PublisherAssumption, FS_Subset, FS_CardinalityType

LEMMA InMemoryIs == \A j : InMemory(j) <=> \E d \in Memory : job[d.id] = j
BY DEF InMemory, Memory

LEMMA SafeKept ==
  ASSUME NEW id, Safe(id), job'[id] = job[id], finished \subseteq finished',
         Replaced => Replaced',
         InMemory(job[id]) => \/ InMemory(job[id])' \/ job[id] \in finished'
                              \/ count'.crashes > 0,
         count.crashes > 0 => count'.crashes > 0
  PROVE  Safe(id)'
BY DEF Safe

LEMMA SparesKeeps ==
  ASSUME PublisherInv, WorkerInv, PublisherInv', SparesWorker, UNCHANGED inWorker
  PROVE  WorkerInv'
<1>1. consumer' = consumer /\ work' = work /\ thread' = thread /\ Memory' = Memory
      /\ Called' = Called /\ Replaced' = Replaced
  BY DEF inWorker, Memory, Called, Replaced
<1>2. WorkerType'
  BY <1>1 DEF WorkerInv, WorkerType, TypeOK, PublisherInv, SparesWorker
<1>3. Unacked' = Unacked
  BY DEF SparesWorker, Unacked
<1>4. Cardinality(Used \ server.ready) <= Cardinality(Used' \ server'.ready)
      /\ Cardinality(Used \ server.ready) \in Nat
      /\ Cardinality(Used' \ server'.ready) \in Nat
  <2>1. Used \ server.ready \subseteq Used' \ server'.ready /\ Used' \ server'.ready \subseteq Ids
    BY DEF SparesWorker, Used
  <2> QED BY <2>1, IdSets
<1>5. consumer.next \in Nat
  BY WorkerTyped, IdSets DEF WorkerInv, Consumers, Tags
<1>6. ChannelInv'
  BY <1>1, <1>3, <1>4, <1>5 DEF WorkerInv, ChannelInv, SparesWorker
<1>7. \A d \in Memory : d.id \in Used /\ job'[d.id] = job[d.id]
  BY DEF WorkerInv, WorkerType, SparesWorker
<1>8. \A j : InMemory(j) => InMemory(j)'
  BY <1>1, <1>7, InMemoryIs DEF InMemory, Memory
<1>9. \A id \in Used : Safe(id) => Safe(id)'
  BY <1>1, <1>8, SafeKept DEF SparesWorker
<1>10. ASSUME NEW id \in Used'
       PROVE  \/ id \in server'.ready
              \/ \E d \in server'.unacked : d.id = id
              \/ Safe(id)'
  <2>1. CASE id \in Used
    <3>1. CASE id \in server.ready
      BY <2>1, <3>1 DEF SparesWorker, Safe
    <3>2. CASE \E d \in server.unacked : d.id = id
      BY <3>2 DEF SparesWorker
    <3> QED BY <1>9, <2>1, <3>1, <3>2 DEF WorkerInv, JobsInv
  <2> QED BY <2>1 DEF SparesWorker
<1>11. \A d \in server.unacked : d.id \in Used /\ job'[d.id] = job[d.id]
  BY DEF PublisherInv, SparesWorker
<1>12. \A d \in server'.unacked : d \in Memory' \/ job'[d.id] \in finished'
  BY <1>1, <1>11 DEF WorkerInv, JobsInv, SparesWorker
<1>13. \A t \in Threads : thread'[t].pc = "post" =>
         \A d \in thread'[t].item : job'[d.id] \in finished'
  BY <1>1, <1>7, WorkerTyped DEF WorkerInv, JobsInv, SparesWorker
<1>14. ~Replaced' =>
         /\ \A d \in server'.unacked : d.tag \in Called' => job'[d.id] \in finished'
         /\ \A d \in Memory', u \in server'.unacked : d.tag = u.tag => d = u
         /\ \A d \in Memory' : d.tag < consumer'.next
  BY <1>1, <1>11 DEF WorkerInv, JobsInv, SparesWorker
<1>15. JobsInv'
  BY <1>10, <1>12, <1>13, <1>14 DEF JobsInv
<1> QED BY <1>2, <1>6, <1>15 DEF WorkerInv

-----------------------------------------------------------------------------
(* What the worker process does.                                           *)

LEMMA PublisherKept ==
  ASSUME PublisherInv, server' \in Servers, server'.ready \subseteq Used,
         \A d \in server'.unacked : d.id \in Used,
         finished' \subseteq Jobs, pending' \subseteq {"publisher", "worker"},
         count' \in Counters, Spent <= Spent', Spent' <= setup.events,
         UNCHANGED <<setup, job, sent, sender, link>>
  PROVE  PublisherInv' /\ Used' = Used
<1>1. Used' = Used
  BY DEF Used
<1>2. PublisherTypeOK'
  BY Typed DEF PublisherTypeOK, Servers, Counters, Calls
<1>3. Cardinality(Used') <= Cardinality(sent') + Spent'
  <2>1. Cardinality(Used) <= Cardinality(sent) + Spent
    BY DEF PublisherInv
  <2>2. Spent' \in Nat
    BY CountersType DEF Spent
  <2>3. Cardinality(Used) \in Nat
    BY UsedFinite
  <2> QED BY <1>1, <2>1, <2>2, <2>3, SpentType
<1> QED BY <1>1, <1>2, <1>3 DEF PublisherInv

LEMMA AllSafeKept ==
  ASSUME job' = job, finished \subseteq finished', Replaced => Replaced',
         count.crashes > 0 => count'.crashes > 0,
         \A d \in Memory \ Memory' : job[d.id] \in finished' \/ count'.crashes > 0
  PROVE  \A id : Safe(id) => Safe(id)'
<1> SUFFICES ASSUME NEW id, Safe(id) PROVE Safe(id)'
  OBVIOUS
<1>1. InMemory(job[id]) => \/ InMemory(job[id])' \/ job[id] \in finished'
                           \/ count'.crashes > 0
  <2> SUFFICES ASSUME NEW d \in Memory, job[d.id] = job[id],
                      job[id] \notin finished', ~(count'.crashes > 0)
               PROVE  InMemory(job[id])'
    BY InMemoryIs
  <2>1. d \in Memory' /\ job'[d.id] = job'[id]
    OBVIOUS
  <2> QED BY <2>1 DEF InMemory, Memory
<1> QED BY <1>1, SafeKept

LEMMA SameCount ==
  ASSUME PublisherInv, count' = count
  PROVE  count' \in Counters /\ Spent <= Spent' /\ Spent' <= setup.events
BY Typed, CountersType DEF Spent, PublisherInv

LEMMA NoConsumerType ==
  /\ NoConsumer \in Consumers
  /\ NoConsumer.pc = "top" /\ NoConsumer.channel = "closed" /\ NoConsumer.next = 1
  /\ NoConsumer.known = {} /\ NoConsumer.callbacks = <<>>
  /\ NoConsumer.replaced = FALSE
<1>1. 1 \in Tags \cup {Cardinality(Ids) + 1}
  BY IdSets DEF Tags
<1>2. <<>> \in Seq([kind : {"ack", "nack"}, tag : Tags])
  OBVIOUS
<1> QED BY <1>1, <1>2 DEF NoConsumer, Consumers

Opened == [NoConsumer EXCEPT !.pc = "next", !.channel = "open",
             !.replaced = consumer.replaced \/ consumer.next > 1]

LEMMA OpenedType ==
  ASSUME consumer \in Consumers
  PROVE  /\ Opened \in Consumers
         /\ Opened.pc = "next" /\ Opened.channel = "open" /\ Opened.next = 1
         /\ Opened.known = {} /\ Opened.callbacks = <<>>
         /\ ~Opened.replaced => ~consumer.replaced /\ consumer.next = 1
<1> DEFINE replaced == consumer.replaced \/ consumer.next > 1
<1>1. replaced \in BOOLEAN /\ consumer.next \in Nat \ {0}
  BY IdSets DEF Consumers, Tags
<1>2. ~replaced => ~consumer.replaced /\ consumer.next = 1
  BY <1>1
<1>3. Opened = [NoConsumer EXCEPT !.pc = "next", !.channel = "open", !.replaced = replaced]
  BY DEF Opened
<1> HIDE DEF replaced
<1>4. /\ Opened \in Consumers
      /\ Opened.pc = "next" /\ Opened.channel = "open" /\ Opened.next = 1
      /\ Opened.known = {} /\ Opened.callbacks = <<>> /\ Opened.replaced = replaced
  BY <1>1, <1>3, NoConsumerType DEF Consumers
<1> QED BY <1>2, <1>4

LEMMA ConsumerTopStep ==
  ASSUME PublisherInv, WorkerInv, ConsumerTop
  PROVE  PublisherInv' /\ WorkerInv'
<1>1. /\ UNCHANGED <<setup, job, finished, sent, sender, link, thread, work>>
      /\ consumer.pc = "top" /\ consumer.channel = "closed" /\ server.unacked = {}
  BY DEF ConsumerTop, OutsideConsumer, WorkerInv, ChannelInv
<1>2. Memory' = Memory
  BY <1>1 DEF Memory
<1>3. /\ count' \in Counters /\ Spent <= Spent' /\ Spent' <= setup.events
      /\ count'.crashes = count.crashes
  <2>1. count' = count \/ Counted("faults")
    BY DEF ConsumerTop
  <2>2. CASE count' = count
    BY <2>2, SameCount
  <2>3. CASE Counted("faults")
    BY <2>3, CountedCounts, SpentType DEF Events
  <2> QED BY <2>1, <2>2, <2>3
<1>4. server' \in Servers /\ server'.ready = server.ready
      /\ server'.unacked = server.unacked
      /\ pending' \subseteq {"publisher", "worker"}
  BY Typed DEF ConsumerTop, Servers
<1>5. PublisherInv' /\ Used' = Used
  <2>1. finished' \subseteq Jobs /\ server.ready \subseteq Used
    BY <1>1, Typed DEF PublisherInv
  <2> QED BY <1>1, <1>3, <1>4, <2>1, PublisherKept
<1>6. /\ consumer \in Consumers
      /\ \/ consumer' = Opened /\ count' = count
         \/ consumer' = [consumer EXCEPT !.pc = "restart"]
  BY WorkerTyped DEF ConsumerTop, Opened, WorkerInv
<1>7. consumer' \in Consumers /\ consumer'.pc \in {"next", "restart"}
  <2>1. CASE consumer' = Opened
    BY <1>6, <2>1, OpenedType
  <2>2. CASE consumer' = [consumer EXCEPT !.pc = "restart"]
    BY <1>6, <2>2 DEF Consumers
  <2> QED BY <1>6, <2>1, <2>2
<1>8. WorkerType'
  BY <1>1, <1>2, <1>5, <1>7 DEF WorkerInv, WorkerType, TypeOK, PublisherInv, Consumers
<1>9. ChannelInv'
  <2>1. CASE consumer' = Opened
    <3>1. /\ consumer'.next = 1 /\ consumer'.known = {} /\ consumer'.callbacks = <<>>
          /\ consumer'.channel = "open" /\ consumer'.pc = "next"
      BY <1>6, <2>1, OpenedType
    <3>2. Called' = {} /\ Unacked' = {}
      BY <1>1, <1>4, <3>1 DEF Called, Unacked
    <3>3. Cardinality(Used' \ server'.ready) \in Nat /\ Cardinality(Called') = 0
      BY <1>5, <3>2, IdSets, FS_EmptySet DEF Used
    <3> QED BY <1>1, <1>4, <3>1, <3>2, <3>3 DEF ChannelInv
  <2>2. CASE consumer' = [consumer EXCEPT !.pc = "restart"]
    <3>1. /\ consumer'.channel = "closed" /\ consumer'.callbacks = consumer.callbacks
          /\ consumer'.pc = "restart"
      BY <1>1, <1>6, <2>2 DEF Consumers
    <3>2. Called' = Called
      BY <3>1 DEF Called
    <3> QED BY <1>1, <1>4, <3>1, <3>2 DEF WorkerInv, ChannelInv
  <2> QED BY <1>6, <2>1, <2>2
<1>10. JobsInv'
  <2>1. \A id \in Used' : \/ id \in server'.ready
                          \/ \E d \in server'.unacked : d.id = id
                          \/ Safe(id)'
    <3>1. Replaced => Replaced'
      BY <1>6, OpenedType DEF Replaced, Consumers
    <3> QED BY <1>1, <1>2, <1>3, <1>4, <1>5, <3>1, AllSafeKept DEF WorkerInv, JobsInv
  <2>2. ASSUME ~Replaced', NEW d \in Memory PROVE d.tag < consumer'.next
    <3>1. CASE consumer' = Opened
      <4>1. ~Replaced /\ consumer.next = 1
        BY <1>6, <2>2, <3>1, OpenedType DEF Replaced
      <4>2. d.tag < 1 /\ d.tag \in Nat \ {0}
        BY <4>1, WorkerTyped DEF WorkerInv, JobsInv, Delivery, Tags
      <4> QED BY <4>2
    <3>2. CASE consumer' = [consumer EXCEPT !.pc = "restart"]
      BY <1>6, <2>2, <3>2 DEF Replaced, Consumers, WorkerInv, JobsInv
    <3> QED BY <1>6, <3>1, <3>2
  <2> QED BY <1>1, <1>2, <1>4, <2>1, <2>2 DEF WorkerInv, JobsInv
<1> QED BY <1>5, <1>8, <1>9, <1>10 DEF WorkerInv

(* A step of the consumer that changes only its pc and its channel.        *)
LEMMA ChannelStep ==
  ASSUME PublisherInv, WorkerInv,
         UNCHANGED <<setup, job, finished, sent, sender, link, thread, work>>,
         server' \in Servers, server'.ready = server.ready,
         server'.unacked = server.unacked,
         pending' \subseteq {"publisher", "worker"},
         count' \in Counters, Spent <= Spent', Spent' <= setup.events,
         count'.crashes = count.crashes,
         NEW pc \in {"top", "next", "restart", "closing"},
         NEW channel \in {"closed", "open", "consuming", "cancelled"},
         consumer' = [consumer EXCEPT !.pc = pc, !.channel = channel],
         pc = "top" => channel = "closed",
         consumer.channel = "closed" => channel = "closed",
         channel \in {"closed", "open"} => server.unacked = {}
  PROVE  PublisherInv' /\ WorkerInv'
<1>1. Memory' = Memory
  BY DEF Memory
<1>2. PublisherInv' /\ Used' = Used
  <2>1. finished' \subseteq Jobs /\ server.ready \subseteq Used
        /\ \A d \in server.unacked : d.id \in Used
    BY Typed DEF PublisherInv
  <2> QED BY <2>1, PublisherKept
<1>3. /\ consumer \in Consumers /\ consumer' \in Consumers
      /\ consumer'.next = consumer.next /\ consumer'.known = consumer.known
      /\ consumer'.callbacks = consumer.callbacks
      /\ consumer'.pc = pc /\ consumer'.channel = channel
      /\ consumer'.replaced = consumer.replaced
  BY WorkerTyped DEF WorkerInv, Consumers
<1>4. Called' = Called /\ Unacked' = Unacked /\ Replaced' = Replaced
  BY <1>3 DEF Called, Unacked, Replaced
<1>5. WorkerType'
  BY <1>1, <1>2, <1>3 DEF WorkerInv, WorkerType, TypeOK, PublisherInv, Consumers
<1>6. ChannelInv'
  BY <1>2, <1>3, <1>4 DEF WorkerInv, ChannelInv
<1>7. JobsInv'
  <2>1. \A id \in Used' : \/ id \in server'.ready
                          \/ \E d \in server'.unacked : d.id = id
                          \/ Safe(id)'
    BY <1>1, <1>2, <1>4, AllSafeKept DEF WorkerInv, JobsInv
  <2> QED BY <1>1, <1>3, <1>4, <2>1 DEF WorkerInv, JobsInv
<1> QED BY <1>2, <1>5, <1>6, <1>7 DEF WorkerInv

LEMMA StartConsumingStep ==
  ASSUME PublisherInv, WorkerInv, StartConsuming
  PROVE  PublisherInv' /\ WorkerInv'
<1>1. /\ UNCHANGED <<setup, job, finished, sent, sender, link, thread, work>>
      /\ server' = server /\ count' = count
      /\ consumer.pc = "next" /\ consumer.channel = "open" /\ server.unacked = {}
      /\ server \in Servers /\ consumer \in Consumers
  BY Typed, WorkerTyped DEF StartConsuming, OutsideConsumer, WorkerInv, ChannelInv, JobsInv
<1>2. pending' \subseteq {"publisher", "worker"}
  BY Typed DEF StartConsuming
<1>3. count.crashes = count'.crashes
  BY <1>1
<1>4. CASE consumer' = [consumer EXCEPT !.channel = "consuming"]
  <2>1. consumer' = [consumer EXCEPT !.pc = "next", !.channel = "consuming"]
    BY <1>1, <1>4 DEF Consumers
  <2> QED BY <1>1, <1>2, <1>3, <2>1, SameCount, ChannelStep
<1>5. CASE consumer' = [consumer EXCEPT !.channel = "closed", !.pc = "restart"]
  <2>1. consumer' = [consumer EXCEPT !.pc = "restart", !.channel = "closed"]
    BY <1>1, <1>5 DEF Consumers
  <2> QED BY <1>1, <1>2, <1>3, <2>1, SameCount, ChannelStep
<1> QED BY <1>4, <1>5 DEF StartConsuming

LEMMA LeaveLoopStep ==
  ASSUME PublisherInv, WorkerInv, LeaveLoop
  PROVE  PublisherInv' /\ WorkerInv'
<1>1. /\ UNCHANGED <<setup, job, finished, sent, sender, link, thread, work>>
      /\ server' = server /\ pending' = pending
      /\ server \in Servers /\ consumer \in Consumers
      /\ pending \subseteq {"publisher", "worker"}
      /\ consumer.pc = "next"
      /\ consumer' = [consumer EXCEPT !.pc = "restart"]
  BY Typed, WorkerTyped DEF LeaveLoop, OutsideConsumer, WorkerInv
<1>2. consumer' = [consumer EXCEPT !.pc = "restart", !.channel = consumer.channel]
  BY <1>1 DEF Consumers
<1>3. consumer.channel \in {"closed", "open", "consuming", "cancelled"}
      /\ (consumer.channel \in {"closed", "open"} => server.unacked = {})
  BY <1>1 DEF Consumers, WorkerInv, ChannelInv
<1>4. CASE consumer.channel \in {"closed", "cancelled"} /\ count' = count
  <2>1. /\ count' \in Counters /\ Spent <= Spent' /\ Spent' <= setup.events
        /\ count'.crashes = count.crashes
    BY <1>4, SameCount
  <2> QED BY <1>1, <1>2, <1>3, <1>4, <2>1, ChannelStep
<1>5. CASE consumer.channel = "consuming" /\ Counted("pauses")
  <2>1. /\ count' \in Counters /\ Spent <= Spent' /\ Spent' <= setup.events
        /\ count'.crashes = count.crashes
    BY <1>5, CountedCounts, SpentType DEF Events
  <2> QED BY <1>1, <1>2, <1>3, <1>5, <2>1, ChannelStep
<1> QED BY <1>4, <1>5 DEF LeaveLoop

LEMMA AwaitCallbacksStep ==
  ASSUME PublisherInv, WorkerInv, AwaitCallbacks
  PROVE  PublisherInv' /\ WorkerInv'
<1>1. /\ UNCHANGED <<setup, job, finished, sent, sender, link, thread, work>>
      /\ server' = server /\ pending' = pending /\ count' = count
      /\ server \in Servers /\ consumer \in Consumers
      /\ pending \subseteq {"publisher", "worker"}
      /\ consumer.pc = "restart"
      /\ consumer' = [consumer EXCEPT !.pc = "closing"]
  BY Typed, WorkerTyped DEF AwaitCallbacks, OutsideConsumer, WorkerInv
<1>2. consumer' = [consumer EXCEPT !.pc = "closing", !.channel = consumer.channel]
  BY <1>1 DEF Consumers
<1>3. consumer.channel \in {"closed", "open", "consuming", "cancelled"}
      /\ (consumer.channel \in {"closed", "open"} => server.unacked = {})
  BY <1>1 DEF Consumers, WorkerInv, ChannelInv
<1>4. /\ count' \in Counters /\ Spent <= Spent' /\ Spent' <= setup.events
      /\ count'.crashes = count.crashes
  BY <1>1, SameCount
<1> QED BY <1>1, <1>2, <1>3, <1>4, ChannelStep

LEMMA DeleteQueueStep ==
  ASSUME PublisherInv, WorkerInv, DeleteQueue
  PROVE  PublisherInv' /\ WorkerInv'
<1>1. /\ UNCHANGED <<setup, job, finished, sent, sender, link, thread, work>>
      /\ server' = [server EXCEPT !.queues = @ \ {"queue"}] /\ pending' = pending
      /\ server \in Servers /\ consumer \in Consumers /\ server.unacked = {}
      /\ pending \subseteq {"publisher", "worker"}
      /\ Counted("deletions")
      /\ consumer' = IF consumer.channel = "consuming"
                     THEN [consumer EXCEPT !.channel = "cancelled"] ELSE consumer
  BY Typed, WorkerTyped DEF DeleteQueue, OutsideConsumer, WorkerInv
<1>2. server' \in Servers /\ server'.ready = server.ready
      /\ server'.unacked = server.unacked
  BY <1>1 DEF Servers
<1>3. /\ count' \in Counters /\ Spent <= Spent' /\ Spent' <= setup.events
      /\ count'.crashes = count.crashes
  BY <1>1, CountedCounts, SpentType DEF Events
<1>4. PICK channel \in {"closed", "open", "consuming", "cancelled"} :
        /\ consumer' = [consumer EXCEPT !.pc = consumer.pc, !.channel = channel]
        /\ channel \in {consumer.channel, "cancelled"}
        /\ channel # consumer.channel => consumer.channel = "consuming"
  <2>1. CASE consumer.channel = "consuming"
    BY <1>1, <2>1 DEF Consumers
  <2>2. CASE consumer.channel # "consuming"
    BY <1>1, <2>2 DEF Consumers
  <2> QED BY <2>1, <2>2
<1>5. consumer.pc \in {"top", "next", "restart", "closing"}
      /\ (consumer.pc = "top" => channel = "closed")
  BY <1>1, <1>4 DEF Consumers, WorkerInv, ChannelInv
<1> QED BY <1>1, <1>2, <1>3, <1>4, <1>5, ChannelStep

NoThreads == [t \in Threads |-> NoThread]

(* The channel closes: what was not acked returns to the queue.            *)
LEMMA ReturnedStep ==
  ASSUME PublisherInv, WorkerInv, server' = Returned,
         UNCHANGED <<setup, job, finished, sent, sender, link>>,
         pending' \subseteq {"publisher", "worker"},
         count' \in Counters, Spent <= Spent', Spent' <= setup.events,
         Replaced => Replaced', count.crashes > 0 => count'.crashes > 0,
         consumer' \in Consumers, consumer'.channel = "closed",
         consumer'.callbacks = <<>>,
         \/ work' = work /\ thread' = thread
         \/ work' = {} /\ thread' = NoThreads /\ count'.crashes > 0,
         ~Replaced' => \A d \in Memory' : d.tag < consumer'.next
  PROVE  PublisherInv' /\ WorkerInv'
<1>1. server \in Servers /\ server.ready \subseteq Used /\ \A d \in server.unacked : d.id \in Used
  BY Typed DEF PublisherInv
<1>2. /\ server' \in Servers /\ server'.unacked = {}
      /\ server'.ready = server.ready \cup {d.id : d \in server.unacked}
  <2> DEFINE back == {d.id : d \in server.unacked}
  <2>1. back \subseteq Ids
    BY <1>1 DEF Used
  <2>2. server' = [server EXCEPT !.ready = server.ready \cup back, !.unacked = {}]
    BY DEF Returned
  <2> HIDE DEF back
  <2>3. /\ server' \in Servers /\ server'.unacked = {}
        /\ server'.ready = server.ready \cup back
    BY <1>1, <2>1, <2>2 DEF Servers
  <2> QED BY <2>3 DEF back
<1>3. PublisherInv' /\ Used' = Used
  <2>1. finished' \subseteq Jobs /\ server'.ready \subseteq Used
    BY <1>1, <1>2, Typed
  <2> QED BY <1>2, <2>1, PublisherKept
<1>4. /\ Memory' \subseteq Memory
      /\ Memory' = Memory \/ count'.crashes > 0
      /\ thread' = [t \in Threads |-> thread'[t]]
      /\ work' \subseteq Delivery
      /\ \A t \in Threads :
           /\ thread'[t] \in [pc : {"idle", "run", "post"}, item : SUBSET Delivery]
           /\ thread'[t].pc = "idle" => thread'[t].item = {}
           /\ thread'[t].pc = "post" => thread'[t] = thread[t]
  <2>1. CASE work' = work /\ thread' = thread
    BY <2>1 DEF Memory, WorkerInv, WorkerType, TypeOK
  <2>2. CASE work' = {} /\ thread' = NoThreads /\ count'.crashes > 0
    <3>1. \A t \in Threads : thread'[t].item = {} /\ thread'[t].pc = "idle"
                             /\ thread'[t] = NoThread
      BY <2>2 DEF NoThread, NoThreads
    <3>2. Memory' = {}
      BY <2>2, <3>1 DEF Memory
    <3> QED BY <2>2, <3>1, <3>2 DEF NoThread, NoThreads
  <2> QED BY <2>1, <2>2
<1>5. WorkerType'
  BY <1>3, <1>4 DEF WorkerInv, WorkerType, TypeOK, PublisherInv, Consumers
<1>6. Called' = {} /\ Cardinality(Called') = 0 /\ Len(consumer'.callbacks) = 0
  <2>1. DOMAIN consumer'.callbacks = {}
    OBVIOUS
  <2>2. Called' = {}
    BY <2>1 DEF Called
  <2> QED BY <2>2, FS_EmptySet
<1>7. ChannelInv'
  BY <1>2, <1>6 DEF ChannelInv
<1>8. \A id \in Used' : \/ id \in server'.ready
                        \/ \E d \in server'.unacked : d.id = id
                        \/ Safe(id)'
  <2>1. \A id : Safe(id) => Safe(id)'
    BY <1>4, AllSafeKept
  <2> QED BY <1>2, <1>3, <2>1 DEF WorkerInv, JobsInv
<1>9. JobsInv'
  BY <1>2, <1>4, <1>8 DEF WorkerInv, JobsInv
<1> QED BY <1>3, <1>5, <1>7, <1>9 DEF WorkerInv

LEMMA CloseStep ==
  ASSUME PublisherInv, WorkerInv, Close
  PROVE  PublisherInv' /\ WorkerInv'
<1>1. /\ UNCHANGED <<setup, job, finished, sent, sender, link, thread, work>>
      /\ server' = Returned /\ pending' = pending /\ count' = count
      /\ pending \subseteq {"publisher", "worker"} /\ consumer \in Consumers
      /\ consumer.pc = "closing"
      /\ consumer' = [consumer EXCEPT !.pc = "top", !.channel = "closed",
                                      !.callbacks = <<>>]
  BY Typed, WorkerTyped DEF Close, OutsideConsumer, WorkerInv
<1>2. consumer' \in Consumers /\ consumer'.channel = "closed"
      /\ consumer'.callbacks = <<>>
      /\ consumer'.next = consumer.next /\ consumer'.replaced = consumer.replaced
  <2>1. <<>> \in Seq([kind : {"ack", "nack"}, tag : Tags])
    OBVIOUS
  <2> QED BY <1>1, <2>1 DEF Consumers
<1>3. Replaced' = Replaced /\ (~Replaced' => \A d \in Memory' : d.tag < consumer'.next)
  BY <1>1, <1>2 DEF WorkerInv, JobsInv, Memory, Replaced
<1> QED BY <1>1, <1>2, <1>3, SameCount, ReturnedStep

LEMMA DisconnectStep ==
  ASSUME PublisherInv, WorkerInv, Disconnect
  PROVE  PublisherInv' /\ WorkerInv'
<1>1. /\ UNCHANGED <<setup, job, finished, sent, sender, link, thread, work>>
      /\ server' = Returned /\ pending' = pending /\ Counted("faults")
      /\ pending \subseteq {"publisher", "worker"} /\ consumer \in Consumers
      /\ consumer' = [consumer EXCEPT !.channel = "closed", !.callbacks = <<>>]
  BY Typed, WorkerTyped DEF Disconnect, OutsideConsumer, WorkerInv
<1>2. consumer' \in Consumers /\ consumer'.channel = "closed"
      /\ consumer'.callbacks = <<>>
      /\ consumer'.next = consumer.next /\ consumer'.replaced = consumer.replaced
  <2>1. <<>> \in Seq([kind : {"ack", "nack"}, tag : Tags])
    OBVIOUS
  <2> QED BY <1>1, <2>1 DEF Consumers
<1>3. /\ count' \in Counters /\ Spent <= Spent' /\ Spent' <= setup.events
      /\ count'.crashes = count.crashes
  BY <1>1, CountedCounts, SpentType DEF Events
<1>4. Replaced' = Replaced /\ (~Replaced' => \A d \in Memory' : d.tag < consumer'.next)
  BY <1>1, <1>2 DEF WorkerInv, JobsInv, Memory, Replaced
<1> QED BY <1>1, <1>2, <1>3, <1>4, ReturnedStep

LEMMA CrashStep ==
  ASSUME PublisherInv, WorkerInv, Crash
  PROVE  PublisherInv' /\ WorkerInv'
<1>1. /\ UNCHANGED <<setup, job, finished, sent, sender, link>>
      /\ server' = Returned /\ pending' = pending \cup {"worker"} /\ Counted("crashes")
      /\ consumer' = [NoConsumer EXCEPT !.replaced = consumer.replaced] /\ work' = {}
      /\ thread' = [t \in Threads |-> NoThread]
  BY DEF Crash
<1>2. pending' \subseteq {"publisher", "worker"}
  BY <1>1, Typed
<1>3. /\ count' \in Counters /\ Spent <= Spent' /\ Spent' <= setup.events
      /\ count'.crashes > 0
  BY <1>1, CountedCounts, SpentType DEF Events
<1>4. Memory' = {}
  BY <1>1 DEF Memory, NoThread
<1>5. consumer' \in Consumers /\ consumer'.channel = "closed"
      /\ consumer'.callbacks = <<>> /\ Replaced' = Replaced
  <2>1. consumer \in Consumers
    BY WorkerTyped DEF WorkerInv
  <2> QED BY <1>1, <2>1, NoConsumerType DEF Consumers, Replaced
<1>6. UNCHANGED <<setup, job, finished, sent, sender, link>> /\ server' = Returned
  BY <1>1
<1>7. work' = {} /\ thread' = NoThreads /\ count'.crashes > 0
  BY <1>1, <1>3 DEF NoThreads
<1>8. /\ (Replaced => Replaced')
      /\ count.crashes > 0 => count'.crashes > 0
      /\ ~Replaced' => \A d \in Memory' : d.tag < consumer'.next
  BY <1>3, <1>4, <1>5
<1> QED BY <1>2, <1>3, <1>5, <1>6, <1>7, <1>8, ReturnedStep

-----------------------------------------------------------------------------
(* The acks and nacks that are left to the connection.                     *)

Callback == [kind : {"ack", "nack"}, tag : Tags]
TagsIn(calls) == {calls[i].tag : i \in DOMAIN calls}
OncePerTag(calls) ==
  /\ Len(calls) = Cardinality(TagsIn(calls))
  /\ \A i, k \in DOMAIN calls : calls[i].tag = calls[k].tag => i = k

LEMMA TagsFinite ==
  \A calls \in Seq(Callback) : TagsIn(calls) \subseteq Tags /\ IsFiniteSet(TagsIn(calls))
<1> SUFFICES ASSUME NEW calls \in Seq(Callback)
             PROVE  TagsIn(calls) \subseteq Tags /\ IsFiniteSet(TagsIn(calls))
  OBVIOUS
<1>1. TagsIn(calls) \subseteq Tags
  <2> SUFFICES ASSUME NEW i \in DOMAIN calls PROVE calls[i].tag \in Tags
    BY DEF TagsIn
  <2>1. calls[i] \in Callback
    OBVIOUS
  <2> QED BY <2>1 DEF Callback
<1>2. IsFiniteSet(Tags)
  BY IdSets, FS_Interval DEF Tags
<1> QED BY <1>1, <1>2, FS_Subset

LEMMA CallAdded ==
  ASSUME NEW calls \in Seq(Callback), OncePerTag(calls),
         NEW c \in Callback, c.tag \notin TagsIn(calls)
  PROVE  /\ Append(calls, c) \in Seq(Callback)
         /\ TagsIn(Append(calls, c)) = TagsIn(calls) \cup {c.tag}
         /\ OncePerTag(Append(calls, c))
<1> DEFINE more == Append(calls, c)
<1>1. /\ more \in Seq(Callback) /\ Len(more) = Len(calls) + 1
      /\ Len(calls) \in Nat /\ DOMAIN calls = 1 .. Len(calls)
      /\ DOMAIN more = 1 .. Len(calls) + 1
      /\ \A i \in 1 .. Len(calls) : more[i] = calls[i]
      /\ more[Len(calls) + 1] = c
  OBVIOUS
<1> HIDE DEF more
<1>2. TagsIn(more) = TagsIn(calls) \cup {c.tag}
  BY <1>1 DEF TagsIn
<1>3. Cardinality(TagsIn(more)) = Cardinality(TagsIn(calls)) + 1
  BY <1>2, TagsFinite, FS_AddElement, Zenon
<1>4. ASSUME NEW i \in DOMAIN more, NEW k \in DOMAIN more, more[i].tag = more[k].tag
      PROVE  i = k
  <2>1. \A m \in 1 .. Len(calls) : more[m].tag # c.tag
    BY <1>1 DEF TagsIn
  <2>2. CASE i = Len(calls) + 1 \/ k = Len(calls) + 1
    BY <1>1, <1>4, <2>1, <2>2
  <2>3. CASE i \in 1 .. Len(calls) /\ k \in 1 .. Len(calls)
    BY <1>1, <1>4, <2>3 DEF OncePerTag
  <2> QED BY <1>1, <2>2, <2>3
<1>5. OncePerTag(more)
  BY <1>1, <1>3, <1>4 DEF OncePerTag
<1> QED BY <1>1, <1>2, <1>5 DEF more

LEMMA CallDone ==
  ASSUME NEW calls \in Seq(Callback), OncePerTag(calls), calls # <<>>
  PROVE  /\ Head(calls) \in Callback /\ Head(calls).tag \in TagsIn(calls)
         /\ Tail(calls) \in Seq(Callback)
         /\ TagsIn(Tail(calls)) = TagsIn(calls) \ {Head(calls).tag}
         /\ OncePerTag(Tail(calls))
<1> DEFINE rest == Tail(calls)
<1>1. /\ rest \in Seq(Callback) /\ Len(rest) = Len(calls) - 1 /\ Len(calls) \in Nat \ {0}
      /\ DOMAIN calls = 1 .. Len(calls) /\ DOMAIN rest = 1 .. Len(calls) - 1
      /\ \A i \in 1 .. Len(calls) - 1 : rest[i] = calls[i + 1]
      /\ Head(calls) = calls[1]
  OBVIOUS
<1> HIDE DEF rest
<1>2. calls[1] \in Callback /\ calls[1].tag \in TagsIn(calls)
  BY <1>1 DEF TagsIn
<1>3. \A i \in 1 .. Len(calls) : calls[i].tag # calls[1].tag \/ i = 1
  BY <1>1 DEF OncePerTag
<1>4. TagsIn(rest) = TagsIn(calls) \ {calls[1].tag}
  <2>1. ASSUME NEW i \in 1 .. Len(calls) - 1
        PROVE  rest[i].tag \in TagsIn(calls) /\ rest[i].tag # calls[1].tag
    <3>1. i + 1 \in 1 .. Len(calls) /\ i + 1 # 1 /\ rest[i] = calls[i + 1]
      BY <1>1
    <3>2. calls[i + 1].tag # calls[1].tag
      BY <1>3, <3>1
    <3>3. calls[i + 1].tag \in TagsIn(calls)
      BY <1>1, <3>1 DEF TagsIn
    <3> QED BY <3>1, <3>2, <3>3
  <2>2. ASSUME NEW i \in 1 .. Len(calls), i # 1
        PROVE  calls[i].tag \in TagsIn(rest)
    <3>1. i - 1 \in 1 .. Len(calls) - 1 /\ rest[i - 1] = calls[i]
      BY <1>1, <2>2
    <3> QED BY <1>1, <3>1 DEF TagsIn
  <2>3. TagsIn(rest) \subseteq TagsIn(calls) \ {calls[1].tag}
    BY <1>1, <2>1 DEF TagsIn
  <2>4. TagsIn(calls) \ {calls[1].tag} \subseteq TagsIn(rest)
    BY <1>1, <2>2 DEF TagsIn
  <2> QED BY <2>3, <2>4
<1>5. Cardinality(TagsIn(rest)) = Cardinality(TagsIn(calls)) - 1
  <2>1. Cardinality(TagsIn(calls) \ {calls[1].tag}) =
          IF calls[1].tag \in TagsIn(calls) THEN Cardinality(TagsIn(calls)) - 1
          ELSE Cardinality(TagsIn(calls))
    BY TagsFinite, FS_RemoveElement, Zenon
  <2> QED BY <1>2, <1>4, <2>1
<1>6. OncePerTag(rest)
  <2>1. Len(rest) = Cardinality(TagsIn(rest))
    BY <1>1, <1>5 DEF OncePerTag
  <2>2. ASSUME NEW i \in DOMAIN rest, NEW k \in DOMAIN rest, rest[i].tag = rest[k].tag
        PROVE  i = k
    <3>1. i + 1 \in DOMAIN calls /\ k + 1 \in DOMAIN calls
          /\ calls[i + 1].tag = calls[k + 1].tag
      BY <1>1, <2>2
    <3>2. i + 1 = k + 1
      BY <3>1 DEF OncePerTag
    <3> QED BY <1>1, <3>2
  <2> QED BY <2>1, <2>2 DEF OncePerTag
<1> QED BY <1>1, <1>2, <1>4, <1>6 DEF rest

LEMMA CallsOnce ==
  ASSUME WorkerInv
  PROVE  /\ consumer.callbacks \in Seq(Callback) /\ OncePerTag(consumer.callbacks)
         /\ Called = TagsIn(consumer.callbacks)
BY WorkerTyped DEF WorkerInv, ChannelInv, Called, TagsIn, OncePerTag, Consumers, Callback

(* A message is delivered under the next tag, which no other one has.      *)
LEMMA NextTag ==
  ASSUME PublisherInv, WorkerInv, consumer.channel = "consuming",
         NEW id \in server.ready
  PROVE  /\ consumer.next \in Tags
         /\ consumer.next \notin Unacked \cup Called \cup consumer.known
         /\ consumer.next <= Cardinality(Used \ (server.ready \ {id}))
<1>1. /\ consumer.next - 1 <= Cardinality(Used \ server.ready)
      /\ consumer.known \cup Called = Unacked
      /\ \A d \in server.unacked : d.tag < consumer.next
  BY DEF WorkerInv, ChannelInv
<1>2. /\ consumer \in Consumers /\ consumer.next \in Nat \ {0}
      /\ server.unacked \subseteq Delivery
  BY WorkerTyped, Typed, IdSets DEF WorkerInv, Consumers, Servers, Tags
<1>3. id \in Used /\ id \notin Used \ server.ready
      /\ Used \ (server.ready \ {id}) = (Used \ server.ready) \cup {id}
  BY DEF PublisherInv
<1>4. /\ Used \ server.ready \in SUBSET Ids
      /\ (Used \ server.ready) \cup {id} \in SUBSET Ids
  BY <1>3 DEF Used
<1>5. Cardinality((Used \ server.ready) \cup {id}) = Cardinality(Used \ server.ready) + 1
  BY <1>3, <1>4, IdSets, FS_AddElement
<1>6. Cardinality((Used \ server.ready) \cup {id}) <= Cardinality(Ids)
      /\ Cardinality(Used \ server.ready) \in Nat
  BY <1>4, IdSets
<1>7. consumer.next <= Cardinality((Used \ server.ready) \cup {id})
  BY <1>1, <1>2, <1>5, <1>6
<1>8. consumer.next \in Tags
  BY <1>2, <1>5, <1>6, <1>7, IdSets DEF Tags
<1>9. consumer.next \notin Unacked
  <2> SUFFICES ASSUME NEW d \in server.unacked, d.tag = consumer.next
               PROVE  FALSE
    BY DEF Unacked
  <2> QED BY <1>1, <1>2
<1> QED BY <1>1, <1>3, <1>7, <1>8, <1>9

LEMMA DeliverStep ==
  ASSUME PublisherInv, WorkerInv, Deliver
  PROVE  PublisherInv' /\ WorkerInv'
<1>1. /\ UNCHANGED <<setup, job, sent, sender, link, thread, pending, count>>
      /\ consumer.pc = "next" /\ consumer.channel = "consuming"
      /\ server \in Servers /\ consumer \in Consumers
      /\ pending \subseteq {"publisher", "worker"} /\ finished \subseteq Jobs
      /\ job \in [Ids -> Jobs \cup {NoJob}]
  BY Typed, WorkerTyped DEF Deliver, WorkerInv
<1>2. PICK id \in server.ready :
        LET d == [id |-> id, tag |-> consumer.next] IN
        /\ server' = [server EXCEPT !.ready = @ \ {id}, !.unacked = @ \cup {d}]
        /\ \/ /\ job[id] \in Poison
              /\ consumer' = [consumer EXCEPT !.next = @ + 1,
                    !.callbacks = Append(@, [kind |-> "nack", tag |-> d.tag])]
              /\ finished' = finished \cup {job[id]}
              /\ work' = work
           \/ /\ consumer' = [consumer EXCEPT !.next = @ + 1, !.known = @ \cup {d.tag}]
              /\ work' = work \cup {d}
              /\ finished' = finished
  BY DEF Deliver
<1> DEFINE tag == consumer.next
           d == [id |-> id, tag |-> tag]
<1>3. /\ tag \in Tags /\ tag \notin Unacked \cup Called \cup consumer.known
      /\ tag <= Cardinality(Used \ (server.ready \ {id}))
  BY <1>1, NextTag
<1>4. id \in Used /\ id \in Ids /\ d \in Delivery /\ d.id = id /\ d.tag = tag
      /\ job[id] \in Jobs
  BY <1>1, <1>3 DEF PublisherInv, Used, Delivery
<1> HIDE DEF d
<1>5. /\ server' \in Servers /\ server'.ready = server.ready \ {id}
      /\ server'.unacked = server.unacked \cup {d}
  BY <1>1, <1>2, <1>4 DEF Servers, d
<1>6. /\ finished' \subseteq Jobs /\ finished \subseteq finished'
      /\ work \subseteq work' /\ work' \subseteq work \cup {d}
      /\ d \in work' \/ job[id] \in finished'
  BY <1>1, <1>2, <1>4 DEF d
<1>7. /\ count' \in Counters /\ Spent <= Spent' /\ Spent' <= setup.events
  BY <1>1, SameCount
<1>8. PublisherInv' /\ Used' = Used
  <2>1. /\ server'.ready \subseteq Used
        /\ \A e \in server'.unacked : e.id \in Used
    BY <1>4, <1>5 DEF PublisherInv
  <2> QED BY <1>1, <1>5, <1>6, <1>7, <2>1, PublisherKept
<1>9. /\ Memory \subseteq Memory' /\ Memory' \subseteq Memory \cup {d}
      /\ d \in Memory' \/ job[id] \in finished'
  BY <1>1, <1>6 DEF Memory
<1>10. tag + 1 \in Tags \cup {Cardinality(Ids) + 1} /\ tag \in Nat
  BY <1>3, IdSets DEF Tags
<1>11. /\ consumer' \in Consumers /\ consumer'.next = tag + 1
       /\ consumer'.pc = "next" /\ consumer'.channel = "consuming"
       /\ Replaced' = Replaced
       /\ OncePerTag(consumer'.callbacks)
       /\ \/ /\ TagsIn(consumer'.callbacks) = Called \cup {tag}
             /\ consumer'.known = consumer.known /\ job[id] \in finished'
          \/ /\ TagsIn(consumer'.callbacks) = Called
             /\ consumer'.known = consumer.known \cup {tag}
  <2>1. CASE /\ consumer' = [consumer EXCEPT !.next = @ + 1,
                    !.callbacks = Append(@, [kind |-> "nack", tag |-> tag])]
             /\ finished' = finished \cup {job[id]}
    <3> DEFINE c == [kind |-> "nack", tag |-> tag]
               more == Append(consumer.callbacks, c)
    <3>1. c \in Callback /\ c.tag = tag
      BY <1>3 DEF Callback
    <3> HIDE DEF c
    <3>2. /\ more \in Seq(Callback) /\ TagsIn(more) = Called \cup {tag}
          /\ OncePerTag(more)
      BY <1>3, <3>1, CallsOnce, CallAdded
    <3>3. consumer' = [consumer EXCEPT !.next = tag + 1, !.callbacks = more]
      BY <2>1 DEF c
    <3> HIDE DEF more
    <3> QED BY <1>1, <1>10, <2>1, <3>2, <3>3 DEF Consumers, Callback, Replaced
  <2>2. CASE consumer' = [consumer EXCEPT !.next = @ + 1, !.known = @ \cup {tag}]
    <3>1. /\ consumer' \in Consumers /\ consumer'.next = tag + 1
          /\ consumer'.pc = "next" /\ consumer'.channel = "consuming"
          /\ consumer'.callbacks = consumer.callbacks
          /\ consumer'.known = consumer.known \cup {tag}
          /\ Replaced' = Replaced
      BY <1>1, <1>3, <1>10, <2>2 DEF Consumers, Replaced
    <3> QED BY <3>1, CallsOnce
  <2> QED BY <1>2, <2>1, <2>2 DEF d
<1>12. Called' = TagsIn(consumer'.callbacks) /\ Unacked' = Unacked \cup {tag}
  BY <1>4, <1>5 DEF Called, TagsIn, Unacked
<1>13. WorkerType'
  <2>1. TypeOK'
    BY <1>1, <1>4, <1>6, <1>8, <1>11 DEF WorkerInv, WorkerType, TypeOK, PublisherInv, Consumers
  <2> QED BY <1>1, <1>4, <1>8, <1>9, <2>1 DEF WorkerInv, WorkerType
<1>14. ChannelInv'
  <2>1. /\ consumer.known \cup Called = Unacked /\ consumer.known \cap Called = {}
        /\ \A e \in server.unacked : e.tag < tag
        /\ \A e, f \in server.unacked : e.tag = f.tag => e = f
    BY <1>1 DEF WorkerInv, ChannelInv
  <2>2. consumer'.known \cup Called' = Unacked' /\ consumer'.known \cap Called' = {}
    BY <1>3, <1>11, <1>12, <2>1
  <2>3. /\ \A e \in server'.unacked : e.tag < tag + 1
        /\ \A e, f \in server'.unacked : e.tag = f.tag => e = f
    <3>1. server.unacked \subseteq Delivery
      BY <1>1 DEF Servers
    <3>2. \A e \in server.unacked : e.tag \in Nat
      BY <3>1 DEF Delivery, Tags
    <3> QED BY <1>4, <1>5, <1>10, <2>1, <3>2
  <2>4. Len(consumer'.callbacks) = Cardinality(Called')
        /\ \A i, k \in DOMAIN consumer'.callbacks :
             consumer'.callbacks[i].tag = consumer'.callbacks[k].tag => i = k
    BY <1>11, <1>12 DEF OncePerTag
  <2>5. consumer'.next - 1 <= Cardinality(Used' \ server'.ready)
    BY <1>3, <1>5, <1>8, <1>10, <1>11
  <2> QED BY <1>11, <2>2, <2>3, <2>4, <2>5 DEF ChannelInv
<1>15. \A e \in server.unacked \cup Memory : e.id \in Used
  BY DEF PublisherInv, WorkerInv, WorkerType
<1>16. \A i \in Used' : \/ i \in server'.ready
                        \/ \E e \in server'.unacked : e.id = i
                        \/ Safe(i)'
  <2>1. \A i : Safe(i) => Safe(i)'
    BY <1>1, <1>6, <1>9, <1>11, AllSafeKept
  <2> QED BY <1>4, <1>5, <1>8, <2>1 DEF WorkerInv, JobsInv
<1>17. /\ \A e \in server'.unacked : e \in Memory' \/ job'[e.id] \in finished'
       /\ \A t \in Threads : thread'[t].pc = "post" =>
            \A e \in thread'[t].item : job'[e.id] \in finished'
  BY <1>1, <1>4, <1>5, <1>6, <1>9 DEF WorkerInv, JobsInv
<1>18. ASSUME ~Replaced'
       PROVE  /\ \A e \in server'.unacked : e.tag \in Called' => job'[e.id] \in finished'
              /\ \A e \in Memory', u \in server'.unacked : e.tag = u.tag => e = u
              /\ \A e \in Memory' : e.tag < consumer'.next
  <2>1. /\ \A e \in server.unacked : e.tag \in Called => job[e.id] \in finished
        /\ \A e \in Memory, u \in server.unacked : e.tag = u.tag => e = u
        /\ \A e \in Memory : e.tag < tag
    BY <1>11, <1>18 DEF WorkerInv, JobsInv
  <2>2. \A e \in server.unacked : e.tag < tag /\ e.tag \in Unacked
    BY DEF WorkerInv, ChannelInv, Unacked
  <2>3. \A e \in server.unacked \cup Memory : e.tag \in Nat
    BY <1>1, WorkerTyped DEF WorkerInv, Servers, Delivery, Tags
  <2>4. \A e \in server'.unacked : e.tag \in Called' => job'[e.id] \in finished'
    <3> SUFFICES ASSUME NEW e \in server'.unacked, e.tag \in Called'
                 PROVE  job[e.id] \in finished'
      BY <1>1
    <3>1. CASE e = d
      BY <1>3, <1>4, <1>11, <1>12, <3>1
    <3>2. CASE e \in server.unacked
      <4>1. e.tag \in Called
        BY <1>3, <1>11, <1>12, <2>2, <3>2
      <4> QED BY <1>6, <2>1, <3>2, <4>1
    <3> QED BY <1>5, <3>1, <3>2
  <2>5. \A e \in Memory', u \in server'.unacked : e.tag = u.tag => e = u
    BY <1>4, <1>5, <1>9, <1>10, <2>1, <2>2, <2>3
  <2>6. \A e \in Memory' : e.tag < tag + 1
    BY <1>4, <1>9, <1>10, <2>1, <2>3
  <2> QED BY <1>11, <2>4, <2>5, <2>6
<1>19. JobsInv'
  BY <1>11, <1>16, <1>17, <1>18 DEF JobsInv
<1> QED BY <1>8, <1>13, <1>14, <1>19 DEF WorkerInv

LEMMA RunCallbackStep ==
  ASSUME PublisherInv, WorkerInv, RunCallback
  PROVE  PublisherInv' /\ WorkerInv'
<1> DEFINE c == Head(consumer.callbacks)
           done == {d \in server.unacked : d.tag = c.tag}
<1>1. /\ UNCHANGED <<setup, job, finished, sent, sender, link, thread, work, pending, count>>
      /\ consumer.pc \in {"next", "restart"} /\ consumer.channel # "closed"
      /\ server \in Servers /\ consumer \in Consumers
      /\ pending \subseteq {"publisher", "worker"} /\ finished \subseteq Jobs
      /\ consumer.callbacks # <<>>
      /\ consumer' = [consumer EXCEPT !.callbacks = Tail(consumer.callbacks)]
      /\ server' = [server EXCEPT !.unacked = @ \ done,
                      !.dead = IF c.kind = "nack" THEN @ \cup {d.id : d \in done} ELSE @]
  BY Typed, WorkerTyped DEF RunCallback, OutsideConsumer, WorkerInv
<1>2. /\ c.tag \in Called /\ Tail(consumer.callbacks) \in Seq(Callback)
      /\ TagsIn(Tail(consumer.callbacks)) = Called \ {c.tag}
      /\ OncePerTag(Tail(consumer.callbacks))
  BY <1>1, CallsOnce, CallDone
<1> HIDE DEF c
<1>3. /\ server' \in Servers /\ server'.ready = server.ready
      /\ server'.unacked = server.unacked \ done
  <2> DEFINE dead == IF c.kind = "nack" THEN server.dead \cup {d.id : d \in done}
                     ELSE server.dead
  <2>1. dead \subseteq Ids /\ server.unacked \ done \subseteq Delivery
    BY <1>1 DEF Servers, Delivery
  <2>2. server' = [server EXCEPT !.unacked = server.unacked \ done, !.dead = dead]
    BY <1>1
  <2> HIDE DEF dead, done
  <2>3. /\ server'.ready = server.ready
        /\ server'.unacked = server.unacked \ done
    BY <1>1, <2>2 DEF Servers
  <2>4. server \in [queues : SUBSET Queues, ready : SUBSET Ids,
                    unacked : SUBSET Delivery, dead : SUBSET Ids]
    BY <1>1 DEF Servers
  <2>5. server' \in [queues : SUBSET Queues, ready : SUBSET Ids,
                     unacked : SUBSET Delivery, dead : SUBSET Ids]
    BY ONLY <2>1, <2>2, <2>4
  <2> QED BY <2>3, <2>5 DEF Servers
<1>4. /\ consumer' \in Consumers /\ consumer'.pc = consumer.pc
      /\ consumer'.channel = consumer.channel /\ consumer'.next = consumer.next
      /\ consumer'.known = consumer.known
      /\ consumer'.callbacks = Tail(consumer.callbacks)
      /\ Replaced' = Replaced
  BY <1>1, <1>2 DEF Consumers, Callback, Replaced
<1>5. count' \in Counters /\ Spent <= Spent' /\ Spent' <= setup.events
  BY <1>1, SameCount
<1>6. PublisherInv' /\ Used' = Used
  <2>1. /\ server'.ready \subseteq Used
        /\ \A e \in server'.unacked : e.id \in Used
    BY <1>3 DEF PublisherInv
  <2> QED BY <1>1, <1>3, <1>5, <2>1, PublisherKept
<1>7. Memory' = Memory
  BY <1>1 DEF Memory
<1>8. Called' = Called \ {c.tag} /\ Unacked' = Unacked \ {c.tag}
  <2>1. Called' = TagsIn(consumer'.callbacks)
    BY DEF Called, TagsIn
  <2>2. Unacked' = Unacked \ {c.tag}
    BY <1>3 DEF Unacked
  <2> QED BY <1>2, <1>4, <2>1, <2>2
<1>9. WorkerType'
  <2>1. TypeOK'
    BY <1>1, <1>4, <1>6 DEF WorkerInv, WorkerType, TypeOK, PublisherInv, Consumers
  <2> QED BY <1>1, <1>6, <1>7, <2>1 DEF WorkerInv, WorkerType
<1>10. ChannelInv'
  <2>1. /\ consumer.known \cup Called = Unacked /\ consumer.known \cap Called = {}
        /\ consumer.next - 1 <= Cardinality(Used \ server.ready)
    BY <1>1 DEF WorkerInv, ChannelInv
  <2>2. consumer'.known \cup Called' = Unacked' /\ consumer'.known \cap Called' = {}
    BY <1>2, <1>4, <1>8, <2>1
  <2>3. Len(consumer'.callbacks) = Cardinality(Called')
        /\ \A i, k \in DOMAIN consumer'.callbacks :
             consumer'.callbacks[i].tag = consumer'.callbacks[k].tag => i = k
    BY <1>2, <1>4, <1>8 DEF OncePerTag
  <2> QED BY <1>1, <1>3, <1>4, <1>6, <2>1, <2>2, <2>3 DEF WorkerInv, ChannelInv
<1>11. \A d \in done : Safe(d.id)
  <2> SUFFICES ASSUME NEW d \in done, job[d.id] \notin finished
               PROVE  Safe(d.id)
    BY DEF Safe
  <2>1. d \in server.unacked /\ d.tag \in Called
    BY <1>2
  <2>2. d \in Memory /\ Replaced
    BY <2>1 DEF WorkerInv, JobsInv
  <2> QED BY <2>2, InMemoryIs DEF Safe
<1>12. \A i \in Used' : \/ i \in server'.ready
                        \/ \E e \in server'.unacked : e.id = i
                        \/ Safe(i)'
  <2>1. \A i : Safe(i) => Safe(i)'
    BY <1>1, <1>4, <1>7, AllSafeKept
  <2> QED BY <1>3, <1>6, <1>11, <2>1 DEF WorkerInv, JobsInv
<1>13. JobsInv'
  BY <1>1, <1>3, <1>4, <1>5, <1>7, <1>8, <1>12 DEF WorkerInv, JobsInv
<1> QED BY <1>6, <1>9, <1>10, <1>13 DEF WorkerInv

LEMMA ConsumerKeeps ==
  ASSUME PublisherInv, WorkerInv, ConsumerStep
  PROVE  PublisherInv' /\ WorkerInv'
BY ConsumerTopStep, StartConsumingStep, DeliverStep, RunCallbackStep, LeaveLoopStep,
   AwaitCallbacksStep, CloseStep DEF ConsumerStep

-----------------------------------------------------------------------------
(* What its threads do.                                                    *)

WorkerThread == [pc : {"idle", "run", "post"}, item : SUBSET Delivery]

(* A thread forgets only jobs that are finished, and calls only for those. *)
LEMMA ThreadKeeps ==
  ASSUME PublisherInv, WorkerInv, OutsideThread,
         finished \subseteq finished', finished' \subseteq Jobs,
         work' \subseteq Delivery, Memory' \subseteq Memory,
         \A d \in Memory \ Memory' : job[d.id] \in finished',
         NEW t \in Threads, NEW s \in WorkerThread,
         thread' = [thread EXCEPT ![t] = s],
         s.pc = "idle" => s.item = {},
         s.pc = "post" => \A d \in s.item : job[d.id] \in finished',
         consumer' \in Consumers, consumer'.pc = consumer.pc,
         consumer'.channel = consumer.channel, consumer'.next = consumer.next,
         consumer'.replaced = consumer.replaced, ChannelInv',
         ~Replaced => \A u \in server.unacked : u.tag \in Called' => job[u.id] \in finished'
  PROVE  PublisherInv' /\ WorkerInv'
<1>1. /\ UNCHANGED <<setup, server, job, sent, pending, sender, link, count>>
      /\ server \in Servers /\ pending \subseteq {"publisher", "worker"}
  BY Typed DEF OutsideThread
<1>2. /\ count' \in Counters /\ Spent <= Spent' /\ Spent' <= setup.events
      /\ Replaced' = Replaced
  BY <1>1, SameCount DEF Replaced
<1>3. PublisherInv' /\ Used' = Used
  <2>1. /\ server'.ready \subseteq Used
        /\ \A e \in server'.unacked : e.id \in Used
    BY <1>1 DEF PublisherInv
  <2> QED BY <1>1, <1>2, <2>1, PublisherKept
<1>4. /\ thread' = [x \in Threads |-> thread'[x]]
      /\ \A x \in Threads : thread'[x] = IF x = t THEN s ELSE thread[x]
  <2>1. thread = [x \in Threads |-> thread[x]]
    BY DEF WorkerInv, WorkerType
  <2> QED BY <2>1
<1>5. WorkerType'
  <2>1. \A x \in Threads : thread'[x] \in WorkerThread
    BY <1>4 DEF WorkerInv, WorkerType, TypeOK, WorkerThread
  <2>2. TypeOK'
    BY <1>3, <2>1 DEF TypeOK, PublisherInv, Consumers, WorkerThread
  <2>3. \A d \in Memory' : d.id \in Used'
    BY <1>3 DEF WorkerInv, WorkerType
  <2>4. \A x \in Threads : thread'[x].pc = "idle" => thread'[x].item = {}
    BY <1>4 DEF WorkerInv, WorkerType
  <2> QED BY <1>4, <2>2, <2>3, <2>4 DEF WorkerType
<1>6. \A i \in Used' : \/ i \in server'.ready
                       \/ \E e \in server'.unacked : e.id = i
                       \/ Safe(i)'
  <2>1. \A i : Safe(i) => Safe(i)'
    BY <1>1, <1>2, AllSafeKept
  <2> QED BY <1>1, <1>3, <2>1 DEF WorkerInv, JobsInv
<1>7. \A d \in server'.unacked : d \in Memory' \/ job'[d.id] \in finished'
  BY <1>1 DEF WorkerInv, JobsInv
<1>8. \A x \in Threads : thread'[x].pc = "post" =>
        \A d \in thread'[x].item : job'[d.id] \in finished'
  BY <1>1, <1>4 DEF WorkerInv, JobsInv
<1>9. ~Replaced' =>
        /\ \A d \in server'.unacked : d.tag \in Called' => job'[d.id] \in finished'
        /\ \A d \in Memory', u \in server'.unacked : d.tag = u.tag => d = u
        /\ \A d \in Memory' : d.tag < consumer'.next
  BY <1>1, <1>2 DEF WorkerInv, JobsInv
<1>10. JobsInv'
  BY <1>6, <1>7, <1>8, <1>9 DEF JobsInv
<1> QED BY <1>3, <1>5, <1>10 DEF WorkerInv

(* The consumer does not change with the thread's step.                    *)
LEMMA SameConsumer ==
  ASSUME PublisherInv, WorkerInv, OutsideThread, UNCHANGED consumer,
         finished \subseteq finished'
  PROVE  /\ consumer' \in Consumers /\ consumer'.pc = consumer.pc
         /\ consumer'.channel = consumer.channel /\ consumer'.next = consumer.next
         /\ consumer'.replaced = consumer.replaced /\ ChannelInv'
         /\ ~Replaced => \A u \in server.unacked : u.tag \in Called' => job[u.id] \in finished'
<1>1. server' = server /\ job' = job /\ Called' = Called /\ Unacked' = Unacked /\ Used' = Used
  BY DEF OutsideThread, Called, Unacked, Used
<1>2. ChannelInv'
  BY <1>1 DEF WorkerInv, ChannelInv
<1> QED BY <1>1, <1>2, WorkerTyped DEF WorkerInv, JobsInv

LEMMA ThreadTyped ==
  ASSUME WorkerInv
  PROVE  /\ thread = [x \in Threads |-> thread[x]]
         /\ \A x \in Threads : thread[x] \in WorkerThread
         /\ Memory = work \cup UNION {thread[x].item : x \in Threads}
BY DEF WorkerInv, WorkerType, TypeOK, WorkerThread, Memory

LEMMA TakeStep ==
  ASSUME PublisherInv, WorkerInv, NEW t \in Threads, Take(t)
  PROVE  PublisherInv' /\ WorkerInv'
<1>1. PICK d \in work :
        /\ work' = work \ {d}
        /\ thread' = [thread EXCEPT ![t] = [pc |-> "run", item |-> {d}]]
  BY DEF Take
<1>2. OutsideThread /\ finished' = finished /\ UNCHANGED consumer /\ finished \subseteq Jobs
      /\ thread[t].pc = "idle" /\ thread[t].item = {} /\ work \subseteq Delivery
  BY Typed, WorkerTyped DEF Take, WorkerInv, WorkerType
<1> DEFINE s == [pc |-> "run", item |-> {d}]
<1>3. s \in WorkerThread /\ s.pc = "run" /\ s.item = {d}
  BY <1>2 DEF WorkerThread
<1>4. thread' = [thread EXCEPT ![t] = s]
  BY <1>1
<1> HIDE DEF s
<1>5. \A x \in Threads : thread'[x].item = IF x = t THEN {d} ELSE thread[x].item
  <2>1. thread = [x \in Threads |-> thread[x]]
    BY ThreadTyped
  <2> QED BY <1>3, <1>4, <2>1
<1>6. Memory' = Memory
  <2> DEFINE items == UNION {thread'[x].item : x \in Threads}
  <2>1. Memory' \subseteq Memory
    <3>1. \A x \in Threads : thread[x].item \subseteq Memory
      BY DEF Memory
    <3>2. work' \subseteq Memory /\ d \in Memory
      BY <1>1 DEF Memory
    <3>3. \A x \in Threads : thread'[x].item \subseteq Memory
      BY <1>5, <3>1, <3>2
    <3>4. Memory' = work' \cup items
      BY DEF Memory
    <3>5. items \subseteq Memory
      BY <3>3
    <3> HIDE DEF items
    <3> QED BY <3>2, <3>4, <3>5
  <2>2. work \subseteq Memory'
    BY <1>1, <1>5 DEF Memory
  <2>3. \A x \in Threads : thread[x].item \subseteq thread'[x].item
    BY <1>2, <1>5
  <2>4. \A x \in Threads : thread[x].item \subseteq Memory'
    BY <2>3 DEF Memory
  <2> QED BY <2>1, <2>2, <2>4 DEF Memory
<1> QED BY <1>1, <1>2, <1>3, <1>4, <1>6, SameConsumer, ThreadKeeps

LEMMA ProcessStep ==
  ASSUME PublisherInv, WorkerInv, NEW t \in Threads, Process(t)
  PROVE  PublisherInv' /\ WorkerInv'
<1> DEFINE s == [pc |-> "post", item |-> thread[t].item]
<1>1. /\ OutsideThread /\ work' = work /\ UNCHANGED consumer
      /\ thread[t] \in WorkerThread /\ thread[t].item \subseteq Memory
      /\ finished \subseteq Jobs /\ work \subseteq Delivery
      /\ finished' = finished \cup {job[d.id] : d \in thread[t].item}
      /\ \A d \in Memory : d.id \in Used
      /\ job \in [Ids -> Jobs \cup {NoJob}]
  BY Typed, WorkerTyped, ThreadTyped DEF Process, WorkerInv, WorkerType
<1>2. s \in WorkerThread /\ s.pc = "post" /\ s.item = thread[t].item
  BY <1>1 DEF WorkerThread
<1>3. thread' = [thread EXCEPT ![t] = s]
  <2>1. [thread[t] EXCEPT !.pc = "post"] = s
    BY <1>1 DEF WorkerThread
  <2> QED BY <2>1 DEF Process
<1> HIDE DEF s
<1>4. finished \subseteq finished' /\ finished' \subseteq Jobs
      /\ \A d \in s.item : job[d.id] \in finished'
  BY <1>1, <1>2 DEF Used
<1>5. \A x \in Threads : thread'[x].item = thread[x].item
  BY <1>2, <1>3, ThreadTyped
<1>6. Memory' = Memory
  BY <1>1, <1>5 DEF Memory
<1> QED BY <1>1, <1>2, <1>3, <1>4, <1>6, SameConsumer, ThreadKeeps

LEMMA PostStep ==
  ASSUME PublisherInv, WorkerInv, NEW t \in Threads, Post(t)
  PROVE  PublisherInv' /\ WorkerInv'
<1>1. PICK d \in thread[t].item :
        \/ /\ thread' = [thread EXCEPT ![t] = NoThread]
           /\ UNCHANGED consumer
        \/ /\ d.tag \in consumer.known /\ consumer.channel # "closed"
           /\ thread' = [thread EXCEPT ![t] = NoThread]
           /\ Call(consumer.known \ {d.tag}, d.tag)
        \/ /\ consumer.channel = "closed"
           /\ consumer' = [consumer EXCEPT !.known = @ \ {d.tag}]
           /\ UNCHANGED thread
  BY DEF Post
<1>2. /\ OutsideThread /\ finished' = finished /\ work' = work
      /\ thread[t] \in WorkerThread /\ thread[t].item \subseteq Memory
      /\ work \subseteq Delivery /\ finished \subseteq Jobs
      /\ server' = server /\ job' = job /\ consumer \in Consumers
      /\ \A e \in thread[t].item : job[e.id] \in finished
      /\ d \in Memory /\ Memory \subseteq Delivery
  BY Typed, WorkerTyped, ThreadTyped DEF Post, WorkerInv, JobsInv, OutsideThread
<1>3. ASSUME thread' = [thread EXCEPT ![t] = NoThread]
      PROVE  /\ NoThread \in WorkerThread /\ NoThread.pc = "idle" /\ NoThread.item = {}
             /\ Memory' \subseteq Memory
             /\ \A e \in Memory \ Memory' : job[e.id] \in finished'
  <2>1. NoThread \in WorkerThread /\ NoThread.pc = "idle" /\ NoThread.item = {}
    BY DEF NoThread, WorkerThread
  <2>2. \A x \in Threads : thread'[x].item = IF x = t THEN {} ELSE thread[x].item
    BY <1>3, <2>1, ThreadTyped
  <2>3. Memory \subseteq Memory' \cup thread[t].item /\ Memory' \subseteq Memory
    BY <1>2, <2>2 DEF Memory
  <2> QED BY <1>2, <2>1, <2>3
<1>4. CASE thread' = [thread EXCEPT ![t] = NoThread] /\ UNCHANGED consumer
  BY <1>2, <1>3, <1>4, SameConsumer, ThreadKeeps
<1>5. Used' = Used /\ Unacked' = Unacked
  BY <1>2 DEF Used, Unacked
<1>6. CASE /\ d.tag \in consumer.known /\ consumer.channel # "closed"
           /\ thread' = [thread EXCEPT ![t] = NoThread]
           /\ Call(consumer.known \ {d.tag}, d.tag)
  <2>1. PICK kind \in {"ack", "nack"} :
          consumer' = [consumer EXCEPT !.known = consumer.known \ {d.tag},
                         !.callbacks = Append(@, [kind |-> kind, tag |-> d.tag])]
    BY <1>6 DEF Call
  <2> DEFINE c == [kind |-> kind, tag |-> d.tag]
             more == Append(consumer.callbacks, c)
  <2>2. /\ consumer.known \cup Called = Unacked /\ consumer.known \cap Called = {}
        /\ consumer.next - 1 <= Cardinality(Used \ server.ready)
    BY <1>6 DEF WorkerInv, ChannelInv
  <2>3. c \in Callback /\ c.tag = d.tag
    BY <1>2 DEF Callback, Delivery
  <2> HIDE DEF c
  <2>4. /\ more \in Seq(Callback) /\ TagsIn(more) = Called \cup {d.tag}
        /\ OncePerTag(more)
    BY <1>6, <2>2, <2>3, CallsOnce, CallAdded
  <2>5. consumer' = [consumer EXCEPT !.known = consumer.known \ {d.tag}, !.callbacks = more]
    BY <2>1 DEF c
  <2> HIDE DEF more
  <2>6. /\ consumer' \in Consumers /\ consumer'.pc = consumer.pc
        /\ consumer'.channel = consumer.channel /\ consumer'.next = consumer.next
        /\ consumer'.known = consumer.known \ {d.tag} /\ consumer'.callbacks = more
        /\ consumer'.replaced = consumer.replaced
    BY <1>2, <2>4, <2>5 DEF Consumers, Callback
  <2>7. Called' = Called \cup {d.tag}
    BY <2>4, <2>6 DEF Called, TagsIn
  <2>8. ChannelInv'
    <3>1. consumer'.known \cup Called' = Unacked' /\ consumer'.known \cap Called' = {}
      BY <1>5, <1>6, <2>2, <2>6, <2>7
    <3>2. Len(consumer'.callbacks) = Cardinality(Called')
          /\ \A i, k \in DOMAIN consumer'.callbacks :
               consumer'.callbacks[i].tag = consumer'.callbacks[k].tag => i = k
      BY <2>4, <2>6, <2>7 DEF OncePerTag
    <3> QED BY <1>2, <1>5, <2>2, <2>6, <3>1, <3>2 DEF WorkerInv, ChannelInv
  <2>9. ~Replaced => \A u \in server.unacked : u.tag \in Called' => job[u.id] \in finished'
    <3> SUFFICES ASSUME ~Replaced, NEW u \in server.unacked, u.tag = d.tag
                 PROVE  job[u.id] \in finished'
      BY <1>2, <2>7 DEF WorkerInv, JobsInv
    <3>1. u = d
      BY <1>2 DEF WorkerInv, JobsInv
    <3> QED BY <1>2, <3>1
  <2> QED BY <1>2, <1>3, <1>6, <2>6, <2>8, <2>9, ThreadKeeps
<1>7. CASE /\ consumer.channel = "closed"
           /\ consumer' = [consumer EXCEPT !.known = @ \ {d.tag}]
           /\ UNCHANGED thread
  <2>1. /\ consumer' \in Consumers /\ consumer'.pc = consumer.pc
        /\ consumer'.channel = consumer.channel /\ consumer'.next = consumer.next
        /\ consumer'.callbacks = consumer.callbacks
        /\ consumer'.replaced = consumer.replaced
    BY <1>2, <1>7 DEF Consumers
  <2>2. Called' = Called
    BY <2>1 DEF Called
  <2>3. ChannelInv'
    BY <1>2, <1>7, <2>1, <2>2 DEF WorkerInv, ChannelInv
  <2>4. thread' = [thread EXCEPT ![t] = thread[t]] /\ Memory' = Memory
    BY <1>2, <1>7, ThreadTyped DEF Memory
  <2>5. /\ thread[t].pc = "idle" => thread[t].item = {}
        /\ ~Replaced => \A u \in server.unacked : u.tag \in Called' => job[u.id] \in finished'
    BY <1>2, <2>2 DEF WorkerInv, WorkerType, JobsInv
  <2> QED BY <1>2, <2>1, <2>3, <2>4, <2>5, ThreadKeeps
<1> QED BY <1>1, <1>4, <1>6, <1>7

-----------------------------------------------------------------------------
(* The theorems.                                                           *)

LEMMA InitHolds == Init => IInv
<1> SUFFICES ASSUME Init PROVE IInv
  OBVIOUS
<1>1. /\ setup \in Setups /\ Memory = {} /\ Used = {} /\ Called = {} /\ Unacked = {}
      /\ server.ready = {} /\ server.unacked = {} /\ consumer = NoConsumer
  <2>1. NoJob \notin Jobs /\ Memory = {}
    BY PublisherAssumption DEF Init, NoThread, Memory
  <2> QED BY <2>1 DEF Init, PublisherInit, Used, Called, Unacked, NoConsumer
<1>2. setup.old \subseteq Ids /\ setup.events \in Nat
  BY <1>1, PublisherAssumption
<1>3. \A t \in Senders : sender[t] = NoCall /\ NoCall \in Calls /\ NoCall.pc = "idle"
  BY IdleCall DEF Init, PublisherInit, NoCall
<1>4. PublisherTypeOK
  <2>1. server \in Servers
    BY <1>1, <1>2 DEF Init, PublisherInit, Servers
  <2>2. count \in Counters
    BY DEF Init, PublisherInit, Counters
  <2> QED BY <1>1, <1>3, <2>1, <2>2
          DEF Init, PublisherInit, PublisherTypeOK, Servers, Counters, Calls
<1>5. Spent = 0
  BY DEF Init, PublisherInit, Spent, Events
<1>6. Cardinality(Used) = 0 /\ Cardinality(sent) = 0 /\ Cardinality(Called) = 0
  BY <1>1, FS_EmptySet DEF Init, PublisherInit
<1>7. PublisherInv
  BY <1>1, <1>2, <1>3, <1>4, <1>5, <1>6 DEF Init, PublisherInit, PublisherInv, Enqueuing
<1>8. WorkerType
  <2>1. \A t \in Threads : thread[t] = NoThread /\ NoThread \in WorkerThread
    BY DEF Init, NoThread, WorkerThread
  <2>2. TypeOK
    BY <1>4, <2>1, NoConsumerType DEF Init, TypeOK, Consumers, WorkerThread
  <2> QED BY <1>1, <2>1, <2>2 DEF Init, WorkerType, NoThread
<1>9. ChannelInv
  BY <1>1, <1>6, NoConsumerType DEF ChannelInv
<1>10. JobsInv
  <2>1. \A t \in Threads : thread[t].pc = "idle"
    BY DEF Init, NoThread
  <2> QED BY <1>1, <2>1 DEF JobsInv
<1> QED BY <1>7, <1>8, <1>9, <1>10 DEF IInv

LEMMA NextPreserves == IInv /\ [Next]_vars => IInv'
<1> SUFFICES ASSUME IInv, [Next]_vars PROVE IInv'
  OBVIOUS
<1>1. PublisherInv /\ WorkerInv
  BY DEF IInv, WorkerInv
<1>2. CASE PublisherNext /\ UNCHANGED inWorker
  BY <1>1, <1>2, PublisherStep, SparesKeeps DEF IInv, WorkerInv
<1>3. CASE ConsumerStep
  BY <1>1, <1>3, ConsumerKeeps DEF IInv, WorkerInv
<1>4. CASE \E t \in Threads : ThreadStep(t)
  BY <1>1, <1>4, TakeStep, ProcessStep, PostStep DEF IInv, WorkerInv, ThreadStep
<1>5. CASE Disconnect \/ Crash \/ DeleteQueue
  BY <1>1, <1>5, DisconnectStep, CrashStep, DeleteQueueStep DEF IInv, WorkerInv
<1>6. CASE UNCHANGED vars
  <2>1. /\ UNCHANGED <<setup, server, job, finished, sent, pending, sender, link, count>>
        /\ UNCHANGED <<consumer, work, thread>>
    BY <1>6 DEF vars, inWorker
  <2>2. Used' = Used /\ Spent' = Spent /\ PublisherTypeOK' = PublisherTypeOK
    BY <2>1 DEF Used, Spent, PublisherTypeOK
  <2>3. PublisherInv'
    BY <1>1, <2>1, <2>2 DEF PublisherInv
  <2>4. Memory' = Memory /\ Called' = Called /\ Unacked' = Unacked /\ Replaced' = Replaced
    BY <2>1 DEF Memory, Called, Unacked, Replaced
  <2>5. WorkerType'
    BY <2>1, <2>2, <2>4 DEF IInv, WorkerType, TypeOK
  <2>6. ChannelInv'
    BY <2>1, <2>2, <2>4 DEF IInv, ChannelInv
  <2>7. \A id : Safe(id) => Safe(id)'
    BY <2>1, <2>4, AllSafeKept
  <2>8. JobsInv'
    BY <2>1, <2>2, <2>4, <2>7 DEF IInv, JobsInv
  <2> QED BY <2>3, <2>5, <2>6, <2>8 DEF IInv
<1> QED BY <1>2, <1>3, <1>4, <1>5, <1>6 DEF Next

LEMMA Inductive == Spec => []IInv
BY InitHolds, NextPreserves, PTL DEF Spec

(* Whatever connections fail, whenever the worker is paused and whatever
   becomes of its process, a consumer's channel sees each delivery tag that it
   handed out at most once, and no other: what is known or about to be called
   is what is unacked on the channel (_RabbitmqConsumer.known_tags).       *)
THEOREM TagsValid == Spec => []TagsAreValid
<1>1. IInv => TagsAreValid
  BY DEF IInv, WorkerType, ChannelInv, TagsAreValid, Called, Unacked
<1> QED BY <1>1, Inductive, PTL

(* A job whose enqueue() returned is finished, or the server has a copy of
   it; once a consumer that delivered messages has been succeeded by another
   in a process that goes on it may only be in that process's memory, and
   only a crash loses it.                                                  *)
THEOREM JobsKept == Spec => []NoJobLost
<1>1. IInv => NoJobLost
  <2> SUFFICES ASSUME IInv, NEW j \in sent
               PROVE  \/ j \in finished \/ OnServer(j)
                      \/ Replaced /\ (InMemory(j) \/ count.crashes > 0)
    BY DEF NoJobLost
  <2>1. PICK id \in Used : job[id] = j
    BY DEF IInv, PublisherInv
  <2>2. CASE id \in server.ready \/ \E d \in server.unacked : d.id = id
    BY <2>1, <2>2 DEF OnServer, Used
  <2>3. CASE Safe(id)
    BY <2>1, <2>3 DEF Safe
  <2> QED BY <2>2, <2>3 DEF IInv, JobsInv
<1> QED BY <1>1, Inductive, PTL

(* Until then AckedWhenDone holds as the documentation says it
   (advanced.rst:174), whatever fails among the publishers, however often the
   worker is paused, its connection breaks or its process crashes.         *)
THEOREM AckedUntilReplaced == Spec => [](~Replaced => AckedWhenDone)
<1>1. NoJobLost => (~Replaced => AckedWhenDone)
  BY DEF NoJobLost, AckedWhenDone
<1> QED BY <1>1, JobsKept, PTL

-----------------------------------------------------------------------------
(* What the calls of a thread may still meet, and how they end.            *)

(* What a call may still lose: an attempt to a connection that was closed,
   and, while the queue is deleted, one to each thread that may take it off
   queues_pending and one to its own belief that it exists.                *)
Faults == count.faults + count.closes
Team == Cardinality(setup.senders)
Shut(t) == IF Closed(t) THEN 1 ELSE 0
Stale(t) == {s \in setup.senders \ {t} : sender[s].pc = "discard"}
Trusts(t) == "publisher" \notin pending \/ sender[t].pc \in {"discard", "publish"}
Risk(t) == IF "queue" \in server.queues THEN 0
           ELSE Cardinality(Stale(t)) + (IF Trusts(t) THEN 1 ELSE 0)
Budget(t) ==
  /\ sender[t].attempts + Shut(t) + Risk(t) <= Faults + Team * count.deletions
  /\ sender[t].declares + Shut(t) <= Faults

(* A channel is half made only after an error.                             *)
HalfMade(l) == "channel" \in l /\ "recorded" \notin l

(* What a flush has come by is dropped and does not come back, or the
   channel was found to be closed and the next queue raises an error.      *)
Dropping(t) ==
  sender[t].pc = "flush" =>
    /\ sender[t].done \in 0 .. 2
    /\ sender[t].before \subseteq Used \cup setup.old
    /\ sender[t].done > 0 /\ count.closes = 0 =>
         IF Closed(t) THEN "channel" \notin link[t]
         ELSE sender[t].before \cap server.ready = {}

NoWorker ==
  ~setup.worker =>
    /\ consumer = NoConsumer /\ work = {} /\ server.unacked = {}
    /\ \A t \in Threads : thread[t].pc = "idle"
    /\ server.dead \subseteq setup.old
    /\ "queue" \notin server.queues => server.ready = {}
    /\ "dead" \notin server.queues => server.dead = {}
    /\ \A t \in Senders : Dropping(t)

CallsInv ==
  /\ \A t \in Senders : sender[t].pc # "idle" => t \in setup.senders
  /\ \A t \in setup.senders : Budget(t)
  /\ \A t \in Senders : HalfMade(link[t]) => count.faults > 0
  /\ NoWorker

(* What CallsHold asks of the call that a thread ends.                     *)
EndsRight(t) ==
  sender[t].pc # "idle" /\ sender'[t].pc = "idle" =>
    LET faults == count'.faults + count'.closes
        threads == Cardinality(setup.senders)
    IN  /\ sender[t].pc \in {"declare", "publish"} /\ sender'[t].error # "none" =>
             \/ sender'[t].error = "ConnectionClosed"
                /\ \/ faults + threads * count'.deletions >= MAX_ENQUEUE_ATTEMPTS
                   \/ faults >= MAX_DECLARE_ATTEMPTS
             \/ sender'[t].error = "KeyError" /\ count'.faults > 0
        /\ sender[t].pc = "flush" /\ sender'[t].error = "none" =>
             \/ sender[t].before \cap (server'.ready \cup server'.dead) = {}
             \/ setup.worker \/ count'.closes > 0

LEMMA CallCounts ==
  PublisherInv =>
    /\ count.faults \in Nat /\ count.closes \in Nat /\ count.deletions \in Nat
    /\ Faults \in Nat
BY Typed, CountersType DEF Faults

LEMMA TypedAfter ==
  PublisherInv' =>
    /\ server' \in Servers /\ count' \in Counters
    /\ link' \in [Senders -> SUBSET Linked]
    /\ sender' = [t \in Senders |-> sender'[t]]
    /\ \A t \in Senders : sender'[t] \in Calls
BY DEF PublisherInv, PublisherTypeOK, Servers, Counters, Calls

LEMMA Kinds ==
  ASSUME PublisherInv, NEW kind \in Events, Counted(kind)
  PROVE  /\ count'.faults = IF kind = "faults" THEN count.faults + 1 ELSE count.faults
         /\ count'.closes = IF kind = "closes" THEN count.closes + 1 ELSE count.closes
         /\ count'.deletions = IF kind = "deletions" THEN count.deletions + 1
                               ELSE count.deletions
<1>1. count \in Counters /\ count' = [count EXCEPT ![kind] = count[kind] + 1]
  BY Typed DEF Counted
<1>2. \A k \in Events : count'[k] = IF k = kind THEN count[k] + 1 ELSE count[k]
  BY <1>1 DEF Counters
<1> QED BY <1>2 DEF Events

LEMMA CallsOnly ==
  ASSUME PublisherInv, CallCounted
  PROVE  /\ count'.faults = count.faults /\ count'.closes = count.closes
         /\ count'.deletions = count.deletions
<1>1. count \in Counters /\ count' = [count EXCEPT !["calls"] = count["calls"] + 1]
  BY Typed DEF CallCounted
<1> QED BY <1>1 DEF Counters, Events

LEMMA Teams ==
  ASSUME PublisherInv
  PROVE  /\ setup.senders \subseteq Senders /\ Team \in Nat
         /\ \A t \in setup.senders : /\ IsFiniteSet(Stale(t))
                                     /\ Cardinality(Stale(t)) \in Nat
                                     /\ Cardinality(Stale(t)) + 1 <= Team
<1>1. setup.senders \in SUBSET Senders /\ IsFiniteSet(setup.senders)
  BY Typed, PublisherAssumption, FS_Subset
<1>2. Team \in Nat
  BY <1>1, FS_CardinalityType DEF Team
<1>3. ASSUME NEW t \in setup.senders
      PROVE  /\ IsFiniteSet(Stale(t)) /\ Cardinality(Stale(t)) \in Nat
             /\ Cardinality(Stale(t)) + 1 <= Team
  <2>1. IsFiniteSet(Stale(t)) /\ Cardinality(Stale(t)) <= Cardinality(setup.senders \ {t})
    <3>1. Stale(t) \in SUBSET (setup.senders \ {t}) /\ IsFiniteSet(setup.senders \ {t})
      BY <1>1, FS_Subset DEF Stale
    <3> QED BY <3>1, FS_Subset
  <2>2. Cardinality(setup.senders \ {t}) = Team - 1
    BY <1>1, <1>3, FS_RemoveElement DEF Team
  <2> QED BY <1>2, <2>1, <2>2, FS_CardinalityType
<1> QED BY <1>1, <1>2, <1>3

LEMMA RiskBounds ==
  ASSUME PublisherInv, NEW t \in setup.senders
  PROVE  Risk(t) \in Nat /\ Risk(t) <= Team
BY Teams DEF Risk

(* The error of a call takes an event or a link that an earlier one closed. *)
LEMMA Failing ==
  ASSUME PublisherInv, NEW t \in Senders, NEW l \in SUBSET Linked, Fails(t, l),
         HalfMade(link[t]) => count.faults > 0
  PROVE  /\ Faults' \in Nat /\ Faults <= Faults' /\ Faults + 1 <= Faults' + Shut(t)
         /\ count'.deletions = count.deletions /\ count'.closes = count.closes
         /\ count.faults <= count'.faults
         /\ HalfMade(l) => count'.faults > 0
         /\ ~Closed(t) => count'.faults > 0
         /\ Closed(t) => l = link[t]
<1>1. CASE Closed(t) /\ l = link[t] /\ count' = count
  BY <1>1, CallCounts DEF Faults, Shut
<1>2. CASE ~Closed(t) /\ Counted("faults")
  <2>1. /\ count'.faults = count.faults + 1 /\ count'.closes = count.closes
        /\ count'.deletions = count.deletions
    BY <1>2, Kinds DEF Events
  <2> QED BY <1>2, <2>1, CallCounts DEF Faults, Shut
<1> QED BY <1>1, <1>2 DEF Fails

-----------------------------------------------------------------------------
(* A step of a thread's call.                                              *)

Own(t) ==
  /\ t \in setup.senders /\ setup' = setup
  /\ \A s \in Senders \ {t} : sender'[s] = sender[s] /\ link'[s] = link[s]
  /\ server.queues \subseteq server'.queues /\ server'.dead \subseteq server.dead
  /\ "queue" \notin server'.queues => server'.ready \subseteq server.ready
  /\ count'.deletions = count.deletions /\ count'.closes = count.closes
  /\ count.faults <= count'.faults

(* It comes to trust that the queue exists only by declaring it, and makes
   others trust only as it discards the queue from queues_pending.         *)
Cautious(t) ==
  "queue" \notin server'.queues =>
    /\ sender'[t].pc # "discard" /\ (Trusts(t)' => Trusts(t))
    /\ "publisher" \notin pending' =>
         "publisher" \notin pending \/ sender[t].pc = "discard"

Paid(t) ==
  /\ sender'[t].attempts + Shut(t)' + Risk(t)' + Faults
       <= sender[t].attempts + Shut(t) + Risk(t) + Faults'
  /\ sender'[t].declares + Shut(t)' + Faults <= sender[t].declares + Shut(t) + Faults'

LEMMA RisksFall ==
  ASSUME PublisherInv, NEW t \in Senders, Own(t), Cautious(t)
  PROVE  /\ \A u \in setup.senders : Risk(u)' \in Nat /\ Risk(u)' <= Risk(u)
         /\ "queue" \notin server'.queues /\ Trusts(t) /\ ~Trusts(t)'
              => Risk(t)' + 1 <= Risk(t)
<1>1. t \in setup.senders /\ setup' = setup /\ setup.senders \subseteq Senders
      /\ \A s \in Senders \ {t} : sender'[s] = sender[s]
  BY Teams DEF Own
<1>2. CASE "queue" \in server'.queues
  <2>1. \A u \in setup.senders : Risk(u)' = 0 /\ Risk(u) \in Nat
    BY <1>2, RiskBounds DEF Risk
  <2> QED BY <1>2, <2>1
<1>3. CASE "queue" \notin server'.queues
  <2>1. "queue" \notin server.queues
    BY <1>3 DEF Own
  <2>2. Stale(t)' = Stale(t)
    BY <1>1 DEF Stale
  <2>3. Cardinality(Stale(t)) \in Nat
    BY <1>1, Teams
  <2>4. Risk(t)' = Cardinality(Stale(t)) + (IF Trusts(t)' THEN 1 ELSE 0)
    BY <1>3, <2>2 DEF Risk
  <2>5. Risk(t) = Cardinality(Stale(t)) + (IF Trusts(t) THEN 1 ELSE 0)
    BY <2>1 DEF Risk
  <2>6. Trusts(t)' => Trusts(t)
    BY <1>3 DEF Cautious
  <2>7. Risk(t)' \in Nat /\ Risk(t)' <= Risk(t)
        /\ (Trusts(t) /\ ~Trusts(t)' => Risk(t)' + 1 <= Risk(t))
    BY <2>3, <2>4, <2>5, <2>6
  <2>8. ASSUME NEW u \in setup.senders, u # t PROVE Risk(u)' \in Nat /\ Risk(u)' <= Risk(u)
    <3>1. sender'[u] = sender[u] /\ sender'[t].pc # "discard"
      BY <1>1, <1>3, <2>8 DEF Cautious
    <3>2. Stale(u)' = Stale(u) \ {t}
      BY <1>1, <3>1 DEF Stale
    <3>3. IsFiniteSet(Stale(u)) /\ Cardinality(Stale(u)) \in Nat
      BY Teams
    <3>4. Cardinality(Stale(u) \ {t}) = IF t \in Stale(u) THEN Cardinality(Stale(u)) - 1
                                        ELSE Cardinality(Stale(u))
      BY <3>3, FS_RemoveElement
    <3>5. Cardinality(Stale(u) \ {t}) \in Nat
      BY <3>3, FS_RemoveElement, FS_CardinalityType
    <3>6. Risk(u)' = Cardinality(Stale(u) \ {t}) + (IF Trusts(u)' THEN 1 ELSE 0)
      BY <1>3, <3>2 DEF Risk
    <3>7. Risk(u) = Cardinality(Stale(u)) + (IF Trusts(u) THEN 1 ELSE 0)
      BY <2>1 DEF Risk
    <3>8. CASE sender[t].pc = "discard"
      <4>1. t \in Stale(u)
        BY <1>1, <2>8, <3>8 DEF Stale
      <4> QED BY <3>3, <3>4, <3>5, <3>6, <3>7, <4>1
    <3>9. CASE sender[t].pc # "discard"
      <4>1. Trusts(u)' => Trusts(u)
        BY <1>3, <3>1, <3>9 DEF Cautious, Trusts
      <4> QED BY <3>3, <3>4, <3>5, <3>6, <3>7, <4>1
    <3> QED BY <3>8, <3>9
  <2> QED BY <2>7, <2>8
<1> QED BY <1>2, <1>3

LEMMA BudgetsKept ==
  ASSUME PublisherInv, PublisherInv', CallsInv, NEW t \in Senders,
         Own(t), Cautious(t), Paid(t)
  PROVE  \A u \in setup.senders : Budget(u)'
<1>1. setup' = setup /\ setup.senders \subseteq Senders /\ Team' = Team /\ Team \in Nat
      /\ count'.deletions = count.deletions
      /\ count.faults <= count'.faults /\ count'.closes = count.closes
  BY Teams DEF Own, Team
<1>2. Faults \in Nat /\ Faults' \in Nat /\ Faults <= Faults'
  <2>1. count'.faults \in Nat
    BY TypedAfter, CountersType
  <2> QED BY <1>1, <2>1, CallCounts DEF Faults
<1>3. PICK D : D = Team * count.deletions
  OBVIOUS
<1>4. D \in Nat /\ Team' * count'.deletions = D
  BY <1>1, <1>3, CallCounts
<1>5. ASSUME NEW u \in setup.senders PROVE Budget(u)'
  <2>1. Risk(u) \in Nat /\ Risk(u)' \in Nat /\ Risk(u)' <= Risk(u)
    BY RisksFall, RiskBounds
  <2>2. /\ sender[u].attempts \in Nat /\ sender[u].declares \in Nat
        /\ sender'[u].attempts \in Nat /\ sender'[u].declares \in Nat
    <3>1. sender[u] \in Calls /\ sender'[u] \in Calls
      BY <1>1, Typed, TypedAfter
    <3> QED BY <3>1, CallFields, PublisherAssumption DEF Calls
  <2>3. Shut(u) \in Nat /\ Shut(u)' \in Nat
    BY DEF Shut
  <2>4. sender[u].attempts + Shut(u) + Risk(u) <= Faults + D
        /\ sender[u].declares + Shut(u) <= Faults
    BY <1>3 DEF CallsInv, Budget
  <2>5. sender'[u].attempts + Shut(u)' + Risk(u)' <= Faults' + D
        /\ sender'[u].declares + Shut(u)' <= Faults'
    <3>1. CASE u = t
      BY <1>2, <1>4, <2>1, <2>2, <2>3, <2>4, <3>1 DEF Paid
    <3>2. CASE u # t
      <4>1. sender'[u] = sender[u] /\ link'[u] = link[u]
        BY <1>1, <3>2 DEF Own
      <4>2. Shut(u)' = Shut(u)
        BY <4>1 DEF Shut, Closed
      <4> QED BY <1>2, <1>4, <2>1, <2>2, <2>3, <2>4, <4>1, <4>2
    <3> QED BY <3>1, <3>2
  <2> QED BY <1>4, <2>5 DEF Budget
<1> QED BY <1>5

(* What no step but that of a flush does to it.                            *)
LEMMA DroppingKept ==
  ASSUME PublisherInv, PublisherInv', SparesWorker, NEW s \in Senders, Dropping(s),
         setup' = setup, sender'[s] = sender[s],
         count'.closes = 0 => link'[s] = link[s] /\ count.closes = 0
  PROVE  Dropping(s)'
<1>1. Used \subseteq Used' /\ server'.ready \subseteq server.ready \cup (Used' \ Used)
      /\ Used' \cap setup.old = {}
  BY DEF SparesWorker, PublisherInv
<1> SUFFICES ASSUME sender'[s].pc = "flush" PROVE Dropping(s)'
  BY DEF Dropping
<1>2. /\ sender[s].done \in 0 .. 2 /\ sender[s].before \subseteq Used \cup setup.old
      /\ sender[s].done > 0 /\ count.closes = 0 =>
           IF Closed(s) THEN "channel" \notin link[s]
           ELSE sender[s].before \cap server.ready = {}
  BY DEF Dropping
<1>3. sender[s].before \cap server.ready = {} => sender[s].before \cap server'.ready = {}
  BY <1>1, <1>2
<1>4. sender[s].before \subseteq Used' \cup setup'.old
  BY <1>1, <1>2
<1>5. ASSUME sender'[s].done > 0, count'.closes = 0
      PROVE  IF Closed(s)' THEN "channel" \notin link'[s]
             ELSE sender'[s].before \cap server'.ready = {}
  BY <1>2, <1>3, <1>5 DEF Closed
<1> QED BY <1>2, <1>4, <1>5 DEF Dropping

LEMMA OwnKeeps ==
  ASSUME PublisherInv, PublisherInv', SparesWorker, CallsInv, UNCHANGED inWorker,
         NEW t \in Senders, Own(t), Cautious(t), Paid(t),
         HalfMade(link'[t]) => count'.faults > 0,
         ~setup.worker => Dropping(t)'
  PROVE  CallsInv'
<1>1. /\ t \in setup.senders /\ setup' = setup
      /\ \A s \in Senders \ {t} : sender'[s] = sender[s] /\ link'[s] = link[s]
      /\ count'.closes = count.closes /\ count.faults <= count'.faults
  BY DEF Own
<1>2. \A s \in Senders : sender'[s].pc # "idle" => s \in setup'.senders
  BY <1>1 DEF CallsInv
<1>3. \A s \in Senders : HalfMade(link'[s]) => count'.faults > 0
  <2>1. count.faults \in Nat /\ count'.faults \in Nat
    BY CallCounts, TypedAfter, CountersType
  <2> QED BY <1>1, <2>1 DEF CallsInv
<1>4. NoWorker'
  <2> SUFFICES ASSUME ~setup'.worker PROVE NoWorker'
    BY DEF NoWorker
  <2>1. /\ consumer' = NoConsumer /\ work' = {} /\ server'.unacked = {}
        /\ \A u \in Threads : thread'[u].pc = "idle"
    BY <1>1 DEF CallsInv, NoWorker, inWorker, SparesWorker
  <2>2. server.dead \subseteq setup.old
        /\ ("queue" \notin server.queues => server.ready = {})
        /\ ("dead" \notin server.queues => server.dead = {})
    BY <1>1 DEF CallsInv, NoWorker
  <2>3. server'.dead \subseteq setup'.old
        /\ ("queue" \notin server'.queues => server'.ready = {})
        /\ ("dead" \notin server'.queues => server'.dead = {})
    BY <1>1, <2>2 DEF Own
  <2>4. ASSUME NEW s \in Senders PROVE Dropping(s)'
    <3>1. CASE s = t
      BY <1>1, <3>1
    <3>2. CASE s # t
      <4>1. Dropping(s)
        BY <1>1 DEF CallsInv, NoWorker
      <4> QED BY <1>1, <3>2, <4>1, DroppingKept
    <3> QED BY <3>1, <3>2
  <2> QED BY <2>1, <2>3, <2>4 DEF NoWorker
<1>5. \A u \in setup'.senders : Budget(u)'
  BY <1>1, BudgetsKept
<1> QED BY <1>2, <1>3, <1>4, <1>5 DEF CallsInv

Right(t) ==
  /\ Own(t) /\ Cautious(t) /\ Paid(t)
  /\ HalfMade(link'[t]) => count'.faults > 0
  /\ ~setup.worker => Dropping(t)'
  /\ EndsRight(t)

LEMMA Others ==
  ASSUME PublisherInv, NEW t \in Senders, NEW r, sender' = [sender EXCEPT ![t] = r]
  PROVE  sender'[t] = r /\ \A s \in Senders \ {t} : sender'[s] = sender[s]
<1>1. sender = [s \in Senders |-> sender[s]]
  BY DEF PublisherInv
<1> QED BY <1>1

LEMMA OtherLinks ==
  ASSUME PublisherInv, NEW t \in Senders, NEW l, link' = [link EXCEPT ![t] = l]
  PROVE  link'[t] = l /\ \A s \in Senders \ {t} : link'[s] = link[s]
<1>1. link \in [Senders -> SUBSET Linked]
  BY Typed
<1> QED BY <1>1

LEMMA CallSizes ==
  ASSUME PublisherInv, CallsInv, NEW t \in Senders,
         sender[t].pc # "idle" \/ t \in setup.senders
  PROVE  /\ t \in setup.senders /\ Faults \in Nat /\ Risk(t) \in Nat
         /\ sender[t].attempts \in Nat /\ sender[t].declares \in Nat
         /\ Shut(t) \in {0, 1} /\ Shut(t)' \in {0, 1}
<1>1. t \in setup.senders
  BY DEF CallsInv
<1>2. sender[t].attempts \in Nat /\ sender[t].declares \in Nat
  <2>1. sender[t] \in Calls
    BY Typed
  <2> QED BY <2>1, CallFields, PublisherAssumption DEF Calls
<1> QED BY <1>1, <1>2, RiskBounds, CallCounts DEF Shut

LEMMA PaysNothing ==
  ASSUME PublisherInv, CallsInv, NEW t \in Senders,
         Own(t), Cautious(t), Faults' \in Nat,
         Shut(t)' + Faults <= Shut(t) + Faults', Faults <= Faults',
         NEW a \in Nat, NEW d \in Nat,
         sender'[t].attempts = a, a <= sender[t].attempts,
         sender'[t].declares = d, d <= sender[t].declares
  PROVE  Paid(t)
<1>1. Risk(t)' \in Nat /\ Risk(t)' <= Risk(t)
  BY CallSizes, RisksFall DEF Own
<1> QED BY <1>1, CallSizes DEF Paid, Own

LEMMA PaysOne ==
  ASSUME PublisherInv, CallsInv, NEW t \in Senders, sender[t].pc # "idle",
         Own(t), Cautious(t), Faults' \in Nat,
         link'[t] = {}, Faults + 1 <= Faults' + Shut(t),
         NEW a \in Nat, NEW d \in Nat,
         sender'[t].attempts = a, a <= sender[t].attempts + 1,
         sender'[t].declares = d, d <= sender[t].declares + 1
  PROVE  Paid(t)
<1>1. Risk(t)' \in Nat /\ Risk(t)' <= Risk(t)
  BY CallSizes, RisksFall
<1>2. Shut(t)' = 0
  BY DEF Shut, Closed
<1> QED BY <1>1, <1>2, CallSizes DEF Paid

LEMMA Raised ==
  ASSUME PublisherInv, NEW t \in Senders, NEW e, Raise(t, e)
  PROVE  \E r : /\ sender' = [sender EXCEPT ![t] = r] /\ r.pc = "idle" /\ r.error = e
                /\ r.attempts = 0 /\ r.declares = 0
<1> DEFINE r == [NoCall EXCEPT !.error = e]
<1>1. r.pc = "idle" /\ r.error = e /\ r.attempts = 0 /\ r.declares = 0
  BY DEF NoCall
<1>2. sender' = [sender EXCEPT ![t] = r]
  BY DEF Raise
<1> QED BY <1>1, <1>2

(* No channel, or all of it.                                               *)
LEMMA Whole ==
  /\ ~HalfMade({}) /\ ~HalfMade(Linked) /\ ~HalfMade({"connection", "open"})
  /\ \A l : ~HalfMade(l \ {"channel", "recorded"})
BY DEF HalfMade, Linked

LEMMA DiscardRight ==
  ASSUME PublisherInv, CallsInv, NEW t \in Senders, Discard(t)
  PROVE  Right(t)
<1> DEFINE r == [sender[t] EXCEPT !.pc = "publish", !.declares = 0]
<1>1. /\ sender[t].pc = "discard" /\ sender[t] \in Calls /\ t \in setup.senders
      /\ UNCHANGED <<setup, server, link, count>>
      /\ sender[t].attempts \in Nat /\ sender[t].declares \in Nat
  BY Typed, CallSizes DEF Discard
<1>2. sender' = [sender EXCEPT ![t] = r]
  BY DEF Discard, PublisherInv
<1>3. r.pc = "publish" /\ r.attempts = sender[t].attempts /\ r.declares = 0
  BY <1>1 DEF Calls
<1> HIDE DEF r
<1>4. sender'[t] = r /\ link'[t] = link[t]
      /\ \A s \in Senders \ {t} : sender'[s] = sender[s] /\ link'[s] = link[s]
  BY <1>1, <1>2, Others
<1>5. Own(t)
  BY <1>1, <1>4, CallCounts DEF Own
<1>6. Cautious(t)
  BY <1>1, <1>3, <1>4 DEF Cautious, Trusts
<1>7. Faults' = Faults /\ Shut(t)' = Shut(t) /\ Faults \in Nat
  BY <1>1, <1>4, CallCounts DEF Faults, Shut, Closed
<1>8. Paid(t)
  BY <1>1, <1>3, <1>4, <1>5, <1>6, <1>7, CallSizes, PaysNothing
<1>9. HalfMade(link'[t]) => count'.faults > 0
  BY <1>1, <1>4 DEF CallsInv
<1> QED BY <1>3, <1>4, <1>5, <1>6, <1>8, <1>9 DEF Right, Dropping, EndsRight

LEMMA EnsureQueueRight ==
  ASSUME PublisherInv, CallsInv, NEW t \in Senders, EnsureQueue(t)
  PROVE  Right(t)
<1>1. /\ sender[t].pc = "declare" /\ sender[t] \in Calls /\ t \in setup.senders
      /\ setup' = setup /\ pending' = pending /\ server \in Servers
      /\ sender[t].attempts \in Nat /\ sender[t].declares \in Nat
      /\ HalfMade(link[t]) => count.faults > 0
  BY Typed, CallSizes DEF EnsureQueue, CallsInv
<1>2. CASE /\ "publisher" \notin pending
           /\ sender' = [sender EXCEPT ![t].pc = "publish", ![t].declares = 0]
           /\ UNCHANGED <<server, link, count>>
  <2> DEFINE r == [sender[t] EXCEPT !.pc = "publish", !.declares = 0]
  <2>1. sender' = [sender EXCEPT ![t] = r]
    BY <1>2 DEF PublisherInv
  <2>2. r.pc = "publish" /\ r.attempts = sender[t].attempts /\ r.declares = 0
    BY <1>1 DEF Calls
  <2> HIDE DEF r
  <2>3. sender'[t] = r /\ link'[t] = link[t]
        /\ \A s \in Senders \ {t} : sender'[s] = sender[s] /\ link'[s] = link[s]
    <3>1. link' = link
      BY <1>2
    <3>2. sender'[t] = r /\ \A s \in Senders \ {t} : sender'[s] = sender[s]
      BY <2>1, Others
    <3> QED BY <3>1, <3>2
  <2>4. Own(t)
    <3>1. UNCHANGED <<server, count>>
      BY <1>2
    <3> QED BY <1>1, <2>3, <3>1, CallCounts DEF Own
  <2>5. Cautious(t)
    BY <1>1, <1>2, <2>2, <2>3 DEF Cautious, Trusts
  <2>6. Faults' = Faults /\ Shut(t)' = Shut(t) /\ Faults \in Nat
    BY <1>2, <2>3, CallCounts DEF Faults, Shut, Closed
  <2>7. Paid(t)
    BY <1>1, <2>2, <2>3, <2>4, <2>5, <2>6, CallSizes, PaysNothing
  <2> QED BY <1>1, <1>2, <2>2, <2>3, <2>4, <2>5, <2>7 DEF Right, Dropping, EndsRight
<1>3. CASE /\ Reaches(t)
           /\ server' = [server EXCEPT !.queues = Queues]
           /\ sender' = [sender EXCEPT ![t].pc = "discard"]
  <2> DEFINE r == [sender[t] EXCEPT !.pc = "discard"]
  <2>1. sender' = [sender EXCEPT ![t] = r]
    BY <1>3 DEF PublisherInv
  <2>2. /\ r.pc = "discard" /\ r.attempts = sender[t].attempts
        /\ r.declares = sender[t].declares
    BY <1>1 DEF Calls
  <2> HIDE DEF r
  <2>3. sender'[t] = r /\ link'[t] = Linked /\ count' = count
        /\ \A s \in Senders \ {t} : sender'[s] = sender[s] /\ link'[s] = link[s]
    BY <1>3, <2>1, Others, OtherLinks DEF Reaches
  <2>4. server'.queues = Queues /\ server.queues \subseteq Queues /\ "queue" \in Queues
        /\ server'.ready = server.ready /\ server'.dead = server.dead
    BY <1>1, <1>3 DEF Servers, Queues, Names
  <2>5. Own(t)
    BY <1>1, <2>3, <2>4, CallCounts DEF Own
  <2>6. Cautious(t)
    BY <2>4 DEF Cautious
  <2>7. Faults' = Faults /\ Shut(t)' = 0 /\ Faults \in Nat
    BY <2>3, CallCounts DEF Faults, Shut, Closed, Linked
  <2>8. Paid(t)
    BY <1>1, <2>2, <2>3, <2>5, <2>6, <2>7, CallSizes, PaysNothing
  <2> QED BY <1>1, <2>2, <2>3, <2>5, <2>6, <2>8, Whole DEF Right, Dropping, EndsRight
<1>4. ASSUME NEW l \in SUBSET Linked, NEW made \in 0 .. 3,
             Fails(t, l),
             server' = [server EXCEPT !.queues = @ \cup {Names[i] : i \in 1 .. made}],
             DeleteConnection(t, l,
               IF sender[t].declares + 1 >= MAX_DECLARE_ATTEMPTS
               THEN Raise(t, "ConnectionClosed")
               ELSE sender' = [sender EXCEPT ![t].declares = @ + 1],
               Raise(t, "KeyError"))
      PROVE  Right(t)
  <2>1. /\ Faults' \in Nat /\ Faults <= Faults' /\ Faults + 1 <= Faults' + Shut(t)
        /\ count'.deletions = count.deletions /\ count'.closes = count.closes
        /\ count.faults <= count'.faults /\ (HalfMade(l) => count'.faults > 0)
    BY <1>1, <1>4, Failing
  <2>2. /\ server.queues \subseteq server'.queues /\ server'.ready = server.ready
        /\ server'.dead = server.dead
    BY <1>1, <1>4 DEF Servers
  <2>3. ASSUME NEW r, sender' = [sender EXCEPT ![t] = r], r.pc \in {"declare", "idle"},
               NEW k, link' = [link EXCEPT ![t] = k]
        PROVE  Own(t) /\ Cautious(t) /\ sender'[t] = r /\ link'[t] = k
    <3>1. sender'[t] = r /\ link'[t] = k
          /\ \A s \in Senders \ {t} : sender'[s] = sender[s] /\ link'[s] = link[s]
      BY <2>3, Others, OtherLinks
    <3>2. Own(t)
      BY <1>1, <2>1, <2>2, <3>1 DEF Own
    <3>3. Cautious(t)
      BY <1>1, <2>3, <3>1 DEF Cautious, Trusts
    <3> QED BY <3>1, <3>2, <3>3
  <2>4. CASE ~HalfMade(l)
    <3>1. link' = [link EXCEPT ![t] = {}]
          /\ IF sender[t].declares + 1 >= MAX_DECLARE_ATTEMPTS
             THEN Raise(t, "ConnectionClosed")
             ELSE sender' = [sender EXCEPT ![t].declares = @ + 1]
      BY <1>4, <2>4 DEF DeleteConnection, HalfMade
    <3>2. CASE sender[t].declares + 1 >= MAX_DECLARE_ATTEMPTS
      <4>1. PICK r : /\ sender' = [sender EXCEPT ![t] = r] /\ r.pc = "idle"
                     /\ r.error = "ConnectionClosed" /\ r.attempts = 0 /\ r.declares = 0
        BY <3>1, <3>2, Raised
      <4>2. Own(t) /\ Cautious(t) /\ sender'[t] = r /\ link'[t] = {}
        BY <2>3, <3>1, <4>1
      <4>3. Paid(t)
        BY <1>1, <2>1, <4>1, <4>2, PaysOne
      <4>4. Faults' >= MAX_DECLARE_ATTEMPTS
        <5>1. sender[t].declares + Shut(t) <= Faults
          BY <1>1 DEF CallsInv, Budget
        <5> QED BY <1>1, <2>1, <3>2, <5>1, CallSizes, Limits
      <4>5. EndsRight(t)
        BY <1>1, <4>1, <4>2, <4>4 DEF EndsRight, Faults
      <4> QED BY <4>1, <4>2, <4>3, <4>5, Whole DEF Right, Dropping
    <3>3. CASE ~(sender[t].declares + 1 >= MAX_DECLARE_ATTEMPTS)
      <4> DEFINE r == [sender[t] EXCEPT !.declares = @ + 1]
      <4>1. sender' = [sender EXCEPT ![t] = r]
        BY <3>1, <3>3 DEF PublisherInv
      <4>2. /\ r.pc = "declare" /\ r.attempts = sender[t].attempts
            /\ r.declares = sender[t].declares + 1
        BY <1>1 DEF Calls
      <4> HIDE DEF r
      <4>3. Own(t) /\ Cautious(t) /\ sender'[t] = r /\ link'[t] = {}
        BY <2>3, <3>1, <4>1, <4>2
      <4>4. Paid(t)
        BY <1>1, <2>1, <4>2, <4>3, PaysOne
      <4> QED BY <4>2, <4>3, <4>4, Whole DEF Right, Dropping, EndsRight
    <3> QED BY <3>2, <3>3
  <2>5. CASE HalfMade(l)
    <3>1. link' = [link EXCEPT ![t] = l \ {"channel", "recorded"}] /\ Raise(t, "KeyError")
      BY <1>4, <2>5 DEF DeleteConnection, DeleteChannel, HalfMade
    <3>2. PICK r : /\ sender' = [sender EXCEPT ![t] = r] /\ r.pc = "idle"
                   /\ r.error = "KeyError" /\ r.attempts = 0 /\ r.declares = 0
      BY <3>1, Raised
    <3>3. Own(t) /\ Cautious(t) /\ sender'[t] = r /\ link'[t] = l \ {"channel", "recorded"}
      BY <2>3, <3>1, <3>2
    <3>4. Shut(t)' + Faults <= Shut(t) + Faults'
      BY <1>1, <2>1, CallSizes
    <3>5. Paid(t)
      BY <1>1, <2>1, <3>2, <3>3, <3>4, PaysNothing
    <3>6. EndsRight(t)
      BY <1>1, <2>1, <2>5, <3>2, <3>3 DEF EndsRight
    <3> QED BY <3>2, <3>3, <3>5, <3>6, Whole DEF Right, Dropping
  <2> QED BY <2>4, <2>5
<1> QED BY <1>2, <1>3, <1>4 DEF EnsureQueue

Retried(t) ==
  /\ sender'[t].pc \in {"declare", "idle"}
  /\ sender'[t].attempts \in Nat /\ sender'[t].attempts <= sender[t].attempts + 1
  /\ sender'[t].declares \in Nat /\ sender'[t].declares <= sender[t].declares
  /\ sender'[t].pc = "idle" =>
       /\ sender'[t].error = "ConnectionClosed"
       /\ sender[t].attempts + 1 >= MAX_ENQUEUE_ATTEMPTS

(* Another attempt, or the last.                                           *)
LEMMA AgainIs ==
  ASSUME PublisherInv, NEW t \in Senders, sender[t].pc = "publish", Again(t)
  PROVE  /\ \A s \in Senders \ {t} : sender'[s] = sender[s]
         /\ Retried(t)
<1>1. sender[t] \in Calls /\ sender[t].attempts \in Nat /\ sender[t].declares \in Nat
  BY Typed, CallFields
<1>2. CASE sender[t].attempts + 1 >= MAX_ENQUEUE_ATTEMPTS
  <2>1. PICK r : /\ sender' = [sender EXCEPT ![t] = r] /\ r.pc = "idle"
                 /\ r.error = "ConnectionClosed" /\ r.attempts = 0 /\ r.declares = 0
    BY <1>2, Raised DEF Again
  <2>2. sender'[t] = r /\ \A s \in Senders \ {t} : sender'[s] = sender[s]
    BY <2>1, Others
  <2> QED BY <1>1, <1>2, <2>1, <2>2 DEF Retried
<1>3. CASE ~(sender[t].attempts + 1 >= MAX_ENQUEUE_ATTEMPTS)
  <2> DEFINE r == [sender[t] EXCEPT !.pc = "declare", !.attempts = @ + 1]
  <2>1. sender' = [sender EXCEPT ![t] = r]
    BY <1>3 DEF Again, PublisherInv
  <2>2. /\ r.pc = "declare" /\ r.attempts = sender[t].attempts + 1
        /\ r.declares = sender[t].declares
    BY <1>1 DEF Calls
  <2> HIDE DEF r
  <2>3. sender'[t] = r /\ \A s \in Senders \ {t} : sender'[s] = sender[s]
    BY <2>1, Others
  <2> QED BY <1>1, <2>2, <2>3 DEF Retried
<1> QED BY <1>2, <1>3

(* The attempts that a thread has spent are within what it may lose.       *)
LEMMA AttemptsSpent ==
  ASSUME PublisherInv, CallsInv, NEW t \in Senders, sender[t].pc # "idle",
         Faults' \in Nat, count'.deletions = count.deletions,
         \/ Faults + 1 <= Faults' + Shut(t)
         \/ Faults <= Faults' /\ 1 <= Risk(t)
  PROVE  sender[t].attempts + 1 <= Faults' + Team * count'.deletions
<1>1. PICK D : D = Team * count.deletions
  OBVIOUS
<1>2. D \in Nat /\ Team * count'.deletions = D
  BY <1>1, Teams, CallCounts
<1>3. sender[t].attempts + Shut(t) + Risk(t) <= Faults + D
  BY <1>1, CallSizes DEF CallsInv, Budget
<1>4. sender[t].attempts + 1 <= Faults' + D
  BY <1>2, <1>3, CallSizes
<1> QED BY <1>2, <1>4

LEMMA LastAttempt ==
  ASSUME PublisherInv, CallsInv, NEW t \in Senders, sender[t].pc = "publish",
         Retried(t), Faults' \in Nat, count'.deletions = count.deletions,
         sender[t].attempts + 1 <= Faults' + Team * count'.deletions
  PROVE  EndsRight(t)
<1> SUFFICES ASSUME sender'[t].pc = "idle" PROVE EndsRight(t)
  BY DEF EndsRight
<1>0. /\ sender'[t].error = "ConnectionClosed"
      /\ sender[t].attempts + 1 >= MAX_ENQUEUE_ATTEMPTS
  BY DEF Retried
<1>1. PICK N : N = Faults' + Team * count'.deletions
  OBVIOUS
<1>2. N \in Nat
  BY <1>1, Teams, CallCounts
<1>3. N >= MAX_ENQUEUE_ATTEMPTS
  BY <1>0, <1>1, <1>2, CallSizes, Limits
<1>4. Faults' + Team * count'.deletions >= MAX_ENQUEUE_ATTEMPTS
  BY <1>1, <1>3
<1> QED BY <1>0, <1>4 DEF EndsRight, Faults, Team

LEMMA ConfirmedRight ==
  ASSUME PublisherInv, CallsInv, NEW t \in Senders, Confirmed(t)
  PROVE  Right(t)
<1>1. /\ sender[t].pc = "publish" /\ t \in setup.senders
      /\ "queue" \in server.queues /\ Reaches(t) /\ Stored(t)
      /\ sender' = [sender EXCEPT ![t] = NoCall]
      /\ setup' = setup /\ pending' = pending /\ count' = count /\ server \in Servers
      /\ sender[t].attempts \in Nat /\ sender[t].declares \in Nat
  BY Typed, CallSizes DEF Confirmed, Reaches
<1>2. sender'[t] = NoCall /\ link'[t] = Linked
      /\ \A s \in Senders \ {t} : sender'[s] = sender[s] /\ link'[s] = link[s]
  BY <1>1, Others, OtherLinks DEF Reaches
<1>3. server'.queues = server.queues /\ server'.dead = server.dead
  BY <1>1 DEF Stored, Servers
<1>4. Own(t)
  BY <1>1, <1>2, <1>3, CallCounts DEF Own
<1>5. Cautious(t)
  BY <1>1, <1>3 DEF Cautious
<1>6. Faults' = Faults /\ Shut(t)' = 0 /\ Faults \in Nat
  BY <1>1, <1>2, CallCounts DEF Faults, Shut, Closed, Linked
<1>7. NoCall.pc = "idle" /\ NoCall.error = "none" /\ NoCall.attempts = 0
      /\ NoCall.declares = 0
  BY DEF NoCall
<1>8. Paid(t)
  BY <1>1, <1>2, <1>4, <1>5, <1>6, <1>7, CallSizes, PaysNothing
<1> QED BY <1>1, <1>2, <1>4, <1>5, <1>7, <1>8, Whole DEF Right, Dropping, EndsRight

LEMMA PublishFailsRight ==
  ASSUME PublisherInv, CallsInv, NEW t \in Senders, PublishFails(t)
  PROVE  Right(t)
<1>1. /\ sender[t].pc = "publish" /\ t \in setup.senders
      /\ setup' = setup /\ pending' = pending /\ server \in Servers
      /\ sender[t].attempts \in Nat /\ sender[t].declares \in Nat
      /\ HalfMade(link[t]) => count.faults > 0
  BY Typed, CallSizes DEF PublishFails, CallsInv
<1>2. PICK l \in SUBSET Linked :
        /\ Fails(t, l)
        /\ \/ "queue" \in server.queues /\ Stored(t)
           \/ UNCHANGED <<server, job>>
        /\ DeleteConnection(t, l, Again(t), Raise(t, "KeyError"))
  BY DEF PublishFails
<1>3. /\ Faults' \in Nat /\ Faults <= Faults' /\ Faults + 1 <= Faults' + Shut(t)
      /\ count'.deletions = count.deletions /\ count'.closes = count.closes
      /\ count.faults <= count'.faults /\ (HalfMade(l) => count'.faults > 0)
  BY <1>1, <1>2, Failing
<1>4. /\ server'.queues = server.queues /\ server'.dead = server.dead
      /\ "queue" \notin server'.queues => server'.ready = server.ready
  BY <1>1, <1>2 DEF Stored, Servers
<1>5. ASSUME \A s \in Senders \ {t} : sender'[s] = sender[s],
             sender'[t].pc \in {"declare", "idle"},
             NEW k, link' = [link EXCEPT ![t] = k]
      PROVE  Own(t) /\ Cautious(t) /\ link'[t] = k
  <2>1. /\ link'[t] = k
        /\ \A s \in Senders \ {t} : sender'[s] = sender[s] /\ link'[s] = link[s]
    BY <1>5, OtherLinks
  <2>2. Own(t)
    BY <1>1, <1>3, <1>4, <2>1 DEF Own
  <2>3. Cautious(t)
    BY <1>1, <1>5, <2>1 DEF Cautious, Trusts
  <2> QED BY <2>1, <2>2, <2>3
<1>6. CASE ~HalfMade(l)
  <2>1. link' = [link EXCEPT ![t] = {}] /\ Again(t)
    BY <1>2, <1>6 DEF DeleteConnection, HalfMade
  <2>2. Retried(t) /\ \A s \in Senders \ {t} : sender'[s] = sender[s]
    BY <1>1, <2>1, AgainIs
  <2>3. Own(t) /\ Cautious(t) /\ link'[t] = {}
    BY <1>5, <2>1, <2>2 DEF Retried
  <2>4. Paid(t)
    <3>1. sender[t].declares <= sender[t].declares + 1
      BY <1>1
    <3> QED BY <1>1, <1>3, <2>2, <2>3, <3>1, PaysOne DEF Retried
  <2>5. sender[t].attempts + 1 <= Faults' + Team * count'.deletions
    BY <1>1, <1>3, AttemptsSpent
  <2>6. EndsRight(t)
    BY <1>1, <1>3, <2>2, <2>3, <2>5, LastAttempt
  <2>7. sender'[t].pc # "flush" /\ ~HalfMade(link'[t])
    BY <2>2, <2>3, Whole DEF Retried
  <2> QED BY <2>3, <2>4, <2>6, <2>7 DEF Right, Dropping
<1>7. CASE HalfMade(l)
  <2>1. link' = [link EXCEPT ![t] = l \ {"channel", "recorded"}] /\ Raise(t, "KeyError")
    BY <1>2, <1>7 DEF DeleteConnection, DeleteChannel, HalfMade
  <2>2. PICK r : /\ sender' = [sender EXCEPT ![t] = r] /\ r.pc = "idle"
                 /\ r.error = "KeyError" /\ r.attempts = 0 /\ r.declares = 0
    BY <2>1, Raised
  <2>3. sender'[t] = r /\ \A s \in Senders \ {t} : sender'[s] = sender[s]
    BY <2>2, Others
  <2>4. Own(t) /\ Cautious(t) /\ link'[t] = l \ {"channel", "recorded"}
    BY <1>5, <2>1, <2>2, <2>3
  <2>5. Shut(t)' + Faults <= Shut(t) + Faults'
    BY <1>1, <1>3, CallSizes
  <2>6. Paid(t)
    BY <1>1, <1>3, <2>2, <2>3, <2>4, <2>5, PaysNothing
  <2>7. EndsRight(t)
    BY <1>1, <1>3, <1>7, <2>2, <2>3 DEF EndsRight
  <2>8. sender'[t].pc # "flush" /\ ~HalfMade(link'[t])
    BY <2>2, <2>3, <2>4, Whole
  <2> QED BY <2>4, <2>6, <2>7, <2>8 DEF Right, Dropping
<1> QED BY <1>6, <1>7

(* The queue is gone, and the thread trusted that it is there.             *)
LEMMA UnroutableRight ==
  ASSUME PublisherInv, CallsInv, NEW t \in Senders, Unroutable(t)
  PROVE  Right(t)
<1>1. /\ sender[t].pc = "publish" /\ t \in setup.senders
      /\ "queue" \notin server.queues /\ ~Closed(t)
      /\ link' = [link EXCEPT ![t] = {}]
      /\ pending' = pending \cup {"publisher"} /\ Again(t)
      /\ UNCHANGED <<setup, server, count>>
      /\ sender[t].attempts \in Nat /\ sender[t].declares \in Nat
  BY CallSizes DEF Unroutable
<1>2. Retried(t)
  BY <1>1, AgainIs
<1>3. /\ link'[t] = {}
      /\ \A s \in Senders \ {t} : sender'[s] = sender[s] /\ link'[s] = link[s]
  BY <1>1, AgainIs, OtherLinks
<1>4. Own(t)
  BY <1>1, <1>3, CallCounts DEF Own
<1>5. Trusts(t) /\ ~Trusts(t)'
  BY <1>1, <1>2 DEF Trusts, Retried
<1>6. Cautious(t)
  BY <1>1, <1>2, <1>5 DEF Cautious, Retried
<1>7. Risk(t)' \in Nat /\ Risk(t)' + 1 <= Risk(t)
  BY <1>1, <1>4, <1>5, <1>6, RisksFall
<1>8. Faults' = Faults /\ Faults \in Nat /\ Shut(t)' = 0 /\ Shut(t) = 0
  BY <1>1, <1>3, CallCounts DEF Faults, Shut, Closed
<1>9. Paid(t)
  BY <1>1, <1>2, <1>7, <1>8, CallSizes DEF Paid, Retried
<1>10. sender[t].attempts + 1 <= Faults' + Team * count'.deletions
  <2>1. 1 <= Risk(t) /\ Faults <= Faults' /\ count'.deletions = count.deletions
    BY <1>1, <1>7, <1>8, CallSizes
  <2> QED BY <1>1, <1>8, <2>1, AttemptsSpent
<1>11. EndsRight(t)
  BY <1>1, <1>2, <1>8, <1>10, LastAttempt
<1>12. sender'[t].pc # "flush" /\ ~HalfMade(link'[t])
  BY <1>2, <1>3, Whole DEF Retried
<1> QED BY <1>4, <1>6, <1>9, <1>11, <1>12 DEF Right, Dropping

LEMMA PlainStep ==
  ASSUME PublisherInv, CallsInv, NEW t \in Senders, t \in setup.senders,
         setup' = setup, pending' = pending,
         \A s \in Senders \ {t} : sender'[s] = sender[s] /\ link'[s] = link[s],
         sender'[t].pc \notin {"discard", "publish"},
         server.queues \subseteq server'.queues, server'.dead \subseteq server.dead,
         server'.ready \subseteq server.ready,
         count'.deletions = count.deletions, count'.closes = count.closes,
         count.faults <= count'.faults, Faults' \in Nat, Faults <= Faults',
         Shut(t)' + Faults <= Shut(t) + Faults',
         NEW a \in Nat, NEW d \in Nat,
         sender'[t].attempts = a, a <= sender[t].attempts,
         sender'[t].declares = d, d <= sender[t].declares
  PROVE  Own(t) /\ Cautious(t) /\ Paid(t)
<1>1. Own(t)
  BY DEF Own
<1>2. Cautious(t)
  BY DEF Cautious, Trusts
<1> QED BY <1>1, <1>2, PaysNothing

(* The start of a call.                                                    *)
LEMMA StartRight ==
  ASSUME PublisherInv, CallsInv, NEW t \in Senders,
         Flush(t) \/ Join(t) \/ \E j \in Jobs : Enqueue(t, j)
  PROVE  Right(t)
<1>1. /\ t \in setup.senders /\ sender[t].pc = "idle"
      /\ UNCHANGED <<setup, server, pending, link>>
      /\ sender[t].attempts \in Nat /\ sender[t].declares \in Nat
      /\ HalfMade(link[t]) => count.faults > 0
  BY CallSizes DEF Flush, Join, Enqueue, CallsInv
<1>2. /\ count'.faults = count.faults /\ count'.closes = count.closes
      /\ count'.deletions = count.deletions
  BY CallsOnly DEF Flush, Join, Enqueue
<1>3. PICK r :
        /\ sender' = [sender EXCEPT ![t] = r] /\ r.pc \in {"declare", "flush", "join"}
        /\ r.attempts = 0 /\ r.declares = 0
        /\ r.pc = "flush" => r.done = 0 /\ r.before = server.ready \cup server.dead
  <2>1. CASE Flush(t)
    <3> DEFINE r == [NoCall EXCEPT !.pc = "flush", !.before = server.ready \cup server.dead]
    <3>1. sender' = [sender EXCEPT ![t] = r]
      BY <2>1 DEF Flush
    <3>2. /\ r.pc = "flush" /\ r.attempts = 0 /\ r.declares = 0 /\ r.done = 0
          /\ r.before = server.ready \cup server.dead
      BY DEF NoCall
    <3> QED BY <3>1, <3>2
  <2>2. CASE Join(t)
    <3> DEFINE r == [NoCall EXCEPT !.pc = "join"]
    <3>1. sender' = [sender EXCEPT ![t] = r]
      BY <2>2 DEF Join
    <3>2. r.pc = "join" /\ r.attempts = 0 /\ r.declares = 0
      BY DEF NoCall
    <3> QED BY <3>1, <3>2
  <2>3. ASSUME NEW j \in Jobs, Enqueue(t, j)
        PROVE  \E r :
          /\ sender' = [sender EXCEPT ![t] = r] /\ r.pc \in {"declare", "flush", "join"}
          /\ r.attempts = 0 /\ r.declares = 0
          /\ r.pc = "flush" => r.done = 0 /\ r.before = server.ready \cup server.dead
    <3> DEFINE r == [NoCall EXCEPT !.pc = "declare", !.job = j]
    <3>1. sender' = [sender EXCEPT ![t] = r]
      BY <2>3 DEF Enqueue
    <3>2. r.pc = "declare" /\ r.attempts = 0 /\ r.declares = 0
      BY DEF NoCall
    <3> QED BY <3>1, <3>2
  <2> QED BY <2>1, <2>2, <2>3
<1>4. sender'[t] = r /\ \A s \in Senders \ {t} : sender'[s] = sender[s]
  BY <1>3, Others
<1>5. Faults' = Faults /\ Shut(t)' = Shut(t) /\ Faults \in Nat
  BY <1>1, <1>2, CallCounts DEF Faults, Shut, Closed
<1>6. Own(t) /\ Cautious(t) /\ Paid(t)
  BY <1>1, <1>2, <1>3, <1>4, <1>5, CallCounts, CallSizes, PlainStep
<1>7. ~setup.worker => Dropping(t)'
  <2> SUFFICES ASSUME ~setup.worker, r.pc = "flush" PROVE Dropping(t)'
    BY <1>4 DEF Dropping
  <2>1. server.dead \subseteq setup.old /\ server.ready \subseteq Used
    BY DEF CallsInv, NoWorker, PublisherInv
  <2>2. Used' = Used /\ setup' = setup
    BY <1>1 DEF Flush, Join, Enqueue, Used
  <2> QED BY <1>3, <1>4, <2>1, <2>2 DEF Dropping
<1> QED BY <1>1, <1>2, <1>4, <1>6, <1>7 DEF Right, EndsRight

(* A call that raises an error of the connection keeps what is left of it. *)
LEMMA RaisedRight ==
  ASSUME PublisherInv, CallsInv, NEW t \in Senders, sender[t].pc \in {"flush", "join"},
         NEW l \in SUBSET Linked, link' = [link EXCEPT ![t] = l],
         NEW e, e # "none", Raise(t, e),
         setup' = setup, pending' = pending,
         server.queues \subseteq server'.queues, server'.dead \subseteq server.dead,
         server'.ready \subseteq server.ready,
         count'.deletions = count.deletions, count'.closes = count.closes,
         count.faults <= count'.faults, Faults' \in Nat, Faults <= Faults',
         Shut(t)' + Faults <= Shut(t) + Faults',
         HalfMade(l) => count'.faults > 0
  PROVE  Right(t)
<1>1. t \in setup.senders /\ sender[t].attempts \in Nat /\ sender[t].declares \in Nat
  BY CallSizes
<1>2. PICK r : /\ sender' = [sender EXCEPT ![t] = r] /\ r.pc = "idle"
               /\ r.error = e /\ r.attempts = 0 /\ r.declares = 0
  BY Raised
<1>3. sender'[t] = r /\ link'[t] = l
      /\ \A s \in Senders \ {t} : sender'[s] = sender[s] /\ link'[s] = link[s]
  BY <1>2, Others, OtherLinks
<1>4. Own(t) /\ Cautious(t) /\ Paid(t)
  BY <1>1, <1>2, <1>3, PlainStep
<1> QED BY <1>2, <1>3, <1>4 DEF Right, Dropping, EndsRight

LEMMA PollRight ==
  ASSUME PublisherInv, CallsInv, NEW t \in Senders, Poll(t)
  PROVE  Right(t)
<1>1. /\ sender[t].pc = "join" /\ sender[t] \in Calls /\ t \in setup.senders
      /\ setup' = setup /\ pending' = pending /\ server \in Servers
      /\ link \in [Senders -> SUBSET Linked]
      /\ sender[t].attempts \in Nat /\ sender[t].declares \in Nat
      /\ HalfMade(link[t]) => count.faults > 0
  BY Typed, CallSizes DEF Poll, CallsInv
<1>2. CASE /\ Reaches(t) /\ server' = [server EXCEPT !.queues = Queues]
           /\ sender' = IF server.ready # {} THEN [sender EXCEPT ![t].done = 0]
                ELSE IF sender[t].done + 1 = MinSuccesses THEN [sender EXCEPT ![t] = NoCall]
                ELSE [sender EXCEPT ![t].done = @ + 1]
  <2>1. /\ server'.queues = Queues /\ server.queues \subseteq Queues
        /\ server'.ready = server.ready /\ server'.dead = server.dead
    BY <1>1, <1>2 DEF Servers
  <2>2. link'[t] = Linked /\ count' = count
        /\ \A s \in Senders \ {t} : link'[s] = link[s]
    BY <1>2, OtherLinks DEF Reaches
  <2>3. /\ \A s \in Senders \ {t} : sender'[s] = sender[s]
        /\ sender'[t].pc \in {"join", "idle"}
        /\ sender'[t].attempts \in Nat /\ sender'[t].attempts <= sender[t].attempts
        /\ sender'[t].declares \in Nat /\ sender'[t].declares <= sender[t].declares
    <3>1. ASSUME NEW n, sender' = [sender EXCEPT ![t].done = n]
          PROVE  /\ \A s \in Senders \ {t} : sender'[s] = sender[s]
                 /\ sender'[t].pc \in {"join", "idle"}
                 /\ sender'[t].attempts \in Nat
                 /\ sender'[t].attempts <= sender[t].attempts
                 /\ sender'[t].declares \in Nat
                 /\ sender'[t].declares <= sender[t].declares
      <4> DEFINE r == [sender[t] EXCEPT !.done = n]
      <4>1. sender' = [sender EXCEPT ![t] = r]
        BY <3>1 DEF PublisherInv
      <4>2. /\ r.pc = "join" /\ r.attempts = sender[t].attempts
            /\ r.declares = sender[t].declares
        BY <1>1 DEF Calls
      <4> HIDE DEF r
      <4>3. sender'[t] = r /\ \A s \in Senders \ {t} : sender'[s] = sender[s]
        BY <4>1, Others
      <4> QED BY <1>1, <4>2, <4>3
    <3>2. CASE sender' = [sender EXCEPT ![t] = NoCall]
      <4>1. NoCall.pc = "idle" /\ NoCall.attempts = 0 /\ NoCall.declares = 0
        BY DEF NoCall
      <4>2. sender'[t] = NoCall /\ \A s \in Senders \ {t} : sender'[s] = sender[s]
        BY <3>2, Others
      <4> QED BY <1>1, <4>1, <4>2
    <3>3. \/ sender' = [sender EXCEPT ![t] = NoCall]
          \/ sender' = [sender EXCEPT ![t].done = 0]
          \/ sender' = [sender EXCEPT ![t].done = sender[t].done + 1]
      BY <1>2
    <3> QED BY <3>1, <3>2, <3>3
  <2>5. Faults' = Faults /\ Shut(t)' = 0 /\ Faults \in Nat
    BY <2>2, CallCounts DEF Faults, Shut, Closed, Linked
  <2>6. Own(t) /\ Cautious(t) /\ Paid(t)
    BY <1>1, <2>1, <2>2, <2>3, <2>5, CallCounts, CallSizes, PlainStep
  <2>7. sender'[t].pc # "flush" /\ ~HalfMade(link'[t])
    BY <2>2, <2>3, Whole
  <2> QED BY <1>1, <2>6, <2>7 DEF Right, Dropping, EndsRight
<1>3. ASSUME NEW l \in SUBSET Linked, NEW made \in 0 .. 3, Fails(t, l),
             server' = [server EXCEPT !.queues = @ \cup {Names[i] : i \in 1 .. made}],
             link' = [link EXCEPT ![t] = l], Raise(t, "AMQPError")
      PROVE  Right(t)
  <2>1. /\ Faults' \in Nat /\ Faults <= Faults' /\ Faults + 1 <= Faults' + Shut(t)
        /\ count'.deletions = count.deletions /\ count'.closes = count.closes
        /\ count.faults <= count'.faults /\ (HalfMade(l) => count'.faults > 0)
    BY <1>1, <1>3, Failing
  <2>2. /\ server.queues \subseteq server'.queues /\ server'.ready = server.ready
        /\ server'.dead = server.dead
    BY <1>1, <1>3 DEF Servers
  <2>3. Shut(t)' + Faults <= Shut(t) + Faults'
    BY <1>1, <2>1, CallSizes
  <2>4. link' = [link EXCEPT ![t] = l] /\ Raise(t, "AMQPError")
    BY <1>3
  <2> QED BY <1>1, <2>1, <2>2, <2>3, <2>4, RaisedRight
<1>4. CASE Raise(t, "QueueJoinTimeout") /\ UNCHANGED <<server, link, count>>
  <2>1. Faults' = Faults /\ Shut(t)' = Shut(t) /\ Faults \in Nat
    BY <1>4, CallCounts DEF Faults, Shut, Closed
  <2>2. PICK l \in SUBSET Linked : l = link[t]
    BY <1>1
  <2>3. link' = [link EXCEPT ![t] = l]
    BY <1>1, <1>4, <2>2
  <2>4. Shut(t)' + Faults <= Shut(t) + Faults' /\ Faults' \in Nat /\ Faults <= Faults'
    BY <1>1, <2>1, CallSizes
  <2>5. /\ server.queues \subseteq server'.queues /\ server'.dead \subseteq server.dead
        /\ server'.ready \subseteq server.ready
        /\ count'.deletions = count.deletions /\ count'.closes = count.closes
        /\ count.faults <= count'.faults
    BY <1>4, CallCounts
  <2>6. HalfMade(l) => count'.faults > 0
    BY <1>1, <1>4, <2>2
  <2>7. Raise(t, "QueueJoinTimeout")
    BY <1>4
  <2> QED BY <1>1, <2>3, <2>4, <2>5, <2>6, <2>7, RaisedRight
<1> QED BY <1>2, <1>3, <1>4 DEF Poll, GetCounts

(* The next queue of a flush, or its end.                                  *)
LEMMA FlushGoes ==
  ASSUME PublisherInv, CallsInv, NEW t \in Senders, sender[t].pc = "flush", NextQueue(t),
         NEW l \in SUBSET Linked, link' = [link EXCEPT ![t] = l],
         setup' = setup, pending' = pending, job' = job, server'.queues = server.queues,
         server'.dead \subseteq server.dead, server'.ready \subseteq server.ready,
         count' = count, Shut(t)' <= Shut(t), ~HalfMade(l),
         ~setup.worker /\ count.closes = 0 =>
           /\ IF Closed(t)' THEN "channel" \notin l
              ELSE sender[t].before \cap server'.ready = {}
           /\ sender[t].done = 2 =>
                sender[t].before \cap (server'.ready \cup server'.dead) = {}
  PROVE  Right(t)
<1>1. t \in setup.senders /\ sender[t].attempts \in Nat /\ sender[t].declares \in Nat
      /\ sender[t] \in Calls
  BY CallSizes, Typed
<1> DEFINE r == sender'[t]
<1>2. /\ \A s \in Senders \ {t} : sender'[s] = sender[s]
      /\ r.attempts \in Nat /\ r.attempts <= sender[t].attempts
      /\ r.declares \in Nat /\ r.declares <= sender[t].declares
      /\ IF sender[t].done = 2 THEN r.pc = "idle"
         ELSE r.pc = "flush" /\ r.done = sender[t].done + 1 /\ r.before = sender[t].before
  <2>1. CASE sender[t].done = 2
    <3>1. NoCall.pc = "idle" /\ NoCall.attempts = 0 /\ NoCall.declares = 0
      BY DEF NoCall
    <3>2. sender' = [sender EXCEPT ![t] = NoCall]
      BY <2>1 DEF NextQueue
    <3>3. r = NoCall /\ \A s \in Senders \ {t} : sender'[s] = sender[s]
      BY <3>2, Others
    <3> QED BY <1>1, <2>1, <3>1, <3>3
  <2>2. CASE sender[t].done # 2
    <3> DEFINE n == [sender[t] EXCEPT !.done = @ + 1]
    <3>1. sender' = [sender EXCEPT ![t] = n]
      BY <2>2 DEF NextQueue, PublisherInv
    <3>2. /\ n.pc = "flush" /\ n.done = sender[t].done + 1
          /\ n.attempts = sender[t].attempts /\ n.declares = sender[t].declares
          /\ n.before = sender[t].before
      BY <1>1 DEF Calls
    <3> HIDE DEF n
    <3>3. r = n /\ \A s \in Senders \ {t} : sender'[s] = sender[s]
      BY <3>1, Others
    <3> QED BY <1>1, <2>2, <3>2, <3>3
  <2> QED BY <2>1, <2>2
<1>3. link'[t] = l /\ \A s \in Senders \ {t} : link'[s] = link[s]
  BY OtherLinks
<1>4. Faults' = Faults /\ Faults \in Nat
  BY CallCounts DEF Faults
<1>5. r.pc \notin {"discard", "publish"}
  BY <1>2
<1>6. Own(t) /\ Cautious(t) /\ Paid(t)
  BY <1>1, <1>2, <1>3, <1>4, <1>5, CallCounts, CallSizes, PlainStep
<1>7. ASSUME ~setup.worker PROVE Dropping(t)'
  <2>1. sender[t].done \in 0 .. 2 /\ sender[t].before \subseteq Used \cup setup.old
    BY <1>7 DEF CallsInv, NoWorker, Dropping
  <2>2. Used' = Used
    BY DEF Used
  <2>3. CASE r.pc = "flush"
    <3>1. sender[t].done # 2 /\ r.done = sender[t].done + 1 /\ r.before = sender[t].before
      BY <1>2, <2>3
    <3>2. r.done \in 0 .. 2
      BY <2>1, <3>1
    <3>3. count'.closes = 0 => IF Closed(t)' THEN "channel" \notin link'[t]
                               ELSE r.before \cap server'.ready = {}
      BY <1>3, <1>7, <3>1
    <3> QED BY <1>3, <2>1, <2>2, <3>1, <3>2, <3>3 DEF Dropping
  <2>4. CASE r.pc # "flush"
    BY <1>3, <2>4 DEF Dropping
  <2> QED BY <2>3, <2>4
<1>8. EndsRight(t)
  <2> SUFFICES ASSUME r.pc = "idle", ~setup.worker, ~(count'.closes > 0)
               PROVE  sender[t].before \cap (server'.ready \cup server'.dead) = {}
    BY <1>3 DEF EndsRight
  <2>1. count.closes = 0 /\ sender[t].done = 2
    BY <1>2, CallCounts
  <2> QED BY <2>1
<1> QED BY <1>3, <1>6, <1>7, <1>8 DEF Right

LEMMA PurgeRight ==
  ASSUME PublisherInv, CallsInv, NEW t \in Senders, Purge(t)
  PROVE  Right(t)
<1> DEFINE name == Names[sender[t].done + 1]
           before == sender[t].before
<1>1. /\ sender[t].pc = "flush" /\ t \in setup.senders
      /\ setup' = setup /\ pending' = pending /\ job' = job /\ server \in Servers
      /\ link \in [Senders -> SUBSET Linked]
      /\ HalfMade(link[t]) => count.faults > 0
  BY Typed, CallSizes DEF Purge, CallsInv
<1>2. Purges(name) => /\ server'.queues = server.queues
                      /\ server'.ready = IF name = "queue" THEN {} ELSE server.ready
                      /\ server'.dead = IF name = "dead" THEN {} ELSE server.dead
  BY <1>1 DEF Purges, Servers
<1>3. ASSUME ~setup.worker
      PROVE  /\ sender[t].done \in 0 .. 2
             /\ sender[t].done = 0 => name = "queue"
             /\ sender[t].done = 2 => name = "dead"
             /\ "queue" \notin server.queues => server.ready = {}
             /\ "dead" \notin server.queues => server.dead = {}
             /\ sender[t].done > 0 /\ count.closes = 0 =>
                  IF Closed(t) THEN "channel" \notin link[t]
                  ELSE before \cap server.ready = {}
  <2>1. sender[t].done \in 0 .. 2
    BY <1>1, <1>3 DEF CallsInv, NoWorker, Dropping
  <2> QED BY <1>1, <1>3, <2>1 DEF CallsInv, NoWorker, Dropping, Names
<1> HIDE DEF name, before
<1>4. CASE name \in server.queues /\ Reaches(t) /\ Purges(name) /\ NextQueue(t)
  <2>1. link' = [link EXCEPT ![t] = Linked] /\ count' = count /\ ~Closed(t)
    BY <1>4 DEF Reaches, Closed
  <2>2. link'[t] = Linked
    BY <2>1, OtherLinks
  <2>3. Shut(t)' = 0 /\ Shut(t) = 0 /\ ~Closed(t)'
    BY <2>1, <2>2 DEF Shut, Closed, Linked
  <2>4. /\ server'.queues = server.queues /\ server'.dead \subseteq server.dead
        /\ server'.ready \subseteq server.ready
    BY <1>2, <1>4
  <2>5. ASSUME ~setup.worker, count.closes = 0
        PROVE  /\ before \cap server'.ready = {}
               /\ sender[t].done = 2 => before \cap (server'.ready \cup server'.dead) = {}
    <3>1. sender[t].done \in 0 .. 2
      BY <1>3, <2>5
    <3>2. sender[t].done = 0 => server'.ready = {}
      BY <1>2, <1>3, <1>4, <2>5
    <3>3. sender[t].done > 0 => before \cap server.ready = {}
      BY <1>3, <2>1, <2>5
    <3>4. sender[t].done = 2 => server'.dead = {}
      BY <1>2, <1>3, <1>4, <2>5
    <3> QED BY <2>4, <3>1, <3>2, <3>3, <3>4
  <2>6. Linked \in SUBSET Linked /\ Shut(t)' <= Shut(t) /\ NextQueue(t)
    BY <1>4, <2>3
  <2> QED BY <1>1, <2>1, <2>3, <2>4, <2>5, <2>6, Whole, FlushGoes DEF before
<1>5. CASE /\ name \notin server.queues /\ ~Closed(t)
           /\ link' = [link EXCEPT ![t] = {"connection", "open"}]
           /\ NextQueue(t)
           /\ UNCHANGED <<server, finished, count>>
  <2>1. link'[t] = {"connection", "open"}
    BY <1>5, OtherLinks
  <2>2. Shut(t)' = 0 /\ Shut(t) = 0 /\ ~Closed(t)'
    BY <1>5, <2>1 DEF Shut, Closed
  <2>3. server'.queues = server.queues /\ server'.dead = server.dead
        /\ server'.ready = server.ready
    BY <1>5
  <2>4. ASSUME ~setup.worker, count.closes = 0
        PROVE  /\ before \cap server'.ready = {}
               /\ sender[t].done = 2 => before \cap (server'.ready \cup server'.dead) = {}
    <3>1. sender[t].done \in 0 .. 2
      BY <1>3, <2>4
    <3>2. sender[t].done = 0 => server.ready = {}
      BY <1>3, <1>5, <2>4
    <3>3. sender[t].done > 0 => before \cap server.ready = {}
      BY <1>3, <1>5, <2>4
    <3>4. sender[t].done = 2 => server.dead = {}
      BY <1>3, <1>5, <2>4
    <3> QED BY <2>3, <3>1, <3>2, <3>3, <3>4
  <2>5. {"connection", "open"} \in SUBSET Linked /\ Shut(t)' <= Shut(t)
    BY <2>2 DEF Linked
  <2> QED BY <1>1, <1>5, <2>2, <2>3, <2>4, <2>5, Whole, FlushGoes DEF before
<1>6. CASE /\ Closed(t) /\ "channel" \in link[t]
           /\ DeleteChannel(t, link[t], NextQueue(t), Raise(t, "KeyError"))
           /\ UNCHANGED <<server, finished, count>>
  <2>1. PICK l \in SUBSET Linked : l = link[t] \ {"channel", "recorded"}
    BY <1>1
  <2>2. link' = [link EXCEPT ![t] = l] /\ ~HalfMade(l) /\ "channel" \notin l
    BY <1>6, <2>1, Whole DEF DeleteChannel
  <2>3. link'[t] = l
    BY <2>2, OtherLinks
  <2>4. Closed(t)' /\ Shut(t)' = 1 /\ Shut(t) = 1
    BY <1>6, <2>1, <2>3 DEF Closed, Shut
  <2>5. /\ server'.queues = server.queues /\ server'.dead = server.dead
        /\ server'.ready = server.ready
        /\ count'.deletions = count.deletions /\ count'.closes = count.closes
        /\ count.faults <= count'.faults /\ Faults' = Faults /\ Faults \in Nat
    BY <1>6, CallCounts DEF Faults
  <2>6. CASE NextQueue(t)
    <3>1. ~(~setup.worker /\ count.closes = 0 /\ sender[t].done = 2)
      BY <1>3, <1>6
    <3>2. Shut(t)' <= Shut(t) /\ count' = count
      BY <1>6, <2>4
    <3> QED BY <1>1, <2>2, <2>4, <2>5, <2>6, <3>1, <3>2, FlushGoes
  <2>7. CASE Raise(t, "KeyError")
    <3>1. Shut(t)' + Faults <= Shut(t) + Faults'
      BY <2>4, <2>5
    <3>2. /\ sender[t].pc \in {"flush", "join"}
          /\ server.queues \subseteq server'.queues
          /\ server'.dead \subseteq server.dead /\ server'.ready \subseteq server.ready
          /\ Faults' \in Nat /\ Faults <= Faults'
          /\ (HalfMade(l) => count'.faults > 0)
          /\ link' = [link EXCEPT ![t] = l]
      BY <1>1, <2>2, <2>5
    <3> QED BY <1>1, <2>5, <2>7, <3>1, <3>2, RaisedRight
  <2> QED BY <1>6, <2>6, <2>7 DEF DeleteChannel
<1>7. ASSUME NEW l \in SUBSET Linked, Fails(t, l),
             Purges(name) \/ UNCHANGED <<server, finished>>,
             link' = [link EXCEPT ![t] = l], Raise(t, "AMQPError")
      PROVE  Right(t)
  <2>1. /\ Faults' \in Nat /\ Faults <= Faults' /\ Faults + 1 <= Faults' + Shut(t)
        /\ count'.deletions = count.deletions /\ count'.closes = count.closes
        /\ count.faults <= count'.faults /\ (HalfMade(l) => count'.faults > 0)
    BY <1>1, <1>7, Failing
  <2>2. /\ server.queues \subseteq server'.queues /\ server'.ready \subseteq server.ready
        /\ server'.dead \subseteq server.dead
    BY <1>2, <1>7
  <2>3. Shut(t)' + Faults <= Shut(t) + Faults'
    BY <1>1, <2>1, CallSizes
  <2> QED BY <1>1, <1>7, <2>1, <2>2, <2>3, RaisedRight
<1> QED BY <1>4, <1>5, <1>6, <1>7 DEF Purge, name

-----------------------------------------------------------------------------
(* What others do to the calls.                                            *)

LEMMA StillPays ==
  ASSUME PublisherInv, CallsInv, NEW u \in setup.senders, setup' = setup,
         sender'[u] = sender[u], Faults' \in Nat, Risk(u)' \in Nat,
         NEW x \in Nat, x = Team * count.deletions,
         NEW y \in Nat, y = Team * count'.deletions,
         Shut(u)' + Risk(u)' + Faults + x <= Shut(u) + Risk(u) + Faults' + y,
         Shut(u)' + Faults <= Shut(u) + Faults'
  PROVE  Budget(u)'
<1>1. u \in Senders /\ Team' = Team
  BY Teams DEF Team
<1>2. /\ sender[u].attempts \in Nat /\ sender[u].declares \in Nat
      /\ Shut(u) \in Nat /\ Shut(u)' \in Nat /\ Risk(u) \in Nat /\ Faults \in Nat
  BY <1>1, CallSizes DEF CallsInv
<1>3. /\ sender[u].attempts + Shut(u) + Risk(u) <= Faults + x
      /\ sender[u].declares + Shut(u) <= Faults
  BY DEF CallsInv, Budget
<1>4. /\ sender[u].attempts + Shut(u)' + Risk(u)' <= Faults' + y
      /\ sender[u].declares + Shut(u)' <= Faults'
  BY <1>2, <1>3
<1> QED BY <1>1, <1>4 DEF Budget

LEMMA SameRisk ==
  ASSUME PublisherInv, setup' = setup, sender' = sender,
         server.queues \subseteq server'.queues,
         pending' \ {"worker"} = pending \ {"worker"}, NEW u \in setup.senders
  PROVE  Risk(u)' \in Nat /\ Risk(u)' <= Risk(u) /\ Risk(u) \in Nat
<1>1. Stale(u)' = Stale(u) /\ (Trusts(u)' <=> Trusts(u))
  BY DEF Stale, Trusts
<1>2. Cardinality(Stale(u)') = Cardinality(Stale(u)) /\ Cardinality(Stale(u)) \in Nat
  BY <1>1, Teams
<1>3. Risk(u) \in Nat
  BY RiskBounds
<1>4. CASE "queue" \in server'.queues
  BY <1>3, <1>4 DEF Risk
<1>5. CASE "queue" \notin server'.queues
  BY <1>1, <1>2, <1>3, <1>5 DEF Risk
<1> QED BY <1>3, <1>4, <1>5

LEMMA WorkerLeaves ==
  ASSUME PublisherInv, PublisherInv', CallsInv, setup.worker,
         UNCHANGED <<setup, sender, link>>, server.queues \subseteq server'.queues,
         pending' \ {"worker"} = pending \ {"worker"},
         count'.deletions = count.deletions, count'.closes = count.closes,
         count.faults <= count'.faults
  PROVE  CallsInv'
<1>1. /\ count.faults \in Nat /\ count'.faults \in Nat
      /\ Faults \in Nat /\ Faults' \in Nat /\ Faults <= Faults'
  BY CallCounts, TypedAfter, CountersType DEF Faults
<1>2. \A u \in setup.senders : Budget(u)'
  <2> SUFFICES ASSUME NEW u \in setup.senders PROVE Budget(u)'
    OBVIOUS
  <2>1. Risk(u)' \in Nat /\ Risk(u)' <= Risk(u) /\ Risk(u) \in Nat
    BY SameRisk
  <2>2. Shut(u)' = Shut(u) /\ Shut(u) \in Nat
    BY DEF Shut, Closed
  <2>3. PICK x \in Nat : x = Team * count.deletions
    BY Teams, CallCounts
  <2>4. x = Team * count'.deletions
    BY <2>3
  <2>5. sender'[u] = sender[u]
    OBVIOUS
  <2>6. /\ Shut(u)' + Risk(u)' + Faults + x <= Shut(u) + Risk(u) + Faults' + x
        /\ Shut(u)' + Faults <= Shut(u) + Faults'
    BY <1>1, <2>1, <2>2
  <2> HIDE DEF Team, Faults
  <2> QED BY <1>1, <2>1, <2>3, <2>4, <2>5, <2>6, StillPays
<1>3. \A s \in Senders : HalfMade(link'[s]) => count'.faults > 0
  BY <1>1 DEF CallsInv
<1>4. \A s \in Senders : sender'[s].pc # "idle" => s \in setup'.senders
  BY DEF CallsInv
<1>5. NoWorker'
  BY DEF NoWorker
<1> QED BY <1>2, <1>3, <1>4, <1>5 DEF CallsInv

LEMMA WorkerRuns ==
  ASSUME CallsInv,
         ConsumerStep \/ (\E t \in Threads : ThreadStep(t)) \/ Disconnect \/ Crash
  PROVE  setup.worker
<1> SUFFICES ASSUME ~setup.worker PROVE FALSE
  OBVIOUS
<1>1. /\ consumer.pc = "top" /\ consumer.channel = "closed" /\ work = {}
      /\ \A t \in Threads : thread[t].pc = "idle"
  BY NoConsumerType DEF CallsInv, NoWorker
<1>2. ~ConsumerStep
  BY <1>1 DEF ConsumerStep, ConsumerTop, StartConsuming, Deliver, RunCallback, LeaveLoop,
              AwaitCallbacks, Close
<1>3. \A t \in Threads : ~ThreadStep(t)
  BY <1>1 DEF ThreadStep, Take, Process, Post
<1> QED BY <1>1, <1>2, <1>3 DEF Disconnect, Crash

LEMMA OtherEvents ==
  ASSUME PublisherInv
  PROVE  /\ \A kind \in {"faults", "pauses", "crashes"} : Counted(kind) =>
              /\ count'.deletions = count.deletions /\ count'.closes = count.closes
              /\ count.faults <= count'.faults
         /\ count' = count =>
              /\ count'.deletions = count.deletions /\ count'.closes = count.closes
              /\ count.faults <= count'.faults
BY Kinds, CallCounts DEF Events

LEMMA WorkerCalls ==
  ASSUME PublisherInv, PublisherInv', CallsInv,
         ConsumerStep \/ (\E t \in Threads : ThreadStep(t)) \/ Disconnect \/ Crash
  PROVE  CallsInv'
<1>1. setup.worker /\ server \in Servers
  BY WorkerRuns, Typed
<1>2. UNCHANGED <<setup, sender, link>>
  BY DEF ConsumerStep, ConsumerTop, StartConsuming, Deliver, RunCallback, LeaveLoop,
         AwaitCallbacks, Close, OutsideConsumer, ThreadStep, Take, Process, Post,
         OutsideThread, Disconnect, Crash
<1>3. server.queues \subseteq server'.queues
  <2>1. CASE ConsumerTop
    BY <1>1, <2>1 DEF ConsumerTop, Servers
  <2>2. CASE Deliver
    BY <1>1, <2>2 DEF Deliver, Servers
  <2>3. CASE RunCallback
    BY <1>1, <2>3 DEF RunCallback, Servers
  <2>4. CASE Close \/ Disconnect \/ Crash
    BY <1>1, <2>4 DEF Close, Disconnect, Crash, Returned, Servers
  <2>5. CASE StartConsuming \/ LeaveLoop \/ AwaitCallbacks
    BY <2>5 DEF StartConsuming, LeaveLoop, AwaitCallbacks
  <2>6. CASE \E t \in Threads : ThreadStep(t)
    BY <2>6 DEF ThreadStep, Take, Process, Post, OutsideThread
  <2> QED BY <2>1, <2>2, <2>3, <2>4, <2>5, <2>6 DEF ConsumerStep
<1>4. pending' \ {"worker"} = pending \ {"worker"}
  BY DEF ConsumerStep, ConsumerTop, StartConsuming, Deliver, RunCallback, LeaveLoop,
         AwaitCallbacks, Close, ThreadStep, Take, Process, Post, OutsideThread,
         Disconnect, Crash
<1>5. \/ count' = count
      \/ \E kind \in {"faults", "pauses", "crashes"} : Counted(kind)
  BY DEF ConsumerStep, ConsumerTop, StartConsuming, Deliver, RunCallback, LeaveLoop,
         AwaitCallbacks, Close, ThreadStep, Take, Process, Post, OutsideThread,
         Disconnect, Crash
<1>6. /\ count'.deletions = count.deletions /\ count'.closes = count.closes
      /\ count.faults <= count'.faults
  BY <1>5, OtherEvents
<1> QED BY <1>1, <1>2, <1>3, <1>4, <1>6, WorkerLeaves

(* A queue that disappears costs an attempt for each thread at most.       *)
LEMMA DeleteCalls ==
  ASSUME PublisherInv, PublisherInv', CallsInv, DeleteQueue
  PROVE  CallsInv'
<1>1. /\ UNCHANGED <<setup, job, sender, link, thread, work, pending>>
      /\ server \in Servers /\ server' = [server EXCEPT !.queues = @ \ {"queue"}]
      /\ server.ready = {}
  BY Typed DEF DeleteQueue, OutsideConsumer
<1>2. /\ server'.queues = server.queues \ {"queue"} /\ server'.ready = server.ready
      /\ server'.dead = server.dead /\ server'.unacked = server.unacked
  BY <1>1 DEF Servers
<1>3. /\ count'.faults = count.faults /\ count'.closes = count.closes
      /\ count'.deletions = count.deletions + 1
  BY Kinds DEF DeleteQueue, Events
<1>4. Faults' = Faults /\ Faults \in Nat
  BY <1>3, CallCounts DEF Faults
<1>5. \A u \in setup.senders : Budget(u)'
  <2> SUFFICES ASSUME NEW u \in setup.senders PROVE Budget(u)'
    OBVIOUS
  <2>1. Risk(u)' \in Nat /\ Risk(u)' <= Team /\ Risk(u) \in Nat
    <3>1. Stale(u)' = Stale(u)
      BY <1>1 DEF Stale
    <3>2. Risk(u)' = Cardinality(Stale(u)) + (IF Trusts(u)' THEN 1 ELSE 0)
      BY <1>2, <3>1 DEF Risk
    <3> QED BY <3>2, Teams, RiskBounds
  <2>2. Shut(u)' = Shut(u) /\ Shut(u) \in Nat
    BY <1>1 DEF Shut, Closed
  <2>3. PICK x \in Nat : x = Team * count.deletions
    BY Teams, CallCounts
  <2>4. Team \in Nat /\ x + Team = Team * count'.deletions /\ x + Team \in Nat
    BY <1>3, <2>3, Teams, CallCounts
  <2>5. /\ Shut(u)' + Risk(u)' + Faults + x <= Shut(u) + Risk(u) + Faults' + (x + Team)
        /\ Shut(u)' + Faults <= Shut(u) + Faults'
    BY <1>4, <2>1, <2>2, <2>4
  <2>6. sender'[u] = sender[u] /\ setup' = setup
    BY <1>1
  <2> QED BY <1>4, <2>1, <2>3, <2>4, <2>5, <2>6, StillPays
<1>6. NoWorker'
  <2> SUFFICES ASSUME ~setup'.worker PROVE NoWorker'
    BY DEF NoWorker
  <2>1. consumer' = NoConsumer
    BY <1>1, NoConsumerType DEF DeleteQueue, CallsInv, NoWorker
  <2>2. \A s \in Senders : Dropping(s)'
    <3> SUFFICES ASSUME NEW s \in Senders PROVE Dropping(s)'
      OBVIOUS
    <3>1. Dropping(s) /\ Used' = Used /\ sender'[s] = sender[s] /\ link'[s] = link[s]
      BY <1>1 DEF CallsInv, NoWorker, Used
    <3> QED BY <1>1, <1>2, <1>3, <3>1 DEF Dropping, Closed
  <2> QED BY <1>1, <1>2, <2>1, <2>2 DEF CallsInv, NoWorker
<1> QED BY <1>1, <1>3, <1>5, <1>6 DEF CallsInv

LEMMA CloseCalls ==
  ASSUME PublisherInv, CallsInv, CloseBroker, UNCHANGED inWorker
  PROVE  CallsInv'
<1>1. /\ UNCHANGED <<setup, server, pending, sender>> /\ PublisherInv' /\ SparesWorker
      /\ link \in [Senders -> SUBSET Linked]
  BY CloseBrokerStep, Typed DEF CloseBroker
<1>2. /\ count'.faults = count.faults /\ count'.closes = count.closes + 1
      /\ count'.deletions = count.deletions
  BY Kinds DEF CloseBroker, Events
<1>3. Faults' = Faults + 1 /\ Faults \in Nat /\ count'.closes > 0
  BY <1>2, CallCounts DEF Faults
<1>4. \A s \in Senders : link'[s] = link[s] \/ link'[s] = link[s] \ {"open"}
  BY DEF CloseBroker
<1>5. \A u \in setup.senders : Budget(u)'
  <2> SUFFICES ASSUME NEW u \in setup.senders PROVE Budget(u)'
    OBVIOUS
  <2>1. Risk(u)' \in Nat /\ Risk(u)' <= Risk(u) /\ Risk(u) \in Nat
    BY <1>1, SameRisk
  <2>2. Shut(u)' \in {0, 1} /\ Shut(u) \in {0, 1}
    BY DEF Shut
  <2>3. PICK x \in Nat : x = Team * count.deletions
    BY Teams, CallCounts
  <2>4. x = Team * count'.deletions
    BY <1>2, <2>3
  <2>5. /\ Shut(u)' + Risk(u)' + Faults + x <= Shut(u) + Risk(u) + Faults' + x
        /\ Shut(u)' + Faults <= Shut(u) + Faults' /\ Faults' \in Nat
    BY <1>3, <2>1, <2>2
  <2>6. sender'[u] = sender[u] /\ setup' = setup
    BY <1>1
  <2> QED BY <2>1, <2>3, <2>4, <2>5, <2>6, StillPays
<1>6. \A s \in Senders : HalfMade(link'[s]) => count'.faults > 0
  <2>1. \A s \in Senders : HalfMade(link'[s]) => HalfMade(link[s])
    BY <1>4 DEF HalfMade
  <2> QED BY <1>2, <2>1 DEF CallsInv
<1>7. NoWorker'
  <2> SUFFICES ASSUME ~setup'.worker PROVE NoWorker'
    BY DEF NoWorker
  <2>1. \A s \in Senders : Dropping(s)'
    <3> SUFFICES ASSUME NEW s \in Senders PROVE Dropping(s)'
      OBVIOUS
    <3>1. Dropping(s) /\ sender'[s] = sender[s] /\ count'.closes # 0
      BY <1>1, <1>3 DEF CallsInv, NoWorker
    <3> QED BY <1>1, <3>1, DroppingKept
  <2> QED BY <1>1, <2>1 DEF CallsInv, NoWorker, inWorker
<1> QED BY <1>1, <1>5, <1>6, <1>7 DEF CallsInv

-----------------------------------------------------------------------------
(* The calls end as they should.                                           *)

LEMMA EndsElse ==
  ASSUME NEW t \in Senders, sender'[t] = sender[t] PROVE EndsRight(t)
BY DEF EndsRight

LEMMA OneCalls ==
  ASSUME PublisherInv, PublisherInv', SparesWorker, CallsInv, UNCHANGED inWorker,
         NEW t \in Senders,
         \/ Flush(t) \/ Join(t) \/ SenderStep(t) \/ \E j \in Jobs : Enqueue(t, j)
  PROVE  CallsInv' /\ \A s \in Senders : EndsRight(s)
<1>1. Right(t)
  BY StartRight, EnsureQueueRight, DiscardRight, ConfirmedRight, PublishFailsRight,
     UnroutableRight, PurgeRight, PollRight DEF SenderStep, Publish
<1>2. CallsInv'
  BY <1>1, OwnKeeps DEF Right
<1>3. \A s \in Senders : EndsRight(s)
  BY <1>1, EndsElse DEF Right, Own
<1> QED BY <1>2, <1>3

LEMMA CallsPreserved ==
  IInv /\ CallsInv /\ [Next]_vars => CallsInv' /\ \A t \in Senders : EndsRight(t)
<1> SUFFICES ASSUME IInv, CallsInv, [Next]_vars
             PROVE  CallsInv' /\ \A t \in Senders : EndsRight(t)
  OBVIOUS
<1>1. PublisherInv /\ PublisherInv'
  BY NextPreserves DEF IInv
<1>2. CASE PublisherNext /\ UNCHANGED inWorker
  <2>1. SparesWorker
    BY <1>1, <1>2, PublisherStep
  <2>2. CASE CloseBroker
    BY <1>1, <1>2, <2>2, CloseCalls, EndsElse DEF CloseBroker
  <2>3. CASE ~CloseBroker
    BY <1>1, <1>2, <2>1, <2>3, OneCalls DEF PublisherNext
  <2> QED BY <2>2, <2>3
<1>3. CASE ConsumerStep \/ (\E t \in Threads : ThreadStep(t)) \/ Disconnect \/ Crash
  <2>1. sender' = sender
    BY <1>3 DEF ConsumerStep, ConsumerTop, StartConsuming, Deliver, RunCallback, LeaveLoop,
         AwaitCallbacks, Close, OutsideConsumer, ThreadStep, Take, Process, Post,
         OutsideThread, Disconnect, Crash
  <2> QED BY <1>1, <1>3, <2>1, WorkerCalls, EndsElse
<1>4. CASE DeleteQueue
  BY <1>1, <1>4, DeleteCalls, EndsElse DEF DeleteQueue, OutsideConsumer
<1>5. CASE UNCHANGED vars
  <2>1. /\ UNCHANGED <<setup, server, job, pending, sender, link, count>>
        /\ UNCHANGED <<consumer, work, thread>>
    BY <1>5 DEF vars, inWorker
  <2>2. \A t : Stale(t)' = Stale(t) /\ Trusts(t)' = Trusts(t) /\ Shut(t)' = Shut(t)
    BY <2>1 DEF Stale, Trusts, Shut, Closed
  <2>3. \A t : Risk(t)' = Risk(t)
    BY <2>1, <2>2 DEF Risk
  <2>4. Faults' = Faults /\ Team' = Team
    BY <2>1 DEF Faults, Team
  <2>5. \A t \in setup.senders : Budget(t)'
    BY <2>1, <2>2, <2>3, <2>4 DEF CallsInv, Budget
  <2>6. \A t \in Senders : Dropping(t)' = Dropping(t)
    BY <2>1 DEF Dropping, Closed, Used
  <2>7. NoWorker'
    BY <2>1, <2>6 DEF CallsInv, NoWorker
  <2> QED BY <2>1, <2>5, <2>7, EndsElse DEF CallsInv
<1> QED BY <1>2, <1>3, <1>4, <1>5 DEF Next

LEMMA CallsInit == Init => CallsInv
<1> SUFFICES ASSUME Init PROVE CallsInv
  OBVIOUS
<1>1. IInv /\ PublisherInv
  BY InitHolds DEF IInv
<1>2. /\ \A t \in Senders : /\ sender[t].pc = "idle" /\ sender[t].attempts = 0
                            /\ sender[t].declares = 0 /\ link[t] = {}
      /\ setup.old \subseteq Ids
  BY <1>1, PublisherAssumption DEF Init, PublisherInit, NoCall
<1>3. count.faults = 0 /\ count.closes = 0 /\ count.deletions = 0
  BY DEF Init, PublisherInit, Events
<1>4. \A t \in setup.senders : Budget(t)
  <2> SUFFICES ASSUME NEW t \in setup.senders PROVE Budget(t)
    OBVIOUS
  <2>1. t \in Senders /\ Team \in Nat
    BY <1>1, Teams
  <2>2. Shut(t) = 0
    BY <1>2, <2>1 DEF Shut, Closed
  <2>3. Risk(t) = 0
    <3>1. "publisher" \in pending
      BY DEF Init, PublisherInit
    <3>2. ~Trusts(t)
      BY <1>2, <2>1, <3>1 DEF Trusts
    <3>3. Stale(t) = {}
      BY <1>1, <1>2, Teams DEF Stale
    <3>4. Cardinality(Stale(t)) = 0
      BY <3>3, FS_EmptySet
    <3> QED BY <3>2, <3>4 DEF Risk
  <2>4. Team * count.deletions = 0 /\ Faults = 0
    BY <1>3, <2>1 DEF Faults
  <2> QED BY <1>2, <2>1, <2>2, <2>3, <2>4 DEF Budget
<1>5. NoWorker
  <2>1. \A t \in Threads : thread[t].pc = "idle"
    BY DEF Init, NoThread
  <2>2. /\ server.ready = {} /\ server.unacked = {} /\ server.dead = setup.old
        /\ setup.old # {} => "dead" \in server.queues
    BY DEF Init, PublisherInit, Queues, Names
  <2>3. \A t \in Senders : Dropping(t)
    BY <1>2 DEF Dropping
  <2> QED BY <2>1, <2>2, <2>3 DEF Init, NoWorker
<1>6. \A t \in Senders : ~HalfMade(link[t])
  BY <1>2 DEF HalfMade
<1> QED BY <1>2, <1>4, <1>5, <1>6 DEF CallsInv

(* A call does what it says or has a reason not to, for any number of threads
   and any interleaving with the errors, close() and the deletions of the
   queue: an enqueue() that raises ConnectionClosed has spent its attempts on
   them, of which a deletion costs it one for each thread, a KeyError follows
   an error before the channel was recorded, and a flush() that returns has
   dropped what lay in the queues unless the broker was closed.            *)
THEOREM CallsAlwaysHold == Spec => CallsHold
<1>1. IInv /\ CallsInv /\ [Next]_vars => CallsInv'
  BY CallsPreserved
<1>2. IInv /\ CallsInv /\ [Next]_vars => [\A t \in Senders : EndsRight(t)]_vars
  BY CallsPreserved
<1> QED BY <1>1, <1>2, CallsInit, Inductive, PTL DEF Spec, CallsHold, EndsRight
=============================================================================
