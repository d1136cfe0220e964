----------------------------- MODULE RedisQueue -----------------------------
(***************************************************************************)
(* The queues of the Redis broker (brokers/redis.py) as the brokers of     *)
(* several processes use them: producers that enqueue, workers that fetch, *)
(* settle and give back messages, processes that crash, connections that   *)
(* fail, and maintenance that recovers the messages of dead workers.  What *)
(* a worker process does with the messages it holds is in Worker.          *)
(***************************************************************************)
EXTENDS RedisStore

CONSTANTS
  NoQueue,
  Mortal,            \* the broker ids whose process may crash
  Prefetch,          \* messages a broker may hold of a queue
  Lossy,             \* whether connections to the server may fail
  Punctual           \* whether brokers that run heartbeat in time

ASSUME ClientAssumption == /\ Mortal \subseteq Workers
                           /\ NoQueue \notin QueueNames
                           /\ Prefetch \in Nat \ {0}
                           /\ Lossy \in BOOLEAN
                           /\ Punctual \in BOOLEAN

VARIABLES
  store,  \* what the Redis server holds
  alive,  \* the broker ids whose process runs
  held,   \* per broker and queue, the ids it was handed and has not settled
  home    \* the queue each redis_message_id was drawn for, or NoQueue

vars == <<store, alive, held, home>>

Init ==
  /\ store = EmptyStore
  /\ alive = Workers
  /\ held = [w \in Workers |-> [q \in QueueNames |-> {}]]
  /\ home = [id \in Ids |-> NoQueue]

(* A command runs in the server; its reply may then be lost with the
   connection, and the client sees a ConnectionError.                      *)
Replies == IF Lossy THEN {TRUE, FALSE} ELSE {TRUE}

(* Commands other than ack and nack may draw maintenance.                  *)
Prologues(w, q) == UNION {Prologue(store, w, q, m) : m \in BOOLEAN}

Enqueue(w, q) ==
  /\ w \in alive
  /\ \E id \in Ids, s \in Prologues(w, q) :
       /\ home[id] = NoQueue
       /\ home' = [home EXCEPT ![id] = q]
       /\ store' = Enqueued(s, q, id)
  /\ UNCHANGED <<alive, held>>

FetchFrom(w, q, s) ==
  LET n == Prefetch - Cardinality(held[w][q])
  IN  /\ n > 0
      /\ store' = Fetched(s, w, q, n)
      /\ \E reply \in Replies :
           held' = IF reply THEN [held EXCEPT ![w][q] = @ \cup Delivered(s, q, n)]
                   ELSE held

Fetch(w, q) ==
  /\ w \in alive
  /\ \E s \in Prologues(w, q) : FetchFrom(w, q, s)
  /\ UNCHANGED <<alive, home>>

Settle(w, q, id) ==
  /\ \E reply \in Replies :
       held' = IF reply THEN [held EXCEPT ![w][q] = @ \ {id}] ELSE held
  /\ UNCHANGED <<alive, home>>

Ack(w, q, id) ==
  /\ w \in alive
  /\ id \in held[w][q]
  /\ store' = Acknowledged(Heartbeat(store, w), w, q, id)
  /\ Settle(w, q, id)

Nack(w, q, id) ==
  /\ w \in alive
  /\ id \in held[w][q]
  /\ store' = Nacked(Heartbeat(store, w), w, q, id)
  /\ Settle(w, q, id)

(* A consumer that closes returns messages it has not handed to a worker;
   it forgets them whether or not the reply arrives.                       *)
Requeue(w, q) ==
  /\ w \in alive
  /\ \E ids \in (SUBSET held[w][q]) \ {{}} :
       /\ held' = [held EXCEPT ![w][q] = @ \ ids]
       /\ \E s \in Prologues(w, q) :
            \E order \in Orders(Returnable(s, w, q, ids)) :
              store' = Requeued(s, w, q, ids, order)
  /\ UNCHANGED <<alive, home>>

(* A consumer whose connection fails drops what it holds.                  *)
Forget(w, q) ==
  /\ Lossy
  /\ w \in alive
  /\ held[w][q] # {}
  /\ held' = [held EXCEPT ![w][q] = {}]
  /\ UNCHANGED <<store, alive, home>>

Purge(w, q) ==
  /\ w \in alive
  /\ \E s \in Prologues(w, q) : store' = Purged(s, w, q)
  /\ UNCHANGED <<alive, held, home>>

(* join polls qsize until it is zero.                                      *)
Poll(w, q) ==
  /\ w \in alive
  /\ store' \in Prologues(w, q)
  /\ UNCHANGED <<alive, held, home>>

Crash(w) ==
  /\ w \in alive \cap Mortal
  /\ alive' = alive \ {w}
  /\ held' = [held EXCEPT ![w] = [q \in QueueNames |-> {}]]
  /\ UNCHANGED <<store, home>>

(* Time passes; ages stop at the bound past which they all mean the same.
   Nothing in the code keeps a running broker's heartbeat fresh but its own
   commands; Punctual is the assumption that these come in time.           *)
Older(age, bound) == IF age \in 0 .. bound - 1 THEN age + 1 ELSE age

Tick ==
  /\ Punctual => \A w \in alive : store.heartbeats[w] < HeartbeatTimeout - 1
  /\ store' = [store EXCEPT
       !.heartbeats = [w \in Workers |-> Older(@[w], HeartbeatTimeout)],
       !.xq = [q \in QueueNames |->
                 [id \in Ids |-> Older(@[q][id], DeadMessageTTL)]]]
  /\ UNCHANGED <<alive, held, home>>

Next ==
  \/ \E w \in Workers, q \in QueueNames :
       \/ Enqueue(w, q)
       \/ Fetch(w, q)
       \/ \E id \in Ids : Ack(w, q, id) \/ Nack(w, q, id)
       \/ Requeue(w, q)
       \/ Forget(w, q)
       \/ Purge(w, q)
       \/ Poll(w, q)
  \/ \E w \in Workers : Crash(w)
  \/ Tick

Spec == Init /\ [][Next]_vars

-----------------------------------------------------------------------------
(* Properties.                                                             *)

TypeOK ==
  /\ store \in Store
  /\ alive \subseteq Workers
  /\ held \in [Workers -> [QueueNames -> SUBSET Ids]]
  /\ home \in [Ids -> QueueNames \cup {NoQueue}]

(* No message is stranded: whatever the script did, in whatever order, a
   message in $queue.msgs has its id in the queue's list or in the acks of
   some worker, so that a fetch, an ack or maintenance can still reach it. *)
NothingStranded == \A q \in QueueNames : Stranded(store, q) = {}

(* A list holds only ids whose message exists, so that a fetch never
   returns the None that the consumer logs as a bug (redis.py:340).        *)
NoneFetched ==
  \A q \in QueueNames : ToSet(store.list[q]) \subseteq store.msgs[q]

(* An id is in one place: once in the list of its queue, or in the acks of
   one worker.  This is what keeps two live workers from being handed the
   same message while the first one's heartbeat is fresh.                  *)
OnePlace == \A q \in QueueNames : InOnePlace(store, q)

(* A worker that has acks on any queue has a heartbeat, so that maintenance
   on that queue will find it when it is dead: the heartbeat must not be
   dropped by the maintenance of another queue (dispatch.lua:126-131).     *)
AcksHaveHeartbeat == Heartbeating(store)

(* A dead letter has both its age and its message, and is no longer a
   message of a queue or of its delay queue.                               *)
DeadLettersApart == \A x \in QueueNames : Apart(store, x)

(* The messages, the acks and the dead letters of a queue are of messages
   that were enqueued there.                                               *)
AtHome == \A q \in QueueNames : Homed(store, home, q)

(* The store is consistent, whatever commands came in whatever order.      *)
Safety == /\ TypeOK
          /\ NothingStranded
          /\ NoneFetched
          /\ OnePlace
          /\ AcksHaveHeartbeat
          /\ DeadLettersApart
          /\ AtHome

(* A settled message is settled for good: once an id's message is gone, no
   late ack, requeue, maintenance or retry brings it back.                 *)
SettledForGood ==
  [][\A q \in QueueNames :
       \A id \in store'.msgs[q] \cup ToSet(store'.list[q]) :
         home[id] = NoQueue \/ id \in store.msgs[q]]_vars

(* A worker loses an ack it holds only when its heartbeat has become too
   old, to a command of another worker: until then no other worker is given
   the message.  Its own commands cost it only what it settles or gives
   back, however late they are: the heartbeat they bring counts before the
   maintenance they do (dispatch.lua:106).                                 *)
OnlyTheDeadLoseAcks ==
  [][\A w \in Workers, q \in QueueNames :
       \A id \in store.acks[w][q] \ store'.acks[w][q] :
         IF store'.heartbeats[w] = 0
         THEN id \notin store'.msgs[q] \/ id \notin held'[w][q]
         ELSE store.heartbeats[w] = HeartbeatTimeout]_vars

(* Messages leave a list in the order in which they joined it: what a step
   takes off the list it takes from the head, the others stay as they were,
   and what it puts on the list, new or given back, goes behind them.      *)
FirstInFirstOut(old, new) ==
  \E taken \in 0 .. Len(old) :
    LET stay == Len(old) - taken IN
    /\ stay <= Len(new)
    /\ \A i \in 1 .. stay : new[i] = old[taken + i]
    /\ \A i \in stay + 1 .. Len(new) : new[i] \notin ToSet(old)
InOrder ==
  [][\A q \in QueueNames : FirstInFirstOut(store.list[q], store'.list[q])]_vars

(* The store implements the promise of MessageQueue.                       *)
Status(id) ==
  IF home[id] = NoQueue THEN "unsent"
  ELSE IF id \in store.msgs[home[id]] THEN "stored"
  ELSE IF id \in store.xqMsgs[Canonical[home[id]]] THEN "dead"
  ELSE "gone"
Holder(id) == IF Status(id) = "stored"
              THEN {w \in Workers : id \in store.acks[w][home[id]]} ELSE {}

Promise == INSTANCE MessageQueue
  WITH Consumers <- Workers, Queues <- QueueNames,
       status <- [id \in Ids |-> Status(id)],
       holder <- [id \in Ids |-> Holder(id)],
       lapsed <- Dead(store)

(* Every command is a step of the promise: no message is lost, held twice,
   taken from a worker in good standing, or brought back once settled.     *)
KeepsPromise == Promise!Spec

(* Every worker that runs settles what it holds and keeps sending commands
   (a consumer polls at least every worker_timeout).  A worker that never
   crashes keeps polling its queues, draws maintenance now and then (the
   chance is one in a thousand per command), is not always beaten to the
   messages by the others, and is not always closed before it settles a
   message that it is handed again and again.                              *)
MaintainingFetch(w, q) ==
  /\ w \in alive
  /\ \E s \in Prologue(store, w, q, TRUE) : FetchFrom(w, q, s)
  /\ UNCHANGED <<alive, home>>
ProductiveFetch(w, q) == store.list[q] # <<>> /\ Fetch(w, q)

Fairness ==
  /\ \A w \in Workers, q \in QueueNames, id \in Ids : WF_vars(Ack(w, q, id))
  /\ \A w \in Workers : WF_vars(\E q \in QueueNames : Poll(w, q))
  /\ \A w \in Workers \ Mortal, q \in QueueNames :
       /\ SF_vars(MaintainingFetch(w, q))
       /\ SF_vars(ProductiveFetch(w, q))
       /\ \A id \in Ids : SF_vars(Ack(w, q, id))
  /\ WF_vars(Tick)

FairSpec == Spec /\ Fairness

(* Every message that is enqueued is settled in the end, through crashes
   of the workers that fetched it (at-least-once delivery).                *)
EventuallySettled ==
  \A q \in QueueNames, id \in Ids :
    id \in store.msgs[q] ~> id \notin store.msgs[q]
=============================================================================
