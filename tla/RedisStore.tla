----------------------------- MODULE RedisStore -----------------------------
(***************************************************************************)
(* The script that every command of the Redis broker runs inside the       *)
(* server (brokers/redis/dispatch.lua).  The script is atomic, so it is    *)
(* given here as functions from stores to stores: the caller's heartbeat,  *)
(* then maintenance when the caller drew it, then the command proper.      *)
(*                                                                         *)
(* Times are kept as ages (now minus the timestamp the server stores), so  *)
(* that the state space is finite while time never stops.  The clients     *)
(* read one clock, and the time a client reads as it sends a command       *)
(* (redis.py:258) is taken to be the time at which the script runs.        *)
(***************************************************************************)
EXTENDS Integers, FiniteSets, SequencesExt

CONSTANTS
  Workers,           \* broker ids: worker processes, and producers
  QueueNames,        \* queue names, the delay queues included
  Canonical,         \* the queue whose dead letters a queue's messages join
  Ids,               \* redis_message_ids: the uuid4s that can be drawn
  HeartbeatTimeout,  \* age at which a heartbeat is too old
  DeadMessageTTL     \* age at which a dead letter is dropped

ASSUME IdsAssumption == IsFiniteSet(Ids)
ASSUME CanonicalAssumption == /\ Canonical \in [QueueNames -> QueueNames]
                              /\ \A q \in QueueNames :
                                   Canonical[Canonical[q]] = Canonical[q]
ASSUME TimesAssumption == /\ HeartbeatTimeout \in Nat \ {0}
                          /\ DeadMessageTTL \in Nat \ {0}

Never == -1  \* the age of a member a sorted set does not have

(* The keys of the namespace: $queue, $queue.msgs, __acks__.$worker.$queue,
   __heartbeats__, $queue.XQ and $queue.XQ.msgs.                           *)
Store == [list       : [QueueNames -> Seq(Ids)],
          msgs       : [QueueNames -> SUBSET Ids],
          acks       : [Workers -> [QueueNames -> SUBSET Ids]],
          heartbeats : [Workers -> Never .. HeartbeatTimeout],
          xq         : [QueueNames -> [Ids -> Never .. DeadMessageTTL]],
          xqMsgs     : [QueueNames -> SUBSET Ids]]

EmptyStore ==
  [list       |-> [q \in QueueNames |-> <<>>],
   msgs       |-> [q \in QueueNames |-> {}],
   acks       |-> [w \in Workers |-> [q \in QueueNames |-> {}]],
   heartbeats |-> [w \in Workers |-> Never],
   xq         |-> [q \in QueueNames |-> [id \in Ids |-> Never]],
   xqMsgs     |-> [q \in QueueNames |-> {}]]

Acked(s, q) == {id \in Ids : \E w \in Workers : id \in s.acks[w][q]}
Dead(s) == {w \in Workers : s.heartbeats[w] >= HeartbeatTimeout}

(* Every order in which the members of a set can be pushed on a list.      *)
Orders(S) == {o \in SetToSeqs(S) : ToSet(o) = S}

-----------------------------------------------------------------------------
(* The script.                                                             *)

Heartbeat(s, w) == [s EXCEPT !.heartbeats[w] = 0]

(* Mutant: a message is handed back without asking whether it still exists. *)
OrphansUnchecked(s, q) == {id \in Ids : \E d \in Dead(s) : id \in s.acks[d][q]}

(* Maintenance first hands the messages that dead workers hold of this
   queue back to the queue; the ids whose message is gone are dropped.     *)
Orphans(s, q) == {id \in s.msgs[q] : \E d \in Dead(s) : id \in s.acks[d][q]}

AcksLeft(s, q) ==
  [w \in Workers |->
     IF w \in Dead(s) THEN [s.acks[w] EXCEPT ![q] = {}] ELSE s.acks[w]]

(* Mutant: a dead worker is forgotten whatever it holds of other queues.   *)
HeartbeatsDropped(s, q) ==
  [w \in Workers |-> IF w \in Dead(s) THEN Never ELSE s.heartbeats[w]]

(* A dead worker is forgotten once it has no acks on any queue.            *)
HeartbeatsLeft(s, q) ==
  [w \in Workers |->
     IF w \in Dead(s) /\ \A p \in QueueNames : AcksLeft(s, q)[w][p] = {}
     THEN Never ELSE s.heartbeats[w]]

Expired(s, x) == {id \in Ids : s.xq[x][id] >= DeadMessageTTL}

Maintained(s, q, order) ==
  [s EXCEPT !.list[q] = @ \o order,
            !.acks = AcksLeft(s, q),
            !.heartbeats = HeartbeatsLeft(s, q),
            !.xq[Canonical[q]] = [id \in Ids |->
               IF id \in Expired(s, Canonical[q]) THEN Never ELSE @[id]],
            !.xqMsgs[Canonical[q]] = @ \ Expired(s, Canonical[q])]

(* Mutant: the caller's heartbeat counts only after maintenance.            *)
PrologueLate(s, w, q, doMaintenance) ==
  IF doMaintenance
  THEN {Heartbeat(Maintained(s, q, order), w) : order \in Orders(Orphans(s, q))}
  ELSE {Heartbeat(s, w)}

(* The stores that w's command on q may find after the script's prologue.  *)
Prologue(s, w, q, doMaintenance) ==
  LET t == Heartbeat(s, w)
  IN  IF doMaintenance
      THEN {Maintained(t, q, order) : order \in Orders(Orphans(t, q))}
      ELSE {t}

Enqueued(s, q, id) == [s EXCEPT !.msgs[q] = @ \cup {id},
                                !.list[q] = Append(@, id)]

(* fetch pops up to n ids; the broker receives those that have a message.  *)
Popped(s, q, n) == SubSeq(s.list[q], 1, IF n < Len(s.list[q]) THEN n
                                        ELSE Len(s.list[q]))
Delivered(s, q, n) == ToSet(Popped(s, q, n)) \cap s.msgs[q]
Fetched(s, w, q, n) ==
  [s EXCEPT !.list[q] = SubSeq(@, Len(Popped(s, q, n)) + 1, Len(@)),
            !.acks[w][q] = @ \cup ToSet(Popped(s, q, n))]

(* Mutant: requeue does not ask whether the worker still holds the id.     *)
ReturnableUnchecked(s, w, q, ids) == ids \cap s.msgs[q]

(* Mutant: what is given back goes ahead of what is queued.                *)
RequeuedFirst(s, w, q, ids, order) == [s EXCEPT !.acks[w][q] = @ \ ids,
                                                !.list[q] = order \o @]

(* requeue ignores the ids the worker no longer holds in its acks.         *)
Returnable(s, w, q, ids) == ids \cap s.acks[w][q] \cap s.msgs[q]
Requeued(s, w, q, ids, order) == [s EXCEPT !.acks[w][q] = @ \ ids,
                                           !.list[q] = @ \o order]

(* Mutant: ack deletes the message even if another worker holds it by now. *)
AcknowledgedUnchecked(s, w, q, id) ==
  [s EXCEPT !.acks[w][q] = @ \ {id}, !.msgs[q] = @ \ {id}]

Acknowledged(s, w, q, id) ==
  IF id \in s.acks[w][q]
  THEN [s EXCEPT !.acks[w][q] = @ \ {id}, !.msgs[q] = @ \ {id}]
  ELSE s

Nacked(s, w, q, id) ==
  IF id \notin s.acks[w][q] THEN s
  ELSE IF id \notin s.msgs[q] THEN [s EXCEPT !.acks[w][q] = @ \ {id}]
  ELSE [s EXCEPT !.acks[w][q] = @ \ {id},
                 !.msgs[q] = @ \ {id},
                 !.xq[Canonical[q]][id] = 0,
                 !.xqMsgs[Canonical[q]] = @ \cup {id}]

Purged(s, w, q) ==
  [s EXCEPT !.list[q] = <<>>,
            !.acks[w][q] = {},
            !.msgs[q] = {},
            !.xq[Canonical[q]] = [id \in Ids |-> Never],
            !.xqMsgs[Canonical[q]] = {}]

(* qsize counts the messages of a queue and of its delay queue, and the
   caller's own acks a second time.                                        *)
Qsize(s, w, q) ==
  MapThenSumSet(LAMBDA p : Cardinality(s.msgs[p]) + Cardinality(s.acks[w][p]),
                {p \in QueueNames : Canonical[p] = Canonical[q]})

-----------------------------------------------------------------------------
(* What every store satisfies; RedisQueue says why it matters.             *)

Stranded(s, q) == s.msgs[q] \ (ToSet(s.list[q]) \cup Acked(s, q))

InOnePlace(s, q) ==
  /\ IsInjective(s.list[q])
  /\ ToSet(s.list[q]) \cap Acked(s, q) = {}
  /\ \A v, w \in Workers : v # w => s.acks[v][q] \cap s.acks[w][q] = {}

Heartbeating(s) ==
  \A w \in Workers, q \in QueueNames :
    s.acks[w][q] # {} => s.heartbeats[w] # Never

Apart(s, x) ==
  /\ s.xqMsgs[x] = {id \in Ids : s.xq[x][id] # Never}
  /\ \A q \in QueueNames : s.xqMsgs[x] \cap s.msgs[q] = {}

(* h is the queue each message was enqueued on.                            *)
Homed(s, h, q) ==
  /\ \A id \in s.msgs[q] \cup Acked(s, q) : h[id] = q
  /\ \A id \in s.xqMsgs[q] : h[id] \in QueueNames /\ Canonical[h[id]] = q

Consistent(s, h) ==
  /\ \A q \in QueueNames : /\ Stranded(s, q) = {}
                            /\ ToSet(s.list[q]) \subseteq s.msgs[q]
                            /\ InOnePlace(s, q)
                            /\ Apart(s, q)
                            /\ Homed(s, h, q)
  /\ Heartbeating(s)
=============================================================================
