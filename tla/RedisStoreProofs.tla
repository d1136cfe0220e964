--------------------------- MODULE RedisStoreProofs ---------------------------
(***************************************************************************)
(* Proofs about the operators of RedisStore: the lists, and what each      *)
(* command changes in the store, for any workers, queues and messages.     *)
(***************************************************************************)
EXTENDS RedisStore, FiniteSetTheorems, TLAPS

(* The elements of a sequence that grows at its end.                       *)
LEMMA AppendFacts ==
  ASSUME NEW S, NEW l \in Seq(S), NEW x \in S
  PROVE  /\ Append(l, x) \in Seq(S)
         /\ ToSet(Append(l, x)) = ToSet(l) \cup {x}
         /\ IsInjective(l) /\ x \notin ToSet(l) => IsInjective(Append(l, x))
<1> DEFINE a == Append(l, x)
<1>1. /\ a \in Seq(S)
      /\ Len(a) = Len(l) + 1
      /\ \A i \in 1 .. Len(l) : a[i] = l[i]
      /\ a[Len(l) + 1] = x
  OBVIOUS
<1>2. DOMAIN a = 1 .. Len(l) + 1 /\ DOMAIN l = 1 .. Len(l) /\ Len(l) \in Nat
  BY <1>1
<1> HIDE DEF a
<1>3. ToSet(a) \subseteq ToSet(l) \cup {x}
  BY <1>1, <1>2 DEF ToSet
<1>4. ToSet(l) \cup {x} \subseteq ToSet(a)
  <2>1. x \in ToSet(a)
    BY <1>1, <1>2 DEF ToSet
  <2>2. ASSUME NEW i \in 1 .. Len(l) PROVE l[i] \in ToSet(a)
    BY <1>1, <1>2 DEF ToSet
  <2> QED BY <1>2, <2>1, <2>2 DEF ToSet
<1>5. IsInjective(l) /\ x \notin ToSet(l) => IsInjective(a)
  BY <1>1, <1>2 DEF ToSet, IsInjective
<1> QED BY <1>1, <1>3, <1>4, <1>5 DEF a

LEMMA ConcatFacts ==
  ASSUME NEW S, NEW l \in Seq(S), NEW o \in Seq(S)
  PROVE  /\ l \o o \in Seq(S)
         /\ ToSet(l \o o) = ToSet(l) \cup ToSet(o)
         /\ IsInjective(l) /\ IsInjective(o) /\ ToSet(l) \cap ToSet(o) = {}
              => IsInjective(l \o o)
<1> DEFINE c == l \o o
<1>1. /\ c \in Seq(S)
      /\ Len(c) = Len(l) + Len(o)
      /\ \A i \in 1 .. Len(l) : c[i] = l[i]
      /\ \A i \in 1 .. Len(o) : c[Len(l) + i] = o[i]
  OBVIOUS
<1>2. /\ DOMAIN c = 1 .. Len(l) + Len(o) /\ DOMAIN l = 1 .. Len(l)
      /\ DOMAIN o = 1 .. Len(o) /\ Len(l) \in Nat /\ Len(o) \in Nat
  BY <1>1
<1> HIDE DEF c
<1>3. \A k \in DOMAIN c : k \in 1 .. Len(l) \/ k - Len(l) \in 1 .. Len(o)
  BY <1>2
<1>4. \A k \in DOMAIN c \ DOMAIN l : c[k] = o[k - Len(l)]
  <2> TAKE k \in DOMAIN c \ DOMAIN l
  <2>1. k - Len(l) \in 1 .. Len(o) /\ Len(l) + (k - Len(l)) = k
    BY <1>2
  <2> QED BY <1>1, <2>1
<1>5. ToSet(c) \subseteq ToSet(l) \cup ToSet(o)
  BY <1>1, <1>2, <1>3, <1>4 DEF ToSet
<1>6. ToSet(l) \cup ToSet(o) \subseteq ToSet(c)
  <2>1. ASSUME NEW i \in 1 .. Len(l) PROVE l[i] \in ToSet(c)
    BY <1>1, <1>2 DEF ToSet
  <2>2. ASSUME NEW i \in 1 .. Len(o) PROVE o[i] \in ToSet(c)
    <3>1. Len(l) + i \in DOMAIN c
      BY <1>2
    <3> QED BY <1>1, <3>1 DEF ToSet
  <2> QED BY <1>2, <2>1, <2>2 DEF ToSet
<1>7. ASSUME IsInjective(l), IsInjective(o), ToSet(l) \cap ToSet(o) = {},
             NEW i \in DOMAIN c, NEW j \in DOMAIN c, c[i] = c[j]
      PROVE  i = j
  <2>1. CASE i \in DOMAIN l /\ j \in DOMAIN l
    BY <1>1, <1>2, <1>7, <2>1 DEF IsInjective
  <2>2. CASE i \notin DOMAIN l /\ j \notin DOMAIN l
    <3>1. o[i - Len(l)] = o[j - Len(l)]
      BY <1>4, <1>7, <2>2
    <3>2. i - Len(l) \in DOMAIN o /\ j - Len(l) \in DOMAIN o
      BY <1>2, <1>3, <2>2
    <3>3. i - Len(l) = j - Len(l)
      BY <1>7, <3>1, <3>2 DEF IsInjective
    <3> QED BY <1>2, <3>3
  <2>3. ASSUME NEW u \in DOMAIN l, NEW v \in DOMAIN c \ DOMAIN l, c[u] = c[v]
        PROVE  FALSE
    <3>1. l[u] \in ToSet(l) /\ v - Len(l) \in DOMAIN o
      BY <1>2, <1>3 DEF ToSet
    <3>2. o[v - Len(l)] \in ToSet(o)
      BY <3>1 DEF ToSet
    <3>3. l[u] = o[v - Len(l)]
      BY <1>1, <1>2, <1>4, <2>3
    <3> QED BY <1>7, <3>1, <3>2, <3>3
  <2> QED BY <1>7, <2>1, <2>2, <2>3
<1> QED BY <1>1, <1>5, <1>6, <1>7 DEF IsInjective, c

LEMMA SplitFacts ==
  ASSUME NEW S, NEW l \in Seq(S), NEW k \in 0 .. Len(l)
  PROVE  LET p == SubSeq(l, 1, k)
             r == SubSeq(l, k + 1, Len(l))
         IN  /\ p \in Seq(S) /\ r \in Seq(S) /\ Len(p) = k
             /\ ToSet(l) = ToSet(p) \cup ToSet(r)
             /\ IsInjective(l) => ToSet(p) \cap ToSet(r) = {} /\ IsInjective(r)
<1> DEFINE p == SubSeq(l, 1, k)
           r == SubSeq(l, k + 1, Len(l))
<1>1. /\ p \in Seq(S) /\ r \in Seq(S) /\ Len(p) = k /\ Len(r) = Len(l) - k
      /\ \A i \in 1 .. k : p[i] = l[i]
      /\ \A i \in 1 .. Len(l) - k : r[i] = l[k + i]
  OBVIOUS
<1>2. /\ DOMAIN p = 1 .. k /\ DOMAIN r = 1 .. Len(l) - k
      /\ DOMAIN l = 1 .. Len(l) /\ Len(l) \in Nat
  BY <1>1
<1> HIDE DEF p, r
<1>3. ToSet(p) \subseteq ToSet(l)
  BY <1>1, <1>2 DEF ToSet
<1>4. \A i \in DOMAIN r : k + i \in DOMAIN l /\ r[i] = l[k + i]
  BY <1>1, <1>2
<1>5. ToSet(r) \subseteq ToSet(l)
  BY <1>4 DEF ToSet
<1>6. ASSUME NEW i \in DOMAIN l PROVE l[i] \in ToSet(p) \cup ToSet(r)
  <2>1. CASE i <= k
    BY <1>1, <1>2, <2>1 DEF ToSet
  <2>2. CASE i > k
    <3>1. i - k \in DOMAIN r /\ k + (i - k) = i
      BY <1>2, <2>2
    <3> QED BY <1>4, <3>1 DEF ToSet
  <2> QED BY <1>2, <2>1, <2>2
<1>7. ASSUME IsInjective(l) PROVE ToSet(p) \cap ToSet(r) = {} /\ IsInjective(r)
  <2>1. ASSUME NEW i \in DOMAIN p, NEW j \in DOMAIN r, p[i] = r[j] PROVE FALSE
    <3>1. i \in DOMAIN l /\ l[i] = l[k + j] /\ k + j \in DOMAIN l /\ i # k + j
      BY <1>1, <1>2, <1>4, <2>1
    <3> QED BY <1>7, <3>1 DEF IsInjective
  <2>2. ASSUME NEW i \in DOMAIN r, NEW j \in DOMAIN r, r[i] = r[j] PROVE i = j
    <3>1. k + i = k + j
      BY <1>4, <1>7, <2>2 DEF IsInjective
    <3> QED BY <1>2, <3>1
  <2> QED BY <2>1, <2>2 DEF ToSet, IsInjective
<1>8. ToSet(l) \subseteq ToSet(p) \cup ToSet(r)
  BY <1>6 DEF ToSet
<1> QED BY <1>1, <1>3, <1>5, <1>7, <1>8 DEF p, r

LEMMA OrderFacts ==
  ASSUME NEW S \in SUBSET Ids, NEW o \in Orders(S)
  PROVE  o \in Seq(Ids) /\ ToSet(o) = S /\ IsInjective(o)
<1>1. IsFiniteSet(S)
  BY IdsAssumption, FS_Subset
<1>2. Cardinality(S) \in Nat
  BY <1>1, FS_CardinalityType
<1> QED BY <1>2 DEF Orders, SetToSeqs, ToSet, IsInjective

-----------------------------------------------------------------------------
(* The commands, queue by queue.                                           *)

LEMMA StoreTypes ==
  ASSUME NEW s \in Store, NEW q \in QueueNames
  PROVE  /\ s.list[q] \in Seq(Ids)
         /\ ToSet(s.list[q]) \subseteq Ids
         /\ s.msgs[q] \subseteq Ids
         /\ \A w \in Workers : s.acks[w][q] \subseteq Ids
         /\ s.xq[q] \in [Ids -> Never .. DeadMessageTTL]
         /\ s.xqMsgs[q] \subseteq Ids
         /\ Canonical[q] \in QueueNames
<1>1. s.list[q] \in Seq(Ids)
  BY DEF Store
<1>2. ToSet(s.list[q]) \subseteq Ids
  BY <1>1 DEF ToSet
<1> QED BY <1>1, <1>2, CanonicalAssumption DEF Store
(* A command of w on queue q may change that queue and the acks of w on it. *)
Frames(s, t, w, q) ==
  \A p \in QueueNames \ {q} : /\ t.list[p] = s.list[p] /\ t.msgs[p] = s.msgs[p]
                              /\ t.acks[w][p] = s.acks[w][p]

LEMMA HeartbeatFacts ==
  ASSUME NEW s \in Store, NEW w \in Workers
  PROVE  LET t == Heartbeat(s, w)
         IN  t \in Store /\ t.list = s.list /\ t.msgs = s.msgs /\ t.acks = s.acks
<1> DEFINE t == Heartbeat(s, w)
<1>1. /\ t.list = s.list /\ t.msgs = s.msgs /\ t.acks = s.acks
      /\ t.xq = s.xq /\ t.xqMsgs = s.xqMsgs
  BY DEF Heartbeat, Store
<1>2. t.heartbeats = [s.heartbeats EXCEPT ![w] = 0]
  BY DEF Heartbeat, Store
<1>3. t.heartbeats \in [Workers -> Never .. HeartbeatTimeout]
  BY <1>2, TimesAssumption DEF Store, Never
<1>4. t \in Store
  BY <1>1, <1>3 DEF Heartbeat, Store
<1> QED BY <1>1, <1>4

(* The message id joins queue q.                                           *)
Joined(s, t, w, q, id) ==
  /\ t \in Store /\ Frames(s, t, w, q) /\ t.acks = s.acks
  /\ t.msgs[q] = s.msgs[q] \cup {id}
  /\ ToSet(t.list[q]) = ToSet(s.list[q]) \cup {id}
  /\ IsInjective(s.list[q]) /\ id \notin ToSet(s.list[q]) => IsInjective(t.list[q])

LEMMA EnqueueFacts ==
  ASSUME NEW s \in Store, NEW w \in Workers, NEW q \in QueueNames, NEW id \in Ids
  PROVE  Joined(s, Enqueued(s, q, id), w, q, id)
<1> DEFINE t == Enqueued(s, q, id)
<1>1. /\ t.acks = s.acks /\ t.heartbeats = s.heartbeats
      /\ t.xq = s.xq /\ t.xqMsgs = s.xqMsgs
  BY DEF Enqueued, Store
<1>2. t.msgs = [s.msgs EXCEPT ![q] = s.msgs[q] \cup {id}]
  BY DEF Enqueued, Store
<1>3. t.list = [s.list EXCEPT ![q] = Append(s.list[q], id)]
  BY DEF Enqueued, Store
<1>4. s.list \in [QueueNames -> Seq(Ids)] /\ s.msgs \in [QueueNames -> SUBSET Ids]
  BY DEF Store
<1>5. /\ Append(s.list[q], id) \in Seq(Ids)
      /\ ToSet(Append(s.list[q], id)) = ToSet(s.list[q]) \cup {id}
      /\ IsInjective(s.list[q]) /\ id \notin ToSet(s.list[q])
           => IsInjective(Append(s.list[q], id))
  <2>1. s.list[q] \in Seq(Ids)
    BY <1>4
  <2> QED BY <2>1, AppendFacts
<1>6. t \in Store
  <2>1. t.list \in [QueueNames -> Seq(Ids)]
    BY <1>3, <1>4, <1>5
  <2>2. t.msgs \in [QueueNames -> SUBSET Ids]
    BY <1>2, <1>4
  <2> QED BY <1>1, <2>1, <2>2 DEF Enqueued, Store
<1> HIDE DEF t
<1>7. /\ t.list[q] = Append(s.list[q], id) /\ t.msgs[q] = s.msgs[q] \cup {id}
      /\ \A p \in QueueNames \ {q} : t.list[p] = s.list[p] /\ t.msgs[p] = s.msgs[p]
  BY <1>2, <1>3, <1>4
<1>8. Frames(s, t, w, q)
  BY <1>1, <1>7 DEF Frames
<1>9. Joined(s, t, w, q, id)
  BY <1>1, <1>5, <1>6, <1>7, <1>8 DEF Joined
<1> QED BY <1>9 DEF t

(* What an ack and a nack have in common.                                  *)
Settled(s, t, w, q, id) ==
  /\ t \in Store /\ Frames(s, t, w, q) /\ t.list[q] = s.list[q]
  /\ t.acks[w][q] = s.acks[w][q] \ {id}
  /\ s.msgs[q] \ {id} \subseteq t.msgs[q] /\ t.msgs[q] \subseteq s.msgs[q]

LEMMA SettleFacts ==
  ASSUME NEW s \in Store, NEW w \in Workers, NEW q \in QueueNames, NEW id \in Ids
  PROVE  /\ Settled(s, Acknowledged(s, w, q, id), w, q, id)
         /\ Settled(s, Nacked(s, w, q, id), w, q, id)
<1> DEFINE A == s.acks[w][q] \ {id}
           c == Canonical[q]
<1>1. /\ s.acks \in [Workers -> [QueueNames -> SUBSET Ids]]
      /\ s.msgs \in [QueueNames -> SUBSET Ids]
      /\ s.xqMsgs \in [QueueNames -> SUBSET Ids]
      /\ s.xq \in [QueueNames -> [Ids -> Never .. DeadMessageTTL]]
      /\ c \in QueueNames
  BY StoreTypes DEF Store
<1>2. ASSUME NEW t \in Store, t.list = s.list,
             t.acks = [s.acks EXCEPT ![w] = [s.acks[w] EXCEPT ![q] = A]],
             t.msgs = s.msgs \/ t.msgs = [s.msgs EXCEPT ![q] = s.msgs[q] \ {id}]
      PROVE  Settled(s, t, w, q, id)
  <2>1. /\ t.acks[w][q] = A
        /\ \A p \in QueueNames \ {q} : t.acks[w][p] = s.acks[w][p] /\ t.msgs[p] = s.msgs[p]
        /\ s.msgs[q] \ {id} \subseteq t.msgs[q] /\ t.msgs[q] \subseteq s.msgs[q]
    BY <1>1, <1>2
  <2> QED BY <1>2, <2>1 DEF Settled, Frames
<1>3. id \notin s.acks[w][q] => Settled(s, s, w, q, id)
  BY DEF Settled, Frames
<1>4. Settled(s, Acknowledged(s, w, q, id), w, q, id)
  <2> DEFINE t == Acknowledged(s, w, q, id)
  <2>1. CASE id \notin s.acks[w][q]
    BY <1>3, <2>1 DEF Acknowledged
  <2>2. CASE id \in s.acks[w][q]
    <3>1. t = [s EXCEPT !.acks[w][q] = @ \ {id}, !.msgs[q] = @ \ {id}]
      BY <2>2 DEF Acknowledged
    <3>2. /\ t.list = s.list /\ t.heartbeats = s.heartbeats
          /\ t.xq = s.xq /\ t.xqMsgs = s.xqMsgs
      BY <3>1 DEF Store
    <3>3. t.msgs = [s.msgs EXCEPT ![q] = s.msgs[q] \ {id}]
      BY <3>1 DEF Store
    <3>4. t.acks = [s.acks EXCEPT ![w] = [s.acks[w] EXCEPT ![q] = A]]
      BY <3>1 DEF Store
    <3>5. t \in Store
      <4>1. t.msgs \in [QueueNames -> SUBSET Ids]
        BY <1>1, <3>3
      <4>2. t.acks \in [Workers -> [QueueNames -> SUBSET Ids]]
        BY <1>1, <3>4
      <4> QED BY <3>1, <3>2, <4>1, <4>2 DEF Store
    <3> HIDE DEF t, A
    <3> QED BY <1>2, <3>2, <3>3, <3>4, <3>5 DEF t
  <2> QED BY <2>1, <2>2
<1>5. Settled(s, Nacked(s, w, q, id), w, q, id)
  <2> DEFINE t == Nacked(s, w, q, id)
  <2>1. CASE id \notin s.acks[w][q]
    BY <1>3, <2>1 DEF Nacked
  <2>2. CASE id \in s.acks[w][q] /\ id \notin s.msgs[q]
    <3>1. t = [s EXCEPT !.acks[w][q] = @ \ {id}]
      BY <2>2 DEF Nacked
    <3>2. /\ t.list = s.list /\ t.msgs = s.msgs /\ t.heartbeats = s.heartbeats
          /\ t.xq = s.xq /\ t.xqMsgs = s.xqMsgs
      BY <3>1 DEF Store
    <3>3. t.acks = [s.acks EXCEPT ![w] = [s.acks[w] EXCEPT ![q] = A]]
      BY <3>1 DEF Store
    <3>4. t.acks \in [Workers -> [QueueNames -> SUBSET Ids]]
      BY <1>1, <3>3
    <3>5. t \in Store
      BY <3>1, <3>2, <3>4 DEF Store
    <3> HIDE DEF t, A
    <3> QED BY <1>2, <3>2, <3>3, <3>5 DEF t
  <2>3. CASE id \in s.acks[w][q] /\ id \in s.msgs[q]
    <3>1. t = [s EXCEPT !.acks[w][q] = @ \ {id},
                        !.msgs[q] = @ \ {id},
                        !.xq[c][id] = 0,
                        !.xqMsgs[c] = @ \cup {id}]
      BY <2>3 DEF Nacked
    <3>2. t.list = s.list /\ t.heartbeats = s.heartbeats
      BY <3>1 DEF Store
    <3>3. t.acks = [s.acks EXCEPT ![w] = [s.acks[w] EXCEPT ![q] = A]]
      BY <3>1 DEF Store
    <3>4. t.msgs = [s.msgs EXCEPT ![q] = s.msgs[q] \ {id}]
      BY <3>1 DEF Store
    <3>5. t.xq = [s.xq EXCEPT ![c] = [s.xq[c] EXCEPT ![id] = 0]]
      BY <3>1 DEF Store
    <3>6. t.xqMsgs = [s.xqMsgs EXCEPT ![c] = s.xqMsgs[c] \cup {id}]
      BY <3>1 DEF Store
    <3>7. t \in Store
      <4>1. t.acks \in [Workers -> [QueueNames -> SUBSET Ids]]
        BY <1>1, <3>3
      <4>2. t.msgs \in [QueueNames -> SUBSET Ids]
        BY <1>1, <3>4
      <4>3. 0 \in Never .. DeadMessageTTL
        BY TimesAssumption DEF Never
      <4>4. t.xq \in [QueueNames -> [Ids -> Never .. DeadMessageTTL]]
        BY <1>1, <3>5, <4>3
      <4>5. t.xqMsgs \in [QueueNames -> SUBSET Ids]
        BY <1>1, <3>6
      <4> QED BY <3>1, <3>2, <4>1, <4>2, <4>4, <4>5 DEF Store
    <3> HIDE DEF t, A, c
    <3> QED BY <1>2, <3>2, <3>3, <3>4, <3>7 DEF t
  <2> QED BY <2>1, <2>2, <2>3
<1> QED BY <1>4, <1>5

(* The messages p leave the list of queue q for the acks of w.             *)
Taken(s, t, w, q, p) ==
  /\ t \in Store /\ Frames(s, t, w, q) /\ t.msgs = s.msgs /\ p \in Seq(Ids)
  /\ t.acks[w][q] = s.acks[w][q] \cup ToSet(p)
  /\ ToSet(s.list[q]) = ToSet(p) \cup ToSet(t.list[q])
  /\ IsInjective(s.list[q]) =>
       /\ ToSet(p) \cap ToSet(t.list[q]) = {}
       /\ IsInjective(p) /\ IsInjective(t.list[q])

LEMMA FetchFacts ==
  ASSUME NEW s \in Store, NEW w \in Workers, NEW q \in QueueNames, NEW n \in Nat
  PROVE  /\ Taken(s, Fetched(s, w, q, n), w, q, Popped(s, q, n))
         /\ Len(Popped(s, q, n)) <= n
<1> DEFINE t == Fetched(s, w, q, n)
           l == s.list[q]
           p == Popped(s, q, n)
           r == SubSeq(l, Len(p) + 1, Len(l))
           A == s.acks[w][q] \cup ToSet(p)
<1>1. l \in Seq(Ids) /\ s.acks[w][q] \subseteq Ids
  BY StoreTypes
<1>2. /\ p \in Seq(Ids) /\ r \in Seq(Ids) /\ Len(p) <= n
      /\ ToSet(l) = ToSet(p) \cup ToSet(r)
      /\ IsInjective(l) => ToSet(p) \cap ToSet(r) = {} /\ IsInjective(p) /\ IsInjective(r)
  <2> DEFINE k == IF n < Len(l) THEN n ELSE Len(l)
  <2>1. k \in 0 .. Len(l) /\ k <= n
    BY <1>1
  <2>2. p = SubSeq(l, 1, k)
    BY DEF Popped
  <2> HIDE DEF k, p, l
  <2>3. /\ p \in Seq(Ids) /\ SubSeq(l, k + 1, Len(l)) \in Seq(Ids) /\ Len(p) = k
        /\ ToSet(l) = ToSet(p) \cup ToSet(SubSeq(l, k + 1, Len(l)))
        /\ IsInjective(l) => /\ ToSet(p) \cap ToSet(SubSeq(l, k + 1, Len(l))) = {}
                             /\ IsInjective(SubSeq(l, k + 1, Len(l)))
    BY <1>1, <2>1, <2>2, SplitFacts
  <2>4. IsInjective(l) => IsInjective(p)
    <3>1. DOMAIN p = 1 .. k /\ \A i \in 1 .. k : p[i] = l[i] /\ i \in DOMAIN l
      BY <1>1, <2>1, <2>2
    <3> QED BY <3>1 DEF IsInjective
  <2> QED BY <2>1, <2>3, <2>4
<1>3. ToSet(p) \subseteq Ids
  BY <1>2 DEF ToSet
<1>4. /\ t.msgs = s.msgs /\ t.heartbeats = s.heartbeats
      /\ t.xq = s.xq /\ t.xqMsgs = s.xqMsgs
  BY DEF Fetched, Store
<1>5. t.list = [s.list EXCEPT ![q] = r]
  BY DEF Fetched, Store
<1>6. t.acks = [s.acks EXCEPT ![w] = [s.acks[w] EXCEPT ![q] = A]]
  BY DEF Fetched, Store
<1>7. A \in SUBSET Ids
  BY <1>1, <1>3
<1> HIDE DEF p, r, A, t
<1>8. /\ t.acks \in [Workers -> [QueueNames -> SUBSET Ids]]
      /\ t.acks[w][q] = A
      /\ \A x \in QueueNames \ {q} : t.acks[w][x] = s.acks[w][x]
  <2>1. s.acks \in [Workers -> [QueueNames -> SUBSET Ids]]
    BY DEF Store
  <2> QED BY <1>6, <1>7, <2>1
<1>9. s.list \in [QueueNames -> Seq(Ids)]
  BY DEF Store
<1>10. t \in Store
  <2>1. t.list \in [QueueNames -> Seq(Ids)]
    BY <1>2, <1>5, <1>9
  <2> QED BY <1>4, <1>8, <2>1 DEF Fetched, Store, t
<1>11. t.list[q] = r /\ \A x \in QueueNames \ {q} : t.list[x] = s.list[x]
  BY <1>5, <1>9
<1>12. Frames(s, t, w, q)
  BY <1>4, <1>8, <1>11 DEF Frames
<1>13. t.acks[w][q] = s.acks[w][q] \cup ToSet(p)
  BY <1>8 DEF A
<1>14. Taken(s, t, w, q, p)
  BY <1>2, <1>4, <1>10, <1>11, <1>12, <1>13 DEF Taken
<1> QED BY <1>2, <1>14 DEF t, p

(* w gives back the messages ids, some of which go to the list of queue q. *)
Returned(s, t, w, q, ids) ==
  /\ t \in Store /\ Frames(s, t, w, q) /\ t.msgs = s.msgs
  /\ t.acks[w][q] = s.acks[w][q] \ ids
  /\ ToSet(s.list[q]) \subseteq ToSet(t.list[q])
  /\ ToSet(t.list[q]) \subseteq ToSet(s.list[q]) \cup ids
  /\ IsInjective(s.list[q]) /\ ToSet(s.list[q]) \cap ids = {} => IsInjective(t.list[q])

LEMMA RequeueFacts ==
  ASSUME NEW s \in Store, NEW w \in Workers, NEW q \in QueueNames, NEW ids \in SUBSET Ids,
         NEW o \in Orders(Returnable(s, w, q, ids))
  PROVE  Returned(s, Requeued(s, w, q, ids, o), w, q, ids)
<1> DEFINE t == Requeued(s, w, q, ids, o)
           A == s.acks[w][q] \ ids
           R == Returnable(s, w, q, ids)
<1>1. s.list[q] \in Seq(Ids) /\ s.acks[w][q] \subseteq Ids
  BY StoreTypes
<1>2. R \subseteq ids /\ R \in SUBSET Ids
  BY DEF Returnable
<1>3. o \in Seq(Ids) /\ ToSet(o) = R /\ IsInjective(o)
  <2> HIDE DEF R
  <2>1. o \in Orders(R)
    BY DEF R
  <2> QED BY <1>2, <2>1, OrderFacts
<1> HIDE DEF R
<1>4. /\ s.list[q] \o o \in Seq(Ids)
      /\ ToSet(s.list[q] \o o) = ToSet(s.list[q]) \cup R
      /\ IsInjective(s.list[q]) /\ ToSet(s.list[q]) \cap R = {}
           => IsInjective(s.list[q] \o o)
  BY <1>1, <1>3, ConcatFacts
<1>5. /\ t.msgs = s.msgs /\ t.heartbeats = s.heartbeats
      /\ t.xq = s.xq /\ t.xqMsgs = s.xqMsgs
  BY DEF Requeued, Store
<1>6. t.list = [s.list EXCEPT ![q] = s.list[q] \o o]
  BY DEF Requeued, Store
<1>7. t.acks = [s.acks EXCEPT ![w] = [s.acks[w] EXCEPT ![q] = A]]
  BY DEF Requeued, Store
<1>8. A \in SUBSET Ids
  BY <1>1
<1> HIDE DEF A, t
<1>9. /\ t.acks \in [Workers -> [QueueNames -> SUBSET Ids]]
      /\ t.acks[w][q] = A
      /\ \A x \in QueueNames \ {q} : t.acks[w][x] = s.acks[w][x]
  <2>1. s.acks \in [Workers -> [QueueNames -> SUBSET Ids]]
    BY DEF Store
  <2> QED BY <1>7, <1>8, <2>1
<1>10. s.list \in [QueueNames -> Seq(Ids)]
  BY DEF Store
<1>11. t \in Store
  <2>1. t.list \in [QueueNames -> Seq(Ids)]
    BY <1>4, <1>6, <1>10
  <2> QED BY <1>5, <1>9, <2>1 DEF Requeued, Store, t
<1>12. t.list[q] = s.list[q] \o o /\ \A x \in QueueNames \ {q} : t.list[x] = s.list[x]
  BY <1>6, <1>10
<1>13. Frames(s, t, w, q)
  BY <1>5, <1>9, <1>12 DEF Frames
<1>14. t.acks[w][q] = s.acks[w][q] \ ids
  BY <1>9 DEF A
<1>15. ToSet(s.list[q]) \cap ids = {} => ToSet(s.list[q]) \cap R = {}
  BY <1>2
<1>16. Returned(s, t, w, q, ids)
  BY <1>2, <1>4, <1>5, <1>11, <1>12, <1>13, <1>14, <1>15 DEF Returned
<1> QED BY <1>16 DEF t
=============================================================================
