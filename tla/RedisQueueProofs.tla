-------------------------- MODULE RedisQueueProofs --------------------------
(***************************************************************************)
(* Proofs about RedisStore and RedisQueue, for any brokers, queues and     *)
(* messages.  Every store is consistent: a heartbeat, maintenance and each *)
(* command preserve Consistent, hence so does every action.                *)
(***************************************************************************)
EXTENDS RedisQueue, RedisStoreProofs, FiniteSetTheorems, TLAPS

-----------------------------------------------------------------------------
(* Every part of the script works on one queue and on its dead letters.    *)

Homes == [Ids -> QueueNames \cup {NoQueue}]

Elsewhere(s, t, q) ==
  /\ \A p \in QueueNames \ {q} :
       /\ t.list[p] = s.list[p]
       /\ t.msgs[p] = s.msgs[p]
       /\ \A w \in Workers : t.acks[w][p] = s.acks[w][p]
  /\ \A x \in QueueNames \ {Canonical[q]} :
       t.xq[x] = s.xq[x] /\ t.xqMsgs[x] = s.xqMsgs[x]

(* The conjuncts of Consistent about one queue, id by id.                  *)
Listed(s, q, id) == id \in ToSet(s.list[q])

Local(s, h, q) ==
  /\ IsInjective(s.list[q])
  /\ \A id \in Ids :
       /\ id \in s.msgs[q] => Listed(s, q, id)
                              \/ \E w \in Workers : id \in s.acks[w][q]
       /\ Listed(s, q, id) => id \in s.msgs[q]
       /\ \A w \in Workers : id \in s.acks[w][q] => ~Listed(s, q, id)
       /\ \A v, w \in Workers : id \in s.acks[v][q] /\ id \in s.acks[w][q]
                                  => v = w
       /\ id \in s.msgs[q] => h[id] = q
       /\ \A w \in Workers : id \in s.acks[w][q] => h[id] = q

Letters(s, x) == s.xqMsgs[x] = {id \in Ids : s.xq[x][id] # Never}

LEMMA ConsistentHere ==
  ASSUME NEW s \in Store, NEW h \in Homes, Consistent(s, h), NEW q \in QueueNames
  PROVE  Local(s, h, q) /\ Letters(s, q)
<1>1. /\ Stranded(s, q) = {} /\ ToSet(s.list[q]) \subseteq s.msgs[q]
      /\ InOnePlace(s, q) /\ Apart(s, q) /\ Homed(s, h, q)
  BY DEF Consistent
<1>2. Letters(s, q)
  BY <1>1 DEF Apart, Letters
<1>3. \A id \in Ids : id \in Acked(s, q) <=> \E w \in Workers : id \in s.acks[w][q]
  BY DEF Acked
<1>4. \A id \in Ids : id \in s.msgs[q] => Listed(s, q, id) \/ id \in Acked(s, q)
  BY <1>1 DEF Stranded, Listed
<1>5. \A id \in Ids : Listed(s, q, id) => id \in s.msgs[q] /\ id \notin Acked(s, q)
  BY <1>1 DEF InOnePlace, Listed
<1>6. \A id \in Ids, v, w \in Workers :
        id \in s.acks[v][q] /\ id \in s.acks[w][q] => v = w
  BY <1>1 DEF InOnePlace
<1>7. \A id \in s.msgs[q] \cup Acked(s, q) : h[id] = q
  BY <1>1 DEF Homed
<1>8. IsInjective(s.list[q])
  BY <1>1 DEF InOnePlace
<1> QED BY <1>2, <1>3, <1>4, <1>5, <1>6, <1>7, <1>8 DEF Local

LEMMA LocalSuffices ==
  ASSUME NEW s \in Store, NEW h \in Homes, NEW q \in QueueNames, Local(s, h, q)
  PROVE  /\ Stranded(s, q) = {}
         /\ ToSet(s.list[q]) \subseteq s.msgs[q]
         /\ InOnePlace(s, q)
         /\ \A id \in s.msgs[q] \cup Acked(s, q) : h[id] = q
<1>1. \A id \in Ids : id \in Acked(s, q) <=> \E w \in Workers : id \in s.acks[w][q]
  BY DEF Acked
<1>2. Acked(s, q) \subseteq Ids
  BY DEF Acked
<1>3. Stranded(s, q) = {}
  BY <1>1, StoreTypes DEF Local, Stranded, Listed
<1>4. ToSet(s.list[q]) \subseteq s.msgs[q]
  BY StoreTypes DEF Local, Listed
<1>5. ToSet(s.list[q]) \cap Acked(s, q) = {}
  BY <1>1, <1>2 DEF Local, Listed
<1>6. \A v, w \in Workers : v # w => s.acks[v][q] \cap s.acks[w][q] = {}
  BY StoreTypes DEF Local
<1>7. \A id \in s.msgs[q] \cup Acked(s, q) : h[id] = q
  BY <1>1, <1>2, StoreTypes DEF Local
<1> QED BY <1>3, <1>4, <1>5, <1>6, <1>7 DEF InOnePlace, Local

(* What consistency asks of a store that a script changed on queue q.      *)
LEMMA Frame ==
  ASSUME NEW s \in Store, NEW t \in Store, NEW h \in Homes,
         NEW q \in QueueNames, Consistent(s, h), Elsewhere(s, t, q),
         Local(t, h, q), Heartbeating(t), Letters(t, Canonical[q]),
         \A id \in t.xqMsgs[Canonical[q]] :
           id \notin t.msgs[q] /\ (id \in s.xqMsgs[Canonical[q]] \/ h[id] = q)
  PROVE  Consistent(t, h)
<1>1. ASSUME NEW p \in QueueNames PROVE Local(t, h, p)
  <2>1. CASE p = q
    BY <2>1
  <2>2. CASE p # q
    <3>1. Local(s, h, p)
      BY ConsistentHere
    <3>2. /\ t.list[p] = s.list[p] /\ t.msgs[p] = s.msgs[p]
          /\ \A w \in Workers : t.acks[w][p] = s.acks[w][p]
      BY <2>2 DEF Elsewhere
    <3> QED BY <3>1, <3>2 DEF Local, Listed
  <2> QED BY <2>1, <2>2
<1>2. ASSUME NEW x \in QueueNames, NEW id \in t.xqMsgs[x]
      PROVE  h[id] \in QueueNames /\ Canonical[h[id]] = x
  <2>1. id \in s.xqMsgs[x] \/ (x = Canonical[q] /\ h[id] = q)
    BY <1>2 DEF Elsewhere
  <2>2. Homed(s, h, x)
    BY DEF Consistent
  <2> QED BY <2>1, <2>2 DEF Homed
<1>3. ASSUME NEW x \in QueueNames PROVE Letters(t, x)
  <2>1. Letters(s, x)
    BY ConsistentHere
  <2> QED BY <2>1 DEF Elsewhere, Letters
<1>4. ASSUME NEW x \in QueueNames, NEW p \in QueueNames,
             NEW id \in t.xqMsgs[x], id \in t.msgs[p]
      PROVE  FALSE
  <2>1. h[id] = p /\ Canonical[p] = x
    BY <1>1, <1>2, <1>4, StoreTypes DEF Local
  <2>2. p # q
    BY <1>4, <2>1
  <2>3. id \in s.msgs[p] /\ id \in s.xqMsgs[x]
    BY <1>4, <2>1, <2>2 DEF Elsewhere
  <2> QED BY <2>3 DEF Consistent, Apart
<1>5. ASSUME NEW p \in QueueNames
      PROVE  /\ Stranded(t, p) = {} /\ ToSet(t.list[p]) \subseteq t.msgs[p]
             /\ InOnePlace(t, p) /\ Apart(t, p) /\ Homed(t, h, p)
  <2>1. Local(t, h, p) /\ Letters(t, p)
    BY <1>1, <1>3
  <2>2. Apart(t, p)
    BY <1>4, <2>1 DEF Apart, Letters
  <2>3. Homed(t, h, p)
    BY <1>2, <2>1, LocalSuffices DEF Homed
  <2> QED BY <2>1, <2>2, <2>3, LocalSuffices
<1> QED BY <1>5 DEF Consistent

(* The dead letters of q's group are no messages of q.                     *)
LEMMA LettersApart ==
  ASSUME NEW s \in Store, NEW h \in Homes, Consistent(s, h), NEW q \in QueueNames
  PROVE  /\ Letters(s, Canonical[q])
         /\ \A id \in s.xqMsgs[Canonical[q]] : id \notin s.msgs[q]
<1>1. Canonical[q] \in QueueNames
  BY StoreTypes
<1>2. Apart(s, Canonical[q])
  BY <1>1 DEF Consistent
<1> QED BY <1>2 DEF Apart, Letters

-----------------------------------------------------------------------------
(* The script preserves consistency, part by part.                         *)

LEMMA HeartbeatConsistent ==
  ASSUME NEW s \in Store, NEW h \in Homes, Consistent(s, h), NEW w \in Workers
  PROVE  Heartbeat(s, w) \in Store /\ Consistent(Heartbeat(s, w), h)
<1> DEFINE t == Heartbeat(s, w)
<1>1. /\ t.list = s.list /\ t.msgs = s.msgs /\ t.acks = s.acks
      /\ t.xq = s.xq /\ t.xqMsgs = s.xqMsgs
  BY DEF Heartbeat, Store
<1>2. t.heartbeats = [s.heartbeats EXCEPT ![w] = 0]
  BY DEF Heartbeat, Store
<1>3. t.heartbeats \in [Workers -> Never .. HeartbeatTimeout]
  BY <1>2, TimesAssumption DEF Store, Never
<1>4. t \in Store
  BY <1>1, <1>3 DEF Heartbeat, Store
<1> HIDE DEF t
<1>5. Heartbeating(t)
  <2>1. \A v \in Workers : s.heartbeats[v] # Never => t.heartbeats[v] # Never
    BY <1>2 DEF Store, Never
  <2> QED BY <1>1, <2>1 DEF Consistent, Heartbeating
<1>6. ASSUME NEW q \in QueueNames
      PROVE  Stranded(t, q) = {} /\ ToSet(t.list[q]) \subseteq t.msgs[q]
             /\ InOnePlace(t, q) /\ Apart(t, q) /\ Homed(t, h, q)
  <2>1. Acked(t, q) = Acked(s, q)
    BY <1>1 DEF Acked
  <2> QED BY <1>1, <2>1 DEF Consistent, Stranded, InOnePlace, Apart, Homed
<1> QED BY <1>4, <1>5, <1>6 DEF Consistent, t

LEMMA AckConsistent ==
  ASSUME NEW s \in Store, NEW h \in Homes, Consistent(s, h),
         NEW w \in Workers, NEW q \in QueueNames, NEW id \in Ids
  PROVE  /\ Acknowledged(s, w, q, id) \in Store
         /\ Consistent(Acknowledged(s, w, q, id), h)
<1> DEFINE t == Acknowledged(s, w, q, id)
<1>1. CASE id \notin s.acks[w][q]
  BY <1>1 DEF Acknowledged
<1>2. CASE id \in s.acks[w][q]
  <2>1. t = [s EXCEPT !.acks[w][q] = @ \ {id}, !.msgs[q] = @ \ {id}]
    BY <1>2 DEF Acknowledged
  <2>2. /\ t.list = s.list /\ t.heartbeats = s.heartbeats
        /\ t.xq = s.xq /\ t.xqMsgs = s.xqMsgs
    BY <2>1 DEF Store
  <2>3. t.msgs = [s.msgs EXCEPT ![q] = s.msgs[q] \ {id}]
    BY <2>1 DEF Store
  <2>4. t.acks = [s.acks EXCEPT ![w] = [s.acks[w] EXCEPT ![q] = s.acks[w][q] \ {id}]]
    BY <2>1 DEF Store
  <2>5. t \in Store
    <3>1. t.msgs \in [QueueNames -> SUBSET Ids]
      BY <2>3 DEF Store
    <3>2. s.acks \in [Workers -> [QueueNames -> SUBSET Ids]]
      BY DEF Store
    <3>3. t.acks \in [Workers -> [QueueNames -> SUBSET Ids]]
      BY <2>4, <3>2
    <3> QED BY <2>1, <2>2, <3>1, <3>3 DEF Store
  <2> HIDE DEF t
  <2>6. /\ t.msgs[q] = s.msgs[q] \ {id}
        /\ t.acks[w][q] = s.acks[w][q] \ {id}
        /\ \A v \in Workers \ {w} : t.acks[v][q] = s.acks[v][q]
    BY <2>3, <2>4 DEF Store
  <2>7. Elsewhere(s, t, q)
    BY <2>2, <2>3, <2>4 DEF Elsewhere, Store
  <2>8. \A v \in Workers, p \in QueueNames : t.acks[v][p] \subseteq s.acks[v][p]
    BY <2>6, <2>7 DEF Elsewhere
  <2>9. Local(t, h, q)
    <3>1. Local(s, h, q)
      BY ConsistentHere
    <3> QED BY <1>2, <2>2, <2>6, <3>1 DEF Local, Listed
  <2>10. Heartbeating(t)
    BY <2>2, <2>8 DEF Consistent, Heartbeating
  <2>11. Letters(t, Canonical[q])
    BY <2>2, LettersApart DEF Letters
  <2>12. \A i \in t.xqMsgs[Canonical[q]] :
           i \notin t.msgs[q] /\ i \in s.xqMsgs[Canonical[q]]
    BY <2>2, <2>6, LettersApart
  <2> QED BY <2>5, <2>7, <2>9, <2>10, <2>11, <2>12, Frame DEF t
<1> QED BY <1>1, <1>2
LEMMA EnqueueConsistent ==
  ASSUME NEW s \in Store, NEW h \in Homes, Consistent(s, h),
         NEW q \in QueueNames, NEW id \in Ids, h[id] = NoQueue
  PROVE  /\ Enqueued(s, q, id) \in Store
         /\ [h EXCEPT ![id] = q] \in Homes
         /\ Consistent(Enqueued(s, q, id), [h EXCEPT ![id] = q])
<1> DEFINE t == Enqueued(s, q, id)
           g == [h EXCEPT ![id] = q]
<1>1. g \in Homes /\ g[id] = q /\ \A i \in Ids \ {id} : g[i] = h[i]
  BY DEF Homes
<1>2. ASSUME NEW p \in QueueNames
      PROVE  /\ id \notin s.msgs[p] /\ id \notin s.xqMsgs[p]
             /\ id \notin ToSet(s.list[p])
             /\ \A w \in Workers : id \notin s.acks[w][p]
  <2>1. Local(s, h, p) /\ Homed(s, h, p)
    BY ConsistentHere DEF Consistent
  <2>2. h[id] # p /\ h[id] \notin QueueNames
    BY ClientAssumption
  <2>3. id \notin s.msgs[p] /\ id \notin s.xqMsgs[p]
    BY <2>1, <2>2 DEF Local, Homed
  <2>4. id \notin ToSet(s.list[p])
    BY <2>1, <2>3 DEF Local, Listed
  <2>5. \A w \in Workers : id \notin s.acks[w][p]
    BY <2>1, <2>2 DEF Local
  <2> QED BY <2>3, <2>4, <2>5
<1> HIDE DEF g
<1>3. Consistent(s, g)
  <2>1. ASSUME NEW p \in QueueNames PROVE Homed(s, g, p)
    <3>1. Homed(s, h, p)
      BY DEF Consistent
    <3>2. id \notin Acked(s, p)
      BY <1>2 DEF Acked
    <3>3. Acked(s, p) \subseteq Ids
      BY DEF Acked
    <3>4. \A i \in s.msgs[p] \cup Acked(s, p) \cup s.xqMsgs[p] : g[i] = h[i]
      BY <1>1, <1>2, <3>2, <3>3, StoreTypes
    <3> QED BY <3>1, <3>4 DEF Homed
  <2> QED BY <2>1 DEF Consistent
<1>4. /\ t.acks = s.acks /\ t.heartbeats = s.heartbeats
      /\ t.xq = s.xq /\ t.xqMsgs = s.xqMsgs
  BY DEF Enqueued, Store
<1>5. t.msgs = [s.msgs EXCEPT ![q] = s.msgs[q] \cup {id}]
  BY DEF Enqueued, Store
<1>6. t.list = [s.list EXCEPT ![q] = Append(s.list[q], id)]
  BY DEF Enqueued, Store
<1>7. s.list \in [QueueNames -> Seq(Ids)] /\ s.msgs \in [QueueNames -> SUBSET Ids]
  BY DEF Store
<1>8. /\ Append(s.list[q], id) \in Seq(Ids)
      /\ ToSet(Append(s.list[q], id)) = ToSet(s.list[q]) \cup {id}
      /\ IsInjective(s.list[q]) => IsInjective(Append(s.list[q], id))
  <2>1. s.list[q] \in Seq(Ids) /\ id \notin ToSet(s.list[q])
    BY <1>2, <1>7
  <2> QED BY <2>1, AppendFacts
<1>9. t \in Store
  <2>1. t.list \in [QueueNames -> Seq(Ids)]
    BY <1>6, <1>7, <1>8
  <2>2. t.msgs \in [QueueNames -> SUBSET Ids]
    BY <1>5, <1>7
  <2> QED BY <1>4, <2>1, <2>2 DEF Enqueued, Store
<1> HIDE DEF t
<1>10. t.msgs[q] = s.msgs[q] \cup {id} /\ t.list[q] = Append(s.list[q], id)
  BY <1>5, <1>6, <1>7
<1>11. Elsewhere(s, t, q)
  BY <1>4, <1>5, <1>6, <1>7 DEF Elsewhere
<1>12. Local(t, g, q)
  <2>1. Local(s, g, q)
    BY <1>1, <1>3, ConsistentHere
  <2>2. \A i \in Ids : Listed(t, q, i) <=> Listed(s, q, i) \/ i = id
    BY <1>8, <1>10 DEF Listed
  <2> QED BY <1>1, <1>2, <1>4, <1>8, <1>10, <2>1, <2>2 DEF Local
<1>13. Heartbeating(t)
  BY <1>4 DEF Consistent, Heartbeating
<1>14. Letters(t, Canonical[q])
  BY <1>4, LettersApart DEF Letters
<1>15. \A i \in t.xqMsgs[Canonical[q]] :
         i \notin t.msgs[q] /\ i \in s.xqMsgs[Canonical[q]]
  BY <1>2, <1>4, <1>10, LettersApart, StoreTypes
<1> QED BY <1>1, <1>3, <1>9, <1>11, <1>12, <1>13, <1>14, <1>15, Frame DEF t, g

(* A fetch moves the ids it pops from the list to the acks.                *)
LEMMA FetchConsistent ==
  ASSUME NEW s \in Store, NEW h \in Homes, Consistent(s, h),
         NEW w \in Workers, NEW q \in QueueNames, NEW n \in Nat,
         s.heartbeats[w] # Never
  PROVE  /\ Fetched(s, w, q, n) \in Store
         /\ Consistent(Fetched(s, w, q, n), h)
<1> DEFINE t == Fetched(s, w, q, n)
           l == s.list[q]
           p == Popped(s, q, n)
           r == SubSeq(l, Len(p) + 1, Len(l))
           A == s.acks[w][q] \cup ToSet(p)
<1>1. l \in Seq(Ids) /\ s.acks[w][q] \subseteq Ids
  BY StoreTypes
<1>2. /\ p \in Seq(Ids) /\ r \in Seq(Ids)
      /\ ToSet(l) = ToSet(p) \cup ToSet(r)
      /\ IsInjective(l) => ToSet(p) \cap ToSet(r) = {} /\ IsInjective(r)
  <2> DEFINE k == IF n < Len(l) THEN n ELSE Len(l)
  <2>1. k \in 0 .. Len(l)
    BY <1>1
  <2>2. p = SubSeq(l, 1, k)
    BY DEF Popped
  <2> HIDE DEF k, p, l
  <2>3. /\ p \in Seq(Ids) /\ SubSeq(l, k + 1, Len(l)) \in Seq(Ids) /\ Len(p) = k
        /\ ToSet(l) = ToSet(p) \cup ToSet(SubSeq(l, k + 1, Len(l)))
        /\ IsInjective(l) => /\ ToSet(p) \cap ToSet(SubSeq(l, k + 1, Len(l))) = {}
                             /\ IsInjective(SubSeq(l, k + 1, Len(l)))
    BY <1>1, <2>1, <2>2, SplitFacts
  <2> QED BY <2>3
<1>3. ToSet(p) \subseteq Ids
  BY <1>2 DEF ToSet
<1>4. /\ t.msgs = s.msgs /\ t.heartbeats = s.heartbeats
      /\ t.xq = s.xq /\ t.xqMsgs = s.xqMsgs
  BY DEF Fetched, Store
<1>5. t.list = [s.list EXCEPT ![q] = r]
  BY DEF Fetched, Store
<1>6. t.acks = [s.acks EXCEPT ![w] = [s.acks[w] EXCEPT ![q] = A]]
  BY DEF Fetched, Store
<1>61. A \in SUBSET Ids
  BY <1>1, <1>3
<1> HIDE DEF p, r, A, t
<1>7. /\ t.acks \in [Workers -> [QueueNames -> SUBSET Ids]]
      /\ t.acks[w][q] = A
      /\ \A v \in Workers \ {w} : t.acks[v] = s.acks[v]
      /\ \A v \in Workers, x \in QueueNames \ {q} : t.acks[v][x] = s.acks[v][x]
  <2>1. s.acks \in [Workers -> [QueueNames -> SUBSET Ids]]
    BY DEF Store
  <2> QED BY <1>6, <1>61, <2>1
<1>8. t \in Store
  <2>1. t.list \in [QueueNames -> Seq(Ids)]
    BY <1>2, <1>5 DEF Store
  <2> QED BY <1>4, <1>7, <2>1 DEF Fetched, Store, t
<1>9. t.list[q] = r
  <2>1. s.list \in [QueueNames -> Seq(Ids)]
    BY DEF Store
  <2> QED BY <1>5, <2>1
<1>10. Elsewhere(s, t, q)
  BY <1>4, <1>5, <1>7 DEF Elsewhere, Store
<1>11. Local(t, h, q)
  <2>1. Local(s, h, q)
    BY ConsistentHere
  <2>2. \A i \in Ids : /\ Listed(s, q, i) <=> i \in ToSet(p) \/ Listed(t, q, i)
                       /\ ~(i \in ToSet(p) /\ Listed(t, q, i))
    BY <1>2, <1>9, <2>1 DEF Listed, Local
  <2>3. IsInjective(t.list[q])
    BY <1>2, <1>9, <2>1 DEF Local
  <2> QED BY <1>3, <1>4, <1>7, <2>1, <2>2, <2>3 DEF Local, A
<1>12. Heartbeating(t)
  <2>1. ASSUME NEW v \in Workers, NEW x \in QueueNames, t.acks[v][x] # {}
        PROVE  s.heartbeats[v] # Never
    <3>1. CASE v = w
      BY <3>1
    <3>2. CASE v # w
      <4>1. s.acks[v][x] # {}
        BY <1>7, <2>1, <3>2
      <4> QED BY <4>1 DEF Consistent, Heartbeating
    <3> QED BY <3>1, <3>2
  <2> QED BY <1>4, <2>1 DEF Heartbeating
<1>13. Letters(t, Canonical[q])
  BY <1>4, LettersApart DEF Letters
<1>14. \A i \in t.xqMsgs[Canonical[q]] :
         i \notin t.msgs[q] /\ i \in s.xqMsgs[Canonical[q]]
  BY <1>4, LettersApart
<1> QED BY <1>8, <1>10, <1>11, <1>12, <1>13, <1>14, Frame DEF t
(* A requeue moves the ids it returns from the acks to the list.           *)
LEMMA RequeueConsistent ==
  ASSUME NEW s \in Store, NEW h \in Homes, Consistent(s, h),
         NEW w \in Workers, NEW q \in QueueNames, NEW ids \in SUBSET Ids,
         NEW o \in Orders(Returnable(s, w, q, ids))
  PROVE  /\ Requeued(s, w, q, ids, o) \in Store
         /\ Consistent(Requeued(s, w, q, ids, o), h)
<1> DEFINE t == Requeued(s, w, q, ids, o)
           A == s.acks[w][q] \ ids
           R == Returnable(s, w, q, ids)
<1>1. s.list[q] \in Seq(Ids) /\ s.acks[w][q] \subseteq Ids
  BY StoreTypes
<1>2. R = {i \in ids : i \in s.acks[w][q] /\ i \in s.msgs[q]} /\ R \in SUBSET Ids
  BY DEF Returnable
<1>3. o \in Seq(Ids) /\ ToSet(o) = R /\ IsInjective(o)
  <2> HIDE DEF R
  <2>1. o \in Orders(R)
    BY DEF R
  <2> QED BY <1>2, <2>1, OrderFacts
<1> HIDE DEF R
<1>4. Local(s, h, q)
  BY ConsistentHere
<1>5. /\ s.list[q] \o o \in Seq(Ids)
      /\ ToSet(s.list[q] \o o) = ToSet(s.list[q]) \cup R
      /\ IsInjective(s.list[q] \o o)
  <2>1. ToSet(s.list[q]) \cap ToSet(o) = {} /\ IsInjective(s.list[q])
    BY <1>2, <1>3, <1>4 DEF Local, Listed
  <2> QED BY <1>1, <1>3, <2>1, ConcatFacts
<1>6. /\ t.msgs = s.msgs /\ t.heartbeats = s.heartbeats
      /\ t.xq = s.xq /\ t.xqMsgs = s.xqMsgs
  BY DEF Requeued, Store
<1>7. t.list = [s.list EXCEPT ![q] = s.list[q] \o o]
  BY DEF Requeued, Store
<1>8. t.acks = [s.acks EXCEPT ![w] = [s.acks[w] EXCEPT ![q] = A]]
  BY DEF Requeued, Store
<1>9. A \in SUBSET Ids
  BY <1>1
<1> HIDE DEF A, t
<1>10. /\ t.acks \in [Workers -> [QueueNames -> SUBSET Ids]]
       /\ t.acks[w][q] = A
       /\ \A v \in Workers \ {w} : t.acks[v] = s.acks[v]
       /\ \A v \in Workers, x \in QueueNames \ {q} : t.acks[v][x] = s.acks[v][x]
  <2>1. s.acks \in [Workers -> [QueueNames -> SUBSET Ids]]
    BY DEF Store
  <2> QED BY <1>8, <1>9, <2>1
<1>11. s.list \in [QueueNames -> Seq(Ids)]
  BY DEF Store
<1>12. t \in Store
  <2>1. t.list \in [QueueNames -> Seq(Ids)]
    BY <1>5, <1>7, <1>11
  <2> QED BY <1>6, <1>10, <2>1 DEF Requeued, Store, t
<1>13. t.list[q] = s.list[q] \o o
  BY <1>7, <1>11
<1>14. Elsewhere(s, t, q)
  BY <1>6, <1>7, <1>10, <1>11 DEF Elsewhere
<1>15. Local(t, h, q)
  <2>1. \A i \in Ids : Listed(t, q, i) <=> Listed(s, q, i) \/ i \in R
    BY <1>5, <1>13 DEF Listed
  <2>2. IsInjective(t.list[q])
    BY <1>5, <1>13
  <2>3. \A v \in Workers, i \in Ids :
          i \in t.acks[v][q] <=> i \in s.acks[v][q] /\ (v = w => i \notin ids)
    BY <1>10 DEF A
  <2> QED BY <1>2, <1>4, <1>6, <2>1, <2>2, <2>3, SMTT(30) DEF Local
<1>16. Heartbeating(t)
  <2>1. \A v \in Workers, x \in QueueNames : t.acks[v][x] \subseteq s.acks[v][x]
    BY <1>10 DEF A
  <2> QED BY <1>6, <2>1 DEF Consistent, Heartbeating
<1>17. Letters(t, Canonical[q])
  BY <1>6, LettersApart DEF Letters
<1>18. \A i \in t.xqMsgs[Canonical[q]] :
         i \notin t.msgs[q] /\ i \in s.xqMsgs[Canonical[q]]
  BY <1>6, LettersApart
<1> QED BY <1>12, <1>14, <1>15, <1>16, <1>17, <1>18, Frame DEF t

(* A nack moves a message from its queue to the dead letters.              *)
LEMMA NackConsistent ==
  ASSUME NEW s \in Store, NEW h \in Homes, Consistent(s, h),
         NEW w \in Workers, NEW q \in QueueNames, NEW id \in Ids
  PROVE  /\ Nacked(s, w, q, id) \in Store
         /\ Consistent(Nacked(s, w, q, id), h)
<1> DEFINE t == Nacked(s, w, q, id)
           A == s.acks[w][q] \ {id}
           c == Canonical[q]
<1>1. s.acks \in [Workers -> [QueueNames -> SUBSET Ids]]
      /\ s.msgs \in [QueueNames -> SUBSET Ids]
      /\ s.xqMsgs \in [QueueNames -> SUBSET Ids]
      /\ s.xq \in [QueueNames -> [Ids -> Never .. DeadMessageTTL]]
      /\ c \in QueueNames
  BY StoreTypes DEF Store
<1>2. CASE id \notin s.acks[w][q]
  BY <1>2 DEF Nacked
<1>3. CASE id \in s.acks[w][q] /\ id \notin s.msgs[q]
  <2>1. t = [s EXCEPT !.acks[w][q] = @ \ {id}]
    BY <1>3 DEF Nacked
  <2>2. /\ t.list = s.list /\ t.msgs = s.msgs /\ t.heartbeats = s.heartbeats
        /\ t.xq = s.xq /\ t.xqMsgs = s.xqMsgs
    BY <2>1 DEF Store
  <2>3. t.acks = [s.acks EXCEPT ![w] = [s.acks[w] EXCEPT ![q] = A]]
    BY <2>1 DEF Store
  <2>4. t.acks \in [Workers -> [QueueNames -> SUBSET Ids]]
    BY <1>1, <2>3
  <2>5. t \in Store
    BY <2>1, <2>2, <2>4 DEF Store
  <2> HIDE DEF t
  <2>6. /\ t.acks[w][q] = A
        /\ \A v \in Workers \ {w} : t.acks[v] = s.acks[v]
        /\ \A v \in Workers, x \in QueueNames \ {q} : t.acks[v][x] = s.acks[v][x]
    BY <1>1, <2>3
  <2>7. Elsewhere(s, t, q)
    BY <2>2, <2>6 DEF Elsewhere
  <2>8. Local(t, h, q)
    <3>1. Local(s, h, q)
      BY ConsistentHere
    <3> QED BY <1>3, <2>2, <2>6, <3>1 DEF Local, Listed
  <2>9. Heartbeating(t)
    <3>1. \A v \in Workers, x \in QueueNames : t.acks[v][x] \subseteq s.acks[v][x]
      BY <2>6
    <3> QED BY <2>2, <3>1 DEF Consistent, Heartbeating
  <2>10. Letters(t, c)
    BY <2>2, LettersApart DEF Letters
  <2>11. \A i \in t.xqMsgs[c] : i \notin t.msgs[q] /\ i \in s.xqMsgs[c]
    BY <2>2, LettersApart
  <2> QED BY <2>5, <2>7, <2>8, <2>9, <2>10, <2>11, Frame DEF t
<1>4. CASE id \in s.acks[w][q] /\ id \in s.msgs[q]
  <2>1. t = [s EXCEPT !.acks[w][q] = @ \ {id},
                      !.msgs[q] = @ \ {id},
                      !.xq[c][id] = 0,
                      !.xqMsgs[c] = @ \cup {id}]
    BY <1>4 DEF Nacked
  <2>2. t.list = s.list /\ t.heartbeats = s.heartbeats
    BY <2>1 DEF Store
  <2>3. t.acks = [s.acks EXCEPT ![w] = [s.acks[w] EXCEPT ![q] = A]]
    BY <2>1 DEF Store
  <2>4. t.msgs = [s.msgs EXCEPT ![q] = s.msgs[q] \ {id}]
    BY <2>1 DEF Store
  <2>5. t.xq = [s.xq EXCEPT ![c] = [s.xq[c] EXCEPT ![id] = 0]]
    BY <2>1 DEF Store
  <2>6. t.xqMsgs = [s.xqMsgs EXCEPT ![c] = s.xqMsgs[c] \cup {id}]
    BY <2>1 DEF Store
  <2>7. t \in Store
    <3>1. t.acks \in [Workers -> [QueueNames -> SUBSET Ids]]
      BY <1>1, <2>3
    <3>2. t.msgs \in [QueueNames -> SUBSET Ids]
      BY <1>1, <2>4
    <3>3. 0 \in Never .. DeadMessageTTL
      BY TimesAssumption DEF Never
    <3>4. t.xq \in [QueueNames -> [Ids -> Never .. DeadMessageTTL]]
      BY <1>1, <2>5, <3>3
    <3>5. t.xqMsgs \in [QueueNames -> SUBSET Ids]
      BY <1>1, <2>6
    <3> QED BY <2>1, <2>2, <3>1, <3>2, <3>4, <3>5 DEF Store
  <2> HIDE DEF t, c
  <2>8. /\ t.acks[w][q] = A
        /\ \A v \in Workers \ {w} : t.acks[v] = s.acks[v]
        /\ \A v \in Workers, x \in QueueNames \ {q} : t.acks[v][x] = s.acks[v][x]
    BY <1>1, <2>3
  <2>9. t.msgs[q] = s.msgs[q] \ {id} /\ t.xqMsgs[c] = s.xqMsgs[c] \cup {id}
    BY <1>1, <2>4, <2>6
  <2>10. \A x \in Ids : t.xq[c][x] = IF x = id THEN 0 ELSE s.xq[c][x]
    BY <1>1, <2>5
  <2>11. Elsewhere(s, t, q)
    BY <1>1, <2>2, <2>4, <2>5, <2>6, <2>8 DEF Elsewhere, c
  <2>12. Local(s, h, q)
    BY ConsistentHere
  <2>13. Local(t, h, q)
    BY <1>4, <2>2, <2>8, <2>9, <2>12 DEF Local, Listed
  <2>14. Heartbeating(t)
    <3>1. \A v \in Workers, x \in QueueNames : t.acks[v][x] \subseteq s.acks[v][x]
      BY <2>8
    <3> QED BY <2>2, <3>1 DEF Consistent, Heartbeating
  <2>15. Letters(s, c) /\ \A i \in s.xqMsgs[c] : i \notin s.msgs[q]
    BY LettersApart DEF c
  <2>16. Letters(t, c)
    BY <2>9, <2>10, <2>15 DEF Letters, Never
  <2>17. \A i \in t.xqMsgs[c] :
           i \notin t.msgs[q] /\ (i \in s.xqMsgs[c] \/ h[i] = q)
    BY <1>4, <2>9, <2>12, <2>15 DEF Local
  <2> QED BY <2>7, <2>11, <2>13, <2>14, <2>16, <2>17, Frame DEF t, c
<1> QED BY <1>2, <1>3, <1>4
(* A purge empties the queue, the caller's acks and the dead letters; the
   acks of the other workers stay, of messages that are gone.              *)
LEMMA PurgeConsistent ==
  ASSUME NEW s \in Store, NEW h \in Homes, Consistent(s, h),
         NEW w \in Workers, NEW q \in QueueNames
  PROVE  Purged(s, w, q) \in Store /\ Consistent(Purged(s, w, q), h)
<1> DEFINE t == Purged(s, w, q)
           c == Canonical[q]
<1>1. /\ s.acks \in [Workers -> [QueueNames -> SUBSET Ids]]
      /\ s.msgs \in [QueueNames -> SUBSET Ids]
      /\ s.list \in [QueueNames -> Seq(Ids)]
      /\ s.xqMsgs \in [QueueNames -> SUBSET Ids]
      /\ s.xq \in [QueueNames -> [Ids -> Never .. DeadMessageTTL]]
      /\ c \in QueueNames
  BY StoreTypes DEF Store
<1>2. t.heartbeats = s.heartbeats
  BY DEF Purged, Store
<1>3. t.acks = [s.acks EXCEPT ![w] = [s.acks[w] EXCEPT ![q] = {}]]
  BY DEF Purged, Store
<1>4. t.msgs = [s.msgs EXCEPT ![q] = {}] /\ t.list = [s.list EXCEPT ![q] = <<>>]
  BY DEF Purged, Store
<1>5. /\ t.xq = [s.xq EXCEPT ![c] = [id \in Ids |-> Never]]
      /\ t.xqMsgs = [s.xqMsgs EXCEPT ![c] = {}]
  BY DEF Purged, Store
<1>6. t \in Store
  <2>1. t.acks \in [Workers -> [QueueNames -> SUBSET Ids]]
    BY <1>1, <1>3
  <2>2. /\ t.msgs \in [QueueNames -> SUBSET Ids]
        /\ t.list \in [QueueNames -> Seq(Ids)]
    BY <1>1, <1>4
  <2>3. Never \in Never .. DeadMessageTTL
    BY TimesAssumption DEF Never
  <2>4. /\ t.xq \in [QueueNames -> [Ids -> Never .. DeadMessageTTL]]
        /\ t.xqMsgs \in [QueueNames -> SUBSET Ids]
    BY <1>1, <1>5, <2>3
  <2> QED BY <1>2, <2>1, <2>2, <2>4 DEF Purged, Store
<1> HIDE DEF t, c
<1>7. /\ t.acks[w][q] = {}
      /\ \A v \in Workers \ {w} : t.acks[v] = s.acks[v]
      /\ \A v \in Workers, x \in QueueNames \ {q} : t.acks[v][x] = s.acks[v][x]
  BY <1>1, <1>3
<1>8. /\ t.list[q] = <<>> /\ t.msgs[q] = {}
      /\ t.xq[c] = [id \in Ids |-> Never] /\ t.xqMsgs[c] = {}
  BY <1>1, <1>4, <1>5
<1>9. Elsewhere(s, t, q)
  BY <1>1, <1>4, <1>5, <1>7 DEF Elsewhere, c
<1>10. Local(t, h, q)
  <2>1. Local(s, h, q)
    BY ConsistentHere
  <2>2. IsInjective(t.list[q]) /\ \A id \in Ids : ~Listed(t, q, id)
    BY <1>8 DEF IsInjective, Listed, ToSet
  <2> QED BY <1>7, <1>8, <2>1, <2>2 DEF Local
<1>11. Heartbeating(t)
  <2>1. \A v \in Workers, x \in QueueNames : t.acks[v][x] \subseteq s.acks[v][x]
    BY <1>7
  <2> QED BY <1>2, <2>1 DEF Consistent, Heartbeating
<1>12. Letters(t, c)
  BY <1>8 DEF Letters
<1> QED BY <1>6, <1>8, <1>9, <1>10, <1>11, <1>12, Frame DEF t, c

(* Maintenance moves the ids dead workers hold of the queue back to its
   list; a worker that still holds something keeps its heartbeat.          *)
LEMMA MaintenanceConsistent ==
  ASSUME NEW s \in Store, NEW h \in Homes, Consistent(s, h),
         NEW q \in QueueNames, NEW o \in Orders(Orphans(s, q))
  PROVE  Maintained(s, q, o) \in Store /\ Consistent(Maintained(s, q, o), h)
<1> DEFINE t == Maintained(s, q, o)
           c == Canonical[q]
           R == Orphans(s, q)
           D == Dead(s)
           E == Expired(s, c)
<1>1. /\ s.acks \in [Workers -> [QueueNames -> SUBSET Ids]]
      /\ s.heartbeats \in [Workers -> Never .. HeartbeatTimeout]
      /\ s.list \in [QueueNames -> Seq(Ids)]
      /\ s.xqMsgs \in [QueueNames -> SUBSET Ids]
      /\ s.xq \in [QueueNames -> [Ids -> Never .. DeadMessageTTL]]
      /\ c \in QueueNames
  BY StoreTypes DEF Store
<1>2. R \in SUBSET Ids /\ R = {id \in s.msgs[q] : \E d \in D : id \in s.acks[d][q]}
  BY StoreTypes DEF Orphans
<1>3. o \in Seq(Ids) /\ ToSet(o) = R /\ IsInjective(o)
  <2> HIDE DEF R
  <2>1. o \in Orders(R)
    BY DEF R
  <2> QED BY <1>2, <2>1, OrderFacts
<1>4. D \subseteq Workers
  BY DEF Dead
<1> HIDE DEF R
<1>5. Local(s, h, q)
  BY ConsistentHere
<1>6. /\ s.list[q] \o o \in Seq(Ids)
      /\ ToSet(s.list[q] \o o) = ToSet(s.list[q]) \cup R
      /\ IsInjective(s.list[q] \o o)
  <2>1. ToSet(s.list[q]) \cap ToSet(o) = {} /\ IsInjective(s.list[q])
    BY <1>2, <1>3, <1>4, <1>5 DEF Local, Listed
  <2> QED BY <1>1, <1>3, <2>1, ConcatFacts
<1>7. /\ t.msgs = s.msgs /\ t.acks = AcksLeft(s, q)
      /\ t.heartbeats = HeartbeatsLeft(s, q)
  BY DEF Maintained, Store
<1>8. t.list = [s.list EXCEPT ![q] = s.list[q] \o o]
  BY DEF Maintained, Store
<1>9. /\ t.xq = [s.xq EXCEPT ![c] =
                   [id \in Ids |-> IF id \in E THEN Never ELSE s.xq[c][id]]]
      /\ t.xqMsgs = [s.xqMsgs EXCEPT ![c] = s.xqMsgs[c] \ E]
  BY DEF Maintained, Store
<1> HIDE DEF D
<1>10. t.acks = [v \in Workers |-> IF v \in D THEN [s.acks[v] EXCEPT ![q] = {}]
                                   ELSE s.acks[v]]
  BY <1>7 DEF AcksLeft, D
<1>11. /\ t.heartbeats \in [Workers -> Never .. HeartbeatTimeout]
       /\ \A v \in Workers : t.heartbeats[v] \in {Never, s.heartbeats[v]}
       /\ \A v \in Workers : t.heartbeats[v] # s.heartbeats[v]
            => \A p \in QueueNames : t.acks[v][p] = {}
  <2>1. Never \in Never .. HeartbeatTimeout
    BY TimesAssumption DEF Never
  <2> QED BY <1>1, <1>7, <2>1 DEF HeartbeatsLeft
<1>12. t \in Store
  <2>1. t.list \in [QueueNames -> Seq(Ids)]
    BY <1>1, <1>6, <1>8
  <2>2. t.acks \in [Workers -> [QueueNames -> SUBSET Ids]]
    BY <1>1, <1>10
  <2>3. Never \in Never .. DeadMessageTTL
    BY TimesAssumption DEF Never
  <2>4. t.xq \in [QueueNames -> [Ids -> Never .. DeadMessageTTL]]
    BY <1>1, <1>9, <2>3
  <2>5. t.xqMsgs \in [QueueNames -> SUBSET Ids]
    BY <1>1, <1>9
  <2> QED BY <1>7, <1>11, <2>1, <2>2, <2>4, <2>5 DEF Maintained, Store
<1> HIDE DEF t, c, E
<1>13. /\ \A v \in Workers : t.acks[v][q] = IF v \in D THEN {} ELSE s.acks[v][q]
       /\ \A v \in Workers, x \in QueueNames \ {q} : t.acks[v][x] = s.acks[v][x]
  BY <1>1, <1>10
<1>14. t.list[q] = s.list[q] \o o /\ t.xqMsgs[c] = s.xqMsgs[c] \ E
       /\ t.xq[c] = [id \in Ids |-> IF id \in E THEN Never ELSE s.xq[c][id]]
  BY <1>1, <1>8, <1>9
<1>15. Elsewhere(s, t, q)
  BY <1>1, <1>7, <1>8, <1>9, <1>13 DEF Elsewhere, c
<1>16. Local(t, h, q)
  <2>1. \A i \in Ids : Listed(t, q, i) <=> Listed(s, q, i) \/ i \in R
    BY <1>6, <1>14 DEF Listed
  <2>2. IsInjective(t.list[q])
    BY <1>6, <1>14
  <2>3. \A i \in R : i \in s.msgs[q] /\ \E d \in D : i \in s.acks[d][q]
    BY <1>2
  <2>4. \A i \in Ids, d \in D : i \in s.msgs[q] /\ i \in s.acks[d][q] => i \in R
    BY <1>2
  <2>5. ASSUME NEW i \in Ids
        PROVE  /\ i \in t.msgs[q] => Listed(t, q, i)
                                     \/ \E v \in Workers : i \in t.acks[v][q]
               /\ Listed(t, q, i) => i \in t.msgs[q]
               /\ \A v \in Workers : i \in t.acks[v][q] => ~Listed(t, q, i)
    <3>1. t.msgs = s.msgs
      BY <1>7
    <3>2. i \in t.msgs[q] => Listed(t, q, i)
                             \/ \E v \in Workers : i \in t.acks[v][q]
      BY <1>5, <1>13, <2>1, <2>4, <3>1 DEF Local
    <3>3. Listed(t, q, i) => i \in t.msgs[q]
      BY <1>5, <2>1, <2>3, <3>1 DEF Local
    <3>4. \A v \in Workers : i \in t.acks[v][q] => ~Listed(t, q, i)
      BY <1>4, <1>5, <1>13, <2>1, <2>3 DEF Local
    <3> QED BY <3>2, <3>3, <3>4
  <2> QED BY <1>5, <1>7, <1>13, <2>2, <2>5 DEF Local
<1>17. Heartbeating(t)
  <2>1. \A v \in Workers, x \in QueueNames : t.acks[v][x] \subseteq s.acks[v][x]
    BY <1>13
  <2> QED BY <1>11, <2>1 DEF Consistent, Heartbeating
<1>18. Letters(s, c) /\ \A i \in s.xqMsgs[c] : i \notin s.msgs[q]
  BY LettersApart DEF c
<1>19. Letters(t, c)
  BY <1>14, <1>18 DEF Letters
<1>20. \A i \in t.xqMsgs[c] : i \notin t.msgs[q] /\ i \in s.xqMsgs[c]
  BY <1>7, <1>14, <1>18
<1> QED BY <1>12, <1>15, <1>16, <1>17, <1>19, <1>20, Frame DEF t, c
-----------------------------------------------------------------------------
(* Beyond consistency: what a command of w leaves as it was.               *)

(* The messages of t are messages of s, and only a worker that is dead in
   s, or w itself, loses acks.                                             *)
Spares(s, t, w) ==
  /\ \A p \in QueueNames : t.msgs[p] \subseteq s.msgs[p]
  /\ t.heartbeats[w] = 0
  /\ \A v \in Workers \ {w}, p \in QueueNames :
       s.acks[v][p] \subseteq t.acks[v][p] \/ s.heartbeats[v] = HeartbeatTimeout
  /\ \A v \in Workers \ {w} : t.heartbeats[v] \in {s.heartbeats[v], Never}

(* The command proper changes no heartbeat and no acks but the caller's.   *)
LEMMA CommandSpares ==
  ASSUME NEW s \in Store, NEW t \in Store, NEW u \in Store, NEW w \in Workers,
         Spares(s, t, w),
         \A p \in QueueNames : u.msgs[p] \subseteq t.msgs[p],
         u.heartbeats = t.heartbeats,
         \A v \in Workers \ {w}, p \in QueueNames : u.acks[v][p] = t.acks[v][p]
  PROVE  Spares(s, u, w)
BY DEF Spares

LEMMA HeartbeatSpares ==
  ASSUME NEW s \in Store, NEW w \in Workers
  PROVE  Spares(s, Heartbeat(s, w), w)
BY DEF Spares, Heartbeat, Store

LEMMA PrologueFacts ==
  ASSUME NEW s \in Store, NEW h \in Homes, Consistent(s, h),
         NEW w \in Workers, NEW q \in QueueNames, NEW m \in BOOLEAN,
         NEW t \in Prologue(s, w, q, m)
  PROVE  t \in Store /\ Consistent(t, h) /\ t.heartbeats[w] # Never
         /\ Spares(s, t, w) /\ t.acks[w] = s.acks[w]
<1> DEFINE b == Heartbeat(s, w)
<1>1. b \in Store /\ Consistent(b, h)
  BY HeartbeatConsistent
<1>2. Spares(s, b, w) /\ b.acks = s.acks
  BY HeartbeatSpares DEF Heartbeat, Store
<1>3. CASE t = b
  BY <1>1, <1>2, <1>3 DEF Spares, Never
<1>4. CASE \E o \in Orders(Orphans(b, q)) : t = Maintained(b, q, o)
  <2>1. PICK o \in Orders(Orphans(b, q)) : t = Maintained(b, q, o)
    BY <1>4
  <2>2. t \in Store /\ Consistent(t, h)
    BY <1>1, <2>1, MaintenanceConsistent
  <2>3. \A v \in Workers \ {w} : b.heartbeats[v] = s.heartbeats[v]
    BY DEF Heartbeat, Store
  <2>4. b.acks = s.acks /\ b.msgs = s.msgs /\ b.heartbeats[w] = 0
    BY DEF Heartbeat, Store
  <2> HIDE DEF b
  <2>5. t.msgs = b.msgs /\ t.acks = AcksLeft(b, q)
        /\ t.heartbeats = HeartbeatsLeft(b, q)
    BY <1>1, <2>1 DEF Maintained, Store
  <2>6. w \notin Dead(b)
    BY <2>4, TimesAssumption DEF Dead
  <2>7. t.heartbeats[w] = 0
    BY <2>4, <2>5, <2>6 DEF HeartbeatsLeft
  <2>8. ASSUME NEW v \in Workers \ {w}, NEW p \in QueueNames,
               s.heartbeats[v] # HeartbeatTimeout
        PROVE  t.acks[v][p] = s.acks[v][p]
    <3>1. b.heartbeats[v] < HeartbeatTimeout
      BY <2>3, <2>8, TimesAssumption DEF Store, Never
    <3>2. v \notin Dead(b)
      BY <3>1, TimesAssumption, <1>1 DEF Dead, Store, Never
    <3> QED BY <2>4, <2>5, <3>2 DEF AcksLeft
  <2>9. \A v \in Workers \ {w} : t.heartbeats[v] \in {s.heartbeats[v], Never}
    BY <2>3, <2>5 DEF HeartbeatsLeft
  <2>10. Spares(s, t, w)
    BY <2>4, <2>5, <2>7, <2>8, <2>9 DEF Spares
  <2>11. t.acks[w] = s.acks[w]
    BY <2>4, <2>5, <2>6 DEF AcksLeft
  <2> QED BY <2>2, <2>7, <2>10, <2>11 DEF Never
<1> QED BY <1>3, <1>4 DEF Prologue

(* The same of each command.                                               *)
LEMMA SettleSpares ==
  ASSUME NEW s \in Store, NEW w \in Workers, NEW q \in QueueNames,
         NEW id \in Ids, NEW u \in {Acknowledged(s, w, q, id), Nacked(s, w, q, id)}
  PROVE  /\ \A p \in QueueNames : u.msgs[p] \subseteq s.msgs[p]
         /\ u.heartbeats = s.heartbeats
         /\ \A v \in Workers \ {w}, p \in QueueNames : u.acks[v][p] = s.acks[v][p]
<1>1. \/ u = s
      \/ u = [s EXCEPT !.acks[w][q] = @ \ {id}, !.msgs[q] = @ \ {id}]
      \/ u = [s EXCEPT !.acks[w][q] = @ \ {id}]
      \/ u = [s EXCEPT !.acks[w][q] = @ \ {id},
                       !.msgs[q] = @ \ {id},
                       !.xq[Canonical[q]][id] = 0,
                       !.xqMsgs[Canonical[q]] = @ \cup {id}]
  BY DEF Acknowledged, Nacked
<1>2. \/ u.msgs = s.msgs
      \/ u.msgs = [s.msgs EXCEPT ![q] = @ \ {id}]
  BY <1>1 DEF Store
<1>3. u.heartbeats = s.heartbeats
  BY <1>1 DEF Store
<1>4. u.acks = s.acks \/ u.acks = [s.acks EXCEPT ![w][q] = @ \ {id}]
  BY <1>1 DEF Store
<1>5. \A p \in QueueNames : u.msgs[p] \subseteq s.msgs[p]
  BY <1>2 DEF Store
<1>6. \A v \in Workers \ {w}, p \in QueueNames : u.acks[v][p] = s.acks[v][p]
  BY <1>4 DEF Store
<1> QED BY <1>3, <1>5, <1>6

LEMMA FetchSpares ==
  ASSUME NEW s \in Store, NEW w \in Workers, NEW q \in QueueNames, NEW n \in Nat
  PROVE  /\ Fetched(s, w, q, n).msgs = s.msgs
         /\ Fetched(s, w, q, n).heartbeats = s.heartbeats
         /\ \A v \in Workers \ {w}, p \in QueueNames :
              Fetched(s, w, q, n).acks[v][p] = s.acks[v][p]
BY DEF Fetched, Store

LEMMA RequeueSpares ==
  ASSUME NEW s \in Store, NEW w \in Workers, NEW q \in QueueNames, NEW ids, NEW o
  PROVE  /\ Requeued(s, w, q, ids, o).msgs = s.msgs
         /\ Requeued(s, w, q, ids, o).heartbeats = s.heartbeats
         /\ \A v \in Workers \ {w}, p \in QueueNames :
              Requeued(s, w, q, ids, o).acks[v][p] = s.acks[v][p]
BY DEF Requeued, Store

LEMMA PurgeSpares ==
  ASSUME NEW s \in Store, NEW w \in Workers, NEW q \in QueueNames
  PROVE  /\ \A p \in QueueNames : Purged(s, w, q).msgs[p] \subseteq s.msgs[p]
         /\ Purged(s, w, q).heartbeats = s.heartbeats
         /\ \A v \in Workers \ {w}, p \in QueueNames :
              Purged(s, w, q).acks[v][p] = s.acks[v][p]
BY DEF Purged, Store
-----------------------------------------------------------------------------
(* The inductive invariant, and what each action does to it.               *)

IInv == TypeOK /\ Consistent(store, home)

LEMMA SafetyIsConsistency == Safety <=> IInv
BY DEF Safety, IInv, Consistent, NothingStranded, NoneFetched, OnePlace,
       AcksHaveHeartbeat, DeadLettersApart, AtHome

LEMMA InitEstablishes == Init => IInv
<1> SUFFICES ASSUME Init PROVE IInv
  OBVIOUS
<1>1. store = EmptyStore /\ home \in Homes
  BY DEF Init, Homes
<1>2. store \in Store
  BY <1>1, TimesAssumption DEF EmptyStore, Store, Never
<1>3. TypeOK
  BY <1>2 DEF Init, TypeOK
<1>4. ASSUME NEW q \in QueueNames
      PROVE  Stranded(store, q) = {} /\ ToSet(store.list[q]) \subseteq store.msgs[q]
             /\ InOnePlace(store, q) /\ Apart(store, q) /\ Homed(store, home, q)
  <2>1. /\ store.list[q] = <<>> /\ store.msgs[q] = {} /\ store.xqMsgs[q] = {}
        /\ \A w \in Workers : store.acks[w][q] = {}
        /\ \A id \in Ids : store.xq[q][id] = Never
        /\ \A p \in QueueNames : store.msgs[p] = {}
    BY <1>1 DEF EmptyStore
  <2>2. Acked(store, q) = {} /\ ToSet(store.list[q]) = {}
    BY <2>1 DEF Acked, ToSet
  <2>3. Apart(store, q)
    BY <2>1 DEF Apart
  <2> QED BY <2>1, <2>2, <2>3 DEF Stranded, InOnePlace, IsInjective, Homed
<1>5. Heartbeating(store)
  BY <1>1 DEF EmptyStore, Heartbeating
<1> QED BY <1>3, <1>4, <1>5 DEF IInv, Consistent

LEMMA PrologueStep ==
  ASSUME IInv, NEW w \in Workers, NEW q \in QueueNames, NEW s \in Prologues(w, q)
  PROVE  s \in Store /\ Consistent(s, home) /\ s.heartbeats[w] # Never
         /\ Spares(store, s, w) /\ s.acks[w] = store.acks[w]
<1>1. PICK m \in BOOLEAN : s \in Prologue(store, w, q, m)
  BY DEF Prologues
<1> QED BY <1>1, PrologueFacts DEF IInv, TypeOK, Homes

LEMMA EnqueueStep ==
  ASSUME IInv, NEW w \in Workers, NEW q \in QueueNames, Enqueue(w, q)
  PROVE  IInv' /\ \E id \in Ids :
           /\ home[id] = NoQueue
           /\ \A p \in QueueNames : store'.msgs[p] \subseteq store.msgs[p] \cup {id}
           /\ store'.heartbeats[w] = 0
           /\ \A v \in Workers \ {w}, p \in QueueNames :
                store.acks[v][p] \subseteq store'.acks[v][p]
                  \/ store.heartbeats[v] = HeartbeatTimeout
           /\ \A v \in Workers \ {w} :
                store'.heartbeats[v] \in {store.heartbeats[v], Never}
<1>1. PICK id \in Ids, s \in Prologues(w, q) :
        /\ home[id] = NoQueue
        /\ home' = [home EXCEPT ![id] = q]
        /\ store' = Enqueued(s, q, id)
  BY DEF Enqueue
<1>2. s \in Store /\ Consistent(s, home) /\ Spares(store, s, w)
  BY PrologueStep
<1>3. store' \in Store /\ home' \in Homes /\ Consistent(store', home')
  BY <1>1, <1>2, EnqueueConsistent DEF IInv, TypeOK, Homes
<1>4. IInv'
  BY <1>3 DEF IInv, TypeOK, Enqueue, Homes
<1>5. /\ store'.msgs = [s.msgs EXCEPT ![q] = @ \cup {id}]
      /\ store'.acks = s.acks /\ store'.heartbeats = s.heartbeats
  BY <1>1, <1>2 DEF Enqueued, Store
<1>6. \A p \in QueueNames : store'.msgs[p] \subseteq s.msgs[p] \cup {id}
  BY <1>2, <1>5 DEF Store
<1> QED BY <1>1, <1>2, <1>4, <1>5, <1>6 DEF Spares

LEMMA FetchStep ==
  ASSUME IInv, NEW w \in Workers, NEW q \in QueueNames, Fetch(w, q)
  PROVE  IInv' /\ Spares(store, store', w)
<1>1. PICK s \in Prologues(w, q) : FetchFrom(w, q, s)
  BY DEF Fetch
<1>2. s \in Store /\ Consistent(s, home) /\ Spares(store, s, w)
      /\ s.heartbeats[w] # Never
  BY PrologueStep
<1> DEFINE n == Prefetch - Cardinality(held[w][q])
<1>3. n \in Nat /\ store' = Fetched(s, w, q, n)
  <2>1. IsFiniteSet(held[w][q])
    BY IdsAssumption, FS_Subset DEF IInv, TypeOK
  <2>2. Cardinality(held[w][q]) \in Nat
    BY <2>1, FS_CardinalityType
  <2> QED BY <1>1, <2>2, ClientAssumption DEF FetchFrom
<1>4. Delivered(s, q, n) \subseteq Ids
  BY <1>2, StoreTypes DEF Delivered
<1>5. held' \in [Workers -> [QueueNames -> SUBSET Ids]]
  <2>1. held' = held \/ held' = [held EXCEPT ![w] =
                          [held[w] EXCEPT ![q] = held[w][q] \cup Delivered(s, q, n)]]
    BY <1>1 DEF FetchFrom
  <2>2. held \in [Workers -> [QueueNames -> SUBSET Ids]]
    BY DEF IInv, TypeOK
  <2> HIDE DEF n
  <2> QED BY <1>4, <2>1, <2>2
<1> HIDE DEF n
<1>6. store' \in Store /\ Consistent(store', home)
  BY <1>2, <1>3, FetchConsistent DEF IInv, TypeOK, Homes
<1>7. IInv'
  BY <1>5, <1>6 DEF IInv, TypeOK, Fetch
<1>8. Spares(store, store', w)
  BY <1>2, <1>3, <1>6, FetchSpares, CommandSpares DEF IInv, TypeOK
<1> QED BY <1>7, <1>8

LEMMA SettleStep ==
  ASSUME IInv, NEW w \in Workers, NEW q \in QueueNames, NEW id \in Ids,
         Ack(w, q, id) \/ Nack(w, q, id)
  PROVE  IInv' /\ Spares(store, store', w)
<1> DEFINE s == Heartbeat(store, w)
<1>1. s \in Store /\ Consistent(s, home) /\ Spares(store, s, w)
  BY HeartbeatConsistent, HeartbeatSpares DEF IInv, TypeOK, Homes
<1>2. store' \in {Acknowledged(s, w, q, id), Nacked(s, w, q, id)}
  BY DEF Ack, Nack
<1> HIDE DEF s
<1>3. store' \in Store /\ Consistent(store', home)
  BY <1>1, <1>2, AckConsistent, NackConsistent DEF IInv, TypeOK, Homes
<1>4. held' \in [Workers -> [QueueNames -> SUBSET Ids]]
  <2>1. held' = held \/ held' = [held EXCEPT ![w] =
                                   [held[w] EXCEPT ![q] = held[w][q] \ {id}]]
    BY DEF Ack, Nack, Settle
  <2>2. held \in [Workers -> [QueueNames -> SUBSET Ids]]
    BY DEF IInv, TypeOK
  <2> QED BY <2>1, <2>2
<1>5. alive' = alive /\ home' = home
  BY DEF Ack, Nack, Settle
<1>6. IInv'
  BY <1>3, <1>4, <1>5 DEF IInv, TypeOK
<1>7. Spares(store, store', w)
  <2>1. /\ \A p \in QueueNames : store'.msgs[p] \subseteq s.msgs[p]
        /\ store'.heartbeats = s.heartbeats
        /\ \A v \in Workers \ {w}, p \in QueueNames :
             store'.acks[v][p] = s.acks[v][p]
    BY <1>1, <1>2, SettleSpares
  <2>2. store \in Store
    BY DEF IInv, TypeOK
  <2> QED BY <1>1, <1>3, <2>1, <2>2, CommandSpares
<1> QED BY <1>6, <1>7

LEMMA RequeueStep ==
  ASSUME IInv, NEW w \in Workers, NEW q \in QueueNames, Requeue(w, q)
  PROVE  IInv' /\ Spares(store, store', w)
<1>1. PICK ids \in (SUBSET held[w][q]) \ {{}}, s \in Prologues(w, q) :
        /\ held' = [held EXCEPT ![w][q] = @ \ ids]
        /\ \E o \in Orders(Returnable(s, w, q, ids)) :
             store' = Requeued(s, w, q, ids, o)
  BY DEF Requeue
<1>2. PICK o \in Orders(Returnable(s, w, q, ids)) :
        store' = Requeued(s, w, q, ids, o)
  BY <1>1
<1>3. s \in Store /\ Consistent(s, home) /\ Spares(store, s, w)
  BY PrologueStep
<1>4. ids \in SUBSET Ids
  BY DEF IInv, TypeOK
<1>5. store' \in Store /\ Consistent(store', home)
  BY <1>2, <1>3, <1>4, RequeueConsistent DEF IInv, TypeOK, Homes
<1>6. held' \in [Workers -> [QueueNames -> SUBSET Ids]]
  <2>1. held \in [Workers -> [QueueNames -> SUBSET Ids]]
    BY DEF IInv, TypeOK
  <2> QED BY <1>1, <2>1
<1>7. IInv'
  BY <1>5, <1>6 DEF IInv, TypeOK, Requeue
<1>8. Spares(store, store', w)
  BY <1>2, <1>3, <1>5, RequeueSpares, CommandSpares DEF IInv, TypeOK
<1> QED BY <1>7, <1>8

LEMMA PurgeStep ==
  ASSUME IInv, NEW w \in Workers, NEW q \in QueueNames, Purge(w, q)
  PROVE  IInv' /\ Spares(store, store', w)
<1>1. PICK s \in Prologues(w, q) : store' = Purged(s, w, q)
  BY DEF Purge
<1>2. s \in Store /\ Consistent(s, home) /\ Spares(store, s, w)
  BY PrologueStep
<1>3. store' \in Store /\ Consistent(store', home)
  BY <1>1, <1>2, PurgeConsistent DEF IInv, TypeOK, Homes
<1>4. IInv'
  BY <1>3 DEF IInv, TypeOK, Purge
<1>5. Spares(store, store', w)
  BY <1>1, <1>2, <1>3, PurgeSpares, CommandSpares DEF IInv, TypeOK
<1> QED BY <1>4, <1>5

LEMMA PollStep ==
  ASSUME IInv, NEW w \in Workers, NEW q \in QueueNames, Poll(w, q)
  PROVE  IInv' /\ Spares(store, store', w)
<1>1. store' \in Prologues(w, q)
  BY DEF Poll
<1>2. store' \in Store /\ Consistent(store', home) /\ Spares(store, store', w)
  BY <1>1, PrologueStep
<1> QED BY <1>2 DEF IInv, TypeOK, Poll

(* Time passes: only ages change, and an age that is Never stays Never.    *)
LEMMA TickStep ==
  ASSUME IInv, Tick
  PROVE  IInv' /\ store'.acks = store.acks /\ store'.msgs = store.msgs
<1>1. /\ store'.list = store.list /\ store'.msgs = store.msgs
      /\ store'.acks = store.acks /\ store'.xqMsgs = store.xqMsgs
  BY DEF Tick, IInv, TypeOK, Store
<1>2. store'.heartbeats =
        [w \in Workers |-> Older(store.heartbeats[w], HeartbeatTimeout)]
  BY DEF Tick, IInv, TypeOK, Store
<1>3. store'.xq = [q \in QueueNames |->
                     [id \in Ids |-> Older(store.xq[q][id], DeadMessageTTL)]]
  BY DEF Tick, IInv, TypeOK, Store
<1>4. \A b \in Nat \ {0} : \A a \in Never .. b :
        /\ Older(a, b) \in Never .. b
        /\ Older(a, b) = Never <=> a = Never
  BY DEF Older, Never
<1>5. /\ store.heartbeats \in [Workers -> Never .. HeartbeatTimeout]
      /\ store.xq \in [QueueNames -> [Ids -> Never .. DeadMessageTTL]]
  BY DEF IInv, TypeOK, Store
<1>6. /\ store'.heartbeats \in [Workers -> Never .. HeartbeatTimeout]
      /\ \A w \in Workers : store'.heartbeats[w] = Never
                              <=> store.heartbeats[w] = Never
  BY <1>2, <1>4, <1>5, TimesAssumption
<1>7. /\ store'.xq \in [QueueNames -> [Ids -> Never .. DeadMessageTTL]]
      /\ \A q \in QueueNames, id \in Ids :
           store'.xq[q][id] = Never <=> store.xq[q][id] = Never
  BY <1>3, <1>4, <1>5, TimesAssumption
<1>8. store' \in Store
  BY <1>1, <1>6, <1>7 DEF Tick, IInv, TypeOK, Store
<1>9. Heartbeating(store')
  BY <1>1, <1>6 DEF IInv, Consistent, Heartbeating
<1>10. ASSUME NEW q \in QueueNames
       PROVE  /\ Stranded(store', q) = {}
              /\ ToSet(store'.list[q]) \subseteq store'.msgs[q]
              /\ InOnePlace(store', q) /\ Apart(store', q)
              /\ Homed(store', home, q)
  <2>1. Acked(store', q) = Acked(store, q)
    BY <1>1 DEF Acked
  <2>2. /\ Stranded(store, q) = {} /\ ToSet(store.list[q]) \subseteq store.msgs[q]
        /\ InOnePlace(store, q) /\ Apart(store, q) /\ Homed(store, home, q)
    BY DEF IInv, Consistent
  <2>3. Apart(store', q)
    BY <1>1, <1>7, <2>2 DEF Apart
  <2>4. Stranded(store', q) = {} /\ InOnePlace(store', q) /\ Homed(store', home, q)
    BY <1>1, <2>1, <2>2 DEF Stranded, InOnePlace, Homed
  <2> QED BY <1>1, <2>2, <2>3, <2>4
<1> QED BY <1>1, <1>8, <1>9, <1>10 DEF IInv, TypeOK, Tick, Consistent

LEMMA CrashStep ==
  ASSUME IInv, NEW w \in Workers, Crash(w)
  PROVE  IInv' /\ store' = store
<1>1. held \in [Workers -> [QueueNames -> SUBSET Ids]]
  BY DEF IInv, TypeOK
<1>2. held' \in [Workers -> [QueueNames -> SUBSET Ids]]
  BY <1>1 DEF Crash
<1>3. alive' \subseteq Workers /\ store' = store /\ home' = home
  BY DEF IInv, TypeOK, Crash
<1> QED BY <1>2, <1>3 DEF IInv, TypeOK

LEMMA ForgetStep ==
  ASSUME IInv, NEW w \in Workers, NEW q \in QueueNames, Forget(w, q)
  PROVE  IInv' /\ store' = store
<1>1. held' = [held EXCEPT ![w] = [held[w] EXCEPT ![q] = {}]]
  BY DEF Forget
<1>2. held \in [Workers -> [QueueNames -> SUBSET Ids]]
  BY DEF IInv, TypeOK
<1>3. held' \in [Workers -> [QueueNames -> SUBSET Ids]]
  BY <1>1, <1>2
<1> QED BY <1>3 DEF IInv, TypeOK, Forget

-----------------------------------------------------------------------------
(* The theorems.                                                           *)

LEMMA NextPreserves == IInv /\ [Next]_vars => IInv'
<1> SUFFICES ASSUME IInv, [Next]_vars PROVE IInv'
  OBVIOUS
<1>1. ASSUME NEW w \in Workers, NEW q \in QueueNames, Enqueue(w, q) PROVE IInv'
  BY <1>1, EnqueueStep
<1>2. ASSUME NEW w \in Workers, NEW q \in QueueNames, Fetch(w, q) PROVE IInv'
  BY <1>2, FetchStep
<1>3. ASSUME NEW w \in Workers, NEW q \in QueueNames, NEW id \in Ids,
             Ack(w, q, id) \/ Nack(w, q, id)
      PROVE  IInv'
  BY <1>3, SettleStep
<1>4. ASSUME NEW w \in Workers, NEW q \in QueueNames, Requeue(w, q) PROVE IInv'
  BY <1>4, RequeueStep
<1>5. ASSUME NEW w \in Workers, NEW q \in QueueNames, Forget(w, q) PROVE IInv'
  BY <1>5, ForgetStep
<1>6. ASSUME NEW w \in Workers, NEW q \in QueueNames, Purge(w, q) PROVE IInv'
  BY <1>6, PurgeStep
<1>7. ASSUME NEW w \in Workers, NEW q \in QueueNames, Poll(w, q) PROVE IInv'
  BY <1>7, PollStep
<1>8. ASSUME NEW w \in Workers, Crash(w) PROVE IInv'
  BY <1>8, CrashStep
<1>9. CASE Tick
  BY <1>9, TickStep
<1>10. CASE UNCHANGED vars
  BY <1>10 DEF IInv, TypeOK, vars
<1> QED BY <1>1, <1>2, <1>3, <1>4, <1>5, <1>6, <1>7, <1>8, <1>9, <1>10 DEF Next

(* The invariant is inductive, so it holds of every reachable state.       *)
THEOREM Inductive == Spec => []IInv
BY InitEstablishes, NextPreserves, PTL DEF Spec

(* However commands of any number of brokers interleave with maintenance,
   crashes and lost replies, no message is stranded outside the lists and
   acks from which it can be fetched, settled or recovered.                *)
THEOREM NoMessageStranded == Spec => []NothingStranded
<1>1. IInv => NothingStranded
  BY DEF IInv, Consistent, NothingStranded
<1> QED BY <1>1, Inductive, PTL

(* An id is listed once or held by one worker, never both.                 *)
THEOREM OnePlaceOnly == Spec => []OnePlace
<1>1. IInv => OnePlace
  BY DEF IInv, Consistent, OnePlace
<1> QED BY <1>1, Inductive, PTL

(* All the safety invariants of the queues together: the store and the
   brokers keep their types, and the store is consistent.                  *)
THEOREM StoreSafe == Spec => []Safety
<1>1. IInv => Safety
  BY SafetyIsConsistency
<1> QED BY <1>1, Inductive, PTL

(* What any step leaves of messages and of acks.                           *)
LEMMA StepSpares ==
  ASSUME IInv, [Next]_vars
  PROVE  \/ store'.msgs = store.msgs /\ store'.acks = store.acks
         \/ \E w \in Workers, q \in QueueNames : Enqueue(w, q)
         \/ \E w \in Workers : Spares(store, store', w)
<1>1. ASSUME NEW w \in Workers, NEW q \in QueueNames, Fetch(w, q)
      PROVE  Spares(store, store', w)
  BY <1>1, FetchStep
<1>2. ASSUME NEW w \in Workers, NEW q \in QueueNames, NEW id \in Ids,
             Ack(w, q, id) \/ Nack(w, q, id)
      PROVE  Spares(store, store', w)
  BY <1>2, SettleStep
<1>3. ASSUME NEW w \in Workers, NEW q \in QueueNames, Requeue(w, q)
      PROVE  Spares(store, store', w)
  BY <1>3, RequeueStep
<1>4. ASSUME NEW w \in Workers, NEW q \in QueueNames, Forget(w, q)
      PROVE  store' = store
  BY <1>4 DEF Forget
<1>5. ASSUME NEW w \in Workers, NEW q \in QueueNames, Purge(w, q)
      PROVE  Spares(store, store', w)
  BY <1>5, PurgeStep
<1>6. ASSUME NEW w \in Workers, NEW q \in QueueNames, Poll(w, q)
      PROVE  Spares(store, store', w)
  BY <1>6, PollStep
<1>7. ASSUME NEW w \in Workers, Crash(w) PROVE store' = store
  BY <1>7 DEF Crash
<1>8. ASSUME Tick PROVE store'.msgs = store.msgs /\ store'.acks = store.acks
  BY <1>8, TickStep
<1>9. ASSUME UNCHANGED vars PROVE store' = store
  BY <1>9 DEF vars
<1> QED BY <1>1, <1>2, <1>3, <1>4, <1>5, <1>6, <1>7, <1>8, <1>9 DEF Next

(* Once the message of an id is gone, no command, late or repeated, of any
   broker brings the id or its message back.                               *)
THEOREM StaysSettled == Spec => SettledForGood
<1> DEFINE Stays == \A q \in QueueNames :
                      \A id \in store'.msgs[q] \cup ToSet(store'.list[q]) :
                        home[id] = NoQueue \/ id \in store.msgs[q]
<1>1. ASSUME IInv, IInv', [Next]_vars PROVE Stays
  <2>1. \A q \in QueueNames : ToSet(store'.list[q]) \subseteq store'.msgs[q]
    BY <1>1 DEF IInv, Consistent
  <2>2. CASE \E w \in Workers, q \in QueueNames : Enqueue(w, q)
    <3>1. \E i \in Ids : /\ home[i] = NoQueue
                         /\ \A p \in QueueNames :
                              store'.msgs[p] \subseteq store.msgs[p] \cup {i}
      BY <1>1, <2>2, EnqueueStep
    <3> QED BY <2>1, <3>1
  <2>3. CASE \E w \in Workers : Spares(store, store', w)
    BY <2>1, <2>3 DEF Spares
  <2>4. CASE store'.msgs = store.msgs
    BY <2>1, <2>4
  <2> QED BY <1>1, <2>2, <2>3, <2>4, StepSpares
<1>2. IInv /\ IInv' /\ [Next]_vars => [Stays]_vars
  BY <1>1
<1> QED BY <1>2, Inductive, PTL DEF Spec, SettledForGood

(* What a worker's own command costs it: what it settles, gives back or
   purges.                                                                 *)
Own(w) == \A p \in QueueNames : \A id \in store.acks[w][p] \ store'.acks[w][p] :
            id \notin store'.msgs[p] \/ id \notin held'[w][p]

LEMMA OwnAcks ==
  ASSUME IInv, NEW w \in Workers, NEW q \in QueueNames
  PROVE  /\ Enqueue(w, q) \/ Fetch(w, q) \/ Poll(w, q) => Own(w)
         /\ Requeue(w, q) \/ Purge(w, q) => Own(w)
         /\ \A id \in Ids : Ack(w, q, id) \/ Nack(w, q, id) => Own(w)
<1>1. ASSUME Enqueue(w, q) PROVE Own(w)
  <2>1. PICK id \in Ids, t \in Prologues(w, q) : store' = Enqueued(t, q, id)
    BY <1>1 DEF Enqueue
  <2>2. t \in Store /\ t.acks[w] = store.acks[w]
    BY PrologueStep
  <2>3. store'.acks = t.acks
    BY <2>1, <2>2 DEF Enqueued, Store
  <2> QED BY <2>2, <2>3 DEF Own
<1>2. ASSUME Fetch(w, q) PROVE Own(w)
  <2>1. PICK t \in Prologues(w, q) : FetchFrom(w, q, t)
    BY <1>2 DEF Fetch
  <2>2. t \in Store /\ t.acks[w] = store.acks[w]
    BY PrologueStep
  <2>3. PICK ids : store'.acks = [t.acks EXCEPT ![w][q] = t.acks[w][q] \cup ids]
    BY <2>1, <2>2 DEF FetchFrom, Fetched, Store
  <2>4. \A p \in QueueNames : t.acks[w][p] \subseteq store'.acks[w][p]
    BY <2>2, <2>3 DEF Store
  <2> QED BY <2>2, <2>4 DEF Own
<1>3. ASSUME Poll(w, q) PROVE Own(w)
  <2>1. store'.acks[w] = store.acks[w]
    BY <1>3, PrologueStep DEF Poll
  <2> QED BY <2>1 DEF Own
<1>4. ASSUME Requeue(w, q) PROVE Own(w)
  <2>1. PICK ids \in SUBSET held[w][q], t \in Prologues(w, q) :
          /\ held' = [held EXCEPT ![w][q] = held[w][q] \ ids]
          /\ \E o \in Orders(Returnable(t, w, q, ids)) : store' = Requeued(t, w, q, ids, o)
    BY <1>4 DEF Requeue
  <2>2. t \in Store /\ t.acks[w] = store.acks[w]
    BY PrologueStep
  <2>3. store'.acks = [t.acks EXCEPT ![w][q] = t.acks[w][q] \ ids]
    BY <2>1, <2>2 DEF Requeued, Store
  <2>4. /\ store'.acks[w][q] = t.acks[w][q] \ ids
        /\ \A p \in QueueNames \ {q} : store'.acks[w][p] = t.acks[w][p]
    BY <2>2, <2>3 DEF Store
  <2>5. held \in [Workers -> [QueueNames -> SUBSET Ids]]
    BY DEF IInv, TypeOK
  <2>6. held'[w][q] = held[w][q] \ ids
    BY <2>1, <2>5
  <2> QED BY <2>2, <2>4, <2>6 DEF Own
<1>5. ASSUME Purge(w, q) PROVE Own(w)
  <2>1. PICK t \in Prologues(w, q) : store' = Purged(t, w, q)
    BY <1>5 DEF Purge
  <2>2. t \in Store /\ t.acks[w] = store.acks[w]
    BY PrologueStep
  <2>3. store'.acks = [t.acks EXCEPT ![w][q] = {}] /\ store'.msgs = [t.msgs EXCEPT ![q] = {}]
    BY <2>1, <2>2 DEF Purged, Store
  <2>4. store'.msgs[q] = {} /\ \A p \in QueueNames \ {q} : store'.acks[w][p] = t.acks[w][p]
    BY <2>2, <2>3 DEF Store
  <2> QED BY <2>2, <2>4 DEF Own
<1>6. ASSUME NEW id \in Ids, Ack(w, q, id) \/ Nack(w, q, id) PROVE Own(w)
  <2> DEFINE t == Heartbeat(store, w)
  <2>1. t \in Store
    BY HeartbeatConsistent DEF IInv, TypeOK, Homes
  <2>2. t.acks = store.acks
    BY DEF Heartbeat, IInv, TypeOK, Store
  <2>3. store' \in {Acknowledged(t, w, q, id), Nacked(t, w, q, id)}
    BY <1>6 DEF Ack, Nack
  <2> HIDE DEF t
  <2>4. \/ store'.acks = t.acks
        \/ /\ store'.acks = [t.acks EXCEPT ![w][q] = @ \ {id}]
           /\ store'.msgs \in {t.msgs, [t.msgs EXCEPT ![q] = @ \ {id}]}
           /\ id \notin t.msgs[q] \/ store'.msgs # t.msgs
              \/ [t.msgs EXCEPT ![q] = @ \ {id}] = t.msgs
    BY <2>1, <2>3 DEF Acknowledged, Nacked, Store
  <2>5. CASE store'.acks = t.acks
    BY <2>2, <2>5 DEF Own
  <2>6. CASE /\ store'.acks = [t.acks EXCEPT ![w][q] = @ \ {id}]
             /\ store'.msgs \in {t.msgs, [t.msgs EXCEPT ![q] = @ \ {id}]}
             /\ id \notin t.msgs[q] \/ store'.msgs # t.msgs
                \/ [t.msgs EXCEPT ![q] = @ \ {id}] = t.msgs
    <3>1. t.msgs \in [QueueNames -> SUBSET Ids] /\ t.acks \in [Workers -> [QueueNames -> SUBSET Ids]]
      BY <2>1 DEF Store
    <3>2. id \notin [t.msgs EXCEPT ![q] = @ \ {id}][q]
      BY <3>1
    <3>3. id \notin store'.msgs[q]
      BY <2>6, <3>2
    <3>4. \A p \in QueueNames : t.acks[w][p] \ store'.acks[w][p] \subseteq {id}
      BY <2>6, <3>1
    <3>5. \A p \in QueueNames \ {q} : t.acks[w][p] = store'.acks[w][p]
      BY <2>6, <3>1
    <3> QED BY <2>2, <3>3, <3>4, <3>5 DEF Own
  <2> QED BY <2>4, <2>5, <2>6
<1> QED BY <1>1, <1>2, <1>3, <1>4, <1>5, <1>6

(* Another worker takes a message from a worker only once the heartbeat of
   that worker is too old, and the worker's own commands cost it only what
   it settles or gives back.                                               *)
Others(w) == \A v \in Workers \ {w} :
  /\ store'.heartbeats[v] \in {store.heartbeats[v], Never}
  /\ \A p \in QueueNames : store.acks[v][p] \subseteq store'.acks[v][p]
                           \/ store.heartbeats[v] = HeartbeatTimeout

LEMMA StepCosts ==
  ASSUME IInv, [Next]_vars
  PROVE  store'.acks = store.acks
         \/ \E w \in Workers : Own(w) /\ Others(w) /\ store'.heartbeats[w] = 0
<1>1. ASSUME NEW w \in Workers, NEW q \in QueueNames, Enqueue(w, q)
      PROVE  Own(w) /\ Others(w) /\ store'.heartbeats[w] = 0
  BY <1>1, EnqueueStep, OwnAcks DEF Others
<1>2. ASSUME NEW w \in Workers, NEW q \in QueueNames,
             Fetch(w, q) \/ Poll(w, q) \/ Requeue(w, q) \/ Purge(w, q)
                \/ \E id \in Ids : Ack(w, q, id) \/ Nack(w, q, id)
      PROVE  Own(w) /\ Others(w) /\ store'.heartbeats[w] = 0
  <2>1. Own(w)
    BY <1>2, OwnAcks
  <2>2. Spares(store, store', w)
    BY <1>2, FetchStep, PollStep, RequeueStep, PurgeStep, SettleStep
  <2> QED BY <2>1, <2>2 DEF Spares, Others
<1>3. ASSUME Tick PROVE store'.acks = store.acks
  BY <1>3, TickStep
<1>4. (\E w \in Workers, q \in QueueNames : Forget(w, q))
        \/ (\E w \in Workers : Crash(w)) \/ UNCHANGED vars => store' = store
  BY DEF Forget, Crash, vars
<1> QED BY <1>1, <1>2, <1>3, <1>4 DEF Next

(* No step takes from a worker a message that it holds, unless its
   heartbeat is too old or its own command settles it or gives it back.    *)
THEOREM AcksAreSafe == Spec => OnlyTheDeadLoseAcks
<1> DEFINE Safe == \A w \in Workers, q \in QueueNames :
                     \A id \in store.acks[w][q] \ store'.acks[w][q] :
                       IF store'.heartbeats[w] = 0
                       THEN id \notin store'.msgs[q] \/ id \notin held'[w][q]
                       ELSE store.heartbeats[w] = HeartbeatTimeout
<1>1. ASSUME IInv, [Next]_vars PROVE Safe
  <2>1. CASE store'.acks = store.acks
    BY <2>1
  <2>2. ASSUME NEW w \in Workers, Own(w), Others(w), store'.heartbeats[w] = 0
        PROVE  Safe
    <3>1. SUFFICES ASSUME NEW v \in Workers, NEW p \in QueueNames,
                          NEW id \in store.acks[v][p] \ store'.acks[v][p]
                   PROVE  IF store'.heartbeats[v] = 0
                          THEN id \notin store'.msgs[p] \/ id \notin held'[v][p]
                          ELSE store.heartbeats[v] = HeartbeatTimeout
      OBVIOUS
    <3>2. CASE v = w
      BY <2>2, <3>2 DEF Own
    <3>3. CASE v # w
      <4>1. /\ store.heartbeats[v] = HeartbeatTimeout
            /\ store'.heartbeats[v] \in {store.heartbeats[v], Never}
        BY <2>2, <3>3 DEF Others
      <4>2. store'.heartbeats[v] # 0
        BY <4>1, TimesAssumption DEF Never
      <4> QED BY <4>1, <4>2
    <3> QED BY <3>2, <3>3
  <2> QED BY <1>1, <2>1, <2>2, StepCosts
<1>2. IInv /\ [Next]_vars => [Safe]_vars
  BY <1>1
<1> QED BY <1>2, Inductive, PTL DEF Spec, OnlyTheDeadLoseAcks

-----------------------------------------------------------------------------
(* The order of the lists.                                                 *)

(* The operations on a list, each of which leaves it first in, first out.  *)
LEMMA ConcatFollows ==
  ASSUME NEW S, NEW l \in Seq(S), NEW o \in Seq(S), ToSet(o) \cap ToSet(l) = {}
  PROVE  FirstInFirstOut(l, l \o o)
<1> DEFINE c == l \o o
<1>1. /\ Len(c) = Len(l) + Len(o) /\ Len(l) \in Nat /\ Len(o) \in Nat
      /\ \A i \in 1 .. Len(l) : c[i] = l[i]
      /\ \A i \in Len(l) + 1 .. Len(c) : i - Len(l) \in 1 .. Len(o) /\ c[i] = o[i - Len(l)]
      /\ DOMAIN o = 1 .. Len(o)
  OBVIOUS
<1> HIDE DEF c
<1>2. \A i \in Len(l) + 1 .. Len(c) : c[i] \in ToSet(o)
  BY <1>1 DEF ToSet
<1>3. /\ Len(l) - 0 <= Len(c)
      /\ \A i \in 1 .. Len(l) - 0 : c[i] = l[0 + i]
      /\ \A i \in Len(l) - 0 + 1 .. Len(c) : c[i] \notin ToSet(l)
  BY <1>1, <1>2
<1>4. 0 \in 0 .. Len(l)
  BY <1>1
<1> QED BY <1>3, <1>4 DEF FirstInFirstOut, c

LEMMA AppendFollows ==
  ASSUME NEW S, NEW l \in Seq(S), NEW x \in S, x \notin ToSet(l)
  PROVE  FirstInFirstOut(l, Append(l, x))
<1> DEFINE c == Append(l, x)
<1>1. /\ Len(c) = Len(l) + 1 /\ Len(l) \in Nat /\ c[Len(l) + 1] = x
      /\ \A i \in 1 .. Len(l) : c[i] = l[i]
  OBVIOUS
<1> HIDE DEF c
<1>2. /\ Len(l) - 0 <= Len(c)
      /\ \A i \in 1 .. Len(l) - 0 : c[i] = l[0 + i]
      /\ \A i \in Len(l) - 0 + 1 .. Len(c) : c[i] \notin ToSet(l)
  BY <1>1
<1>3. 0 \in 0 .. Len(l)
  BY <1>1
<1> QED BY <1>2, <1>3 DEF FirstInFirstOut, c

LEMMA SuffixFollows ==
  ASSUME NEW S, NEW l \in Seq(S), NEW k \in 0 .. Len(l)
  PROVE  FirstInFirstOut(l, SubSeq(l, k + 1, Len(l)))
<1> DEFINE r == SubSeq(l, k + 1, Len(l))
<1>1. /\ Len(r) = Len(l) - k /\ Len(l) \in Nat
      /\ \A i \in 1 .. Len(l) - k : r[i] = l[k + i]
  OBVIOUS
<1> HIDE DEF r
<1>2. /\ Len(l) - k <= Len(r)
      /\ \A i \in 1 .. Len(l) - k : r[i] = l[k + i]
      /\ \A i \in Len(l) - k + 1 .. Len(r) : r[i] \notin ToSet(l)
  BY <1>1
<1> QED BY <1>2 DEF FirstInFirstOut, r

LEMMA NothingFollows ==
  ASSUME NEW S, NEW l \in Seq(S)
  PROVE  FirstInFirstOut(l, l) /\ FirstInFirstOut(l, <<>>)
<1>1. Len(l) \in Nat /\ 0 \in 0 .. Len(l) /\ Len(l) \in 0 .. Len(l) /\ Len(<<>>) = 0
  OBVIOUS
<1>2. /\ Len(l) - 0 <= Len(l)
      /\ \A i \in 1 .. Len(l) - 0 : l[i] = l[0 + i]
      /\ \A i \in Len(l) - 0 + 1 .. Len(l) : l[i] \notin ToSet(l)
  BY <1>1
<1>3. FirstInFirstOut(l, l)
  BY <1>1, <1>2 DEF FirstInFirstOut
<1> DEFINE e == <<>>
<1>4. /\ Len(l) - Len(l) <= Len(e)
      /\ \A i \in 1 .. Len(l) - Len(l) : e[i] = l[Len(l) + i]
      /\ \A i \in Len(l) - Len(l) + 1 .. Len(e) : e[i] \notin ToSet(l)
  BY <1>1
<1>5. FirstInFirstOut(l, e)
  BY <1>1, <1>4 DEF FirstInFirstOut
<1> QED BY <1>3, <1>5

(* What maintenance put behind a list stays behind it.                     *)
LEMMA BehindFollows ==
  ASSUME NEW S, NEW l \in Seq(S), NEW o \in Seq(S), ToSet(o) \cap ToSet(l) = {},
         NEW c \in Seq(S), FirstInFirstOut(l \o o, c)
  PROVE  FirstInFirstOut(l, c)
<1> DEFINE b == l \o o
<1>1. /\ Len(b) = Len(l) + Len(o) /\ Len(l) \in Nat /\ Len(o) \in Nat
      /\ \A i \in 1 .. Len(l) : b[i] = l[i]
      /\ \A i \in Len(l) + 1 .. Len(b) : i - Len(l) \in 1 .. Len(o) /\ b[i] = o[i - Len(l)]
      /\ DOMAIN o = 1 .. Len(o) /\ DOMAIN b = 1 .. Len(b) /\ DOMAIN l = 1 .. Len(l)
  OBVIOUS
<1> HIDE DEF b
<1>2. /\ \A i \in Len(l) + 1 .. Len(b) : b[i] \notin ToSet(l)
      /\ ToSet(l) \subseteq ToSet(b)
  <2>1. \A i \in Len(l) + 1 .. Len(b) : b[i] \in ToSet(o)
    BY <1>1 DEF ToSet
  <2>2. \A i \in 1 .. Len(l) : i \in 1 .. Len(b) /\ l[i] = b[i]
    BY <1>1
  <2> QED BY <1>1, <2>1, <2>2 DEF ToSet
<1>3. PICK k \in 0 .. Len(b) :
        /\ Len(b) - k <= Len(c)
        /\ \A i \in 1 .. Len(b) - k : c[i] = b[k + i]
        /\ \A i \in Len(b) - k + 1 .. Len(c) : c[i] \notin ToSet(b)
  BY DEF FirstInFirstOut, b
<1>4. Len(c) \in Nat /\ Len(b) \in Nat /\ Len(l) \in Nat /\ k \in Nat /\ k <= Len(b)
      /\ Len(l) <= Len(b)
  BY <1>1
<1>5. ASSUME NEW i \in 1 .. Len(c), k + i > Len(l) PROVE c[i] \notin ToSet(l)
  <2>1. CASE i <= Len(b) - k
    <3>1. k + i \in Len(l) + 1 .. Len(b) /\ i \in 1 .. Len(b) - k
      BY <1>4, <1>5, <2>1
    <3> QED BY <1>2, <1>3, <3>1
  <2>2. CASE i > Len(b) - k
    <3>1. i \in Len(b) - k + 1 .. Len(c)
      BY <1>4, <2>2
    <3> QED BY <1>2, <1>3, <3>1
  <2> QED BY <1>4, <2>1, <2>2
<1>6. CASE k <= Len(l)
  <2>1. k \in 0 .. Len(l) /\ Len(l) - k <= Len(b) - k
    BY <1>4, <1>6
  <2>2. Len(l) - k <= Len(c)
    BY <1>3, <1>4, <2>1
  <2>3. ASSUME NEW i \in 1 .. Len(l) - k PROVE c[i] = l[k + i]
    <3>1. k + i \in 1 .. Len(l) /\ i \in 1 .. Len(b) - k
      BY <1>4, <2>1
    <3> QED BY <1>1, <1>3, <3>1
  <2>4. ASSUME NEW i \in Len(l) - k + 1 .. Len(c) PROVE c[i] \notin ToSet(l)
    <3>1. i \in 1 .. Len(c) /\ k + i > Len(l)
      BY <1>4, <2>1
    <3> QED BY <1>5, <3>1
  <2> QED BY <2>1, <2>2, <2>3, <2>4 DEF FirstInFirstOut
<1>7. CASE k > Len(l)
  <2>1. Len(l) \in 0 .. Len(l) /\ Len(l) - Len(l) = 0 /\ 0 <= Len(c)
    BY <1>4
  <2>2. \A i \in 1 .. Len(l) - Len(l) : c[i] = l[Len(l) + i]
    BY <2>1
  <2>3. ASSUME NEW i \in Len(l) - Len(l) + 1 .. Len(c) PROVE c[i] \notin ToSet(l)
    <3>1. i \in 1 .. Len(c) /\ k + i > Len(l)
      BY <1>4, <1>7, <2>1
    <3> QED BY <1>5, <3>1
  <2>4. Len(l) - Len(l) <= Len(c)
    BY <2>1
  <2> QED BY <2>1, <2>2, <2>3, <2>4 DEF FirstInFirstOut
<1> QED BY <1>4, <1>6, <1>7

(* A command finds each list as it was, or with what maintenance put behind
   it.                                                                     *)
LEMMA PrologueBehind ==
  ASSUME IInv, NEW w \in Workers, NEW q \in QueueNames, NEW t \in Prologues(w, q),
         NEW p \in QueueNames
  PROVE  \/ t.list[p] = store.list[p]
         \/ \E o \in Seq(Ids) : /\ t.list[p] = store.list[p] \o o
                                /\ ToSet(o) \cap ToSet(store.list[p]) = {}
<1> DEFINE b == Heartbeat(store, w)
<1>1. b \in Store /\ b.list = store.list /\ Consistent(b, home)
  BY HeartbeatConsistent DEF Heartbeat, Store, IInv, TypeOK, Homes
<1> HIDE DEF b
<1>2. CASE t = b
  BY <1>1, <1>2
<1>3. ASSUME NEW o \in Orders(Orphans(b, q)), t = Maintained(b, q, o)
      PROVE  \/ t.list[p] = store.list[p]
             \/ \E s \in Seq(Ids) : /\ t.list[p] = store.list[p] \o s
                                    /\ ToSet(s) \cap ToSet(store.list[p]) = {}
  <2>1. t.list = [b.list EXCEPT ![q] = b.list[q] \o o]
    BY <1>1, <1>3 DEF Maintained, Store
  <2>2. Orphans(b, q) \subseteq Ids
    BY <1>1, StoreTypes DEF Orphans
  <2>3. o \in Seq(Ids) /\ ToSet(o) = Orphans(b, q)
    BY <2>2, OrderFacts
  <2>4. Orphans(b, q) \subseteq Acked(b, q)
    BY <2>2 DEF Orphans, Acked, Dead
  <2>5. ToSet(b.list[q]) \cap Acked(b, q) = {}
    BY <1>1 DEF Consistent, InOnePlace
  <2>6. t.list[p] = b.list[p] \/ (p = q /\ t.list[p] = b.list[q] \o o)
    BY <1>1, <2>1 DEF Store
  <2> QED BY <1>1, <2>3, <2>4, <2>5, <2>6
<1>4. PICK m \in BOOLEAN : t \in Prologue(store, w, q, m)
  BY DEF Prologues
<1> QED BY <1>2, <1>3, <1>4 DEF Prologue, b

Orderly == \A p \in QueueNames : FirstInFirstOut(store.list[p], store'.list[p])

LEMMA CommandOrderly ==
  ASSUME IInv, IInv', NEW w \in Workers, NEW q \in QueueNames,
         NEW t \in Prologues(w, q),
         \A p \in QueueNames : t.list[p] = store'.list[p]
                               \/ FirstInFirstOut(t.list[p], store'.list[p])
  PROVE  Orderly
<1> SUFFICES ASSUME NEW p \in QueueNames
             PROVE  FirstInFirstOut(store.list[p], store'.list[p])
  BY DEF Orderly
<1>1. store.list[p] \in Seq(Ids) /\ store'.list[p] \in Seq(Ids) /\ t.list[p] \in Seq(Ids)
  BY PrologueStep, StoreTypes DEF IInv, TypeOK
<1>2. FirstInFirstOut(t.list[p], store'.list[p])
  BY <1>1, NothingFollows
<1>3. CASE t.list[p] = store.list[p]
  BY <1>2, <1>3
<1>4. ASSUME NEW o \in Seq(Ids), t.list[p] = store.list[p] \o o,
             ToSet(o) \cap ToSet(store.list[p]) = {}
      PROVE  FirstInFirstOut(store.list[p], store'.list[p])
  <2> DEFINE l == store.list[p]
             c == store'.list[p]
  <2>1. FirstInFirstOut(l \o o, c) /\ l \in Seq(Ids) /\ c \in Seq(Ids)
        /\ ToSet(o) \cap ToSet(l) = {}
    BY <1>1, <1>2, <1>4
  <2> HIDE DEF l, c
  <2>2. FirstInFirstOut(l, c)
    BY <2>1, BehindFollows
  <2> QED BY <2>2 DEF l, c
<1> QED BY <1>3, <1>4, PrologueBehind

LEMMA StepOrderly == IInv /\ [Next]_vars => Orderly
<1> SUFFICES ASSUME IInv, [Next]_vars PROVE Orderly
  OBVIOUS
<1>0. IInv'
  BY NextPreserves
<1>1. ASSUME NEW w \in Workers, NEW q \in QueueNames, Enqueue(w, q)
      PROVE  Orderly
  <2>1. PICK id \in Ids, t \in Prologues(w, q) :
          home[id] = NoQueue /\ store' = Enqueued(t, q, id)
    BY <1>1 DEF Enqueue
  <2>2. t \in Store /\ Consistent(t, home)
    BY PrologueStep
  <2>3. store'.list = [t.list EXCEPT ![q] = Append(t.list[q], id)]
    BY <2>1, <2>2 DEF Enqueued, Store
  <2>4. id \notin ToSet(t.list[q])
    BY <2>1, <2>2, ClientAssumption DEF Consistent, Homed
  <2>5. FirstInFirstOut(t.list[q], Append(t.list[q], id))
    BY <2>2, <2>4, StoreTypes, AppendFollows
  <2> QED BY <1>0, <2>2, <2>3, <2>5, CommandOrderly DEF Store
<1>2. ASSUME NEW w \in Workers, NEW q \in QueueNames, Fetch(w, q)
      PROVE  Orderly
  <2>1. PICK t \in Prologues(w, q) : FetchFrom(w, q, t)
    BY <1>2 DEF Fetch
  <2>2. t \in Store /\ Consistent(t, home)
    BY PrologueStep
  <2> DEFINE n == Prefetch - Cardinality(held[w][q])
             list == t.list[q]
             k == IF n < Len(list) THEN n ELSE Len(list)
  <2>3. list \in Seq(Ids) /\ Len(list) \in Nat
    BY <2>2, StoreTypes
  <2>4. n \in Nat /\ store' = Fetched(t, w, q, n)
    <3>1. IsFiniteSet(held[w][q])
      BY IdsAssumption, FS_Subset DEF IInv, TypeOK
    <3>2. Cardinality(held[w][q]) \in Nat
      BY <3>1, FS_CardinalityType
    <3> QED BY <2>1, <3>2, ClientAssumption DEF FetchFrom
  <2> HIDE DEF n
  <2>5. k \in 0 .. Len(list)
    BY <2>3, <2>4
  <2>6. Len(Popped(t, q, n)) = k
    BY <2>3, <2>5, SplitFacts DEF Popped
  <2>7. store'.list = [t.list EXCEPT ![q] = SubSeq(list, k + 1, Len(list))]
    BY <2>2, <2>4, <2>6 DEF Fetched, Store
  <2>8. FirstInFirstOut(list, SubSeq(list, k + 1, Len(list)))
    BY <2>3, <2>5, SuffixFollows
  <2> QED BY <1>0, <2>2, <2>7, <2>8, CommandOrderly DEF Store
<1>3. ASSUME NEW w \in Workers, NEW q \in QueueNames, NEW id \in Ids,
             Ack(w, q, id) \/ Nack(w, q, id)
      PROVE  Orderly
  <2> DEFINE t == Heartbeat(store, w)
  <2>1. t \in Prologues(w, q) /\ t \in Store
    BY PrologueStep DEF Prologues, Prologue
  <2>2. store' \in {Acknowledged(t, w, q, id), Nacked(t, w, q, id)}
    BY <1>3 DEF Ack, Nack
  <2> HIDE DEF t
  <2>3. store'.list = t.list
    BY <2>1, <2>2 DEF Acknowledged, Nacked, Store
  <2> QED BY <1>0, <2>1, <2>3, CommandOrderly
<1>4. ASSUME NEW w \in Workers, NEW q \in QueueNames, Requeue(w, q)
      PROVE  Orderly
  <2>1. PICK ids \in SUBSET held[w][q], t \in Prologues(w, q) :
          \E o \in Orders(Returnable(t, w, q, ids)) : store' = Requeued(t, w, q, ids, o)
    BY <1>4 DEF Requeue
  <2>2. PICK o \in Orders(Returnable(t, w, q, ids)) : store' = Requeued(t, w, q, ids, o)
    BY <2>1
  <2>3. t \in Store /\ Consistent(t, home)
    BY PrologueStep
  <2>4. Returnable(t, w, q, ids) \subseteq Ids
    BY <2>3, StoreTypes DEF Returnable
  <2>5. o \in Seq(Ids) /\ t.list[q] \in Seq(Ids) /\ ToSet(o) = Returnable(t, w, q, ids)
    BY <2>3, <2>4, OrderFacts, StoreTypes
  <2>6. ToSet(o) \cap ToSet(t.list[q]) = {}
    BY <2>3, <2>4, <2>5 DEF Consistent, InOnePlace, Acked, Returnable
  <2>7. store'.list = [t.list EXCEPT ![q] = t.list[q] \o o]
    BY <2>2, <2>3 DEF Requeued, Store
  <2>8. FirstInFirstOut(t.list[q], t.list[q] \o o)
    BY <2>5, <2>6, ConcatFollows
  <2> QED BY <1>0, <2>3, <2>7, <2>8, CommandOrderly DEF Store
<1>5. ASSUME NEW w \in Workers, NEW q \in QueueNames, Purge(w, q)
      PROVE  Orderly
  <2>1. PICK t \in Prologues(w, q) : store' = Purged(t, w, q)
    BY <1>5 DEF Purge
  <2>2. t \in Store
    BY PrologueStep
  <2>3. store'.list = [t.list EXCEPT ![q] = <<>>]
    BY <2>1, <2>2 DEF Purged, Store
  <2>4. FirstInFirstOut(t.list[q], <<>>)
    BY <2>2, StoreTypes, NothingFollows
  <2> QED BY <1>0, <2>2, <2>3, <2>4, CommandOrderly DEF Store
<1>6. ASSUME NEW w \in Workers, NEW q \in QueueNames, Poll(w, q)
      PROVE  Orderly
  BY <1>0, <1>6, CommandOrderly DEF Poll
<1>7. CASE store'.list = store.list
  BY <1>7, NothingFollows, StoreTypes DEF Orderly, IInv, TypeOK
<1>8. Tick => store'.list = store.list
  BY DEF Tick, IInv, TypeOK, Store
<1>9. (\E w \in Workers, q \in QueueNames : Forget(w, q))
        \/ (\E w \in Workers : Crash(w)) \/ UNCHANGED vars => store'.list = store.list
  BY DEF Forget, Crash, vars
<1> QED BY <1>1, <1>2, <1>3, <1>4, <1>5, <1>6, <1>7, <1>8, <1>9 DEF Next

(* The lists are first in, first out: no command of any broker and no
   maintenance takes a message from behind another, moves one that stays,
   or puts a new or returned one ahead of those that wait.                 *)
THEOREM ListsInOrder == Spec => InOrder
<1> DEFINE Kept == \A q \in QueueNames : FirstInFirstOut(store.list[q], store'.list[q])
<1>1. IInv /\ [Next]_vars => [Kept]_vars
  BY StepOrderly DEF Orderly
<1> QED BY <1>1, Inductive, PTL DEF Spec, InOrder

-----------------------------------------------------------------------------
(***************************************************************************)
(* RedisQueue implements MessageQueue: every command of a broker is, for   *)
(* each message, a step that the promise allows.                           *)
(***************************************************************************)

(* What happens to one message that the mapping tells apart.               *)
LEMMA SameWhen ==
  ASSUME NEW m \in Ids,
         home'[m] = home[m], Status(m)' = Status(m), Holder(m)' = Holder(m)
  PROVE  Promise!Same(m)
BY DEF Promise!Same

(* The status and the holders of a message, by the queue it belongs to.    *)
Mapped(m) ==
  /\ home[m] = NoQueue => Status(m) = "unsent" /\ Holder(m) = {}
  /\ home[m] # NoQueue =>
       /\ home[m] \in QueueNames
       /\ Canonical[home[m]] \in QueueNames
       /\ Status(m) = IF m \in store.msgs[home[m]] THEN "stored"
                      ELSE IF m \in store.xqMsgs[Canonical[home[m]]] THEN "dead"
                      ELSE "gone"
       /\ Holder(m) = IF m \in store.msgs[home[m]]
                      THEN {v \in Workers : m \in store.acks[v][home[m]]} ELSE {}
       /\ \A u, v \in Workers :
            m \in store.acks[u][home[m]] /\ m \in store.acks[v][home[m]] => u = v
  /\ \A q \in QueueNames :
       /\ m \in store.msgs[q] => q = home[m]
       /\ \A v \in Workers : m \in store.acks[v][q] => q = home[m]

LEMMA Mapping == IInv => \A m \in Ids : Mapped(m)
<1> SUFFICES ASSUME IInv, NEW m \in Ids PROVE Mapped(m)
  OBVIOUS
<1>1. home \in Homes /\ store \in Store /\ Consistent(store, home)
  BY DEF IInv, TypeOK, Homes
<1>2. \A q \in QueueNames : Local(store, home, q)
  BY <1>1, ConsistentHere
<1>3. \A q \in QueueNames :
        /\ m \in store.msgs[q] => q = home[m]
        /\ \A v \in Workers : m \in store.acks[v][q] => q = home[m]
  BY <1>2 DEF Local
<1>4. CASE home[m] = NoQueue
  BY <1>3, <1>4 DEF Mapped, Status, Holder
<1>5. CASE home[m] # NoQueue
  <2>1. home[m] \in QueueNames
    BY <1>1, <1>5 DEF Homes
  <2>2. Canonical[home[m]] \in QueueNames
    BY <2>1, CanonicalAssumption
  <2>3. \A u, v \in Workers :
          m \in store.acks[u][home[m]] /\ m \in store.acks[v][home[m]] => u = v
    BY <1>2, <2>1 DEF Local
  <2>4. Status(m) = IF m \in store.msgs[home[m]] THEN "stored"
                    ELSE IF m \in store.xqMsgs[Canonical[home[m]]] THEN "dead"
                    ELSE "gone"
    BY <1>5 DEF Status
  <2>5. Holder(m) = IF m \in store.msgs[home[m]]
                    THEN {v \in Workers : m \in store.acks[v][home[m]]} ELSE {}
    BY <2>4 DEF Holder
  <2> QED BY <1>3, <1>5, <2>1, <2>2, <2>3, <2>4, <2>5 DEF Mapped
<1> QED BY <1>4, <1>5

LEMMA MappingAfter == IInv' => \A m \in Ids : Mapped(m)'
<1>1. IInv' => (\A m \in Ids : Mapped(m))'
  BY Mapping, PTL
<1> QED BY <1>1

(* The prologue of a command changes acks and dead letters only.           *)
Recovers(s, t, w, q) ==
  /\ t.msgs = s.msgs
  /\ \A x \in QueueNames : t.xqMsgs[x] \subseteq s.xqMsgs[x]
  /\ \A x \in QueueNames \ {Canonical[q]} : t.xqMsgs[x] = s.xqMsgs[x]
  /\ \A v \in Workers, p \in QueueNames :
       \/ t.acks[v][p] = s.acks[v][p]
       \/ p = q /\ v \in Dead(s) \ {w} /\ t.acks[v][p] = {}

LEMMA PrologueRecovers ==
  ASSUME IInv, NEW w \in Workers, NEW q \in QueueNames, NEW t \in Prologues(w, q)
  PROVE  Recovers(store, t, w, q)
<1>1. store \in Store /\ Canonical[q] \in QueueNames
  BY CanonicalAssumption DEF IInv, TypeOK
<1> DEFINE b == Heartbeat(store, w)
<1>2. /\ b.list = store.list /\ b.msgs = store.msgs /\ b.acks = store.acks
      /\ b.xq = store.xq /\ b.xqMsgs = store.xqMsgs
      /\ b.heartbeats = [store.heartbeats EXCEPT ![w] = 0]
  BY <1>1 DEF Heartbeat, Store
<1>3. Dead(b) \subseteq Dead(store) \ {w}
  BY <1>1, <1>2, TimesAssumption DEF Dead, Store
<1>4. b \in Store
  BY HeartbeatConsistent, <1>1 DEF IInv, TypeOK, Homes
<1> HIDE DEF b
<1>5. CASE t = b
  BY <1>2, <1>5 DEF Recovers
<1>6. ASSUME NEW o \in Orders(Orphans(b, q)), t = Maintained(b, q, o)
      PROVE  Recovers(store, t, w, q)
  <2>1. /\ t.msgs = b.msgs /\ t.acks = AcksLeft(b, q)
        /\ t.xqMsgs = [b.xqMsgs EXCEPT ![Canonical[q]] = @ \ Expired(b, Canonical[q])]
    BY <1>4, <1>6 DEF Maintained, Store
  <2>2. \A v \in Workers, p \in QueueNames :
          \/ t.acks[v][p] = b.acks[v][p]
          \/ p = q /\ v \in Dead(b) /\ t.acks[v][p] = {}
    BY <1>4, <2>1 DEF AcksLeft, Store
  <2>3. /\ \A x \in QueueNames : t.xqMsgs[x] \subseteq b.xqMsgs[x]
        /\ \A x \in QueueNames \ {Canonical[q]} : t.xqMsgs[x] = b.xqMsgs[x]
    BY <1>1, <1>4, <2>1 DEF Store
  <2> QED BY <1>2, <1>3, <2>1, <2>2, <2>3 DEF Recovers
<1>7. PICK i \in BOOLEAN : t \in Prologue(store, w, q, i)
  BY DEF Prologues
<1> QED BY <1>5, <1>6, <1>7 DEF Prologue, b

(* What a command of w, which enqueues the messages "new", does to all.     *)
Moves(w, new) ==
  /\ \A m \in Ids \ new : home'[m] = home[m]
  /\ \A q \in QueueNames :
       /\ store'.msgs[q] \ new \subseteq store.msgs[q]
       /\ store.msgs[q] \ store'.msgs[q] \subseteq store.acks[w][q]
       /\ \A m \in store'.xqMsgs[q] \ store.xqMsgs[q] :
            \E p \in QueueNames : m \in store.msgs[p]
       /\ \A v \in Workers \ {w} :
            \/ store'.acks[v][q] = store.acks[v][q]
            \/ store'.acks[v][q] = {} /\ v \in Dead(store)

(* A message that stays on the store is left, taken, given back or recovered.  *)
LEMMA StoredMoves ==
  ASSUME IInv, IInv', NEW w \in Workers, NEW new, Moves(w, new),
         NEW m \in Ids \ new, home[m] # NoQueue,
         m \in store.msgs[home[m]], m \in store'.msgs[home[m]]
  PROVE  Promise!Same(m) \/ Promise!Take(w, m) \/ Promise!Finish(w, m)
         \/ Promise!Recover(w, m)
<1> DEFINE p == home[m]
           before == {v \in Workers : m \in store.acks[v][p]}
           after == {v \in Workers : m \in store'.acks[v][p]}
<1>1. Mapped(m) /\ Mapped(m)' /\ p \in QueueNames /\ home'[m] = p
  BY Mapping, MappingAfter DEF Mapped, Moves
<1>2. Status(m) = "stored" /\ Status(m)' = "stored"
      /\ Holder(m) = before /\ Holder(m)' = after
  BY <1>1 DEF Mapped
<1>3. /\ \A u, v \in before : u = v
      /\ \A u, v \in after : u = v
  BY <1>1 DEF Mapped
<1>4. /\ after \subseteq before \cup {w}
      /\ before \ after \subseteq Dead(store) \cup {w}
  BY <1>1 DEF Moves
<1>5. Dead(store) \subseteq Workers /\ before \subseteq Workers
  BY DEF Dead
<1> HIDE DEF before, after, p
<1>6. CASE after = before
  BY <1>1, <1>2, <1>6, SameWhen DEF p
<1>7. CASE before = {} /\ after = {w}
  BY <1>1, <1>2, <1>7 DEF Promise!Take, p
<1>8. CASE before = {w} /\ after = {}
  BY <1>1, <1>2, <1>8 DEF Promise!Finish, p
<1>9. CASE before # {} /\ before \subseteq Dead(store) /\ after \in {{}, {w}}
  BY <1>1, <1>2, <1>9 DEF Promise!Recover, p
<1>10. \/ after = before
       \/ before = {} /\ after = {w}
       \/ before = {w} /\ after = {}
       \/ before # {} /\ before \subseteq Dead(store) /\ after \in {{}, {w}}
  BY <1>3, <1>4
<1> QED BY <1>6, <1>7, <1>8, <1>9, <1>10

(* A message that leaves the store was settled by w, which held it.        *)
LEMMA SettledMoves ==
  ASSUME IInv, IInv', NEW w \in Workers, NEW new, Moves(w, new),
         NEW m \in Ids \ new, home[m] # NoQueue,
         m \in store.msgs[home[m]], m \notin store'.msgs[home[m]]
  PROVE  Promise!Finish(w, m)
<1>1. Mapped(m) /\ Mapped(m)' /\ home[m] \in QueueNames /\ home'[m] = home[m]
  BY Mapping, MappingAfter DEF Mapped, Moves
<1>2. m \in store.acks[w][home[m]]
  BY <1>1 DEF Moves
<1>3. Status(m) = "stored" /\ Holder(m) = {w}
  BY <1>1, <1>2 DEF Mapped
<1>4. Status(m)' \in {"dead", "gone"} /\ Holder(m)' = {}
  BY <1>1 DEF Mapped
<1> QED BY <1>1, <1>3, <1>4 DEF Promise!Finish

(* A message that was settled, or not sent, only expires as a dead letter. *)
LEMMA RestMoves ==
  ASSUME IInv, IInv', NEW w \in Workers, NEW new, Moves(w, new), NEW m \in Ids \ new,
         home[m] # NoQueue => m \notin store.msgs[home[m]]
  PROVE  Promise!Same(m) \/ Promise!Expire(m)
<1>1. Mapped(m) /\ Mapped(m)' /\ home'[m] = home[m]
  BY Mapping, MappingAfter DEF Moves
<1>2. CASE home[m] = NoQueue
  BY <1>1, <1>2, SameWhen DEF Mapped
<1>3. CASE home[m] # NoQueue
  <2>1. /\ home[m] \in QueueNames /\ Canonical[home[m]] \in QueueNames
        /\ \A q \in QueueNames : m \notin store.msgs[q]
    BY <1>1, <1>3 DEF Mapped
  <2>2. m \notin store'.msgs[home[m]]
    BY <2>1 DEF Moves
  <2>3. m \in store'.xqMsgs[Canonical[home[m]]] => m \in store.xqMsgs[Canonical[home[m]]]
    BY <2>1 DEF Moves
  <2>4. Holder(m) = {} /\ Holder(m)' = {}
    BY <1>1, <1>3, <2>2 DEF Mapped
  <2>5. \/ Status(m)' = Status(m)
        \/ Status(m) = "dead" /\ Status(m)' = "gone"
    BY <1>1, <1>3, <2>2, <2>3 DEF Mapped
  <2>6. CASE Status(m)' = Status(m)
    BY <1>1, <2>4, <2>6, SameWhen
  <2>7. CASE Status(m) = "dead" /\ Status(m)' = "gone"
    BY <1>1, <2>4, <2>7 DEF Promise!Expire
  <2> QED BY <2>5, <2>6, <2>7
<1> QED BY <1>2, <1>3

LEMMA CommandMaps ==
  ASSUME IInv, IInv', NEW w \in Workers, NEW new, Moves(w, new),
         \A m \in new : Promise!Send(m)
  PROVE  Promise!Next
<1>1. ASSUME NEW m \in Ids \ new
      PROVE  Promise!Same(m) \/ Promise!Take(w, m) \/ Promise!Finish(w, m)
             \/ Promise!Recover(w, m) \/ Promise!Expire(m)
  BY StoredMoves, SettledMoves, RestMoves
<1>2. Promise!Command(w)
  BY <1>1 DEF Promise!Command
<1>3. Dead(store)' \subseteq Workers
  BY DEF Dead
<1> QED BY <1>2, <1>3 DEF Promise!Next

-----------------------------------------------------------------------------
(* A command that changes the store t its prologue left.                   *)
LEMMA CommandMoves ==
  ASSUME IInv, NEW w \in Workers, NEW q \in QueueNames, NEW t \in Prologues(w, q),
         NEW new, \A m \in Ids \ new : home'[m] = home[m],
         \A p \in QueueNames :
           /\ store'.msgs[p] \ new \subseteq t.msgs[p]
           /\ t.msgs[p] \ store'.msgs[p] \subseteq t.acks[w][p]
           /\ store'.xqMsgs[p] \subseteq t.xqMsgs[p] \cup t.msgs[q]
           /\ \A v \in Workers \ {w} : store'.acks[v][p] = t.acks[v][p]
  PROVE  Moves(w, new)
<1>1. Recovers(store, t, w, q)
  BY PrologueRecovers
<1>2. t.msgs = store.msgs /\ \A p \in QueueNames : t.acks[w][p] = store.acks[w][p]
  BY <1>1 DEF Recovers
<1>3. ASSUME NEW p \in QueueNames
      PROVE  /\ store'.msgs[p] \ new \subseteq store.msgs[p]
             /\ store.msgs[p] \ store'.msgs[p] \subseteq store.acks[w][p]
  BY <1>2
<1>4. ASSUME NEW p \in QueueNames
      PROVE  \A m \in store'.xqMsgs[p] \ store.xqMsgs[p] : m \in store.msgs[q]
  BY <1>1, <1>2 DEF Recovers
<1>5. ASSUME NEW p \in QueueNames, NEW v \in Workers \ {w}
      PROVE  \/ store'.acks[v][p] = store.acks[v][p]
             \/ store'.acks[v][p] = {} /\ v \in Dead(store)
  BY <1>1 DEF Recovers
<1> QED BY <1>3, <1>4, <1>5 DEF Moves

LEMMA EnqueueMaps ==
  ASSUME IInv, IInv', NEW w \in Workers, NEW q \in QueueNames, Enqueue(w, q)
  PROVE  Promise!Next
<1>1. PICK id \in Ids, t \in Prologues(w, q) :
        /\ home[id] = NoQueue
        /\ home' = [home EXCEPT ![id] = q]
        /\ store' = Enqueued(t, q, id)
  BY DEF Enqueue
<1>2. t \in Store /\ home \in Homes
  BY PrologueStep DEF IInv, TypeOK, Homes
<1>3. /\ store'.msgs = [t.msgs EXCEPT ![q] = @ \cup {id}]
      /\ store'.acks = t.acks /\ store'.xqMsgs = t.xqMsgs
  BY <1>1, <1>2 DEF Enqueued, Store
<1>4. Moves(w, {id})
  <2>1. \A m \in Ids \ {id} : home'[m] = home[m]
    BY <1>1, <1>2 DEF Homes
  <2>2. \A p \in QueueNames : /\ store'.msgs[p] \ {id} \subseteq t.msgs[p]
                              /\ t.msgs[p] \subseteq store'.msgs[p]
    BY <1>2, <1>3 DEF Store
  <2> QED BY <1>3, <2>1, <2>2, CommandMoves
<1>5. Promise!Send(id)
  <2>1. Mapped(id) /\ Mapped(id)' /\ home'[id] = q /\ q # NoQueue
    BY <1>1, <1>2, Mapping, MappingAfter, ClientAssumption DEF Homes
  <2>2. id \in store'.msgs[q]
    BY <1>2, <1>3 DEF Store
  <2>3. \A v \in Workers : id \notin store'.acks[v][q]
    <3>1. Recovers(store, t, w, q)
      BY PrologueRecovers
    <3>2. \A v \in Workers : id \notin store.acks[v][q]
      BY <1>1, <2>1 DEF Mapped
    <3> QED BY <1>3, <3>1, <3>2 DEF Recovers
  <2>4. Status(id) = "unsent" /\ Status(id)' = "stored" /\ Holder(id)' = {}
    BY <1>1, <2>1, <2>2, <2>3 DEF Mapped
  <2> QED BY <2>1, <2>4 DEF Promise!Send
<1> QED BY <1>4, <1>5, CommandMaps

LEMMA FetchMaps ==
  ASSUME IInv, IInv', NEW w \in Workers, NEW q \in QueueNames, Fetch(w, q)
  PROVE  Promise!Next
<1>1. PICK t \in Prologues(w, q) : FetchFrom(w, q, t)
  BY DEF Fetch
<1>2. t \in Store /\ home' = home
  BY PrologueStep DEF Fetch
<1>3. \E n : store' = Fetched(t, w, q, n)
  BY <1>1 DEF FetchFrom
<1>4. /\ store'.msgs = t.msgs /\ store'.xqMsgs = t.xqMsgs
      /\ \A v \in Workers \ {w}, p \in QueueNames : store'.acks[v][p] = t.acks[v][p]
  BY <1>2, <1>3 DEF Fetched, Store
<1>5. Moves(w, {})
  BY <1>2, <1>4, CommandMoves
<1> QED BY <1>5, CommandMaps

LEMMA SettleMaps ==
  ASSUME IInv, IInv', NEW w \in Workers, NEW q \in QueueNames, NEW id \in Ids,
         Ack(w, q, id) \/ Nack(w, q, id)
  PROVE  Promise!Next
<1> DEFINE t == Heartbeat(store, w)
<1>1. t \in Prologues(w, q)
  BY DEF Prologues, Prologue
<1>2. t \in Store /\ home' = home
  BY HeartbeatConsistent DEF IInv, TypeOK, Homes, Ack, Nack, Settle
<1>3. store' \in {Acknowledged(t, w, q, id), Nacked(t, w, q, id)}
  BY DEF Ack, Nack
<1> HIDE DEF t
<1>4. \A v \in Workers \ {w}, p \in QueueNames : store'.acks[v][p] = t.acks[v][p]
  BY <1>2, <1>3, SettleSpares
<1>5. \/ /\ store'.msgs = t.msgs
         /\ store'.xqMsgs = t.xqMsgs
      \/ /\ id \in t.acks[w][q]
         /\ store'.msgs = [t.msgs EXCEPT ![q] = @ \ {id}]
         /\ \/ store'.xqMsgs = t.xqMsgs
            \/ id \in t.msgs[q]
               /\ store'.xqMsgs = [t.xqMsgs EXCEPT ![Canonical[q]] = @ \cup {id}]
  BY <1>2, <1>3 DEF Acknowledged, Nacked, Store
<1>6. \A p \in QueueNames :
        /\ store'.msgs[p] \subseteq t.msgs[p]
        /\ t.msgs[p] \ store'.msgs[p] \subseteq t.acks[w][p]
        /\ store'.xqMsgs[p] \subseteq t.xqMsgs[p] \cup t.msgs[q]
  <2>1. t.msgs \in [QueueNames -> SUBSET Ids] /\ t.xqMsgs \in [QueueNames -> SUBSET Ids]
    BY <1>2 DEF Store
  <2>2. \A p \in QueueNames :
          /\ store'.msgs[p] \subseteq t.msgs[p]
          /\ t.msgs[p] \ store'.msgs[p] \subseteq t.acks[w][p]
    BY <1>5, <2>1
  <2>3. \A p \in QueueNames : store'.xqMsgs[p] \subseteq t.xqMsgs[p] \cup t.msgs[q]
    BY <1>5, <2>1
  <2> QED BY <2>2, <2>3
<1>7. Moves(w, {})
  BY <1>1, <1>2, <1>4, <1>6, CommandMoves
<1> QED BY <1>7, CommandMaps

LEMMA RequeueMaps ==
  ASSUME IInv, IInv', NEW w \in Workers, NEW q \in QueueNames, Requeue(w, q)
  PROVE  Promise!Next
<1>1. PICK t \in Prologues(w, q) : \E ids, o : store' = Requeued(t, w, q, ids, o)
  BY DEF Requeue
<1>2. t \in Store /\ home' = home
  BY PrologueStep DEF Requeue
<1>3. /\ store'.msgs = t.msgs /\ store'.xqMsgs = t.xqMsgs
      /\ \A v \in Workers \ {w}, p \in QueueNames : store'.acks[v][p] = t.acks[v][p]
  BY <1>1, <1>2 DEF Requeued, Store
<1>4. Moves(w, {})
  BY <1>2, <1>3, CommandMoves
<1> QED BY <1>4, CommandMaps

LEMMA PollMaps ==
  ASSUME IInv, IInv', NEW w \in Workers, NEW q \in QueueNames, Poll(w, q)
  PROVE  Promise!Next
<1>1. store' \in Prologues(w, q) /\ home' = home
  BY DEF Poll
<1>2. Moves(w, {})
  BY <1>1, CommandMoves
<1> QED BY <1>2, CommandMaps

(* A purge drops its queue's messages, those that others hold included,
   and the dead letters of the queue's group.                              *)
LEMMA PurgeMaps ==
  ASSUME IInv, IInv', NEW w \in Workers, NEW q \in QueueNames, Purge(w, q)
  PROVE  Promise!Next
<1>1. PICK t \in Prologues(w, q) : store' = Purged(t, w, q)
  BY DEF Purge
<1>2. t \in Store /\ home' = home /\ Recovers(store, t, w, q)
  BY PrologueStep, PrologueRecovers DEF Purge
<1>3. /\ store'.msgs = [t.msgs EXCEPT ![q] = {}]
      /\ store'.xqMsgs = [t.xqMsgs EXCEPT ![Canonical[q]] = {}]
      /\ store'.acks = [t.acks EXCEPT ![w] = [t.acks[w] EXCEPT ![q] = {}]]
  BY <1>1, <1>2 DEF Purged, Store
<1>4. /\ store'.msgs[q] = {} /\ store'.xqMsgs[Canonical[q]] = {}
      /\ \A p \in QueueNames \ {q} : store'.msgs[p] = store.msgs[p]
      /\ \A x \in QueueNames \ {Canonical[q]} : store'.xqMsgs[x] = store.xqMsgs[x]
      /\ \A v \in Workers, p \in QueueNames \ {q} :
           store'.acks[v][p] = store.acks[v][p]
  BY <1>2, <1>3, CanonicalAssumption DEF Recovers, Store
<1>5. ASSUME NEW m \in Ids
      PROVE  IF home[m] = q THEN Promise!Drop(m)
             ELSE Promise!Same(m) \/ (Status(m) = "dead" /\ Promise!Drop(m))
  <2>1. Mapped(m) /\ Mapped(m)' /\ home'[m] = home[m] /\ q # NoQueue
    BY <1>2, Mapping, MappingAfter, ClientAssumption
  <2>2. CASE home[m] = q
    <3>1. Status(m)' = "gone" /\ Holder(m)' = {}
      BY <1>4, <2>1, <2>2 DEF Mapped
    <3> QED BY <2>1, <2>2, <3>1 DEF Promise!Drop
  <2>3. CASE home[m] = NoQueue
    BY <2>1, <2>3, SameWhen DEF Mapped
  <2>4. CASE home[m] # NoQueue /\ home[m] # q
    <3> DEFINE p == home[m]
    <3>4. p \in QueueNames \ {q} /\ home'[m] = p
      BY <2>1, <2>4 DEF Mapped
    <3>5. store'.msgs[p] = store.msgs[p]
          /\ \A v \in Workers : store'.acks[v][p] = store.acks[v][p]
      BY <1>4, <3>4
    <3>6. {v \in Workers : m \in store'.acks[v][p]} = {v \in Workers : m \in store.acks[v][p]}
      BY <3>5
    <3>7. /\ Holder(m) = IF m \in store.msgs[p]
                         THEN {v \in Workers : m \in store.acks[v][p]} ELSE {}
          /\ Holder(m)' = IF m \in store'.msgs[p]
                          THEN {v \in Workers : m \in store'.acks[v][p]} ELSE {}
      BY <2>1, <2>4, <3>4 DEF Mapped
    <3>1. Holder(m)' = Holder(m)
      BY <3>5, <3>6, <3>7
    <3>2. CASE Status(m)' = Status(m)
      BY <2>1, <2>4, <3>1, <3>2, SameWhen
    <3>3. CASE Status(m)' # Status(m)
      <4>1. Status(m) = "dead" /\ Status(m)' = "gone" /\ Holder(m)' = {}
        BY <1>4, <2>1, <2>4, <3>3 DEF Mapped
      <4> QED BY <2>1, <2>4, <4>1 DEF Promise!Drop
    <3> QED BY <3>2, <3>3
  <2> QED BY <2>2, <2>3, <2>4
<1>6. Promise!Purge(q)
  BY <1>5 DEF Promise!Purge
<1>7. Dead(store)' \subseteq Workers
  BY DEF Dead
<1> QED BY <1>6, <1>7 DEF Promise!Next

(* Time passes, which only lets brokers lapse.                             *)
LEMMA TickMaps ==
  ASSUME IInv, Tick
  PROVE  [Promise!Next]_(Promise!vars)
<1>1. /\ store'.msgs = store.msgs /\ store'.acks = store.acks
      /\ store'.xqMsgs = store.xqMsgs /\ home' = home
  BY DEF Tick, IInv, TypeOK, Store
<1>2. \A m \in Ids : Status(m)' = Status(m)
  BY <1>1 DEF Status
<1>3. \A m \in Ids : Holder(m)' = Holder(m)
  BY <1>1, <1>2 DEF Holder
<1>4. CASE Workers = {}
  BY <1>1, <1>2, <1>3, <1>4 DEF Promise!vars, Dead
<1>5. CASE Workers # {}
  <2>1. PICK c \in Workers : TRUE
    BY <1>5
  <2>2. Promise!Command(c)
    BY <1>1, <1>2, <1>3, SameWhen DEF Promise!Command
  <2>3. Dead(store)' \subseteq Workers
    BY DEF Dead
  <2> QED BY <2>2, <2>3 DEF Promise!Next
<1> QED BY <1>4, <1>5

LEMMA StutterMaps ==
  ASSUME store' = store, home' = home
  PROVE  UNCHANGED Promise!vars
<1>1. \A m \in Ids : Status(m)' = Status(m)
  BY DEF Status
<1>2. \A m \in Ids : Holder(m)' = Holder(m)
  BY <1>1 DEF Holder
<1> QED BY <1>1, <1>2 DEF Promise!vars, Dead

LEMMA InitMaps == Init => Promise!Init
<1> SUFFICES ASSUME Init PROVE Promise!Init
  OBVIOUS
<1>1. store = EmptyStore /\ home = [id \in Ids |-> NoQueue]
  BY DEF Init
<1>2. \A m \in Ids : Status(m) = "unsent" /\ Holder(m) = {}
  BY <1>1 DEF Status, Holder
<1>3. Dead(store) = {}
  BY <1>1, TimesAssumption DEF Dead, EmptyStore, Never
<1> QED BY <1>1, <1>2, <1>3 DEF Promise!Init

LEMMA NextMaps == IInv /\ [Next]_vars => [Promise!Next]_(Promise!vars)
<1> SUFFICES ASSUME IInv, [Next]_vars PROVE [Promise!Next]_(Promise!vars)
  OBVIOUS
<1>1. IInv'
  BY NextPreserves
<1>2. ASSUME NEW w \in Workers, NEW q \in QueueNames,
             \/ Enqueue(w, q)
             \/ Fetch(w, q)
             \/ \E id \in Ids : Ack(w, q, id) \/ Nack(w, q, id)
             \/ Requeue(w, q)
             \/ Purge(w, q)
             \/ Poll(w, q)
      PROVE  Promise!Next
  BY <1>1, <1>2, EnqueueMaps, FetchMaps, SettleMaps, RequeueMaps, PurgeMaps, PollMaps
<1>3. ASSUME NEW w \in Workers, NEW q \in QueueNames, Forget(w, q) \/ Crash(w)
      PROVE  UNCHANGED Promise!vars
  BY <1>3, StutterMaps DEF Forget, Crash
<1>4. ASSUME NEW w \in Workers, Crash(w)
      PROVE  UNCHANGED Promise!vars
  BY <1>4, StutterMaps DEF Crash
<1>5. CASE Tick
  BY <1>5, TickMaps
<1>6. CASE UNCHANGED vars
  BY <1>6, StutterMaps DEF vars
<1> QED BY <1>2, <1>3, <1>4, <1>5, <1>6 DEF Next

(* The store implements the promise of MessageQueue: whatever commands of
   any brokers interleave with maintenance, crashes and lost replies, each
   of them is, message by message, a step that the promise allows.         *)
THEOREM RefinesPromise == Spec => KeepsPromise
<1>1. IInv /\ [Next]_vars => [Promise!Next]_(Promise!vars)
  BY NextMaps
<1> QED BY <1>1, InitMaps, Inductive, PTL DEF Spec, KeepsPromise, Promise!Spec
=============================================================================
