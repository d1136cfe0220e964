-------------------------- MODULE StubBrokerProofs --------------------------
(***************************************************************************)
(* Proofs about StubBroker, for any jobs, threads, prefetch and retries.   *)
(***************************************************************************)
EXTENDS StubBroker, FiniteSetTheorems, TLAPS

(* Where a message is that is still to be processed or settled: one that is
   about to be acked no longer counts, another carries its job or none.    *)
Live == {"run", "nack", "nacked"}
Places == {"q", "dq", "work", "held", "threads"}
In(p) ==
  CASE p = "q" -> ToSet(queue["q"])
    [] p = "dq" -> ToSet(queue["dq"])
    [] p = "work" -> ToSet(work)
    [] p = "held" -> consumer["dq"].held
    [] p = "threads" -> UNION {thread[t].item : t \in Busy(Live)}

Consumer == [slots : Nat, held : SUBSET Jobs, copied : SUBSET Jobs,
             replaced : 0 .. MaxPauses]
Thread == [pc : {"idle", "run", "ack", "nack", "nacked"}, item : SUBSET Jobs]
Main == [pc : {"idle", "flush q", "flush dq", "flush letters", "join q", "join dq",
               "check q", "check dq", "letters"},
         sent : SUBSET Jobs, raised : BOOLEAN]
Types ==
  /\ queue \in [Queues -> Seq(Jobs)] /\ work \in Seq(Jobs)
  /\ unfinished \in [Queues -> Int]
  /\ consumer \in [Queues -> Consumer]
  /\ thread \in [Threads -> Thread]
  /\ tries \in [Jobs -> 0 .. MaxRetries]
  /\ done \subseteq Jobs /\ dead \subseteq Jobs
  /\ main \in Main /\ moved \in BOOLEAN
Singles ==
  /\ \A t \in Threads : thread[t].item = {} \/ \E j \in Jobs : thread[t].item = {j}
  /\ \A t \in Threads : thread[t].pc = "idle" <=> thread[t].item = {}
  /\ consumer["dq"].copied = {} \/ \E j \in Jobs : consumer["dq"].copied = {j}

(* A job has one message that is live, or none.                            *)
Disjoint == \A p, r \in Places : p # r => In(p) \cap In(r) = {}
Ordered ==
  IsInjective(queue["q"]) /\ IsInjective(queue["dq"]) /\ IsInjective(work)
Unshared ==
  \A t, u \in Threads :
    thread[t].pc \in Live /\ thread[u].pc \in Live
      /\ thread[t].item \cap thread[u].item # {} => t = u
Apart == Disjoint /\ Ordered /\ Unshared
Sent ==
  /\ \A p \in Places : In(p) \subseteq main.sent
  /\ \A j \in main.sent : j \in done \cup dead \/ \E p \in Places : j \in In(p)

(* What join() has seen stays so, unless a delayed message was moved.      *)
Seen ==
  ~moved =>
    /\ main.pc \in {"check dq", "letters"} => unfinished["q"] = 0
    /\ main.pc = "letters" => unfinished["dq"] = 0

IInv == Types /\ Singles /\ Apart /\ Sent /\ UnfinishedCounts /\ SlotsKept /\ Seen

-----------------------------------------------------------------------------
(* Sequences and sets.                                                     *)

LEMMA AppendFacts ==
  ASSUME NEW l \in Seq(Jobs), NEW x \in Jobs
  PROVE  /\ Append(l, x) \in Seq(Jobs) /\ Len(Append(l, x)) = Len(l) + 1
         /\ ToSet(Append(l, x)) = ToSet(l) \cup {x}
         /\ IsInjective(l) /\ x \notin ToSet(l) => IsInjective(Append(l, x))
<1> DEFINE a == Append(l, x)
<1>1. /\ a \in Seq(Jobs)
      /\ Len(a) = Len(l) + 1
      /\ \A i \in 1 .. Len(l) : a[i] = l[i]
      /\ a[Len(l) + 1] = x
  OBVIOUS
<1>2. DOMAIN a = 1 .. Len(l) + 1 /\ DOMAIN l = 1 .. Len(l) /\ Len(l) \in Nat
  BY <1>1
<1> HIDE DEF a
<1>3. ToSet(a) \subseteq ToSet(l) \cup {x}
  BY <1>1, <1>2 DEF ToSet
<1>4. ToSet(l) \cup {x} \subseteq ToSet(a)
  <2>1. x \in ToSet(a)
    BY <1>1, <1>2 DEF ToSet
  <2>2. ASSUME NEW i \in 1 .. Len(l) PROVE l[i] \in ToSet(a)
    BY <1>1, <1>2 DEF ToSet
  <2> QED BY <1>2, <2>1, <2>2 DEF ToSet
<1>5. IsInjective(l) /\ x \notin ToSet(l) => IsInjective(a)
  BY <1>1, <1>2 DEF ToSet, IsInjective
<1> QED BY <1>1, <1>3, <1>4, <1>5 DEF a

LEMMA TailFacts ==
  ASSUME NEW l \in Seq(Jobs), l # <<>>
  PROVE  /\ Head(l) \in Jobs /\ Head(l) \in ToSet(l)
         /\ Tail(l) \in Seq(Jobs) /\ Len(Tail(l)) = Len(l) - 1
         /\ IsInjective(l) => /\ IsInjective(Tail(l))
                              /\ ToSet(Tail(l)) = ToSet(l) \ {Head(l)}
<1> DEFINE r == Tail(l)
           h == Head(l)
<1>1. /\ h \in Jobs /\ h = l[1] /\ Len(l) \in Nat /\ Len(l) >= 1
      /\ r \in Seq(Jobs) /\ Len(r) = Len(l) - 1
      /\ \A i \in 1 .. Len(l) - 1 : r[i] = l[i + 1]
  OBVIOUS
<1>2. DOMAIN r = 1 .. Len(l) - 1 /\ DOMAIN l = 1 .. Len(l)
  BY <1>1
<1> HIDE DEF r, h
<1>3. h \in ToSet(l)
  BY <1>1, <1>2 DEF ToSet
<1>4. ASSUME IsInjective(l) PROVE IsInjective(r)
  <2>1. ASSUME NEW i \in DOMAIN r, NEW k \in DOMAIN r, r[i] = r[k] PROVE i = k
    <3>1. i + 1 \in DOMAIN l /\ k + 1 \in DOMAIN l /\ l[i + 1] = l[k + 1]
      BY <1>1, <1>2, <2>1
    <3>2. i + 1 = k + 1
      BY <1>4, <3>1 DEF IsInjective
    <3> QED BY <1>2, <3>2
  <2> QED BY <2>1 DEF IsInjective
<1>5. ASSUME IsInjective(l) PROVE ToSet(r) = ToSet(l) \ {h}
  <2>1. ASSUME NEW i \in DOMAIN r PROVE r[i] \in ToSet(l) \ {h}
    <3>1. i + 1 \in DOMAIN l /\ r[i] = l[i + 1] /\ 1 \in DOMAIN l /\ i + 1 # 1
      BY <1>1, <1>2
    <3>2. l[i + 1] # l[1]
      BY <1>5, <3>1 DEF IsInjective
    <3> QED BY <1>1, <3>1, <3>2 DEF ToSet
  <2>2. ASSUME NEW i \in DOMAIN l, l[i] # h PROVE l[i] \in ToSet(r)
    <3>1. i - 1 \in DOMAIN r /\ r[i - 1] = l[(i - 1) + 1] /\ (i - 1) + 1 = i
      BY <1>1, <1>2, <2>2
    <3> QED BY <3>1 DEF ToSet
  <2> QED BY <2>1, <2>2 DEF ToSet
<1> QED BY <1>1, <1>3, <1>4, <1>5 DEF r, h

LEMMA EmptyFacts ==
  <<>> \in Seq(Jobs) /\ Len(<<>>) = 0 /\ ToSet(<<>>) = {} /\ IsInjective(<<>>)
BY DEF ToSet, IsInjective

LEMMA JobSets ==
  ASSUME NEW S \in SUBSET Jobs
  PROVE  /\ IsFiniteSet(S) /\ Cardinality(S) \in Nat
         /\ \A j \in Jobs \ S : Cardinality(S \cup {j}) = Cardinality(S) + 1
         /\ \A j \in S : Cardinality(S \ {j}) = Cardinality(S) - 1
<1>1. IsFiniteSet(S)
  BY StubAssumption, FS_Subset
<1> QED BY <1>1, FS_CardinalityType, FS_AddElement, FS_RemoveElement

LEMMA SingleCounts == Cardinality({}) = 0 /\ \A j : Cardinality({j}) = 1
BY FS_EmptySet, FS_Singleton

-----------------------------------------------------------------------------
(* The threads.                                                            *)

Flag(condition) == IF condition THEN 1 ELSE 0

LEMMA BusyChanges ==
  ASSUME NEW P, NEW t \in Threads, NEW r, thread \in [Threads -> Thread],
         thread' = [thread EXCEPT ![t] = r]
  PROVE  /\ Cardinality(Busy(P)) \in Nat /\ Cardinality(Busy(P))' \in Nat
         /\ Cardinality(Busy(P))' = Cardinality(Busy(P)) + Flag(r.pc \in P)
                                      - Flag(thread[t].pc \in P)
<1> DEFINE old == Busy(P)
           new == Busy(P)'
           rest == old \ {t}
<1>1. /\ new \ {t} = rest
      /\ t \in new <=> r.pc \in P
      /\ t \in old <=> thread[t].pc \in P
  BY DEF Busy
<1>2. old \subseteq Threads /\ new \subseteq Threads
  BY DEF Busy
<1>3. IsFiniteSet(old) /\ Cardinality(old) \in Nat
  BY <1>2, StubAssumption, FS_Subset, FS_CardinalityType
<1>4. IsFiniteSet(new) /\ Cardinality(new) \in Nat
  BY <1>2, StubAssumption, FS_Subset, FS_CardinalityType
<1> HIDE DEF old, new
<1>5. Cardinality(rest) = IF t \in old THEN Cardinality(old) - 1 ELSE Cardinality(old)
  BY <1>3, FS_RemoveElement, Zenon
<1>6. Cardinality(new \ {t}) = IF t \in new THEN Cardinality(new) - 1 ELSE Cardinality(new)
  BY <1>4, FS_RemoveElement, Zenon
<1> HIDE DEF rest
<1>7. Cardinality(new \ {t}) = Cardinality(rest)
  BY <1>1, Zenon
<1>8. Cardinality(new) = Cardinality(old) + Flag(r.pc \in P) - Flag(thread[t].pc \in P)
  BY <1>1, <1>3, <1>4, <1>5, <1>6, <1>7 DEF Flag
<1> QED BY <1>3, <1>4, <1>8 DEF new, old

LEMMA ThreadsIn ==
  \A j : j \in In("threads")
           <=> \E t \in Threads : thread[t].pc \in Live /\ j \in thread[t].item
BY DEF In, Busy

LEMMA ThreadsInAfter ==
  \A j : j \in In("threads")'
           <=> \E t \in Threads : thread'[t].pc \in Live /\ j \in thread'[t].item
BY DEF In, Busy

(* What a step of one thread means for the messages that threads have.     *)
LEMMA ThreadChanges ==
  ASSUME Types, Unshared, NEW t \in Threads, NEW r,
         thread' = [thread EXCEPT ![t] = r]
  PROVE  /\ (thread[t].pc \in Live <=> r.pc \in Live) /\ r.item = thread[t].item
              => In("threads")' = In("threads") /\ Unshared'
         /\ thread[t].pc \notin Live /\ r.pc \notin Live
              => In("threads")' = In("threads") /\ Unshared'
         /\ \A j : thread[t].pc \in Live /\ thread[t].item = {j} /\ r.pc \notin Live
              => In("threads")' = In("threads") \ {j} /\ Unshared'
         /\ \A j : thread[t].pc \notin Live /\ r.pc \in Live /\ r.item = {j}
                     /\ j \notin In("threads")
              => In("threads")' = In("threads") \cup {j} /\ Unshared'
<1>1. \A u \in Threads : thread'[u] = IF u = t THEN r ELSE thread[u]
  BY DEF Types
<1>2. ASSUME (thread[t].pc \in Live <=> r.pc \in Live), r.item = thread[t].item
      PROVE  In("threads")' = In("threads") /\ Unshared'
  <2>1. \A u \in Threads : /\ thread'[u].pc \in Live <=> thread[u].pc \in Live
                           /\ thread'[u].item = thread[u].item
    BY <1>1, <1>2
  <2>2. \A j : j \in In("threads")' <=> j \in In("threads")
    BY <2>1, ThreadsIn, ThreadsInAfter
  <2> QED BY <2>1, <2>2 DEF Unshared
<1>3. ASSUME thread[t].pc \notin Live, r.pc \notin Live
      PROVE  In("threads")' = In("threads") /\ Unshared'
  <2>1. \A j : j \in In("threads")' <=> j \in In("threads")
    BY <1>1, <1>3, ThreadsIn, ThreadsInAfter
  <2> QED BY <1>1, <1>3, <2>1 DEF Unshared
<1>4. ASSUME NEW j, thread[t].pc \in Live, thread[t].item = {j}, r.pc \notin Live
      PROVE  In("threads")' = In("threads") \ {j} /\ Unshared'
  <2>1. \A i : i \in In("threads")' <=> i \in In("threads") /\ i # j
    BY <1>1, <1>4, ThreadsIn, ThreadsInAfter DEF Unshared
  <2> QED BY <1>1, <1>4, <2>1 DEF Unshared
<1>5. ASSUME NEW j, thread[t].pc \notin Live, r.pc \in Live, r.item = {j},
             j \notin In("threads")
      PROVE  In("threads")' = In("threads") \cup {j} /\ Unshared'
  <2>1. \A i : i \in In("threads")' <=> i \in In("threads") \/ i = j
    BY <1>1, <1>5, ThreadsIn, ThreadsInAfter
  <2>2. \A u \in Threads : thread[u].pc \in Live => j \notin thread[u].item
    BY <1>5, ThreadsIn
  <2> QED BY <1>1, <1>5, <2>1, <2>2 DEF Unshared
<1> QED BY <1>2, <1>3, <1>4, <1>5

LEMMA ThreadsSame ==
  ASSUME UNCHANGED thread
  PROVE  /\ In("threads")' = In("threads")
         /\ Unshared => Unshared'
<1>1. \A j : j \in In("threads")' <=> j \in In("threads")
  BY ThreadsIn, ThreadsInAfter
<1> QED BY <1>1 DEF Unshared

-----------------------------------------------------------------------------
(* Where messages go.                                                      *)

Moves(j, dest) ==
  \A p \in Places : In(p)' = (In(p) \ {j}) \cup IF p = dest THEN {j} ELSE {}
Stays == \A p \in Places : In(p)' = In(p)

LEMMA StaysApart ==
  ASSUME Disjoint, Sent, Stays, main.sent = main'.sent,
         done \cup dead \subseteq done' \cup dead'
  PROVE  Disjoint' /\ Sent'
<1>1. \A p \in Places : In(p)' = In(p)
  BY DEF Stays
<1> HIDE DEF In
<1>2. Disjoint'
  BY <1>1 DEF Disjoint
<1>3. Sent'
  BY <1>1 DEF Sent
<1> QED BY <1>2, <1>3

LEMMA MovesApart ==
  ASSUME Disjoint, Sent, NEW j, NEW dest, Moves(j, dest),
         main'.sent = main.sent \cup {j}, done \subseteq done', dead \subseteq dead',
         dest \in Places \/ j \in done' \cup dead'
  PROVE  Disjoint' /\ Sent'
<1>1. \A p \in Places : In(p)' = (In(p) \ {j}) \cup IF p = dest THEN {j} ELSE {}
  BY DEF Moves
<1>2. Disjoint'
  BY <1>1 DEF Disjoint
<1>3. \A p \in Places : In(p)' \subseteq main'.sent
  BY <1>1 DEF Sent
<1>4. ASSUME NEW i \in main'.sent
      PROVE  i \in done' \cup dead' \/ \E p \in Places : i \in In(p)'
  <2>1. CASE i = j
    BY <1>1, <2>1
  <2>2. CASE i # j
    BY <1>1, <1>4, <2>2 DEF Sent
  <2> QED BY <2>1, <2>2
<1> QED BY <1>2, <1>3, <1>4 DEF Sent

(* A message that leaves one place for another is in no third.             *)
LEMMA FromTo ==
  ASSUME Disjoint, NEW j, NEW source \in Places, j \in In(source), NEW dest,
         \A p \in Places :
           /\ p = source => In(p)' = In(p) \ {j}
           /\ p = dest => In(p)' = In(p) \cup {j}
           /\ p # source /\ p # dest => In(p)' = In(p),
         source # dest
  PROVE  Moves(j, dest)
<1>1. \A p \in Places : p # source => j \notin In(p)
  BY DEF Disjoint
<1> QED BY <1>1 DEF Moves

LEMMA Fields ==
  /\ In("q") = ToSet(queue["q"]) /\ In("dq") = ToSet(queue["dq"])
  /\ In("work") = ToSet(work) /\ In("held") = consumer["dq"].held
  /\ In("q")' = ToSet(queue'["q"]) /\ In("dq")' = ToSet(queue'["dq"])
  /\ In("work")' = ToSet(work') /\ In("held")' = consumer'["dq"].held
BY DEF In

LEMMA InitHolds == Init => IInv
<1> SUFFICES ASSUME Init PROVE IInv
  OBVIOUS
<1>1. Types
  <2>1. /\ queue \in [Queues -> Seq(Jobs)] /\ work \in Seq(Jobs)
        /\ unfinished \in [Queues -> Int]
    BY EmptyFacts DEF Init, NoItems
  <2>2. consumer \in [Queues -> Consumer]
    BY StubAssumption DEF Init, Consumer
  <2>3. thread \in [Threads -> Thread] /\ main \in Main
    BY DEF Init, Thread, Main
  <2>4. tries \in [Jobs -> 0 .. MaxRetries]
    BY StubAssumption DEF Init
  <2> QED BY <2>1, <2>2, <2>3, <2>4 DEF Init, Types
<1>2. Singles
  BY DEF Init, Singles, Queues
<1>3. \A p \in Places : In(p) = {}
  <2>1. \A j : j \notin In("threads")
    BY ThreadsIn DEF Init
  <2> QED BY <2>1, EmptyFacts, Fields DEF Init, Places, Queues, NoItems
<1>4. Apart
  <2>1. Disjoint
    BY <1>3 DEF Disjoint
  <2>2. Ordered /\ Unshared
    BY EmptyFacts DEF Init, Ordered, Unshared, Queues, NoItems, Live
  <2> QED BY <2>1, <2>2 DEF Apart
<1>5. Sent
  BY <1>3 DEF Init, Sent
<1>6. /\ Cardinality(Busy({"run", "ack", "nack"})) = 0
      /\ Cardinality(Busy({"run", "ack", "nack", "nacked"})) = 0
  <2>1. Busy({"run", "ack", "nack"}) = {} /\ Busy({"run", "ack", "nack", "nacked"}) = {}
    BY DEF Init, Busy
  <2> QED BY <2>1, SingleCounts
<1>7. UnfinishedCounts /\ SlotsKept
  <2>1. Len(<<>>) = 0 /\ Cardinality({}) = 0
    BY SingleCounts, EmptyFacts
  <2>2. /\ \A name \in Queues :
             /\ Len(queue[name]) = 0 /\ unfinished[name] = 0
             /\ consumer[name].slots = Prefetch /\ consumer[name].replaced = 0
        /\ Cardinality(consumer["dq"].held) = 0 /\ Cardinality(consumer["dq"].copied) = 0
        /\ Len(work) = 0
    BY <2>1 DEF Init, Queues, NoItems
  <2>3. UnfinishedCounts
    BY <1>6, <2>2 DEF UnfinishedCounts, Queues
  <2>4. SlotsKept
    <3>1. Prefetch * (0 + 1) = Prefetch
      BY StubAssumption
    <3> QED BY <1>6, <2>2, <3>1, StubAssumption DEF SlotsKept, Queues
  <2> QED BY <2>3, <2>4
<1>8. Seen
  BY DEF Init, Seen
<1> QED BY <1>1, <1>2, <1>4, <1>5, <1>7, <1>8 DEF IInv

-----------------------------------------------------------------------------
(* Counts.                                                                 *)

Queued(name) == Len(queue[name])
Working == Len(work)
Unacked == Cardinality(Busy({"run", "ack", "nack"}))
Taken == Cardinality(Busy({"run", "ack", "nack", "nacked"}))
Delayed == Cardinality(consumer["dq"].held) + Cardinality(consumer["dq"].copied)
Unfinished(name) ==
  IF name = "q" THEN Queued("q") + Working + Unacked
  ELSE Queued("dq") + Cardinality(consumer["dq"].held) + Cardinality(consumer["dq"].copied)
Out(name) == IF name = "q" THEN Working + Taken ELSE Delayed

LEMMA CountsMean ==
  /\ UnfinishedCounts <=> \A name \in Queues : unfinished[name] = Unfinished(name)
  /\ SlotsKept <=> \A name \in Queues :
       /\ consumer[name].slots + Out(name) >= Prefetch
       /\ consumer[name].slots + Out(name) <= Prefetch * (consumer[name].replaced + 1)
<1>1. UnfinishedCounts <=> \A name \in Queues : unfinished[name] = Unfinished(name)
  BY DEF UnfinishedCounts, Unfinished, Queued, Working, Unacked, Queues
<1>2. SlotsKept <=> \A name \in Queues :
       /\ consumer[name].slots + Out(name) >= Prefetch
       /\ consumer[name].slots + Out(name) <= Prefetch * (consumer[name].replaced + 1)
  BY DEF SlotsKept, Out, Working, Taken, Delayed, Queues
<1> QED BY <1>1, <1>2

LEMMA CountsMeanAfter ==
  /\ UnfinishedCounts' <=> \A name \in Queues : unfinished'[name] = Unfinished(name)'
  /\ SlotsKept' <=> \A name \in Queues :
       /\ consumer'[name].slots + Out(name)' >= Prefetch
       /\ consumer'[name].slots + Out(name)' <= Prefetch * (consumer'[name].replaced + 1)
<1>1. UnfinishedCounts' <=> \A name \in Queues : unfinished'[name] = Unfinished(name)'
  BY DEF UnfinishedCounts, Unfinished, Queued, Working, Unacked, Queues
<1>2. SlotsKept' <=> \A name \in Queues :
       /\ consumer'[name].slots + Out(name)' >= Prefetch
       /\ consumer'[name].slots + Out(name)' <= Prefetch * (consumer'[name].replaced + 1)
  BY DEF SlotsKept, Out, Working, Taken, Delayed, Queues
<1> QED BY <1>1, <1>2

LEMMA Numbers ==
  ASSUME Types
  PROVE  /\ Unacked \in Nat /\ Taken \in Nat /\ Working \in Nat
         /\ \A name \in Queues : /\ Queued(name) \in Nat
                                 /\ unfinished[name] \in Int
                                 /\ consumer[name].slots \in Nat
                                 /\ consumer[name].replaced \in Nat
         /\ Cardinality(consumer["dq"].held) \in Nat
         /\ Cardinality(consumer["dq"].copied) \in Nat
<1>1. \A P : Cardinality(Busy(P)) \in Nat
  <2> SUFFICES ASSUME NEW P PROVE Cardinality(Busy(P)) \in Nat
    OBVIOUS
  <2>1. Busy(P) \subseteq Threads
    BY DEF Busy
  <2> QED BY <2>1, StubAssumption, FS_Subset, FS_CardinalityType
<1>2. Unacked \in Nat /\ Taken \in Nat
  BY <1>1 DEF Unacked, Taken
<1>3. \A name \in Queues : consumer[name] \in Consumer
  BY DEF Types
<1>4. consumer["dq"].held \subseteq Jobs /\ consumer["dq"].copied \subseteq Jobs
  BY <1>3 DEF Consumer, Queues
<1>5. /\ Cardinality(consumer["dq"].held) \in Nat
      /\ Cardinality(consumer["dq"].copied) \in Nat
  BY <1>4, JobSets
<1>6. Working \in Nat /\ \A name \in Queues : Queued(name) \in Nat
  BY DEF Types, Working, Queued
<1>7. \A name \in Queues : /\ unfinished[name] \in Int
                           /\ consumer[name].slots \in Nat
                           /\ consumer[name].replaced \in Nat
  BY <1>3, StubAssumption DEF Types, Consumer
<1> QED BY <1>2, <1>5, <1>6, <1>7

(* The counts of threads when one of them goes on.                         *)
LEMMA ThreadCounts ==
  ASSUME Types, NEW t \in Threads, NEW r, thread' = [thread EXCEPT ![t] = r]
  PROVE  /\ Unacked' = Unacked + Flag(r.pc \in {"run", "ack", "nack"})
                         - Flag(thread[t].pc \in {"run", "ack", "nack"})
         /\ Taken' = Taken + Flag(r.pc \in {"run", "ack", "nack", "nacked"})
                       - Flag(thread[t].pc \in {"run", "ack", "nack", "nacked"})
<1>1. thread \in [Threads -> Thread]
  BY DEF Types
<1>2. Unacked' = Unacked + Flag(r.pc \in {"run", "ack", "nack"})
                   - Flag(thread[t].pc \in {"run", "ack", "nack"})
  BY <1>1, BusyChanges DEF Unacked
<1>3. Taken' = Taken + Flag(r.pc \in {"run", "ack", "nack", "nacked"})
                 - Flag(thread[t].pc \in {"run", "ack", "nack", "nacked"})
  BY <1>1, BusyChanges DEF Taken
<1> QED BY <1>2, <1>3

LEMMA ThreadCountsSame ==
  ASSUME UNCHANGED thread PROVE Unacked' = Unacked /\ Taken' = Taken
BY DEF Unacked, Taken, Busy

LEMMA Before ==
  ASSUME Types, UnfinishedCounts
  PROVE  /\ unfinished["q"] = Queued("q") + Working + Unacked
         /\ unfinished["dq"] = Queued("dq") + Cardinality(consumer["dq"].held)
                                 + Cardinality(consumer["dq"].copied)
         /\ Unacked \in Nat /\ Taken \in Nat /\ Working \in Nat
         /\ Queued("q") \in Nat /\ Queued("dq") \in Nat
         /\ unfinished["q"] \in Int /\ unfinished["dq"] \in Int
         /\ consumer["q"].slots \in Nat /\ consumer["dq"].slots \in Nat
         /\ Cardinality(consumer["dq"].held) \in Nat
         /\ Cardinality(consumer["dq"].copied) \in Nat
<1>1. /\ unfinished["q"] = Queued("q") + Working + Unacked
      /\ unfinished["dq"] = Queued("dq") + Cardinality(consumer["dq"].held)
                              + Cardinality(consumer["dq"].copied)
  BY CountsMean DEF Unfinished, Queues
<1> QED BY <1>1, Numbers DEF Queues

(* A step that takes no slot from one holder without giving it to another. *)
LEMMA CountsAfter ==
  ASSUME SlotsKept,
         unfinished'["q"] = Queued("q")' + Working' + Unacked',
         unfinished'["dq"] = Queued("dq")' + Cardinality(consumer'["dq"].held)
                               + Cardinality(consumer'["dq"].copied),
         consumer'["q"].slots + (Working' + Taken')
           = consumer["q"].slots + (Working + Taken),
         consumer'["dq"].slots + (Cardinality(consumer'["dq"].held)
                                    + Cardinality(consumer'["dq"].copied))
           = consumer["dq"].slots + (Cardinality(consumer["dq"].held)
                                       + Cardinality(consumer["dq"].copied)),
         \A name \in Queues : consumer'[name].replaced = consumer[name].replaced
  PROVE  UnfinishedCounts' /\ SlotsKept'
<1>1. UnfinishedCounts'
  <2>1. unfinished'["q"] = Unfinished("q")' /\ unfinished'["dq"] = Unfinished("dq")'
    BY DEF Unfinished
  <2> QED BY <2>1, CountsMeanAfter DEF Queues
<1>2. \A name \in Queues :
       /\ consumer[name].slots + Out(name) >= Prefetch
       /\ consumer[name].slots + Out(name) <= Prefetch * (consumer[name].replaced + 1)
  BY CountsMean
<1>3. \A name \in Queues : consumer'[name].slots + Out(name)' = consumer[name].slots + Out(name)
  <2>1. /\ Out("q") = Working + Taken /\ Out("q")' = Working' + Taken'
        /\ Out("dq") = Cardinality(consumer["dq"].held) + Cardinality(consumer["dq"].copied)
        /\ Out("dq")' = Cardinality(consumer'["dq"].held) + Cardinality(consumer'["dq"].copied)
    BY DEF Out, Delayed
  <2> QED BY <2>1 DEF Queues
<1>4. \A name \in Queues :
       /\ consumer'[name].slots + Out(name)' >= Prefetch
       /\ consumer'[name].slots + Out(name)' <= Prefetch * (consumer'[name].replaced + 1)
  BY <1>2, <1>3
<1> QED BY <1>1, <1>4, CountsMeanAfter

(* The consumer of a queue changes in what it has, not in how often it was
   replaced.                                                               *)
ConsumerIs(name, slots, held, copied) ==
  /\ consumer' \in [Queues -> Consumer]
  /\ \A m \in Queues \ {name} : consumer'[m] = consumer[m]
  /\ consumer'[name].slots = slots
  /\ consumer'[name].held = held
  /\ consumer'[name].copied = copied
  /\ consumer'[name].replaced = consumer[name].replaced

LEMMA FetchEffect ==
  ASSUME IInv, NEW name \in Queues, Fetch(name)
  PROVE  /\ queue[name] \in Seq(Jobs) /\ queue[name] # <<>>
         /\ queue' \in [Queues -> Seq(Jobs)]
         /\ queue'[name] = Tail(queue[name])
         /\ \A m \in Queues \ {name} : queue'[m] = queue[m]
         /\ name = "dq" => /\ work' = work /\ consumer["dq"].copied = {}
                           /\ ConsumerIs("dq", consumer["dq"].slots - 1,
                                 consumer["dq"].held \cup {Head(queue["dq"])}, {})
         /\ name = "q" => /\ work' = Append(work, Head(queue["q"]))
                          /\ ConsumerIs("q", consumer["q"].slots - 1,
                                consumer["q"].held, consumer["q"].copied)
<1>1. /\ queue[name] \in Seq(Jobs) /\ queue[name] # <<>>
      /\ queue' \in [Queues -> Seq(Jobs)]
      /\ queue'[name] = Tail(queue[name])
      /\ \A m \in Queues \ {name} : queue'[m] = queue[m]
  <2>1. queue[name] \in Seq(Jobs) /\ queue[name] # <<>>
    BY DEF IInv, Types, Fetch
  <2>2. Tail(queue[name]) \in Seq(Jobs)
    BY <2>1, TailFacts
  <2> QED BY <2>1, <2>2 DEF IInv, Types, Fetch
<1>2. /\ consumer \in [Queues -> Consumer] /\ consumer[name] \in Consumer
      /\ consumer[name].slots - 1 \in Nat /\ consumer[name].copied = {}
  BY DEF IInv, Types, Fetch, Consumer
<1>3. Head(queue[name]) \in Jobs
  BY <1>1, TailFacts
<1>4. CASE name = "dq"
  <2> DEFINE j == Head(queue["dq"])
             c == [consumer["dq"] EXCEPT !.slots = consumer["dq"].slots - 1,
                                         !.held = consumer["dq"].held \cup {j}]
  <2>1. consumer' = [consumer EXCEPT !["dq"] = c] /\ work' = work
    BY <1>2, <1>4 DEF Fetch
  <2>2. c \in Consumer /\ c.slots = consumer["dq"].slots - 1
        /\ c.held = consumer["dq"].held \cup {j} /\ c.copied = {}
        /\ c.replaced = consumer["dq"].replaced
    BY <1>2, <1>3, <1>4 DEF Consumer
  <2> HIDE DEF c
  <2>3. ConsumerIs("dq", consumer["dq"].slots - 1, consumer["dq"].held \cup {j}, {})
    BY <1>2, <1>4, <2>1, <2>2 DEF ConsumerIs
  <2> QED BY <1>1, <1>2, <1>4, <2>1, <2>3
<1>5. CASE name = "q"
  <2> DEFINE c == [consumer["q"] EXCEPT !.slots = consumer["q"].slots - 1]
  <2>1. /\ consumer' = [consumer EXCEPT !["q"] = c]
        /\ work' = Append(work, Head(queue["q"]))
    BY <1>2, <1>5 DEF Fetch
  <2>2. c \in Consumer /\ c.slots = consumer["q"].slots - 1
        /\ c.held = consumer["q"].held /\ c.copied = consumer["q"].copied
        /\ c.replaced = consumer["q"].replaced
    BY <1>2, <1>5 DEF Consumer
  <2> HIDE DEF c
  <2>3. ConsumerIs("q", consumer["q"].slots - 1, consumer["q"].held, consumer["q"].copied)
    BY <1>2, <1>5, <2>1, <2>2 DEF ConsumerIs
  <2> QED BY <1>1, <1>5, <2>1, <2>3
<1> QED BY <1>4, <1>5 DEF Queues

LEMMA PutEffect ==
  ASSUME Types, NEW name \in Queues, NEW j \in Jobs, Put(name, j)
  PROVE  /\ queue' \in [Queues -> Seq(Jobs)] /\ unfinished' \in [Queues -> Int]
         /\ \A m \in Queues \ {name} : queue'[m] = queue[m] /\ unfinished'[m] = unfinished[m]
         /\ Len(queue'[name]) = Len(queue[name]) + 1
         /\ ToSet(queue'[name]) = ToSet(queue[name]) \cup {j}
         /\ unfinished'[name] = unfinished[name] + 1
         /\ IsInjective(queue[name]) /\ j \notin ToSet(queue[name])
              => IsInjective(queue'[name])
<1>1. queue[name] \in Seq(Jobs)
  BY DEF Types
<1>2. queue'[name] = Append(queue[name], j)
  BY DEF Types, Put
<1>3. Append(queue[name], j) \in Seq(Jobs)
  BY <1>1, AppendFacts
<1>4. /\ queue' \in [Queues -> Seq(Jobs)] /\ unfinished' \in [Queues -> Int]
      /\ \A m \in Queues \ {name} : queue'[m] = queue[m] /\ unfinished'[m] = unfinished[m]
      /\ unfinished'[name] = unfinished[name] + 1
  BY <1>3 DEF Types, Put
<1> QED BY <1>1, <1>2, <1>4, AppendFacts

LEMMA TaskDoneEffect ==
  ASSUME Types, NEW name \in Queues, TaskDone(name)
  PROVE  /\ unfinished' \in [Queues -> Int]
         /\ \A m \in Queues \ {name} : unfinished'[m] = unfinished[m]
         /\ unfinished'[name] = unfinished[name] - 1
BY DEF Types, TaskDone

LEMMA FieldTypes ==
  ASSUME Types
  PROVE  /\ queue["q"] \in Seq(Jobs) /\ queue["dq"] \in Seq(Jobs)
         /\ \A name \in Queues : consumer[name] \in Consumer
         /\ consumer["dq"].held \subseteq Jobs /\ consumer["dq"].copied \subseteq Jobs
         /\ \A p \in Places : In(p) \subseteq Jobs
<1>1. /\ queue["q"] \in Seq(Jobs) /\ queue["dq"] \in Seq(Jobs)
      /\ \A name \in Queues : consumer[name] \in Consumer
  BY DEF Types, Queues
<1>2. consumer["dq"].held \subseteq Jobs /\ consumer["dq"].copied \subseteq Jobs
  BY <1>1 DEF Consumer, Queues
<1>3. In("threads") \subseteq Jobs
  BY ThreadsIn DEF Types, Thread
<1>4. ToSet(queue["q"]) \subseteq Jobs /\ ToSet(queue["dq"]) \subseteq Jobs
      /\ ToSet(work) \subseteq Jobs
  BY <1>1 DEF Types, ToSet
<1> QED BY <1>1, <1>2, <1>3, <1>4, Fields DEF Places

LEMMA SeenSame ==
  ASSUME Seen, UNCHANGED <<unfinished, main, moved>> PROVE Seen'
BY DEF Seen

-----------------------------------------------------------------------------
(* The consumers.                                                          *)

LEMMA FetchHolds ==
  ASSUME IInv, NEW name \in Queues, Fetch(name)
  PROVE  IInv'
<1> DEFINE l == queue[name]
           j == Head(queue[name])
<1> USE DEF IInv
<1>1. /\ Types /\ Singles /\ Disjoint /\ Ordered /\ Unshared /\ Sent /\ SlotsKept
      /\ UnfinishedCounts
      /\ UNCHANGED <<unfinished, thread, tries, done, dead, main, moved>>
  BY DEF Apart, Fetch, OutsideConsumer
<1>2. /\ l \in Seq(Jobs) /\ l # <<>> /\ queue' \in [Queues -> Seq(Jobs)]
      /\ queue'[name] = Tail(l) /\ \A m \in Queues \ {name} : queue'[m] = queue[m]
  BY FetchEffect
<1>3. /\ j \in Jobs /\ j \in ToSet(l) /\ Len(Tail(l)) = Len(l) - 1
      /\ IsInjective(Tail(l)) /\ ToSet(Tail(l)) = ToSet(l) \ {j}
  BY <1>1, <1>2, TailFacts DEF Ordered, Queues
<1>4. In("threads")' = In("threads") /\ Unshared'
  BY <1>1, ThreadsSame
<1>5. Unacked' = Unacked /\ Taken' = Taken
  BY <1>1, ThreadCountsSame
<1>8. unfinished'["q"] = unfinished["q"] /\ unfinished'["dq"] = unfinished["dq"]
  BY <1>1
<1>9. /\ unfinished["q"] = Queued("q") + Working + Unacked
      /\ unfinished["dq"] = Queued("dq") + Cardinality(consumer["dq"].held)
                              + Cardinality(consumer["dq"].copied)
      /\ Unacked \in Nat /\ Taken \in Nat /\ Working \in Nat
      /\ Queued("q") \in Nat /\ Queued("dq") \in Nat
      /\ consumer["q"].slots \in Nat /\ consumer["dq"].slots \in Nat
      /\ Cardinality(consumer["dq"].held) \in Nat
      /\ Cardinality(consumer["dq"].copied) \in Nat
  BY <1>1, Before
<1>6. CASE name = "dq"
  <2> DEFINE c == consumer["dq"]
             d == consumer'["dq"]
  <2>1. /\ work' = work /\ c.copied = {}
        /\ consumer' \in [Queues -> Consumer] /\ consumer'["q"] = consumer["q"]
        /\ d.slots = c.slots - 1 /\ d.held = c.held \cup {j}
        /\ d.copied = {} /\ d.replaced = c.replaced
    BY <1>6, FetchEffect DEF ConsumerIs, Queues
  <2>2. Types' /\ Singles'
    BY <1>1, <1>2, <2>1 DEF Types, Singles
  <2>3. j \in In("dq") /\ j \notin c.held
    BY <1>1, <1>3, <1>6, Fields DEF Disjoint, Places
  <2>4. Moves(j, "held")
    <3>1. \A p \in Places :
           /\ p = "dq" => In(p)' = In(p) \ {j}
           /\ p = "held" => In(p)' = In(p) \cup {j}
           /\ p # "dq" /\ p # "held" => In(p)' = In(p)
      BY <1>2, <1>3, <1>4, <1>6, <2>1, Fields DEF Places, Queues
    <3> QED BY <1>1, <2>3, <3>1, FromTo DEF Places
  <2>5. Disjoint' /\ Sent'
    <3>1. main'.sent = main.sent \cup {j}
      BY <1>1, <2>3 DEF Sent, Places
    <3> QED BY <1>1, <2>4, <3>1, MovesApart DEF Places
  <2>6. Ordered'
    BY <1>1, <1>2, <1>3, <1>6, <2>1 DEF Ordered, Queues
  <2>7. Cardinality(d.held) = Cardinality(c.held) + 1 /\ d.copied = c.copied
    <3>1. c.held \in SUBSET Jobs /\ j \in Jobs \ c.held
      BY <1>1, <1>3, <2>3, FieldTypes
    <3>2. Cardinality(c.held \cup {j}) = Cardinality(c.held) + 1
      BY <3>1, JobSets
    <3> QED BY <2>1, <3>2
  <2>8. UnfinishedCounts' /\ SlotsKept'
    <3>0. d.slots = c.slots - 1 /\ Cardinality(d.held) = Cardinality(c.held) + 1
      BY <2>1, <2>7
    <3>1. /\ Queued("q")' = Queued("q") /\ Queued("dq")' = Queued("dq") - 1
          /\ Cardinality(d.copied) = Cardinality(c.copied) /\ Working' = Working
          /\ consumer'["q"].slots = consumer["q"].slots
          /\ \A m \in Queues : consumer'[m].replaced = consumer[m].replaced
      BY <1>2, <1>3, <1>6, <2>1, <2>7 DEF Queued, Working, Queues
    <3>2. unfinished'["q"] = Queued("q")' + Working' + Unacked'
      BY <1>5, <1>8, <1>9, <3>0, <3>1
    <3>3. unfinished'["dq"] = Queued("dq")' + Cardinality(consumer'["dq"].held)
                               + Cardinality(consumer'["dq"].copied)
      <4>1. Queued("dq") + Cardinality(c.held) + Cardinality(c.copied)
              = (Queued("dq") - 1) + (Cardinality(c.held) + 1) + Cardinality(c.copied)
        BY <1>9
      <4> QED BY <1>8, <1>9, <3>0, <3>1, <4>1
    <3>4. consumer'["q"].slots + (Working' + Taken')
           = consumer["q"].slots + (Working + Taken)
      BY <1>5, <1>9, <3>0, <3>1
    <3>5. consumer'["dq"].slots + (Cardinality(consumer'["dq"].held)
                                    + Cardinality(consumer'["dq"].copied))
           = consumer["dq"].slots + (Cardinality(consumer["dq"].held)
                                       + Cardinality(consumer["dq"].copied))
      BY <1>5, <1>9, <3>0, <3>1
    <3> QED BY <1>1, <3>1, <3>2, <3>3, <3>4, <3>5, CountsAfter
  <2> QED BY <1>1, <1>4, <2>2, <2>5, <2>6, <2>8, SeenSame DEF Apart
<1>7. CASE name = "q"
  <2> DEFINE c == consumer["q"]
             d == consumer'["q"]
  <2>1. /\ work' = Append(work, j)
        /\ consumer' \in [Queues -> Consumer] /\ consumer'["dq"] = consumer["dq"]
        /\ d.slots = c.slots - 1 /\ d.replaced = c.replaced
    BY <1>7, FetchEffect DEF ConsumerIs, Queues
  <2>2. j \in In("q") /\ j \notin ToSet(work)
    BY <1>1, <1>3, <1>7, Fields DEF Disjoint, Places
  <2>3. /\ work' \in Seq(Jobs) /\ Len(work') = Len(work) + 1
        /\ ToSet(work') = ToSet(work) \cup {j} /\ IsInjective(work')
    BY <1>1, <1>3, <2>1, <2>2, AppendFacts DEF Types, Ordered
  <2>4. Types' /\ Singles'
    BY <1>1, <1>2, <2>1, <2>3 DEF Types, Singles
  <2>5. Moves(j, "work")
    <3>1. \A p \in Places :
           /\ p = "q" => In(p)' = In(p) \ {j}
           /\ p = "work" => In(p)' = In(p) \cup {j}
           /\ p # "q" /\ p # "work" => In(p)' = In(p)
      BY <1>2, <1>3, <1>4, <1>7, <2>1, <2>3, Fields DEF Places, Queues
    <3> QED BY <1>1, <2>2, <3>1, FromTo DEF Places
  <2>6. Disjoint' /\ Sent'
    <3>1. main'.sent = main.sent \cup {j}
      BY <1>1, <2>2 DEF Sent, Places
    <3> QED BY <1>1, <2>5, <3>1, MovesApart DEF Places
  <2>7. Ordered'
    BY <1>1, <1>2, <1>3, <1>7, <2>3 DEF Ordered, Queues
  <2>8. UnfinishedCounts' /\ SlotsKept'
    <3>0. d.slots = c.slots - 1 /\ Working' = Working + 1
      BY <2>1, <2>3 DEF Working
    <3>1. /\ Queued("q")' = Queued("q") - 1 /\ Queued("dq")' = Queued("dq")
          /\ Cardinality(consumer'["dq"].held) = Cardinality(consumer["dq"].held)
          /\ Cardinality(consumer'["dq"].copied) = Cardinality(consumer["dq"].copied)
          /\ consumer'["dq"].slots = consumer["dq"].slots
          /\ \A m \in Queues : consumer'[m].replaced = consumer[m].replaced
      BY <1>2, <1>3, <1>7, <2>1, <2>3 DEF Queued, Working, Queues
    <3>2. unfinished'["q"] = Queued("q")' + Working' + Unacked'
      <4>1. Queued("q") + Working + Unacked
              = (Queued("q") - 1) + (Working + 1) + Unacked
        BY <1>9
      <4>2. Unacked' = Unacked
        BY <1>5
      <4>3. unfinished'["q"] = Queued("q") + Working + Unacked
        BY <1>8, <1>9
      <4>4. Working' = Working + 1 /\ Queued("q")' = Queued("q") - 1
        BY <3>0, <3>1
      <4> QED BY <4>1, <4>2, <4>3, <4>4
    <3>3. unfinished'["dq"] = Queued("dq")' + Cardinality(consumer'["dq"].held)
                               + Cardinality(consumer'["dq"].copied)
      BY <1>5, <1>8, <1>9, <3>0, <3>1
    <3>4. consumer'["q"].slots + (Working' + Taken')
           = consumer["q"].slots + (Working + Taken)
      BY <1>5, <1>9, <3>0, <3>1
    <3>5. consumer'["dq"].slots + (Cardinality(consumer'["dq"].held)
                                    + Cardinality(consumer'["dq"].copied))
           = consumer["dq"].slots + (Cardinality(consumer["dq"].held)
                                       + Cardinality(consumer["dq"].copied))
      BY <1>5, <1>9, <3>0, <3>1
    <3> QED BY <1>1, <3>1, <3>2, <3>3, <3>4, <3>5, CountsAfter
  <2> QED BY <1>1, <1>4, <2>4, <2>6, <2>7, <2>8, SeenSame DEF Apart
<1> QED BY <1>6, <1>7 DEF Queues

LEMMA CopyHolds ==
  ASSUME IInv, Copy
  PROVE  IInv'
<1> USE DEF IInv
<1> DEFINE c == consumer["dq"]
           d == consumer'["dq"]
<1>1. /\ Types /\ Singles /\ Disjoint /\ Ordered /\ Unshared /\ Sent /\ SlotsKept
      /\ UnfinishedCounts
      /\ UNCHANGED <<work, thread, tries, done, dead, main>>
  BY DEF Apart, Copy, OutsideConsumer
<1>2. PICK j \in c.held :
        /\ c.copied = {} /\ Put("q", j)
        /\ consumer' = [consumer EXCEPT !["dq"].held = @ \ {j}, !["dq"].copied = {j}]
        /\ moved' = (moved \/ main.pc = "check dq")
  BY DEF Copy
<1>3. c \in Consumer /\ consumer \in [Queues -> Consumer] /\ j \in Jobs
  BY <1>1, FieldTypes DEF Types, Queues
<1>4. /\ queue' \in [Queues -> Seq(Jobs)] /\ unfinished' \in [Queues -> Int]
      /\ queue'["dq"] = queue["dq"] /\ unfinished'["dq"] = unfinished["dq"]
      /\ Len(queue'["q"]) = Len(queue["q"]) + 1
      /\ ToSet(queue'["q"]) = ToSet(queue["q"]) \cup {j}
      /\ unfinished'["q"] = unfinished["q"] + 1
      /\ IsInjective(queue["q"]) /\ j \notin ToSet(queue["q"]) => IsInjective(queue'["q"])
  BY <1>1, <1>2, <1>3, PutEffect DEF Queues
<1>5. /\ consumer' \in [Queues -> Consumer] /\ consumer'["q"] = consumer["q"]
      /\ d.slots = c.slots /\ d.held = c.held \ {j}
      /\ d.copied = {j} /\ d.replaced = c.replaced
  <2> DEFINE e == [c EXCEPT !.held = c.held \ {j}, !.copied = {j}]
  <2>1. consumer' = [consumer EXCEPT !["dq"] = e]
    BY <1>2, <1>3
  <2>2. e \in Consumer /\ e.slots = c.slots /\ e.held = c.held \ {j}
        /\ e.copied = {j} /\ e.replaced = c.replaced
    BY <1>3 DEF Consumer
  <2> HIDE DEF e
  <2> QED BY <1>3, <2>1, <2>2 DEF Queues
<1>6. In("threads")' = In("threads") /\ Unshared' /\ Unacked' = Unacked /\ Taken' = Taken
  BY <1>1, ThreadsSame, ThreadCountsSame
<1>7. Types' /\ Singles'
  <2>1. moved' \in BOOLEAN
    BY <1>2
  <2>2. d.copied = {} \/ \E k \in Jobs : d.copied = {k}
    BY <1>3, <1>5
  <2> QED BY <1>1, <1>4, <1>5, <2>1, <2>2 DEF Types, Singles
<1>8. j \in In("held") /\ j \notin ToSet(queue["q"])
  BY <1>1, Fields DEF Disjoint, Places
<1>9. Moves(j, "q")
  <2>1. \A p \in Places :
         /\ p = "held" => In(p)' = In(p) \ {j}
         /\ p = "q" => In(p)' = In(p) \cup {j}
         /\ p # "held" /\ p # "q" => In(p)' = In(p)
    BY <1>1, <1>4, <1>5, <1>6, Fields DEF Places
  <2> QED BY <1>1, <1>8, <2>1, FromTo DEF Places
<1>10. Disjoint' /\ Sent'
  <2>1. main'.sent = main.sent \cup {j}
    BY <1>1, <1>8 DEF Sent, Places
  <2> QED BY <1>1, <1>9, <2>1, MovesApart DEF Places
<1>11. Ordered'
  BY <1>1, <1>4, <1>8 DEF Ordered
<1>12. Cardinality(d.held) = Cardinality(c.held) - 1 /\ Cardinality(c.held) > 0
  <2>1. c.held \in SUBSET Jobs
    BY <1>1, FieldTypes
  <2>2. Cardinality(c.held \ {j}) = Cardinality(c.held) - 1
    BY <2>1, JobSets
  <2>3. Cardinality(c.held \ {j}) \in Nat /\ Cardinality(c.held) \in Nat
    BY <2>1, JobSets
  <2> QED BY <1>5, <2>2, <2>3
<1>13. Cardinality(d.copied) = 1 /\ Cardinality(c.copied) = 0
  BY <1>2, <1>5, SingleCounts
<1>14. UnfinishedCounts' /\ SlotsKept'
  <2>1. /\ Queued("q")' = Queued("q") + 1 /\ Queued("dq")' = Queued("dq")
        /\ Working' = Working
    BY <1>1, <1>4 DEF Queued, Working
  <2>2. /\ Queued("q") \in Nat /\ Working \in Nat /\ Unacked \in Nat
        /\ Queued("dq") \in Nat /\ Cardinality(c.held) \in Nat
        /\ unfinished["q"] = Queued("q") + Working + Unacked
        /\ unfinished["dq"] = Queued("dq") + Cardinality(c.held) + Cardinality(c.copied)
    BY <1>1, Before
  <2>3. unfinished'["q"] = Queued("q")' + Working' + Unacked'
    <3>1. Queued("q") + Working + Unacked + 1 = (Queued("q") + 1) + Working + Unacked
      BY <2>2
    <3> QED BY <1>4, <1>6, <2>1, <2>2, <3>1
  <2>4. unfinished'["dq"] = Queued("dq")' + Cardinality(d.held) + Cardinality(d.copied)
    <3>1. Queued("dq") + Cardinality(c.held) + 0 = Queued("dq") + (Cardinality(c.held) - 1) + 1
      BY <2>2
    <3> QED BY <1>4, <1>12, <1>13, <2>1, <2>2, <3>1
  <2>5. Cardinality(d.held) + Cardinality(d.copied) = Cardinality(c.held) + Cardinality(c.copied)
    BY <1>12, <1>13, <2>2
  <2>6. /\ consumer'["q"].slots + (Working' + Taken') = consumer["q"].slots + (Working + Taken)
        /\ d.slots + (Cardinality(d.held) + Cardinality(d.copied))
             = c.slots + (Cardinality(c.held) + Cardinality(c.copied))
        /\ \A m \in Queues : consumer'[m].replaced = consumer[m].replaced
    BY <1>5, <1>6, <2>1, <2>5 DEF Queues
  <2> QED BY <1>1, <2>3, <2>4, <2>6, CountsAfter
<1>15. Seen'
  <2>1. unfinished["dq"] > 0
    <3>1. /\ Queued("dq") \in Nat /\ Cardinality(c.held) \in Nat
          /\ unfinished["dq"] = Queued("dq") + Cardinality(c.held) + Cardinality(c.copied)
      BY <1>1, Before
    <3> QED BY <1>12, <1>13, <3>1
  <2>2. main' = main /\ (~moved' => ~moved /\ main.pc # "check dq")
    BY <1>1, <1>2
  <2>3. Seen /\ unfinished["dq"] # 0
    BY <2>1
  <2>4. ~moved => main.pc # "letters"
    BY <2>3, Zenon DEF Seen
  <2>5. ~moved' => main'.pc # "check dq" /\ main'.pc # "letters"
    BY <2>2, <2>4, Zenon
  <2> QED BY <2>5, Zenon DEF Seen
<1> QED BY <1>6, <1>7, <1>10, <1>11, <1>14, <1>15 DEF Apart

LEMMA AckCopiedHolds ==
  ASSUME IInv, AckCopied
  PROVE  IInv'
<1> USE DEF IInv
<1> DEFINE c == consumer["dq"]
           d == consumer'["dq"]
<1>1. /\ Types /\ Singles /\ Disjoint /\ Ordered /\ Unshared /\ Sent /\ SlotsKept
      /\ UnfinishedCounts
      /\ UNCHANGED <<queue, work, thread, tries, done, dead, main, moved>>
  BY DEF Apart, AckCopied, OutsideConsumer
<1>2. /\ unfinished' \in [Queues -> Int] /\ unfinished'["q"] = unfinished["q"]
      /\ unfinished'["dq"] = unfinished["dq"] - 1
  BY <1>1, TaskDoneEffect DEF AckCopied, Queues
<1>3. /\ consumer' \in [Queues -> Consumer] /\ consumer'["q"] = consumer["q"]
      /\ d.slots = c.slots + 1 /\ d.held = c.held
      /\ d.copied = {} /\ d.replaced = c.replaced
  <2> DEFINE b == [c EXCEPT !.copied = {}]
             e == [b EXCEPT !.slots = b.slots + 1]
  <2>1. c \in Consumer /\ consumer \in [Queues -> Consumer]
    BY <1>1 DEF Types, Queues
  <2>2. consumer' = [consumer EXCEPT !["dq"] = e]
    BY <2>1 DEF AckCopied
  <2>3. e \in Consumer /\ e.slots = c.slots + 1 /\ e.held = c.held
        /\ e.copied = {} /\ e.replaced = c.replaced
    <3>1. b \in Consumer /\ b.slots = c.slots /\ b.held = c.held
          /\ b.copied = {} /\ b.replaced = c.replaced
      BY <2>1 DEF Consumer
    <3> HIDE DEF b
    <3> QED BY <3>1 DEF Consumer
  <2> HIDE DEF e
  <2> QED BY <2>1, <2>2, <2>3 DEF Queues
<1>4. In("threads")' = In("threads") /\ Unshared' /\ Unacked' = Unacked /\ Taken' = Taken
  BY <1>1, ThreadsSame, ThreadCountsSame
<1>5. Types' /\ Singles'
  BY <1>1, <1>2, <1>3 DEF Types, Singles
<1>6. Disjoint' /\ Sent'
  <2>1. Stays
    BY <1>1, <1>3, <1>4, Fields DEF Stays, Places
  <2> QED BY <1>1, <2>1, StaysApart
<1>7. Ordered'
  BY <1>1 DEF Ordered
<1>8. Cardinality(d.copied) = 0 /\ Cardinality(c.copied) = 1
  BY <1>1, <1>3, SingleCounts DEF Singles, AckCopied
<1>9. UnfinishedCounts' /\ SlotsKept'
  <2>1. /\ Queued("q")' = Queued("q") /\ Queued("dq")' = Queued("dq")
        /\ Working' = Working
    BY <1>1 DEF Queued, Working
  <2>2. /\ Queued("dq") \in Nat /\ Cardinality(c.held) \in Nat /\ c.slots \in Nat
        /\ unfinished["q"] = Queued("q") + Working + Unacked
        /\ unfinished["dq"] = Queued("dq") + Cardinality(c.held) + Cardinality(c.copied)
    BY <1>1, Before
  <2>3. unfinished'["dq"] = Queued("dq")' + Cardinality(d.held) + Cardinality(d.copied)
    <3>1. (Queued("dq") + Cardinality(c.held) + 1) - 1 = Queued("dq") + Cardinality(c.held) + 0
      BY <2>2
    <3> QED BY <1>2, <1>3, <1>8, <2>1, <2>2, <3>1
  <2>4. d.slots + (Cardinality(d.held) + Cardinality(d.copied))
          = c.slots + (Cardinality(c.held) + Cardinality(c.copied))
    <3>1. (c.slots + 1) + (Cardinality(c.held) + 0) = c.slots + (Cardinality(c.held) + 1)
      BY <2>2
    <3> QED BY <1>3, <1>8, <3>1
  <2>5. /\ unfinished'["q"] = Queued("q")' + Working' + Unacked'
        /\ consumer'["q"].slots + (Working' + Taken') = consumer["q"].slots + (Working + Taken)
        /\ \A m \in Queues : consumer'[m].replaced = consumer[m].replaced
    BY <1>2, <1>3, <1>4, <2>1, <2>2 DEF Queues
  <2> QED BY <1>1, <2>3, <2>4, <2>5, CountsAfter
<1>10. Seen'
  <2>1. unfinished["dq"] # 0
    <3>1. /\ Queued("dq") \in Nat /\ Cardinality(c.held) \in Nat
          /\ unfinished["dq"] = Queued("dq") + Cardinality(c.held) + Cardinality(c.copied)
      BY <1>1, Before
    <3> QED BY <1>8, <3>1
  <2> QED BY <1>1, <1>2, <2>1 DEF Seen
<1> QED BY <1>4, <1>5, <1>6, <1>7, <1>9, <1>10 DEF Apart

(* The new consumer has all its slots, and counts none of what is out.     *)
LEMMA ReplaceHolds ==
  ASSUME IInv, NEW name \in Queues, Replace(name)
  PROVE  IInv'
<1> USE DEF IInv
<1>1. /\ Types /\ Singles /\ Disjoint /\ Ordered /\ Unshared /\ Sent /\ SlotsKept
      /\ UnfinishedCounts
      /\ UNCHANGED <<queue, unfinished, work, thread, tries, done, dead, main, moved>>
  BY DEF Apart, Replace, OutsideConsumer
<1> DEFINE c == consumer[name]
           d == consumer'[name]
<1>2. /\ consumer' \in [Queues -> Consumer]
      /\ \A m \in Queues \ {name} : consumer'[m] = consumer[m]
      /\ d.slots = Prefetch /\ d.held = c.held
      /\ d.copied = c.copied /\ d.replaced = c.replaced + 1
      /\ c.replaced \in Nat /\ c.slots \in Nat
  <2> DEFINE b == [c EXCEPT !.slots = Prefetch]
             e == [b EXCEPT !.replaced = b.replaced + 1]
  <2>1. c \in Consumer /\ consumer \in [Queues -> Consumer] /\ c.replaced < MaxPauses
    BY <1>1 DEF Types, Queues, Replace
  <2>2. consumer' = [consumer EXCEPT ![name] = e]
    BY <2>1 DEF Replace
  <2>3. e \in Consumer /\ e.slots = Prefetch /\ e.held = c.held
        /\ e.copied = c.copied /\ e.replaced = c.replaced + 1
    <3>1. b \in Consumer /\ b.slots = Prefetch /\ b.held = c.held
          /\ b.copied = c.copied /\ b.replaced = c.replaced
      BY <2>1, StubAssumption DEF Consumer
    <3> HIDE DEF b
    <3>2. b.replaced + 1 \in 0 .. MaxPauses
      BY <2>1, <3>1, StubAssumption DEF Consumer
    <3> QED BY <3>1, <3>2 DEF Consumer
  <2>4. c.replaced \in Nat /\ c.slots \in Nat
    BY <2>1, StubAssumption DEF Consumer
  <2> HIDE DEF e
  <2> QED BY <2>1, <2>2, <2>3, <2>4
<1>3. In("threads")' = In("threads") /\ Unshared' /\ Unacked' = Unacked /\ Taken' = Taken
  BY <1>1, ThreadsSame, ThreadCountsSame
<1>4. consumer'["dq"].held = consumer["dq"].held /\ consumer'["dq"].copied = consumer["dq"].copied
  BY <1>2 DEF Queues
<1>5. Types' /\ Singles'
  BY <1>1, <1>2, <1>4 DEF Types, Singles
<1>6. Disjoint' /\ Sent'
  <2>1. Stays
    BY <1>1, <1>3, <1>4, Fields DEF Stays, Places
  <2> QED BY <1>1, <2>1, StaysApart
<1>7. Ordered'
  BY <1>1 DEF Ordered
<1>8. UnfinishedCounts'
  <2>1. \A m \in Queues : Unfinished(m)' = Unfinished(m)
    BY <1>1, <1>3, <1>4 DEF Unfinished, Queued, Working
  <2> QED BY <1>1, <2>1, CountsMean, CountsMeanAfter
<1>9. SlotsKept'
  <2>1. \A m \in Queues : Out(m)' = Out(m) /\ Out(m) \in Nat
    <3>1. Working \in Nat /\ Taken \in Nat /\ Cardinality(consumer["dq"].held) \in Nat
          /\ Cardinality(consumer["dq"].copied) \in Nat
      BY <1>1, Numbers
    <3>2. Delayed' = Delayed /\ Working' = Working
      BY <1>1, <1>4 DEF Delayed, Working
    <3>3. Delayed \in Nat
      BY <3>1 DEF Delayed
    <3> QED BY <1>3, <3>1, <3>2, <3>3 DEF Out
  <2>2. \A m \in Queues :
          /\ consumer[m].slots + Out(m) >= Prefetch
          /\ consumer[m].slots + Out(m) <= Prefetch * (consumer[m].replaced + 1)
    BY <1>1, CountsMean
  <2>3. Prefetch + Out(name) >= Prefetch
        /\ Prefetch + Out(name) <= Prefetch * ((c.replaced + 1) + 1)
    <3>1. Prefetch \in Nat /\ Out(name) \in Nat
      BY <2>1, StubAssumption
    <3> DEFINE k == c.replaced + 1
    <3>2. Prefetch * (k + 1) = Prefetch * k + Prefetch /\ Prefetch * k \in Nat
      BY <1>2, <3>1
    <3>3. Out(name) <= Prefetch * k
      BY <1>2, <2>2, <3>1, <3>2
    <3> HIDE DEF k
    <3>4. Prefetch + Out(name) <= Prefetch * k + Prefetch
      BY <3>1, <3>2, <3>3
    <3> QED BY <3>1, <3>2, <3>4 DEF k
  <2>4. ASSUME NEW m \in Queues
        PROVE  /\ consumer'[m].slots + Out(m)' >= Prefetch
               /\ consumer'[m].slots + Out(m)' <= Prefetch * (consumer'[m].replaced + 1)
    <3>1. CASE m = name
      BY <1>2, <2>1, <2>3, <3>1
    <3>2. CASE m # name
      BY <1>2, <2>1, <2>2, <3>2
    <3> QED BY <3>1, <3>2
  <2> QED BY <2>4, CountsMeanAfter
<1> QED BY <1>1, <1>3, <1>5, <1>6, <1>7, <1>8, <1>9, SeenSame DEF Apart

-----------------------------------------------------------------------------
(* The worker threads.                                                     *)

LEMMA ThreadGoes ==
  ASSUME Types, NEW t \in Threads, NEW pc \in {"idle", "run", "ack", "nack", "nacked"},
         thread' = [thread EXCEPT ![t].pc = pc]
  PROVE  \E r \in Thread : /\ thread' = [thread EXCEPT ![t] = r]
                           /\ r.pc = pc /\ r.item = thread[t].item
<1> DEFINE r == [thread[t] EXCEPT !.pc = pc]
<1>1. r \in Thread /\ r.pc = pc /\ r.item = thread[t].item
  BY DEF Types, Thread
<1>2. thread' = [thread EXCEPT ![t] = r]
  OBVIOUS
<1> QED BY <1>1, <1>2

(* What is left to show of a step of a thread that changes no consumer.    *)
LEMMA ThreadHas ==
  ASSUME Types, Singles, NEW t \in Threads, NEW r \in Thread,
         thread' = [thread EXCEPT ![t] = r],
         r.item = {} \/ \E j \in Jobs : r.item = {j},
         r.pc = "idle" <=> r.item = {}
  PROVE  /\ thread' \in [Threads -> Thread]
         /\ \A u \in Threads : thread'[u].item = {} \/ \E j \in Jobs : thread'[u].item = {j}
         /\ \A u \in Threads : thread'[u].pc = "idle" <=> thread'[u].item = {}
<1>1. thread' \in [Threads -> Thread]
  BY DEF Types
<1>2. \A u \in Threads : thread'[u] = IF u = t THEN r ELSE thread[u]
  BY DEF Types
<1>3. \A u \in Threads : thread'[u].item = {} \/ \E j \in Jobs : thread'[u].item = {j}
  BY <1>2 DEF Singles
<1>4. \A u \in Threads : thread'[u].pc = "idle" <=> thread'[u].item = {}
  BY <1>2 DEF Singles
<1> QED BY <1>1, <1>3, <1>4

LEMMA TakeHolds ==
  ASSUME IInv, NEW t \in Threads, Take(t)
  PROVE  IInv'
<1> USE DEF IInv
<1> DEFINE j == Head(work)
           r == [pc |-> "run", item |-> {j}]
<1>1. /\ Types /\ Singles /\ Disjoint /\ Ordered /\ Unshared /\ Sent /\ SlotsKept
      /\ UnfinishedCounts
      /\ UNCHANGED <<queue, unfinished, consumer, tries, done, dead, main, moved>>
      /\ thread[t].pc = "idle" /\ work # <<>> /\ work' = Tail(work)
      /\ thread' = [thread EXCEPT ![t] = r]
  BY DEF Apart, Take
<1>2. /\ j \in Jobs /\ j \in ToSet(work) /\ work' \in Seq(Jobs)
      /\ Len(work') = Len(work) - 1 /\ IsInjective(work')
      /\ ToSet(work') = ToSet(work) \ {j}
  BY <1>1, TailFacts DEF Types, Ordered
<1>3. /\ r \in Thread /\ r.pc = "run" /\ r.item = {j}
  BY <1>2 DEF Thread
<1> HIDE DEF r
<1>4. j \in In("work") /\ j \notin In("threads")
  BY <1>1, <1>2, Fields DEF Disjoint, Places
<1>5. In("threads")' = In("threads") \cup {j} /\ Unshared'
  BY <1>1, <1>3, <1>4, ThreadChanges DEF Live
<1>6. Types' /\ Singles'
  BY <1>1, <1>2, <1>3, ThreadHas DEF Types, Singles
<1>7. Moves(j, "threads")
  <2>1. \A p \in Places :
         /\ p = "work" => In(p)' = In(p) \ {j}
         /\ p = "threads" => In(p)' = In(p) \cup {j}
         /\ p # "work" /\ p # "threads" => In(p)' = In(p)
    BY <1>1, <1>2, <1>5, Fields DEF Places
  <2> QED BY <1>1, <1>4, <2>1, FromTo DEF Places
<1>8. Disjoint' /\ Sent'
  <2>1. main'.sent = main.sent \cup {j}
    BY <1>1, <1>4 DEF Sent, Places
  <2> QED BY <1>1, <1>7, <2>1, MovesApart DEF Places
<1>9. Ordered'
  BY <1>1, <1>2 DEF Ordered
<1>10. UnfinishedCounts' /\ SlotsKept'
  <2>1. Unacked' = Unacked + 1 - 0 /\ Taken' = Taken + 1 - 0
    BY <1>1, <1>3, ThreadCounts DEF Flag
  <2>2. Queued("q")' = Queued("q") /\ Queued("dq")' = Queued("dq") /\ Working' = Working - 1
    BY <1>1, <1>2 DEF Queued, Working
  <2>3. /\ Queued("q") \in Nat /\ Working \in Nat /\ Unacked \in Nat /\ Taken \in Nat
        /\ unfinished["q"] = Queued("q") + Working + Unacked
        /\ unfinished["dq"] = Queued("dq") + Cardinality(consumer["dq"].held)
                                + Cardinality(consumer["dq"].copied)
    BY <1>1, Before
  <2>4. unfinished'["q"] = Queued("q")' + Working' + Unacked'
    <3>1. Queued("q") + Working + Unacked = Queued("q") + (Working - 1) + (Unacked + 1 - 0)
      BY <2>3
    <3> QED BY <1>1, <2>1, <2>2, <2>3, <3>1
  <2>5. Working' + Taken' = Working + Taken
    <3>1. (Working - 1) + (Taken + 1 - 0) = Working + Taken
      BY <2>3
    <3> QED BY <2>1, <2>2, <3>1
  <2>6. unfinished'["dq"] = Queued("dq")' + Cardinality(consumer'["dq"].held)
                              + Cardinality(consumer'["dq"].copied)
    BY <1>1, <2>2, <2>3
  <2> QED BY <1>1, <2>4, <2>5, <2>6, CountsAfter
<1> QED BY <1>1, <1>5, <1>6, <1>8, <1>9, <1>10, SeenSame DEF Apart

(* While a thread is to ack or nack a message, join() waits for the queue.  *)
LEMMA NothingSeen ==
  ASSUME IInv, NEW t \in Threads, thread[t].pc \in {"run", "ack", "nack"},
         UNCHANGED <<main, moved>>
  PROVE  Seen'
<1>1. Types /\ UnfinishedCounts /\ Seen
  BY DEF IInv
<1>2. Unacked # 0
  <2>1. /\ t \in Busy({"run", "ack", "nack"})
        /\ Busy({"run", "ack", "nack"}) \subseteq Threads
    BY DEF Busy
  <2>2. IsFiniteSet(Busy({"run", "ack", "nack"}))
    BY <2>1, StubAssumption, FS_Subset
  <2> QED BY <2>1, <2>2, FS_EmptySet DEF Unacked
<1>3. unfinished["q"] # 0
  <2>1. /\ unfinished["q"] = Queued("q") + Working + Unacked
        /\ Queued("q") \in Nat /\ Working \in Nat /\ Unacked \in Nat
    BY <1>1, Before
  <2> QED BY <1>2, <2>1
<1>4. ~moved => main.pc \notin {"check dq", "letters"}
  BY <1>1, <1>3, Zenon DEF Seen
<1>5. ~moved' => main'.pc \notin {"check dq", "letters"}
  BY <1>4, Zenon
<1>6. ~moved' => main'.pc # "check dq" /\ main'.pc # "letters"
  BY <1>5
<1> QED BY <1>6, Zenon DEF Seen

LEMMA SucceedHolds ==
  ASSUME IInv, NEW t \in Threads, thread[t].pc = "run",
         NEW j \in thread[t].item, done' = done \cup {j},
         thread' = [thread EXCEPT ![t].pc = "ack"],
         UNCHANGED <<queue, unfinished, consumer, work, tries, dead, main, moved>>
  PROVE  IInv'
<1> USE DEF IInv
<1>1. /\ Types /\ Singles /\ Disjoint /\ Ordered /\ Unshared /\ Sent /\ SlotsKept
      /\ UnfinishedCounts
  BY DEF Apart
<1>2. thread[t].item = {j} /\ j \in Jobs
  BY <1>1 DEF Singles
<1>3. PICK r \in Thread : /\ thread' = [thread EXCEPT ![t] = r]
                          /\ r.pc = "ack" /\ r.item = thread[t].item
  BY <1>1, ThreadGoes
<1>4. In("threads")' = In("threads") \ {j} /\ Unshared'
  BY <1>1, <1>2, <1>3, ThreadChanges DEF Live
<1>5. j \in In("threads")
  BY <1>2, ThreadsIn DEF Live
<1>6. Types' /\ Singles'
  <2>1. done' \subseteq Jobs
    BY <1>1, <1>2 DEF Types
  <2>2. /\ thread' \in [Threads -> Thread]
        /\ \A u \in Threads : thread'[u].item = {} \/ \E k \in Jobs : thread'[u].item = {k}
        /\ \A u \in Threads : thread'[u].pc = "idle" <=> thread'[u].item = {}
    <3>1. /\ r.item = {} \/ \E k \in Jobs : r.item = {k}
          /\ r.pc = "idle" <=> r.item = {}
      BY <1>2, <1>3
    <3> QED BY <1>1, <1>3, <3>1, ThreadHas
  <2> QED BY <1>1, <2>1, <2>2 DEF Types, Singles
<1>7. Moves(j, "none")
  <2>1. \A p \in Places :
         /\ p = "threads" => In(p)' = In(p) \ {j}
         /\ p = "none" => In(p)' = In(p) \cup {j}
         /\ p # "threads" /\ p # "none" => In(p)' = In(p)
    BY <1>4, Fields DEF Places
  <2> QED BY <1>1, <1>5, <2>1, FromTo DEF Places
<1>8. Disjoint' /\ Sent'
  <2>1. main'.sent = main.sent \cup {j}
    BY <1>1, <1>5 DEF Sent, Places
  <2> QED BY <1>1, <1>7, <2>1, MovesApart
<1>9. Ordered'
  BY <1>1 DEF Ordered
<1>10. UnfinishedCounts' /\ SlotsKept'
  <2>1. Unacked' = Unacked + 1 - 1 /\ Taken' = Taken + 1 - 1
    BY <1>1, <1>3, ThreadCounts DEF Flag
  <2>2. Queued("q")' = Queued("q") /\ Queued("dq")' = Queued("dq") /\ Working' = Working
    BY DEF Queued, Working
  <2>3. /\ Unacked \in Nat /\ Taken \in Nat
        /\ unfinished["q"] = Queued("q") + Working + Unacked
        /\ unfinished["dq"] = Queued("dq") + Cardinality(consumer["dq"].held)
                                + Cardinality(consumer["dq"].copied)
    BY <1>1, Before
  <2>4. Unacked' = Unacked /\ Taken' = Taken
    BY <2>1, <2>3
  <2> QED BY <1>1, <2>2, <2>3, <2>4, CountsAfter
<1>11. Seen'
  BY NothingSeen
<1> QED BY <1>4, <1>6, <1>8, <1>9, <1>10, <1>11 DEF Apart

LEMMA RetryHolds ==
  ASSUME IInv, NEW t \in Threads, thread[t].pc = "run",
         NEW j \in thread[t].item, tries[j] < MaxRetries,
         tries' = [tries EXCEPT ![j] = @ + 1], Put("dq", j),
         thread' = [thread EXCEPT ![t].pc = "ack"],
         UNCHANGED <<consumer, work, done, dead, main, moved>>
  PROVE  IInv'
<1> USE DEF IInv
<1>1. /\ Types /\ Singles /\ Disjoint /\ Ordered /\ Unshared /\ Sent /\ SlotsKept
      /\ UnfinishedCounts
  BY DEF Apart
<1>2. thread[t].item = {j} /\ j \in Jobs
  BY <1>1 DEF Singles
<1>3. PICK r \in Thread : /\ thread' = [thread EXCEPT ![t] = r]
                          /\ r.pc = "ack" /\ r.item = thread[t].item
  BY <1>1, ThreadGoes
<1>4. In("threads")' = In("threads") \ {j} /\ Unshared'
  BY <1>1, <1>2, <1>3, ThreadChanges DEF Live
<1>5. j \in In("threads")
  BY <1>2, ThreadsIn DEF Live
<1>6. /\ queue' \in [Queues -> Seq(Jobs)] /\ unfinished' \in [Queues -> Int]
      /\ queue'["q"] = queue["q"] /\ unfinished'["q"] = unfinished["q"]
      /\ Len(queue'["dq"]) = Len(queue["dq"]) + 1
      /\ ToSet(queue'["dq"]) = ToSet(queue["dq"]) \cup {j}
      /\ unfinished'["dq"] = unfinished["dq"] + 1
      /\ IsInjective(queue["dq"]) /\ j \notin ToSet(queue["dq"]) => IsInjective(queue'["dq"])
  BY <1>1, <1>2, PutEffect DEF Queues
<1>7. Types' /\ Singles'
  <2>1. tries' \in [Jobs -> 0 .. MaxRetries]
    BY <1>1, <1>2, StubAssumption DEF Types
  <2>2. /\ thread' \in [Threads -> Thread]
        /\ \A u \in Threads : thread'[u].item = {} \/ \E k \in Jobs : thread'[u].item = {k}
        /\ \A u \in Threads : thread'[u].pc = "idle" <=> thread'[u].item = {}
    <3>1. /\ r.item = {} \/ \E k \in Jobs : r.item = {k}
          /\ r.pc = "idle" <=> r.item = {}
      BY <1>2, <1>3
    <3> QED BY <1>1, <1>3, <3>1, ThreadHas
  <2> QED BY <1>1, <1>6, <2>1, <2>2 DEF Types, Singles
<1>8. Moves(j, "dq")
  <2>1. \A p \in Places :
         /\ p = "threads" => In(p)' = In(p) \ {j}
         /\ p = "dq" => In(p)' = In(p) \cup {j}
         /\ p # "threads" /\ p # "dq" => In(p)' = In(p)
    BY <1>4, <1>6, Fields DEF Places
  <2> QED BY <1>1, <1>5, <2>1, FromTo DEF Places
<1>9. Disjoint' /\ Sent'
  <2>1. main'.sent = main.sent \cup {j}
    BY <1>1, <1>5 DEF Sent, Places
  <2> QED BY <1>1, <1>8, <2>1, MovesApart DEF Places
<1>10. Ordered'
  <2>1. j \notin ToSet(queue["dq"])
    BY <1>1, <1>5, Fields DEF Disjoint, Places
  <2> QED BY <1>1, <1>6, <2>1 DEF Ordered
<1>11. UnfinishedCounts' /\ SlotsKept'
  <2>1. Unacked' = Unacked + 1 - 1 /\ Taken' = Taken + 1 - 1
    BY <1>1, <1>3, ThreadCounts DEF Flag
  <2>2. Queued("q")' = Queued("q") /\ Queued("dq")' = Queued("dq") + 1 /\ Working' = Working
    BY <1>6 DEF Queued, Working
  <2>3. /\ Unacked \in Nat /\ Taken \in Nat /\ Queued("dq") \in Nat
        /\ Cardinality(consumer["dq"].held) \in Nat
        /\ Cardinality(consumer["dq"].copied) \in Nat
        /\ unfinished["q"] = Queued("q") + Working + Unacked
        /\ unfinished["dq"] = Queued("dq") + Cardinality(consumer["dq"].held)
                                + Cardinality(consumer["dq"].copied)
    BY <1>1, Before
  <2>4. Unacked' = Unacked /\ Taken' = Taken
    BY <2>1, <2>3
  <2>5. unfinished'["dq"] = Queued("dq")' + Cardinality(consumer'["dq"].held)
                              + Cardinality(consumer'["dq"].copied)
    <3> DEFINE h == Cardinality(consumer["dq"].held)
               k == Cardinality(consumer["dq"].copied)
    <3>1. (Queued("dq") + h + k) + 1 = (Queued("dq") + 1) + h + k
      BY <2>3
    <3> QED BY <1>6, <2>2, <2>3, <3>1
  <2> QED BY <1>1, <1>6, <2>2, <2>3, <2>4, <2>5, CountsAfter
<1>12. Seen'
  BY NothingSeen
<1> QED BY <1>4, <1>7, <1>9, <1>10, <1>11, <1>12 DEF Apart

LEMMA GiveUpHolds ==
  ASSUME IInv, NEW t \in Threads, thread[t].pc = "run",
         thread' = [thread EXCEPT ![t].pc = "nack"],
         UNCHANGED <<queue, unfinished, consumer, work, tries, done, dead, main, moved>>
  PROVE  IInv'
<1> USE DEF IInv
<1>1. /\ Types /\ Singles /\ Disjoint /\ Ordered /\ Unshared /\ Sent /\ SlotsKept
      /\ UnfinishedCounts
  BY DEF Apart
<1>2. thread[t].item # {} /\ (thread[t].item = {} \/ \E j \in Jobs : thread[t].item = {j})
  BY <1>1 DEF Singles
<1>3. PICK r \in Thread : /\ thread' = [thread EXCEPT ![t] = r]
                          /\ r.pc = "nack" /\ r.item = thread[t].item
  BY <1>1, ThreadGoes
<1>4. In("threads")' = In("threads") /\ Unshared'
  BY <1>1, <1>3, ThreadChanges DEF Live
<1>5. Types' /\ Singles'
  <2>1. /\ thread' \in [Threads -> Thread]
        /\ \A u \in Threads : thread'[u].item = {} \/ \E k \in Jobs : thread'[u].item = {k}
        /\ \A u \in Threads : thread'[u].pc = "idle" <=> thread'[u].item = {}
    <3>1. /\ r.item = {} \/ \E k \in Jobs : r.item = {k}
          /\ r.pc = "idle" <=> r.item = {}
      BY <1>2, <1>3
    <3> QED BY <1>1, <1>3, <3>1, ThreadHas
  <2> QED BY <1>1, <2>1 DEF Types, Singles
<1>6. Disjoint' /\ Sent'
  <2>1. Stays
    BY <1>4, Fields DEF Stays, Places
  <2> QED BY <1>1, <2>1, StaysApart
<1>7. Ordered'
  BY <1>1 DEF Ordered
<1>8. UnfinishedCounts' /\ SlotsKept'
  <2>1. Unacked' = Unacked + 1 - 1 /\ Taken' = Taken + 1 - 1
    BY <1>1, <1>3, ThreadCounts DEF Flag
  <2>2. Queued("q")' = Queued("q") /\ Queued("dq")' = Queued("dq") /\ Working' = Working
    BY DEF Queued, Working
  <2>3. /\ Unacked \in Nat /\ Taken \in Nat
        /\ unfinished["q"] = Queued("q") + Working + Unacked
        /\ unfinished["dq"] = Queued("dq") + Cardinality(consumer["dq"].held)
                                + Cardinality(consumer["dq"].copied)
    BY <1>1, Before
  <2>4. Unacked' = Unacked /\ Taken' = Taken
    BY <2>1, <2>3
  <2> QED BY <1>1, <2>2, <2>3, <2>4, CountsAfter
<1> QED BY <1>1, <1>4, <1>5, <1>6, <1>7, <1>8, SeenSame DEF Apart

LEMMA RunHolds ==
  ASSUME IInv, NEW t \in Threads, Run(t)
  PROVE  IInv'
<1>1. thread[t].pc = "run" /\ UNCHANGED <<consumer, work, dead, main, moved>>
  BY DEF Run
<1>2. PICK j \in thread[t].item :
       \/ /\ done' = done \cup {j}
          /\ thread' = [thread EXCEPT ![t].pc = "ack"]
          /\ UNCHANGED <<queue, unfinished, tries>>
       \/ /\ tries[j] < MaxRetries
          /\ tries' = [tries EXCEPT ![j] = @ + 1]
          /\ Put("dq", j)
          /\ thread' = [thread EXCEPT ![t].pc = "ack"]
          /\ UNCHANGED done
       \/ /\ tries[j] = MaxRetries
          /\ thread' = [thread EXCEPT ![t].pc = "nack"]
          /\ UNCHANGED <<queue, unfinished, tries, done>>
  BY DEF Run
<1>3. CASE /\ done' = done \cup {j}
           /\ thread' = [thread EXCEPT ![t].pc = "ack"]
           /\ UNCHANGED <<queue, unfinished, tries>>
  BY <1>1, <1>3, SucceedHolds
<1>4. CASE /\ tries[j] < MaxRetries
           /\ tries' = [tries EXCEPT ![j] = @ + 1]
           /\ Put("dq", j)
           /\ thread' = [thread EXCEPT ![t].pc = "ack"]
           /\ UNCHANGED done
  BY <1>1, <1>4, RetryHolds
<1>5. CASE /\ thread' = [thread EXCEPT ![t].pc = "nack"]
           /\ UNCHANGED <<queue, unfinished, tries, done>>
  BY <1>1, <1>5, GiveUpHolds
<1> QED BY <1>2, <1>3, <1>4, <1>5

LEMMA ReleaseEffect ==
  ASSUME Types, ReleaseSlot("q")
  PROVE  /\ consumer' \in [Queues -> Consumer] /\ consumer'["dq"] = consumer["dq"]
         /\ consumer'["q"].slots = consumer["q"].slots + 1
         /\ consumer'["q"].replaced = consumer["q"].replaced
<1> DEFINE c == consumer["q"]
           d == [c EXCEPT !.slots = c.slots + 1]
<1>1. c \in Consumer /\ consumer \in [Queues -> Consumer]
  BY DEF Types, Queues
<1>2. consumer' = [consumer EXCEPT !["q"] = d]
  BY <1>1 DEF ReleaseSlot
<1>3. d \in Consumer /\ d.slots = c.slots + 1 /\ d.replaced = c.replaced
  BY <1>1 DEF Consumer
<1> HIDE DEF d
<1> QED BY <1>1, <1>2, <1>3 DEF Queues

LEMMA AckHolds ==
  ASSUME IInv, NEW t \in Threads, Ack(t)
  PROVE  IInv'
<1> USE DEF IInv
<1> DEFINE r == [pc |-> "idle", item |-> {}]
<1>1. /\ Types /\ Singles /\ Disjoint /\ Ordered /\ Unshared /\ Sent /\ SlotsKept
      /\ UnfinishedCounts
      /\ UNCHANGED <<queue, work, tries, done, dead, main, moved>>
      /\ thread[t].pc = "ack" /\ thread' = [thread EXCEPT ![t] = r]
  BY DEF Apart, Ack, OutsideAck
<1>2. /\ unfinished' \in [Queues -> Int] /\ unfinished'["dq"] = unfinished["dq"]
      /\ unfinished'["q"] = unfinished["q"] - 1
  BY <1>1, TaskDoneEffect DEF Ack, Queues
<1>3. /\ consumer' \in [Queues -> Consumer] /\ consumer'["dq"] = consumer["dq"]
      /\ consumer'["q"].slots = consumer["q"].slots + 1
      /\ consumer'["q"].replaced = consumer["q"].replaced
  BY <1>1, ReleaseEffect DEF Ack
<1>4. r \in Thread /\ r.pc = "idle" /\ r.item = {}
  BY DEF Thread
<1> HIDE DEF r
<1>5. In("threads")' = In("threads") /\ Unshared'
  BY <1>1, <1>4, ThreadChanges DEF Live
<1>6. Types' /\ Singles'
  <2>1. /\ thread' \in [Threads -> Thread]
        /\ \A u \in Threads : thread'[u].item = {} \/ \E k \in Jobs : thread'[u].item = {k}
        /\ \A u \in Threads : thread'[u].pc = "idle" <=> thread'[u].item = {}
    BY <1>1, <1>4, ThreadHas
  <2> QED BY <1>1, <1>2, <1>3, <2>1 DEF Types, Singles
<1>7. Disjoint' /\ Sent'
  <2>1. Stays
    BY <1>1, <1>3, <1>5, Fields DEF Stays, Places
  <2> QED BY <1>1, <2>1, StaysApart
<1>8. Ordered'
  BY <1>1 DEF Ordered
<1>9. UnfinishedCounts' /\ SlotsKept'
  <2>1. Unacked' = Unacked + 0 - 1 /\ Taken' = Taken + 0 - 1
    BY <1>1, <1>4, ThreadCounts DEF Flag
  <2>2. Queued("q")' = Queued("q") /\ Queued("dq")' = Queued("dq") /\ Working' = Working
    BY <1>1 DEF Queued, Working
  <2>3. /\ Queued("q") \in Nat /\ Working \in Nat /\ Unacked \in Nat /\ Taken \in Nat
        /\ consumer["q"].slots \in Nat
        /\ unfinished["q"] = Queued("q") + Working + Unacked
        /\ unfinished["dq"] = Queued("dq") + Cardinality(consumer["dq"].held)
                                + Cardinality(consumer["dq"].copied)
    BY <1>1, Before
  <2>4. unfinished'["q"] = Queued("q")' + Working' + Unacked'
    <3>1. (Queued("q") + Working + Unacked) - 1 = Queued("q") + Working + (Unacked + 0 - 1)
      BY <2>3
    <3> QED BY <1>2, <2>1, <2>2, <2>3, <3>1
  <2>5. consumer'["q"].slots + (Working' + Taken') = consumer["q"].slots + (Working + Taken)
    <3> DEFINE s == consumer["q"].slots
    <3>1. (s + 1) + (Working + (Taken + 0 - 1)) = s + (Working + Taken)
      BY <2>3
    <3> QED BY <1>3, <2>1, <2>2, <3>1
  <2>6. /\ unfinished'["dq"] = Queued("dq")' + Cardinality(consumer'["dq"].held)
                                 + Cardinality(consumer'["dq"].copied)
        /\ \A m \in Queues : consumer'[m].replaced = consumer[m].replaced
        /\ consumer'["dq"].slots + (Cardinality(consumer'["dq"].held)
                                      + Cardinality(consumer'["dq"].copied))
             = consumer["dq"].slots + (Cardinality(consumer["dq"].held)
                                         + Cardinality(consumer["dq"].copied))
    BY <1>2, <1>3, <2>2, <2>3 DEF Queues
  <2> QED BY <1>1, <2>4, <2>5, <2>6, CountsAfter
<1>10. Seen'
  BY <1>1, NothingSeen
<1> QED BY <1>5, <1>6, <1>7, <1>8, <1>9, <1>10 DEF Apart

LEMMA NackHolds ==
  ASSUME IInv, NEW t \in Threads, Nack(t)
  PROVE  IInv'
<1> USE DEF IInv
<1>1. /\ Types /\ Singles /\ Disjoint /\ Ordered /\ Unshared /\ Sent /\ SlotsKept
      /\ UnfinishedCounts
      /\ UNCHANGED <<queue, consumer, work, tries, done, dead, main, moved>>
      /\ thread[t].pc = "nack"
  BY DEF Apart, Nack, OutsideAck
<1>2. /\ unfinished' \in [Queues -> Int] /\ unfinished'["dq"] = unfinished["dq"]
      /\ unfinished'["q"] = unfinished["q"] - 1
  BY <1>1, TaskDoneEffect DEF Nack, Queues
<1>3. PICK r \in Thread : /\ thread' = [thread EXCEPT ![t] = r]
                          /\ r.pc = "nacked" /\ r.item = thread[t].item
  BY <1>1, ThreadGoes DEF Nack
<1>4. In("threads")' = In("threads") /\ Unshared'
  BY <1>1, <1>3, ThreadChanges DEF Live
<1>5. Types' /\ Singles'
  <2>1. /\ thread' \in [Threads -> Thread]
        /\ \A u \in Threads : thread'[u].item = {} \/ \E k \in Jobs : thread'[u].item = {k}
        /\ \A u \in Threads : thread'[u].pc = "idle" <=> thread'[u].item = {}
    <3>1. /\ r.item = {} \/ \E k \in Jobs : r.item = {k}
          /\ r.pc = "idle" <=> r.item = {}
      BY <1>1, <1>3 DEF Singles
    <3> QED BY <1>1, <1>3, <3>1, ThreadHas
  <2> QED BY <1>1, <1>2, <2>1 DEF Types, Singles
<1>6. Disjoint' /\ Sent'
  <2>1. Stays
    BY <1>1, <1>4, Fields DEF Stays, Places
  <2> QED BY <1>1, <2>1, StaysApart
<1>7. Ordered'
  BY <1>1 DEF Ordered
<1>8. UnfinishedCounts' /\ SlotsKept'
  <2>1. Unacked' = Unacked + 0 - 1 /\ Taken' = Taken + 1 - 1
    BY <1>1, <1>3, ThreadCounts DEF Flag
  <2>2. Queued("q")' = Queued("q") /\ Queued("dq")' = Queued("dq") /\ Working' = Working
    BY <1>1 DEF Queued, Working
  <2>3. /\ Queued("q") \in Nat /\ Working \in Nat /\ Unacked \in Nat /\ Taken \in Nat
        /\ unfinished["q"] = Queued("q") + Working + Unacked
        /\ unfinished["dq"] = Queued("dq") + Cardinality(consumer["dq"].held)
                                + Cardinality(consumer["dq"].copied)
    BY <1>1, Before
  <2>4. unfinished'["q"] = Queued("q")' + Working' + Unacked'
    <3>1. (Queued("q") + Working + Unacked) - 1 = Queued("q") + Working + (Unacked + 0 - 1)
      BY <2>3
    <3> QED BY <1>2, <2>1, <2>2, <2>3, <3>1
  <2>5. Taken' = Taken
    BY <2>1, <2>3
  <2>6. /\ unfinished'["dq"] = Queued("dq")' + Cardinality(consumer'["dq"].held)
                                 + Cardinality(consumer'["dq"].copied)
        /\ consumer'["q"].slots + (Working' + Taken') = consumer["q"].slots + (Working + Taken)
    BY <1>1, <1>2, <2>2, <2>3, <2>5
  <2> QED BY <1>1, <2>4, <2>6, CountsAfter
<1>9. Seen'
  BY <1>1, NothingSeen
<1> QED BY <1>4, <1>5, <1>6, <1>7, <1>8, <1>9 DEF Apart

LEMMA DeadLetterHolds ==
  ASSUME IInv, NEW t \in Threads, DeadLetter(t)
  PROVE  IInv'
<1> USE DEF IInv
<1> DEFINE r == [pc |-> "idle", item |-> {}]
<1>1. /\ Types /\ Singles /\ Disjoint /\ Ordered /\ Unshared /\ Sent /\ SlotsKept
      /\ UnfinishedCounts
      /\ UNCHANGED <<queue, unfinished, work, tries, done, main, moved>>
      /\ dead' = dead \cup thread[t].item
      /\ thread[t].pc = "nacked" /\ thread' = [thread EXCEPT ![t] = r]
  BY DEF Apart, DeadLetter, OutsideAck
<1>2. PICK j \in Jobs : thread[t].item = {j}
  BY <1>1 DEF Singles
<1>3. /\ consumer' \in [Queues -> Consumer] /\ consumer'["dq"] = consumer["dq"]
      /\ consumer'["q"].slots = consumer["q"].slots + 1
      /\ consumer'["q"].replaced = consumer["q"].replaced
  BY <1>1, ReleaseEffect DEF DeadLetter
<1>4. r \in Thread /\ r.pc = "idle" /\ r.item = {}
  BY DEF Thread
<1> HIDE DEF r
<1>5. In("threads")' = In("threads") \ {j} /\ Unshared'
  BY <1>1, <1>2, <1>4, ThreadChanges DEF Live
<1>6. j \in In("threads")
  BY <1>1, <1>2, ThreadsIn DEF Live
<1>7. Types' /\ Singles'
  <2>1. /\ thread' \in [Threads -> Thread]
        /\ \A u \in Threads : thread'[u].item = {} \/ \E k \in Jobs : thread'[u].item = {k}
        /\ \A u \in Threads : thread'[u].pc = "idle" <=> thread'[u].item = {}
    BY <1>1, <1>4, ThreadHas
  <2>2. dead' \subseteq Jobs
    BY <1>1, <1>2 DEF Types
  <2> QED BY <1>1, <1>3, <2>1, <2>2 DEF Types, Singles
<1>8. Moves(j, "none")
  <2>1. \A p \in Places :
         /\ p = "threads" => In(p)' = In(p) \ {j}
         /\ p = "none" => In(p)' = In(p) \cup {j}
         /\ p # "threads" /\ p # "none" => In(p)' = In(p)
    BY <1>1, <1>3, <1>5, Fields DEF Places
  <2> QED BY <1>1, <1>6, <2>1, FromTo DEF Places
<1>9. Disjoint' /\ Sent'
  <2>1. main'.sent = main.sent \cup {j}
    BY <1>1, <1>6 DEF Sent, Places
  <2> QED BY <1>1, <1>2, <1>8, <2>1, MovesApart
<1>10. Ordered'
  BY <1>1 DEF Ordered
<1>11. UnfinishedCounts' /\ SlotsKept'
  <2>1. Unacked' = Unacked + 0 - 0 /\ Taken' = Taken + 0 - 1
    BY <1>1, <1>4, ThreadCounts DEF Flag
  <2>2. Queued("q")' = Queued("q") /\ Queued("dq")' = Queued("dq") /\ Working' = Working
    BY <1>1 DEF Queued, Working
  <2>3. /\ Working \in Nat /\ Unacked \in Nat /\ Taken \in Nat
        /\ consumer["q"].slots \in Nat
        /\ unfinished["q"] = Queued("q") + Working + Unacked
        /\ unfinished["dq"] = Queued("dq") + Cardinality(consumer["dq"].held)
                                + Cardinality(consumer["dq"].copied)
    BY <1>1, Before
  <2>4. Unacked' = Unacked
    BY <2>1, <2>3
  <2>5. consumer'["q"].slots + (Working' + Taken') = consumer["q"].slots + (Working + Taken)
    <3> DEFINE s == consumer["q"].slots
    <3>1. (s + 1) + (Working + (Taken + 0 - 1)) = s + (Working + Taken)
      BY <2>3
    <3> QED BY <1>3, <2>1, <2>2, <3>1
  <2>6. /\ unfinished'["q"] = Queued("q")' + Working' + Unacked'
        /\ unfinished'["dq"] = Queued("dq")' + Cardinality(consumer'["dq"].held)
                                 + Cardinality(consumer'["dq"].copied)
        /\ \A m \in Queues : consumer'[m].replaced = consumer[m].replaced
        /\ consumer'["dq"].slots + (Cardinality(consumer'["dq"].held)
                                      + Cardinality(consumer'["dq"].copied))
             = consumer["dq"].slots + (Cardinality(consumer["dq"].held)
                                         + Cardinality(consumer["dq"].copied))
    BY <1>1, <1>3, <2>2, <2>3, <2>4 DEF Queues
  <2> QED BY <1>1, <2>5, <2>6, CountsAfter
<1> QED BY <1>1, <1>5, <1>7, <1>9, <1>10, <1>11, SeenSame DEF Apart

-----------------------------------------------------------------------------
(* The test.                                                               *)

LEMMA EnqueueHolds ==
  ASSUME IInv, NEW j \in Jobs, Enqueue(j)
  PROVE  IInv'
<1> USE DEF IInv
<1>1. /\ Types /\ Singles /\ Disjoint /\ Ordered /\ Unshared /\ Sent /\ SlotsKept
      /\ UnfinishedCounts
      /\ UNCHANGED <<consumer, work, thread, tries, done, dead, moved>>
      /\ main.pc = "idle" /\ j \notin main.sent /\ Put("q", j)
      /\ main' = [main EXCEPT !.sent = @ \cup {j}]
  BY DEF Apart, Enqueue, OutsideMain
<1>2. /\ queue' \in [Queues -> Seq(Jobs)] /\ unfinished' \in [Queues -> Int]
      /\ queue'["dq"] = queue["dq"] /\ unfinished'["dq"] = unfinished["dq"]
      /\ Len(queue'["q"]) = Len(queue["q"]) + 1
      /\ ToSet(queue'["q"]) = ToSet(queue["q"]) \cup {j}
      /\ unfinished'["q"] = unfinished["q"] + 1
      /\ IsInjective(queue["q"]) /\ j \notin ToSet(queue["q"]) => IsInjective(queue'["q"])
  BY <1>1, PutEffect DEF Queues
<1>3. main' \in Main /\ main'.pc = "idle" /\ main'.sent = main.sent \cup {j}
  BY <1>1 DEF Types, Main
<1>4. \A p \in Places : j \notin In(p)
  BY <1>1 DEF Sent
<1>5. In("threads")' = In("threads") /\ Unshared' /\ Unacked' = Unacked /\ Taken' = Taken
  BY <1>1, ThreadsSame, ThreadCountsSame
<1>6. Types' /\ Singles'
  BY <1>1, <1>2, <1>3 DEF Types, Singles
<1>7. Disjoint' /\ Sent'
  <2>1. \A p \in Places : In(p)' = In(p) \cup IF p = "q" THEN {j} ELSE {}
    BY <1>1, <1>2, <1>5, Fields DEF Places
  <2>2. Moves(j, "q")
    BY <1>4, <2>1 DEF Moves
  <2> QED BY <1>1, <1>3, <2>2, MovesApart DEF Places
<1>8. Ordered'
  <2>1. j \notin ToSet(queue["q"])
    BY <1>4, Fields DEF Places
  <2> QED BY <1>1, <1>2, <2>1 DEF Ordered
<1>9. UnfinishedCounts' /\ SlotsKept'
  <2>1. /\ Queued("q")' = Queued("q") + 1 /\ Queued("dq")' = Queued("dq")
        /\ Working' = Working
    BY <1>1, <1>2 DEF Queued, Working
  <2>2. /\ Queued("q") \in Nat /\ Working \in Nat /\ Unacked \in Nat
        /\ unfinished["q"] = Queued("q") + Working + Unacked
        /\ unfinished["dq"] = Queued("dq") + Cardinality(consumer["dq"].held)
                                + Cardinality(consumer["dq"].copied)
    BY <1>1, Before
  <2>3. unfinished'["q"] = Queued("q")' + Working' + Unacked'
    <3>1. (Queued("q") + Working + Unacked) + 1 = (Queued("q") + 1) + Working + Unacked
      BY <2>2
    <3> QED BY <1>2, <1>5, <2>1, <2>2, <3>1
  <2>4. unfinished'["dq"] = Queued("dq")' + Cardinality(consumer'["dq"].held)
                              + Cardinality(consumer'["dq"].copied)
    BY <1>1, <1>2, <2>1, <2>2
  <2> QED BY <1>1, <1>5, <2>1, <2>3, <2>4, CountsAfter
<1>10. Seen'
  <2>1. main'.pc # "check dq" /\ main'.pc # "letters"
    BY <1>3
  <2> QED BY <2>1, Zenon DEF Seen
<1> QED BY <1>5, <1>6, <1>7, <1>8, <1>9, <1>10 DEF Apart

(* A message that is flushed leaves its queue for the jobs that are done.   *)
LEMMA FlushHolds ==
  ASSUME IInv, NEW name \in Queues, Flush(name)
  PROVE  IInv'
<1> DEFINE l == queue[name]
           j == Head(queue[name])
<1> USE DEF IInv
<1>1. /\ Types /\ Singles /\ Disjoint /\ Ordered /\ Unshared /\ Sent /\ SlotsKept
      /\ UnfinishedCounts
      /\ UNCHANGED <<consumer, work, thread, tries, main, moved, dead>>
      /\ done' = done \cup {j} /\ TaskDone(name)
      /\ main.pc # "check dq" /\ main.pc # "letters"
  BY DEF Apart, Flush, OutsideMain
<1>2. /\ l \in Seq(Jobs) /\ l # <<>> /\ queue' \in [Queues -> Seq(Jobs)]
      /\ queue'[name] = Tail(l) /\ \A m \in Queues \ {name} : queue'[m] = queue[m]
  <2>1. l \in Seq(Jobs) /\ l # <<>>
    BY <1>1 DEF Types, Flush
  <2>2. Tail(l) \in Seq(Jobs)
    BY <2>1, TailFacts
  <2> QED BY <1>1, <2>1, <2>2 DEF Types, Flush
<1>3. /\ j \in Jobs /\ j \in ToSet(l) /\ Len(Tail(l)) = Len(l) - 1
      /\ IsInjective(Tail(l)) /\ ToSet(Tail(l)) = ToSet(l) \ {j}
  BY <1>1, <1>2, TailFacts DEF Ordered, Queues
<1>4. /\ unfinished' \in [Queues -> Int] /\ unfinished'[name] = unfinished[name] - 1
      /\ \A m \in Queues \ {name} : unfinished'[m] = unfinished[m]
  BY <1>1, TaskDoneEffect
<1>5. In("threads")' = In("threads") /\ Unshared' /\ Unacked' = Unacked /\ Taken' = Taken
  BY <1>1, ThreadsSame, ThreadCountsSame
<1>6. Types' /\ Singles'
  BY <1>1, <1>2, <1>3, <1>4 DEF Types, Singles
<1>7. j \in In(name)
  BY <1>3, Fields DEF Queues
<1>8. Moves(j, "done")
  <2>1. \A p \in Places : IF p = name THEN In(p)' = In(p) \ {j} ELSE In(p)' = In(p)
    BY <1>1, <1>2, <1>3, <1>5, Fields DEF Places, Queues
  <2>2. name \in Places
    BY DEF Places, Queues
  <2>3. \A p \in Places : p # name => j \notin In(p)
    BY <1>1, <1>7, <2>2 DEF Disjoint
  <2> HIDE DEF In, j
  <2>4. "done" \notin Places
    BY DEF Places
  <2> QED BY <2>1, <2>3, <2>4 DEF Moves
<1>9. Disjoint' /\ Sent'
  <2>1. main'.sent = main.sent \cup {j}
    BY <1>1, <1>7 DEF Sent, Places, Queues
  <2>2. j \in done' \cup dead' /\ done \subseteq done' /\ dead \subseteq dead'
    BY <1>1
  <2> QED BY <1>1, <1>8, <2>1, <2>2, MovesApart
<1>10. Ordered'
  BY <1>1, <1>2, <1>3 DEF Ordered, Queues
<1>11. UnfinishedCounts' /\ SlotsKept'
  <2>1. /\ Queued(name)' = Queued(name) - 1 /\ Working' = Working
        /\ \A m \in Queues \ {name} : Queued(m)' = Queued(m)
    BY <1>1, <1>2, <1>3 DEF Queued, Working
  <2>2. /\ Queued("q") \in Nat /\ Working \in Nat /\ Unacked \in Nat /\ Queued("dq") \in Nat
        /\ Cardinality(consumer["dq"].held) \in Nat
        /\ Cardinality(consumer["dq"].copied) \in Nat
        /\ unfinished["q"] = Queued("q") + Working + Unacked
        /\ unfinished["dq"] = Queued("dq") + Cardinality(consumer["dq"].held)
                                + Cardinality(consumer["dq"].copied)
    BY <1>1, Before
  <2>3. unfinished'["q"] = Queued("q")' + Working' + Unacked'
    <3>1. CASE name = "q"
      <4>1. (Queued("q") + Working + Unacked) - 1 = (Queued("q") - 1) + Working + Unacked
        BY <2>2
      <4> QED BY <1>4, <1>5, <2>1, <2>2, <3>1, <4>1
    <3>2. CASE name = "dq"
      BY <1>4, <1>5, <2>1, <2>2, <3>2 DEF Queues
    <3> QED BY <3>1, <3>2 DEF Queues
  <2>4. unfinished'["dq"] = Queued("dq")' + Cardinality(consumer'["dq"].held)
                              + Cardinality(consumer'["dq"].copied)
    <3> DEFINE h == Cardinality(consumer["dq"].held)
               k == Cardinality(consumer["dq"].copied)
    <3>1. CASE name = "dq"
      <4>1. (Queued("dq") + h + k) - 1 = (Queued("dq") - 1) + h + k
        BY <2>2
      <4> QED BY <1>1, <1>4, <2>1, <2>2, <3>1, <4>1
    <3>2. CASE name = "q"
      BY <1>1, <1>4, <2>1, <2>2, <3>2 DEF Queues
    <3> QED BY <3>1, <3>2 DEF Queues
  <2> QED BY <1>1, <1>5, <2>1, <2>3, <2>4, CountsAfter
<1>12. Seen'
  <2>1. main'.pc # "check dq" /\ main'.pc # "letters"
    BY <1>1
  <2> QED BY <2>1, Zenon DEF Seen
<1> QED BY <1>5, <1>6, <1>9, <1>10, <1>11, <1>12 DEF Apart

(* join() changes nothing but what the test itself has seen, and flushing the
   dead letters makes them jobs that are done.                             *)
LEMMA OnlyMain ==
  ASSUME IInv, UNCHANGED <<queue, unfinished, consumer, work, thread, tries>>,
         done' \subseteq Jobs, dead' \subseteq Jobs,
         done \cup dead \subseteq done' \cup dead', main' \in Main, main'.sent = main.sent, moved' \in BOOLEAN, Seen'
  PROVE  IInv'
<1> USE DEF IInv
<1>1. /\ Types /\ Singles /\ Disjoint /\ Ordered /\ Unshared /\ Sent /\ SlotsKept
      /\ UnfinishedCounts
  BY DEF Apart
<1>2. In("threads")' = In("threads") /\ Unshared'
  BY <1>1, ThreadsSame
<1>3. Types' /\ Singles'
  BY <1>1 DEF Types, Singles
<1>4. Disjoint' /\ Sent'
  <2>1. Stays
    BY <1>2, Fields DEF Stays, Places
  <2> QED BY <1>1, <2>1, StaysApart
<1>5. Ordered'
  BY <1>1 DEF Ordered
<1>6. UnfinishedCounts' /\ SlotsKept'
  BY <1>1 DEF UnfinishedCounts, SlotsKept, Busy
<1> QED BY <1>2, <1>3, <1>4, <1>5, <1>6 DEF Apart

LEMMA FlushesHold ==
  ASSUME IInv, FlushAll \/ FlushStep
  PROVE  IInv'
<1>1. main \in Main /\ moved \in BOOLEAN /\ done \subseteq Jobs /\ dead \subseteq Jobs
  BY DEF IInv, Types
<1>2. CASE \E name \in Queues : Flush(name)
  BY <1>2, FlushHolds
<1>3. ASSUME NEW pc \in {"flush q", "flush dq", "flush letters", "idle"}, Goto(pc),
             UNCHANGED <<queue, unfinished, consumer, work, thread, tries, moved>>,
             done' \subseteq Jobs, dead' \subseteq Jobs,
             done \cup dead \subseteq done' \cup dead'
      PROVE  IInv'
  <2>1. main' \in Main /\ main'.sent = main.sent /\ main'.pc = pc
    BY <1>1, <1>3 DEF Goto, Main
  <2>2. main'.pc # "check dq" /\ main'.pc # "letters"
    BY <2>1
  <2>3. Seen'
    BY <2>2, Zenon DEF Seen
  <2>4. moved' \in BOOLEAN
    BY <1>1, <1>3
  <2> QED BY <1>3, <2>1, <2>3, <2>4, OnlyMain
<1>4. CASE FlushAll
  <2>1. /\ Goto("flush q") /\ done' = done /\ dead' = dead
        /\ UNCHANGED <<queue, unfinished, consumer, work, thread, tries, moved>>
    BY <1>4 DEF FlushAll, OutsideMain
  <2> QED BY <1>1, <1>3, <2>1
<1>5. CASE Flushed
  <2>1. /\ Goto("flush dq") \/ Goto("flush letters")
        /\ done' = done /\ dead' = dead
        /\ UNCHANGED <<queue, unfinished, consumer, work, thread, tries, moved>>
    BY <1>5 DEF Flushed, OutsideMain
  <2> QED BY <1>1, <1>3, <2>1
<1>6. CASE FlushLetters
  <2>1. /\ Goto("idle") /\ done' = done \cup dead /\ dead' = {}
        /\ UNCHANGED <<queue, unfinished, consumer, work, thread, tries, moved>>
    BY <1>6 DEF FlushLetters, OutsideMain
  <2>2. done' \subseteq Jobs /\ dead' \subseteq Jobs /\ done \cup dead \subseteq done' \cup dead'
    BY <1>1, <2>1
  <2> QED BY <1>3, <2>1, <2>2
<1> QED BY <1>2, <1>4, <1>5, <1>6 DEF FlushStep

LEMMA JoinHolds ==
  ASSUME IInv, Join \/ JoinStep
  PROVE  IInv'
<1>1. main \in Main /\ moved \in BOOLEAN /\ Seen /\ done \subseteq Jobs /\ dead \subseteq Jobs
  BY DEF IInv, Types
<1>2. CASE Join
  <2>1. main' \in Main /\ main'.sent = main.sent /\ main'.pc = "join q" /\ moved' = FALSE
    BY <1>1, <1>2 DEF Join, Goto, Main
  <2>2. main'.pc # "check dq" /\ main'.pc # "letters"
    BY <2>1
  <2>3. Seen'
    BY <2>2, Zenon DEF Seen
  <2> QED BY <1>1, <1>2, <2>1, <2>3, OnlyMain DEF Join, OutsideMain
<1>3. CASE JoinQueue
  <2>1. /\ main' \in Main /\ main'.sent = main.sent
        /\ main'.pc # "check dq" /\ main'.pc # "letters"
    BY <1>1, <1>3 DEF JoinQueue, Goto, Main
  <2>2. Seen'
    BY <2>1, Zenon DEF Seen
  <2> QED BY <1>1, <1>3, <2>1, <2>2, OnlyMain DEF JoinQueue, OutsideJoin, OutsideMain
<1>4. CASE Check
  <2>1. main' \in Main /\ main'.sent = main.sent /\ UNCHANGED <<unfinished, moved>>
    BY <1>1, <1>4 DEF Check, Goto, Main, OutsideJoin
  <2>2. \/ main'.pc = "check dq" /\ unfinished["q"] = 0
        \/ main'.pc = "letters" /\ main.pc = "check dq" /\ unfinished["dq"] = 0
        \/ main'.pc = "join q"
    BY <1>1, <1>4 DEF Check, Goto, Main
  <2>3. Seen'
    BY <1>1, <2>1, <2>2 DEF Seen
  <2> QED BY <1>1, <1>4, <2>1, <2>3, OnlyMain DEF Check, OutsideJoin, OutsideMain
<1>5. CASE Letters
  <2>1. main' \in Main /\ main'.sent = main.sent /\ main'.pc = "idle"
    <3>1. (dead # {}) \in BOOLEAN
      OBVIOUS
    <3> QED BY <1>1, <1>5, <3>1 DEF Letters, Main
  <2>2. main'.pc # "check dq" /\ main'.pc # "letters"
    BY <2>1
  <2>3. Seen'
    BY <2>2, Zenon DEF Seen
  <2> QED BY <1>1, <1>5, <2>1, <2>3, OnlyMain DEF Letters, OutsideJoin, OutsideMain
<1> QED BY <1>2, <1>3, <1>4, <1>5 DEF JoinStep

LEMMA StutterHolds ==
  ASSUME IInv, UNCHANGED vars
  PROVE  IInv'
<1>1. /\ main' \in Main /\ main'.sent = main.sent /\ moved' \in BOOLEAN /\ Seen'
      /\ done' \subseteq Jobs /\ dead' \subseteq Jobs
  BY DEF vars, IInv, Types, Seen
<1> QED BY <1>1, OnlyMain DEF vars

LEMMA NextHolds ==
  ASSUME IInv, [Next]_vars
  PROVE  IInv'
<1>1. ASSUME NEW name \in Queues, Fetch(name) PROVE IInv'
  BY <1>1, FetchHolds
<1>2. ASSUME NEW name \in Queues, Replace(name) PROVE IInv'
  BY <1>2, ReplaceHolds
<1>3. ASSUME Copy \/ AckCopied PROVE IInv'
  BY <1>3, CopyHolds, AckCopiedHolds
<1>4. ASSUME NEW t \in Threads, Take(t) \/ Run(t) PROVE IInv'
  BY <1>4, TakeHolds, RunHolds
<1>5. ASSUME NEW t \in Threads, Ack(t) \/ Nack(t) \/ DeadLetter(t) PROVE IInv'
  BY <1>5, AckHolds, NackHolds, DeadLetterHolds
<1>6. ASSUME NEW j \in Jobs, Enqueue(j) PROVE IInv'
  BY <1>6, EnqueueHolds
<1>7. ASSUME FlushAll \/ FlushStep \/ Join \/ JoinStep PROVE IInv'
  BY <1>7, FlushesHold, JoinHolds
<1>8. ASSUME UNCHANGED vars PROVE IInv'
  BY <1>8, StutterHolds
<1> QED BY <1>1, <1>2, <1>3, <1>4, <1>5, <1>6, <1>7, <1>8 DEF Next

LEMMA Invariant == Spec => []IInv
<1>1. Init => IInv
  BY InitHolds
<1>2. IInv /\ [Next]_vars => IInv'
  BY NextHolds
<1> QED BY <1>1, <1>2, PTL DEF Spec

-----------------------------------------------------------------------------
(* What the invariant means.                                               *)

LEMMA TypesMean ==
  ASSUME IInv
  PROVE  TypeOK
<1> USE DEF IInv
<1>1. Types /\ UnfinishedCounts /\ SlotsKept
  OBVIOUS
<1>2. unfinished \in [Queues -> Nat]
  <2>1. unfinished["q"] \in Nat
    BY <1>1, Before
  <2>2. unfinished["dq"] \in Nat
    BY <1>1, Before
  <2> QED BY <1>1, <2>1, <2>2 DEF Types, Queues
<1>3. ASSUME NEW name \in Queues
      PROVE  consumer[name] \in [slots : 0 .. Prefetch * (MaxPauses + 1), held : SUBSET Jobs,
                                 copied : SUBSET Jobs, replaced : 0 .. MaxPauses]
  <2> DEFINE c == consumer[name]
  <2>1. c \in Consumer /\ c.slots \in Nat /\ c.replaced \in 0 .. MaxPauses
    BY <1>1 DEF Types, Consumer
  <2>2. c.slots + Out(name) <= Prefetch * (c.replaced + 1)
    BY <1>1, CountsMean
  <2>3. Out(name) \in Nat
    <3>1. /\ Working \in Nat /\ Taken \in Nat
          /\ Cardinality(consumer["dq"].held) \in Nat
          /\ Cardinality(consumer["dq"].copied) \in Nat
      BY <1>1, Numbers
    <3> QED BY <3>1 DEF Out, Delayed
  <2>4. Prefetch * (c.replaced + 1) <= Prefetch * (MaxPauses + 1)
    <3>1. Prefetch \in Nat /\ c.replaced \in Nat /\ MaxPauses \in Nat /\ c.replaced <= MaxPauses
      BY <2>1, StubAssumption
    <3> DEFINE k == MaxPauses - c.replaced
               b == c.replaced + 1
    <3>2. k \in Nat /\ b \in Nat /\ MaxPauses + 1 = b + k
      BY <3>1
    <3> HIDE DEF k, b
    <3>3. Prefetch * (b + k) = Prefetch * b + Prefetch * k
      BY <3>1, <3>2
    <3>4. Prefetch * k \in Nat /\ Prefetch * b \in Nat
      BY <3>1, <3>2
    <3>5. Prefetch * b <= Prefetch * (MaxPauses + 1)
      BY <3>2, <3>3, <3>4
    <3> QED BY <3>5 DEF b
  <2>5. c.slots \in 0 .. Prefetch * (MaxPauses + 1)
    <3>1. Prefetch * (c.replaced + 1) \in Nat /\ Prefetch * (MaxPauses + 1) \in Nat
      BY <2>1, StubAssumption
    <3> QED BY <2>1, <2>2, <2>3, <2>4, <3>1
  <2> QED BY <2>1, <2>5 DEF Consumer
<1>4. thread \in [Threads -> [pc : {"idle", "run", "ack", "nack", "nacked"},
                              item : SUBSET Jobs]]
  BY <1>1 DEF Types, Thread
<1> QED BY <1>1, <1>2, <1>3, <1>4 DEF Types, TypeOK, Main

(* Counts: what join() waits for is all that was put and not yet acked, and
   no step of a consumer or a thread, and no retry, flush or pause, loses a
   slot or makes one.                                                      *)
THEOREM CountsKept == Spec => []Counts
<1>1. IInv => Counts
  BY TypesMean DEF IInv, Counts
<1> QED BY <1>1, Invariant, PTL

(* When join() has seen both queues empty, no message is left that is to be
   processed: the jobs not settled have their message in a thread that is
   between the two steps of nack().                                        *)
LEMMA NothingLeft ==
  ASSUME IInv, main.pc = "letters", ~moved
  PROVE  main.sent \subseteq done \cup dead \cup UNION {thread[t].item : t \in Busy({"nacked"})}
<1> USE DEF IInv
<1>1. Types /\ UnfinishedCounts /\ Sent /\ unfinished["q"] = 0 /\ unfinished["dq"] = 0
  BY DEF Seen
<1>2. /\ Queued("q") = 0 /\ Working = 0 /\ Unacked = 0
      /\ Queued("dq") = 0 /\ Cardinality(consumer["dq"].held) = 0
  <2>1. /\ Unacked \in Nat /\ Working \in Nat
        /\ Queued("q") \in Nat /\ Queued("dq") \in Nat
        /\ Cardinality(consumer["dq"].held) \in Nat
        /\ Cardinality(consumer["dq"].copied) \in Nat
        /\ 0 = Queued("q") + Working + Unacked
        /\ 0 = Queued("dq") + Cardinality(consumer["dq"].held)
                 + Cardinality(consumer["dq"].copied)
    BY <1>1, Before
  <2> DEFINE h == Cardinality(consumer["dq"].held)
             c == Cardinality(consumer["dq"].copied)
  <2> HIDE DEF h, c
  <2>2. /\ Unacked \in Nat /\ Working \in Nat /\ Queued("q") \in Nat
        /\ 0 = Queued("q") + Working + Unacked
    BY <2>1
  <2>3. /\ Queued("dq") \in Nat /\ h \in Nat /\ c \in Nat /\ 0 = Queued("dq") + h + c
    BY <2>1 DEF h, c
  <2>4. Queued("q") = 0 /\ Working = 0 /\ Unacked = 0
    BY <2>2
  <2>5. Queued("dq") = 0 /\ h = 0
    BY <2>3
  <2> QED BY <2>4, <2>5 DEF h
<1>3. In("q") = {} /\ In("dq") = {} /\ In("work") = {}
  <2>1. queue["q"] = <<>> /\ queue["dq"] = <<>> /\ work = <<>>
    BY <1>1, <1>2, FieldTypes DEF Queued, Working, Types
  <2> QED BY <2>1, Fields, EmptyFacts
<1>4. In("held") = {}
  <2>1. IsFiniteSet(consumer["dq"].held)
    BY <1>1, FieldTypes, JobSets
  <2> QED BY <1>2, <2>1, FS_EmptySet, Fields
<1>5. Busy({"run", "ack", "nack"}) = {}
  <2>1. Busy({"run", "ack", "nack"}) \subseteq Threads
    BY DEF Busy
  <2>2. IsFiniteSet(Busy({"run", "ack", "nack"}))
    BY <2>1, StubAssumption, FS_Subset
  <2> QED BY <1>2, <2>2, FS_EmptySet DEF Unacked
<1>6. \A t \in Threads : thread[t].pc \in Live => t \in Busy({"nacked"})
  BY <1>5 DEF Busy, Live
<1>7. In("threads") \subseteq UNION {thread[t].item : t \in Busy({"nacked"})}
  BY <1>6, ThreadsIn
<1>8. \A j \in main.sent : j \in done \cup dead \/ \E p \in Places : j \in In(p)
  BY <1>1 DEF Sent
<1> QED BY <1>3, <1>4, <1>7, <1>8 DEF Places

LEMMA OnlyLetters ==
  ASSUME IInv, Next, Ends
  PROVE  Letters
<1> USE DEF Ends
<1>1. ASSUME NEW name \in Queues, Fetch(name) \/ Replace(name) PROVE FALSE
  BY <1>1 DEF Fetch, Replace, OutsideConsumer
<1>2. ASSUME Copy \/ AckCopied PROVE FALSE
  BY <1>2 DEF Copy, AckCopied, OutsideConsumer
<1>3. ASSUME NEW t \in Threads, Take(t) \/ Run(t) PROVE FALSE
  BY <1>3 DEF Take, Run
<1>4. ASSUME NEW t \in Threads, Ack(t) \/ Nack(t) \/ DeadLetter(t) PROVE FALSE
  BY <1>4 DEF Ack, Nack, DeadLetter, OutsideAck
<1>5. ASSUME (\E j \in Jobs : Enqueue(j)) \/ FlushAll \/ Join \/ JoinQueue \/ Check PROVE FALSE
  BY <1>5 DEF Enqueue, FlushAll, Join, JoinQueue, Check
<1>6. ASSUME FlushStep PROVE FALSE
  BY <1>6 DEF FlushStep, Flush, Flushed, FlushLetters
<1> QED BY <1>1, <1>2, <1>3, <1>4, <1>5, <1>6 DEF Next, JoinStep

(* JoinWaits: when join() ends, every job that was enqueued is settled, and
   when it does not raise they all succeeded; but for a message that nack()
   has not yet added to the dead letters, and for a delayed message that was
   moved while join() was between its looks at the two queues.             *)
THEOREM JoinReturnsLate == Spec => JoinWaits
<1> DEFINE Goal == Ends /\ ~moved =>
                     /\ main.sent \subseteq Settled
                     /\ main'.raised \/ main.sent \subseteq done \/ Busy({"nacked"}) # {}
<1>1. IInv /\ [Next]_vars => [Goal]_vars
  <2> SUFFICES ASSUME IInv, Next, Ends, ~moved
               PROVE  /\ main.sent \subseteq Settled
                      /\ main'.raised \/ main.sent \subseteq done \/ Busy({"nacked"}) # {}
    OBVIOUS
  <2>1. main.sent \subseteq done \cup dead \cup UNION {thread[t].item : t \in Busy({"nacked"})}
    BY NothingLeft DEF Ends
  <2>2. main'.raised = (dead # {})
    BY OnlyLetters DEF Letters, IInv, Types, Main
  <2>3. main'.raised \/ main.sent \subseteq done \/ Busy({"nacked"}) # {}
    <3>1. CASE dead # {}
      BY <2>2, <3>1, Zenon
    <3>2. CASE dead = {} /\ Busy({"nacked"}) = {}
      BY <2>1, <3>2
    <3> QED BY <3>1, <3>2
  <2> QED BY <2>1, <2>3 DEF Settled
<1> QED BY <1>1, Invariant, PTL DEF Spec, JoinWaits
=============================================================================
