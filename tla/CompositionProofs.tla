------------------------- MODULE CompositionProofs -------------------------
(***************************************************************************)
(* Proofs about Composition, for any group of pipelines, any workers, any  *)
(* order of the middleware, and any retries and faults.                    *)
(***************************************************************************)
EXTENDS Composition, FiniteSetTheorems, TLAPS

Child(x) == x[1][1]
Spending == {"group", "retries", "pipe"}
Loads(r) == \/ r.pc = "act"
            \/ r.pc = "hook" /\ r.todo \cap Spending # {}
Calling == {w \in Workers : worker[w].pc = "callback"}

(* What may still bring a child of the group on: its first message that has
   yet to be sent, each queued copy of a message, each worker that has one
   and has not yet come to the hook that gives it up for something else.   *)
IsWork(u) ==
  \/ u[2] = "group" /\ u[3] = u[1] /\ u[4] = 0 /\ u[1] \notin producer.sent
  \/ /\ u[2] = "queue" /\ u[3] \in Copies /\ u[1] = Child(u[3])
     /\ 0 < u[4] /\ u[4] <= queue[u[3]]
  \/ /\ u[2] = "worker" /\ u[3] \in Workers /\ Loads(worker[u[3]]) /\ u[4] = 0
     /\ \E x \in worker[u[3]].copy : u[1] = Child(x)
Units == Children \X {"group", "queue", "worker"}
           \X (Children \cup Copies \cup Workers) \X Nat
Part(place) == {u \in Units : u[2] = place /\ IsWork(u)}
Work == {u \in Units : IsWork(u)}
Open == {c \in Children : LastOf(c) \notin completed \/ \E u \in Work : u[1] = c}

(* One more than the calls of wait() that may still come to nothing.       *)
Waits == IF producer.pc = "new" THEN Cardinality(Children) ELSE barrier

Job == [pc : {"idle", "act", "hook", "callback", "post", "nacked"},
        todo : SUBSET HookNames, fail : BOOLEAN, copy : SUBSET Copies]
Types ==
  /\ queue \in [Copies -> Nat]
  /\ producer \in [pc : {"new", "created", "raised"}, sent : SUBSET Children]
  /\ worker \in [Workers -> Job]
  /\ barrier \in Nat
  /\ result \in [Messages -> {"none", "value", "exception"}]
  /\ completed \subseteq Messages /\ failed \subseteq Messages /\ begun \subseteq Messages
  /\ unstored \subseteq Messages
  /\ called \in Nat
  /\ faults \in [FaultNames -> 0 .. MaxFaults]

(* The hooks that are left are some of a success, or of a failure.         *)
Task(r, done) ==
  /\ r.pc = "idle" <=> r.copy = {}
  /\ r.copy = {} \/ \E x \in Copies : r.copy = {x}
  /\ r.pc = "callback" => "group" \in r.todo
  /\ r.pc \in {"hook", "callback"} => \A x \in r.copy :
       \/ r.todo \subseteq {"retries"}
       \/ /\ x[1] \in done
          /\ r.todo \subseteq
               IF IsLast(x[1]) THEN {"group", "results"} ELSE {"results", "pipe"}
Tasks == \A w \in Workers : Task(worker[w], completed)

Created ==
  /\ producer.pc = "new" =>
       /\ barrier = 0 /\ called = 0 /\ producer.sent = {}
       /\ \A x \in Copies : queue[x] = 0
       /\ \A w \in Workers : worker[w].pc = "idle"
  /\ producer.pc # "new" => barrier \in 1 .. Cardinality(Children)
  /\ called > 0 \/ Calling # {} => barrier = 1

(* Each call of wait() and each callback is paid for by a unit of work ... *)
Counted ==
  /\ IsFiniteSet(Work) /\ IsFiniteSet(Calling)
  /\ Cardinality(Work) + called + Cardinality(Calling) <= Waits + Again

(* ... and, while nothing is processed again, by a child of its own.       *)
Exact ==
  Again = 0 =>
    /\ \A u, v \in Work : u[1] = v[1] => u = v
    /\ Cardinality(Open) + called + Cardinality(Calling) <= Waits

IInv == Types /\ Tasks /\ Created /\ Counted /\ Exact

-----------------------------------------------------------------------------
(* Messages and units of work.                                             *)

LEMMA Shapes ==
  /\ \A m \in Messages : /\ m[1] \in Children /\ m[2] \in 1 .. Length[m[1]]
                         /\ m = <<m[1], m[2]>>
  /\ \A c \in Children : \A i \in 1 .. Length[c] : <<c, i>> \in Messages
  /\ \A x \in Copies : /\ x[1] \in Messages /\ x[2] \in 0 .. MaxRetries
                       /\ x = <<x[1], x[2]>> /\ Child(x) \in Children
  /\ \A m \in Messages : \A n \in 0 .. MaxRetries : <<m, n>> \in Copies
  /\ \A c \in Children : Length[c] \in Nat \ {0} /\ LastOf(c) \in Messages
<1>1. \A m \in Messages : /\ m[1] \in Children /\ m[2] \in 1 .. Length[m[1]]
                         /\ m = <<m[1], m[2]>>
  BY DEF Messages
<1>2. \A c \in Children : \A i \in 1 .. Length[c] : <<c, i>> \in Messages
  BY DEF Messages
<1>3. \A c \in Children : Length[c] \in Nat \ {0} /\ LastOf(c) \in Messages
  BY <1>2, CompositionAssumption DEF LastOf
<1>4. \A x \in Copies : /\ x[1] \in Messages /\ x[2] \in 0 .. MaxRetries
                       /\ x = <<x[1], x[2]>>
  BY DEF Copies
<1>5. \A x \in Copies : Child(x) \in Children
  BY <1>1, <1>4 DEF Child
<1>6. \A m \in Messages : \A n \in 0 .. MaxRetries : <<m, n>> \in Copies
  BY DEF Copies
<1> QED BY <1>1, <1>2, <1>3, <1>4, <1>5, <1>6

(* A message that is the last of its child.                                *)
LEMMA LastIs ==
  ASSUME NEW x \in Copies, IsLast(x[1])
  PROVE  x[1] = LastOf(Child(x))
BY Shapes DEF IsLast, LastOf, Child

LEMMA InPart ==
  /\ \A u \in Units : u[2] \in {"group", "queue", "worker"}
  /\ Work = Part("group") \cup Part("queue") \cup Part("worker")
BY DEF Work, Part, Units

LEMMA InPartAfter ==
  Work' = Part("group")' \cup Part("queue")' \cup Part("worker")'
BY DEF Work, Part, Units

LEMMA GroupPart ==
  \A u : u \in Part("group") <=>
          \E c \in Children \ producer.sent : u = <<c, "group", c, 0>>
<1>1. ASSUME NEW u \in Part("group")
      PROVE  \E c \in Children \ producer.sent : u = <<c, "group", c, 0>>
  BY <1>1 DEF Part, Units, IsWork
<1>2. ASSUME NEW c \in Children \ producer.sent
      PROVE  <<c, "group", c, 0>> \in Part("group")
  BY <1>2 DEF Part, Units, IsWork
<1> QED BY <1>1, <1>2

LEMMA QueuePart ==
  \A u : u \in Part("queue") <=>
          \E x \in Copies : \E n \in Nat :
            /\ u = <<Child(x), "queue", x, n>> /\ 0 < n /\ n <= queue[x]
<1>1. ASSUME NEW u \in Part("queue")
      PROVE  \E x \in Copies : \E n \in Nat :
               /\ u = <<Child(x), "queue", x, n>> /\ 0 < n /\ n <= queue[x]
  BY <1>1 DEF Part, Units, IsWork
<1>2. ASSUME NEW x \in Copies, NEW n \in Nat, 0 < n, n <= queue[x]
      PROVE  <<Child(x), "queue", x, n>> \in Part("queue")
  BY <1>2, Shapes DEF Part, Units, IsWork
<1> QED BY <1>1, <1>2

LEMMA WorkerPart ==
  ASSUME Types
  PROVE  \A u : u \in Part("worker") <=>
           \E w \in Workers : /\ Loads(worker[w])
                              /\ \E x \in worker[w].copy : u = <<Child(x), "worker", w, 0>>
<1>1. ASSUME NEW u \in Part("worker")
      PROVE  \E w \in Workers :
               /\ Loads(worker[w])
               /\ \E x \in worker[w].copy : u = <<Child(x), "worker", w, 0>>
  BY <1>1 DEF Part, Units, IsWork
<1>2. ASSUME NEW w \in Workers, Loads(worker[w]), NEW x \in worker[w].copy
      PROVE  <<Child(x), "worker", w, 0>> \in Part("worker")
  <2>1. x \in Copies
    BY DEF Types, Job
  <2> QED BY <1>2, <2>1, Shapes DEF Part, Units, IsWork
<1> QED BY <1>1, <1>2

LEMMA GroupPartAfter ==
  \A u : u \in Part("group")' <=>
          \E c \in Children \ producer'.sent : u = <<c, "group", c, 0>>
<1>1. ASSUME NEW u \in Part("group")'
      PROVE  \E c \in Children \ producer'.sent : u = <<c, "group", c, 0>>
  BY <1>1 DEF Part, Units, IsWork
<1>2. ASSUME NEW c \in Children \ producer'.sent
      PROVE  <<c, "group", c, 0>> \in Part("group")'
  BY <1>2 DEF Part, Units, IsWork
<1> QED BY <1>1, <1>2

LEMMA QueuePartAfter ==
  \A u : u \in Part("queue")' <=>
          \E x \in Copies : \E n \in Nat :
            /\ u = <<Child(x), "queue", x, n>> /\ 0 < n /\ n <= queue'[x]
<1>1. ASSUME NEW u \in Part("queue")'
      PROVE  \E x \in Copies : \E n \in Nat :
               /\ u = <<Child(x), "queue", x, n>> /\ 0 < n /\ n <= queue'[x]
  BY <1>1 DEF Part, Units, IsWork
<1>2. ASSUME NEW x \in Copies, NEW n \in Nat, 0 < n, n <= queue'[x]
      PROVE  <<Child(x), "queue", x, n>> \in Part("queue")'
  BY <1>2, Shapes DEF Part, Units, IsWork
<1> QED BY <1>1, <1>2

LEMMA WorkerPartAfter ==
  \A u : u \in Part("worker")' =>
           \E w \in Workers : /\ Loads(worker'[w])
                              /\ \E x \in worker'[w].copy : u = <<Child(x), "worker", w, 0>>
<1>1. ASSUME NEW u \in Part("worker")'
      PROVE  \E w \in Workers :
               /\ Loads(worker'[w])
               /\ \E x \in worker'[w].copy : u = <<Child(x), "worker", w, 0>>
  BY <1>1 DEF Part, Units, IsWork
<1> QED BY <1>1

LEMMA GroupSame ==
  ASSUME producer'.sent = producer.sent
  PROVE  Part("group")' = Part("group")
<1>1. \A u : u \in Part("group")' <=> u \in Part("group")
  BY GroupPart, GroupPartAfter
<1> QED BY <1>1

LEMMA QueueSame ==
  ASSUME queue' = queue
  PROVE  Part("queue")' = Part("queue")
<1>1. \A u : u \in Part("queue")' <=> u \in Part("queue")
  BY QueuePart, QueuePartAfter
<1> QED BY <1>1

LEMMA WorkerSame ==
  ASSUME Types, worker' = worker
  PROVE  Part("worker")' \subseteq Part("worker")
<1>1. \A u : u \in Part("worker")' => u \in Part("worker")
  BY WorkerPart, WorkerPartAfter
<1> QED BY <1>1

(* A copy is put into the queue, or received from it.                      *)
LEMMA QueueAdds ==
  ASSUME Types, NEW x \in Copies, queue' = [queue EXCEPT ![x] = @ + 1]
  PROVE  Part("queue")' \subseteq
           Part("queue") \cup {<<Child(x), "queue", x, queue[x] + 1>>}
<1>1. ASSUME NEW u \in Part("queue")'
      PROVE  u \in Part("queue") \/ u = <<Child(x), "queue", x, queue[x] + 1>>
  <2>1. PICK y \in Copies, n \in Nat :
          u = <<Child(y), "queue", y, n>> /\ 0 < n /\ n <= queue'[y]
    BY <1>1, QueuePartAfter
  <2>2. CASE y = x /\ n = queue[x] + 1
    BY <2>1, <2>2
  <2>3. CASE ~(y = x /\ n = queue[x] + 1)
    <3>1. n <= queue[y]
      BY <2>1, <2>3 DEF Types
    <3> QED BY <2>1, <3>1, QueuePart
  <2> QED BY <2>2, <2>3
<1> QED BY <1>1

LEMMA QueueTakes ==
  ASSUME Types, NEW x \in Copies, queue[x] > 0, queue' = [queue EXCEPT ![x] = @ - 1]
  PROVE  /\ <<Child(x), "queue", x, queue[x]>> \in Part("queue")
         /\ Part("queue")' \subseteq
              Part("queue") \ {<<Child(x), "queue", x, queue[x]>>}
<1>1. <<Child(x), "queue", x, queue[x]>> \in Part("queue")
  <2>1. queue[x] \in Nat /\ 0 < queue[x] /\ queue[x] <= queue[x]
    BY DEF Types
  <2> QED BY <2>1, QueuePart
<1>2. ASSUME NEW u \in Part("queue")'
      PROVE  u \in Part("queue") /\ u # <<Child(x), "queue", x, queue[x]>>
  <2>1. PICK y \in Copies, n \in Nat :
          u = <<Child(y), "queue", y, n>> /\ 0 < n /\ n <= queue'[y]
    BY <1>2, QueuePartAfter
  <2>2. n <= queue[y] /\ (y = x => n # queue[x])
    BY <2>1 DEF Types
  <2>3. u \in Part("queue")
    BY <2>1, <2>2, QueuePart
  <2>4. u # <<Child(x), "queue", x, queue[x]>>
    BY <2>1, <2>2
  <2> QED BY <2>3, <2>4
<1> QED BY <1>1, <1>2

(* A worker goes on.                                                       *)
Unit(w, x) == <<Child(x), "worker", w, 0>>

LEMMA WorkerGoes ==
  ASSUME Types, NEW w \in Workers, NEW r, worker' = [worker EXCEPT ![w] = r]
  PROVE  /\ ~Loads(r) =>
              /\ Part("worker")' \subseteq Part("worker")
              /\ \A x : Unit(w, x) \notin Part("worker")'
         /\ r.copy = worker[w].copy /\ Loads(worker[w])
              => Part("worker")' \subseteq Part("worker")
         /\ \A x : r.copy = {x} =>
              Part("worker")' \subseteq Part("worker") \cup {Unit(w, x)}
<1>1. \A v \in Workers : worker'[v] = IF v = w THEN r ELSE worker[v]
  BY DEF Types
<1>2. ASSUME NEW u \in Part("worker")'
      PROVE  \/ u \in Part("worker") /\ u[3] # w
             \/ Loads(r) /\ \E x \in r.copy : u = Unit(w, x)
  <2>1. PICK v \in Workers :
          Loads(worker'[v]) /\ \E x \in worker'[v].copy : u = <<Child(x), "worker", v, 0>>
    BY <1>2, WorkerPartAfter
  <2>2. CASE v = w
    BY <1>1, <2>1, <2>2 DEF Unit
  <2>3. CASE v # w
    <3>1. Loads(worker[v]) /\ \E x \in worker[v].copy : u = <<Child(x), "worker", v, 0>>
      BY <1>1, <2>1, <2>3
    <3> QED BY <2>3, <3>1, WorkerPart
  <2> QED BY <2>2, <2>3
<1>3. ASSUME ~Loads(r)
      PROVE  /\ Part("worker")' \subseteq Part("worker")
             /\ \A x : Unit(w, x) \notin Part("worker")'
  BY <1>2, <1>3 DEF Unit
<1>4. ASSUME r.copy = worker[w].copy, Loads(worker[w])
      PROVE  Part("worker")' \subseteq Part("worker")
  BY <1>2, <1>4, WorkerPart DEF Unit
<1>5. ASSUME NEW x, r.copy = {x}
      PROVE  Part("worker")' \subseteq Part("worker") \cup {Unit(w, x)}
  BY <1>2, <1>5
<1> QED BY <1>3, <1>4, <1>5

-----------------------------------------------------------------------------
(* What pays for what.                                                     *)

Flag(condition) == IF condition THEN 1 ELSE 0

LEMMA CallingGoes ==
  ASSUME Types, Counted, NEW w \in Workers, NEW r, worker' = [worker EXCEPT ![w] = r]
  PROVE  /\ IsFiniteSet(Calling') /\ Cardinality(Calling) \in Nat
         /\ Cardinality(Calling') \in Nat
         /\ Cardinality(Calling') = Cardinality(Calling) + Flag(r.pc = "callback")
                                      - Flag(worker[w].pc = "callback")
<1>1. /\ w \in Calling <=> worker[w].pc = "callback"
      /\ w \in Calling' <=> r.pc = "callback"
      /\ Calling' \ {w} = Calling \ {w}
  BY DEF Calling, Types
<1>2. IsFiniteSet(Calling)
  BY DEF Counted
<1> HIDE DEF Calling
<1>3. IsFiniteSet(Calling') /\ Cardinality(Calling) \in Nat /\ Cardinality(Calling') \in Nat
  <2>1. Calling' \subseteq Calling \cup {w}
    BY <1>1
  <2>2. IsFiniteSet(Calling \cup {w})
    BY <1>2, FS_AddElement
  <2>3. IsFiniteSet(Calling')
    BY <2>1, <2>2, FS_Subset
  <2> QED BY <1>2, <2>3, FS_CardinalityType
<1>4. Cardinality(Calling \ {w})
        = IF w \in Calling THEN Cardinality(Calling) - 1 ELSE Cardinality(Calling)
  BY <1>2, FS_RemoveElement, Zenon
<1>5. Cardinality(Calling' \ {w})
        = IF w \in Calling' THEN Cardinality(Calling') - 1 ELSE Cardinality(Calling')
  BY <1>3, FS_RemoveElement, Zenon
<1>6. Cardinality(Calling' \ {w}) = Cardinality(Calling \ {w})
  BY <1>1, Zenon
<1>7. Cardinality(Calling') = Cardinality(Calling) + Flag(r.pc = "callback")
                                - Flag(worker[w].pc = "callback")
  BY <1>1, <1>3, <1>4, <1>5, <1>6 DEF Flag
<1> QED BY <1>3, <1>7

LEMMA Numbers ==
  ASSUME Types
  PROVE  /\ called \in Nat /\ Waits \in Nat /\ Again \in Nat
         /\ Cardinality(Children) \in Nat /\ Cardinality(Children) > 0
<1>1. Cardinality(Children) \in Nat /\ Cardinality(Children) > 0
  BY CompositionAssumption, FS_CardinalityType, FS_EmptySet
<1>2. Again \in Nat
  BY CompositionAssumption DEF Types, Again, FaultNames
<1> QED BY <1>1, <1>2 DEF Types, Waits

LEMMA WorkHas == \A u \in Work : u[1] \in Children
BY DEF Work, Units

LEMMA Sums ==
  ASSUME NEW a \in Nat, NEW b \in Nat, NEW c \in Nat, NEW d \in Nat,
         NEW e \in Nat, NEW f \in Nat, NEW bound \in Nat,
         b <= a, f + d <= e + c, a + e + c <= bound
  PROVE  b + f + d <= bound
OBVIOUS

(* A step after which there is no more work, nor more open children.       *)
LEMMA NoMore ==
  ASSUME Types, Types', Counted, Exact,
         IsFiniteSet(Work'), Cardinality(Work') <= Cardinality(Work),
         Again = 0 => /\ \A y, z \in Work' : y[1] = z[1] => y = z
                      /\ Open' \subseteq Open,
         IsFiniteSet(Calling'),
         called' + Cardinality(Calling') <= called + Cardinality(Calling),
         Waits' = Waits, Again' = Again
  PROVE  Counted' /\ Exact'
<1>1. /\ IsFiniteSet(Work) /\ IsFiniteSet(Calling)
      /\ Cardinality(Work) + called + Cardinality(Calling) <= Waits + Again
  BY DEF Counted
<1>2. /\ Cardinality(Work) \in Nat /\ Cardinality(Work') \in Nat
      /\ Cardinality(Calling) \in Nat /\ Cardinality(Calling') \in Nat
  BY <1>1, FS_CardinalityType
<1>3. /\ called \in Nat /\ called' \in Nat /\ Waits \in Nat /\ Waits + Again \in Nat
  BY Numbers DEF Types
<1>4. Cardinality(Work') + called' + Cardinality(Calling') <= Waits + Again
  BY <1>1, <1>2, <1>3, Sums
<1>5. Counted'
  BY <1>4 DEF Counted
<1>6. Exact'
  <2> SUFFICES ASSUME Again = 0
               PROVE  /\ \A y, z \in Work' : y[1] = z[1] => y = z
                      /\ Cardinality(Open') + called' + Cardinality(Calling') <= Waits
    BY DEF Exact
  <2>1. Cardinality(Open) + called + Cardinality(Calling) <= Waits
    BY DEF Exact
  <2>2. /\ Cardinality(Open') \in Nat /\ Cardinality(Open) \in Nat
        /\ Cardinality(Open') <= Cardinality(Open)
    <3>1. IsFiniteSet(Open)
      <4>1. Open \subseteq Children
        BY DEF Open
      <4> QED BY <4>1, CompositionAssumption, FS_Subset
    <3>2. IsFiniteSet(Open') /\ Cardinality(Open') <= Cardinality(Open)
      BY <3>1, FS_Subset
    <3> QED BY <3>1, <3>2, FS_CardinalityType
  <2> QED BY <1>2, <1>3, <2>1, <2>2, Sums
<1> QED BY <1>5, <1>6

(* A step that only gives work up.                                         *)
LEMMA Fewer ==
  ASSUME Types, Types', Counted, Exact, Work' \subseteq Work, completed \subseteq completed',
         IsFiniteSet(Calling'),
         called' + Cardinality(Calling') <= called + Cardinality(Calling),
         Waits' = Waits, Again' = Again
  PROVE  Counted' /\ Exact'
<1>1. IsFiniteSet(Work') /\ Cardinality(Work') <= Cardinality(Work)
  BY FS_Subset DEF Counted
<1>2. Again = 0 => \A y, z \in Work' : y[1] = z[1] => y = z
  BY DEF Exact
<1>3. Open' \subseteq Open
  BY DEF Open
<1> QED BY <1>1, <1>2, <1>3, NoMore

(* A step that gives a unit of work up for another one of the same child.  *)
LEMMA Exchanged ==
  ASSUME Types, Types', Counted, Exact, NEW u \in Work, NEW v, v[1] = u[1],
         Work' \subseteq (Work \ {u}) \cup {v}, completed \subseteq completed',
         IsFiniteSet(Calling'),
         called' + Cardinality(Calling') <= called + Cardinality(Calling),
         Waits' = Waits, Again' = Again
  PROVE  Counted' /\ Exact'
<1>1. IsFiniteSet(Work') /\ Cardinality(Work') <= Cardinality(Work)
  <2>1. /\ IsFiniteSet(Work) /\ IsFiniteSet(Work \ {u})
        /\ Cardinality(Work \ {u}) = Cardinality(Work) - 1
    BY FS_RemoveElement DEF Counted
  <2>2. /\ IsFiniteSet((Work \ {u}) \cup {v})
        /\ \/ Cardinality((Work \ {u}) \cup {v}) = Cardinality(Work \ {u})
           \/ Cardinality((Work \ {u}) \cup {v}) = Cardinality(Work \ {u}) + 1
    BY <2>1, FS_AddElement
  <2>3. /\ IsFiniteSet(Work')
        /\ Cardinality(Work') <= Cardinality((Work \ {u}) \cup {v})
    BY <2>2, FS_Subset
  <2>4. /\ Cardinality(Work) \in Nat /\ Cardinality(Work') \in Nat
        /\ Cardinality((Work \ {u}) \cup {v}) \in Nat
    BY <2>1, <2>2, <2>3, FS_CardinalityType
  <2> QED BY <2>1, <2>2, <2>3, <2>4
<1>2. \A y \in Work' : y = v \/ (y \in Work /\ y # u)
  OBVIOUS
<1>3. Again = 0 => \A y, z \in Work' : y[1] = z[1] => y = z
  BY <1>2 DEF Exact
<1>4. Open' \subseteq Open
  BY <1>2 DEF Open
<1> QED BY <1>1, <1>3, <1>4, NoMore

(* A call of wait() for the last message of a child, which nothing brings
   on any more.                                                            *)
LEMMA Waited ==
  ASSUME Types, Types', Counted, Exact, NEW u \in Work, LastOf(u[1]) \in completed,
         Work' \subseteq Work \ {u}, UNCHANGED <<completed, called>>, Again' = Again,
         IsFiniteSet(Calling'),
         \/ Waits' = Waits /\ Cardinality(Calling') = Cardinality(Calling) + 1
         \/ Waits' = Waits - 1 /\ Cardinality(Calling') = Cardinality(Calling)
  PROVE  Counted' /\ Exact'
<1>1. /\ IsFiniteSet(Work) /\ IsFiniteSet(Calling)
      /\ Cardinality(Work) + called + Cardinality(Calling) <= Waits + Again
  BY DEF Counted
<1>2. /\ IsFiniteSet(Work') /\ Cardinality(Work') <= Cardinality(Work) - 1
  <2>1. IsFiniteSet(Work \ {u}) /\ Cardinality(Work \ {u}) = Cardinality(Work) - 1
    BY <1>1, FS_RemoveElement
  <2> QED BY <2>1, FS_Subset
<1>3. /\ Cardinality(Work) \in Nat /\ Cardinality(Work') \in Nat
      /\ Cardinality(Calling) \in Nat /\ Cardinality(Calling') \in Nat
  BY <1>1, <1>2, FS_CardinalityType
<1>4. called \in Nat /\ Waits \in Nat /\ Again \in Nat
  BY Numbers DEF Types
<1>5. Counted'
  <2> DEFINE c == Cardinality(Calling)
             d == Cardinality(Calling')
             a == Cardinality(Work)
             b == Cardinality(Work')
  <2>1. /\ a \in Nat /\ b \in Nat /\ c \in Nat /\ d \in Nat /\ b <= a - 1
        /\ a + called + c <= Waits + Again
        /\ \/ Waits' = Waits /\ d = c + 1
           \/ Waits' = Waits - 1 /\ d = c
    BY <1>1, <1>2, <1>3
  <2> HIDE DEF a, b, c, d
  <2> DEFINE k == Waits
             l == Waits'
             n == Again
             m == called
  <2>2. k \in Nat /\ n \in Nat /\ m \in Nat
    BY <1>4
  <2>3. a + m + c <= k + n /\ ((l = k /\ d = c + 1) \/ (l = k - 1 /\ d = c))
    BY <2>1
  <2> HIDE DEF k, l, n, m
  <2>4. b + m + d <= l + n
    BY <2>1, <2>2, <2>3
  <2>5. Cardinality(Work') + called' + Cardinality(Calling') <= Waits' + Again'
    BY <2>4 DEF b, d, k, l, n, m
  <2> QED BY <1>2, <2>5 DEF Counted
<1>6. Exact'
  <2> SUFFICES ASSUME Again = 0
               PROVE  /\ \A y, z \in Work' : y[1] = z[1] => y = z
                      /\ Cardinality(Open') + called + Cardinality(Calling') <= Waits'
    BY DEF Exact
  <2>1. /\ \A y, z \in Work : y[1] = z[1] => y = z
        /\ Cardinality(Open) + called + Cardinality(Calling) <= Waits
    BY DEF Exact
  <2>2. \A y \in Work' : y \in Work /\ y # u
    OBVIOUS
  <2>3. \A y \in Work' : y[1] # u[1]
    BY <2>1, <2>2
  <2>4. Open' \subseteq Open \ {u[1]} /\ u[1] \in Open
    BY <2>2, <2>3, WorkHas DEF Open
  <2>5. /\ Cardinality(Open') \in Nat /\ Cardinality(Open) \in Nat
        /\ Cardinality(Open') <= Cardinality(Open) - 1
    <3>1. Open \subseteq Children
      BY DEF Open
    <3>2. IsFiniteSet(Open)
      BY <3>1, CompositionAssumption, FS_Subset
    <3>3. IsFiniteSet(Open \ {u[1]}) /\ Cardinality(Open \ {u[1]}) = Cardinality(Open) - 1
      BY <2>4, <3>2, FS_RemoveElement
    <3>4. IsFiniteSet(Open') /\ Cardinality(Open') <= Cardinality(Open \ {u[1]})
      BY <2>4, <3>3, FS_Subset
    <3> QED BY <3>2, <3>3, <3>4, FS_CardinalityType
  <2> DEFINE c == Cardinality(Calling)
             d == Cardinality(Calling')
             a == Cardinality(Open)
             b == Cardinality(Open')
             k == Waits
             l == Waits'
             m == called
  <2>6. /\ a \in Nat /\ b \in Nat /\ c \in Nat /\ d \in Nat /\ b <= a - 1
        /\ k \in Nat /\ m \in Nat /\ a + m + c <= k
        /\ \/ l = k /\ d = c + 1
           \/ l = k - 1 /\ d = c
    BY <1>3, <1>4, <2>1, <2>5
  <2> HIDE DEF a, b, c, d, k, l, m
  <2>7. b + m + d <= l
    BY <2>6
  <2>8. Cardinality(Open') + called + Cardinality(Calling') <= Waits'
    BY <2>7 DEF b, d, l, m
  <2> QED BY <2>1, <2>2, <2>8
<1> QED BY <1>5, <1>6

(* A fault that makes a message be processed again.                        *)
LEMMA Repeated ==
  ASSUME Types, Types', Counted, NEW v, Work' \subseteq Work \cup {v},
         IsFiniteSet(Calling'),
         called' + Cardinality(Calling') <= called + Cardinality(Calling),
         Waits' = Waits, Again' = Again + 1
  PROVE  Counted' /\ Exact'
<1>1. /\ IsFiniteSet(Work) /\ IsFiniteSet(Calling)
      /\ Cardinality(Work) + called + Cardinality(Calling) <= Waits + Again
  BY DEF Counted
<1>2. /\ IsFiniteSet(Work') /\ Cardinality(Work') <= Cardinality(Work) + 1
      /\ Cardinality(Work) \in Nat /\ Cardinality(Work') \in Nat
  <2>1. /\ IsFiniteSet(Work \cup {v})
        /\ \/ Cardinality(Work \cup {v}) = Cardinality(Work)
           \/ Cardinality(Work \cup {v}) = Cardinality(Work) + 1
    BY <1>1, FS_AddElement
  <2>2. IsFiniteSet(Work') /\ Cardinality(Work') <= Cardinality(Work \cup {v})
    BY <2>1, FS_Subset
  <2>3. /\ Cardinality(Work) \in Nat /\ Cardinality(Work') \in Nat
        /\ Cardinality(Work \cup {v}) \in Nat
    BY <1>1, <2>1, <2>2, FS_CardinalityType
  <2> QED BY <2>1, <2>2, <2>3
<1>3. Cardinality(Calling) \in Nat /\ Cardinality(Calling') \in Nat
  BY <1>1, FS_CardinalityType
<1>4. called \in Nat /\ called' \in Nat /\ Waits \in Nat /\ Again \in Nat
  BY Numbers DEF Types
<1> DEFINE a == Cardinality(Work)
           b == Cardinality(Work')
           c == Cardinality(Calling)
           d == Cardinality(Calling')
           k == Waits
           n == Again
           m == called
           p == called'
<1>5. /\ a \in Nat /\ b \in Nat /\ c \in Nat /\ d \in Nat /\ b <= a + 1
      /\ k \in Nat /\ n \in Nat /\ m \in Nat /\ p \in Nat
      /\ a + m + c <= k + n /\ p + d <= m + c
  BY <1>1, <1>2, <1>3, <1>4
<1> HIDE DEF a, b, c, d, k, n, m, p
<1>6. b + p + d <= k + (n + 1)
  BY <1>5
<1>7. Cardinality(Work') + called' + Cardinality(Calling') <= Waits' + Again'
  BY <1>6 DEF b, d, k, n, p
<1>8. Again' # 0
  BY <1>4
<1> QED BY <1>2, <1>7, <1>8 DEF Counted, Exact

LEMMA FaultCounts ==
  ASSUME Types, NEW f \in FaultNames, Fault(f)
  PROVE  /\ faults' \in [FaultNames -> 0 .. MaxFaults]
         /\ f \in {"error", "store"} => Again' = Again
         /\ f \in {"crash", "interrupt"} => Again' = Again + 1
<1>1. /\ faults["crash"] \in Nat /\ faults["interrupt"] \in Nat
      /\ faults["error"] \in Nat /\ faults["store"] \in Nat
      /\ faults \in [FaultNames -> 0 .. MaxFaults] /\ MaxFaults \in Nat
  BY CompositionAssumption DEF Types, FaultNames
<1>2. faults' = [faults EXCEPT ![f] = faults[f] + 1] /\ faults[f] < MaxFaults
  BY <1>1 DEF Fault, FaultNames
<1> QED BY <1>1, <1>2 DEF Again, FaultNames

-----------------------------------------------------------------------------
(* The initial states.                                                     *)

LEMMA InitHolds == Init => IInv
<1> SUFFICES ASSUME Init PROVE IInv
  OBVIOUS
<1>1. Types
  <2>1. NoWork \in Job
    BY DEF NoWork, Job
  <2> QED BY <2>1, CompositionAssumption DEF Init, Types
<1>2. \A w \in Workers : worker[w].pc = "idle" /\ worker[w].copy = {} /\ ~Loads(worker[w])
  BY DEF Init, NoWork, Loads
<1>3. Tasks
  BY <1>2 DEF Tasks, Task
<1>4. Calling = {}
  BY <1>2 DEF Calling
<1>5. Created
  BY <1>2, <1>4 DEF Created, Init
<1>6. \A u \in Work : u = <<u[1], "group", u[1], 0>> /\ u[1] \in Children
  <2>1. Part("queue") = {}
    BY QueuePart, Shapes DEF Init
  <2>2. Part("worker") = {}
    BY <1>1, <1>2, WorkerPart
  <2>3. \A u \in Part("group") : \E c \in Children : u = <<c, "group", c, 0>>
    BY GroupPart
  <2> QED BY <2>1, <2>2, <2>3, InPart
<1>7. IsFiniteSet(Work) /\ Cardinality(Work) <= Cardinality(Children)
  <2> DEFINE First == [u \in Work |-> u[1]]
  <2>1. First \in Injection(Work, Children)
    BY <1>6 DEF Injection, IsInjective
  <2> QED BY <2>1, CompositionAssumption, FS_Injection
<1>8. Waits = Cardinality(Children) /\ called = 0 /\ Cardinality(Calling) = 0 /\ Again = 0
      /\ Cardinality(Children) \in Nat /\ IsFiniteSet(Calling)
  BY <1>1, <1>4, Numbers, FS_EmptySet DEF Init, Waits, Again, FaultNames
<1>9. IsFiniteSet(Open) /\ Cardinality(Open) <= Cardinality(Children)
  <2>1. Open \subseteq Children
    BY DEF Open
  <2> QED BY <2>1, CompositionAssumption, FS_Subset
<1>10. Cardinality(Work) \in Nat /\ Cardinality(Open) \in Nat
  BY <1>7, <1>9, FS_CardinalityType
<1>11. Counted
  BY <1>7, <1>8, <1>10 DEF Counted
<1>12. Exact
  BY <1>6, <1>8, <1>9, <1>10 DEF Exact
<1> QED BY <1>1, <1>3, <1>5, <1>11, <1>12 DEF IInv

-----------------------------------------------------------------------------
(* What the steps of a worker have in common.                              *)

LEMMA TodoIs ==
  ASSUME Types, NEW w \in Workers, NEW hooks \in SUBSET HookNames
  PROVE  /\ Todo(w, hooks) \in Job
         /\ Todo(w, hooks).copy = worker[w].copy
         /\ Todo(w, hooks).todo = hooks
         /\ Todo(w, hooks).fail = worker[w].fail
         /\ Todo(w, hooks).pc = IF hooks = {} THEN "post" ELSE "hook"
         /\ Loads(Todo(w, hooks)) => hooks \cap Spending # {}
<1>1. worker[w] \in Job
  BY DEF Types
<1> QED BY <1>1 DEF Todo, Job, Loads

LEMMA AfterIs ==
  ASSUME NEW ok \in BOOLEAN, NEW x
  PROVE  /\ After(ok, x) \subseteq HookNames
         /\ ~ok => After(ok, x) \subseteq {"retries"}
         /\ ok => After(ok, x) \subseteq
                    IF IsLast(x[1]) THEN {"group", "results"} ELSE {"results", "pipe"}
<1>1. ToSet(Hooks) \subseteq HookNames
  BY CompositionAssumption DEF ToSet
<1> QED BY <1>1 DEF After, Acts, HookNames

LEMMA HasWork ==
  ASSUME Types, Tasks, Created, NEW w \in Workers, worker[w].pc # "idle"
  PROVE  /\ producer.pc # "new" /\ barrier \in 1 .. Cardinality(Children)
         /\ \E x \in Copies : worker[w].copy = {x}
BY DEF Tasks, Task, Created

LEMMA HookHas ==
  ASSUME Types, Tasks, Created, NEW w \in Workers, NEW h \in Spending \cup {"results"},
         worker[w].pc = "hook", h \in worker[w].todo
  PROVE  /\ producer.pc # "new" /\ barrier \in 1 .. Cardinality(Children)
         /\ \E x \in Copies :
              /\ worker[w].copy = {x}
              /\ h \in {"group", "pipe", "results"} => x[1] \in completed
              /\ h = "group" => IsLast(x[1])
              /\ h = "pipe" => ~IsLast(x[1])
BY HasWork DEF Tasks, Task, Spending

LEMMA LessToDo ==
  ASSUME Types, Tasks, NEW w \in Workers, NEW h,
         worker[w].pc \in {"hook", "callback"}, h \in worker[w].todo
  PROVE  /\ HookDone(w, h) \in Job
         /\ HookDone(w, h).copy = worker[w].copy
         /\ HookDone(w, h).fail = worker[w].fail
         /\ HookDone(w, h).todo = worker[w].todo \ {h}
         /\ HookDone(w, h).pc \in {"post", "hook"}
         /\ Task(HookDone(w, h), completed)
         /\ h \in Spending => ~Loads(HookDone(w, h))
         /\ Loads(HookDone(w, h)) /\ worker[w].pc = "hook" => Loads(worker[w])
         /\ worker[w].pc = "hook" /\ h \in Spending => Loads(worker[w])
<1>1. worker[w].todo \ {h} \in SUBSET HookNames
  BY DEF Types, Job
<1>2. /\ HookDone(w, h) \in Job
      /\ HookDone(w, h).copy = worker[w].copy
      /\ HookDone(w, h).todo = worker[w].todo \ {h}
      /\ HookDone(w, h).fail = worker[w].fail
      /\ HookDone(w, h).pc \in {"post", "hook"}
      /\ Loads(HookDone(w, h)) => (worker[w].todo \ {h}) \cap Spending # {}
  BY <1>1, TodoIs DEF HookDone
<1>3. Task(worker[w], completed)
  BY DEF Tasks
<1>4. worker[w].copy # {}
  BY <1>3 DEF Task
<1>5. Task(HookDone(w, h), completed)
  <2> DEFINE r == HookDone(w, h)
  <2> HIDE DEF r
  <2>1. r.copy = worker[w].copy /\ r.todo = worker[w].todo \ {h} /\ r.pc \in {"post", "hook"}
    BY <1>2 DEF r
  <2>2. Task(r, completed)
    BY <1>3, <1>4, <2>1 DEF Task
  <2> QED BY <2>2 DEF r
<1>6. ASSUME h \in Spending PROVE (worker[w].todo \ {h}) \cap Spending = {}
  BY <1>3, <1>4, <1>6 DEF Task, Spending
<1>7. worker[w].pc = "hook" => ((worker[w].todo \cap Spending # {}) => Loads(worker[w]))
  BY DEF Loads
<1> QED BY <1>2, <1>5, <1>6, <1>7

LEMMA TasksKept ==
  ASSUME Types, Tasks, NEW w \in Workers, NEW r, worker' = [worker EXCEPT ![w] = r],
         completed \subseteq completed', Task(r, completed')
  PROVE  Tasks'
<1> SUFFICES ASSUME NEW v \in Workers PROVE Task(worker'[v], completed')
  BY DEF Tasks, Task
<1>1. CASE v = w
  BY <1>1 DEF Types
<1>2. CASE v # w
  <2>1. worker'[v] = worker[v]
    BY <1>2 DEF Types
  <2>2. Task(worker[v], completed)
    BY DEF Tasks
  <2>3. Task(worker[v], completed')
    BY <2>2 DEF Task
  <2> QED BY <2>1, <2>3
<1> QED BY <1>1, <1>2

LEMMA CreatedKept ==
  ASSUME Types, Created, producer.pc # "new", producer' = producer, barrier' = barrier,
         NEW w \in Workers, NEW r, worker' = [worker EXCEPT ![w] = r],
         r.pc = "callback" => worker[w].pc = "callback" \/ barrier = 1,
         called' > 0 => called > 0 \/ worker[w].pc = "callback"
  PROVE  Created'
<1>1. \A v \in Workers : worker'[v] = IF v = w THEN r ELSE worker[v]
  BY DEF Types
<1>2. Calling' # {} => Calling # {} \/ barrier = 1
  BY <1>1 DEF Calling
<1>3. worker[w].pc = "callback" => Calling # {}
  BY DEF Calling
<1> QED BY <1>2, <1>3 DEF Created

LEMMA UnitIsWork ==
  ASSUME Types, NEW w \in Workers, Loads(worker[w]), NEW x \in worker[w].copy
  PROVE  Unit(w, x) \in Work
BY WorkerPart, InPart DEF Unit

LEMMA WorkGoes ==
  ASSUME Types, NEW w \in Workers, NEW r, worker' = [worker EXCEPT ![w] = r],
         producer' = producer, queue' = queue
  PROVE  /\ ~Loads(r) => Work' \subseteq Work /\ \A x : Unit(w, x) \notin Work'
         /\ r.copy = worker[w].copy /\ (Loads(r) => Loads(worker[w])) => Work' \subseteq Work
         /\ \A x : r.copy = {x} => Work' \subseteq Work \cup {Unit(w, x)}
<1>1. Part("group")' = Part("group") /\ Part("queue")' = Part("queue")
  BY GroupSame, QueueSame
<1>2. \A x : Unit(w, x) \notin Part("group") /\ Unit(w, x) \notin Part("queue")
  BY DEF Part, Unit
<1> QED BY <1>1, <1>2, WorkerGoes, InPart, InPartAfter

LEMMA PutIs ==
  ASSUME Types, NEW x \in Copies, Put(x)
  PROVE  /\ queue' = [queue EXCEPT ![x] = @ + 1] /\ queue' \in [Copies -> Nat]
         /\ begun' \subseteq Messages /\ faults' = faults /\ Again' = Again
<1>1. queue' \in [Copies -> Nat]
  BY DEF Types, Put
<1>2. begun' \subseteq Messages
  BY Shapes DEF Types, Put
<1> QED BY <1>1, <1>2 DEF Put, Again

LEMMA NoPut ==
  ASSUME Types, PutFails
  PROVE  /\ queue' = queue /\ begun' = begun /\ Again' = Again
         /\ faults' \in [FaultNames -> 0 .. MaxFaults]
BY FaultCounts DEF PutFails, FaultNames

LEMMA CallingSame ==
  ASSUME Types, Counted, worker' = worker
  PROVE  Calling' = Calling /\ IsFiniteSet(Calling') /\ Cardinality(Calling) \in Nat
<1>1. Calling' = Calling /\ IsFiniteSet(Calling)
  BY DEF Calling, Counted
<1> QED BY <1>1, FS_CardinalityType

-----------------------------------------------------------------------------
(* Each step keeps the invariant: those of the group.                      *)

LEMMA StepCreateBarrier == IInv /\ CreateBarrier => IInv'
<1> SUFFICES ASSUME IInv, CreateBarrier PROVE IInv'
  OBVIOUS
<1> USE DEF IInv
<1>1. Types'
  BY Numbers DEF Types, CreateBarrier, OutsideProducer
<1>2. Tasks'
  BY DEF Tasks, CreateBarrier, OutsideProducer
<1>3. UNCHANGED <<worker, queue, completed, called, faults>> /\ producer'.sent = producer.sent
      /\ producer.pc = "new" /\ producer'.pc = "created" /\ barrier' = Cardinality(Children)
  BY DEF Types, CreateBarrier, OutsideProducer
<1>4. Calling' = Calling /\ IsFiniteSet(Calling') /\ Cardinality(Calling) \in Nat
  BY <1>3, CallingSame
<1>5. Created'
  BY <1>3, <1>4, Numbers DEF Created, Calling
<1>6. Work' \subseteq Work
  BY <1>3, InPart, InPartAfter, GroupSame, QueueSame, WorkerSame
<1>7. Waits' = Waits /\ Again' = Again
  BY <1>3 DEF Waits, Again
<1>8. called' + Cardinality(Calling') <= called + Cardinality(Calling)
  BY <1>3, <1>4 DEF Types
<1>9. Counted' /\ Exact'
  BY <1>1, <1>3, <1>4, <1>6, <1>7, <1>8, Fewer
<1> QED BY <1>1, <1>2, <1>5, <1>9

LEMMA StepRun ==
  ASSUME IInv, NEW c \in Children, Run(c)
  PROVE  IInv'
<1> USE DEF IInv
<1> DEFINE x == <<<<c, 1>>, 0>>
           u == <<c, "group", c, 0>>
           v == <<Child(x), "queue", x, queue[x] + 1>>
<1>1. UNCHANGED <<worker, barrier, result, unstored, completed, failed, called>>
      /\ producer.pc = "created" /\ producer'.pc # "new" /\ c \notin producer.sent
  BY DEF Types, Run, OutsideProducer
<1>2. x \in Copies /\ Child(x) = c
  <2>1. Length[c] \in Nat \ {0} /\ 0 \in 0 .. MaxRetries
    BY CompositionAssumption
  <2>2. 1 \in 1 .. Length[c]
    BY <2>1
  <2>3. <<c, 1>> \in Messages
    BY <2>2, Shapes
  <2> QED BY <2>1, <2>3, Shapes DEF Child
<1>3. Calling' = Calling /\ IsFiniteSet(Calling') /\ Cardinality(Calling) \in Nat
      /\ called' + Cardinality(Calling') <= called + Cardinality(Calling)
  BY <1>1, CallingSame DEF Types
<1>4. Tasks'
  BY <1>1 DEF Tasks
<1>5. Created'
  BY <1>1, <1>3 DEF Created
<1>6. Waits' = Waits
  BY <1>1 DEF Waits
<1>7. Part("worker")' \subseteq Part("worker")
  BY <1>1, WorkerSame
<1>8. CASE Put(x) /\ producer' = [producer EXCEPT !.sent = @ \cup {c}]
  <2> HIDE DEF x
  <2>1. Types'
    BY <1>1, <1>2, <1>8, PutIs DEF Types
  <2>2. producer'.sent = producer.sent \cup {c}
    BY <1>8 DEF Types
  <2>3. u \in Part("group") /\ Part("group")' \subseteq Part("group") \ {u}
    BY <1>1, <2>2, GroupPart, GroupPartAfter
  <2>4. u \notin Part("queue") /\ u \notin Part("worker")
    BY DEF Part
  <2>5. Part("queue")' \subseteq Part("queue") \cup {v}
    BY <1>2, <1>8, PutIs, QueueAdds
  <2>6. u \in Work /\ Work' \subseteq (Work \ {u}) \cup {v}
    BY <1>7, <2>3, <2>4, <2>5, InPart, InPartAfter
  <2>7. v[1] = u[1]
    BY <1>2
  <2> HIDE DEF u, v
  <2>8. Counted' /\ Exact'
    BY <1>1, <1>2, <1>3, <1>6, <1>8, <2>1, <2>6, <2>7, PutIs, Exchanged
  <2> QED BY <1>4, <1>5, <2>1, <2>8
<1>9. CASE PutFails /\ producer' = [producer EXCEPT !.pc = "raised"]
  <2>1. Types'
    BY <1>1, <1>9, NoPut DEF Types
  <2>2. producer'.sent = producer.sent
    BY <1>9 DEF Types
  <2>3. Work' \subseteq Work
    BY <1>7, <1>9, <2>2, NoPut, GroupSame, QueueSame, InPart, InPartAfter
  <2>4. Counted' /\ Exact'
    BY <1>1, <1>3, <1>6, <1>9, <2>1, <2>3, NoPut, Fewer
  <2> QED BY <1>4, <1>5, <2>1, <2>4
<1> QED BY <1>8, <1>9 DEF Run

-----------------------------------------------------------------------------
(* Those of a worker.                                                      *)

LEMMA Paid ==
  ASSUME Types, Types', Counted, NEW w \in Workers, NEW r, worker' = [worker EXCEPT ![w] = r],
         \/ r.pc # "callback" /\ called' = called
         \/ r.pc = "callback" /\ worker[w].pc = "callback" /\ called' = called
         \/ r.pc # "callback" /\ worker[w].pc = "callback" /\ called' = called + 1
  PROVE  /\ IsFiniteSet(Calling')
         /\ called' + Cardinality(Calling') <= called + Cardinality(Calling)
<1> DEFINE a == Cardinality(Calling)
           b == Cardinality(Calling')
           m == called
           n == called'
<1>1. m \in Nat /\ n \in Nat
  BY DEF Types
<1>2. /\ IsFiniteSet(Calling') /\ a \in Nat /\ b \in Nat
      /\ b = a + Flag(r.pc = "callback") - Flag(worker[w].pc = "callback")
  BY CallingGoes, Zenon
<1>3. \/ r.pc # "callback" /\ n = m
      \/ r.pc = "callback" /\ worker[w].pc = "callback" /\ n = m
      \/ r.pc # "callback" /\ worker[w].pc = "callback" /\ n = m + 1
  OBVIOUS
<1> HIDE DEF a, b, m, n
<1>4. n + b <= m + a
  BY <1>1, <1>2, <1>3 DEF Flag
<1> QED BY <1>2, <1>4 DEF a, b, m, n

LEMMA StepReceive ==
  ASSUME IInv, NEW w \in Workers, Receive(w)
  PROVE  IInv'
<1> USE DEF IInv
<1>1. PICK x \in Copies :
        /\ queue[x] > 0
        /\ queue' = [queue EXCEPT ![x] = @ - 1]
        /\ worker' = [worker EXCEPT ![w] = [NoWork EXCEPT !.pc = "act", !.copy = {x}]]
  BY DEF Receive
<1>2. UNCHANGED <<producer, barrier, result, unstored, completed, failed, begun, called, faults>>
      /\ worker[w].pc = "idle"
  BY DEF Receive, OutsideWorker
<1> DEFINE r == [NoWork EXCEPT !.pc = "act", !.copy = {x}]
           u == <<Child(x), "queue", x, queue[x]>>
<1>3. r \in Job /\ r.pc = "act" /\ r.copy = {x}
  BY DEF NoWork, Job
<1>4. worker' = [worker EXCEPT ![w] = r]
  BY <1>1
<1> HIDE DEF r
<1>5. Types'
  BY <1>1, <1>2, <1>3, <1>4 DEF Types
<1>6. Tasks'
  BY <1>2, <1>3, <1>4, TasksKept DEF Task
<1>7. producer.pc # "new"
  BY <1>1 DEF Created
<1>8. Created'
  BY <1>2, <1>3, <1>4, <1>7, CreatedKept
<1>9. u \in Part("queue") /\ Part("queue")' \subseteq Part("queue") \ {u}
  BY <1>1, QueueTakes
<1>10. Part("worker")' \subseteq Part("worker") \cup {Unit(w, x)}
  BY <1>3, <1>4, WorkerGoes
<1>11. Part("group")' = Part("group")
  BY <1>2, GroupSame
<1>12. u \notin Part("group") /\ u \notin Part("worker")
  BY DEF Part
<1>13. u \in Work /\ Work' \subseteq (Work \ {u}) \cup {Unit(w, x)}
  BY <1>9, <1>10, <1>11, <1>12, InPart, InPartAfter
<1>14. Unit(w, x)[1] = u[1]
  BY DEF Unit
<1>15. Waits' = Waits /\ Again' = Again
  BY <1>2 DEF Waits, Again
<1> HIDE DEF u
<1>16. Counted' /\ Exact'
  BY <1>2, <1>3, <1>4, <1>5, <1>13, <1>14, <1>15, Paid, Exchanged
<1> QED BY <1>5, <1>6, <1>8, <1>16

(* A step of one worker that leaves the queue and the barrier alone, and
   in which it gets no more to do, or loses what it had.                   *)
LEMMA StepQuietly ==
  ASSUME IInv, Types', NEW w \in Workers, NEW r \in Job, worker[w].pc # "idle",
         worker' = [worker EXCEPT ![w] = r], UNCHANGED <<queue, producer, barrier>>,
         completed \subseteq completed', Task(r, completed'), Again' = Again,
         \/ r.pc # "callback" /\ called' = called
         \/ r.pc # "callback" /\ worker[w].pc = "callback" /\ called' = called + 1,
         Loads(r) => Loads(worker[w]) /\ r.copy = worker[w].copy
  PROVE  IInv'
<1> USE DEF IInv
<1>1. producer.pc # "new"
  BY HasWork
<1>2. Tasks'
  BY TasksKept
<1>3. Created'
  BY <1>1, CreatedKept
<1>4. Work' \subseteq Work
  <2>1. CASE Loads(r)
    BY <2>1, WorkGoes
  <2>2. CASE ~Loads(r)
    BY <2>2, WorkGoes
  <2> QED BY <2>1, <2>2
<1>5. Waits' = Waits
  BY DEF Waits
<1>6. Counted' /\ Exact'
  BY <1>4, <1>5, Paid, Fewer
<1> QED BY <1>2, <1>3, <1>6

LEMMA StepAct ==
  ASSUME IInv, NEW w \in Workers, Act(w)
  PROVE  IInv'
<1> USE DEF IInv
<1>1. PICK ok \in BOOLEAN, x \in worker[w].copy :
        /\ Complete(w, ok)
        /\ worker' = [worker EXCEPT ![w] = Todo(w, After(ok, x))]
  BY DEF Act
<1>2. /\ UNCHANGED <<queue, producer, barrier, result, unstored, failed, begun, called, faults>>
      /\ worker[w].pc = "act"
  BY DEF Act, OutsideWorker
<1> DEFINE r == Todo(w, After(ok, x))
<1>3. After(ok, x) \in SUBSET HookNames
  BY AfterIs
<1>4. /\ r \in Job /\ r.copy = worker[w].copy /\ r.todo = After(ok, x)
      /\ r.pc \in {"post", "hook"}
  BY <1>3, TodoIs
<1>5. worker' = [worker EXCEPT ![w] = r]
  BY <1>1
<1> HIDE DEF r
<1>6. x \in Copies /\ worker[w].copy = {x}
  BY <1>2, HasWork
<1>7. /\ completed' = IF ok THEN completed \cup {x[1]} ELSE completed
      /\ completed \subseteq completed'
  BY <1>1, <1>6 DEF Complete
<1>8. completed' \subseteq Messages
  BY <1>6, <1>7, Shapes DEF Types
<1>9. Types'
  BY <1>2, <1>4, <1>5, <1>8 DEF Types
<1>10. Task(r, completed')
  <2>1. \/ r.todo \subseteq {"retries"}
        \/ /\ x[1] \in completed'
           /\ r.todo \subseteq
                IF IsLast(x[1]) THEN {"group", "results"} ELSE {"results", "pipe"}
    BY <1>4, <1>7, AfterIs
  <2> QED BY <1>4, <1>6, <2>1 DEF Task
<1>11. Loads(worker[w])
  BY <1>2 DEF Loads
<1>12. Again' = Again
  BY <1>2 DEF Again
<1> QED BY <1>2, <1>4, <1>5, <1>7, <1>9, <1>10, <1>11, <1>12, StepQuietly

(* The call of wait() that counts the barrier down, or goes on to the
   callback: either way the child has no other unit of work left.          *)
LEMMA StepWait ==
  ASSUME IInv, NEW w \in Workers, Wait(w)
  PROVE  IInv'
<1> USE DEF IInv
<1>1. /\ UNCHANGED <<queue, producer, result, unstored, completed, failed, begun, called, faults>>
      /\ worker[w].pc = "hook" /\ "group" \in worker[w].todo
  BY DEF Wait, Hook, OutsideWorker
<1>2. PICK x \in Copies : worker[w].copy = {x} /\ x[1] \in completed /\ IsLast(x[1])
  BY <1>1, HookHas DEF Spending
<1>3. producer.pc # "new" /\ barrier \in 1 .. Cardinality(Children)
  BY <1>1, HasWork
<1>4. Loads(worker[w])
  BY <1>1 DEF Loads, Spending
<1> DEFINE u == Unit(w, x)
<1>5. u \in Work /\ LastOf(u[1]) \in completed
  BY <1>2, <1>4, UnitIsWork, LastIs DEF Unit
<1>6. Again' = Again /\ Waits = barrier /\ Waits' = barrier'
  BY <1>1, <1>3 DEF Again, Waits
<1>7. Task(worker[w], completed) /\ worker[w] \in Job
  BY DEF Tasks, Types
<1> DEFINE Step(r) == /\ r \in Job /\ r.copy = {x} /\ ~Loads(r) /\ Task(r, completed)
                      /\ worker' = [worker EXCEPT ![w] = r]
<1>8. ASSUME NEW r, Step(r)
      PROVE  /\ barrier' \in Nat => Types'
             /\ Tasks' /\ Work' \subseteq Work \ {u} /\ IsFiniteSet(Calling')
             /\ Cardinality(Calling') = Cardinality(Calling) + Flag(r.pc = "callback")
             /\ Cardinality(Calling) \in Nat
  <2>1. barrier' \in Nat => Types'
    BY <1>1, <1>8 DEF Types
  <2>2. Tasks'
    BY <1>1, <1>8, TasksKept
  <2>3. Work' \subseteq Work \ {u}
    <3>1. ~Loads(r) /\ worker' = [worker EXCEPT ![w] = r] /\ producer' = producer /\ queue' = queue
      BY <1>1, <1>8
    <3>2. Work' \subseteq Work /\ Unit(w, x) \notin Work'
      BY <3>1, WorkGoes
    <3> QED BY <3>2
  <2>4. Flag(worker[w].pc = "callback") = 0
    BY <1>1 DEF Flag
  <2>5. /\ IsFiniteSet(Calling') /\ Cardinality(Calling) \in Nat /\ Flag(r.pc = "callback") \in Nat
        /\ Cardinality(Calling') = Cardinality(Calling) + Flag(r.pc = "callback")
                                      - Flag(worker[w].pc = "callback")
    BY <1>8, CallingGoes DEF Flag
  <2>6. Cardinality(Calling') = Cardinality(Calling) + Flag(r.pc = "callback")
    BY <2>4, <2>5
  <2> QED BY <2>1, <2>2, <2>3, <2>5, <2>6
<1>9. CASE barrier < 2 /\ worker' = [worker EXCEPT ![w].pc = "callback"] /\ barrier' = barrier
  <2> DEFINE r == [worker[w] EXCEPT !.pc = "callback"]
  <2>1. r.pc = "callback" /\ r.copy = {x} /\ r.todo = worker[w].todo /\ r \in Job
    BY <1>2, <1>7 DEF Job
  <2>2. worker' = [worker EXCEPT ![w] = r]
    BY <1>9
  <2> HIDE DEF r
  <2>3. ~Loads(r) /\ Task(r, completed)
    BY <1>1, <1>2, <1>7, <2>1 DEF Loads, Task
  <2>4. Step(r)
    BY <2>1, <2>2, <2>3
  <2> HIDE DEF Step
  <2>5. barrier = 1
    BY <1>3, <1>9, Numbers
  <2>6. Created'
    BY <1>1, <1>3, <1>9, <2>2, <2>5, CreatedKept
  <2>7. Types'
    BY <1>8, <1>9, <2>4, <2>5
  <2>8. Cardinality(Calling') = Cardinality(Calling) + 1
    BY <1>8, <2>1, <2>4 DEF Flag
  <2>9. Counted' /\ Exact'
    BY <1>1, <1>5, <1>6, <1>8, <1>9, <2>4, <2>7, <2>8, Waited
  <2> QED BY <1>8, <2>4, <2>6, <2>7, <2>9
<1>10. CASE /\ barrier >= 2 /\ worker' = [worker EXCEPT ![w] = HookDone(w, "group")]
            /\ barrier' = barrier - 1
  <2> DEFINE r == HookDone(w, "group")
  <2>1. r \in Job /\ r.copy = {x} /\ ~Loads(r) /\ Task(r, completed) /\ r.pc # "callback"
    BY <1>1, <1>2, LessToDo DEF Spending
  <2>2. worker' = [worker EXCEPT ![w] = r]
    BY <1>10
  <2> HIDE DEF r
  <2>3. Step(r)
    BY <2>1, <2>2
  <2> HIDE DEF Step
  <2>4. barrier' \in Nat /\ barrier' \in 1 .. Cardinality(Children) /\ barrier # 1
    BY <1>3, <1>10, Numbers
  <2>5. Types'
    BY <1>8, <2>3, <2>4
  <2>6. Cardinality(Calling') = Cardinality(Calling)
    BY <1>8, <2>1, <2>3 DEF Flag
  <2>7. called' = 0 /\ Calling' = {}
    <3>1. called = 0 /\ Calling = {}
      BY <2>4 DEF Created, Types
    <3>2. Calling' = {}
      BY <2>1, <2>2, <3>1 DEF Calling, Types
    <3> QED BY <1>1, <3>1, <3>2
  <2>8. Created'
    BY <1>1, <1>3, <2>4, <2>7 DEF Created
  <2>9. Counted' /\ Exact'
    BY <1>1, <1>5, <1>6, <1>8, <1>10, <2>3, <2>5, <2>6, Waited
  <2> QED BY <1>8, <2>3, <2>5, <2>8, <2>9
<1> QED BY <1>9, <1>10 DEF Wait

LEMMA StepCallback ==
  ASSUME IInv, NEW w \in Workers, Callback(w)
  PROVE  IInv'
<1> USE DEF IInv
<1> DEFINE r == HookDone(w, "group")
<1>1. /\ UNCHANGED <<producer, barrier, result, unstored, completed, failed>>
      /\ worker[w].pc = "callback" /\ worker' = [worker EXCEPT ![w] = r]
      /\ \/ called' = called + 1 /\ UNCHANGED <<queue, begun, faults>>
         \/ PutFails /\ UNCHANGED called
  BY DEF Callback, OutsideWorker
<1>2. "group" \in worker[w].todo
  BY <1>1 DEF Tasks, Task
<1>3. r \in Job /\ r.pc # "callback" /\ Task(r, completed) /\ ~Loads(r)
  BY <1>1, <1>2, LessToDo DEF Spending
<1> HIDE DEF r
<1>4. /\ queue' = queue /\ begun' = begun /\ Again' = Again
      /\ faults' \in [FaultNames -> 0 .. MaxFaults]
      /\ called' \in Nat
  <2>1. CASE called' = called + 1 /\ UNCHANGED <<queue, begun, faults>>
    BY <2>1 DEF Again, Types
  <2>2. CASE PutFails /\ UNCHANGED called
    BY <2>2, NoPut DEF Types
  <2> QED BY <1>1, <2>1, <2>2
<1>5. Types'
  BY <1>1, <1>3, <1>4 DEF Types
<1> QED BY <1>1, <1>3, <1>4, <1>5, StepQuietly

(* The result is stored, or storing it raises.                             *)
LEMMA StoredOrNot ==
  ASSUME Types, UNCHANGED faults \/ Fault("store")
  PROVE  faults' \in [FaultNames -> 0 .. MaxFaults] /\ Again' = Again
<1>1. CASE UNCHANGED faults
  BY <1>1 DEF Types, Again
<1>2. CASE Fault("store")
  BY <1>2, FaultCounts DEF FaultNames
<1> QED BY <1>1, <1>2

LEMMA StepStoreResult ==
  ASSUME IInv, NEW w \in Workers, StoreResult(w)
  PROVE  IInv'
<1> USE DEF IInv
<1> DEFINE r == HookDone(w, "results")
<1>1. /\ UNCHANGED <<producer, queue, barrier, completed, failed, begun, called>>
      /\ worker[w].pc = "hook" /\ "results" \in worker[w].todo
      /\ worker' = [worker EXCEPT ![w] = r]
      /\ UNCHANGED faults \/ Fault("store")
  BY DEF StoreResult, Hook, OutsideWorker
<1>2. /\ r \in Job /\ r.pc # "callback" /\ Task(r, completed) /\ r.copy = worker[w].copy
      /\ Loads(r) => Loads(worker[w])
  BY <1>1, LessToDo
<1> HIDE DEF r
<1>3. /\ result' \in [Messages -> {"none", "value", "exception"}]
      /\ unstored' \subseteq Messages
  <2>1. \A x \in worker[w].copy : x[1] \in Messages
    BY Shapes DEF Types, Job
  <2> QED BY <2>1 DEF StoreResult, Types
<1>4. Types' /\ Again' = Again
  BY <1>1, <1>2, <1>3, StoredOrNot DEF Types
<1> QED BY <1>1, <1>2, <1>4, StepQuietly

LEMMA StepPost ==
  ASSUME IInv, NEW w \in Workers, Post(w)
  PROVE  IInv'
<1> USE DEF IInv
<1>1. /\ UNCHANGED <<producer, queue, barrier, result, unstored, completed, begun, called, faults>>
      /\ worker[w].pc = "post"
  BY DEF Post, OutsideWorker
<1>2. PICK x \in Copies : worker[w].copy = {x}
  BY <1>1, HasWork
<1>3. worker[w] \in Job /\ x[1] \in Messages
  BY <1>2, Shapes DEF Types
<1>4. PICK r : /\ worker' = [worker EXCEPT ![w] = r] /\ failed' \subseteq Messages
               /\ \/ r = [worker[w] EXCEPT !.pc = "nacked"]
                  \/ r = NoWork
  <2>1. CASE worker[w].fail
    BY <1>2, <1>3, <2>1 DEF Post, Types
  <2>2. CASE ~worker[w].fail
    BY <1>2, <1>3, <2>2 DEF Post, Types
  <2> QED BY <2>1, <2>2
<1>5. r \in Job /\ r.pc \notin {"callback", "act", "hook"} /\ (r.pc = "idle" <=> r.copy = {})
      /\ (r.copy = {} \/ r.copy = {x})
  <2>1. CASE r = [worker[w] EXCEPT !.pc = "nacked"]
    <3>1. r.pc = "nacked" /\ r.copy = {x} /\ r \in Job
      BY <1>2, <1>3, <2>1 DEF Job
    <3> QED BY <3>1
  <2>2. CASE r = NoWork
    BY <2>2 DEF Job, NoWork
  <2> QED BY <1>4, <2>1, <2>2
<1>6. Task(r, completed) /\ ~Loads(r)
  BY <1>5 DEF Task, Loads
<1>7. Types' /\ Again' = Again
  BY <1>1, <1>4, <1>5 DEF Types, Again
<1> QED BY <1>1, <1>4, <1>5, <1>6, <1>7, StepQuietly

LEMMA NoWorkIs ==
  /\ NoWork \in Job /\ NoWork.pc = "idle" /\ NoWork.copy = {} /\ ~Loads(NoWork)
  /\ \A done : Task(NoWork, done)
BY DEF NoWork, Job, Loads, Task

LEMMA StepStoreException ==
  ASSUME IInv, NEW w \in Workers, StoreException(w)
  PROVE  IInv'
<1> USE DEF IInv
<1>1. /\ UNCHANGED <<producer, queue, barrier, unstored, completed, failed, begun, called>>
      /\ worker[w].pc = "nacked" /\ worker' = [worker EXCEPT ![w] = NoWork]
      /\ UNCHANGED faults \/ Fault("store")
      /\ \/ result' = result
         \/ \E x \in worker[w].copy : result' = [result EXCEPT ![x[1]] = "exception"]
  BY DEF StoreException, OutsideWorker
<1>2. Types' /\ Again' = Again
  BY <1>1, NoWorkIs, StoredOrNot DEF Types
<1> QED BY <1>1, <1>2, NoWorkIs, StepQuietly

(* A worker enqueues a message of the same child, and has no more to do for
   it itself.                                                              *)
LEMMA StepEnqueues ==
  ASSUME IInv, NEW w \in Workers, NEW r \in Job, NEW x \in Copies, NEW y \in Copies,
         worker[w].copy = {x}, Loads(worker[w]), worker[w].pc = "hook",
         Child(y) = Child(x), Put(y),
         worker' = [worker EXCEPT ![w] = r], r.pc # "callback", ~Loads(r), Task(r, completed),
         UNCHANGED <<producer, barrier, result, unstored, completed, failed, called>>
  PROVE  IInv'
<1> USE DEF IInv
<1> DEFINE u == Unit(w, x)
           v == <<Child(y), "queue", y, queue[y] + 1>>
<1>1. /\ queue' = [queue EXCEPT ![y] = @ + 1] /\ queue' \in [Copies -> Nat]
      /\ begun' \subseteq Messages /\ faults' = faults /\ Again' = Again
  BY PutIs
<1>2. Types'
  BY <1>1 DEF Types
<1>3. Tasks'
  BY TasksKept
<1>4. producer.pc # "new"
  BY HasWork
<1>5. Created'
  BY <1>4, CreatedKept
<1>6. u \in Work
  BY UnitIsWork
<1>7. Part("worker")' \subseteq Part("worker") /\ u \notin Part("worker")'
  BY WorkerGoes
<1>8. Part("group")' = Part("group") /\ Part("queue")' \subseteq Part("queue") \cup {v}
  BY <1>1, GroupSame, QueueAdds
<1>9. u \notin Part("group") /\ u \notin Part("queue")
  BY DEF Part, Unit
<1>10. Work' \subseteq (Work \ {u}) \cup {v}
  BY <1>7, <1>8, <1>9, InPart, InPartAfter
<1>11. v[1] = u[1]
  BY DEF Unit
<1>12. Waits' = Waits
  BY DEF Waits
<1> HIDE DEF u, v
<1>13. Counted' /\ Exact'
  BY <1>1, <1>2, <1>6, <1>10, <1>11, <1>12, Paid, Exchanged
<1> QED BY <1>2, <1>3, <1>5, <1>13

LEMMA StepFailsToPut ==
  ASSUME IInv, NEW w \in Workers, NEW r \in Job, worker[w].pc = "hook", PutFails,
         worker' = [worker EXCEPT ![w] = r], r.pc # "callback", ~Loads(r), Task(r, completed),
         UNCHANGED <<producer, barrier, result, unstored, completed, failed, called>>
  PROVE  IInv'
<1> USE DEF IInv
<1>1. /\ queue' = queue /\ begun' = begun /\ Again' = Again
      /\ faults' \in [FaultNames -> 0 .. MaxFaults]
  BY NoPut
<1>2. Types'
  BY <1>1 DEF Types
<1> QED BY <1>1, <1>2, StepQuietly

LEMMA StepRetry ==
  ASSUME IInv, NEW w \in Workers, Retry(w)
  PROVE  IInv'
<1> USE DEF IInv
<1> DEFINE d == HookDone(w, "retries")
           f == [HookDone(w, "retries") EXCEPT !.fail = TRUE]
<1>1. /\ UNCHANGED <<producer, barrier, result, unstored, completed, failed, called>>
      /\ worker[w].pc = "hook" /\ "retries" \in worker[w].todo
  BY DEF Retry, Hook, OutsideWorker
<1>2. PICK x \in Copies : worker[w].copy = {x}
  BY <1>1, HasWork
<1>3. \/ x[2] < MaxRetries /\ Put(<<x[1], x[2] + 1>>) /\ worker' = [worker EXCEPT ![w] = d]
      \/ PutFails /\ worker' = [worker EXCEPT ![w] = d]
      \/ worker' = [worker EXCEPT ![w] = f] /\ UNCHANGED <<queue, begun, faults>>
  BY <1>2 DEF Retry
<1>4. d \in Job /\ d.pc # "callback" /\ Task(d, completed) /\ ~Loads(d) /\ Loads(worker[w])
  BY <1>1, LessToDo DEF Spending
<1> HIDE DEF d
<1>5. CASE x[2] < MaxRetries /\ Put(<<x[1], x[2] + 1>>) /\ worker' = [worker EXCEPT ![w] = d]
  <2>1. x[1] \in Messages /\ x[2] + 1 \in 0 .. MaxRetries
    <3>1. x[1] \in Messages /\ x[2] \in 0 .. MaxRetries /\ MaxRetries \in Nat
      BY Shapes, CompositionAssumption
    <3> QED BY <1>5, <3>1
  <2>2. <<x[1], x[2] + 1>> \in Copies
    BY <2>1, Shapes
  <2>3. Child(<<x[1], x[2] + 1>>) = Child(x)
    BY DEF Child
  <2> QED BY <1>1, <1>2, <1>4, <1>5, <2>2, <2>3, StepEnqueues
<1>6. CASE PutFails /\ worker' = [worker EXCEPT ![w] = d]
  BY <1>1, <1>4, <1>6, StepFailsToPut
<1>7. CASE worker' = [worker EXCEPT ![w] = f] /\ UNCHANGED <<queue, begun, faults>>
  <2>1. /\ f \in Job /\ f.pc = d.pc /\ f.copy = d.copy /\ f.todo = d.todo
    BY <1>4 DEF Job, d
  <2> HIDE DEF f
  <2>2. f.pc # "callback" /\ Task(f, completed) /\ ~Loads(f)
    BY <1>4, <2>1 DEF Task, Loads
  <2>3. Types' /\ Again' = Again
    BY <1>1, <1>7, <2>1 DEF Types, Again
  <2> QED BY <1>1, <1>7, <2>1, <2>2, <2>3, StepQuietly
<1> QED BY <1>3, <1>5, <1>6, <1>7

LEMMA StepPipe ==
  ASSUME IInv, NEW w \in Workers, Pipe(w)
  PROVE  IInv'
<1> USE DEF IInv
<1> DEFINE d == HookDone(w, "pipe")
<1>1. /\ UNCHANGED <<producer, barrier, result, unstored, completed, failed, called>>
      /\ worker[w].pc = "hook" /\ "pipe" \in worker[w].todo
      /\ worker' = [worker EXCEPT ![w] = d]
  BY DEF Pipe, Hook, OutsideWorker
<1>2. PICK x \in Copies : worker[w].copy = {x} /\ ~IsLast(x[1])
  BY <1>1, HookHas DEF Spending
<1>3. Put(<<Following(x[1]), 0>>) \/ PutFails
  BY <1>2 DEF Pipe
<1>4. d \in Job /\ d.pc # "callback" /\ Task(d, completed) /\ ~Loads(d) /\ Loads(worker[w])
  BY <1>1, LessToDo DEF Spending
<1> HIDE DEF d
<1>5. CASE Put(<<Following(x[1]), 0>>)
  <2>1. /\ x[1][1] \in Children /\ x[1][2] \in 1 .. Length[x[1][1]] /\ Length[x[1][1]] \in Nat
        /\ x[1][2] # Length[x[1][1]]
    BY <1>2, Shapes DEF IsLast
  <2>2. x[1][2] + 1 \in 1 .. Length[x[1][1]]
    BY <2>1
  <2>3. Following(x[1]) \in Messages /\ Following(x[1])[1] = x[1][1]
    BY <2>1, <2>2, Shapes DEF Following
  <2>4. 0 \in 0 .. MaxRetries
    BY CompositionAssumption
  <2>5. <<Following(x[1]), 0>> \in Copies
    BY <2>3, <2>4, Shapes
  <2>6. Child(<<Following(x[1]), 0>>) = Child(x)
    BY <2>3 DEF Child
  <2> QED BY <1>1, <1>2, <1>4, <1>5, <2>5, <2>6, StepEnqueues
<1>6. CASE PutFails
  BY <1>1, <1>4, <1>6, StepFailsToPut
<1> QED BY <1>3, <1>5, <1>6

(* An interrupt, or a crash: the message is processed again.               *)
LEMMA StepInterrupt ==
  ASSUME IInv, NEW w \in Workers, Interrupt(w)
  PROVE  IInv'
<1> USE DEF IInv
<1>1. /\ UNCHANGED <<producer, queue, barrier, result, unstored, completed, failed, begun, called>>
      /\ worker[w].pc \in {"hook", "callback"} /\ Fault("interrupt")
  BY DEF Interrupt, OutsideWorker
<1>2. PICK x \in Copies : worker[w].copy = {x}
  BY <1>1, HasWork
<1> DEFINE r == Todo(w, After(FALSE, x))
<1>3. worker' = [worker EXCEPT ![w] = r]
  BY <1>2 DEF Interrupt
<1>4. After(FALSE, x) \in SUBSET HookNames /\ After(FALSE, x) \subseteq {"retries"}
  BY AfterIs
<1>5. r \in Job /\ r.copy = {x} /\ r.todo \subseteq {"retries"} /\ r.pc \in {"post", "hook"}
  <2> DEFINE hooks == After(FALSE, x)
  <2>1. Types /\ hooks \in SUBSET HookNames /\ hooks \subseteq {"retries"}
    BY <1>4
  <2> HIDE DEF hooks
  <2>2. /\ Todo(w, hooks) \in Job
        /\ Todo(w, hooks).copy = worker[w].copy
        /\ Todo(w, hooks).todo = hooks
        /\ Todo(w, hooks).pc = IF hooks = {} THEN "post" ELSE "hook"
    BY ONLY w \in Workers, <2>1, TodoIs
  <2>3. /\ Todo(w, hooks) \in Job /\ Todo(w, hooks).copy = {x}
        /\ Todo(w, hooks).todo \subseteq {"retries"}
        /\ Todo(w, hooks).pc \in {"post", "hook"}
    BY <1>2, <2>1, <2>2
  <2> QED BY <2>3 DEF hooks
<1> HIDE DEF r
<1>6. Task(r, completed)
  BY <1>5 DEF Task
<1>7. /\ faults' \in [FaultNames -> 0 .. MaxFaults]
      /\ Again' = Again + 1
  BY <1>1, FaultCounts DEF FaultNames
<1>8. Types'
  BY <1>1, <1>3, <1>5, <1>7 DEF Types
<1>9. Tasks'
  BY <1>1, <1>3, <1>6, TasksKept
<1>10. producer.pc # "new"
  BY <1>1, HasWork
<1>11. Created'
  BY <1>1, <1>3, <1>5, <1>10, CreatedKept
<1>12. Work' \subseteq Work \cup {Unit(w, x)}
  BY <1>1, <1>3, <1>5, WorkGoes
<1>13. Waits' = Waits
  BY <1>1 DEF Waits
<1>14. Counted' /\ Exact'
  BY <1>1, <1>3, <1>5, <1>7, <1>8, <1>12, <1>13, Paid, Repeated
<1> QED BY <1>8, <1>9, <1>11, <1>14

LEMMA StepCrash ==
  ASSUME IInv, NEW w \in Workers, Crash(w)
  PROVE  IInv'
<1> USE DEF IInv
<1>1. /\ UNCHANGED <<producer, barrier, result, unstored, completed, failed, begun, called>>
      /\ worker[w].pc # "idle" /\ Fault("crash") /\ worker' = [worker EXCEPT ![w] = NoWork]
  BY DEF Crash, OutsideWorker
<1>2. PICK x \in Copies : worker[w].copy = {x}
  BY <1>1, HasWork
<1>3. \/ queue' = queue
      \/ queue' = [queue EXCEPT ![x] = @ + 1]
  <2>1. queue' = [y \in Copies |-> IF y = x /\ worker[w].pc # "nacked"
                                   THEN queue[y] + 1 ELSE queue[y]]
    BY <1>2 DEF Crash
  <2>2. CASE worker[w].pc = "nacked"
    BY <2>1, <2>2 DEF Types
  <2>3. CASE worker[w].pc # "nacked"
    BY <2>1, <2>3 DEF Types
  <2> QED BY <2>2, <2>3
<1>4. /\ faults' \in [FaultNames -> 0 .. MaxFaults]
      /\ Again' = Again + 1
  BY <1>1, FaultCounts DEF FaultNames
<1>5. queue' \in [Copies -> Nat]
  BY <1>3 DEF Types
<1>6. Types'
  BY <1>1, <1>4, <1>5, NoWorkIs DEF Types
<1>7. Tasks'
  BY <1>1, NoWorkIs, TasksKept
<1>8. producer.pc # "new"
  BY <1>1, HasWork
<1>9. Created'
  BY <1>1, <1>8, NoWorkIs, CreatedKept
<1> DEFINE v == <<Child(x), "queue", x, queue[x] + 1>>
<1>10. Part("worker")' \subseteq Part("worker") /\ Part("group")' = Part("group")
  BY <1>1, NoWorkIs, WorkerGoes, GroupSame
<1>11. Part("queue")' \subseteq Part("queue") \cup {v}
  <2>1. CASE queue' = queue
    BY <2>1, QueueSame
  <2>2. CASE queue' = [queue EXCEPT ![x] = @ + 1]
    BY <2>2, QueueAdds
  <2> QED BY <1>3, <2>1, <2>2
<1>12. Work' \subseteq Work \cup {v}
  BY <1>10, <1>11, InPart, InPartAfter
<1>13. Waits' = Waits
  BY <1>1 DEF Waits
<1> HIDE DEF v
<1>14. Counted' /\ Exact'
  BY <1>1, <1>4, <1>6, <1>12, <1>13, NoWorkIs, Paid, Repeated
<1> QED BY <1>6, <1>7, <1>9, <1>14

LEMMA StepsNot ==
  ASSUME IInv, UNCHANGED vars
  PROVE  IInv'
<1> USE DEF IInv, vars
<1>1. Types'
  BY DEF Types
<1>2. Tasks'
  BY DEF Tasks
<1>3. Calling' = Calling /\ Waits' = Waits /\ Again' = Again
  BY DEF Calling, Waits, Again
<1>4. Created'
  BY <1>3 DEF Created
<1>5. Work' = Work
  BY DEF Work, IsWork
<1>6. Open' = Open
  BY <1>5 DEF Open
<1>7. Counted' /\ Exact'
  BY <1>3, <1>5, <1>6 DEF Counted, Exact
<1> QED BY <1>1, <1>2, <1>4, <1>7

LEMMA NextHolds == IInv /\ [Next]_vars => IInv'
<1> SUFFICES ASSUME IInv, [Next]_vars PROVE IInv'
  OBVIOUS
<1>1. CASE CreateBarrier
  BY <1>1, StepCreateBarrier
<1>2. ASSUME NEW c \in Children, Run(c) PROVE IInv'
  BY <1>2, StepRun
<1>3. ASSUME NEW w \in Workers, WorkerStep(w) PROVE IInv'
  BY <1>3, StepReceive, StepAct, StepWait, StepCallback, StepStoreResult, StepRetry,
     StepPipe, StepPost, StepStoreException DEF WorkerStep
<1>4. ASSUME NEW w \in Workers, Interrupt(w) PROVE IInv'
  BY <1>4, StepInterrupt
<1>5. ASSUME NEW w \in Workers, Crash(w) PROVE IInv'
  BY <1>5, StepCrash
<1>6. CASE UNCHANGED vars
  BY <1>6, StepsNot
<1> QED BY <1>1, <1>2, <1>3, <1>4, <1>5, <1>6 DEF Next

LEMMA Invariant == Spec => []IInv
BY InitHolds, NextHolds, PTL DEF Spec

-----------------------------------------------------------------------------
(* The callback of a group is enqueued at most once more than the one time
   it should for each crash or interrupt that had a message processed again,
   and, when there was none, only after the last message of every pipeline
   has completed, whatever enqueues failed: the barrier that GroupCallbacks
   waits on (composition.py:204-210, group_callbacks.py:46-60) has been
   counted down by each child once.                                        *)
THEOREM CallbackIsOnce == Spec => []CallbackOnce
<1>1. ASSUME IInv PROVE CallbackOnce
  <2> USE <1>1 DEF IInv
  <2>1. TypeOK
    <3>1. barrier \in 0 .. Cardinality(Children)
      BY Numbers DEF Created, Types
    <3> QED BY <3>1 DEF Types, TypeOK, Job
  <2> DEFINE k == Cardinality(Calling)
             a == Cardinality(Work)
             n == Again
             m == called
             o == Cardinality(Open)
  <2>2. /\ IsFiniteSet(Work) /\ IsFiniteSet(Calling)
        /\ a \in Nat /\ k \in Nat /\ n \in Nat /\ m \in Nat /\ o \in Nat
    <3>1. IsFiniteSet(Open)
      <4>1. Open \subseteq Children
        BY DEF Open
      <4> QED BY <4>1, CompositionAssumption, FS_Subset
    <3>2. IsFiniteSet(Work) /\ IsFiniteSet(Calling)
      BY DEF Counted
    <3> QED BY <3>1, <3>2, Numbers, FS_CardinalityType
  <2>3. m > 0 => Waits = 1
    BY DEF Created, Waits
  <2>4. a + m + k <= Waits + n
    BY DEF Counted
  <2>5. n = 0 => o + m + k <= Waits
    BY DEF Exact
  <2> HIDE DEF a, k, n, m, o
  <2>6. m <= 1 + n
    BY <2>2, <2>3, <2>4
  <2>7. n = 0 /\ m > 0 => o = 0
    BY <2>2, <2>3, <2>5
  <2>8. Again = 0 /\ called > 0 => AllCompleted
    <3>1. IsFiniteSet(Open)
      <4>1. Open \subseteq Children
        BY DEF Open
      <4> QED BY <4>1, CompositionAssumption, FS_Subset
    <3>2. Cardinality(Open) = 0 => Open = {}
      BY <3>1, FS_EmptySet
    <3> QED BY <2>7, <3>2 DEF n, m, o, Open, AllCompleted
  <2>9. called <= 1 + Again
    BY <2>6 DEF m, n
  <2> QED BY <2>1, <2>8, <2>9 DEF CallbackOnce, CallbackAfterAll
<1> QED BY <1>1, Invariant, PTL

-----------------------------------------------------------------------------
(* The results that the messages of a pipeline are given.                  *)

(* The order in which the middleware is there unless it is rearranged:
   emit_after runs it backwards (broker.py:121-127), and Results is added
   to the default ones, Pipelines among them.                              *)
ResultsFirst ==
  \A i \in DOMAIN Hooks :
    Hooks[i] = "pipe" => \E k \in 1 .. (i - 1) : Hooks[k] = "results"

(* The messages whose result was given to the backend, which took it or not. *)
Handed == {m \in Messages : result[m] # "none" \/ m \in unstored}

(* A worker that has yet to go on with the pipeline has given it the result
   of the message, or has yet to do so.                                    *)
Fed(r, started, stored) ==
  \A x \in r.copy :
    /\ x[1] \in started
    /\ r.todo \subseteq ToSet(Hooks)
    /\ r.pc \in {"hook", "callback"} /\ "pipe" \in r.todo =>
         "results" \in r.todo \/ x[1] \in stored

Stored ==
  /\ \A m \in begun : m[2] > 1 => <<m[1], m[2] - 1>> \in Handed
  /\ \A x \in Copies : queue[x] > 0 => x[1] \in begun
  /\ \A w \in Workers : Fed(worker[w], begun, Handed)

LEMMA ResultsComeFirst ==
  ASSUME ResultsFirst
  PROVE  "pipe" \in ToSet(Hooks) =>
           /\ "results" \in ToSet(Hooks)
           /\ ~(Rank["pipe"] <= Rank["results"])
<1> SUFFICES ASSUME "pipe" \in ToSet(Hooks)
             PROVE  "results" \in ToSet(Hooks) /\ ~(Rank["pipe"] <= Rank["results"])
  OBVIOUS
<1>1. \E i \in DOMAIN Hooks : Hooks[i] = "pipe"
  BY DEF ToSet
<1>2. Rank["pipe"] \in DOMAIN Hooks /\ Hooks[Rank["pipe"]] = "pipe"
  BY <1>1 DEF Rank
<1>3. PICK k \in 1 .. (Rank["pipe"] - 1) : Hooks[k] = "results"
  BY <1>2 DEF ResultsFirst
<1>4. Len(Hooks) \in Nat /\ DOMAIN Hooks = 1 .. Len(Hooks)
  BY CompositionAssumption
<1>5. k \in DOMAIN Hooks /\ k < Rank["pipe"] /\ k \in Int /\ Rank["pipe"] \in Int
  BY <1>2, <1>3, <1>4
<1>6. "results" \in ToSet(Hooks)
  BY <1>3, <1>5 DEF ToSet
<1>7. Rank["results"] \in DOMAIN Hooks /\ Hooks[Rank["results"]] = "results"
  BY <1>3, <1>5, <1>6 DEF Rank
<1>8. Rank["results"] = k
  BY <1>3, <1>5, <1>7, CompositionAssumption DEF IsInjective
<1> QED BY <1>5, <1>6, <1>8

LEMMA StoredKept ==
  ASSUME Types, Stored, NEW w \in Workers, NEW r, worker' = [worker EXCEPT ![w] = r],
         begun \subseteq begun',
         Handed \subseteq Handed',
         Fed(r, begun', Handed'),
         \A x \in Copies : queue'[x] > 0 => x[1] \in begun',
         \A m \in begun' \ begun : m[2] > 1 => <<m[1], m[2] - 1>> \in Handed'
  PROVE  Stored'
<1>1. \A m \in begun' : m[2] > 1 => <<m[1], m[2] - 1>> \in Handed'
  <2> SUFFICES ASSUME NEW m \in begun', m[2] > 1
               PROVE  <<m[1], m[2] - 1>> \in Handed'
    OBVIOUS
  <2>1. CASE m \in begun
    BY <2>1 DEF Stored
  <2>2. CASE m \notin begun
    BY <2>2
  <2> QED BY <2>1, <2>2
<1>2. ASSUME NEW v \in Workers PROVE Fed(worker'[v], begun', Handed')
  <2>1. CASE v = w
    BY <2>1 DEF Types
  <2>2. CASE v # w
    <3>1. worker'[v] = worker[v] /\ Fed(worker[v], begun, Handed)
      BY <2>2 DEF Types, Stored
    <3>2. \A x \in worker[v].copy : x[1] \in Messages
      BY Shapes DEF Types, Job
    <3>3. Fed(worker[v], begun', Handed')
      BY <3>1, <3>2 DEF Fed
    <3> QED BY <3>1, <3>3
  <2> QED BY <2>1, <2>2
<1> QED BY <1>1, <1>2 DEF Stored

LEMMA HandedSame == UNCHANGED <<result, unstored>> => Handed' = Handed
BY DEF Handed

(* A worker enqueues nothing.                                              *)
LEMMA StoredQuietly ==
  ASSUME Types, Stored, NEW w \in Workers, NEW r, worker' = [worker EXCEPT ![w] = r],
         UNCHANGED <<queue, begun>>,
         Handed \subseteq Handed',
         Fed(r, begun, Handed')
  PROVE  Stored'
BY StoredKept DEF Stored

(* It has a message that has begun.                                        *)
LEMMA HasBegun ==
  ASSUME IInv, Stored, NEW w \in Workers, worker[w].pc # "idle"
  PROVE  \E x \in Copies : /\ worker[w].copy = {x} /\ x[1] \in begun
                           /\ worker[w].todo \subseteq ToSet(Hooks)
BY HasWork DEF IInv, Stored, Fed

(* One that has done a hook, Results' among them if it was there.          *)
LEMMA FedOn ==
  ASSUME IInv, Stored, NEW w \in Workers, worker[w].pc \in {"hook", "callback"}, NEW h,
         h \in worker[w].todo, NEW r, r.copy = worker[w].copy, r.todo = worker[w].todo \ {h},
         Handed \subseteq Handed',
         h = "results" => \A x \in worker[w].copy : x[1] \in Handed'
  PROVE  Fed(r, begun, Handed')
<1>1. Fed(worker[w], begun, Handed)
  BY DEF Stored
<1> QED BY <1>1 DEF Fed

LEMMA StoredInit == Init => Stored
BY DEF Init, Stored, Fed, NoWork

LEMMA StoredGroup ==
  ASSUME IInv, Stored, CreateBarrier \/ \E c \in Children : Run(c)
  PROVE  Stored'
<1> USE DEF IInv
<1> DEFINE Grows == /\ worker' = worker /\ Handed' = Handed /\ begun \subseteq begun'
                    /\ \A m \in begun' \ begun : m[2] = 1
                    /\ \A x \in Copies : queue'[x] > 0 => x[1] \in begun'
<1>1. Grows
  <2>1. CASE CreateBarrier
    BY <2>1, HandedSame DEF CreateBarrier, OutsideProducer, Stored
  <2>2. ASSUME NEW c \in Children, Run(c)
        PROVE  Grows
    <3>1. CASE Put(<<<<c, 1>>, 0>>)
      <4>1. \A x \in Copies : x # <<<<c, 1>>, 0>> => queue'[x] = queue[x]
        BY <3>1 DEF Put, Types
      <4>2. begun' = begun \cup {<<c, 1>>}
        BY <3>1 DEF Put
      <4>3. \A x \in Copies : queue'[x] > 0 => x[1] \in begun'
        BY <4>1, <4>2 DEF Stored
      <4> QED BY <2>2, <4>2, <4>3, HandedSame DEF Run, OutsideProducer
    <3>2. CASE PutFails
      BY <2>2, <3>2, HandedSame DEF Run, OutsideProducer, PutFails, Stored
    <3> QED BY <2>2, <3>1, <3>2 DEF Run
  <2> QED BY <2>1, <2>2
<1>2. \A m \in begun' : m[2] > 1 => <<m[1], m[2] - 1>> \in Handed'
  BY <1>1 DEF Stored
<1>3. ASSUME NEW w \in Workers PROVE Fed(worker'[w], begun', Handed')
  <2>1. Fed(worker[w], begun, Handed)
    BY DEF Stored
  <2>2. begun \subseteq begun' /\ worker'[w] = worker[w] /\ Handed' = Handed
    BY <1>1
  <2> QED BY <2>1, <2>2 DEF Fed
<1> QED BY <1>1, <1>2, <1>3 DEF Stored

LEMMA StoredReceive ==
  ASSUME IInv, Stored, NEW w \in Workers, Receive(w)
  PROVE  Stored'
<1> USE DEF IInv
<1>1. PICK x \in Copies :
        /\ queue[x] > 0
        /\ queue' = [queue EXCEPT ![x] = @ - 1]
        /\ worker' = [worker EXCEPT ![w] = [NoWork EXCEPT !.pc = "act", !.copy = {x}]]
  BY DEF Receive
<1> DEFINE r == [NoWork EXCEPT !.pc = "act", !.copy = {x}]
<1>2. r.pc = "act" /\ r.copy = {x} /\ r.todo = {} /\ worker' = [worker EXCEPT ![w] = r]
  BY <1>1 DEF NoWork
<1> HIDE DEF r
<1>3. begun' = begun /\ Handed' = Handed
  BY HandedSame DEF Receive
<1>4. \A y \in Copies : queue'[y] > 0 => y[1] \in begun'
  <2>1. \A y \in Copies : queue'[y] > 0 => queue[y] > 0
    BY <1>1 DEF Types
  <2> QED BY <1>3, <2>1 DEF Stored
<1>5. Fed(r, begun', Handed')
  BY <1>1, <1>2, <1>3 DEF Fed, Stored
<1> QED BY <1>2, <1>3, <1>4, <1>5, StoredKept

LEMMA StoredAct ==
  ASSUME ResultsFirst, IInv, Stored, NEW w \in Workers, Act(w)
  PROVE  Stored'
<1> USE DEF IInv
<1>1. UNCHANGED <<queue, begun>> /\ Handed' = Handed /\ worker[w].pc = "act"
  BY HandedSame DEF Act
<1>2. PICK x \in Copies : worker[w].copy = {x} /\ x[1] \in begun
  BY <1>1, HasBegun
<1>3. PICK ok \in BOOLEAN : worker' = [worker EXCEPT ![w] = Todo(w, After(ok, x))]
  BY <1>2 DEF Act
<1> DEFINE r == Todo(w, After(ok, x))
<1>4. r.copy = {x} /\ r.todo = After(ok, x) /\ worker' = [worker EXCEPT ![w] = r]
  BY <1>2, <1>3, AfterIs, TodoIs
<1> HIDE DEF r
<1>5. After(ok, x) \subseteq ToSet(Hooks)
  BY DEF After
<1>6. "pipe" \in After(ok, x) => "results" \in After(ok, x)
  <2> SUFFICES ASSUME "pipe" \in After(ok, x) PROVE "results" \in After(ok, x)
    OBVIOUS
  <2>1. ok
    BY AfterIs
  <2>2. "results" \in ToSet(Hooks)
    BY <1>5, ResultsComeFirst
  <2>3. Acts("results", ok, x[1])
    BY <2>1 DEF Acts
  <2> QED BY <2>2, <2>3 DEF After
<1>7. Fed(r, begun, Handed')
  BY <1>2, <1>4, <1>5, <1>6 DEF Fed
<1> QED BY <1>1, <1>4, <1>7, StoredQuietly

LEMMA StoredWait ==
  ASSUME IInv, Stored, NEW w \in Workers, Wait(w)
  PROVE  Stored'
<1> USE DEF IInv
<1>1. /\ UNCHANGED <<queue, begun>> /\ Handed' = Handed
      /\ worker[w].pc = "hook" /\ "group" \in worker[w].todo
  BY HandedSame DEF Wait, Hook
<1>2. CASE worker' = [worker EXCEPT ![w].pc = "callback"]
  <2> DEFINE r == [worker[w] EXCEPT !.pc = "callback"]
  <2>1. r.copy = worker[w].copy /\ r.todo = worker[w].todo
    BY DEF Types, Job
  <2>2. worker' = [worker EXCEPT ![w] = r]
    BY <1>2
  <2> HIDE DEF r
  <2>3. Fed(worker[w], begun, Handed)
    BY DEF Stored
  <2>4. Fed(r, begun, Handed')
    BY <1>1, <2>1, <2>3 DEF Fed
  <2> QED BY <1>1, <2>2, <2>4, StoredQuietly
<1>3. CASE worker' = [worker EXCEPT ![w] = HookDone(w, "group")]
  <2>1. Fed(HookDone(w, "group"), begun, Handed')
    BY <1>1, LessToDo, FedOn
  <2> QED BY <1>1, <1>3, <2>1, StoredQuietly
<1> QED BY <1>2, <1>3 DEF Wait

LEMMA StoredCallback ==
  ASSUME IInv, Stored, NEW w \in Workers, Callback(w)
  PROVE  Stored'
<1> USE DEF IInv
<1>1. /\ UNCHANGED <<queue, begun>> /\ Handed' = Handed
      /\ worker[w].pc = "callback" /\ worker' = [worker EXCEPT ![w] = HookDone(w, "group")]
  BY HandedSame DEF Callback, PutFails
<1>2. "group" \in worker[w].todo
  BY <1>1 DEF Tasks, Task
<1>3. Fed(HookDone(w, "group"), begun, Handed')
  BY <1>1, <1>2, LessToDo, FedOn
<1> QED BY <1>1, <1>3, StoredQuietly

LEMMA StoredStoreResult ==
  ASSUME IInv, Stored, NEW w \in Workers, StoreResult(w)
  PROVE  Stored'
<1> USE DEF IInv
<1>1. /\ UNCHANGED <<queue, begun>>
      /\ worker[w].pc = "hook" /\ "results" \in worker[w].todo
      /\ worker' = [worker EXCEPT ![w] = HookDone(w, "results")]
  BY DEF StoreResult, Hook
<1>2. PICK x \in Copies : worker[w].copy = {x}
  BY <1>1, HasBegun
<1>3. \/ result' = [result EXCEPT ![x[1]] = "value"] /\ unstored' = unstored
      \/ result' = result /\ unstored' = unstored \cup {x[1]}
  BY <1>2 DEF StoreResult
<1>4. x[1] \in Messages
  BY Shapes
<1>5. /\ Handed \subseteq Handed'
      /\ x[1] \in Handed'
  BY <1>3, <1>4 DEF Types, Handed
<1>6. Fed(HookDone(w, "results"), begun, Handed')
  BY <1>1, <1>2, <1>4, <1>5, LessToDo, FedOn
<1> QED BY <1>1, <1>5, <1>6, StoredQuietly

(* Another copy of a message that has begun, or the message after one whose
   result is there.                                                        *)
LEMMA StoredPut ==
  ASSUME IInv, Stored, NEW w \in Workers, NEW r, worker' = [worker EXCEPT ![w] = r],
         NEW y \in Copies, Put(y), Handed' = Handed, Fed(r, begun, Handed),
         y[1] \in begun \/ <<y[1][1], y[1][2] - 1>> \in Handed
  PROVE  Stored'
<1> USE DEF IInv
<1>1. begun' = begun \cup {y[1]} /\ queue' = [queue EXCEPT ![y] = @ + 1]
  BY DEF Put
<1>2. \A x \in Copies : queue'[x] > 0 => x[1] \in begun'
  <2>1. \A x \in Copies : x # y => queue'[x] = queue[x]
    BY <1>1 DEF Types
  <2> QED BY <1>1, <2>1 DEF Stored
<1>3. Fed(r, begun', Handed')
  BY <1>1 DEF Fed
<1>4. \A m \in begun' \ begun : m[2] > 1 => <<m[1], m[2] - 1>> \in Handed'
  BY <1>1
<1> QED BY <1>1, <1>2, <1>3, <1>4, StoredKept

LEMMA StoredRetry ==
  ASSUME IInv, Stored, NEW w \in Workers, Retry(w)
  PROVE  Stored'
<1> USE DEF IInv
<1> DEFINE d == HookDone(w, "retries")
           f == [HookDone(w, "retries") EXCEPT !.fail = TRUE]
<1>1. /\ Handed' = Handed
      /\ worker[w].pc = "hook" /\ "retries" \in worker[w].todo
  BY HandedSame DEF Retry, Hook
<1>2. PICK x \in Copies : worker[w].copy = {x} /\ x[1] \in begun
  BY <1>1, HasBegun
<1>3. \/ x[2] < MaxRetries /\ Put(<<x[1], x[2] + 1>>) /\ worker' = [worker EXCEPT ![w] = d]
      \/ PutFails /\ worker' = [worker EXCEPT ![w] = d]
      \/ worker' = [worker EXCEPT ![w] = f] /\ UNCHANGED <<queue, begun, faults>>
  BY <1>2 DEF Retry
<1>4. d \in Job /\ Fed(d, begun, Handed')
  BY <1>1, LessToDo, FedOn
<1> HIDE DEF d
<1>5. CASE x[2] < MaxRetries /\ Put(<<x[1], x[2] + 1>>) /\ worker' = [worker EXCEPT ![w] = d]
  <2>1. x[1] \in Messages /\ x[2] + 1 \in 0 .. MaxRetries
    <3>1. x[1] \in Messages /\ x[2] \in 0 .. MaxRetries /\ MaxRetries \in Nat
      BY Shapes, CompositionAssumption
    <3> QED BY <1>5, <3>1
  <2> DEFINE y == <<x[1], x[2] + 1>>
  <2>2. y \in Copies /\ y[1] \in begun
    BY <1>2, <2>1, Shapes
  <2>3. Put(y)
    BY <1>5
  <2> HIDE DEF y
  <2> QED BY <1>1, <1>4, <1>5, <2>2, <2>3, StoredPut
<1>6. CASE PutFails /\ worker' = [worker EXCEPT ![w] = d]
  BY <1>1, <1>4, <1>6, StoredQuietly DEF PutFails
<1>7. CASE worker' = [worker EXCEPT ![w] = f] /\ UNCHANGED <<queue, begun, faults>>
  <2>1. f.pc = d.pc /\ f.copy = d.copy /\ f.todo = d.todo
    BY <1>4 DEF Job, d
  <2> HIDE DEF f
  <2>2. Fed(f, begun, Handed')
    BY <1>4, <2>1 DEF Fed
  <2> QED BY <1>1, <1>7, <2>2, StoredQuietly
<1> QED BY <1>3, <1>5, <1>6, <1>7

(* Only once the result of the message has been stored.                    *)
LEMMA StoredPipe ==
  ASSUME ResultsFirst, IInv, Stored, NEW w \in Workers, Pipe(w)
  PROVE  Stored'
<1> USE DEF IInv
<1> DEFINE d == HookDone(w, "pipe")
<1>1. /\ Handed' = Handed
      /\ worker[w].pc = "hook" /\ "pipe" \in worker[w].todo
      /\ \A g \in worker[w].todo : Rank["pipe"] <= Rank[g]
      /\ worker' = [worker EXCEPT ![w] = d]
  BY HandedSame DEF Pipe, Hook
<1>2. PICK x \in Copies : /\ worker[w].copy = {x} /\ x[1] \in begun
                          /\ worker[w].todo \subseteq ToSet(Hooks)
  BY <1>1, HasBegun
<1>3. Put(<<Following(x[1]), 0>>) \/ PutFails
  BY <1>2 DEF Pipe
<1>4. Fed(d, begun, Handed')
  BY <1>1, LessToDo, FedOn
<1> HIDE DEF d
<1>5. "results" \notin worker[w].todo
  BY <1>1, <1>2, ResultsComeFirst
<1>6. x[1] \in Handed
  BY <1>1, <1>2, <1>5 DEF Stored, Fed
<1>7. CASE Put(<<Following(x[1]), 0>>)
  <2>1. /\ x[1][1] \in Children /\ x[1][2] \in 1 .. Length[x[1][1]] /\ Length[x[1][1]] \in Nat
        /\ x[1] = <<x[1][1], x[1][2]>>
    BY Shapes
  <2>2. ~IsLast(x[1])
    BY <1>1, <1>2, HookHas DEF Spending
  <2>3. x[1][2] + 1 \in 1 .. Length[x[1][1]]
    BY <2>1, <2>2 DEF IsLast
  <2> DEFINE y == <<Following(x[1]), 0>>
  <2>4. Following(x[1]) \in Messages /\ 0 \in 0 .. MaxRetries
    BY <2>1, <2>3, Shapes, CompositionAssumption DEF Following
  <2>5. y \in Copies
    BY <2>4, Shapes
  <2>6. <<y[1][1], y[1][2] - 1>> = x[1]
    BY <2>1 DEF Following
  <2>7. Put(y)
    BY <1>7
  <2> HIDE DEF y
  <2> QED BY <1>1, <1>4, <1>6, <2>5, <2>6, <2>7, StoredPut
<1>8. CASE PutFails
  BY <1>1, <1>4, <1>8, StoredQuietly DEF PutFails
<1> QED BY <1>3, <1>7, <1>8

LEMMA StoredEnds ==
  ASSUME IInv, Stored, NEW w \in Workers, Post(w) \/ StoreException(w)
  PROVE  Stored'
<1> USE DEF IInv
<1>1. /\ UNCHANGED <<queue, begun>> /\ worker[w].pc # "idle"
      /\ worker[w].pc \notin {"hook", "callback"}
  BY DEF Post, StoreException
<1>2. PICK x \in Copies : /\ worker[w].copy = {x} /\ x[1] \in begun
                          /\ worker[w].todo \subseteq ToSet(Hooks)
  BY <1>1, HasBegun
<1>3. Handed \subseteq Handed'
  <2>1. /\ unstored' = unstored
        /\ result' = result \/ result' = [result EXCEPT ![x[1]] = "exception"]
    BY <1>2 DEF Post, StoreException
  <2> QED BY <2>1 DEF Types, Handed
<1>4. \/ worker' = [worker EXCEPT ![w] = NoWork]
      \/ worker' = [worker EXCEPT ![w] = [worker[w] EXCEPT !.pc = "nacked"]]
  BY DEF Post, StoreException
<1>5. CASE worker' = [worker EXCEPT ![w] = NoWork]
  <2>1. Fed(NoWork, begun, Handed')
    BY DEF Fed, NoWork
  <2> QED BY <1>1, <1>3, <1>5, <2>1, StoredQuietly
<1>6. CASE worker' = [worker EXCEPT ![w] = [worker[w] EXCEPT !.pc = "nacked"]]
  <2> DEFINE r == [worker[w] EXCEPT !.pc = "nacked"]
  <2>1. r.pc = "nacked" /\ r.copy = {x} /\ r.todo = worker[w].todo
    BY <1>2 DEF Types, Job
  <2>2. worker' = [worker EXCEPT ![w] = r]
    BY <1>6
  <2> HIDE DEF r
  <2>3. Fed(r, begun, Handed')
    BY <1>2, <2>1 DEF Fed
  <2> QED BY <1>1, <1>3, <2>2, <2>3, StoredQuietly
<1> QED BY <1>4, <1>5, <1>6

LEMMA StoredFaults ==
  ASSUME IInv, Stored, NEW w \in Workers, Interrupt(w) \/ Crash(w)
  PROVE  Stored'
<1> USE DEF IInv
<1>1. begun' = begun /\ Handed' = Handed /\ worker[w].pc # "idle"
  BY HandedSame DEF Interrupt, Crash
<1>2. PICK x \in Copies : worker[w].copy = {x} /\ x[1] \in begun
  BY <1>1, HasBegun
<1>3. CASE Interrupt(w)
  <2> DEFINE r == Todo(w, After(FALSE, x))
  <2>1. r.copy = {x} /\ r.todo = After(FALSE, x) /\ "pipe" \notin After(FALSE, x)
    <3>1. /\ After(FALSE, x) \in SUBSET HookNames
          /\ After(FALSE, x) \subseteq {"retries"}
      BY AfterIs
    <3>2. r.copy = {x} /\ r.todo = After(FALSE, x)
      <4> DEFINE hooks == After(FALSE, x)
      <4>1. Types /\ hooks \in SUBSET HookNames
        BY <3>1
      <4> HIDE DEF hooks
      <4>2. Todo(w, hooks).copy = worker[w].copy /\ Todo(w, hooks).todo = hooks
        BY ONLY w \in Workers, <4>1, TodoIs
      <4> QED BY <1>2, <4>2 DEF hooks
    <3> QED BY <3>1, <3>2
  <2>2. After(FALSE, x) \subseteq ToSet(Hooks)
    BY DEF After
  <2>3. worker' = [worker EXCEPT ![w] = r] /\ queue' = queue
    BY <1>2, <1>3 DEF Interrupt
  <2> HIDE DEF r
  <2>4. Fed(r, begun, Handed')
    BY <1>2, <2>1, <2>2 DEF Fed
  <2> QED BY <1>1, <2>3, <2>4, StoredQuietly
<1>4. CASE Crash(w)
  <2>1. Fed(NoWork, begun', Handed') /\ worker' = [worker EXCEPT ![w] = NoWork]
    BY <1>4 DEF Fed, NoWork, Crash
  <2>2. \A y \in Copies : queue'[y] > 0 => y[1] \in begun'
    <3>1. \A y \in Copies : y # x => queue'[y] = queue[y]
      BY <1>2, <1>4 DEF Crash, Types
    <3> QED BY <1>1, <1>2, <3>1 DEF Stored
  <2> QED BY <1>1, <2>1, <2>2, StoredKept
<1> QED BY <1>3, <1>4

(* A message of a pipeline that was enqueued after another, which it takes
   the result of as an argument (pipelines.py:50-58), finds that result in
   the backend unless storing it raised, whatever is retried, interrupted or
   processed again: the Results middleware runs before Pipelines does.     *)
THEOREM ResultsAreThere ==
  ASSUME ResultsFirst
  PROVE  Spec => []ResultsBeforeNext
<1>1. ASSUME IInv, Stored, [Next]_vars PROVE Stored'
  <2>1. CASE CreateBarrier \/ \E c \in Children : Run(c)
    BY <1>1, <2>1, StoredGroup
  <2>2. ASSUME NEW w \in Workers, WorkerStep(w) PROVE Stored'
    BY <1>1, <2>2, StoredReceive, StoredAct, StoredWait, StoredCallback, StoredStoreResult,
       StoredRetry, StoredPipe, StoredEnds DEF WorkerStep
  <2>3. ASSUME NEW w \in Workers, Interrupt(w) \/ Crash(w) PROVE Stored'
    BY <1>1, <2>3, StoredFaults
  <2>4. CASE UNCHANGED vars
    BY <1>1, <2>4, HandedSame DEF vars, Stored, Fed
  <2> QED BY <1>1, <2>1, <2>2, <2>3, <2>4 DEF Next
<1>2. Stored => ResultsBeforeNext
  BY DEF Stored, Handed, ResultsBeforeNext
<1> QED BY <1>1, <1>2, StoredInit, Invariant, PTL DEF Spec
=============================================================================
