-------------------------- MODULE InterruptsProofs --------------------------
(***************************************************************************)
(* Proofs about Interrupts, for any threads, messages and middleware.      *)
(***************************************************************************)
EXTENDS Interrupts, FiniteSetTheorems, TLAPS

Active == {"taken", "before", "actor", "start", "await", "cancel", "cleanup", "after",
           "post"}
InCall(r) == r.pc \in {"actor", "start", "await", "cancel", "cleanup"}
Places == DOMAIN setup.middleware
Uses(hook) == \E i \in Places : setup.middleware[i] = hook
Left(r, hook) == \E i \in r.todo : setup.middleware[i] = hook

(* A thread in state r went through the before half of a hook, and maybe not
   through the after half.                                                 *)
Entered(r, hook) ==
  \/ r.pc = "before" /\ Uses(hook) /\ ~Left(r, hook)
  \/ InCall(r) /\ Uses(hook)
  \/ r.pc = "after" /\ Left(r, hook)
  \/ r.pc = "post" /\ r.why = "interrupt"
  \/ r.pc = "dead"
Open(hook) == {t \in Threads : Entered(thread[t], hook)}

(* How often it may have gone through the after half: the hooks that follow
   a success begin again when an interrupt makes it a failure.             *)
Exits(r) ==
  IF r.pc \in {"post", "dead"} THEN 2
  ELSE IF r.pc = "after"
  THEN (IF r.why = "exception" THEN 1 ELSE 0) + (IF Left(r, "prometheus") THEN 0 ELSE 1)
  ELSE 0
Spent == {e \in Ids \X {1, 2} :
            \/ message[e[1]].settled # "no"
            \/ \E t \in Threads : thread[t].at = e[1] /\ e[2] <= Exits(thread[t])}

Quiet == {"none", "over", "dropped"}

(* A thread in state r with its message m, whose coroutine is in state c.  *)
Task(r, m, c) ==
  /\ m.taken
  /\ r.pc \in Active => m.settled = "no"
  /\ r.pc \in {"taken", "before", "actor"} => c = "none"
  /\ r.pc \in {"after", "post"} => c \in Quiet \/ m.gaveUp
  /\ r.pc = "after" =>
       /\ r.why \in {"result", "skip", "exception"}
       /\ r.why = "result" => m.succeeded
       /\ r.why = "skip" => m.failed
       /\ r.why = "exception" /\ Uses("retries") =>
            m.succeeded \/ m.retried \/ m.failed \/ Left(r, "retries")
  /\ r.pc = "post" /\ Uses("retries") =>
       m.succeeded \/ m.retried \/ m.failed \/ m.cut

Coroutine == [state : {"none", "queued", "running", "cleanup", "over", "dropped"},
              cancel : BOOLEAN]
Types ==
  /\ setup \in Setups
  /\ thread \in [Threads -> Thread]
  /\ pending \subseteq Threads /\ deadlines \subseteq Threads
  /\ killing \subseteq Threads /\ notifications \subseteq Threads
  /\ inprogress \in Int
  /\ message \in [Ids -> Message]
  /\ coroutine \in [Ids -> Coroutine]
  /\ main \in Main
Tasks ==
  \A t \in Threads :
    /\ thread[t].pc \in Active => thread[t].at \in Ids
    /\ thread[t].pc \in {"idle", "stopped"} => thread[t].at = None
    /\ thread[t].todo \subseteq Places
    /\ thread[t].at \in Ids =>
         Task(thread[t], message[thread[t].at], coroutine[thread[t].at].state)
Apart ==
  \A t, u \in Threads : thread[t].at = thread[u].at /\ thread[t].at \in Ids => t = u
Waiting ==
  \A id \in Ids : ~message[id].taken =>
    message[id].settled = "no" /\ coroutine[id].state = "none"
Bounds ==
  /\ deadlines \subseteq Open("time") /\ notifications \subseteq Open("shutdown")
  /\ inprogress <= Cardinality(Open("prometheus"))
  /\ 0 - Cardinality(Spent) <= inprogress

IInv == Types /\ Tasks /\ Apart /\ Waiting /\ Bounds

-----------------------------------------------------------------------------
(* The counts that bound the gauge.                                        *)

Flag(r) == IF Entered(r, "prometheus") THEN 1 ELSE 0

LEMMA OpenFinite ==
  \A hook : /\ Open(hook) \subseteq Threads /\ IsFiniteSet(Open(hook))
            /\ Cardinality(Open(hook)) \in Nat
            /\ Cardinality(Open(hook)) <= Cardinality(Threads)
<1> SUFFICES ASSUME NEW hook
             PROVE  /\ Open(hook) \subseteq Threads /\ IsFiniteSet(Open(hook))
                    /\ Cardinality(Open(hook)) \in Nat
                    /\ Cardinality(Open(hook)) <= Cardinality(Threads)
  OBVIOUS
<1>1. Open(hook) \subseteq Threads /\ IsFiniteSet(Threads)
  BY InterruptsAssumption DEF Open
<1> QED BY <1>1, FS_Subset, FS_CardinalityType

LEMMA SpentFinite ==
  /\ IsFiniteSet(Spent) /\ Cardinality(Spent) \in Nat
  /\ Cardinality(Spent) <= Cardinality(Ids) * 2
<1>1. IsFiniteSet(Ids) /\ IsFiniteSet({1, 2}) /\ Cardinality({1, 2}) = 2
  <2>1. {1, 2} = 1 .. 2
    OBVIOUS
  <2>2. IsFiniteSet(1 .. 2) /\ Cardinality(1 .. 2) = 2
    <3>1. 1 \in Int /\ 2 \in Int /\ ~(1 > 2) /\ 2 - 1 + 1 = 2
      OBVIOUS
    <3>2. IsFiniteSet(1 .. 2)
          /\ Cardinality(1 .. 2) = IF 1 > 2 THEN 0 ELSE 2 - 1 + 1
      BY <3>1, FS_Interval, Zenon
    <3> QED BY <3>1, <3>2
  <2>3. IsFiniteSet({1, 2}) /\ Cardinality({1, 2}) = 2
    BY <2>1, <2>2, Zenon
  <2> QED BY <2>3, InterruptsAssumption
<1>2. IsFiniteSet(Ids \X {1, 2})
      /\ Cardinality(Ids \X {1, 2}) = Cardinality(Ids) * Cardinality({1, 2})
  BY <1>1, FS_Product
<1>3. Spent \subseteq Ids \X {1, 2}
  BY DEF Spent
<1>4. IsFiniteSet(Spent) /\ Cardinality(Spent) <= Cardinality(Ids \X {1, 2})
  BY <1>2, <1>3, FS_Subset
<1> QED BY <1>1, <1>2, <1>4, FS_CardinalityType

(* A step of one thread makes a difference of one.                         *)
LEMMA OpenChanges ==
  ASSUME Types, NEW t \in Threads, NEW r, UNCHANGED setup,
         thread' = [thread EXCEPT ![t] = r], NEW hook
  PROVE  /\ Open(hook)' \ {t} = Open(hook) \ {t}
         /\ t \in Open(hook)' <=> Entered(r, hook)
         /\ t \in Open(hook) <=> Entered(thread[t], hook)
<1>1. \A u \in Threads : thread'[u] = IF u = t THEN r ELSE thread[u]
  BY DEF Types
<1>2. \A u \in Threads : u \in Open(hook)' <=> Entered(thread'[u], hook)
  BY DEF Open, Entered, InCall, Uses, Left, Places
<1> QED BY <1>1, <1>2 DEF Open

LEMMA OpenCounts ==
  ASSUME Types, NEW t \in Threads, NEW r, UNCHANGED setup,
         thread' = [thread EXCEPT ![t] = r]
  PROVE  /\ Cardinality(Open("prometheus"))' \in Nat
         /\ Cardinality(Open("prometheus"))' + Flag(thread[t])
              = Cardinality(Open("prometheus")) + Flag(r)
<1> DEFINE old == Open("prometheus")
           new == Open("prometheus")'
           rest == old \ {t}
<1>1. /\ new \ {t} = rest
      /\ t \in new <=> Entered(r, "prometheus")
      /\ t \in old <=> Entered(thread[t], "prometheus")
  BY OpenChanges
<1>2. IsFiniteSet(old) /\ Cardinality(old) \in Nat
  BY OpenFinite
<1>3. new \subseteq Threads
  BY DEF Open
<1>4. IsFiniteSet(new) /\ Cardinality(new) \in Nat
  BY <1>3, InterruptsAssumption, FS_Subset, FS_CardinalityType
<1> HIDE DEF old, new
<1>5. Cardinality(rest) = IF t \in old THEN Cardinality(old) - 1 ELSE Cardinality(old)
  BY <1>2, FS_RemoveElement, Zenon
<1>6. Cardinality(new \ {t}) = IF t \in new THEN Cardinality(new) - 1 ELSE Cardinality(new)
  BY <1>4, FS_RemoveElement, Zenon
<1> HIDE DEF rest
<1>7. Cardinality(new \ {t}) = Cardinality(rest)
  BY <1>1, Zenon
<1>8. Cardinality(new) + Flag(thread[t]) = Cardinality(old) + Flag(r)
  BY <1>1, <1>2, <1>4, <1>5, <1>6, <1>7 DEF Flag
<1> QED BY <1>4, <1>8 DEF new, old

LEMMA ExitsType == \A r : Exits(r) \in {0, 1, 2}
BY DEF Exits

LEMMA PairsAdded ==
  ASSUME NEW S, IsFiniteSet(S), NEW id, <<id, 1>> \notin S, <<id, 2>> \notin S,
         NEW n \in {0, 1, 2}
  PROVE  Cardinality(S \cup {e \in {id} \X {1, 2} : e[2] <= n}) = Cardinality(S) + n
<1> DEFINE T(k) == S \cup {e \in {id} \X {1, 2} : e[2] <= k}
<1>1. T(0) = S
  OBVIOUS
<1>2. T(1) = S \cup {<<id, 1>>}
  OBVIOUS
<1>3. T(2) = T(1) \cup {<<id, 2>>}
  OBVIOUS
<1>4. IsFiniteSet(T(1)) /\ Cardinality(T(1)) = Cardinality(S) + 1
  BY <1>2, FS_AddElement, Zenon
<1>5. <<id, 2>> \notin T(1)
  OBVIOUS
<1> HIDE DEF T
<1>6. Cardinality(T(2)) = Cardinality(T(1)) + 1
  BY <1>3, <1>4, <1>5, FS_AddElement, Zenon
<1>7. Cardinality(S) \in Nat
  BY FS_CardinalityType
<1>8. Cardinality(T(0)) = Cardinality(S) + 0 /\ Cardinality(T(1)) = Cardinality(S) + 1
      /\ Cardinality(T(2)) = Cardinality(S) + 2
  BY <1>1, <1>4, <1>6, <1>7
<1>9. CASE n = 0
  BY <1>8, <1>9 DEF T
<1>10. CASE n = 1
  BY <1>8, <1>10 DEF T
<1>11. CASE n = 2
  BY <1>8, <1>11 DEF T
<1> QED BY <1>9, <1>10, <1>11

LEMMA SpentCounts ==
  ASSUME Types, Apart, NEW t \in Threads, NEW r, UNCHANGED setup,
         thread' = [thread EXCEPT ![t] = r],
         r.at = thread[t].at, thread[t].at \in Ids,
         message[r.at].settled = "no",
         \A id \in Ids : message'[id].settled = message[id].settled
  PROVE  /\ Cardinality(Spent)' \in Nat
         /\ Cardinality(Spent)' + Exits(thread[t]) = Cardinality(Spent) + Exits(r)
<1> DEFINE id == thread[t].at
           rest == {e \in Spent : e[1] # id}
           added(s) == {e \in {id} \X {1, 2} : e[2] <= Exits(s)}
<1>1. \A u \in Threads : thread'[u] = IF u = t THEN r ELSE thread[u]
  BY DEF Types
<1>2. \A s : Exits(s)' = Exits(s)
  BY DEF Exits, Left
<1>3. Spent = rest \cup added(thread[t])
  BY DEF Spent, Apart
<1>4. Spent' = {e \in Ids \X {1, 2} :
                  \/ message'[e[1]].settled # "no"
                  \/ \E u \in Threads : thread'[u].at = e[1] /\ e[2] <= Exits(thread'[u])}
  BY DEF Spent, Exits, Left
<1>5. \A u \in Threads \ {t} : thread[u].at # id
  BY DEF Apart
<1>6. Spent' = rest \cup added(r)
  BY <1>1, <1>4, <1>5 DEF Spent
<1>7. IsFiniteSet(rest) /\ Cardinality(rest) \in Nat
  BY SpentFinite, FS_Subset, FS_CardinalityType
<1>8. <<id, 1>> \notin rest /\ <<id, 2>> \notin rest
  OBVIOUS
<1> HIDE DEF rest, id
<1>9. \A s : Cardinality(rest \cup added(s)) = Cardinality(rest) + Exits(s)
  BY <1>7, <1>8, ExitsType, PairsAdded, Zenon
<1> HIDE DEF added
<1>10. Cardinality(Spent) = Cardinality(rest) + Exits(thread[t])
       /\ Cardinality(Spent') = Cardinality(rest) + Exits(r)
  BY <1>3, <1>6, <1>9, Zenon
<1>11. Exits(r) \in Nat /\ Exits(thread[t]) \in Nat
  BY ExitsType
<1> QED BY <1>7, <1>10, <1>11

-----------------------------------------------------------------------------
(* A step that a thread takes with its message.                            *)

LEMMA TaskStep ==
  ASSUME IInv, NEW t \in Threads, NEW r \in Thread, NEW m \in Message, NEW c \in Coroutine,
         UNCHANGED setup, thread[t].pc \in Active, r.pc \in Active \cup {"dead"},
         r.at = thread[t].at, r.todo \subseteq Places,
         thread' = [thread EXCEPT ![t] = r],
         message' = [message EXCEPT ![thread[t].at] = m],
         coroutine' = [coroutine EXCEPT ![thread[t].at] = c],
         m.settled = message[thread[t].at].settled,
         Task(r, m, c.state),
         pending' \subseteq Threads, killing' \subseteq Threads, main' \in Main,
         deadlines' \subseteq Threads, deadlines' \ {t} \subseteq deadlines,
         t \in deadlines' => Entered(r, "time"),
         notifications' \subseteq Threads, notifications' \ {t} \subseteq notifications,
         t \in notifications' => Entered(r, "shutdown"),
         inprogress' \in Int,
         inprogress' + Flag(thread[t]) <= inprogress + Flag(r),
         inprogress' + Exits(r) >= inprogress + Exits(thread[t])
  PROVE  IInv' /\ \A id \in Ids : ~Settles(id)
<1> DEFINE at == thread[t].at
<1>1. /\ Types /\ Tasks /\ Apart /\ Waiting /\ Bounds
      /\ at \in Ids /\ r.at = at
      /\ Task(thread[t], message[at], coroutine[at].state)
      /\ message[at].taken /\ message[at].settled = "no" /\ m.taken
      /\ r.pc \notin {"idle", "stopped"}
  BY DEF IInv, Tasks, Task, Active
<1>2. /\ \A u \in Threads : thread'[u] = IF u = t THEN r ELSE thread[u]
      /\ \A id \in Ids : message'[id] = IF id = at THEN m ELSE message[id]
      /\ \A id \in Ids : coroutine'[id] = IF id = at THEN c ELSE coroutine[id]
  BY <1>1 DEF Types
<1> HIDE DEF at
<1>3. Types'
  <2>1. /\ thread' \in [Threads -> Thread] /\ message' \in [Ids -> Message]
        /\ coroutine' \in [Ids -> Coroutine]
    BY <1>1 DEF Types, at
  <2> QED BY <1>1, <2>1 DEF Types
<1>4. Tasks'
  <2>1. \A s, n, b : Task(s, n, b)' <=> Task(s, n, b)
    BY DEF Task, Uses, Left, Places
  <2>2. ASSUME NEW u \in Threads
        PROVE  /\ thread'[u].pc \in Active => thread'[u].at \in Ids
               /\ thread'[u].pc \in {"idle", "stopped"} => thread'[u].at = None
               /\ thread'[u].todo \subseteq Places
               /\ thread'[u].at \in Ids =>
                    Task(thread'[u], message'[thread'[u].at], coroutine'[thread'[u].at].state)
    <3>1. CASE u = t
      BY <1>1, <1>2, <3>1
    <3>2. CASE u # t
      <4>1. thread'[u] = thread[u]
        BY <1>2, <3>2
      <4>2. thread[u].at \in Ids => thread[u].at # at
        BY <1>1, <3>2 DEF Apart, at
      <4> QED BY <1>1, <1>2, <4>1, <4>2 DEF Tasks
    <3> QED BY <3>1, <3>2
  <2>3. ASSUME NEW u \in Threads
        PROVE  thread'[u].at \in Ids =>
                 Task(thread[u], message[thread[u].at], coroutine[thread[u].at].state)'
    BY <2>1, <2>2 DEF Task, Uses, Left, Places
  <2> QED BY <2>2, <2>3 DEF Tasks, Places
<1>5. Apart'
  BY <1>1, <1>2 DEF Apart, at
<1>6. Waiting'
  BY <1>1, <1>2 DEF Waiting
<1>7. \A id \in Ids : message'[id].settled = message[id].settled
  BY <1>1, <1>2 DEF at
<1>8. Bounds'
  <2>1. \A hook : Open(hook)' \ {t} = Open(hook) \ {t}
    BY <1>1, OpenChanges
  <2>2. \A hook : t \in Open(hook)' <=> Entered(r, hook)
    BY <1>1, OpenChanges
  <2>3. deadlines' \subseteq Open("time")' /\ notifications' \subseteq Open("shutdown")'
    BY <1>1, <2>1, <2>2 DEF Bounds
  <2>4. /\ Cardinality(Open("prometheus"))' \in Nat
        /\ Cardinality(Open("prometheus"))' + Flag(thread[t])
             = Cardinality(Open("prometheus")) + Flag(r)
    BY <1>1, OpenCounts
  <2>5. /\ Cardinality(Spent)' \in Nat
        /\ Cardinality(Spent)' + Exits(thread[t]) = Cardinality(Spent) + Exits(r)
    BY <1>1, <1>7, SpentCounts DEF at
  <2>6. /\ Cardinality(Open("prometheus")) \in Nat /\ Cardinality(Spent) \in Nat
        /\ Exits(r) \in Nat /\ Exits(thread[t]) \in Nat
        /\ Flag(r) \in Nat /\ Flag(thread[t]) \in Nat /\ inprogress \in Int
    BY <1>1, OpenFinite, SpentFinite, ExitsType DEF Flag, Types
  <2>7. inprogress <= Cardinality(Open("prometheus")) /\ 0 - Cardinality(Spent) <= inprogress
    BY <1>1 DEF Bounds
  <2>8. inprogress' <= Cardinality(Open("prometheus"))'
        /\ 0 - Cardinality(Spent)' <= inprogress'
    BY <2>4, <2>5, <2>6, <2>7
  <2> QED BY <2>3, <2>8 DEF Bounds
<1> QED BY <1>3, <1>4, <1>5, <1>6, <1>7, <1>8 DEF IInv, Settles

-----------------------------------------------------------------------------
(* Records of threads and of messages.                                     *)

LEMMA Placed ==
  ASSUME Types
  PROVE  /\ Places \subseteq Nat /\ \A i \in Places : setup.middleware[i] \in Hooks
         /\ \A i, k \in Places : setup.middleware[i] = setup.middleware[k] => i = k
<1>1. setup.middleware \in Seq(Hooks) /\ IsInjective(setup.middleware)
  BY InterruptsAssumption DEF Types, Setup
<1> QED BY <1>1 DEF Places, IsInjective

LEMMA Held ==
  ASSUME IInv, NEW t \in Threads, thread[t].pc \in Active
  PROVE  /\ Types /\ thread[t] \in Thread /\ thread[t].at \in Ids
         /\ message[thread[t].at] \in Message /\ coroutine[thread[t].at] \in Coroutine
         /\ thread[t].todo \subseteq Places
         /\ Task(thread[t], message[thread[t].at], coroutine[thread[t].at].state)
         /\ t \in deadlines => Entered(thread[t], "time")
         /\ t \in notifications => Entered(thread[t], "shutdown")
         /\ message = [message EXCEPT ![thread[t].at] = message[thread[t].at]]
         /\ coroutine = [coroutine EXCEPT ![thread[t].at] = coroutine[thread[t].at]]
         /\ inprogress \in Int
         /\ deadlines \subseteq Threads /\ notifications \subseteq Threads
         /\ pending \subseteq Threads /\ killing \subseteq Threads /\ main \in Main
<1>1. Types /\ Tasks /\ Bounds
  BY DEF IInv
<1>2. thread[t].at \in Ids
  BY <1>1 DEF Tasks
<1>3. message = [message EXCEPT ![thread[t].at] = message[thread[t].at]]
  BY <1>1, <1>2 DEF Types
<1>4. coroutine = [coroutine EXCEPT ![thread[t].at] = coroutine[thread[t].at]]
  BY <1>1, <1>2 DEF Types
<1> QED BY <1>1, <1>2, <1>3, <1>4 DEF Types, Tasks, Bounds, Open

LEMMA WithPc ==
  ASSUME NEW r \in Thread,
         NEW pc \in {"idle", "taken", "before", "actor", "start", "await", "cancel",
                     "cleanup", "after", "post", "stopped", "dead"}
  PROVE  /\ [r EXCEPT !.pc = pc] \in Thread /\ [r EXCEPT !.pc = pc].pc = pc
         /\ [r EXCEPT !.pc = pc].at = r.at /\ [r EXCEPT !.pc = pc].todo = r.todo
         /\ [r EXCEPT !.pc = pc].why = r.why
BY DEF Thread

LEMMA WithTodo ==
  ASSUME NEW r \in Thread, NEW todo \in SUBSET Nat
  PROVE  /\ [r EXCEPT !.todo = todo] \in Thread /\ [r EXCEPT !.todo = todo].pc = r.pc
         /\ [r EXCEPT !.todo = todo].at = r.at /\ [r EXCEPT !.todo = todo].todo = todo
         /\ [r EXCEPT !.todo = todo].why = r.why
BY DEF Thread

LEMMA AfterRecord ==
  ASSUME Types, NEW t \in Threads, NEW why \in {"result", "exception", "skip"}
  PROVE  /\ After(t, why) \in Thread /\ After(t, why).pc = "after"
         /\ After(t, why).at = thread[t].at /\ After(t, why).why = why
         /\ After(t, why).todo \subseteq Places
         /\ \A hook \in {"time", "shutdown", "prometheus"} :
              Left(After(t, why), hook) <=> Uses(hook)
         /\ why = "exception" => (Left(After(t, why), "retries") <=> Uses("retries"))
<1> DEFINE skipped == {"age"} \cup IF why = "exception" THEN {} ELSE {"retries"}
           todo == Without(skipped)
           r == [thread[t] EXCEPT !.pc = "after", !.why = why, !.todo = todo]
<1>1. todo \subseteq Places /\ Places \subseteq Nat /\ thread[t] \in Thread
  BY Placed DEF Without, Places, Types
<1>2. \A hook : hook \notin skipped =>
        ((\E i \in todo : setup.middleware[i] = hook) <=> Uses(hook))
  BY DEF Without, Uses, Places
<1>3. "time" \notin skipped /\ "shutdown" \notin skipped /\ "prometheus" \notin skipped
      /\ (why = "exception" => "retries" \notin skipped)
  OBVIOUS
<1>4. After(t, why) = r
  BY DEF After
<1> HIDE DEF todo, skipped
<1>5. r \in Thread /\ r.pc = "after" /\ r.at = thread[t].at /\ r.why = why /\ r.todo = todo
  BY <1>1 DEF Thread
<1> HIDE DEF r
<1> QED BY <1>1, <1>2, <1>3, <1>4, <1>5 DEF Left

LEMMA AfterStep ==
  ASSUME IInv, NEW t \in Threads,
         NEW why \in {"result", "exception", "skip"},
         \/ thread[t].pc = "before" \/ InCall(thread[t])
         \/ thread[t].pc = "after" /\ thread[t].why = "result" /\ why = "exception",
         NEW m \in Message, NEW c \in Coroutine,
         UNCHANGED <<setup, killing, notifications, inprogress, main>>,
         deadlines' \subseteq deadlines, pending' \subseteq Threads,
         thread' = [thread EXCEPT ![t] = After(t, why)],
         message' = [message EXCEPT ![thread[t].at] = m],
         coroutine' = [coroutine EXCEPT ![thread[t].at] = c],
         m.taken, m.settled = message[thread[t].at].settled,
         c.state \in Quiet \/ m.gaveUp,
         why = "result" => m.succeeded, why = "skip" => m.failed
  PROVE  IInv' /\ \A id \in Ids : ~Settles(id)
<1> DEFINE r == After(t, why)
           old == thread[t]
<1>1. old.pc \in Active
  BY DEF Active, InCall
<1>2. /\ r \in Thread /\ r.pc = "after" /\ r.at = old.at /\ r.why = why
      /\ r.todo \subseteq Places
      /\ \A hook \in {"time", "shutdown", "prometheus"} : Left(r, hook) <=> Uses(hook)
      /\ why = "exception" => (Left(r, "retries") <=> Uses("retries"))
  BY AfterRecord DEF IInv
<1>3. /\ old \in Thread /\ old.todo \subseteq Places
      /\ Task(old, message[old.at], coroutine[old.at].state)
  BY <1>1, Held
<1> HIDE DEF r
<1>4. \A hook : Left(old, hook) => Uses(hook)
  BY <1>3 DEF Left, Uses
<1>5. \A hook \in {"time", "shutdown", "prometheus"} : Entered(old, hook) => Entered(r, hook)
  BY <1>2, <1>4 DEF Entered, InCall
<1>6. Flag(old) <= Flag(r)
  BY <1>5 DEF Flag
<1>7. Exits(old) <= Exits(r)
  BY <1>2, <1>4 DEF Exits, InCall
<1>8. Task(r, m, c.state)
  BY <1>1, <1>2, <1>3 DEF Task
<1>9. inprogress \in Int /\ Exits(old) \in Int /\ Exits(r) \in Int
      /\ Flag(old) \in Int /\ Flag(r) \in Int
  BY <1>1, Held, ExitsType DEF Flag
<1>10. /\ inprogress' + Flag(old) <= inprogress + Flag(r)
       /\ inprogress' + Exits(r) >= inprogress + Exits(old)
  BY <1>6, <1>7, <1>9
<1>11. /\ thread' = [thread EXCEPT ![t] = r] /\ r.pc \in Active
  BY <1>2 DEF r, Active
<1>12. /\ deadlines' \subseteq Threads /\ deadlines' \ {t} \subseteq deadlines
       /\ t \in deadlines' => Entered(r, "time")
       /\ notifications' \subseteq Threads /\ notifications' \ {t} \subseteq notifications
       /\ t \in notifications' => Entered(r, "shutdown")
       /\ killing' \subseteq Threads /\ main' \in Main /\ inprogress' \in Int
  BY <1>1, <1>5, Held
<1> QED BY <1>1, <1>2, <1>8, <1>10, <1>11, <1>12, TaskStep

(* A step that opens or closes no hook.                                    *)
LEMMA StayStep ==
  ASSUME IInv, NEW t \in Threads, NEW r \in Thread, NEW m \in Message, NEW c \in Coroutine,
         UNCHANGED <<setup, killing, notifications, inprogress, main>>,
         deadlines' \subseteq deadlines, pending' \subseteq Threads,
         thread[t].pc \in Active, r.pc \in Active \cup {"dead"},
         r.at = thread[t].at, r.todo \subseteq Places,
         thread' = [thread EXCEPT ![t] = r],
         message' = [message EXCEPT ![thread[t].at] = m],
         coroutine' = [coroutine EXCEPT ![thread[t].at] = c],
         m.settled = message[thread[t].at].settled,
         Task(r, m, c.state),
         \A hook \in {"time", "shutdown", "prometheus"} :
           Entered(thread[t], hook) => Entered(r, hook),
         Exits(thread[t]) <= Exits(r)
  PROVE  IInv' /\ \A id \in Ids : ~Settles(id)
<1>1. /\ inprogress \in Int /\ Exits(thread[t]) \in Int /\ Exits(r) \in Int
      /\ Flag(thread[t]) \in Int /\ Flag(r) \in Int /\ Flag(thread[t]) <= Flag(r)
  BY Held, ExitsType DEF Flag
<1>2. /\ inprogress' + Flag(thread[t]) <= inprogress + Flag(r)
      /\ inprogress' + Exits(r) >= inprogress + Exits(thread[t])
  BY <1>1
<1>3. /\ deadlines' \subseteq Threads /\ deadlines' \ {t} \subseteq deadlines
      /\ t \in deadlines' => Entered(r, "time")
      /\ notifications' \subseteq Threads /\ notifications' \ {t} \subseteq notifications
      /\ t \in notifications' => Entered(r, "shutdown")
      /\ killing' \subseteq Threads /\ main' \in Main /\ inprogress' \in Int
  BY Held
<1> QED BY <1>2, <1>3, TaskStep

-----------------------------------------------------------------------------
(* The actions of a worker thread.                                         *)

Kept == IInv' /\ \A id \in Ids : ~Settles(id)

LEMMA BeginStep ==
  ASSUME IInv, NEW t \in Threads, Begin(t)
  PROVE  Kept
<1> DEFINE old == thread[t]
           r == Before(t)
           m == message[old.at]
           c == coroutine[old.at]
<1>1. old.pc = "taken" /\ old.pc \in Active
  BY DEF Begin, Active
<1>2. /\ Types /\ old \in Thread /\ old.at \in Ids /\ m \in Message /\ c \in Coroutine
      /\ Task(old, m, c.state)
      /\ message = [message EXCEPT ![old.at] = m]
      /\ coroutine = [coroutine EXCEPT ![old.at] = c]
      /\ deadlines \subseteq deadlines /\ pending \subseteq Threads
  BY <1>1, Held
<1>3. /\ thread' = [thread EXCEPT ![t] = r]
      /\ UNCHANGED <<setup, deadlines, killing, notifications, main, pending, inprogress>>
      /\ message' = message /\ coroutine' = coroutine
  BY DEF Begin, monitors
<1>4. Without({"retries"}) \subseteq Places /\ Without({"retries"}) \in SUBSET Nat
  BY <1>2, Placed DEF Without, Places
<1>5. /\ r \in Thread /\ r.pc = "before" /\ r.at = old.at /\ r.todo \subseteq Places
  BY <1>2, <1>4 DEF Before, Thread
<1> HIDE DEF r, m, c
<1>6. Task(r, m, c.state)
  BY <1>1, <1>2, <1>5 DEF Task, Active
<1>7. \A hook : ~Entered(old, hook)
  BY <1>1 DEF Entered, InCall
<1>8. Exits(old) = 0 /\ Exits(r) = 0
  BY <1>1, <1>5 DEF Exits
<1>9. r.pc \in Active \cup {"dead"} /\ Exits(old) <= Exits(r)
  BY <1>5, <1>8 DEF Active
<1>10. /\ message' = [message EXCEPT ![old.at] = m]
       /\ coroutine' = [coroutine EXCEPT ![old.at] = c]
       /\ m.settled = message[old.at].settled
  BY <1>2, <1>3 DEF m
<1> QED BY <1>1, <1>2, <1>3, <1>5, <1>6, <1>7, <1>9, <1>10, StayStep DEF Kept

LEMMA CallStep ==
  ASSUME IInv, NEW t \in Threads, Call(t)
  PROVE  Kept
<1> DEFINE old == thread[t]
           m == message[old.at]
<1>1. old.pc = "before" /\ old.pc \in Active /\ old.todo = {}
  BY DEF Call, Active
<1>2. /\ Types /\ old \in Thread /\ old.at \in Ids /\ m \in Message
      /\ coroutine[old.at] \in Coroutine /\ old.todo \subseteq Places
      /\ Task(old, m, coroutine[old.at].state)
      /\ message = [message EXCEPT ![old.at] = m]
      /\ coroutine = [coroutine EXCEPT ![old.at] = coroutine[old.at]]
      /\ pending \subseteq Threads
  BY <1>1, Held
<1>3. PICK pc \in {"start", "actor"}, c \in Coroutine :
        /\ thread' = [thread EXCEPT ![t] = [old EXCEPT !.pc = pc]]
        /\ coroutine' = [coroutine EXCEPT ![old.at] = c]
        /\ pc = "actor" => c.state = "none"
  <2>1. CASE old.at \in setup.async
    <3> DEFINE c == [coroutine[old.at] EXCEPT !.state = "queued"]
    <3>1. c \in Coroutine
      BY <1>2 DEF Coroutine
    <3>2. /\ thread' = [thread EXCEPT ![t] = [old EXCEPT !.pc = "start"]]
          /\ coroutine' = [coroutine EXCEPT ![old.at] = c]
      BY <2>1 DEF Call, Move, At
    <3> QED BY <3>1, <3>2
  <2>2. CASE old.at \notin setup.async
    <3>1. /\ thread' = [thread EXCEPT ![t] = [old EXCEPT !.pc = "actor"]]
          /\ coroutine' = coroutine
      BY <2>2 DEF Call, Move, At
    <3>2. coroutine[old.at].state = "none"
      BY <1>1, <1>2 DEF Task
    <3> QED BY <1>2, <3>1, <3>2
  <2> QED BY <2>1, <2>2
<1> DEFINE r == [old EXCEPT !.pc = pc]
<1>4. /\ r \in Thread /\ r.pc = pc /\ r.at = old.at /\ r.todo = old.todo
  BY <1>2 DEF Thread
<1>5. /\ UNCHANGED <<setup, deadlines, killing, notifications, main, pending, inprogress>>
      /\ message' = message
  BY DEF Call, monitors
<1> HIDE DEF r
<1>6. Task(r, m, c.state)
  BY <1>1, <1>2, <1>3, <1>4 DEF Task, Active
<1>7. \A hook : Entered(old, hook) => Entered(r, hook)
  BY <1>1, <1>4 DEF Entered, InCall
<1>8. Exits(old) = 0 /\ Exits(r) = 0
  BY <1>1, <1>4 DEF Exits
<1>9. r.pc \in Active \cup {"dead"} /\ Exits(old) <= Exits(r)
      /\ thread' = [thread EXCEPT ![t] = r]
      /\ m.settled = message[old.at].settled
  BY <1>3, <1>4, <1>8 DEF Active, r
<1> QED BY <1>1, <1>2, <1>3, <1>4, <1>5, <1>6, <1>7, <1>9, StayStep DEF Kept

LEMMA HooksDoneStep ==
  ASSUME IInv, NEW t \in Threads, HooksDone(t)
  PROVE  Kept
<1> DEFINE old == thread[t]
           r == [old EXCEPT !.pc = "post"]
           m == message[old.at]
           c == coroutine[old.at]
<1>1. old.pc = "after" /\ old.pc \in Active /\ old.todo = {}
  BY DEF HooksDone, Active
<1>2. /\ Types /\ old \in Thread /\ old.at \in Ids /\ m \in Message /\ c \in Coroutine
      /\ old.todo \subseteq Places /\ Task(old, m, c.state)
      /\ message = [message EXCEPT ![old.at] = m]
      /\ coroutine = [coroutine EXCEPT ![old.at] = c]
      /\ pending \subseteq Threads
  BY <1>1, Held
<1>3. /\ thread' = [thread EXCEPT ![t] = r]
      /\ UNCHANGED <<setup, deadlines, killing, notifications, main, pending, inprogress>>
      /\ message' = message /\ coroutine' = coroutine
  BY DEF HooksDone, monitors, Move
<1>4. /\ r \in Thread /\ r.pc = "post" /\ r.at = old.at /\ r.todo = old.todo
      /\ r.why = old.why
  BY <1>2, WithPc
<1> HIDE DEF r, m, c
<1>5. \A hook : ~Left(old, hook)
  BY <1>1 DEF Left
<1>6. Task(r, m, c.state)
  BY <1>1, <1>2, <1>4, <1>5 DEF Task, Active
<1>7. \A hook : ~Entered(old, hook)
  BY <1>1, <1>5 DEF Entered, InCall
<1>8. Exits(old) \in {0, 1, 2} /\ Exits(r) = 2
  BY <1>4, ExitsType DEF Exits
<1>9. r.pc \in Active \cup {"dead"} /\ Exits(old) <= Exits(r)
  BY <1>4, <1>8 DEF Active
<1>10. /\ message' = [message EXCEPT ![old.at] = m]
       /\ coroutine' = [coroutine EXCEPT ![old.at] = c]
       /\ m.settled = message[old.at].settled
  BY <1>2, <1>3 DEF m
<1> QED BY <1>1, <1>2, <1>3, <1>4, <1>6, <1>7, <1>9, <1>10, StayStep DEF Kept

LEMMA EndsStep ==
  ASSUME IInv, NEW t \in Threads, thread[t].pc \in {"actor", "await"},
         coroutine[thread[t].at].state \in Quiet, Ends(t),
         UNCHANGED <<setup, monitors, pending, inprogress, coroutine>>
  PROVE  Kept
<1> DEFINE old == thread[t]
           c == coroutine[old.at]
<1>1. old.pc \in Active /\ InCall(old)
  BY DEF Active, InCall
<1>2. /\ Types /\ old \in Thread /\ old.at \in Ids /\ c \in Coroutine
      /\ message[old.at] \in Message
      /\ Task(old, message[old.at], c.state)
      /\ coroutine = [coroutine EXCEPT ![old.at] = c]
      /\ pending \subseteq Threads
  BY <1>1, Held
<1>3. PICK ok \in BOOLEAN :
        /\ thread' = [thread EXCEPT ![t] = After(t, IF ok THEN "result" ELSE "exception")]
        /\ message' = [message EXCEPT ![At(t)].succeeded = ok]
  BY DEF Ends
<1> DEFINE why == IF ok THEN "result" ELSE "exception"
           m == [message[old.at] EXCEPT !.succeeded = ok]
<1>4. /\ message' = [message EXCEPT ![old.at] = m]
      /\ thread' = [thread EXCEPT ![t] = After(t, why)]
      /\ UNCHANGED <<setup, killing, notifications, inprogress, main, pending>>
      /\ deadlines' \subseteq deadlines
  BY <1>3 DEF At, monitors
<1>5. /\ m \in Message /\ m.taken /\ m.settled = message[old.at].settled
      /\ why \in {"result", "exception", "skip"}
      /\ why = "result" => m.succeeded
      /\ why # "skip"
  BY <1>2 DEF Message, Task
<1> HIDE DEF m, why
<1> QED BY <1>1, <1>2, <1>4, <1>5, AfterStep DEF Kept

(* A step within the call of the actor.                                    *)
LEMMA GoesOnWith ==
  ASSUME IInv, NEW t \in Threads, NEW pc \in {"await", "cancel", "cleanup"},
         thread[t].pc \in {"start", "await", "cancel"}, Move(t, pc),
         NEW c \in Coroutine, coroutine' = [coroutine EXCEPT ![thread[t].at] = c],
         UNCHANGED <<setup, killing, notifications, inprogress, main, message>>,
         deadlines' \subseteq deadlines, pending' \subseteq Threads
  PROVE  Kept
<1> DEFINE old == thread[t]
           r == [old EXCEPT !.pc = pc]
           m == message[old.at]
<1>1. old.pc \in Active
  BY DEF Active
<1>2. /\ old \in Thread /\ old.at \in Ids /\ m \in Message
      /\ old.todo \subseteq Places /\ Task(old, m, coroutine[old.at].state)
      /\ message = [message EXCEPT ![old.at] = m]
  BY <1>1, Held
<1>3. thread' = [thread EXCEPT ![t] = r]
  BY DEF Move
<1>4. r \in Thread /\ r.pc = pc /\ r.at = old.at /\ r.todo = old.todo
  BY <1>2 DEF Thread
<1> HIDE DEF r, m
<1>5. Task(r, m, c.state)
  BY <1>1, <1>2, <1>4 DEF Task
<1>6. \A hook : Entered(old, hook) => Entered(r, hook)
  BY <1>4 DEF Entered, InCall
<1>7. Exits(old) = 0 /\ Exits(r) = 0
  BY <1>4 DEF Exits
<1>8. /\ r.pc \in Active \cup {"dead"} /\ Exits(old) <= Exits(r)
      /\ r.todo \subseteq Places
      /\ message' = [message EXCEPT ![old.at] = m]
      /\ m.settled = message[old.at].settled
  BY <1>2, <1>4, <1>7 DEF Active, m
<1> QED BY <1>1, <1>2, <1>3, <1>4, <1>5, <1>6, <1>8, StayStep DEF Kept

LEMMA GoesOn ==
  ASSUME IInv, NEW t \in Threads, NEW pc \in {"await", "cancel", "cleanup"},
         thread[t].pc \in {"start", "await", "cancel"}, Move(t, pc),
         UNCHANGED <<setup, killing, notifications, inprogress, main, message, coroutine>>,
         deadlines' \subseteq deadlines, pending' \subseteq Threads
  PROVE  Kept
<1>1. thread[t].pc \in Active
  BY DEF Active
<1>2. /\ coroutine[thread[t].at] \in Coroutine
      /\ coroutine' = [coroutine EXCEPT ![thread[t].at] = coroutine[thread[t].at]]
  BY <1>1, Held
<1> QED BY <1>2, GoesOnWith

LEMMA AwaitStep ==
  ASSUME IInv, NEW t \in Threads, Await(t)
  PROVE  Kept
<1>1. /\ thread[t].pc = "start" /\ Move(t, "await") /\ pending' \subseteq Threads
      /\ deadlines' \subseteq deadlines
      /\ UNCHANGED <<setup, killing, notifications, inprogress, main, message, coroutine>>
  BY DEF Await, monitors, IInv, Types
<1> QED BY <1>1, GoesOn

LEMMA CancelStep ==
  ASSUME IInv, NEW t \in Threads, Cancel(t)
  PROVE  Kept
<1> DEFINE c == [coroutine[thread[t].at] EXCEPT !.cancel = TRUE]
<1>1. /\ thread[t].pc = "cancel" /\ Move(t, "cleanup") /\ pending' \subseteq Threads
      /\ deadlines' \subseteq deadlines
      /\ UNCHANGED <<setup, killing, notifications, inprogress, main, message>>
      /\ coroutine' = [coroutine EXCEPT ![thread[t].at] = c]
  BY DEF Cancel, At, monitors, IInv, Types
<1>2. thread[t].pc \in Active
  BY <1>1 DEF Active
<1>3. c \in Coroutine
  BY <1>2, Held DEF Coroutine
<1> HIDE DEF c
<1> QED BY <1>1, <1>3, GoesOnWith

LEMMA AwaitCleanupStep ==
  ASSUME IInv, NEW t \in Threads, AwaitCleanup(t)
  PROVE  Kept
<1> DEFINE old == thread[t]
           c == coroutine[old.at]
           m == [message[old.at] EXCEPT !.gaveUp = @ \/ c.state # "over"]
<1>1. old.pc = "cleanup" /\ old.pc \in Active /\ InCall(old)
  BY DEF AwaitCleanup, Active, InCall
<1>2. /\ Types /\ old \in Thread /\ old.at \in Ids /\ c \in Coroutine
      /\ message[old.at] \in Message
      /\ Task(old, message[old.at], c.state)
      /\ coroutine = [coroutine EXCEPT ![old.at] = c]
      /\ pending \subseteq Threads
  BY <1>1, Held
<1>3. /\ message' = [message EXCEPT ![old.at] = m]
      /\ thread' = [thread EXCEPT ![t] = After(t, "exception")]
      /\ coroutine' = coroutine
      /\ UNCHANGED <<setup, killing, notifications, inprogress, main, pending>>
      /\ deadlines' \subseteq deadlines
  BY DEF AwaitCleanup, At, monitors
<1>4. /\ m \in Message /\ m.taken /\ m.settled = message[old.at].settled
      /\ c.state \in Quiet \/ m.gaveUp
  BY <1>2 DEF Message, Task, Quiet
<1> HIDE DEF m
<1> QED BY <1>1, <1>2, <1>3, <1>4, AfterStep DEF Kept

(* The hooks before a message.                                             *)
LEMMA BeforeHookStep ==
  ASSUME IInv, NEW t \in Threads, BeforeHook(t)
  PROVE  Kept
<1> DEFINE old == thread[t]
           c == coroutine[old.at]
<1>1. old.pc = "before" /\ old.pc \in Active
  BY DEF BeforeHook, Active
<1>2. /\ Types /\ old \in Thread /\ old.at \in Ids /\ c \in Coroutine
      /\ message[old.at] \in Message /\ old.todo \subseteq Places
      /\ Task(old, message[old.at], c.state)
      /\ message = [message EXCEPT ![old.at] = message[old.at]]
      /\ coroutine = [coroutine EXCEPT ![old.at] = c]
      /\ pending \subseteq Threads /\ killing \subseteq Threads /\ main \in Main
      /\ deadlines \subseteq Threads /\ notifications \subseteq Threads
      /\ inprogress \in Int
      /\ t \in deadlines => Entered(old, "time")
      /\ t \in notifications => Entered(old, "shutdown")
  BY <1>1, Held
<1>3. PICK i \in old.todo :
        LET hook == setup.middleware[i] IN
        \/ hook = "age" /\ CheckAge(t, i)
        \/ hook = "time" /\ AddTimeout(t, i)
        \/ hook = "shutdown" /\ AddNotification(t, i)
        \/ hook = "prometheus" /\ Increment(t, i)
  BY DEF BeforeHook
<1> DEFINE hook == setup.middleware[i]
           todo == old.todo \ {i}
           r == [old EXCEPT !.todo = todo]
           m == message[old.at]
<1>4. UNCHANGED <<setup, pending, coroutine>>
  BY DEF BeforeHook
<1>5. /\ todo \subseteq Places /\ todo \in SUBSET Nat
      /\ \A h : Left(r, h) <=> \E k \in todo : setup.middleware[k] = h
      /\ r \in Thread /\ r.pc = "before" /\ r.at = old.at /\ r.todo = todo
  <2>1. todo \subseteq Places /\ todo \in SUBSET Nat
    BY <1>2, Placed
  <2> HIDE DEF todo
  <2>2. r \in Thread /\ r.pc = "before" /\ r.at = old.at /\ r.todo = todo
    BY <1>1, <1>2, <2>1, WithTodo
  <2> HIDE DEF r
  <2> QED BY <2>1, <2>2 DEF Left
<1>6. /\ ~Entered(old, hook) /\ Entered(r, hook)
      /\ \A h : Entered(old, h) => Entered(r, h)
  <2>1. /\ i \in Places /\ Uses(hook) /\ Left(old, hook)
        /\ \A h : Left(r, h) => Left(old, h)
    BY <1>2, <1>5 DEF Left, Uses
  <2>2. ~Left(r, hook)
    <3> SUFFICES ASSUME NEW k \in todo, setup.middleware[k] = setup.middleware[i]
                 PROVE  FALSE
      BY <1>5
    <3>1. k \in Places /\ i \in Places /\ k # i
      BY <1>5, <2>1
    <3> QED BY <1>2, <3>1, Placed
  <2> QED BY <1>1, <1>5, <2>1, <2>2 DEF Entered, InCall
<1>7. Task(r, m, c.state) /\ Exits(old) = 0 /\ Exits(r) = 0
  BY <1>1, <1>2, <1>5 DEF Task, Active, Exits
<1>8. /\ Flag(old) \in Int /\ Flag(r) \in Int /\ Flag(old) <= Flag(r)
      /\ hook = "prometheus" => Flag(old) = 0 /\ Flag(r) = 1
  BY <1>6 DEF Flag
<1>9. r.pc \in Active \cup {"dead"}
  BY <1>5 DEF Active
<1>10. NextHook(t, i) => thread' = [thread EXCEPT ![t] = r]
  BY DEF NextHook
<1> HIDE DEF r, m, todo
<1>11. ASSUME NextHook(t, i), message' = message,
              killing' \subseteq Threads, main' \in Main,
              deadlines' \subseteq Threads, deadlines' \ {t} \subseteq deadlines,
              t \in deadlines' => t \in deadlines \/ hook = "time",
              notifications' \subseteq Threads, notifications' \ {t} \subseteq notifications,
              t \in notifications' => t \in notifications \/ hook = "shutdown",
              \/ inprogress' = inprogress
              \/ inprogress' = inprogress + 1 /\ hook = "prometheus"
       PROVE  Kept
  <2>1. /\ t \in deadlines' => Entered(r, "time")
        /\ t \in notifications' => Entered(r, "shutdown")
    BY <1>2, <1>6, <1>11
  <2>2. /\ inprogress' \in Int
        /\ inprogress' + Flag(old) <= inprogress + Flag(r)
        /\ inprogress' + Exits(r) >= inprogress + Exits(old)
    BY <1>2, <1>7, <1>8, <1>11
  <2>3. /\ message' = [message EXCEPT ![old.at] = m]
        /\ coroutine' = [coroutine EXCEPT ![old.at] = c]
        /\ m.settled = message[old.at].settled /\ m \in Message
        /\ thread' = [thread EXCEPT ![t] = r] /\ pending' \subseteq Threads
    BY <1>2, <1>4, <1>10, <1>11 DEF m
  <2> QED BY <1>1, <1>2, <1>4, <1>5, <1>7, <1>9, <1>11, <2>1, <2>2, <2>3, TaskStep DEF Kept
<1>12. CASE hook = "age" /\ CheckAge(t, i)
  <2>1. UNCHANGED <<monitors, inprogress>>
    BY <1>12 DEF CheckAge
  <2>2. CASE NextHook(t, i) /\ message' = message
    BY <1>2, <1>11, <2>1, <2>2 DEF monitors
  <2>3. CASE /\ thread' = [thread EXCEPT ![t] = After(t, "skip")]
             /\ message' = [message EXCEPT ![At(t)].failed = TRUE]
    <3> DEFINE n == [message[old.at] EXCEPT !.failed = TRUE]
    <3>1. /\ n \in Message /\ n.taken /\ n.settled = message[old.at].settled
          /\ c.state \in Quiet \/ n.gaveUp
          /\ n.failed
      BY <1>1, <1>2 DEF Message, Task, Quiet
    <3>2. message' = [message EXCEPT ![old.at] = n]
      BY <2>3 DEF At
    <3> HIDE DEF n
    <3>3. /\ deadlines' \subseteq deadlines /\ pending' \subseteq Threads
          /\ UNCHANGED <<setup, killing, notifications, inprogress, main>>
          /\ coroutine' = [coroutine EXCEPT ![old.at] = c]
      BY <1>2, <1>4, <2>1 DEF monitors
    <3> QED BY <1>1, <1>2, <2>3, <3>1, <3>2, <3>3, AfterStep DEF Kept
  <2> QED BY <1>12, <2>2, <2>3 DEF CheckAge
<1>13. CASE hook = "time" /\ AddTimeout(t, i)
  <2>1. /\ NextHook(t, i) /\ UNCHANGED <<killing, notifications, main, inprogress, message>>
        /\ deadlines' \subseteq deadlines \cup {t}
    BY <1>13 DEF AddTimeout
  <2> QED BY <1>2, <1>11, <1>13, <2>1
<1>14. CASE hook = "shutdown" /\ AddNotification(t, i)
  <2>1. /\ NextHook(t, i) /\ UNCHANGED <<deadlines, killing, inprogress, message>>
        /\ notifications' \subseteq notifications \cup {t}
    BY <1>14 DEF AddNotification
  <2>2. main' \in Main
    <3>1. CASE main' = main
      BY <1>2, <3>1
    <3>2. CASE main' # main
      <4> DEFINE lefts == {main.left} \cup
                   (IF main.pc = "notify" THEN {main.left \cup {t}} ELSE {})
      <4>1. PICK left \in lefts :
              main' = [main EXCEPT !.late = main.pc # "up", !.left = left]
        BY <1>14, <3>2 DEF AddNotification
      <4>2. main.left \subseteq Threads
        BY <1>2 DEF Main
      <4>3. left \in SUBSET Threads
        BY <4>2
      <4> HIDE DEF lefts
      <4> QED BY <1>2, <4>1, <4>3 DEF Main
    <3> QED BY <3>1, <3>2
  <2> QED BY <1>2, <1>11, <1>14, <2>1, <2>2
<1>15. CASE hook = "prometheus" /\ Increment(t, i)
  <2>1. /\ NextHook(t, i) /\ inprogress' = inprogress + 1
        /\ UNCHANGED <<deadlines, killing, notifications, main, message>>
    BY <1>15 DEF Increment, monitors
  <2> QED BY <1>2, <1>11, <1>15, <2>1
<1> QED BY <1>3, <1>12, <1>13, <1>14, <1>15

(* The hooks after a message.                                              *)
LEMMA AfterHookStep ==
  ASSUME IInv, NEW t \in Threads, AfterHook(t)
  PROVE  Kept
<1> DEFINE old == thread[t]
           c == coroutine[old.at]
<1>1. old.pc = "after" /\ old.pc \in Active
  BY DEF AfterHook, Active
<1>2. /\ Types /\ old \in Thread /\ old.at \in Ids /\ c \in Coroutine
      /\ message[old.at] \in Message /\ old.todo \subseteq Places
      /\ Task(old, message[old.at], c.state)
      /\ message = [message EXCEPT ![old.at] = message[old.at]]
      /\ coroutine = [coroutine EXCEPT ![old.at] = c]
      /\ pending \subseteq Threads /\ killing \subseteq Threads /\ main \in Main
      /\ deadlines \subseteq Threads /\ notifications \subseteq Threads
      /\ inprogress \in Int
      /\ t \in deadlines => Entered(old, "time")
      /\ t \in notifications => Entered(old, "shutdown")
  BY <1>1, Held
<1>3. PICK i \in old.todo :
        LET hook == setup.middleware[i] IN
        /\ NextHook(t, i)
        /\ deadlines' = IF hook = "time" THEN deadlines \ {t} ELSE deadlines
        /\ inprogress' = IF hook = "prometheus" THEN inprogress - 1 ELSE inprogress
        /\ IF hook = "shutdown" THEN RemoveNotification(t)
           ELSE UNCHANGED <<notifications, main>>
        /\ IF hook = "retries" THEN RetryOrFail(t) ELSE UNCHANGED message
  BY DEF AfterHook
<1> DEFINE hook == setup.middleware[i]
           todo == old.todo \ {i}
           r == [old EXCEPT !.todo = todo]
<1>4. UNCHANGED <<setup, killing, pending, coroutine>>
  BY DEF AfterHook
<1>5. /\ todo \subseteq Places /\ todo \in SUBSET Nat
      /\ r \in Thread /\ r.pc = "after" /\ r.at = old.at /\ r.todo = todo /\ r.why = old.why
      /\ thread' = [thread EXCEPT ![t] = r]
  <2>1. todo \subseteq Places /\ todo \in SUBSET Nat
    BY <1>2, Placed
  <2>2. thread' = [thread EXCEPT ![t] = r]
    BY <1>3 DEF NextHook
  <2> HIDE DEF todo
  <2>3. r \in Thread /\ r.pc = "after" /\ r.at = old.at /\ r.todo = todo /\ r.why = old.why
    BY <1>1, <1>2, <2>1, WithTodo
  <2> HIDE DEF r
  <2> QED BY <2>1, <2>2, <2>3
<1> HIDE DEF r
<1>6. /\ i \in Places /\ Left(old, hook) /\ ~Left(r, hook)
      /\ \A h : h # hook => (Left(old, h) <=> Left(r, h))
  <2>1. \A k \in todo : setup.middleware[k] # hook
    <3> SUFFICES ASSUME NEW k \in todo, setup.middleware[k] = setup.middleware[i]
                 PROVE  FALSE
      OBVIOUS
    <3>1. k \in Places /\ i \in Places /\ k # i
      BY <1>2, <1>5
    <3> QED BY <1>2, <3>1, Placed
  <2> QED BY <1>2, <1>5, <2>1 DEF Left
<1>7. /\ Entered(old, hook) /\ ~Entered(r, hook)
      /\ \A h : h # hook => (Entered(old, h) <=> Entered(r, h))
  BY <1>1, <1>5, <1>6 DEF Entered, InCall
<1>8. PICK m \in Message :
        /\ message' = [message EXCEPT ![old.at] = m]
        /\ m.taken /\ m.settled = message[old.at].settled /\ m.settled = "no"
        /\ m.succeeded = message[old.at].succeeded /\ m.gaveUp = message[old.at].gaveUp
        /\ message[old.at].failed => m.failed
        /\ message[old.at].retried => m.retried
        /\ hook = "retries" => m.retried \/ m.failed
  <2>1. CASE hook = "retries"
    <3>1. PICK retry \in BOOLEAN :
            message' = [message EXCEPT ![At(t)].retried = @ \/ retry,
                                       ![At(t)].failed = @ \/ ~retry]
      BY <1>3, <2>1 DEF RetryOrFail
    <3> DEFINE m == [message[old.at] EXCEPT !.retried = @ \/ retry, !.failed = @ \/ ~retry]
    <3>2. message' = [message EXCEPT ![old.at] = m]
      BY <1>2, <3>1 DEF At, Types
    <3>3. /\ m \in Message /\ m.taken = message[old.at].taken
          /\ m.settled = message[old.at].settled
          /\ m.succeeded = message[old.at].succeeded /\ m.gaveUp = message[old.at].gaveUp
          /\ m.retried = (message[old.at].retried \/ retry)
          /\ m.failed = (message[old.at].failed \/ ~retry)
      BY <1>2 DEF Message
    <3> HIDE DEF m
    <3> QED BY <1>1, <1>2, <3>2, <3>3 DEF Task
  <2>2. CASE hook # "retries"
    <3>1. message' = [message EXCEPT ![old.at] = message[old.at]]
      BY <1>2, <1>3, <2>2
    <3> QED BY <1>1, <1>2, <2>2, <3>1 DEF Task
  <2> QED BY <2>1, <2>2
<1>9. Task(r, m, c.state)
  BY <1>1, <1>2, <1>5, <1>6, <1>8 DEF Task, Active
<1>10. /\ deadlines' \subseteq Threads /\ deadlines' \ {t} \subseteq deadlines
       /\ t \in deadlines' => Entered(r, "time")
  BY <1>2, <1>3, <1>7
<1>11. /\ notifications' \subseteq Threads /\ notifications' \ {t} \subseteq notifications
       /\ t \in notifications' => Entered(r, "shutdown")
       /\ main' \in Main
  <2>1. CASE hook = "shutdown"
    <3>1. notifications' = notifications \ {t}
          /\ main' = [main EXCEPT !.left = @ \ {t}]
      BY <1>3, <2>1 DEF RemoveNotification
    <3> QED BY <1>2, <3>1 DEF Main
  <2>2. CASE hook # "shutdown"
    BY <1>2, <1>3, <1>7, <2>2
  <2> QED BY <2>1, <2>2
<1>12. /\ inprogress' \in Int
       /\ inprogress' + Flag(old) <= inprogress + Flag(r)
       /\ inprogress' + Exits(r) >= inprogress + Exits(old)
  <2>1. CASE hook = "prometheus"
    <3>1. Flag(old) = 1 /\ Flag(r) = 0 /\ Exits(r) = Exits(old) + 1 /\ Exits(old) \in Int
      BY <1>1, <1>5, <1>6, <1>7, <2>1 DEF Flag, Exits
    <3> QED BY <1>2, <1>3, <2>1, <3>1
  <2>2. CASE hook # "prometheus"
    <3>1. Flag(old) = Flag(r) /\ Flag(r) \in Int /\ Exits(r) = Exits(old) /\ Exits(old) \in Int
      BY <1>1, <1>5, <1>6, <1>7, <2>2 DEF Flag, Exits
    <3> QED BY <1>2, <1>3, <2>2, <3>1
  <2> QED BY <2>1, <2>2
<1>13. /\ r.pc \in Active \cup {"dead"} /\ pending' \subseteq Threads
       /\ killing' \subseteq Threads
       /\ coroutine' = [coroutine EXCEPT ![old.at] = c]
  BY <1>2, <1>4, <1>5 DEF Active
<1> QED BY <1>1, <1>2, <1>4, <1>5, <1>8, <1>9, <1>10, <1>11, <1>12, <1>13, TaskStep DEF Kept

(* A step in which a thread gets a message or is left without one.         *)
LEMMA ShiftStep ==
  ASSUME IInv, NEW t \in Threads, NEW r \in Thread,
         UNCHANGED <<setup, killing, notifications, main, inprogress, coroutine>>,
         deadlines' \subseteq deadlines, pending' \subseteq Threads,
         thread' = [thread EXCEPT ![t] = r], message' \in [Ids -> Message],
         r.pc \in Active => r.at \in Ids,
         r.pc \in {"idle", "stopped"} => r.at = None,
         r.todo \subseteq Places,
         r.at \in Ids => Task(r, message'[r.at], coroutine[r.at].state),
         \A u \in Threads \ {t} : thread[u].at \in Ids =>
           thread[u].at # r.at /\ message'[thread[u].at] = message[thread[u].at],
         \A id \in Ids : ~message'[id].taken =>
           message'[id].settled = "no" /\ coroutine[id].state = "none",
         Spent' = Spent,
         \A hook \in {"time", "shutdown", "prometheus"} :
           Entered(thread[t], hook) => Entered(r, hook)
  PROVE  IInv'
<1>1. /\ Types /\ Tasks /\ Apart /\ Waiting /\ Bounds
      /\ \A u \in Threads : thread'[u] = IF u = t THEN r ELSE thread[u]
  BY DEF IInv, Types
<1>2. Types'
  <2>1. thread' \in [Threads -> Thread]
    BY <1>1 DEF Types
  <2> QED BY <1>1, <2>1 DEF Types
<1>3. Tasks'
  <2>1. ASSUME NEW u \in Threads
        PROVE  /\ thread'[u].pc \in Active => thread'[u].at \in Ids
               /\ thread'[u].pc \in {"idle", "stopped"} => thread'[u].at = None
               /\ thread'[u].todo \subseteq Places
               /\ thread'[u].at \in Ids =>
                    Task(thread'[u], message'[thread'[u].at], coroutine[thread'[u].at].state)
    <3>1. CASE u = t
      BY <1>1, <3>1
    <3>2. CASE u # t
      BY <1>1, <3>2 DEF Tasks
    <3> QED BY <3>1, <3>2
  <2>2. ASSUME NEW u \in Threads
        PROVE  thread'[u].at \in Ids =>
                 Task(thread[u], message[thread[u].at], coroutine[thread[u].at].state)'
    BY <1>1, <2>1 DEF Task, Uses, Left, Places
  <2> QED BY <2>1, <2>2 DEF Tasks, Places
<1>4. Apart'
  BY <1>1 DEF Apart
<1>5. Waiting'
  BY DEF Waiting
<1>6. Bounds'
  <2>1. \A hook : Open(hook)' \ {t} = Open(hook) \ {t}
    BY <1>1, OpenChanges
  <2>2. \A hook : /\ t \in Open(hook)' <=> Entered(r, hook)
                  /\ t \in Open(hook) <=> Entered(thread[t], hook)
    BY <1>1, OpenChanges
  <2>3. \A hook \in {"time", "shutdown"} : Open(hook) \subseteq Open(hook)'
    BY <2>1, <2>2
  <2>4. deadlines' \subseteq Open("time")' /\ notifications' \subseteq Open("shutdown")'
    BY <1>1, <2>3 DEF Bounds
  <2>5. /\ Cardinality(Open("prometheus"))' \in Nat
        /\ Cardinality(Open("prometheus"))' + Flag(thread[t])
             = Cardinality(Open("prometheus")) + Flag(r)
    BY <1>1, OpenCounts
  <2>6. /\ Cardinality(Open("prometheus")) \in Nat /\ inprogress \in Int
        /\ Flag(r) \in Nat /\ Flag(thread[t]) \in Nat /\ Flag(thread[t]) <= Flag(r)
    BY <1>1, OpenFinite DEF Flag, Types
  <2>7. inprogress' <= Cardinality(Open("prometheus"))'
    BY <1>1, <2>5, <2>6 DEF Bounds
  <2>8. Cardinality(Spent)' = Cardinality(Spent)
    BY Zenon
  <2>9. 0 - Cardinality(Spent)' <= inprogress'
    BY <1>1, <2>8 DEF Bounds
  <2> QED BY <2>4, <2>7, <2>9 DEF Bounds
<1> QED BY <1>2, <1>3, <1>4, <1>5, <1>6 DEF IInv

(* What is spent counts only threads that have a message.                  *)
LEMMA SpentSame ==
  ASSUME IInv, NEW t \in Threads, NEW r, UNCHANGED setup,
         thread' = [thread EXCEPT ![t] = r],
         \A id \in Ids : message'[id].settled = message[id].settled,
         thread[t].at \notin Ids \/ Exits(thread[t]) = 0,
         r.at \notin Ids \/ Exits(r) = 0
  PROVE  Spent' = Spent
<1>1. \A u \in Threads : thread'[u] = IF u = t THEN r ELSE thread[u]
  BY DEF IInv, Types
<1>2. Spent' = {e \in Ids \X {1, 2} :
                  \/ message'[e[1]].settled # "no"
                  \/ \E u \in Threads : thread'[u].at = e[1] /\ e[2] <= Exits(thread'[u])}
  BY DEF Spent, Exits, Left
<1>3. \A e \in Ids \X {1, 2} :
        (\E u \in Threads : thread'[u].at = e[1] /\ e[2] <= Exits(thread'[u]))
          <=> (\E u \in Threads : thread[u].at = e[1] /\ e[2] <= Exits(thread[u]))
  BY <1>1
<1> QED BY <1>2, <1>3 DEF Spent

LEMMA IdleStep ==
  ASSUME IInv, NEW t \in Threads, thread[t].pc = "idle", NEW pc \in {"stopped", "dead"},
         Move(t, pc), pending' \subseteq Threads, deadlines' \subseteq deadlines,
         UNCHANGED <<setup, killing, notifications, main, inprogress, message, coroutine>>
  PROVE  Kept
<1> DEFINE old == thread[t]
           r == [old EXCEPT !.pc = pc]
<1>1. /\ Types /\ Apart /\ Waiting /\ old \in Thread /\ old.at = None /\ None \notin Ids
      /\ old.todo \subseteq Places /\ message \in [Ids -> Message]
      /\ \A u \in Threads : thread[u].at \in Ids => thread[u].at # None
  BY InterruptsAssumption DEF IInv, Types, Tasks
<1>2. /\ r \in Thread /\ r.pc = pc /\ r.at = None /\ r.todo = old.todo
  BY <1>1 DEF Thread
<1>3. thread' = [thread EXCEPT ![t] = r]
  BY DEF Move
<1> HIDE DEF r
<1>4. Spent' = Spent
  BY <1>1, <1>2, <1>3, SpentSame
<1>5. \A hook : ~Entered(old, hook)
  BY DEF Entered, InCall
<1>6. r.pc \notin Active /\ r.at \notin Ids
  BY <1>1, <1>2 DEF Active
<1>7. \A id \in Ids : ~message'[id].taken =>
        message'[id].settled = "no" /\ coroutine[id].state = "none"
  BY <1>1 DEF Waiting
<1>8. IInv'
  BY <1>1, <1>2, <1>3, <1>4, <1>5, <1>6, <1>7, ShiftStep
<1> QED BY <1>8 DEF Kept, Settles

LEMMA TakeStep ==
  ASSUME IInv, NEW t \in Threads, Take(t)
  PROVE  Kept
<1> DEFINE old == thread[t]
<1>1. /\ Types /\ Apart /\ Waiting /\ old \in Thread /\ old.at = None /\ None \notin Ids
      /\ old.pc = "idle" /\ old.todo \subseteq Places /\ message \in [Ids -> Message]
      /\ \A u \in Threads : thread[u].at \in Ids => message[thread[u].at].taken
      /\ pending \subseteq Threads
  BY InterruptsAssumption DEF IInv, Types, Tasks, Task, Take
<1>2. PICK id \in Ids :
        /\ {i \in Ids : ~message[i].taken /\ i <= id} = {id}
        /\ message' = [message EXCEPT ![id].taken = TRUE]
        /\ thread' = [thread EXCEPT ![t].pc = "taken", ![t].at = id]
  BY DEF Take
<1>3. UNCHANGED <<setup, deadlines, killing, notifications, main, pending, inprogress, coroutine>>
  BY DEF Take, monitors
<1> DEFINE m == [message[id] EXCEPT !.taken = TRUE]
           r == [old EXCEPT !.pc = "taken", !.at = id]
<1>4. /\ m \in Message /\ m.taken /\ m.settled = message[id].settled
      /\ ~message[id].taken
      /\ message' = [message EXCEPT ![id] = m]
  <2>1. message[id] \in Message
    BY <1>1
  <2>2. m \in Message /\ m.taken /\ m.settled = message[id].settled
    BY <2>1 DEF Message
  <2>3. id \in {i \in Ids : ~message[i].taken /\ i <= id}
    BY <1>2
  <2>4. message' = [message EXCEPT ![id] = m]
    BY <1>2
  <2> QED BY <2>2, <2>3, <2>4
<1>5. thread' = [thread EXCEPT ![t] = r] /\ r \in Thread /\ r.pc = "taken" /\ r.at = id
      /\ r.todo = old.todo
  BY <1>1, <1>2 DEF Types, Thread
<1> HIDE DEF m, r
<1>6. message[id].settled = "no" /\ coroutine[id].state = "none"
  BY <1>1, <1>4 DEF Waiting
<1>7. /\ \A i \in Ids : message'[i] = IF i = id THEN m ELSE message[i]
      /\ message' \in [Ids -> Message]
  BY <1>1, <1>4
<1>8. Task(r, message'[r.at], coroutine[r.at].state)
  BY <1>4, <1>5, <1>6, <1>7 DEF Task
<1>9. \A i \in Ids : message'[i].settled = message[i].settled
  BY <1>4, <1>7
<1>10. Exits(r) = 0
  BY <1>5 DEF Exits
<1>11. Spent' = Spent
  BY <1>1, <1>3, <1>5, <1>9, <1>10, SpentSame
<1>12. \A hook : ~Entered(old, hook)
  BY <1>1 DEF Entered, InCall
<1>13. \A u \in Threads \ {t} : thread[u].at \in Ids =>
         thread[u].at # r.at /\ message'[thread[u].at] = message[thread[u].at]
  BY <1>1, <1>4, <1>5, <1>7
<1>14. \A i \in Ids : ~message'[i].taken =>
         message'[i].settled = "no" /\ coroutine[i].state = "none"
  BY <1>1, <1>4, <1>7 DEF Waiting
<1>15. IInv'
  BY <1>1, <1>3, <1>5, <1>7, <1>8, <1>11, <1>12, <1>13, <1>14, ShiftStep DEF Active
<1> QED BY <1>9, <1>15 DEF Kept, Settles

(* What the messages' hooks and the actors did, when one is settled.       *)
Settled ==
  \A id \in Ids : Settles(id) =>
    /\ message'[id].settled = "ack" /\ Uses("retries") =>
         message[id].succeeded \/ message[id].retried \/ message[id].cut
    /\ coroutine[id].state \in Quiet \/ message[id].gaveUp

LEMMA PostStep ==
  ASSUME IInv, NEW t \in Threads, Post(t)
  PROVE  IInv' /\ Settled
<1> DEFINE old == thread[t]
           id == old.at
           settled == IF message[id].failed THEN "nack" ELSE "ack"
           m == [Untouched EXCEPT !.taken = TRUE, !.settled = settled]
           pc == IF old.why = "interrupt" THEN "dead" ELSE "idle"
           r == [old EXCEPT !.pc = pc, !.at = None, !.why = "none"]
<1>1. old.pc = "post" /\ old.pc \in Active
  BY DEF Post, Active
<1>2. /\ Types /\ Apart /\ Waiting /\ old \in Thread /\ id \in Ids /\ None \notin Ids
      /\ Task(old, message[id], coroutine[id].state)
      /\ old.todo \subseteq Places /\ pending \subseteq Threads
      /\ message \in [Ids -> Message]
      /\ \A u \in Threads : thread[u].at \in Ids => thread[u].at # None
  BY <1>1, Held, InterruptsAssumption DEF IInv, Types
<1>3. UNCHANGED <<setup, deadlines, killing, notifications, main, pending, inprogress, coroutine>>
  BY DEF Post, monitors
<1>4. message' = [message EXCEPT ![id] = m]
  BY DEF Post, At
<1>5. thread' = [thread EXCEPT ![t] = r]
  BY <1>2 DEF Post, Types, Thread
<1>6. /\ r \in Thread /\ r.pc \in {"dead", "idle"} /\ r.at = None /\ r.todo = old.todo
      /\ r.pc = IF old.why = "interrupt" THEN "dead" ELSE "idle"
  BY <1>2 DEF Thread
<1>7. m \in Message /\ m.taken /\ m.settled = settled
  BY DEF Message, Untouched
<1> HIDE DEF m, r
<1>8. /\ \A i \in Ids : message'[i] = IF i = id THEN m ELSE message[i]
      /\ message' \in [Ids -> Message]
  BY <1>2, <1>4, <1>7
<1>9. \A u \in Threads \ {t} : thread[u].at # id
  BY <1>2 DEF Apart
<1>10. Spent' = Spent
  <2>1. Spent' = {e \in Ids \X {1, 2} :
                    \/ message'[e[1]].settled # "no"
                    \/ \E u \in Threads : thread'[u].at = e[1] /\ e[2] <= Exits(thread'[u])}
    BY <1>3 DEF Spent, Exits, Left
  <2>2. \A u \in Threads : thread'[u] = IF u = t THEN r ELSE thread[u]
    BY <1>2, <1>5 DEF Types
  <2>3. Exits(old) = 2 /\ settled # "no"
    BY <1>1 DEF Exits
  <2>4. ASSUME NEW e \in Ids \X {1, 2}
        PROVE  e \in Spent' <=> e \in Spent
    <3>1. CASE e[1] = id
      BY <1>7, <1>8, <2>1, <2>3, <3>1 DEF Spent
    <3>2. CASE e[1] # id
      BY <1>2, <1>6, <1>8, <2>1, <2>2, <3>2 DEF Spent
    <3> QED BY <3>1, <3>2
  <2> QED BY <2>1, <2>4 DEF Spent
<1>11. \A hook : Entered(old, hook) => Entered(r, hook)
  BY <1>1, <1>6 DEF Entered, InCall
<1>12. \A i \in Ids : ~message'[i].taken =>
         message'[i].settled = "no" /\ coroutine[i].state = "none"
  BY <1>2, <1>7, <1>8 DEF Waiting
<1>13. \A u \in Threads \ {t} : thread[u].at \in Ids =>
         thread[u].at # r.at /\ message'[thread[u].at] = message[thread[u].at]
  BY <1>2, <1>6, <1>8, <1>9
<1>14. r.pc \notin Active /\ r.at \notin Ids
  BY <1>2, <1>6 DEF Active
<1>15. IInv'
  BY <1>2, <1>3, <1>5, <1>6, <1>8, <1>10, <1>11, <1>12, <1>13, <1>14, ShiftStep
<1>16. Settled
  BY <1>1, <1>2, <1>7, <1>8 DEF Settled, Settles, Task
<1> QED BY <1>15, <1>16
LEMMA LeaveStep ==
  ASSUME IInv, NEW t \in Threads, Leave(t)
  PROVE  Kept
<1>1. thread[t].pc = "idle" /\ Move(t, "stopped") /\ pending \subseteq Threads
  BY DEF Leave, IInv, Types
<1> QED BY <1>1, IdleStep DEF Leave, monitors

(* An exception that another thread raised.  A thread that is not being
   told anything, or is told by gevent's timer, loses a deadline at most.   *)
LEMMA InterruptedStep ==
  ASSUME IInv, NEW t \in Threads, ~Ended(t), Interrupted(t),
         UNCHANGED <<setup, killing, notifications, inprogress, main, coroutine>>,
         deadlines' \subseteq deadlines, pending' \subseteq Threads
  PROVE  Kept
<1> DEFINE old == thread[t]
           handling == old.pc = "after" /\ old.why # "result"
<1>1. Types /\ old \in Thread
  BY DEF IInv, Types
<1>2. CASE old.pc = "idle"
  <2>1. Move(t, "dead") /\ UNCHANGED <<message, coroutine>>
    BY <1>2 DEF Interrupted
  <2> QED BY <1>2, <2>1, IdleStep
<1>3. CASE old.pc \in {"taken", "post"}
  <2> DEFINE r == [old EXCEPT !.pc = "dead"]
             m == message[old.at]
             c == coroutine[old.at]
  <2>1. old.pc \in Active
    BY <1>3 DEF Active
  <2>2. /\ old.at \in Ids /\ m \in Message /\ c \in Coroutine
        /\ old.todo \subseteq Places /\ Task(old, m, c.state)
        /\ message = [message EXCEPT ![old.at] = m]
        /\ coroutine = [coroutine EXCEPT ![old.at] = c]
    BY <2>1, Held
  <2>3. Move(t, "dead") /\ message' = message /\ coroutine' = coroutine
    BY <1>3 DEF Interrupted
  <2>4. thread' = [thread EXCEPT ![t] = r]
    BY <2>3 DEF Move
  <2>5. r \in Thread /\ r.pc = "dead" /\ r.at = old.at /\ r.todo = old.todo
    BY <1>1, WithPc
  <2> HIDE DEF r, m, c
  <2>6. Task(r, m, c.state)
    BY <2>2, <2>5 DEF Task, Active
  <2>7. \A hook : Entered(r, hook)
    BY <2>5 DEF Entered, InCall
  <2>8. Exits(old) \in {0, 1, 2} /\ Exits(r) = 2
    BY <2>5, ExitsType DEF Exits
  <2>9. /\ r.pc \in Active \cup {"dead"} /\ Exits(old) <= Exits(r)
        /\ r.todo \subseteq Places
    BY <2>2, <2>5, <2>8
  <2>10. /\ message' = [message EXCEPT ![old.at] = m]
         /\ coroutine' = [coroutine EXCEPT ![old.at] = c]
         /\ m.settled = message[old.at].settled
    BY <2>2, <2>3 DEF m
  <2> QED BY <2>1, <2>2, <2>4, <2>5, <2>6, <2>7, <2>9, <2>10, StayStep DEF Kept
<1>4. CASE handling
  <2> DEFINE r == [old EXCEPT !.pc = "post", !.why = "interrupt"]
             m == [message[old.at] EXCEPT !.cut = TRUE]
             c == coroutine[old.at]
  <2>1. old.pc = "after" /\ old.pc \in Active
    BY <1>4 DEF Active
  <2>2. /\ old.at \in Ids /\ message[old.at] \in Message /\ c \in Coroutine
        /\ old.todo \subseteq Places /\ Task(old, message[old.at], c.state)
        /\ coroutine = [coroutine EXCEPT ![old.at] = c]
    BY <2>1, Held
  <2>3. /\ thread' = [thread EXCEPT ![t].pc = "post", ![t].why = "interrupt"]
        /\ message' = [message EXCEPT ![old.at] = m]
        /\ coroutine' = coroutine
    BY <1>4 DEF Interrupted
  <2>4. thread' = [thread EXCEPT ![t] = r]
    BY <1>1, <2>3 DEF Types, Thread
  <2>5. r \in Thread /\ r.pc = "post" /\ r.at = old.at /\ r.todo = old.todo
        /\ r.why = "interrupt"
    BY <1>1 DEF Thread
  <2>6. m \in Message /\ m.taken = message[old.at].taken
        /\ m.settled = message[old.at].settled /\ m.cut
        /\ m.gaveUp = message[old.at].gaveUp
    BY <2>2 DEF Message
  <2> HIDE DEF r, m, c
  <2>7. Task(r, m, c.state)
    BY <2>1, <2>2, <2>5, <2>6 DEF Task, Active
  <2>8. \A hook : Entered(r, hook)
    BY <2>5 DEF Entered, InCall
  <2>9. Exits(old) \in {0, 1, 2} /\ Exits(r) = 2
    BY <2>5, ExitsType DEF Exits
  <2>10. /\ r.pc \in Active \cup {"dead"} /\ Exits(old) <= Exits(r)
         /\ r.todo \subseteq Places
         /\ coroutine' = [coroutine EXCEPT ![old.at] = c]
    BY <2>2, <2>3, <2>5, <2>9 DEF Active
  <2> QED BY <2>1, <2>2, <2>3, <2>4, <2>5, <2>6, <2>7, <2>8, <2>10, StayStep DEF Kept
<1>5. CASE old.pc = "await"
  <2>1. Move(t, "cancel") /\ message' = message
    BY <1>5 DEF Interrupted
  <2> QED BY <1>5, <2>1, GoesOn
<1>6. CASE /\ old.pc \in {"before", "actor", "start", "cancel", "cleanup", "after"}
           /\ ~handling
  <2> DEFINE m == [message[old.at] EXCEPT !.gaveUp = @ \/ old.pc \in {"start", "cancel", "cleanup"}]
             c == coroutine[old.at]
  <2>1. old.pc \in Active
    BY <1>6 DEF Active
  <2>2. /\ old.at \in Ids /\ message[old.at] \in Message /\ c \in Coroutine
        /\ Task(old, message[old.at], c.state)
        /\ coroutine = [coroutine EXCEPT ![old.at] = c]
    BY <2>1, Held
  <2>3. /\ thread' = [thread EXCEPT ![t] = After(t, "exception")]
        /\ message' = [message EXCEPT ![old.at] = m]
        /\ coroutine' = coroutine
    BY <1>6 DEF Interrupted
  <2>4. /\ m \in Message /\ m.taken /\ m.settled = message[old.at].settled
        /\ c.state \in Quiet \/ m.gaveUp
    BY <1>6, <2>1, <2>2 DEF Message, Task, Quiet
  <2> HIDE DEF m
  <2>5. \/ old.pc = "before" \/ InCall(old)
        \/ old.pc = "after" /\ old.why = "result"
    BY <1>6 DEF InCall
  <2> QED BY <2>1, <2>2, <2>3, <2>4, <2>5, AfterStep DEF Kept
<1>7. old.pc \in {"idle", "taken", "before", "actor", "start", "await", "cancel", "cleanup",
                 "after", "post"}
  BY <1>1 DEF Thread, Ended
<1> QED BY <1>2, <1>3, <1>4, <1>5, <1>6, <1>7

LEMMA DeliverStep ==
  ASSUME IInv, NEW t \in Threads, Deliver(t)
  PROVE  Kept
<1>1. /\ ~Ended(t) /\ Interrupted(t)
      /\ pending' \subseteq Threads
      /\ UNCHANGED <<setup, deadlines, killing, notifications, main, inprogress, coroutine>>
  BY DEF Deliver, monitors, IInv, Types
<1> QED BY <1>1, InterruptedStep
-----------------------------------------------------------------------------
(* The other threads.                                                      *)

(* A step that leaves the worker threads and their messages alone.         *)
LEMMA AsideStep ==
  ASSUME IInv,
         UNCHANGED <<setup, thread, notifications, inprogress, message, coroutine>>,
         pending' \subseteq Threads, deadlines' \subseteq deadlines,
         killing' \subseteq Threads, main' \in Main
  PROVE  Kept
<1>1. Types'
  BY DEF IInv, Types
<1>2. Tasks' /\ Apart' /\ Waiting'
  BY DEF IInv, Tasks, Task, Apart, Waiting, Uses, Left, Places
<1>3. \A hook : Open(hook)' = Open(hook)
  BY DEF Open, Entered, InCall, Uses, Left, Places
<1>4. Spent' = Spent
  BY DEF Spent, Exits, Left
<1>5. Cardinality(Open("prometheus"))' = Cardinality(Open("prometheus"))
      /\ Cardinality(Spent)' = Cardinality(Spent)
  BY <1>3, <1>4, Zenon
<1>6. Bounds'
  BY <1>3, <1>5 DEF IInv, Bounds
<1> QED BY <1>1, <1>2, <1>6 DEF IInv, Kept, Settles

LEMMA ExpireStep ==
  ASSUME IInv, NEW t \in Threads, Expire(t)
  PROVE  Kept
<1>1. /\ UNCHANGED <<setup, pending, killing, notifications, inprogress, main, coroutine>>
      /\ deadlines' \subseteq deadlines /\ pending' \subseteq Threads
      /\ killing' \subseteq Threads /\ main' \in Main
  BY DEF Expire, IInv, Types
<1>2. CASE Ended(t)
  <2>1. UNCHANGED <<thread, message>>
    BY <1>2 DEF Expire
  <2> QED BY <1>1, <2>1, AsideStep
<1>3. CASE ~Ended(t)
  <2>1. Interrupted(t)
    BY <1>3 DEF Expire
  <2> QED BY <1>1, <1>3, <2>1, InterruptedStep
<1> QED BY <1>2, <1>3

LEMMA DropStep ==
  ASSUME IInv, NEW t \in Threads, Drop(t)
  PROVE  Kept
<1>1. /\ UNCHANGED <<setup, thread, pending, killing, notifications, inprogress, message,
                     coroutine, main>>
      /\ deadlines' \subseteq deadlines
  BY DEF Drop
<1>2. pending' \subseteq Threads /\ killing' \subseteq Threads /\ main' \in Main
  BY <1>1 DEF IInv, Types
<1> QED BY <1>1, <1>2, AsideStep

LEMMA ManagerStep ==
  ASSUME IInv, HandleDeadlines \/ RaiseTimeLimit
  PROVE  Kept
<1>1. Types
  BY DEF IInv
<1>2. CASE HandleDeadlines
  <2>1. /\ UNCHANGED <<setup, thread, pending, notifications, inprogress, message,
                       coroutine, main>>
        /\ killing' \subseteq Threads /\ deadlines' \subseteq deadlines
    BY <1>1, <1>2 DEF HandleDeadlines, Types
  <2>2. pending' \subseteq Threads /\ main' \in Main
    BY <1>1, <2>1 DEF Types
  <2> QED BY <2>1, <2>2, AsideStep
<1>3. CASE RaiseTimeLimit
  <2>1. /\ UNCHANGED <<setup, thread, deadlines, notifications, inprogress, message,
                       coroutine, main>>
        /\ killing' \subseteq Threads /\ pending' \subseteq Threads
    BY <1>1, <1>3 DEF RaiseTimeLimit, Types
  <2>2. deadlines' \subseteq deadlines /\ main' \in Main
    BY <1>1, <2>1 DEF Types
  <2> QED BY <2>1, <2>2, AsideStep
<1> QED BY <1>2, <1>3

LEMMA MainStep ==
  ASSUME IInv, Shutdown \/ NotifyNext \/ Joined
  PROVE  Kept
<1>1. Types /\ main \in Main /\ main.left \subseteq Threads /\ pending \subseteq Threads
      /\ notifications \subseteq Threads
  BY DEF IInv, Types, Main
<1>2. UNCHANGED <<setup, thread, deadlines, killing, notifications, inprogress,
                  message, coroutine>>
  BY DEF Shutdown, NotifyNext, Joined, MainOnly
<1>3. main' \in Main /\ pending' \subseteq Threads
  <2>1. CASE Shutdown
    <3>1. IsFiniteSet(Threads) /\ IsFiniteSet(notifications)
          /\ Cardinality(notifications) <= Cardinality(Threads)
      BY <1>1, InterruptsAssumption, FS_Subset
    <3>2. Cardinality(notifications) \in Nat /\ Cardinality(Threads) \in Nat
      BY <3>1, FS_CardinalityType
    <3>3. Cardinality(notifications) \in 0 .. Cardinality(Threads)
      BY <3>1, <3>2
    <3>4. main' = [main EXCEPT !.pc = "notify", !.left = notifications,
                               !.size = Cardinality(notifications)]
          /\ pending' = pending
      BY <2>1 DEF Shutdown
    <3> QED BY <1>1, <3>3, <3>4 DEF Main
  <2>2. CASE NotifyNext
    <3>1. CASE main' = [main EXCEPT !.pc = "stopping", !.left = {}, !.broke = TRUE]
               /\ pending' = pending
      BY <1>1, <3>1 DEF Main
    <3>2. CASE main' = [main EXCEPT !.pc = "stopping"] /\ pending' = pending
      BY <1>1, <3>2 DEF Main
    <3>3. CASE \E t \in main.left :
                 /\ main' = [main EXCEPT !.left = @ \ {t}]
                 /\ pending' = IF Ended(t) THEN pending ELSE pending \cup {t}
      BY <1>1, <3>3 DEF Main
    <3> QED BY <2>2, <3>1, <3>2, <3>3 DEF NotifyNext
  <2>3. CASE Joined
    BY <1>1, <2>3 DEF Joined, Main
  <2> QED BY <2>1, <2>2, <2>3
<1>4. deadlines' \subseteq deadlines /\ killing' \subseteq Threads
  BY <1>1, <1>2 DEF Types
<1> QED BY <1>2, <1>3, <1>4, AsideStep

(* The loop never makes a coroutine unfinished again, nor one of a message
   that waits.                                                             *)
LEMMA LoopStep ==
  ASSUME IInv, NEW id \in Ids, LoopStarts(id) \/ LoopCancels(id) \/ LoopEnds(id)
  PROVE  Kept
<1>1. Types /\ coroutine[id] \in Coroutine
  BY DEF IInv, Types
<1>2. UNCHANGED <<setup, thread, pending, deadlines, killing, notifications, inprogress,
                  message, main>>
  BY DEF LoopStarts, LoopCancels, LoopEnds, LoopOnly, monitors
<1>3. PICK state \in {"running", "cleanup", "over", "dropped"} :
        /\ coroutine' = [coroutine EXCEPT ![id].state = state]
        /\ coroutine[id].state \in {"queued", "running", "cleanup"}
  BY DEF LoopStarts, LoopCancels, LoopEnds, State
<1>4. [coroutine[id] EXCEPT !.state = state] \in Coroutine
  BY <1>1 DEF Coroutine
<1>5. coroutine' \in [Ids -> Coroutine]
  BY <1>1, <1>3, <1>4 DEF Types
<1>6. Types'
  BY <1>1, <1>2, <1>5 DEF Types
<1>7. \A i \in Ids : coroutine'[i].state # coroutine[i].state =>
        coroutine[i].state \in {"queued", "running", "cleanup"}
  <2>1. \A i \in Ids \ {id} : coroutine'[i] = coroutine[i]
    BY <1>1, <1>3 DEF Types
  <2> QED BY <1>3, <2>1
<1>8. Tasks'
  <2>1. ASSUME NEW t \in Threads, thread[t].at \in Ids
        PROVE  Task(thread[t], message[thread[t].at], coroutine'[thread[t].at].state)
    <3>1. Task(thread[t], message[thread[t].at], coroutine[thread[t].at].state)
      BY <2>1 DEF IInv, Tasks
    <3> QED BY <1>7, <2>1, <3>1 DEF Task, Quiet
  <2>2. ASSUME NEW t \in Threads
        PROVE  /\ thread[t].pc \in Active => thread[t].at \in Ids
               /\ thread[t].pc \in {"idle", "stopped"} => thread[t].at = None
               /\ thread[t].todo \subseteq Places
    BY DEF IInv, Tasks
  <2> QED BY <1>2, <2>1, <2>2 DEF Tasks, Task, Uses, Left, Places
<1>9. Apart' /\ Waiting'
  BY <1>2, <1>7 DEF IInv, Apart, Waiting
<1>10. \A hook : Open(hook)' = Open(hook)
  BY <1>2 DEF Open, Entered, InCall, Uses, Left, Places
<1>11. Spent' = Spent
  BY <1>2 DEF Spent, Exits, Left
<1>12. Cardinality(Open("prometheus"))' = Cardinality(Open("prometheus"))
       /\ Cardinality(Spent)' = Cardinality(Spent)
  BY <1>10, <1>11, Zenon
<1>13. Bounds'
  BY <1>2, <1>10, <1>12 DEF IInv, Bounds
<1> QED BY <1>2, <1>6, <1>8, <1>9, <1>13 DEF IInv, Kept, Settles

-----------------------------------------------------------------------------
(* The invariant.                                                          *)

LEMMA InitHolds == Init => IInv
<1> SUFFICES ASSUME Init PROVE IInv
  OBVIOUS
<1>1. /\ \A t \in Threads : thread[t] = [pc |-> "idle", at |-> None, todo |-> {}, why |-> "none"]
      /\ \A id \in Ids : message[id] = Untouched
      /\ \A id \in Ids : coroutine[id] = [state |-> "none", cancel |-> FALSE]
  BY DEF Init
<1>2. None \notin Ids
  BY InterruptsAssumption
<1>3. Types
  <2>1. thread \in [Threads -> Thread]
    BY DEF Init, Thread
  <2>2. message \in [Ids -> Message]
    BY DEF Init, Message, Untouched
  <2>3. coroutine \in [Ids -> Coroutine]
    BY DEF Init, Coroutine
  <2>4. main \in Main
    <3>1. Cardinality(Threads) \in Nat
      BY InterruptsAssumption, FS_CardinalityType
    <3>2. 0 \in 0 .. Cardinality(Threads)
      BY <3>1
    <3>3. main = [pc |-> "up", left |-> {}, size |-> 0, broke |-> FALSE, late |-> FALSE]
          /\ {} \in SUBSET Threads
      BY DEF Init
    <3> DEFINE sizes == 0 .. Cardinality(Threads)
    <3>4. 0 \in sizes
      BY <3>2
    <3> HIDE DEF sizes
    <3>5. main \in [pc : {"up", "notify", "stopping", "done"}, left : SUBSET Threads,
                    size : sizes, broke : BOOLEAN, late : BOOLEAN]
      BY <3>3, <3>4
    <3> QED BY <3>5 DEF Main, sizes
  <2>5. /\ setup \in Setups
        /\ pending \subseteq Threads /\ deadlines \subseteq Threads
        /\ killing \subseteq Threads /\ notifications \subseteq Threads
        /\ inprogress \in Int
    BY DEF Init
  <2> QED BY <2>1, <2>2, <2>3, <2>4, <2>5 DEF Types
<1>4. Tasks
  BY <1>1, <1>2 DEF Tasks, Active
<1>5. Apart
  BY <1>1, <1>2 DEF Apart
<1>6. Waiting
  BY <1>1 DEF Waiting, Untouched
<1>7. Bounds
  <2>1. Cardinality(Open("prometheus")) \in Nat /\ Cardinality(Spent) \in Nat
    BY OpenFinite, SpentFinite
  <2> QED BY <2>1 DEF Init, Bounds
<1> QED BY <1>3, <1>4, <1>5, <1>6, <1>7 DEF IInv

LEMMA Stutters == IInv /\ UNCHANGED vars => Kept
<1> SUFFICES ASSUME IInv, UNCHANGED vars PROVE Kept
  OBVIOUS
<1>1. UNCHANGED <<setup, thread, pending, deadlines, killing, notifications, inprogress,
                  message, coroutine, main>>
  BY DEF vars
<1>2. /\ pending' \subseteq Threads /\ deadlines' \subseteq deadlines
      /\ killing' \subseteq Threads /\ main' \in Main
  BY <1>1 DEF IInv, Types
<1> QED BY <1>1, <1>2, AsideStep

LEMMA NextHolds == IInv /\ [Next]_vars => IInv' /\ Settled
<1> SUFFICES ASSUME IInv, [Next]_vars PROVE IInv' /\ Settled
  OBVIOUS
<1>1. Kept => IInv' /\ Settled
  BY DEF Kept, Settled
<1>2. CASE UNCHANGED vars
  BY <1>1, <1>2, Stutters
<1>3. ASSUME NEW t \in Threads,
             Proceed(t) \/ ActorEnds(t) \/ Deliver(t) \/ Expire(t) \/ Drop(t)
      PROVE  IInv' /\ Settled
  <2>1. CASE Take(t)
    BY <1>1, <2>1, TakeStep
  <2>2. CASE Leave(t)
    BY <1>1, <2>2, LeaveStep
  <2>3. CASE Begin(t)
    BY <1>1, <2>3, BeginStep
  <2>4. CASE BeforeHook(t)
    BY <1>1, <2>4, BeforeHookStep
  <2>5. CASE Call(t)
    BY <1>1, <2>5, CallStep
  <2>6. CASE CoroutineEnds(t)
    <3>1. /\ thread[t].pc \in {"actor", "await"} /\ Ends(t)
          /\ coroutine[thread[t].at].state \in Quiet
          /\ UNCHANGED <<setup, monitors, pending, inprogress, coroutine>>
      BY <2>6 DEF CoroutineEnds, At, Quiet
    <3> QED BY <1>1, <3>1, EndsStep
  <2>7. CASE AwaitCleanup(t)
    BY <1>1, <2>7, AwaitCleanupStep
  <2>8. CASE AfterHook(t)
    BY <1>1, <2>8, AfterHookStep
  <2>9. CASE HooksDone(t)
    BY <1>1, <2>9, HooksDoneStep
  <2>10. CASE Post(t)
    BY <2>10, PostStep
  <2>11. CASE ActorEnds(t)
    <3>1. thread[t].pc = "actor" /\ thread[t].pc \in Active
      BY <2>11 DEF ActorEnds, Active
    <3>2. coroutine[thread[t].at].state \in Quiet
      BY <3>1, Held DEF Task, Quiet
    <3>3. /\ thread[t].pc \in {"actor", "await"} /\ Ends(t)
          /\ UNCHANGED <<setup, monitors, pending, inprogress, coroutine>>
      BY <2>11 DEF ActorEnds
    <3> QED BY <1>1, <3>2, <3>3, EndsStep
  <2>12. CASE Deliver(t)
    BY <1>1, <2>12, DeliverStep
  <2>13. CASE Expire(t)
    BY <1>1, <2>13, ExpireStep
  <2>14. CASE Await(t)
    BY <1>1, <2>14, AwaitStep
  <2>15. CASE Cancel(t)
    BY <1>1, <2>15, CancelStep
  <2>16. CASE Drop(t)
    BY <1>1, <2>16, DropStep
  <2> QED BY <1>3, <2>1, <2>2, <2>3, <2>4, <2>5, <2>6, <2>7, <2>8, <2>9, <2>10,
             <2>11, <2>12, <2>13, <2>14, <2>15, <2>16 DEF Proceed
<1>4. CASE HandleDeadlines \/ RaiseTimeLimit
  BY <1>1, <1>4, ManagerStep
<1>5. ASSUME NEW id \in Ids, LoopStarts(id) \/ LoopCancels(id) \/ LoopEnds(id)
      PROVE  IInv' /\ Settled
  BY <1>1, <1>5, LoopStep
<1>6. CASE Shutdown \/ NotifyNext \/ Joined
  BY <1>1, <1>6, MainStep
<1> QED BY <1>2, <1>3, <1>4, <1>5, <1>6 DEF Next

(* The timers of gevent.                                                   *)
Strays ==
  /\ thrown \subseteq Threads /\ stray \in [Threads -> Nat]
  /\ thrown # {} => setup.manager = "gevent"
  /\ \A t \in Threads : stray[t] > 0 => setup.manager = "gevent"

LEMMA StraysInit == Init => Strays
BY DEF Init, Strays

LEMMA StraysKept == Strays /\ [Next]_vars => Strays'
<1> SUFFICES ASSUME Strays, [Next]_vars PROVE Strays'
  OBVIOUS
<1>1. UNCHANGED <<setup, timers>> => Strays'
  BY DEF Strays, timers
<1>2. CASE UNCHANGED vars
  BY <1>1, <1>2 DEF vars, timers
<1>3. ASSUME NEW t \in Threads, Proceed(t) PROVE UNCHANGED <<setup, timers>>
  <2>1. Take(t) \/ Leave(t) \/ Begin(t) \/ Call(t) \/ Await(t) \/ HooksDone(t) \/ Post(t)
          => UNCHANGED <<setup, timers>>
    BY DEF Take, Leave, Begin, Call, Await, HooksDone, Post, monitors
  <2>2. CoroutineEnds(t) \/ Cancel(t) \/ AwaitCleanup(t) => UNCHANGED <<setup, timers>>
    BY DEF CoroutineEnds, Cancel, AwaitCleanup, monitors
  <2>3. BeforeHook(t) => UNCHANGED <<setup, timers>>
    BY DEF BeforeHook, CheckAge, AddTimeout, AddNotification, Increment, monitors
  <2>4. AfterHook(t) => UNCHANGED <<setup, timers>>
    BY DEF AfterHook
  <2> QED BY <1>3, <2>1, <2>2, <2>3, <2>4 DEF Proceed
<1>4. ASSUME NEW t \in Threads, ActorEnds(t) \/ Deliver(t) PROVE UNCHANGED <<setup, timers>>
  BY <1>4 DEF ActorEnds, Deliver, monitors
<1>5. ASSUME NEW t \in Threads, Expire(t) PROVE Strays'
  <2>1. \/ stray' = stray
        \/ stray[t] > 0 /\ stray' = [stray EXCEPT ![t] = @ - 1]
    BY <1>5 DEF Expire
  <2>2. thrown' = {t} /\ setup' = setup /\ setup.manager = "gevent"
    BY <1>5 DEF Expire
  <2> QED BY <2>1, <2>2 DEF Strays
<1>6. ASSUME NEW t \in Threads, Drop(t) PROVE Strays'
  <2>1. stray' = [stray EXCEPT ![t] = IF t \in deadlines THEN @ + 1 ELSE @]
    BY <1>6 DEF Drop
  <2>2. thrown' = {} /\ setup' = setup /\ setup.manager = "gevent"
    BY <1>6 DEF Drop, Strays
  <2> QED BY <1>6, <2>1, <2>2 DEF Strays
<1>7. CASE HandleDeadlines \/ RaiseTimeLimit
  BY <1>1, <1>7 DEF HandleDeadlines, RaiseTimeLimit
<1>8. ASSUME NEW id \in Ids, LoopStarts(id) \/ LoopCancels(id) \/ LoopEnds(id)
      PROVE  UNCHANGED <<setup, timers>>
  BY <1>8 DEF LoopStarts, LoopCancels, LoopEnds, LoopOnly, monitors
<1>9. CASE Shutdown \/ NotifyNext \/ Joined
  BY <1>1, <1>9 DEF Shutdown, NotifyNext, Joined, MainOnly
<1> QED BY <1>1, <1>2, <1>3, <1>4, <1>5, <1>6, <1>7, <1>8, <1>9 DEF Next

LEMMA Shown == IInv /\ Strays => NothingLeftBehind
<1> SUFFICES ASSUME IInv, Strays PROVE NothingLeftBehind
  OBVIOUS
<1> DEFINE between == {t \in Threads : thread[t].pc \in {"idle", "taken", "stopped"}}
<1>1. /\ IsFiniteSet(Spent) /\ Cardinality(Spent) \in Nat
      /\ Cardinality(Spent) <= Cardinality(Ids) * 2
      /\ Cardinality(Open("prometheus")) \in Nat
      /\ Cardinality(Open("prometheus")) <= Cardinality(Threads)
  BY SpentFinite, OpenFinite
<1>2. Cardinality(Ids) \in Nat /\ Cardinality(Threads) \in Nat
  BY InterruptsAssumption, FS_CardinalityType
<1>3. /\ inprogress \in Int /\ inprogress <= Cardinality(Open("prometheus"))
      /\ 0 - Cardinality(Spent) <= inprogress
      /\ deadlines \subseteq Open("time") /\ notifications \subseteq Open("shutdown")
  BY DEF IInv, Types, Bounds
<1>4. inprogress \in (0 - Cardinality(Ids) * 2) .. Cardinality(Threads)
  <2> DEFINE a == Cardinality(Ids) * 2
  <2>1. a \in Int
    BY <1>2
  <2>2. Cardinality(Spent) <= a
    BY <1>1
  <2> HIDE DEF a
  <2>3. inprogress \in (0 - a) .. Cardinality(Threads)
    BY <1>1, <1>2, <1>3, <2>1, <2>2
  <2> QED BY <2>3 DEF a
<1>5. TypeOK
  BY <1>4 DEF TypeOK, IInv, Types, Coroutine, Strays
<1>6. \A hook : Open(hook) \subseteq Threads \ between
  BY DEF Open, Entered, InCall
<1>7. between \cap (deadlines \cup notifications) = {}
  BY <1>3, <1>6
<1>8. Cardinality(Open("prometheus")) <= Cardinality(Threads \ between)
      /\ Cardinality(Threads \ between) \in Nat
  <2>1. IsFiniteSet(Threads \ between)
    BY InterruptsAssumption, FS_Subset
  <2> HIDE DEF between
  <2> QED BY <1>6, <2>1, FS_Subset, FS_CardinalityType
<1> HIDE DEF between
<1>9. inprogress <= Cardinality(Threads \ between)
  BY <1>1, <1>3, <1>8
<1> QED BY <1>5, <1>7, <1>9 DEF NothingLeftBehind, between, Strays

(* The inductive invariant.  Each thread's record is tied to its message and
   to the coroutine of that message, no two threads hold one message, and a
   deadline, a registration or a count of the gauge belongs to a thread that
   went through the hook which makes it and not yet the one which takes it. *)
THEOREM Invariant == Spec => []IInv
<1>1. Init => IInv
  BY InitHolds
<1>2. IInv /\ [Next]_vars => IInv'
  BY NextHolds
<1> QED BY <1>1, <1>2, PTL DEF Spec

(* However a worker is set up and wherever its threads are interrupted, one
   that is between two messages has left no deadline that its manager knows
   and no registration for notifications behind, only gevent leaves timers
   that nobody knows any more (time_limit.py:184), and the gauge counts no
   more than the threads that are processing a message (time_limit.py:96,
   shutdown.py:72).                                                        *)
THEOREM NothingLeft == Spec => []NothingLeftBehind
<1>1. Spec => []Strays
  BY StraysInit, StraysKept, PTL DEF Spec
<1> QED BY <1>1, Invariant, Shown, PTL

(* A message is acked only if its actor succeeded, another message carries
   the job on or the handling of its failure was cut (worker.py:600).      *)
THEOREM AckedDone == Spec => AckedIsDone
<1>1. IInv /\ [Next]_vars =>
        [\A id \in Ids : Settles(id) /\ message'[id].settled = "ack" /\ Retrying =>
           message[id].succeeded \/ message[id].retried \/ message[id].cut]_vars
  <2> SUFFICES ASSUME IInv, [Next]_vars, NEW id \in Ids, Settles(id),
                      message'[id].settled = "ack", Retrying
               PROVE  message[id].succeeded \/ message[id].retried \/ message[id].cut
    OBVIOUS
  <2>1. Settled
    BY NextHolds
  <2>2. Uses("retries")
    BY DEF Retrying, Range, Uses, Places
  <2> QED BY <2>1, <2>2 DEF Settled
<1> QED BY <1>1, Invariant, PTL DEF Spec, AckedIsDone

(* When a message is settled its coroutine is over or never ran, unless the
   wait for it was given up or never begun (asyncio.py:142).               *)
THEOREM CoroutinesDone == Spec => CoroutinesEnd
<1>1. IInv /\ [Next]_vars =>
        [\A id \in Ids : Settles(id) =>
           coroutine[id].state \in {"none", "over", "dropped"} \/ message[id].gaveUp]_vars
  BY NextHolds DEF Settled, Quiet
<1> QED BY <1>1, Invariant, PTL DEF Spec, CoroutinesEnd
=============================================================================
