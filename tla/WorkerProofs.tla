----------------------------- MODULE WorkerProofs -----------------------------
(***************************************************************************)
(* Proofs about Worker, for any queues, threads, jobs and setups.          *)
(***************************************************************************)
EXTENDS Worker, RedisStoreProofs, FiniteSetTheorems, TLAPS

-----------------------------------------------------------------------------
(* The inductive invariant, in parts.                                      *)

(* A message of queue n is held in place p.                                *)
In(n, p, id) ==
  \/ p = "cache" /\ id \in ToSet(consumer[n].cache)
  \/ p = "hand" /\ consumer[n].at = id
  \/ p = "delayQ" /\ id \in consumer[n].delayQ
  \/ p = "workQueue" /\ <<id, n>> \in workQueue
  \/ p = "drained" /\ <<id, n>> \in main.drained
  \/ p \in Threads /\ thread[p].queue = n /\ thread[p].at = id
Listed(n, id) == id \in ToSet(store.list[n])

(* What is in hand where, and how many delayed messages are pending.       *)
Copying(c) == IF c.pc \in {"copy", "ackcopy"} THEN 1 ELSE 0
Stages ==
  /\ \A n \in QueueNames :
       /\ consumer[n].at # None
            <=> consumer[n].pc \in {"handle", "reject", "copy", "ackcopy"}
       /\ Cardinality(consumer[n].delayQ) + Copying(consumer[n]) <= consumer[n].pending
  /\ \A t \in Threads : thread[t].at # None <=> thread[t].pc \in {"run", "post"}

(* Messages that are somewhere carry a job: a fresh one is nowhere.        *)
Known ==
  \A n \in QueueNames, id \in Ids :
    (\E p \in Places : In(n, p, id)) \/ Listed(n, id) \/ id \in store.msgs[n]
      => job[id] \in Jobs

Custody ==
  \A n \in QueueNames, id \in Ids, p \in Places : In(n, p, id) =>
    /\ ~Listed(n, id)
    /\ \A r \in Places : In(n, r, id) => r = p
Distinct ==
  \A n \in QueueNames : IsInjective(store.list[n]) /\ IsInjective(consumer[n].cache)

(* A message that is about to be acked, or was not acked the first time.   *)
Doomed(id) ==
  \/ \E n \in QueueNames : consumer[n].pc = "ackcopy" /\ consumer[n].at = id
  \/ \E t \in Threads : thread[t].pc = "post" /\ thread[t].at = id
Carried(j) ==
  \E id \in Ids, n \in QueueNames : job[id] = j /\ id \in store.msgs[n] /\ ~Doomed(id)
Over == finished \cup unretried
Alive ==
  /\ \A id \in Ids : job[id] \in Over \cup {NoJob} \/ Carried(job[id])
  /\ \A n \in QueueNames : consumer[n].pc = "reject" => job[consumer[n].at] \in Over

KeptIn(n) ==
  /\ \A id \in store.acks[Me][n] : \E p \in Places : In(n, p, id)
  /\ consumer[n].pc \notin {"error", "dead"}
  /\ consumer[n].pc \in {"new", "top", "paused", "restart"} => consumer[n].cache = <<>>
Kept == NoError => \A n \in QueueNames : KeptIn(n)
Ends ==
  ~main.gaveUp =>
    /\ main.pc \in {"joining", "draining", "requeue", "closing", "done"} =>
         \A t \in Threads : thread[t].pc = "stopped"
    /\ main.pc \in {"draining", "requeue", "closing", "done"} =>
         \A n \in QueueNames : consumer[n].pc \in {"stopped", "dead"}
    /\ main.pc \in {"requeue", "closing", "done"} => workQueue = {}
    /\ main.pc \in {"closing", "done"} =>
         /\ main.drained = {}
         /\ \A n \in QueueNames \ main.toClose : consumer[n].delayQ = {}
    /\ main.pc = "done" => main.toClose = {}

(* A child whose flag was set, and its event cleared since, signals only
   when it is at rest.                                                     *)
QuietConsumer(n) ==
  /\ consumer[n].pc # "new" => running[n]
  /\ paused[n] /\ n \notin main.toClear /\ consumer[n].event
       => consumer[n].pc \in {"top", "paused"}
QuietThread(t) ==
  /\ thread[t].pc # "new" => running[t]
  /\ paused[t] /\ t \notin main.toClear /\ thread[t].event
       => thread[t].pc \in {"idle", "paused"}
Quiet ==
  /\ \A c, d \in main.toClear : c = d
  /\ main.pc = "pausing" \/ Paused => main.pauses > 0
  /\ main.pc = "pausing" => \A c \in Children : paused[c] <=> c \notin main.toTell
  /\ main.pc = "resuming" => \A c \in Children : paused[c] => c \in main.toTell
  /\ main.pc = "up" => /\ AllTold
                       /\ Paused => AllPaused /\ \A c \in Children : paused[c]
  /\ main.pc \in {"up", "pausing"} => /\ \A n \in QueueNames : QuietConsumer(n)
                                      /\ \A t \in Threads : QuietThread(t)
  /\ main.pc = "resuming" => /\ \A n \in QueueNames : consumer[n].pc # "new" => running[n]
                             /\ \A t \in Threads : thread[t].pc # "new" => running[t]

Typed == TypeOK /\ Stages /\ Known
-----------------------------------------------------------------------------
(* The store: what each command changes of it.                             *)

LEMMA ServerFacts ==
  ASSUME TypeOK
  PROVE  /\ Me \in Workers /\ Server \in Store /\ store \in Store
         /\ Server.list = store.list /\ Server.msgs = store.msgs /\ Server.acks = store.acks
<1>1. Me \in Workers /\ store \in Store
  BY WorkerAssumption DEF TypeOK
<1> QED BY <1>1, HeartbeatFacts DEF Server

LEMMA SettleStore ==
  ASSUME TypeOK, NEW n \in QueueNames, NEW id \in Ids
  PROVE  /\ Settled(store, Acknowledged(Server, Me, n, id), Me, n, id)
         /\ Settled(store, Nacked(Server, Me, n, id), Me, n, id)
<1>1. /\ Settled(Server, Acknowledged(Server, Me, n, id), Me, n, id)
      /\ Settled(Server, Nacked(Server, Me, n, id), Me, n, id)
  BY ServerFacts, SettleFacts
<1>2. ASSUME NEW t, Settled(Server, t, Me, n, id) PROVE Settled(store, t, Me, n, id)
  BY <1>2, ServerFacts DEF Settled, Frames
<1> QED BY <1>1, <1>2

LEMMA EnqueueStore ==
  ASSUME TypeOK, NEW n \in QueueNames, NEW id \in Ids
  PROVE  /\ Joined(store, Enqueued(Server, n, id), Me, n, id)
         /\ Joined(store, Enqueued(store, n, id), Me, n, id)
<1>1. /\ Joined(Server, Enqueued(Server, n, id), Me, n, id)
      /\ Joined(store, Enqueued(store, n, id), Me, n, id)
  BY ServerFacts, EnqueueFacts
<1>2. ASSUME NEW t, Joined(Server, t, Me, n, id) PROVE Joined(store, t, Me, n, id)
  BY <1>2, ServerFacts DEF Joined, Frames
<1> QED BY <1>1, <1>2

LEMMA FetchStore ==
  ASSUME TypeOK, NEW n \in QueueNames, NEW size \in Nat
  PROVE  /\ Taken(store, Fetched(Server, Me, n, size), Me, n, Popped(Server, n, size))
         /\ Len(Popped(Server, n, size)) <= size
<1>1. /\ Taken(Server, Fetched(Server, Me, n, size), Me, n, Popped(Server, n, size))
      /\ Len(Popped(Server, n, size)) <= size
  BY ServerFacts, FetchFacts
<1>2. ASSUME NEW t, NEW p, Taken(Server, t, Me, n, p) PROVE Taken(store, t, Me, n, p)
  BY <1>2, ServerFacts DEF Taken, Frames
<1> QED BY <1>1, <1>2

LEMMA RequeueStore ==
  ASSUME TypeOK, NEW n \in QueueNames, NEW ids \in SUBSET Ids,
         NEW o \in Orders(Returnable(Server, Me, n, ids))
  PROVE  Returned(store, Requeued(Server, Me, n, ids, o), Me, n, ids)
<1>1. Returned(Server, Requeued(Server, Me, n, ids, o), Me, n, ids)
  BY ServerFacts, RequeueFacts
<1>2. ASSUME NEW t, Returned(Server, t, Me, n, ids) PROVE Returned(store, t, Me, n, ids)
  BY <1>2, ServerFacts DEF Returned, Frames
<1> QED BY <1>1, <1>2

(* What a call to give messages back may do, and what it does for sure if
   it does not fail.                                                       *)
GivesBack(n, ids) ==
  /\ store' \in Store /\ failures' \in 0 .. setup.failures
  /\ (store' = store) \/ Returned(store, store', Me, n, ids)
  /\ failures' = 0 => /\ failures = 0
                      /\ (ids = {} /\ store' = store) \/ Returned(store, store', Me, n, ids)
-----------------------------------------------------------------------------
(* What each action does to the threads, field by field.                   *)

(* Consumer n changes to these fields, and no other consumer changes.      *)
Turns(n, pc, at, cache, queued, delayQ, pending, event) ==
  /\ consumer' \in [QueueNames -> Consumer]
  /\ \A m \in QueueNames \ {n} : consumer'[m] = consumer[m]
  /\ consumer'[n].pc = pc /\ consumer'[n].at = at /\ consumer'[n].cache = cache
  /\ consumer'[n].queued = queued /\ consumer'[n].delayQ = delayQ
  /\ consumer'[n].pending = pending /\ consumer'[n].event = event

LEMMA ConsumerTypes ==
  ASSUME TypeOK, NEW n \in QueueNames
  PROVE  /\ consumer \in [QueueNames -> Consumer] /\ consumer[n] \in Consumer
         /\ consumer[n].pc \in {"new", "top", "paused", "next", "handle", "reject", "delayed",
                       "copy", "ackcopy", "error", "restart", "stopped", "dead"}
         /\ consumer[n].at \in Ids \cup {None} /\ consumer[n].cache \in Seq(Ids)
         /\ consumer[n].queued \subseteq Jobs /\ consumer[n].delayQ \subseteq Ids
         /\ consumer[n].pending \in Nat /\ consumer[n].event \in BOOLEAN
<1>1. consumer \in [QueueNames -> Consumer]
  BY DEF TypeOK
<1> QED BY <1>1 DEF Consumer

LEMMA TurnsTo ==
  ASSUME TypeOK, NEW n \in QueueNames, NEW c \in Consumer,
         consumer' = [consumer EXCEPT ![n] = c]
  PROVE  Turns(n, c.pc, c.at, c.cache, c.queued, c.delayQ, c.pending, c.event)
BY ConsumerTypes DEF Turns

LEMMA GotoEffect ==
  ASSUME TypeOK, NEW n \in QueueNames, NEW pc, consumer' = Goto(n, pc),
         pc \in {"top", "next", "restart", "delayed", "paused", "stopped", "ackcopy", "reject"}
  PROVE  Turns(n, pc, consumer[n].at, consumer[n].cache, consumer[n].queued,
               consumer[n].delayQ, consumer[n].pending, consumer[n].event)
<1> DEFINE c == [consumer[n] EXCEPT !.pc = pc]
<1>1. consumer' = [consumer EXCEPT ![n] = c]
  BY DEF Goto
<1>2. /\ c \in Consumer /\ c.pc = pc /\ c.at = consumer[n].at
      /\ c.cache = consumer[n].cache /\ c.queued = consumer[n].queued
      /\ c.delayQ = consumer[n].delayQ /\ c.pending = consumer[n].pending
      /\ c.event = consumer[n].event
  BY ConsumerTypes DEF Consumer
<1> QED BY <1>1, <1>2, TurnsTo

LEMMA NextCachedEffect ==
  ASSUME TypeOK, Known, NEW n \in QueueNames, NextCached(n)
  PROVE  LET id == Head(consumer[n].cache)
             rest == Tail(consumer[n].cache)
         IN  \/ /\ job[id] \in setup.poison
                /\ Turns(n, "error", consumer[n].at, rest, consumer[n].queued,
                         consumer[n].delayQ, consumer[n].pending, consumer[n].event)
             \/ Turns(n, "handle", id, rest, consumer[n].queued \cup {job[id]},
                      consumer[n].delayQ, consumer[n].pending, consumer[n].event)
<1> DEFINE id == Head(consumer[n].cache)
           rest == Tail(consumer[n].cache)
<1>1. consumer[n].cache \in Seq(Ids) /\ consumer[n].cache # <<>>
  BY ConsumerTypes DEF NextCached
<1>2. id \in Ids /\ rest \in Seq(Ids) /\ id \in ToSet(consumer[n].cache)
  BY <1>1 DEF ToSet
<1> HIDE DEF id, rest
<1>5. job[id] \in Jobs
  <2>1. In(n, "cache", id) /\ "cache" \in Places
    BY <1>2 DEF In, Places
  <2> QED BY <1>2, <2>1 DEF Known
<1>3. CASE job[id] \in setup.poison
  <2> DEFINE c == [consumer[n] EXCEPT !.cache = rest, !.pc = "error"]
  <2>1. consumer' = [consumer EXCEPT ![n] = c]
    BY <1>3, ConsumerTypes DEF NextCached, id, rest, Consumer
  <2>2. /\ c \in Consumer /\ c.pc = "error" /\ c.at = consumer[n].at
        /\ c.cache = rest /\ c.queued = consumer[n].queued
        /\ c.delayQ = consumer[n].delayQ /\ c.pending = consumer[n].pending
        /\ c.event = consumer[n].event
    BY <1>2, ConsumerTypes DEF Consumer
  <2>3. Turns(n, "error", consumer[n].at, rest, consumer[n].queued,
              consumer[n].delayQ, consumer[n].pending, consumer[n].event)
    BY <2>1, <2>2, TurnsTo
  <2> QED BY <1>3, <2>3 DEF id, rest
<1>4. CASE job[id] \notin setup.poison
  <2> DEFINE Q == consumer[n].queued \cup {job[id]}
             c == [consumer[n] EXCEPT !.cache = rest, !.pc = "handle", !.at = id, !.queued = Q]
  <2>1. consumer' = [consumer EXCEPT ![n] = c]
    BY <1>4, ConsumerTypes DEF NextCached, id, rest, Consumer
  <2>4. Q \subseteq Jobs
    BY <1>5, ConsumerTypes
  <2> HIDE DEF Q
  <2>2. /\ c \in Consumer /\ c.pc = "handle" /\ c.at = id
        /\ c.cache = rest /\ c.queued = Q
        /\ c.delayQ = consumer[n].delayQ /\ c.pending = consumer[n].pending
        /\ c.event = consumer[n].event
    BY <1>2, <2>4, ConsumerTypes DEF Consumer
  <2>3. Turns(n, "handle", id, rest, Q,
              consumer[n].delayQ, consumer[n].pending, consumer[n].event)
    BY <2>1, <2>2, TurnsTo
  <2> QED BY <2>3 DEF id, rest, Q
<1> QED BY <1>3, <1>4
(* A call fails, with or without effect on the server.                     *)
Fails == failures' = failures + 1 /\ failures' \in 0 .. setup.failures

LEMMA SetupTypes ==
  ASSUME TypeOK
  PROVE  /\ setup.poison \subseteq Jobs /\ setup.unknown \subseteq Jobs
         /\ setup.failures \in Nat /\ setup.pauses \in Nat
         /\ setup.early \in BOOLEAN /\ setup.impatient \in BOOLEAN
         /\ failures \in 0 .. setup.failures /\ failures \in Nat
         /\ setup.retries \in Nat
<1>1. setup \in [queues : [Jobs -> SUBSET QueueNames], poison : SUBSET Jobs,
                 unknown : SUBSET Jobs, impatient : BOOLEAN, early : BOOLEAN,
                 retries : Nat, pauses : Nat, failures : Nat]
  BY WorkerAssumption DEF TypeOK
<1>2. failures \in 0 .. setup.failures
  BY DEF TypeOK
<1>3. setup.failures \in Nat
  BY <1>1
<1> QED BY <1>1, <1>2, <1>3

LEMMA BreaksFacts ==
  ASSUME TypeOK, NEW s, Breaks(s)
  PROVE  Fails /\ store' \in {store, s} /\ failures' # 0
BY SetupTypes DEF Breaks, Fails

Same(n, pc) == Turns(n, pc, consumer[n].at, consumer[n].cache, consumer[n].queued,
                     consumer[n].delayQ, consumer[n].pending, consumer[n].event)

LEMMA ConsumerTopEffect ==
  ASSUME TypeOK, NEW n \in QueueNames, ConsumerTop(n)
  PROVE  \/ ~running[n] /\ Same(n, "stopped")
         \/ paused[n] /\ Same(n, "paused")
         \/ /\ running[n] /\ ~paused[n]
            /\ Turns(n, "next", consumer[n].at, <<>>, {}, consumer[n].delayQ,
                     consumer[n].pending, consumer[n].event)
<1>1. CASE ~running[n]
  <2>1. consumer' = Goto(n, "stopped")
    BY <1>1 DEF ConsumerTop
  <2> QED BY <1>1, <2>1, GotoEffect DEF Same
<1>2. CASE running[n] /\ paused[n]
  <2>1. consumer' = Goto(n, "paused")
    BY <1>2 DEF ConsumerTop
  <2> QED BY <1>2, <2>1, GotoEffect DEF Same
<1>3. CASE running[n] /\ ~paused[n]
  <2> DEFINE empty == <<>>
             c == [consumer[n] EXCEPT !.pc = "next", !.cache = empty, !.queued = {}]
  <2>1. consumer' = [consumer EXCEPT ![n] = c]
    BY <1>3, ConsumerTypes DEF ConsumerTop, Consumer
  <2>2. /\ c \in Consumer /\ c.pc = "next" /\ c.at = consumer[n].at
        /\ c.cache = empty /\ c.queued = {}
        /\ c.delayQ = consumer[n].delayQ /\ c.pending = consumer[n].pending
        /\ c.event = consumer[n].event
    <3>1. empty \in Seq(Ids)
      OBVIOUS
    <3> HIDE DEF empty
    <3> QED BY <3>1, ConsumerTypes DEF Consumer
  <2>3. Turns(n, "next", consumer[n].at, <<>>, {}, consumer[n].delayQ,
              consumer[n].pending, consumer[n].event)
    BY <2>1, <2>2, TurnsTo
  <2> QED BY <1>3, <2>3
<1> QED BY <1>1, <1>2, <1>3

LEMMA ConsumerPausedEffect ==
  ASSUME TypeOK, NEW n \in QueueNames, ConsumerPaused(n)
  PROVE  Turns(n, "top", consumer[n].at, consumer[n].cache, consumer[n].queued,
               consumer[n].delayQ, consumer[n].pending, TRUE)
<1> DEFINE c == [consumer[n] EXCEPT !.pc = "top", !.event = TRUE]
<1>1. consumer' = [consumer EXCEPT ![n] = c]
  BY ConsumerTypes DEF ConsumerPaused, Consumer
<1>2. /\ c \in Consumer /\ c.pc = "top" /\ c.at = consumer[n].at
      /\ c.cache = consumer[n].cache /\ c.queued = consumer[n].queued
      /\ c.delayQ = consumer[n].delayQ /\ c.pending = consumer[n].pending
      /\ c.event = TRUE
  BY ConsumerTypes DEF Consumer
<1>3. Turns(n, c.pc, c.at, c.cache, c.queued, c.delayQ, c.pending, c.event)
  BY <1>1, <1>2, TurnsTo
<1> QED BY <1>2, <1>3, Zenon

LEMMA OutstandingTypes ==
  ASSUME TypeOK, NEW n \in QueueNames
  PROVE  /\ IsFiniteSet(consumer[n].queued) /\ Cardinality(consumer[n].queued) \in Nat
         /\ IsFiniteSet(consumer[n].delayQ) /\ Cardinality(consumer[n].delayQ) \in Nat
         /\ Len(consumer[n].cache) \in Nat /\ Outstanding(n) \in Nat /\ Prefetch[n] \in Nat
<1>1. /\ IsFiniteSet(consumer[n].queued) /\ Cardinality(consumer[n].queued) \in Nat
      /\ IsFiniteSet(consumer[n].delayQ) /\ Cardinality(consumer[n].delayQ) \in Nat
  BY ConsumerTypes, IdsAssumption, WorkerAssumption, FS_Subset, FS_CardinalityType
<1>2. Len(consumer[n].cache) \in Nat
  BY ConsumerTypes
<1>3. Prefetch[n] \in Nat
  BY WorkerAssumption
<1>4. Outstanding(n) \in Nat
  BY <1>1, <1>2 DEF Outstanding
<1> QED BY <1>1, <1>2, <1>3, <1>4

LEMMA NextFetchEffect ==
  ASSUME TypeOK, NEW n \in QueueNames, NextFetch(n)
  PROVE  \E p \in Seq(Ids) :
           /\ consumer[n].pc = "next" /\ consumer[n].cache = <<>>
           /\ Len(p) + Outstanding(n) <= Prefetch[n]
           /\ \/ /\ Taken(store, store', Me, n, p) /\ failures' = failures
                 /\ \E pc \in {"next", "restart", "delayed"} :
                      /\ pc # "next" => p = <<>>
                      /\ pc = "restart" => paused[n]
                      /\ Turns(n, pc, consumer[n].at, p, consumer[n].queued,
                               consumer[n].delayQ, consumer[n].pending, consumer[n].event)
              \/ /\ store' = store \/ Taken(store, store', Me, n, p)
                 /\ Fails
                 /\ Turns(n, "restart", consumer[n].at, <<>>, consumer[n].queued, {}, 0,
                          consumer[n].event)
<1> DEFINE size == Prefetch[n] - Outstanding(n)
           p == Popped(Server, n, size)
           s == Fetched(Server, Me, n, size)
<1>1. /\ consumer[n].pc = "next" /\ consumer[n].cache = <<>>
      /\ Outstanding(n) < Prefetch[n]
      /\ \/ /\ Works(s)
            /\ consumer' = IF p = <<>> THEN Goto(n, AfterNone(n))
                           ELSE [consumer EXCEPT ![n].cache = p]
         \/ /\ Breaks(s)
            /\ consumer' = [consumer EXCEPT ![n].pc = "restart", ![n].delayQ = {},
                                            ![n].pending = 0]
  BY DEF NextFetch
<1>2. size \in Nat
  BY <1>1, OutstandingTypes
<1>3. Taken(store, s, Me, n, p) /\ Len(p) <= size
  BY <1>2, FetchStore
<1>4. p \in Seq(Ids)
  BY <1>3 DEF Taken
<1> HIDE DEF p, s
<1>5. Len(p) + Outstanding(n) <= Prefetch[n]
  BY <1>2, <1>3, <1>4, OutstandingTypes
<1>6. CASE Works(s) /\ p = <<>> /\ consumer' = Goto(n, AfterNone(n))
  <2>1. Same(n, AfterNone(n)) /\ AfterNone(n) \in {"restart", "delayed"}
        /\ (AfterNone(n) = "restart" => paused[n])
    BY <1>6, GotoEffect DEF AfterNone, Same
  <2>2. Taken(store, store', Me, n, p) /\ failures' = failures
    BY <1>3, <1>6 DEF Works
  <2>3. Turns(n, AfterNone(n), consumer[n].at, p, consumer[n].queued,
              consumer[n].delayQ, consumer[n].pending, consumer[n].event)
    BY <1>1, <1>6, <2>1 DEF Same
  <2> QED BY <1>1, <1>4, <1>5, <1>6, <2>1, <2>2, <2>3
<1>7. CASE Works(s) /\ consumer' = [consumer EXCEPT ![n].cache = p]
  <2> DEFINE c == [consumer[n] EXCEPT !.cache = p]
  <2>1. consumer' = [consumer EXCEPT ![n] = c]
    BY <1>7, ConsumerTypes DEF Consumer
  <2>2. /\ c \in Consumer /\ c.pc = "next" /\ c.at = consumer[n].at
        /\ c.cache = p /\ c.queued = consumer[n].queued
        /\ c.delayQ = consumer[n].delayQ /\ c.pending = consumer[n].pending
        /\ c.event = consumer[n].event
    BY <1>1, <1>4, ConsumerTypes DEF Consumer
  <2>3. Turns(n, "next", consumer[n].at, p, consumer[n].queued, consumer[n].delayQ,
              consumer[n].pending, consumer[n].event)
    BY <2>1, <2>2, TurnsTo
  <2>4. Taken(store, store', Me, n, p) /\ failures' = failures
    BY <1>3, <1>7 DEF Works
  <2> QED BY <1>1, <1>4, <1>5, <2>3, <2>4
<1>8. CASE /\ Breaks(s)
           /\ consumer' = [consumer EXCEPT ![n].pc = "restart", ![n].delayQ = {},
                                           ![n].pending = 0]
  <2> DEFINE c == [consumer[n] EXCEPT !.pc = "restart", !.delayQ = {}, !.pending = 0]
  <2>1. consumer' = [consumer EXCEPT ![n] = c]
    BY <1>8, ConsumerTypes DEF Consumer
  <2>2. /\ c \in Consumer /\ c.pc = "restart" /\ c.at = consumer[n].at
        /\ c.cache = <<>> /\ c.queued = consumer[n].queued
        /\ c.delayQ = {} /\ c.pending = 0
        /\ c.event = consumer[n].event
    BY <1>1, ConsumerTypes DEF Consumer
  <2>3. Turns(n, "restart", consumer[n].at, <<>>, consumer[n].queued, {}, 0,
              consumer[n].event)
    BY <2>1, <2>2, TurnsTo
  <2>4. Fails /\ ((store' = store) \/ Taken(store, store', Me, n, p))
    BY <1>3, <1>8, BreaksFacts
  <2> QED BY <1>1, <1>4, <1>5, <2>3, <2>4
<1> QED BY <1>1, <1>6, <1>7, <1>8
LEMMA RequeueEffect ==
  ASSUME TypeOK, NEW n \in QueueNames, NEW ids \in SUBSET Ids,
         NEW ACTION ok, NEW ACTION raised, requeue_messages(n, ids, ok, raised)
  PROVE  \/ ok /\ failures' = failures /\ Returned(store, store', Me, n, ids)
         \/ raised /\ Fails /\ ((store' = store) \/ Returned(store, store', Me, n, ids))
<1>1. PICK o \in Orders(Returnable(Server, Me, n, ids)) :
        LET s == Requeued(Server, Me, n, ids, o)
        IN  (Works(s) /\ ok) \/ (Breaks(s) /\ raised)
  BY DEF requeue_messages
<1> DEFINE s == Requeued(Server, Me, n, ids, o)
<1>2. Returned(store, s, Me, n, ids)
  BY RequeueStore
<1>3. (Works(s) /\ ok) \/ (Breaks(s) /\ raised)
  BY <1>1
<1> HIDE DEF s
<1>4. CASE Works(s) /\ ok
  BY <1>2, <1>4 DEF Works
<1>5. CASE Breaks(s) /\ raised
  BY <1>2, <1>5, BreaksFacts
<1> QED BY <1>3, <1>4, <1>5

LEMMA CloseEffect ==
  ASSUME TypeOK, NEW n \in QueueNames, NEW ACTION ok, NEW ACTION raised,
         Close(n, ok, raised)
  PROVE  \/ ok /\ GivesBack(n, consumer[n].delayQ) /\ failures' = failures
         \/ raised /\ GivesBack(n, consumer[n].delayQ) /\ failures' # 0
<1> DEFINE D == consumer[n].delayQ
<1>0. D \in SUBSET Ids /\ store \in Store /\ failures \in 0 .. setup.failures
  BY ConsumerTypes, SetupTypes, ServerFacts
<1>1. CASE D = {}
  BY <1>0, <1>1, SetupTypes DEF Close, GivesBack
<1>2. CASE D # {}
  <2>1. requeue_messages(n, D, ok, raised)
    BY <1>2 DEF Close
  <2> HIDE DEF D
  <2>2. \/ ok /\ failures' = failures /\ Returned(store, store', Me, n, D)
        \/ raised /\ Fails /\ ((store' = store) \/ Returned(store, store', Me, n, D))
    BY <1>0, <2>1, RequeueEffect
  <2>3. CASE ok /\ failures' = failures /\ Returned(store, store', Me, n, D)
    <3>1. store' \in Store
      BY <2>3 DEF Returned
    <3>2. failures' = failures
      BY <2>3
    <3>3. failures' \in 0 .. setup.failures
      BY <1>0, <3>2
    <3>4. GivesBack(n, D)
      BY <2>3, <3>1, <3>2, <3>3 DEF GivesBack
    <3> QED BY <2>3, <3>4 DEF D
  <2>4. CASE raised /\ Fails /\ ((store' = store) \/ Returned(store, store', Me, n, D))
    <3>1. store' \in Store
      BY <1>0, <2>4 DEF Returned
    <3>2. failures' # 0 /\ failures' \in 0 .. setup.failures
      BY <2>4, SetupTypes DEF Fails
    <3> QED BY <2>4, <3>1, <3>2 DEF GivesBack, D
  <2> QED BY <2>2, <2>3, <2>4
<1> QED BY <1>1, <1>2
LEMMA InHandFacts ==
  ASSUME TypeOK, Stages, NEW n \in QueueNames,
         consumer[n].pc \in {"handle", "reject", "copy", "ackcopy"}
  PROVE  consumer[n].at \in Ids /\ consumer[n].at # None
BY ConsumerTypes DEF Stages

LEMMA HandleEffect ==
  ASSUME TypeOK, Stages, NEW n \in QueueNames, HandleMessage(n)
  PROVE  LET id == consumer[n].at
         IN  /\ id \in Ids
             /\ \/ /\ IsDelay(n) /\ UNCHANGED <<workQueue, finished>>
                   /\ Turns(n, "delayed", None, consumer[n].cache, consumer[n].queued,
                            consumer[n].delayQ \cup {id}, consumer[n].pending + 1,
                            consumer[n].event)
                \/ /\ workQueue' = workQueue \cup {<<id, n>>} /\ UNCHANGED finished
                   /\ Turns(n, "delayed", None, consumer[n].cache, consumer[n].queued,
                            consumer[n].delayQ, consumer[n].pending, consumer[n].event)
                \/ /\ Same(n, "reject")
                   /\ finished' = finished \cup {job[id]} /\ UNCHANGED workQueue
<1> DEFINE id == consumer[n].at
<1>1. id \in Ids
  BY InHandFacts DEF HandleMessage
<1> HIDE DEF id
<1>2. CASE /\ IsDelay(n)
           /\ consumer' = [consumer EXCEPT ![n].pc = "delayed", ![n].at = None,
                                           ![n].delayQ = @ \cup {id}, ![n].pending = @ + 1]
           /\ UNCHANGED <<workQueue, finished>>
  <2> DEFINE D == consumer[n].delayQ \cup {id}
             k == consumer[n].pending + 1
             c == [consumer[n] EXCEPT !.pc = "delayed", !.at = None, !.delayQ = D,
                                      !.pending = k]
  <2>1. consumer' = [consumer EXCEPT ![n] = c]
    BY <1>2, ConsumerTypes DEF Consumer
  <2>2. D \subseteq Ids /\ k \in Nat
    BY <1>1, ConsumerTypes
  <2> HIDE DEF D, k
  <2>3. /\ c \in Consumer /\ c.pc = "delayed" /\ c.at = None
        /\ c.cache = consumer[n].cache /\ c.queued = consumer[n].queued
        /\ c.delayQ = D /\ c.pending = k /\ c.event = consumer[n].event
    BY <2>2, ConsumerTypes DEF Consumer
  <2>4. Turns(n, "delayed", None, consumer[n].cache, consumer[n].queued, D, k,
              consumer[n].event)
    BY <2>1, <2>3, TurnsTo
  <2> QED BY <1>1, <1>2, <2>4 DEF D, k, id
<1>3. CASE /\ consumer' = [consumer EXCEPT ![n].pc = "delayed", ![n].at = None]
           /\ workQueue' = workQueue \cup {<<id, n>>} /\ UNCHANGED finished
  <2> DEFINE c == [consumer[n] EXCEPT !.pc = "delayed", !.at = None]
  <2>1. consumer' = [consumer EXCEPT ![n] = c]
    BY <1>3, ConsumerTypes DEF Consumer
  <2>2. /\ c \in Consumer /\ c.pc = "delayed" /\ c.at = None
        /\ c.cache = consumer[n].cache /\ c.queued = consumer[n].queued
        /\ c.delayQ = consumer[n].delayQ /\ c.pending = consumer[n].pending
        /\ c.event = consumer[n].event
    BY ConsumerTypes DEF Consumer
  <2>3. Turns(n, "delayed", None, consumer[n].cache, consumer[n].queued,
              consumer[n].delayQ, consumer[n].pending, consumer[n].event)
    BY <2>1, <2>2, TurnsTo
  <2> QED BY <1>1, <1>3, <2>3 DEF id
<1>4. CASE /\ consumer' = Goto(n, "reject")
           /\ finished' = finished \cup {job[id]} /\ UNCHANGED workQueue
  <2>1. Same(n, "reject")
    BY <1>4, GotoEffect DEF Same
  <2> QED BY <1>1, <1>4, <2>1 DEF id
<1> QED BY <1>2, <1>3, <1>4 DEF HandleMessage, id

(* A message is settled, or the call fails and will be tried again.        *)
PostEffect(n, id) ==
  \/ Settled(store, store', Me, n, id) /\ failures' = failures
  \/ Fails /\ ((store' = store) \/ Settled(store, store', Me, n, id))

LEMMA PostFacts ==
  ASSUME TypeOK, NEW n \in QueueNames, NEW id \in Ids, NEW failed,
         NEW ACTION ok, NEW ACTION again, Post(n, id, failed, ok, again)
  PROVE  \/ ok /\ failures' = failures /\ Settled(store, store', Me, n, id)
         \/ again /\ Fails /\ ((store' = store) \/ Settled(store, store', Me, n, id))
<1> DEFINE s == IF failed THEN Nacked(Server, Me, n, id)
                ELSE Acknowledged(Server, Me, n, id)
<1>1. Settled(store, s, Me, n, id)
  BY SettleStore
<1>2. (Works(s) /\ ok) \/ (Breaks(s) /\ again)
  BY DEF Post
<1> HIDE DEF s
<1>3. CASE Works(s) /\ ok
  BY <1>1, <1>3 DEF Works
<1>4. CASE Breaks(s) /\ again
  BY <1>1, <1>4, BreaksFacts
<1> QED BY <1>2, <1>3, <1>4

LEMMA RejectEffect ==
  ASSUME TypeOK, Stages, NEW n \in QueueNames, RejectUnknown(n)
  PROVE  LET id == consumer[n].at
         IN  /\ id \in Ids /\ PostEffect(n, id)
             /\ \E pc \in {"delayed", "reject"} :
                  /\ pc = "delayed" => Settled(store, store', Me, n, id)
                  /\ pc = "reject" => Fails
                  /\ Turns(n, pc, IF pc = "reject" THEN id ELSE None, consumer[n].cache,
                           consumer[n].queued \ {job[id]}, consumer[n].delayQ,
                           consumer[n].pending, consumer[n].event)
<1> DEFINE id == consumer[n].at
           Q == consumer[n].queued \ {job[id]}
           ok == consumer' = [[consumer EXCEPT ![n].queued = @ \ {job[id]}]
                                EXCEPT ![n].pc = "delayed", ![n].at = None]
           again == consumer' = [consumer EXCEPT ![n].queued = @ \ {job[id]}]
<1>1. id \in Ids
  BY InHandFacts DEF RejectUnknown
<1>2. Post(n, id, TRUE, ok, again) /\ consumer[n].pc = "reject"
  BY DEF RejectUnknown
<1>3. Q \subseteq Jobs
  BY ConsumerTypes
<1> HIDE DEF ok, again
<1>4. \/ ok /\ failures' = failures /\ Settled(store, store', Me, n, id)
      \/ again /\ Fails /\ ((store' = store) \/ Settled(store, store', Me, n, id))
  BY <1>1, <1>2, PostFacts
<1>5. CASE ok /\ failures' = failures /\ Settled(store, store', Me, n, id)
  <2> DEFINE c == [consumer[n] EXCEPT !.queued = Q, !.pc = "delayed", !.at = None]
  <2>1. consumer' = [consumer EXCEPT ![n] = c]
    BY <1>5, ConsumerTypes DEF Consumer, ok
  <2> HIDE DEF Q
  <2>2. /\ c \in Consumer /\ c.pc = "delayed" /\ c.at = None
        /\ c.cache = consumer[n].cache /\ c.queued = Q
        /\ c.delayQ = consumer[n].delayQ /\ c.pending = consumer[n].pending
        /\ c.event = consumer[n].event
    BY <1>3, ConsumerTypes DEF Consumer
  <2>3. Turns(n, "delayed", None, consumer[n].cache, Q, consumer[n].delayQ,
              consumer[n].pending, consumer[n].event)
    BY <2>1, <2>2, TurnsTo
  <2> QED BY <1>1, <1>5, <2>3 DEF PostEffect, Q
<1>6. CASE again /\ Fails /\ ((store' = store) \/ Settled(store, store', Me, n, id))
  <2> DEFINE c == [consumer[n] EXCEPT !.queued = Q]
  <2>1. consumer' = [consumer EXCEPT ![n] = c]
    BY <1>6, ConsumerTypes DEF Consumer, again
  <2> HIDE DEF Q
  <2>2. /\ c \in Consumer /\ c.pc = "reject" /\ c.at = consumer[n].at
        /\ c.cache = consumer[n].cache /\ c.queued = Q
        /\ c.delayQ = consumer[n].delayQ /\ c.pending = consumer[n].pending
        /\ c.event = consumer[n].event
    BY <1>2, <1>3, ConsumerTypes DEF Consumer
  <2>3. Turns(n, "reject", id, consumer[n].cache, Q, consumer[n].delayQ,
              consumer[n].pending, consumer[n].event)
    BY <2>1, <2>2, TurnsTo
  <2> QED BY <1>1, <1>6, <2>3 DEF PostEffect, Q
<1> QED BY <1>4, <1>5, <1>6

LEMMA DueEffect ==
  ASSUME TypeOK, NEW n \in QueueNames, DelayedDue(n)
  PROVE  \E id \in consumer[n].delayQ :
           /\ id \in Ids
           /\ Turns(n, "copy", id, consumer[n].cache, consumer[n].queued,
                    consumer[n].delayQ \ {id}, consumer[n].pending, consumer[n].event)
<1>1. PICK id \in consumer[n].delayQ :
        consumer' = [consumer EXCEPT ![n].pc = "copy", ![n].at = id,
                                     ![n].delayQ = @ \ {id}]
  BY DEF DelayedDue
<1> DEFINE D == consumer[n].delayQ \ {id}
           c == [consumer[n] EXCEPT !.pc = "copy", !.at = id, !.delayQ = D]
<1>2. id \in Ids /\ D \subseteq Ids
  BY ConsumerTypes
<1>3. consumer' = [consumer EXCEPT ![n] = c]
  BY <1>1, ConsumerTypes DEF Consumer
<1> HIDE DEF D
<1>4. /\ c \in Consumer /\ c.pc = "copy" /\ c.at = id
      /\ c.cache = consumer[n].cache /\ c.queued = consumer[n].queued
      /\ c.delayQ = D /\ c.pending = consumer[n].pending
      /\ c.event = consumer[n].event
  BY <1>2, ConsumerTypes DEF Consumer
<1>5. Turns(n, "copy", id, consumer[n].cache, consumer[n].queued, D,
            consumer[n].pending, consumer[n].event)
  BY <1>3, <1>4, TurnsTo
<1> QED BY <1>2, <1>5 DEF D
LEMMA JobTypes ==
  ASSUME TypeOK
  PROVE  /\ job \in [Ids -> Jobs \cup {NoJob}] /\ NoJob \notin Jobs
         /\ workQueue \subseteq Ids \X QueueNames
         /\ finished \subseteq Jobs /\ unretried \subseteq Jobs
BY WorkerAssumption DEF TypeOK

(* A fresh id is nowhere yet.                                              *)
LEMMA FreshFacts ==
  ASSUME TypeOK, Known, HasFresh
  PROVE  /\ Fresh \in Ids /\ job[Fresh] = NoJob /\ NoJob \notin Jobs
         /\ \A n \in QueueNames :
              /\ ~Listed(n, Fresh) /\ Fresh \notin store.msgs[n]
              /\ \A p \in Places : ~In(n, p, Fresh)
<1>1. Fresh \in Ids /\ job[Fresh] = NoJob
  BY DEF HasFresh, Fresh
<1>2. job[Fresh] \notin Jobs /\ NoJob \notin Jobs
  BY <1>1, WorkerAssumption
<1> HIDE DEF Fresh
<1> QED BY <1>1, <1>2 DEF Known

(* A fresh message of job j joins queue q, or a failed call leaves all as
   it is.                                                                  *)
Adds(q, j) == /\ Joined(store, store', Me, q, Fresh)
              /\ job' = [job EXCEPT ![Fresh] = j]
Leaves == store' = store /\ job' = job

LEMMA CopyEffect ==
  ASSUME TypeOK, Stages, Known, NEW n \in QueueNames, CopyDelayed(n)
  PROVE  LET id == consumer[n].at
         IN  /\ id \in Ids /\ HasFresh /\ Canonical[n] \in QueueNames
             /\ \/ /\ Adds(Canonical[n], job[id]) /\ failures' = failures
                   /\ Same(n, "ackcopy")
                \/ /\ Adds(Canonical[n], job[id]) \/ Leaves
                   /\ Fails
                   /\ Turns(n, "error", None, consumer[n].cache, consumer[n].queued,
                            consumer[n].delayQ, consumer[n].pending, consumer[n].event)
<1> DEFINE id == consumer[n].at
           q == Canonical[n]
           s == Enqueued(Server, q, Fresh)
<1>1. id \in Ids
  BY InHandFacts DEF CopyDelayed
<1>2. HasFresh /\ q \in QueueNames
  BY CanonicalAssumption DEF CopyDelayed
<1>3. Fresh \in Ids /\ Fresh \notin store.msgs[q]
  BY <1>2, FreshFacts
<1>4. Joined(store, s, Me, q, Fresh)
  BY <1>2, <1>3, EnqueueStore
<1>5. Fresh \in s.msgs[q]
  BY <1>4 DEF Joined
<1>6. /\ \/ Works(s) /\ consumer' = Goto(n, "ackcopy")
         \/ /\ Breaks(s)
            /\ consumer' = [consumer EXCEPT ![n].pc = "error", ![n].at = None]
      /\ job' = IF Fresh \in store'.msgs[q] THEN [job EXCEPT ![Fresh] = job[id]] ELSE job
  BY DEF CopyDelayed
<1> HIDE DEF s, id, q
<1>7. store' = s => Adds(q, job[id])
  BY <1>4, <1>5, <1>6 DEF Adds
<1>8. store' = store => Leaves
  BY <1>3, <1>6 DEF Leaves
<1>9. CASE Works(s) /\ consumer' = Goto(n, "ackcopy")
  <2>1. Same(n, "ackcopy")
    BY <1>9, GotoEffect DEF Same
  <2>2. Adds(q, job[id]) /\ failures' = failures
    BY <1>7, <1>9 DEF Works
  <2> QED BY <1>1, <1>2, <2>1, <2>2 DEF id, q
<1>10. CASE /\ Breaks(s)
            /\ consumer' = [consumer EXCEPT ![n].pc = "error", ![n].at = None]
  <2> DEFINE c == [consumer[n] EXCEPT !.pc = "error", !.at = None]
  <2>1. consumer' = [consumer EXCEPT ![n] = c]
    BY <1>10, ConsumerTypes DEF Consumer
  <2>2. /\ c \in Consumer /\ c.pc = "error" /\ c.at = None
        /\ c.cache = consumer[n].cache /\ c.queued = consumer[n].queued
        /\ c.delayQ = consumer[n].delayQ /\ c.pending = consumer[n].pending
        /\ c.event = consumer[n].event
    BY ConsumerTypes DEF Consumer
  <2>3. Turns(n, "error", None, consumer[n].cache, consumer[n].queued,
              consumer[n].delayQ, consumer[n].pending, consumer[n].event)
    BY <2>1, <2>2, TurnsTo
  <2>4. Fails /\ (Adds(q, job[id]) \/ Leaves)
    BY <1>7, <1>8, <1>10, BreaksFacts
  <2> QED BY <1>1, <1>2, <2>3, <2>4 DEF id, q
<1> QED BY <1>6, <1>9, <1>10

LEMMA AckEffect ==
  ASSUME TypeOK, Stages, NEW n \in QueueNames, AckCopied(n)
  PROVE  LET id == consumer[n].at
         IN  /\ id \in Ids /\ PostEffect(n, id) /\ consumer[n].pending - 1 \in Nat
             /\ \/ /\ Settled(store, store', Me, n, id)
                   /\ Turns(n, "delayed", None, consumer[n].cache,
                            consumer[n].queued \ {job[id]}, consumer[n].delayQ,
                            consumer[n].pending - 1, consumer[n].event)
                \/ /\ Fails
                   /\ Turns(n, "ackcopy", id, consumer[n].cache,
                            consumer[n].queued \ {job[id]}, consumer[n].delayQ,
                            consumer[n].pending, consumer[n].event)
<1> DEFINE id == consumer[n].at
           Q == consumer[n].queued \ {job[id]}
           k == consumer[n].pending - 1
           ok == consumer' = [[consumer EXCEPT ![n].queued = @ \ {job[id]}]
                                EXCEPT ![n].pc = "delayed", ![n].at = None,
                                       ![n].pending = @ - 1]
           again == consumer' = [consumer EXCEPT ![n].queued = @ \ {job[id]}]
<1>1. id \in Ids
  BY InHandFacts DEF AckCopied
<1>2. Post(n, id, FALSE, ok, again) /\ consumer[n].pc = "ackcopy"
  BY DEF AckCopied
<1>3. Q \subseteq Jobs
  BY ConsumerTypes
<1>4. k \in Nat
  <2>1. Cardinality(consumer[n].delayQ) + 1 <= consumer[n].pending
    BY <1>2 DEF Stages, Copying
  <2> QED BY <2>1, OutstandingTypes, ConsumerTypes
<1> HIDE DEF ok, again
<1>5. \/ ok /\ failures' = failures /\ Settled(store, store', Me, n, id)
      \/ again /\ Fails /\ ((store' = store) \/ Settled(store, store', Me, n, id))
  BY <1>1, <1>2, PostFacts
<1>6. CASE ok /\ failures' = failures /\ Settled(store, store', Me, n, id)
  <2> DEFINE c == [consumer[n] EXCEPT !.queued = Q, !.pc = "delayed", !.at = None,
                                      !.pending = k]
  <2>1. consumer' = [consumer EXCEPT ![n] = c]
    BY <1>6, ConsumerTypes DEF Consumer, ok
  <2> HIDE DEF Q, k
  <2>2. /\ c \in Consumer /\ c.pc = "delayed" /\ c.at = None
        /\ c.cache = consumer[n].cache /\ c.queued = Q
        /\ c.delayQ = consumer[n].delayQ /\ c.pending = k
        /\ c.event = consumer[n].event
    BY <1>3, <1>4, ConsumerTypes DEF Consumer
  <2>3. Turns(n, "delayed", None, consumer[n].cache, Q, consumer[n].delayQ, k,
              consumer[n].event)
    BY <2>1, <2>2, TurnsTo
  <2> QED BY <1>1, <1>4, <1>6, <2>3 DEF PostEffect, Q, k
<1>7. CASE again /\ Fails /\ ((store' = store) \/ Settled(store, store', Me, n, id))
  <2> DEFINE c == [consumer[n] EXCEPT !.queued = Q]
  <2>1. consumer' = [consumer EXCEPT ![n] = c]
    BY <1>7, ConsumerTypes DEF Consumer, again
  <2> HIDE DEF Q
  <2>2. /\ c \in Consumer /\ c.pc = "ackcopy" /\ c.at = consumer[n].at
        /\ c.cache = consumer[n].cache /\ c.queued = Q
        /\ c.delayQ = consumer[n].delayQ /\ c.pending = consumer[n].pending
        /\ c.event = consumer[n].event
    BY <1>2, <1>3, ConsumerTypes DEF Consumer
  <2>3. Turns(n, "ackcopy", id, consumer[n].cache, Q, consumer[n].delayQ,
              consumer[n].pending, consumer[n].event)
    BY <2>1, <2>2, TurnsTo
  <2> QED BY <1>1, <1>4, <1>7, <2>3 DEF PostEffect, Q
<1> QED BY <1>5, <1>6, <1>7

Empties(n, pc) == Turns(n, pc, consumer[n].at, consumer[n].cache, consumer[n].queued,
                        {}, consumer[n].pending, consumer[n].event)

LEMMA EmptiedEffect ==
  ASSUME TypeOK, NEW n \in QueueNames, NEW pc, consumer' = Emptied(n, pc),
         pc \in {"restart", "dead", "top"} \/ pc = consumer[n].pc
  PROVE  Empties(n, pc)
<1> DEFINE c == [consumer[n] EXCEPT !.delayQ = {}, !.pc = pc]
<1>1. consumer' = [consumer EXCEPT ![n] = c]
  BY ConsumerTypes DEF Emptied, Consumer
<1>2. /\ c \in Consumer /\ c.pc = pc /\ c.at = consumer[n].at
      /\ c.cache = consumer[n].cache /\ c.queued = consumer[n].queued
      /\ c.delayQ = {} /\ c.pending = consumer[n].pending
      /\ c.event = consumer[n].event
  BY ConsumerTypes DEF Consumer
<1> QED BY <1>1, <1>2, TurnsTo DEF Empties

LEMMA ErrorEffect ==
  ASSUME TypeOK, NEW n \in QueueNames, ConsumerError(n)
  PROVE  /\ GivesBack(n, consumer[n].delayQ)
         /\ Empties(n, "restart") \/ (Empties(n, "dead") /\ failures' # 0)
<1> DEFINE ok == consumer' = Emptied(n, "restart")
           raised == consumer' = Emptied(n, "dead")
<1>1. Close(n, ok, raised)
  BY DEF ConsumerError
<1> HIDE DEF ok, raised
<1>2. \/ ok /\ GivesBack(n, consumer[n].delayQ) /\ failures' = failures
      \/ raised /\ GivesBack(n, consumer[n].delayQ) /\ failures' # 0
  BY <1>1, CloseEffect
<1>3. (ok => Empties(n, "restart")) /\ (raised => Empties(n, "dead"))
  BY EmptiedEffect DEF ok, raised
<1> QED BY <1>2, <1>3

LEMMA RestartEffect ==
  ASSUME TypeOK, NEW n \in QueueNames, ConsumerRestart(n)
  PROVE  \/ ~running[n] /\ Same(n, "stopped") /\ UNCHANGED <<store, failures>>
         \/ /\ running[n] /\ GivesBack(n, consumer[n].delayQ)
            /\ Empties(n, "top") \/ (Empties(n, "dead") /\ failures' # 0)
<1> DEFINE ok == consumer' = Emptied(n, "top")
           raised == consumer' = Emptied(n, "dead")
<1>1. CASE ~running[n]
  <2>1. consumer' = Goto(n, "stopped") /\ UNCHANGED <<store, failures>>
    BY <1>1 DEF ConsumerRestart
  <2> QED BY <1>1, <2>1, GotoEffect DEF Same
<1>2. CASE running[n]
  <2>1. Close(n, ok, raised)
    BY <1>2 DEF ConsumerRestart
  <2> HIDE DEF ok, raised
  <2>2. \/ ok /\ GivesBack(n, consumer[n].delayQ) /\ failures' = failures
        \/ raised /\ GivesBack(n, consumer[n].delayQ) /\ failures' # 0
    BY <2>1, CloseEffect
  <2>3. (ok => Empties(n, "top")) /\ (raised => Empties(n, "dead"))
    BY EmptiedEffect DEF ok, raised
  <2> QED BY <1>2, <2>2, <2>3
<1> QED BY <1>1, <1>2
(* Thread t changes to these fields, and no other thread changes.          *)
Moves(t, pc, at, queue, failed, event) ==
  /\ thread' \in [Threads -> Thread]
  /\ \A u \in Threads \ {t} : thread'[u] = thread[u]
  /\ thread'[t].pc = pc /\ thread'[t].at = at /\ thread'[t].queue = queue
  /\ thread'[t].failed = failed /\ thread'[t].event = event
Still(t, pc) ==
  Moves(t, pc, thread[t].at, thread[t].queue, thread[t].failed, thread[t].event)

LEMMA ThreadTypes ==
  ASSUME TypeOK, NEW t \in Threads
  PROVE  /\ thread \in [Threads -> Thread] /\ thread[t] \in Thread
         /\ thread[t].pc \in {"new", "idle", "get", "paused", "run", "post", "stopped"}
         /\ thread[t].at \in Ids \cup {None} /\ thread[t].queue \in QueueNames
         /\ thread[t].failed \in BOOLEAN /\ thread[t].event \in BOOLEAN
<1>1. thread \in [Threads -> Thread]
  BY DEF TypeOK
<1> QED BY <1>1 DEF Thread

LEMMA MovesTo ==
  ASSUME TypeOK, NEW t \in Threads, NEW r \in Thread, thread' = [thread EXCEPT ![t] = r]
  PROVE  Moves(t, r.pc, r.at, r.queue, r.failed, r.event)
BY ThreadTypes DEF Moves

LEMMA StillEffect ==
  ASSUME TypeOK, NEW t \in Threads, NEW pc, thread' = [thread EXCEPT ![t].pc = pc],
         pc \in {"idle", "get", "paused", "stopped"}
  PROVE  Still(t, pc)
<1> DEFINE r == [thread[t] EXCEPT !.pc = pc]
<1>1. thread' = [thread EXCEPT ![t] = r]
  OBVIOUS
<1>2. /\ r \in Thread /\ r.pc = pc /\ r.at = thread[t].at /\ r.queue = thread[t].queue
      /\ r.failed = thread[t].failed /\ r.event = thread[t].event
  BY ThreadTypes DEF Thread
<1> QED BY <1>1, <1>2, MovesTo DEF Still

LEMMA ThreadPausedEffect ==
  ASSUME TypeOK, NEW t \in Threads, ThreadPaused(t)
  PROVE  Moves(t, "idle", thread[t].at, thread[t].queue, thread[t].failed, TRUE)
<1> DEFINE r == [thread[t] EXCEPT !.pc = "idle", !.event = TRUE]
<1>1. thread' = [thread EXCEPT ![t] = r]
  BY ThreadTypes DEF ThreadPaused, Thread
<1>2. /\ r \in Thread /\ r.pc = "idle" /\ r.at = thread[t].at /\ r.queue = thread[t].queue
      /\ r.failed = thread[t].failed /\ r.event = TRUE
  BY ThreadTypes DEF Thread
<1>3. Moves(t, r.pc, r.at, r.queue, r.failed, r.event)
  BY <1>1, <1>2, MovesTo
<1> QED BY <1>2, <1>3, Zenon

LEMMA ThreadTopEffect ==
  ASSUME TypeOK, NEW t \in Threads, ThreadTop(t)
  PROVE  \/ ~running[t] /\ Still(t, "stopped")
         \/ running[t] /\ paused[t] /\ Still(t, "paused")
         \/ running[t] /\ ~paused[t] /\ Still(t, "get")
<1>1. CASE ~running[t]
  BY <1>1, StillEffect DEF ThreadTop
<1>2. CASE running[t] /\ paused[t]
  BY <1>2, StillEffect DEF ThreadTop
<1>3. CASE running[t] /\ ~paused[t]
  BY <1>3, StillEffect DEF ThreadTop
<1> QED BY <1>1, <1>2, <1>3

Takes(t, id, n) ==
  /\ <<id, n>> \in workQueue /\ workQueue' = workQueue \ {<<id, n>>}
  /\ Moves(t, "run", id, n, thread[t].failed, thread[t].event)

LEMMA ThreadGetEffect ==
  ASSUME TypeOK, NEW t \in Threads, ThreadGet(t)
  PROVE  \/ Still(t, "idle") /\ UNCHANGED workQueue
         \/ \E id \in Ids, n \in QueueNames : Takes(t, id, n)
<1>1. CASE thread' = [thread EXCEPT ![t].pc = "idle"] /\ UNCHANGED workQueue
  BY <1>1, StillEffect
<1>2. ASSUME NEW item \in workQueue,
             workQueue' = workQueue \ {item},
             thread' = [thread EXCEPT ![t].pc = "run", ![t].at = item[1],
                                      ![t].queue = item[2]]
      PROVE  \E id \in Ids, n \in QueueNames : Takes(t, id, n)
  <2>1. item \in Ids \X QueueNames
    BY JobTypes
  <2>2. PICK id \in Ids, n \in QueueNames : item = <<id, n>>
    BY <2>1
  <2> DEFINE r == [thread[t] EXCEPT !.pc = "run", !.at = id, !.queue = n]
  <2>3. thread' = [thread EXCEPT ![t] = r]
    BY <1>2, <2>2, ThreadTypes DEF Thread
  <2>4. /\ r \in Thread /\ r.pc = "run" /\ r.at = id /\ r.queue = n
        /\ r.failed = thread[t].failed /\ r.event = thread[t].event
    BY ThreadTypes DEF Thread
  <2>5. Moves(t, "run", id, n, thread[t].failed, thread[t].event)
    BY <2>3, <2>4, MovesTo
  <2>6. Takes(t, id, n)
    BY <1>2, <2>2, <2>5 DEF Takes
  <2> QED BY <2>6
<1> QED BY <1>1, <1>2 DEF ThreadGet

LEMMA BusyFacts ==
  ASSUME TypeOK, Stages, Known, NEW t \in Threads, thread[t].pc \in {"run", "post"}
  PROVE  /\ thread[t].at \in Ids /\ thread[t].at # None /\ thread[t].queue \in QueueNames
         /\ In(thread[t].queue, t, thread[t].at) /\ job[thread[t].at] \in Jobs
<1>1. thread[t].at \in Ids /\ thread[t].at # None /\ thread[t].queue \in QueueNames
  BY ThreadTypes DEF Stages
<1>2. In(thread[t].queue, t, thread[t].at) /\ t \in Places
  BY DEF In, Places
<1> QED BY <1>1, <1>2 DEF Known

LEMMA FinishEffect ==
  ASSUME TypeOK, NEW t \in Threads, Finish(t)
  PROVE  \E failed \in BOOLEAN :
           Moves(t, "post", thread[t].at, thread[t].queue, failed, thread[t].event)
<1>1. PICK failed \in BOOLEAN :
        thread' = [thread EXCEPT ![t].pc = "post", ![t].failed = failed]
  BY DEF Finish
<1> DEFINE r == [thread[t] EXCEPT !.pc = "post", !.failed = failed]
<1>2. thread' = [thread EXCEPT ![t] = r]
  BY <1>1, ThreadTypes DEF Thread
<1>3. /\ r \in Thread /\ r.pc = "post" /\ r.at = thread[t].at /\ r.queue = thread[t].queue
      /\ r.failed = failed /\ r.event = thread[t].event
  BY ThreadTypes DEF Thread
<1>4. Moves(t, r.pc, r.at, r.queue, r.failed, r.event)
  BY <1>2, <1>3, MovesTo
<1>5. Moves(t, "post", thread[t].at, thread[t].queue, failed, thread[t].event)
  BY <1>3, <1>4
<1> QED BY <1>5

LEMMA RetryEffect ==
  ASSUME TypeOK, Stages, Known, NEW t \in Threads, RetryLater(t)
  PROVE  LET j == job[thread[t].at]
         IN  /\ thread[t].at \in Ids /\ j \in Jobs /\ HasFresh
             /\ \/ (\E q \in QueueNames : Adds(q, j)) /\ UNCHANGED unretried
                \/ Leaves /\ Fails /\ unretried' = unretried \cup {j}
             /\ failures' = failures \/ Fails
             /\ retries[j] < setup.retries /\ retries' = [retries EXCEPT ![j] = @ + 1]
             /\ Moves(t, "post", thread[t].at, thread[t].queue, FALSE, thread[t].event)
<1> DEFINE j == job[thread[t].at]
           q == CHOOSE n \in QueueNames :
                  IsDelay(n) /\ Canonical[n] = Canonical[thread[t].queue]
           s == Enqueued(Server, q, Fresh)
           r == [thread[t] EXCEPT !.pc = "post", !.failed = FALSE]
<1>1. thread[t].at \in Ids /\ j \in Jobs /\ thread[t].queue \in QueueNames
  BY BusyFacts DEF RetryLater
<1>2. q \in QueueNames
  <2>1. \E n \in QueueNames : IsDelay(n) /\ Canonical[n] = Canonical[thread[t].queue]
    BY <1>1, WorkerAssumption DEF IsDelay
  <2> QED BY <2>1
<1>3. /\ retries[j] < setup.retries /\ HasFresh
      /\ Works(s) \/ Breaks(s)
      /\ IF Fresh \in store'.msgs[q]
         THEN job' = [job EXCEPT ![Fresh] = j] /\ UNCHANGED unretried
         ELSE unretried' = unretried \cup {j} /\ UNCHANGED job
      /\ retries' = [retries EXCEPT ![j] = @ + 1]
      /\ thread' = [thread EXCEPT ![t].pc = "post", ![t].failed = FALSE]
  BY DEF RetryLater
<1>4. Fresh \in Ids /\ Fresh \notin store.msgs[q]
  BY <1>2, <1>3, FreshFacts
<1>5. Joined(store, s, Me, q, Fresh)
  BY <1>2, <1>4, EnqueueStore
<1>6. Fresh \in s.msgs[q]
  BY <1>5 DEF Joined
<1>7. thread' = [thread EXCEPT ![t] = r]
  BY <1>3, ThreadTypes DEF Thread
<1>8. /\ r \in Thread /\ r.pc = "post" /\ r.at = thread[t].at /\ r.queue = thread[t].queue
      /\ r.failed = FALSE /\ r.event = thread[t].event
  BY ThreadTypes DEF Thread
<1>9. Moves(t, "post", thread[t].at, thread[t].queue, FALSE, thread[t].event)
  <2>1. Moves(t, r.pc, r.at, r.queue, r.failed, r.event)
    BY <1>7, <1>8, MovesTo
  <2> QED BY <1>8, <2>1
<1> HIDE DEF s, q, j
<1>10. store' \in {store, s} /\ (failures' = failures \/ Fails)
  BY <1>3, BreaksFacts DEF Works
<1>11. CASE store' = s
  <2>1. Adds(q, j) /\ UNCHANGED unretried
    BY <1>3, <1>5, <1>6, <1>11 DEF Adds
  <2> QED BY <1>1, <1>2, <1>3, <1>9, <1>10, <2>1 DEF j
<1>12. CASE store' = store
  <2>1. Leaves /\ unretried' = unretried \cup {j}
    BY <1>3, <1>4, <1>12 DEF Leaves
  <2>2. Fails
    BY <1>3, <1>4, <1>6, <1>12, BreaksFacts DEF Works
  <2> QED BY <1>1, <1>2, <1>3, <1>9, <1>10, <2>1, <2>2 DEF j
<1> QED BY <1>10, <1>11, <1>12

LEMMA PostProcessEffect ==
  ASSUME TypeOK, Stages, Known, NEW t \in Threads, PostProcess(t)
  PROVE  LET id == thread[t].at
             n == thread[t].queue
         IN  /\ id \in Ids /\ n \in QueueNames /\ PostEffect(n, id)
             /\ Turns(n, consumer[n].pc, consumer[n].at, consumer[n].cache,
                      consumer[n].queued \ {job[id]}, consumer[n].delayQ,
                      consumer[n].pending, consumer[n].event)
             /\ \/ Fails /\ UNCHANGED thread
                \/ /\ Moves(t, "idle", None, n, FALSE, thread[t].event)
                   /\ Settled(store, store', Me, n, id)
<1> DEFINE id == thread[t].at
           n == thread[t].queue
           Q == consumer[n].queued \ {job[id]}
           c == [consumer[n] EXCEPT !.queued = Q]
           r == [thread[t] EXCEPT !.pc = "idle", !.at = None, !.failed = FALSE]
           ok == thread' = [thread EXCEPT ![t].pc = "idle", ![t].at = None,
                                          ![t].failed = FALSE]
           again == UNCHANGED thread
<1>1. id \in Ids /\ n \in QueueNames
  BY BusyFacts DEF PostProcess
<1>2. /\ Post(n, id, thread[t].failed, ok, again)
      /\ consumer' = [consumer EXCEPT ![n].queued = @ \ {job[id]}]
  BY DEF PostProcess
<1>3. ok => thread' = [thread EXCEPT ![t] = r]
  BY ThreadTypes DEF Thread
<1>4. /\ r \in Thread /\ r.pc = "idle" /\ r.at = None /\ r.queue = n
      /\ r.failed = FALSE /\ r.event = thread[t].event
  BY ThreadTypes DEF Thread
<1>5. ok => Moves(t, "idle", None, n, FALSE, thread[t].event)
  <2> HIDE DEF ok, again, r, n, id
  <2> QED BY <1>3, <1>4, MovesTo, ZenonT(30)
<1> HIDE DEF ok, again, r, n, id
<1>6. \/ ok /\ failures' = failures /\ Settled(store, store', Me, n, id)
      \/ again /\ Fails /\ ((store' = store) \/ Settled(store, store', Me, n, id))
  BY <1>1, <1>2, PostFacts
<1>7. consumer' = [consumer EXCEPT ![n] = c]
  BY <1>1, <1>2, ConsumerTypes DEF Consumer
<1>8. Q \subseteq Jobs
  BY <1>1, ConsumerTypes
<1> HIDE DEF Q
<1>9. /\ c \in Consumer /\ c.pc = consumer[n].pc /\ c.at = consumer[n].at
      /\ c.cache = consumer[n].cache /\ c.queued = Q
      /\ c.delayQ = consumer[n].delayQ /\ c.pending = consumer[n].pending
      /\ c.event = consumer[n].event
  BY <1>1, <1>8, ConsumerTypes DEF Consumer
<1>10. Turns(n, consumer[n].pc, consumer[n].at, consumer[n].cache, Q, consumer[n].delayQ,
             consumer[n].pending, consumer[n].event)
  <2>1. Turns(n, c.pc, c.at, c.cache, c.queued, c.delayQ, c.pending, c.event)
    BY <1>1, <1>7, <1>9, TurnsTo
  <2> QED BY <1>9, <2>1
<1>11. PostEffect(n, id)
  BY <1>6 DEF PostEffect
<1>12. \/ Fails /\ UNCHANGED thread
       \/ /\ Moves(t, "idle", None, n, FALSE, thread[t].event)
          /\ Settled(store, store', Me, n, id)
  BY <1>5, <1>6 DEF again
<1> QED BY <1>1, <1>10, <1>11, <1>12 DEF n, id, Q
(* The event of child c is cleared, and nothing else of the threads changes. *)
Cleared(c) ==
  /\ consumer' \in [QueueNames -> Consumer] /\ thread' \in [Threads -> Thread]
  /\ \A n \in QueueNames :
       /\ consumer'[n].pc = consumer[n].pc /\ consumer'[n].at = consumer[n].at
       /\ consumer'[n].cache = consumer[n].cache /\ consumer'[n].queued = consumer[n].queued
       /\ consumer'[n].delayQ = consumer[n].delayQ
       /\ consumer'[n].pending = consumer[n].pending
       /\ consumer'[n].event = (consumer[n].event /\ n # c)
  /\ \A t \in Threads :
       /\ thread'[t].pc = thread[t].pc /\ thread'[t].at = thread[t].at
       /\ thread'[t].queue = thread[t].queue
       /\ thread'[t].event = (thread[t].event /\ t # c)

(* What the main thread does next, what it still has to tell and to close. *)
MainIs(pc, toTell, toClear, drained, toClose) ==
  /\ main' \in Main
  /\ main'.pc = pc /\ main'.toTell = toTell /\ main'.toClear = toClear
  /\ main'.drained = drained /\ main'.toClose = toClose
MainAt(pc) == /\ MainIs(pc, main.toTell, main.toClear, main.drained, main.toClose)
              /\ main'.pauses = main.pauses /\ main'.gaveUp = main.gaveUp

LEMMA MainTypes ==
  ASSUME TypeOK
  PROVE  /\ main \in Main
         /\ main.pc \in {"up", "pausing", "resuming", "stopping", "joining", "draining",
                         "requeue", "closing", "done", "failed"}
         /\ main.toTell \subseteq Children /\ main.toClear \subseteq Children
         /\ main.drained \subseteq Ids \X QueueNames
         /\ main.toClose \subseteq QueueNames /\ main.pauses \in Nat
         /\ main.stops \in 0 .. MaxStops /\ main.gaveUp \in BOOLEAN
         /\ main.early \in BOOLEAN /\ MaxStops \in Nat
<1>1. main \in Main
  BY DEF TypeOK
<1> QED BY <1>1, WorkerAssumption DEF Main

LEMMA MainAtEffect ==
  ASSUME TypeOK, NEW pc, main' = [main EXCEPT !.pc = pc],
         pc \in {"up", "requeue", "done", "failed"}
  PROVE  MainAt(pc)
BY MainTypes DEF Main, MainAt, MainIs

LEMMA ClearEffect ==
  ASSUME TypeOK, NEW c \in Children, ClearEvent(c)
  PROVE  /\ Cleared(c) /\ c \in main.toClear
         /\ MainIs(main.pc, main.toTell, {}, main.drained, main.toClose)
         /\ main'.pauses = main.pauses /\ main'.gaveUp = main.gaveUp
<1>1. /\ c \in main.toClear
      /\ MainIs(main.pc, main.toTell, {}, main.drained, main.toClose)
      /\ main'.pauses = main.pauses /\ main'.gaveUp = main.gaveUp
  BY MainTypes DEF ClearEvent, Main, MainIs
<1>2. Threads \cap QueueNames = {}
  BY WorkerAssumption
<1>3. CASE c \in QueueNames
  <2> DEFINE r == [consumer[c] EXCEPT !.event = FALSE]
  <2>1. consumer' = [consumer EXCEPT ![c] = r] /\ thread' = thread
    BY <1>3, ConsumerTypes DEF ClearEvent, Consumer
  <2>2. /\ r \in Consumer /\ r.pc = consumer[c].pc /\ r.at = consumer[c].at
        /\ r.cache = consumer[c].cache /\ r.queued = consumer[c].queued
        /\ r.delayQ = consumer[c].delayQ /\ r.pending = consumer[c].pending
        /\ r.event = FALSE
    BY <1>3, ConsumerTypes DEF Consumer
  <2>3. Turns(c, r.pc, r.at, r.cache, r.queued, r.delayQ, r.pending, r.event)
    BY <1>3, <2>1, <2>2, TurnsTo
  <2> HIDE DEF r
  <2>4. ASSUME NEW n \in QueueNames
        PROVE  /\ consumer'[n].pc = consumer[n].pc /\ consumer'[n].at = consumer[n].at
               /\ consumer'[n].cache = consumer[n].cache
               /\ consumer'[n].queued = consumer[n].queued
               /\ consumer'[n].delayQ = consumer[n].delayQ
               /\ consumer'[n].pending = consumer[n].pending
               /\ consumer'[n].event = (consumer[n].event /\ n # c)
    <3>1. CASE n = c
      BY <2>2, <2>3, <3>1 DEF Turns
    <3>2. CASE n # c
      BY <2>3, <3>2, ConsumerTypes DEF Turns
    <3> QED BY <3>1, <3>2
  <2>5. consumer' \in [QueueNames -> Consumer] /\ thread' \in [Threads -> Thread]
    BY <2>1, <2>3 DEF Turns, TypeOK
  <2>6. \A t \in Threads : t # c /\ thread[t].event \in BOOLEAN
    BY <1>2, <1>3, ThreadTypes
  <2> QED BY <1>1, <2>1, <2>4, <2>5, <2>6 DEF Cleared
<1>4. CASE c \in Threads
  <2> DEFINE r == [thread[c] EXCEPT !.event = FALSE]
  <2>1. thread' = [thread EXCEPT ![c] = r] /\ consumer' = consumer
    BY <1>2, <1>4, ThreadTypes DEF ClearEvent, Thread
  <2>2. /\ r \in Thread /\ r.pc = thread[c].pc /\ r.at = thread[c].at
        /\ r.queue = thread[c].queue /\ r.failed = thread[c].failed /\ r.event = FALSE
    BY <1>4, ThreadTypes DEF Thread
  <2>3. Moves(c, r.pc, r.at, r.queue, r.failed, r.event)
    BY <1>4, <2>1, <2>2, MovesTo
  <2> HIDE DEF r
  <2>4. ASSUME NEW t \in Threads
        PROVE  /\ thread'[t].pc = thread[t].pc /\ thread'[t].at = thread[t].at
               /\ thread'[t].queue = thread[t].queue
               /\ thread'[t].event = (thread[t].event /\ t # c)
    <3>1. CASE t = c
      BY <2>2, <2>3, <3>1 DEF Moves
    <3>2. CASE t # c
      BY <2>3, <3>2, ThreadTypes DEF Moves
    <3> QED BY <3>1, <3>2
  <2>5. consumer' \in [QueueNames -> Consumer] /\ thread' \in [Threads -> Thread]
    BY <2>1, <2>3 DEF Moves, TypeOK
  <2>6. \A n \in QueueNames : n # c /\ consumer[n].event \in BOOLEAN
    BY <1>2, <1>4, ConsumerTypes
  <2> QED BY <1>1, <2>1, <2>4, <2>5, <2>6 DEF Cleared
<1> QED BY <1>3, <1>4 DEF Children

(* The main thread says something, or starts to: no thread changes.        *)
LEMMA PauseEffect ==
  ASSUME TypeOK, Pause
  PROVE  /\ MainIs("pausing", Children, main.toClear, main.drained, main.toClose)
         /\ main'.pauses = main.pauses + 1 /\ main'.gaveUp = main.gaveUp
<1>1. main' = [main EXCEPT !.pc = "pausing", !.toTell = Children, !.pauses = main.pauses + 1]
  BY MainTypes DEF Pause, Main
<1>2. main.pauses + 1 \in Nat /\ Children \in SUBSET Children
  BY MainTypes
<1> QED BY <1>1, <1>2, MainTypes DEF MainIs, Main

LEMMA ResumeEffect ==
  ASSUME TypeOK, Resume
  PROVE  /\ MainIs("resuming", Children, main.toClear, main.drained, main.toClose)
         /\ main'.pauses = main.pauses /\ main'.gaveUp = main.gaveUp
<1>1. main' = [main EXCEPT !.pc = "resuming", !.toTell = Children]
  BY DEF Resume
<1>2. Children \in SUBSET Children
  OBVIOUS
<1> QED BY <1>1, <1>2, MainTypes DEF MainIs, Main

LEMMA TellEffect ==
  ASSUME TypeOK, NEW c \in Children, TellChild(c)
  PROVE  /\ MainIs(main.pc, main.toTell \ {c}, {c}, main.drained, main.toClose)
         /\ main'.pauses = main.pauses /\ main'.gaveUp = main.gaveUp
         /\ paused' \in [Children -> BOOLEAN]
         /\ paused'[c] = (main.pc = "pausing")
         /\ \A d \in Children \ {c} : paused'[d] = paused[d]
<1>1. main' = [main EXCEPT !.toTell = main.toTell \ {c}, !.toClear = {c}]
  BY MainTypes DEF TellChild, Main
<1>2. main.toTell \ {c} \subseteq Children /\ {c} \subseteq Children
  BY MainTypes
<1>3. paused' = [paused EXCEPT ![c] = (main.pc = "pausing")]
  BY DEF TellChild
<1>4. paused \in [Children -> BOOLEAN] /\ (main.pc = "pausing") \in BOOLEAN
  BY DEF TypeOK
<1>5. /\ paused' \in [Children -> BOOLEAN]
      /\ paused'[c] = (main.pc = "pausing")
      /\ \A d \in Children \ {c} : paused'[d] = paused[d]
  BY <1>3, <1>4
<1>6. /\ MainIs(main.pc, main.toTell \ {c}, {c}, main.drained, main.toClose)
      /\ main'.pauses = main.pauses /\ main'.gaveUp = main.gaveUp
  BY <1>1, <1>2, MainTypes DEF MainIs, Main
<1> QED BY <1>5, <1>6

LEMMA StopEffect ==
  ASSUME TypeOK, Stop
  PROVE  /\ MainIs("stopping", Threads, main.toClear, main.drained, main.toClose)
         /\ main'.pauses = main.pauses /\ main'.gaveUp = main.gaveUp
<1>1. main' = [main EXCEPT !.pc = "stopping", !.toTell = Threads, !.stops = main.stops + 1]
  BY MainTypes DEF Stop, Main
<1>2. main.stops + 1 \in 0 .. MaxStops
  BY MainTypes DEF Stop
<1>3. Threads \in SUBSET Children
  BY DEF Children
<1> QED BY <1>1, <1>2, <1>3, MainTypes DEF MainIs, Main

LEMMA StopChildEffect ==
  ASSUME TypeOK, NEW c \in Children, StopChild(c)
  PROVE  /\ main.pc \in {"stopping", "joining"}
         /\ MainIs(main.pc, main.toTell \ {c}, main.toClear, main.drained, main.toClose)
         /\ main'.pauses = main.pauses /\ main'.gaveUp = main.gaveUp
         /\ running' \in [Children -> BOOLEAN]
<1> DEFINE e == main.early \/ New(c)
<1>1. /\ main' = [main EXCEPT !.toTell = main.toTell \ {c}, !.early = e]
      /\ main.pc \in {"stopping", "joining"}
  BY MainTypes DEF StopChild, Main
<1>2. main.toTell \ {c} \subseteq Children
  BY MainTypes
<1>3. e \in BOOLEAN
  BY MainTypes
<1>4. running' \in [Children -> BOOLEAN]
  BY DEF StopChild, TypeOK
<1> HIDE DEF e
<1>5. /\ MainIs(main.pc, main.toTell \ {c}, main.toClear, main.drained, main.toClose)
      /\ main'.pauses = main.pauses /\ main'.gaveUp = main.gaveUp
  BY <1>1, <1>2, <1>3, MainTypes DEF MainIs, Main
<1> QED BY <1>1, <1>4, <1>5

LEMMA WorkersJoinedEffect ==
  ASSUME TypeOK, WorkersJoined
  PROVE  /\ ~main'.gaveUp => \A t \in Threads : thread[t].pc = "stopped"
         /\ MainIs("joining", QueueNames, main.toClear, main.drained, main.toClose)
         /\ main'.pauses = main.pauses
<1> DEFINE g == ~ \A t \in Threads : thread[t].pc = "stopped"
<1>1. main' = [main EXCEPT !.pc = "joining", !.toTell = QueueNames, !.gaveUp = g]
  BY DEF WorkersJoined
<1>2. g \in BOOLEAN /\ QueueNames \in SUBSET Children
  BY DEF Children
<1>3. ~g => \A t \in Threads : thread[t].pc = "stopped"
  OBVIOUS
<1> HIDE DEF g
<1>4. /\ MainIs("joining", QueueNames, main.toClear, main.drained, main.toClose)
      /\ main'.pauses = main.pauses /\ main'.gaveUp = g
  BY <1>1, <1>2, MainTypes DEF MainIs, Main
<1> QED BY <1>3, <1>4

LEMMA ConsumersJoinedEffect ==
  ASSUME TypeOK, ConsumersJoined
  PROVE  /\ ~main'.gaveUp => /\ ~main.gaveUp
                             /\ \A n \in QueueNames : consumer[n].pc \in {"stopped", "dead"}
         /\ MainIs("draining", main.toTell, main.toClear, main.drained, main.toClose)
         /\ main'.pauses = main.pauses
<1> DEFINE g == main.gaveUp \/ ~ \A n \in QueueNames : consumer[n].pc \in {"stopped", "dead"}
<1>1. main' = [main EXCEPT !.pc = "draining", !.gaveUp = g]
  BY MainTypes DEF ConsumersJoined, Main
<1>2. g \in BOOLEAN
  BY MainTypes
<1>3. ~g => /\ ~main.gaveUp
            /\ \A n \in QueueNames : consumer[n].pc \in {"stopped", "dead"}
  OBVIOUS
<1> HIDE DEF g
<1>4. /\ MainIs("draining", main.toTell, main.toClear, main.drained, main.toClose)
      /\ main'.pauses = main.pauses /\ main'.gaveUp = g
  BY <1>1, <1>2, MainTypes DEF MainIs, Main
<1> QED BY <1>3, <1>4

LEMMA DrainEffect ==
  ASSUME TypeOK, DrainWork
  PROVE  /\ main.pc = "draining"
         /\ \/ workQueue = {} /\ MainAt("requeue") /\ UNCHANGED workQueue
            \/ \E id \in Ids, n \in QueueNames :
                 /\ <<id, n>> \in workQueue /\ workQueue' = workQueue \ {<<id, n>>}
                 /\ MainIs("draining", main.toTell, main.toClear,
                           main.drained \cup {<<id, n>>}, main.toClose)
                 /\ main'.pauses = main.pauses /\ main'.gaveUp = main.gaveUp
<1>1. CASE /\ workQueue = {} /\ main' = [main EXCEPT !.pc = "requeue"]
           /\ UNCHANGED workQueue
  BY <1>1, MainAtEffect DEF DrainWork
<1>2. ASSUME NEW item \in workQueue, workQueue' = workQueue \ {item},
             main' = [main EXCEPT !.drained = @ \cup {item}]
      PROVE  \E id \in Ids, n \in QueueNames :
               /\ <<id, n>> \in workQueue /\ workQueue' = workQueue \ {<<id, n>>}
               /\ MainIs("draining", main.toTell, main.toClear,
                         main.drained \cup {<<id, n>>}, main.toClose)
               /\ main'.pauses = main.pauses /\ main'.gaveUp = main.gaveUp
  <2>1. PICK id \in Ids, n \in QueueNames : item = <<id, n>>
    BY JobTypes
  <2> DEFINE D == main.drained \cup {<<id, n>>}
  <2>2. D \subseteq Ids \X QueueNames
    BY MainTypes
  <2>3. main' = [main EXCEPT !.drained = D]
    BY <1>2, <2>1, MainTypes DEF Main
  <2> HIDE DEF D
  <2>4. /\ MainIs("draining", main.toTell, main.toClear, D, main.toClose)
        /\ main'.pauses = main.pauses /\ main'.gaveUp = main.gaveUp
    BY <2>2, <2>3, MainTypes DEF MainIs, Main, DrainWork
  <2> QED BY <1>2, <2>1, <2>4 DEF D
<1> QED BY <1>1, <1>2 DEF DrainWork

(* What was drained of queue n, and what is left without it.               *)
DrainedOf(n) == {id \in Ids : <<id, n>> \in main.drained}
Undrained(n) == main.drained \ (DrainedOf(n) \X {n})

LEMMA RequeueWorkEffect ==
  ASSUME TypeOK, RequeueWork
  PROVE  /\ main.pc = "requeue" /\ main'.pauses = main.pauses /\ main'.gaveUp = main.gaveUp
         /\ \/ /\ main.drained = {} /\ UNCHANGED <<store, failures>>
               /\ MainIs("closing", main.toTell, main.toClear, main.drained, QueueNames)
            \/ \E n \in QueueNames :
                 /\ GivesBack(n, DrainedOf(n))
                 /\ \/ MainIs("requeue", main.toTell, main.toClear, Undrained(n), main.toClose)
                    \/ /\ MainIs("failed", main.toTell, main.toClear, Undrained(n),
                                 main.toClose)
                       /\ failures' # 0
<1>1. CASE main.drained = {}
  <2>1. /\ main' = [main EXCEPT !.pc = "closing", !.toClose = QueueNames]
        /\ UNCHANGED <<store, failures>>
    BY <1>1 DEF RequeueWork
  <2> QED BY <1>1, <2>1, MainTypes DEF RequeueWork, MainIs, Main
<1>2. CASE main.drained # {}
  <2>1. PICK n \in {item[2] : item \in main.drained} :
          LET ids == {item[1] : item \in {i \in main.drained : i[2] = n}}
              rest == main.drained \ (ids \X {n})
          IN  requeue_messages(n, ids, main' = [main EXCEPT !.drained = rest],
                   main' = [main EXCEPT !.drained = rest, !.pc = "failed"])
    BY <1>2 DEF RequeueWork
  <2> DEFINE got == {item[1] : item \in {i \in main.drained : i[2] = n}}
             ids == DrainedOf(n)
             rest == main.drained \ (got \X {n})
             ok == main' = [main EXCEPT !.drained = rest]
             raised == main' = [main EXCEPT !.drained = rest, !.pc = "failed"]
  <2>2. \A item \in main.drained : /\ item[1] \in Ids /\ item[2] \in QueueNames
                                   /\ item = <<item[1], item[2]>>
    BY MainTypes
  <2>3. n \in QueueNames
    BY <2>1, <2>2
  <2>4. got = ids
    <3>1. got \subseteq ids
      BY <2>2 DEF DrainedOf
    <3>2. \A id \in ids : <<id, n>>[1] = id /\ <<id, n>>[2] = n /\ <<id, n>> \in main.drained
      BY DEF DrainedOf
    <3>3. ids \subseteq got
      BY <3>2
    <3> QED BY <3>1, <3>3
  <2>5. requeue_messages(n, got, ok, raised)
    BY <2>1
  <2>6. rest = Undrained(n)
    BY <2>4 DEF Undrained
  <2>7. rest \subseteq Ids \X QueueNames
    BY MainTypes
  <2> HIDE DEF got, rest
  <2>8. ok => /\ MainIs("requeue", main.toTell, main.toClear, rest, main.toClose)
              /\ main'.pauses = main.pauses /\ main'.gaveUp = main.gaveUp
    BY <2>7, MainTypes DEF MainIs, Main, RequeueWork
  <2>9. raised => /\ MainIs("failed", main.toTell, main.toClear, rest, main.toClose)
                  /\ main'.pauses = main.pauses /\ main'.gaveUp = main.gaveUp
    BY <2>7, MainTypes DEF MainIs, Main
  <2> HIDE DEF ids, ok, raised
  <2>10. ids \in SUBSET Ids
    BY DEF ids, DrainedOf
  <2>11. \/ ok /\ failures' = failures /\ Returned(store, store', Me, n, ids)
         \/ raised /\ Fails /\ ((store' = store) \/ Returned(store, store', Me, n, ids))
    BY <2>3, <2>4, <2>5, <2>10, RequeueEffect
  <2>12. store' \in Store
    BY <2>11, ServerFacts DEF Returned
  <2>13. failures' \in 0 .. setup.failures
    BY <2>11, SetupTypes DEF Fails
  <2>14. CASE ok /\ failures' = failures /\ Returned(store, store', Me, n, ids)
    <3>1. GivesBack(n, ids)
      BY <2>12, <2>13, <2>14 DEF GivesBack
    <3> QED BY <2>3, <2>6, <2>8, <2>14, <3>1 DEF ids, RequeueWork
  <2>15. CASE raised /\ Fails /\ ((store' = store) \/ Returned(store, store', Me, n, ids))
    <3>1. failures' # 0
      BY <2>15, SetupTypes DEF Fails
    <3>2. GivesBack(n, ids)
      BY <2>12, <2>13, <2>15, <3>1 DEF GivesBack
    <3> QED BY <2>3, <2>6, <2>9, <2>15, <3>1, <3>2 DEF ids, RequeueWork
  <2> QED BY <2>11, <2>14, <2>15
<1> QED BY <1>1, <1>2

LEMMA CloseConsumersEffect ==
  ASSUME TypeOK, CloseConsumers
  PROVE  /\ main.pc = "closing" /\ main'.pauses = main.pauses /\ main'.gaveUp = main.gaveUp
         /\ \/ main.toClose = {} /\ MainAt("done") /\ UNCHANGED <<store, failures, consumer>>
            \/ \E n \in main.toClose :
                 /\ n \in QueueNames /\ Empties(n, consumer[n].pc)
                 /\ GivesBack(n, consumer[n].delayQ)
                 /\ \/ MainIs("closing", main.toTell, main.toClear, main.drained,
                              main.toClose \ {n})
                    \/ MainAt("failed") /\ failures' # 0
<1>0. main.pc = "closing"
  BY DEF CloseConsumers
<1>1. CASE main.toClose = {}
  <2>1. main' = [main EXCEPT !.pc = "done"] /\ UNCHANGED <<store, failures, consumer>>
    BY <1>1 DEF CloseConsumers
  <2>2. MainAt("done")
    BY <2>1, MainAtEffect
  <2> QED BY <1>0, <1>1, <2>1, <2>2 DEF MainAt
<1>2. CASE main.toClose # {}
  <2>1. PICK n \in main.toClose :
          /\ consumer' = Emptied(n, consumer[n].pc)
          /\ Close(n, main' = [main EXCEPT !.toClose = @ \ {n}],
                      main' = [main EXCEPT !.pc = "failed"])
    BY <1>2 DEF CloseConsumers
  <2> DEFINE ok == main' = [main EXCEPT !.toClose = @ \ {n}]
             raised == main' = [main EXCEPT !.pc = "failed"]
  <2>2. n \in QueueNames
    BY MainTypes
  <2>3. Empties(n, consumer[n].pc)
    BY <2>1, <2>2, EmptiedEffect
  <2>4. Close(n, ok, raised)
    BY <2>1
  <2>5. ok => /\ MainIs("closing", main.toTell, main.toClear, main.drained, main.toClose \ {n})
              /\ main'.pauses = main.pauses /\ main'.gaveUp = main.gaveUp
    BY MainTypes DEF MainIs, Main, CloseConsumers
  <2>6. raised => MainAt("failed")
    BY MainAtEffect
  <2> HIDE DEF ok, raised
  <2>7. \/ ok /\ GivesBack(n, consumer[n].delayQ) /\ failures' = failures
        \/ raised /\ GivesBack(n, consumer[n].delayQ) /\ failures' # 0
    BY <2>2, <2>4, CloseEffect
  <2>8. main'.pauses = main.pauses /\ main'.gaveUp = main.gaveUp
    BY <2>5, <2>6, <2>7 DEF MainAt
  <2> QED BY <1>0, <2>2, <2>3, <2>5, <2>6, <2>7, <2>8
<1> QED BY <1>1, <1>2

LEMMA SendEffect ==
  ASSUME TypeOK, Known, NEW j \in Jobs, NEW n \in QueueNames, Send(j, n)
  PROVE  Adds(n, j) /\ HasFresh
<1>1. HasFresh /\ job' = [job EXCEPT ![Fresh] = j] /\ store' = Enqueued(store, n, Fresh)
  BY DEF Send
<1>2. Fresh \in Ids
  BY <1>1, FreshFacts
<1>3. Joined(store, Enqueued(store, n, Fresh), Me, n, Fresh)
  BY <1>2, EnqueueStore
<1> QED BY <1>1, <1>3 DEF Adds
-----------------------------------------------------------------------------
(* Types, and what is in hand where.                                       *)

Stage(pc, at, delayQ, pending) ==
  /\ at # None <=> pc \in {"handle", "reject", "copy", "ackcopy"}
  /\ Cardinality(delayQ) + (IF pc \in {"copy", "ackcopy"} THEN 1 ELSE 0) <= pending

LEMMA StageHere ==
  ASSUME Stages, NEW n \in QueueNames
  PROVE  Stage(consumer[n].pc, consumer[n].at, consumer[n].delayQ, consumer[n].pending)
BY DEF Stages, Stage, Copying

(* What the steps of consumer n leave to be shown.                         *)
LEMMA ConsumerTyped ==
  ASSUME TypeOK, Stages, NEW n \in QueueNames, NEW pc, NEW at, NEW cache, NEW queued,
         NEW delayQ, NEW pending, NEW event,
         Turns(n, pc, at, cache, queued, delayQ, pending, event),
         Stage(pc, at, delayQ, pending),
         store' \in Store, failures' \in 0 .. setup.failures,
         job' \in [Ids -> Jobs \cup {NoJob}], finished' \subseteq Jobs,
         workQueue' \subseteq Ids \X QueueNames,
         running' \in [Children -> BOOLEAN],
         UNCHANGED <<setup, retries, unretried, thread, paused, main>>
  PROVE  TypeOK' /\ Stages'
<1>1. consumer' \in [QueueNames -> Consumer]
  BY DEF Turns
<1>2. TypeOK'
  BY <1>1 DEF TypeOK
<1>3. ASSUME NEW m \in QueueNames
      PROVE  /\ consumer'[m].at # None
                  <=> consumer'[m].pc \in {"handle", "reject", "copy", "ackcopy"}
             /\ Cardinality(consumer'[m].delayQ) + Copying(consumer'[m])
                  <= consumer'[m].pending
  <2>1. CASE m = n
    BY <2>1 DEF Turns, Stage, Copying
  <2>2. CASE m # n
    <3>1. consumer'[m] = consumer[m]
      BY <2>2 DEF Turns
    <3> QED BY <3>1 DEF Stages
  <2> QED BY <2>1, <2>2
<1>4. \A t \in Threads : thread'[t].at # None <=> thread'[t].pc \in {"run", "post"}
  BY DEF Stages
<1> QED BY <1>2, <1>3, <1>4 DEF Stages

(* What a consumer leaves alone in most of its steps.                      *)
LEMMA TypesHere ==
  ASSUME TypeOK
  PROVE  /\ store \in Store /\ failures \in 0 .. setup.failures
         /\ job \in [Ids -> Jobs \cup {NoJob}] /\ finished \subseteq Jobs
         /\ workQueue \subseteq Ids \X QueueNames
         /\ running \in [Children -> BOOLEAN]
         /\ setup \in Setups /\ retries \in [Jobs -> 0 .. setup.retries]
         /\ unretried \subseteq Jobs /\ paused \in [Children -> BOOLEAN]
BY DEF TypeOK

LEMMA DelayQFacts ==
  ASSUME TypeOK, NEW n \in QueueNames, NEW id \in Ids
  PROVE  LET D == consumer[n].delayQ
         IN  /\ Cardinality(D \cup {id}) <= Cardinality(D) + 1
             /\ id \in D => Cardinality(D \ {id}) = Cardinality(D) - 1
             /\ Cardinality({}) = 0 /\ Cardinality(D) \in Nat
             /\ Cardinality(D \cup {id}) \in Nat /\ Cardinality(D \ {id}) \in Nat
<1> DEFINE D == consumer[n].delayQ
<1>1. IsFiniteSet(D) /\ Cardinality(D) \in Nat
  BY OutstandingTypes
<1>2. IsFiniteSet(D \cup {id}) /\ IsFiniteSet(D \ {id})
  BY <1>1, FS_AddElement, FS_RemoveElement
<1>3. Cardinality(D \cup {id}) \in Nat /\ Cardinality(D \ {id}) \in Nat
  BY <1>2, FS_CardinalityType
<1> HIDE DEF D
<1>4. Cardinality(D \cup {id}) = Cardinality(D) \/ Cardinality(D \cup {id}) = Cardinality(D) + 1
  BY <1>1, FS_AddElement
<1>5. id \in D => Cardinality(D \ {id}) = Cardinality(D) - 1
  BY <1>1, FS_RemoveElement
<1>6. Cardinality({}) = 0
  BY FS_EmptySet
<1> QED BY <1>1, <1>3, <1>4, <1>5, <1>6 DEF D

LEMMA PostTypes ==
  ASSUME TypeOK, NEW n \in QueueNames, NEW id \in Ids, PostEffect(n, id)
  PROVE  store' \in Store /\ failures' \in 0 .. setup.failures
BY TypesHere DEF PostEffect, Settled, Fails

LEMMA AddsTypes ==
  ASSUME TypeOK, Known, HasFresh, NEW q \in QueueNames, NEW j \in Jobs,
         Adds(q, j) \/ Leaves
  PROVE  store' \in Store /\ job' \in [Ids -> Jobs \cup {NoJob}]
BY TypesHere, FreshFacts DEF Adds, Leaves, Joined

LEMMA ConsumerStepTyped ==
  ASSUME TypeOK, Stages, Known, NEW n \in QueueNames, ConsumerStep(n)
  PROVE  TypeOK' /\ Stages'
<1> USE TypesHere
<1>0. /\ Stage(consumer[n].pc, consumer[n].at, consumer[n].delayQ, consumer[n].pending)
      /\ Cardinality(consumer[n].delayQ) \in Nat /\ Cardinality({}) = 0
      /\ consumer[n].pending \in Nat
  BY StageHere, OutstandingTypes, ConsumerTypes, FS_EmptySet
<1>1. CASE ConsumerStarts(n)
  <2>1. Same(n, "top")
    BY <1>1, GotoEffect DEF ConsumerStarts, Same
  <2>2. Stage("top", consumer[n].at, consumer[n].delayQ, consumer[n].pending)
    BY <1>0, <1>1 DEF Stage, ConsumerStarts
  <2>3. running' \in [Children -> BOOLEAN]
    BY <1>1 DEF ConsumerStarts, TypeOK, Children
  <2> QED BY <1>1, <2>1, <2>2, <2>3, ConsumerTyped DEF ConsumerStarts, work, Same
<1>2. CASE ConsumerTop(n)
  <2>1. \A pc \in {"stopped", "paused", "next"} :
          Stage(pc, consumer[n].at, consumer[n].delayQ, consumer[n].pending)
    BY <1>0, <1>2 DEF Stage, ConsumerTop
  <2>2. UNCHANGED <<store, failures>> /\ ConsumerOnly
    BY <1>2 DEF ConsumerTop
  <2> QED BY <1>2, <2>1, <2>2, ConsumerTopEffect, ConsumerTyped DEF ConsumerOnly, work, Same
<1>3. CASE ConsumerPaused(n)
  <2>1. Stage("top", consumer[n].at, consumer[n].delayQ, consumer[n].pending)
    BY <1>0, <1>3 DEF Stage, ConsumerPaused
  <2>2. UNCHANGED <<store, failures>> /\ ConsumerOnly
    BY <1>3 DEF ConsumerPaused
  <2> QED BY <1>3, <2>1, <2>2, ConsumerPausedEffect, ConsumerTyped DEF ConsumerOnly, work
<1>4. CASE NextCached(n)
  <2> DEFINE id == Head(consumer[n].cache)
             rest == Tail(consumer[n].cache)
  <2>1. id \in Ids /\ id # None
    <3>1. consumer[n].cache \in Seq(Ids) /\ consumer[n].cache # <<>>
      BY <1>4, ConsumerTypes DEF NextCached
    <3>2. id \in Ids
      BY <3>1
    <3> HIDE DEF id
    <3> QED BY <3>2, WorkerAssumption
  <2>2. /\ Stage("error", consumer[n].at, consumer[n].delayQ, consumer[n].pending)
        /\ Stage("handle", id, consumer[n].delayQ, consumer[n].pending)
    BY <1>0, <1>4, <2>1 DEF Stage, NextCached
  <2>3. UNCHANGED <<store, failures>> /\ ConsumerOnly
    BY <1>4 DEF NextCached
  <2>4. \/ Turns(n, "error", consumer[n].at, rest, consumer[n].queued,
                 consumer[n].delayQ, consumer[n].pending, consumer[n].event)
        \/ Turns(n, "handle", id, rest, consumer[n].queued \cup {job[id]},
                 consumer[n].delayQ, consumer[n].pending, consumer[n].event)
    BY <1>4, NextCachedEffect
  <2> HIDE DEF id, rest
  <2> QED BY <2>2, <2>3, <2>4, ConsumerTyped DEF ConsumerOnly, work
<1>5. CASE NextFull(n)
  <2>1. AfterNone(n) \in {"restart", "delayed"} /\ Same(n, AfterNone(n))
    BY <1>5, GotoEffect DEF NextFull, AfterNone, Same
  <2>2. Stage(AfterNone(n), consumer[n].at, consumer[n].delayQ, consumer[n].pending)
    BY <1>0, <1>5, <2>1 DEF Stage, NextFull
  <2> QED BY <1>5, <2>1, <2>2, ConsumerTyped DEF NextFull, ConsumerOnly, work, Same
<1>6. CASE NextFetch(n)
  <2>1. ConsumerOnly /\ consumer[n].pc = "next"
    BY <1>6 DEF NextFetch
  <2>2. /\ \A pc \in {"next", "restart", "delayed"} :
             Stage(pc, consumer[n].at, consumer[n].delayQ, consumer[n].pending)
        /\ Stage("restart", consumer[n].at, {}, 0)
    BY <1>0, <2>1 DEF Stage
  <2>3. PICK p \in Seq(Ids) :
           \/ /\ Taken(store, store', Me, n, p) /\ failures' = failures
              /\ \E pc \in {"next", "restart", "delayed"} :
                   Turns(n, pc, consumer[n].at, p, consumer[n].queued,
                         consumer[n].delayQ, consumer[n].pending, consumer[n].event)
           \/ /\ store' = store \/ Taken(store, store', Me, n, p)
              /\ Fails
              /\ Turns(n, "restart", consumer[n].at, <<>>, consumer[n].queued, {}, 0,
                       consumer[n].event)
    BY <1>6, NextFetchEffect
  <2>4. store' \in Store /\ failures' \in 0 .. setup.failures
    BY <2>3 DEF Taken, Fails
  <2>5. UNCHANGED <<setup, job, finished, retries, unretried, thread, workQueue, running,
                    paused, main>>
    BY <2>1 DEF ConsumerOnly, work
  <2>6. CASE \E pc \in {"next", "restart", "delayed"} :
               Turns(n, pc, consumer[n].at, p, consumer[n].queued,
                     consumer[n].delayQ, consumer[n].pending, consumer[n].event)
    BY <2>2, <2>4, <2>5, <2>6, ConsumerTyped
  <2>7. CASE Turns(n, "restart", consumer[n].at, <<>>, consumer[n].queued, {}, 0,
                   consumer[n].event)
    BY <2>2, <2>4, <2>5, <2>7, ConsumerTyped
  <2> QED BY <2>3, <2>6, <2>7
<1>7. CASE HandleMessage(n)
  <2> DEFINE id == consumer[n].at
             D == consumer[n].delayQ \cup {id}
  <2>1. /\ id \in Ids
        /\ \/ /\ UNCHANGED <<workQueue, finished>>
              /\ Turns(n, "delayed", None, consumer[n].cache, consumer[n].queued,
                       D, consumer[n].pending + 1, consumer[n].event)
           \/ /\ workQueue' = workQueue \cup {<<id, n>>} /\ UNCHANGED finished
              /\ Turns(n, "delayed", None, consumer[n].cache, consumer[n].queued,
                       consumer[n].delayQ, consumer[n].pending, consumer[n].event)
           \/ /\ Same(n, "reject")
              /\ finished' = finished \cup {job[id]} /\ UNCHANGED workQueue
    BY <1>7, HandleEffect
  <2>2. Cardinality(D) <= Cardinality(consumer[n].delayQ) + 1 /\ Cardinality(D) \in Nat
    BY <2>1, DelayQFacts
  <2> HIDE DEF D
  <2>3. /\ Stage("delayed", None, D, consumer[n].pending + 1)
        /\ Stage("delayed", None, consumer[n].delayQ, consumer[n].pending)
        /\ Stage("reject", consumer[n].at, consumer[n].delayQ, consumer[n].pending)
    BY <1>0, <1>7, <2>2 DEF Stage, HandleMessage
  <2>4. UNCHANGED <<setup, store, failures, job, retries, unretried, thread, running,
                    paused, main>>
    BY <1>7 DEF HandleMessage
  <2>5. CASE /\ UNCHANGED <<workQueue, finished>>
             /\ Turns(n, "delayed", None, consumer[n].cache, consumer[n].queued,
                      D, consumer[n].pending + 1, consumer[n].event)
    BY <2>3, <2>4, <2>5, ConsumerTyped
  <2>6. CASE /\ workQueue' = workQueue \cup {<<id, n>>} /\ UNCHANGED finished
             /\ Turns(n, "delayed", None, consumer[n].cache, consumer[n].queued,
                      consumer[n].delayQ, consumer[n].pending, consumer[n].event)
    <3>1. workQueue' \subseteq Ids \X QueueNames
      BY <2>1, <2>6
    <3> QED BY <2>3, <2>4, <2>6, <3>1, ConsumerTyped
  <2>7. CASE /\ Same(n, "reject")
             /\ finished' = finished \cup {job[id]} /\ UNCHANGED workQueue
    <3>1. job[id] \in Jobs
      <4>1. In(n, "hand", id) /\ "hand" \in Places
        BY DEF In, Places
      <4> QED BY <2>1, <4>1 DEF Known
    <3>2. finished' \subseteq Jobs
      BY <2>7, <3>1
    <3> QED BY <2>3, <2>4, <2>7, <3>2, ConsumerTyped DEF Same
  <2> QED BY <2>1, <2>5, <2>6, <2>7
<1>8. CASE RejectUnknown(n)
  <2> DEFINE id == consumer[n].at
  <2>1. PICK pc \in {"delayed", "reject"} :
          /\ id \in Ids /\ PostEffect(n, id)
          /\ Turns(n, pc, IF pc = "reject" THEN id ELSE None, consumer[n].cache,
                   consumer[n].queued \ {job[id]}, consumer[n].delayQ,
                   consumer[n].pending, consumer[n].event)
    BY <1>8, RejectEffect
  <2>2. ConsumerOnly
    BY <1>8 DEF RejectUnknown
  <2>3. Stage(pc, IF pc = "reject" THEN id ELSE None, consumer[n].delayQ,
              consumer[n].pending)
    BY <1>0, <1>8 DEF Stage, RejectUnknown
  <2>4. store' \in Store /\ failures' \in 0 .. setup.failures
    BY <2>1, PostTypes
  <2> HIDE DEF id
  <2> QED BY <2>1, <2>2, <2>3, <2>4, ConsumerTyped DEF ConsumerOnly, work
<1>9. CASE DelayedDue(n)
  <2>1. PICK id \in consumer[n].delayQ :
           /\ id \in Ids
           /\ Turns(n, "copy", id, consumer[n].cache, consumer[n].queued,
                    consumer[n].delayQ \ {id}, consumer[n].pending, consumer[n].event)
    BY <1>9, DueEffect
  <2> DEFINE D == consumer[n].delayQ \ {id}
  <2>2. Cardinality(D) = Cardinality(consumer[n].delayQ) - 1 /\ Cardinality(D) \in Nat
    BY <2>1, DelayQFacts
  <2>3. id # None
    BY <2>1, WorkerAssumption
  <2> HIDE DEF D
  <2>4. Stage("copy", id, D, consumer[n].pending)
    BY <1>0, <1>9, <2>2, <2>3 DEF Stage, DelayedDue
  <2>5. UNCHANGED <<store, failures>> /\ ConsumerOnly
    BY <1>9 DEF DelayedDue
  <2> QED BY <2>1, <2>4, <2>5, ConsumerTyped DEF ConsumerOnly, work, D
<1>10. CASE DelayedNone(n)
  <2>1. \E pc \in {"next", "stopped"} : Same(n, pc)
    BY <1>10, GotoEffect DEF DelayedNone, Same
  <2>2. \A pc \in {"next", "stopped"} :
          Stage(pc, consumer[n].at, consumer[n].delayQ, consumer[n].pending)
    BY <1>0, <1>10 DEF Stage, DelayedNone
  <2> QED BY <1>10, <2>1, <2>2, ConsumerTyped DEF DelayedNone, ConsumerOnly, work, Same
<1>11. CASE CopyDelayed(n)
  <2> DEFINE id == consumer[n].at
             q == Canonical[n]
  <2>1. /\ id \in Ids /\ HasFresh /\ q \in QueueNames
        /\ Adds(q, job[id]) \/ Leaves
        /\ failures' = failures \/ Fails
        /\ \/ Same(n, "ackcopy")
           \/ Turns(n, "error", None, consumer[n].cache, consumer[n].queued,
                    consumer[n].delayQ, consumer[n].pending, consumer[n].event)
    BY <1>11, CopyEffect
  <2>2. job[id] \in Jobs
    <3>1. In(n, "hand", id) /\ "hand" \in Places
      BY DEF In, Places
    <3> QED BY <2>1, <3>1 DEF Known
  <2>3. store' \in Store /\ job' \in [Ids -> Jobs \cup {NoJob}]
    BY <2>1, <2>2, AddsTypes
  <2>4. failures' \in 0 .. setup.failures
    BY <2>1 DEF Fails
  <2>5. /\ Stage("ackcopy", consumer[n].at, consumer[n].delayQ, consumer[n].pending)
        /\ Stage("error", None, consumer[n].delayQ, consumer[n].pending)
    BY <1>0, <1>11 DEF Stage, CopyDelayed
  <2>6. UNCHANGED <<setup, finished, retries, unretried, thread, workQueue, running,
                    paused, main>>
    BY <1>11 DEF CopyDelayed
  <2> QED BY <2>1, <2>3, <2>4, <2>5, <2>6, ConsumerTyped DEF Same
<1>12. CASE AckCopied(n)
  <2> DEFINE id == consumer[n].at
  <2>1. /\ id \in Ids /\ PostEffect(n, id) /\ consumer[n].pending - 1 \in Nat
        /\ \/ Turns(n, "delayed", None, consumer[n].cache,
                    consumer[n].queued \ {job[id]}, consumer[n].delayQ,
                    consumer[n].pending - 1, consumer[n].event)
           \/ Turns(n, "ackcopy", id, consumer[n].cache,
                    consumer[n].queued \ {job[id]}, consumer[n].delayQ,
                    consumer[n].pending, consumer[n].event)
    BY <1>12, AckEffect
  <2>2. ConsumerOnly
    BY <1>12 DEF AckCopied
  <2>3. /\ Stage("delayed", None, consumer[n].delayQ, consumer[n].pending - 1)
        /\ Stage("ackcopy", id, consumer[n].delayQ, consumer[n].pending)
    BY <1>0, <1>12, <2>1 DEF Stage, AckCopied
  <2>4. store' \in Store /\ failures' \in 0 .. setup.failures
    BY <2>1, PostTypes
  <2> HIDE DEF id
  <2> QED BY <2>1, <2>2, <2>3, <2>4, ConsumerTyped DEF ConsumerOnly, work
<1>13. CASE ConsumerError(n)
  <2>1. GivesBack(n, consumer[n].delayQ) /\ (Empties(n, "restart") \/ Empties(n, "dead"))
    BY <1>13, ErrorEffect
  <2>2. \A pc \in {"restart", "dead"} : Stage(pc, consumer[n].at, {}, consumer[n].pending)
    BY <1>0, <1>13 DEF Stage, ConsumerError
  <2>3. ConsumerOnly
    BY <1>13 DEF ConsumerError
  <2> QED BY <2>1, <2>2, <2>3, ConsumerTyped DEF ConsumerOnly, work, Empties, GivesBack
<1>14. CASE ConsumerRestart(n)
  <2>1. \/ Same(n, "stopped") /\ UNCHANGED <<store, failures>>
        \/ /\ GivesBack(n, consumer[n].delayQ)
           /\ Empties(n, "top") \/ Empties(n, "dead")
    BY <1>14, RestartEffect
  <2>2. /\ \A pc \in {"top", "dead"} : Stage(pc, consumer[n].at, {}, consumer[n].pending)
        /\ Stage("stopped", consumer[n].at, consumer[n].delayQ, consumer[n].pending)
    BY <1>0, <1>14 DEF Stage, ConsumerRestart
  <2>3. ConsumerOnly
    BY <1>14 DEF ConsumerRestart
  <2> QED BY <2>1, <2>2, <2>3, ConsumerTyped
      DEF ConsumerOnly, work, Empties, GivesBack, Same
<1> QED BY <1>1, <1>2, <1>3, <1>4, <1>5, <1>6, <1>7, <1>8, <1>9, <1>10, <1>11, <1>12,
           <1>13, <1>14 DEF ConsumerStep
LEMMA ThreadTyped ==
  ASSUME TypeOK, Stages, NEW t \in Threads, NEW pc, NEW at, NEW queue, NEW failed, NEW event,
         Moves(t, pc, at, queue, failed, event),
         at # None <=> pc \in {"run", "post"},
         store' \in Store, failures' \in 0 .. setup.failures,
         job' \in [Ids -> Jobs \cup {NoJob}], finished' \subseteq Jobs,
         unretried' \subseteq Jobs, retries' \in [Jobs -> 0 .. setup.retries],
         workQueue' \subseteq Ids \X QueueNames,
         running' \in [Children -> BOOLEAN],
         UNCHANGED <<setup, paused, main, consumer>>
  PROVE  TypeOK' /\ Stages'
<1>1. thread' \in [Threads -> Thread]
  BY DEF Moves
<1>2. TypeOK'
  BY <1>1 DEF TypeOK
<1>3. ASSUME NEW u \in Threads
      PROVE  thread'[u].at # None <=> thread'[u].pc \in {"run", "post"}
  <2>1. CASE u = t
    BY <2>1 DEF Moves
  <2>2. CASE u # t
    <3>1. thread'[u] = thread[u]
      BY <2>2 DEF Moves
    <3> QED BY <3>1 DEF Stages
  <2> QED BY <2>1, <2>2
<1>4. \A n \in QueueNames :
       /\ consumer'[n].at # None
            <=> consumer'[n].pc \in {"handle", "reject", "copy", "ackcopy"}
       /\ Cardinality(consumer'[n].delayQ) + Copying(consumer'[n]) <= consumer'[n].pending
  BY DEF Stages, Copying
<1> QED BY <1>2, <1>3, <1>4 DEF Stages

LEMMA ThreadStepTyped ==
  ASSUME TypeOK, Stages, Known, NEW t \in Threads, ThreadStep(t)
  PROVE  TypeOK' /\ Stages'
<1> USE TypesHere
<1>0. thread[t].at # None <=> thread[t].pc \in {"run", "post"}
  BY DEF Stages
<1>1. CASE ThreadStarts(t)
  <2>1. Still(t, "idle")
    BY <1>1, StillEffect DEF ThreadStarts
  <2>2. running' \in [Children -> BOOLEAN]
    BY <1>1 DEF ThreadStarts, TypeOK, Children
  <2>3. thread[t].at # None <=> "idle" \in {"run", "post"}
    BY <1>0, <1>1 DEF ThreadStarts
  <2>4. UNCHANGED <<work, consumer, workQueue, paused, main, store, failures>>
    BY <1>1 DEF ThreadStarts
  <2> QED BY <2>1, <2>2, <2>3, <2>4, ThreadTyped DEF Still, work
<1>2. CASE ThreadTop(t)
  <2>1. ThreadOnly /\ UNCHANGED <<work, workQueue, store, failures>>
    BY <1>2 DEF ThreadTop
  <2>2. \A pc \in {"stopped", "paused", "get"} :
          thread[t].at # None <=> pc \in {"run", "post"}
    BY <1>0, <1>2 DEF ThreadTop
  <2>3. \E pc \in {"stopped", "paused", "get"} : Still(t, pc)
    BY <1>2, ThreadTopEffect
  <2> QED BY <2>1, <2>2, <2>3, ThreadTyped DEF ThreadOnly, work, Still
<1>7. CASE ThreadGet(t)
  <2>1. ThreadOnly /\ UNCHANGED <<work, store, failures>>
    BY <1>7 DEF ThreadGet
  <2>2. thread[t].at # None <=> "idle" \in {"run", "post"}
    BY <1>0, <1>7 DEF ThreadGet
  <2>3. CASE Still(t, "idle") /\ UNCHANGED workQueue
    BY <2>1, <2>2, <2>3, ThreadTyped DEF ThreadOnly, work, Still
  <2>4. CASE \E id \in Ids, n \in QueueNames : Takes(t, id, n)
    <3>1. PICK id \in Ids, n \in QueueNames : Takes(t, id, n)
      BY <2>4
    <3>2. /\ workQueue' \subseteq Ids \X QueueNames
          /\ Moves(t, "run", id, n, thread[t].failed, thread[t].event)
      BY <3>1 DEF Takes
    <3>3. id # None <=> "run" \in {"run", "post"}
      BY WorkerAssumption
    <3> QED BY <2>1, <3>2, <3>3, ThreadTyped DEF ThreadOnly, work
  <2> QED BY <1>7, <2>3, <2>4, ThreadGetEffect
<1>3. CASE ThreadPaused(t)
  <2>1. Moves(t, "idle", thread[t].at, thread[t].queue, thread[t].failed, TRUE)
    BY <1>3, ThreadPausedEffect
  <2>2. thread[t].at # None <=> "idle" \in {"run", "post"}
    BY <1>0, <1>3 DEF ThreadPaused
  <2>3. ThreadOnly /\ UNCHANGED <<work, workQueue, store, failures>>
    BY <1>3 DEF ThreadPaused
  <2> QED BY <2>1, <2>2, <2>3, ThreadTyped DEF ThreadOnly, work
<1>4. CASE Finish(t)
  <2>1. PICK failed \in BOOLEAN :
           Moves(t, "post", thread[t].at, thread[t].queue, failed, thread[t].event)
    BY <1>4, FinishEffect
  <2>2. thread[t].at # None <=> "post" \in {"run", "post"}
    BY <1>0, <1>4 DEF Finish
  <2>3. ThreadOnly /\ UNCHANGED <<setup, job, retries, unretried, workQueue, store, failures>>
    BY <1>4 DEF Finish
  <2>4. job[thread[t].at] \in Jobs
    BY <1>4, BusyFacts DEF Finish
  <2>5. finished' \subseteq Jobs
    BY <1>4, <2>4 DEF Finish
  <2> QED BY <2>1, <2>2, <2>3, <2>5, ThreadTyped DEF ThreadOnly
<1>5. CASE RetryLater(t)
  <2> DEFINE j == job[thread[t].at]
  <2>1. /\ thread[t].at \in Ids /\ j \in Jobs /\ HasFresh
        /\ \/ (\E q \in QueueNames : Adds(q, j)) /\ UNCHANGED unretried
           \/ Leaves /\ unretried' = unretried \cup {j}
        /\ failures' = failures \/ Fails
        /\ retries[j] < setup.retries /\ retries' = [retries EXCEPT ![j] = @ + 1]
        /\ Moves(t, "post", thread[t].at, thread[t].queue, FALSE, thread[t].event)
    BY <1>5, RetryEffect
  <2>2. ThreadOnly /\ UNCHANGED <<setup, finished, workQueue>>
    BY <1>5 DEF RetryLater
  <2>3. thread[t].at # None <=> "post" \in {"run", "post"}
    BY <1>0, <1>5 DEF RetryLater
  <2> HIDE DEF j
  <2>4. retries' \in [Jobs -> 0 .. setup.retries]
    <3>1. retries[j] + 1 \in 0 .. setup.retries
      BY <2>1, SetupTypes
    <3> QED BY <2>1, <3>1
  <2>5. unretried' \subseteq Jobs
    BY <2>1
  <2>6. store' \in Store /\ job' \in [Ids -> Jobs \cup {NoJob}]
    <3>1. CASE \E q \in QueueNames : Adds(q, j)
      BY <2>1, <3>1, AddsTypes
    <3>2. CASE Leaves
      BY <3>2 DEF Leaves
    <3> QED BY <2>1, <3>1, <3>2
  <2>7. failures' \in 0 .. setup.failures
    BY <2>1 DEF Fails
  <2> QED BY <2>1, <2>2, <2>3, <2>4, <2>5, <2>6, <2>7, ThreadTyped DEF ThreadOnly
<1>6. CASE PostProcess(t)
  <2> DEFINE id == thread[t].at
             n == thread[t].queue
  <2>1. /\ id \in Ids /\ n \in QueueNames /\ PostEffect(n, id)
        /\ Turns(n, consumer[n].pc, consumer[n].at, consumer[n].cache,
                 consumer[n].queued \ {job[id]}, consumer[n].delayQ,
                 consumer[n].pending, consumer[n].event)
        /\ UNCHANGED thread \/ Moves(t, "idle", None, n, FALSE, thread[t].event)
    BY <1>6, PostProcessEffect
  <2>2. UNCHANGED <<work, workQueue, running, paused, main>>
    BY <1>6 DEF PostProcess
  <2>3. store' \in Store /\ failures' \in 0 .. setup.failures
    BY <2>1, PostTypes
  <2>4. thread' \in [Threads -> Thread] /\ consumer' \in [QueueNames -> Consumer]
    BY <2>1, ThreadTypes DEF Moves, Turns
  <2>5. TypeOK'
    BY <2>2, <2>3, <2>4 DEF TypeOK, work
  <2>6. ASSUME NEW m \in QueueNames
        PROVE  /\ consumer'[m].at # None
                    <=> consumer'[m].pc \in {"handle", "reject", "copy", "ackcopy"}
               /\ Cardinality(consumer'[m].delayQ) + Copying(consumer'[m])
                    <= consumer'[m].pending
    <3>1. /\ consumer'[m].pc = consumer[m].pc /\ consumer'[m].at = consumer[m].at
          /\ consumer'[m].delayQ = consumer[m].delayQ
          /\ consumer'[m].pending = consumer[m].pending
      <4>1. CASE m = n
        BY <2>1, <4>1 DEF Turns
      <4>2. CASE m # n
        BY <2>1, <4>2 DEF Turns
      <4> QED BY <4>1, <4>2
    <3> QED BY <3>1 DEF Stages, Copying
  <2>7. ASSUME NEW u \in Threads
        PROVE  thread'[u].at # None <=> thread'[u].pc \in {"run", "post"}
    <3>1. CASE UNCHANGED thread
      BY <3>1 DEF Stages
    <3>2. CASE Moves(t, "idle", None, n, FALSE, thread[t].event) /\ u = t
      BY <3>2 DEF Moves
    <3>3. CASE Moves(t, "idle", None, n, FALSE, thread[t].event) /\ u # t
      <4>1. thread'[u] = thread[u]
        BY <3>3 DEF Moves
      <4> QED BY <4>1 DEF Stages
    <3> QED BY <2>1, <3>1, <3>2, <3>3
  <2> QED BY <2>5, <2>6, <2>7 DEF Stages
<1> QED BY <1>1, <1>2, <1>3, <1>4, <1>5, <1>6, <1>7 DEF ThreadStep

LEMMA StagesSame ==
  ASSUME Stages,
         \A n \in QueueNames :
           /\ consumer'[n].pc = consumer[n].pc /\ consumer'[n].at = consumer[n].at
           /\ consumer'[n].delayQ = consumer[n].delayQ
           /\ consumer'[n].pending = consumer[n].pending,
         \A t \in Threads : thread'[t].pc = thread[t].pc /\ thread'[t].at = thread[t].at
  PROVE  Stages'
BY DEF Stages, Copying

(* What the steps of the main thread that leave the others alone need.     *)
LEMMA MainTyped ==
  ASSUME TypeOK, Stages, main' \in Main, store' \in Store,
         failures' \in 0 .. setup.failures, workQueue' \subseteq workQueue,
         running' \in [Children -> BOOLEAN], paused' \in [Children -> BOOLEAN],
         UNCHANGED <<work, consumer, thread>>
  PROVE  TypeOK' /\ Stages'
<1>1. TypeOK'
  <2>1. workQueue' \subseteq Ids \X QueueNames
    BY DEF TypeOK
  <2>2. UNCHANGED <<setup, job, finished, retries, unretried, consumer, thread>>
    BY DEF work
  <2> QED BY <2>1, <2>2 DEF TypeOK
<1>2. UNCHANGED <<consumer, thread>>
  OBVIOUS
<1> QED BY <1>1, <1>2, StagesSame

LEMMA MainStepTyped ==
  ASSUME TypeOK, Stages, MainStep
  PROVE  TypeOK' /\ Stages'
<1> USE TypesHere
<1>1. CASE Pause
  BY <1>1, PauseEffect, MainTyped DEF Pause, MainOnly, MainIs
<1>2. CASE Resume
  BY <1>2, ResumeEffect, MainTyped DEF Resume, MainOnly, MainIs
<1>3. CASE PauseReturns
  <2>1. MainAt("up")
    BY <1>3, MainAtEffect DEF PauseReturns
  <2> QED BY <1>3, <2>1, MainTyped DEF PauseReturns, MainOnly, MainAt, MainIs
<1>4. CASE ResumeReturns
  <2>1. MainAt("up")
    BY <1>4, MainAtEffect DEF ResumeReturns
  <2> QED BY <1>4, <2>1, MainTyped DEF ResumeReturns, MainOnly, MainAt, MainIs
<1>5. ASSUME NEW c \in Children, TellChild(c) PROVE TypeOK' /\ Stages'
  <2>1. main' \in Main /\ paused' \in [Children -> BOOLEAN]
    BY <1>5, TellEffect DEF MainIs
  <2> QED BY <1>5, <2>1, MainTyped DEF TellChild, MainOnly
<1>6. ASSUME NEW c \in Children, ClearEvent(c) PROVE TypeOK' /\ Stages'
  <2>1. Cleared(c) /\ main' \in Main
    BY <1>6, ClearEffect DEF MainIs
  <2>2. TypeOK'
    <3>1. UNCHANGED <<work, store, failures, workQueue, running, paused>>
      BY <1>6 DEF ClearEvent, MainOnly
    <3> QED BY <2>1, <3>1 DEF work, TypeOK, Cleared
  <2> QED BY <2>1, <2>2, StagesSame DEF Cleared
<1>7. CASE Stop
  BY <1>7, StopEffect, MainTyped DEF Stop, MainOnly, MainIs
<1>8. ASSUME NEW c \in Children, StopChild(c) PROVE TypeOK' /\ Stages'
  <2>1. main' \in Main /\ running' \in [Children -> BOOLEAN]
    BY <1>8, StopChildEffect DEF MainIs
  <2> QED BY <1>8, <2>1, MainTyped DEF StopChild, MainOnly
<1>9. CASE WorkersJoined
  <2>1. main' \in Main
    BY <1>9, WorkersJoinedEffect DEF MainIs
  <2> QED BY <1>9, <2>1, MainTyped DEF WorkersJoined, MainOnly
<1>10. CASE ConsumersJoined
  <2>1. main' \in Main
    BY <1>10, ConsumersJoinedEffect DEF MainIs
  <2> QED BY <1>10, <2>1, MainTyped DEF ConsumersJoined, MainOnly
<1>11. CASE DrainWork
  <2>1. main' \in Main /\ workQueue' \subseteq workQueue
    BY <1>11, DrainEffect DEF MainAt, MainIs
  <2>2. UNCHANGED <<work, consumer, thread, running, paused, store, failures>>
    BY <1>11 DEF DrainWork
  <2> QED BY <2>1, <2>2, MainTyped
<1>12. CASE RequeueWork
  <2>1. UNCHANGED <<work, consumer, thread, workQueue, running, paused>>
    BY <1>12 DEF RequeueWork
  <2>2. main' \in Main /\ store' \in Store /\ failures' \in 0 .. setup.failures
    <3>1. CASE /\ UNCHANGED <<store, failures>>
               /\ MainIs("closing", main.toTell, main.toClear, main.drained, QueueNames)
      BY <3>1 DEF MainIs
    <3>2. ASSUME NEW n \in QueueNames, GivesBack(n, DrainedOf(n)), main' \in Main
          PROVE  main' \in Main /\ store' \in Store /\ failures' \in 0 .. setup.failures
      BY <3>2 DEF GivesBack
    <3> QED BY <1>12, <3>1, <3>2, RequeueWorkEffect DEF MainIs
  <2> QED BY <2>1, <2>2, MainTyped
<1>13. CASE CloseConsumers
  <2>0. consumer \in [QueueNames -> Consumer] /\ thread \in [Threads -> Thread]
    BY DEF TypeOK
  <2>1. UNCHANGED <<work, thread, workQueue, running, paused>>
    BY <1>13 DEF CloseConsumers
  <2>2. CASE /\ main.toClose = {} /\ MainAt("done")
             /\ UNCHANGED <<store, failures, consumer>>
    BY <2>1, <2>2, MainTyped DEF MainAt, MainIs
  <2>3. CASE \E n \in main.toClose :
              /\ n \in QueueNames /\ Empties(n, consumer[n].pc)
              /\ GivesBack(n, consumer[n].delayQ) /\ main' \in Main
    <3>1. PICK n \in main.toClose :
              /\ n \in QueueNames /\ Empties(n, consumer[n].pc)
              /\ GivesBack(n, consumer[n].delayQ) /\ main' \in Main
      BY <2>3
    <3>2. TypeOK'
      BY <2>0, <2>1, <3>1 DEF work, TypeOK, GivesBack, Empties, Turns
    <3>3. /\ Stage(consumer[n].pc, consumer[n].at, consumer[n].delayQ, consumer[n].pending)
          /\ Cardinality(consumer[n].delayQ) \in Nat /\ Cardinality({}) = 0
          /\ consumer[n].pending \in Nat
      BY <3>1, StageHere, OutstandingTypes, ConsumerTypes, FS_EmptySet
    <3>4. Stage(consumer[n].pc, consumer[n].at, {}, consumer[n].pending)
      BY <3>3 DEF Stage
    <3>5. ASSUME NEW m \in QueueNames
          PROVE  /\ consumer'[m].at # None
                      <=> consumer'[m].pc \in {"handle", "reject", "copy", "ackcopy"}
                 /\ Cardinality(consumer'[m].delayQ) + Copying(consumer'[m])
                      <= consumer'[m].pending
      <4>1. CASE m = n
        BY <3>1, <3>4, <4>1 DEF Empties, Turns, Stage, Copying
      <4>2. CASE m # n
        <5>1. consumer'[m] = consumer[m]
          BY <3>1, <4>2 DEF Empties, Turns
        <5> QED BY <5>1 DEF Stages
      <4> QED BY <4>1, <4>2
    <3>6. \A t \in Threads : thread'[t].at # None <=> thread'[t].pc \in {"run", "post"}
      BY <2>1 DEF Stages
    <3> QED BY <3>2, <3>5, <3>6 DEF Stages
  <2> QED BY <1>13, <2>2, <2>3, CloseConsumersEffect DEF MainAt, MainIs
<1> QED BY <1>1, <1>2, <1>3, <1>4, <1>5, <1>6, <1>7, <1>8, <1>9, <1>10, <1>11, <1>12,
           <1>13 DEF MainStep, PauseStep, StopStep

LEMMA TypesStep ==
  ASSUME Typed, [Next]_vars
  PROVE  TypeOK' /\ Stages'
<1> USE DEF Typed
<1>1. ASSUME NEW j \in Jobs, NEW n \in QueueNames, Send(j, n) PROVE TypeOK' /\ Stages'
  <2>1. store' \in Store /\ job' \in [Ids -> Jobs \cup {NoJob}]
    BY <1>1, SendEffect, AddsTypes
  <2>2. UNCHANGED <<setup, finished, retries, unretried, consumer, thread, workQueue,
                    running, paused, main, failures>>
    BY <1>1 DEF Send
  <2>3. TypeOK'
    BY <2>1, <2>2 DEF TypeOK
  <2> QED BY <2>2, <2>3, StagesSame
<1>2. CASE UNCHANGED vars
  <2>1. TypeOK'
    BY <1>2 DEF vars, TypeOK
  <2>2. UNCHANGED <<consumer, thread>>
    BY <1>2 DEF vars
  <2> QED BY <2>1, <2>2, StagesSame
<1> QED BY <1>1, <1>2, ConsumerStepTyped, ThreadStepTyped, MainStepTyped DEF Next
-----------------------------------------------------------------------------
(* Where messages go.                                                      *)

Held(n, id) == \E p \in Places : In(n, p, id)
Had(n, id) == Held(n, id) \/ Listed(n, id) \/ (job[id] \notin Jobs /\ job'[id] \in Jobs)
Fetches(n, id) == Held(n, id) \/ (Listed(n, id) /\ consumer[n].pc = "next")

(* Message id of queue n gains no place, or moves to one place, which it
   does from the queue only when it is fetched, or leaves the process.     *)
Goes(n, id) ==
  \/ /\ \A r \in Places : In(n, r, id)' => In(n, r, id)
     /\ Listed(n, id)' => Listed(n, id)
  \/ /\ Fetches(n, id) /\ ~Listed(n, id)'
     /\ \E p \in Places : \A r \in Places : In(n, r, id)' => r = p
  \/ Had(n, id) /\ \A r \in Places : ~In(n, r, id)'

(* What every step does.                                                   *)
Passes ==
  /\ \A n \in QueueNames, id \in Ids : Goes(n, id)
  /\ \A n \in QueueNames, id \in Ids :
       id \in store'.msgs[n] => id \in store.msgs[n] \/ job'[id] \in Jobs
  /\ \A id \in Ids : job[id] \in Jobs => job'[id] = job[id]

LEMMA PassesKeeps ==
  ASSUME TypeOK, TypeOK', Known, Custody, Passes
  PROVE  Known' /\ Custody'
<1>1. ASSUME NEW n \in QueueNames, NEW id \in Ids, Had(n, id)
      PROVE  job'[id] \in Jobs
  <2>1. job[id] \in Jobs => job'[id] \in Jobs
    BY DEF Passes
  <2> QED BY <1>1, <2>1 DEF Had, Held, Known
<1>2. ASSUME NEW n \in QueueNames, NEW id \in Ids,
             Held(n, id)' \/ Listed(n, id)' \/ id \in store'.msgs[n]
      PROVE  job'[id] \in Jobs
  <2>1. CASE id \in store'.msgs[n]
    <3>1. id \in store.msgs[n] => job[id] \in Jobs
      BY DEF Known
    <3> QED BY <2>1, <3>1 DEF Passes
  <2>2. CASE Held(n, id)' \/ Listed(n, id)'
    <3>1. CASE Had(n, id)
      BY <1>1, <3>1
    <3>2. CASE ~Had(n, id)
      <4>0. ~Fetches(n, id)
        BY <3>2 DEF Had, Fetches
      <4>1. /\ \A r \in Places : In(n, r, id)' => In(n, r, id)
            /\ Listed(n, id)' => Listed(n, id)
        BY <3>2, <4>0 DEF Passes, Goes
      <4>2. Had(n, id)
        BY <2>2, <4>1 DEF Had, Held
      <4> QED BY <3>2, <4>2
    <3> QED BY <3>1, <3>2
  <2> QED BY <1>2, <2>1, <2>2
<1>3. Known'
  BY <1>2 DEF Known, Held
<1>4. ASSUME NEW n \in QueueNames, NEW id \in Ids, NEW p \in Places, In(n, p, id)'
      PROVE  ~Listed(n, id)' /\ \A r \in Places : In(n, r, id)' => r = p
  <2>1. Goes(n, id)
    BY DEF Passes
  <2>2. CASE /\ \A r \in Places : In(n, r, id)' => In(n, r, id)
             /\ Listed(n, id)' => Listed(n, id)
    <3>1. In(n, p, id)
      BY <1>4, <2>2
    <3>2. ~Listed(n, id) /\ \A r \in Places : In(n, r, id) => r = p
      BY <3>1 DEF Custody
    <3> QED BY <2>2, <3>2
  <2>3. CASE /\ ~Listed(n, id)'
             /\ \E q \in Places : \A r \in Places : In(n, r, id)' => r = q
    BY <1>4, <2>3
  <2>4. CASE \A r \in Places : ~In(n, r, id)'
    BY <1>4, <2>4
  <2> QED BY <2>1, <2>2, <2>3, <2>4 DEF Goes
<1>5. Custody'
  BY <1>4 DEF Custody
<1> QED BY <1>3, <1>5

(* The lists and messages of all the queues after each kind of call.       *)
LEMMA SettledLists ==
  ASSUME TypeOK, NEW n \in QueueNames, NEW id \in Ids, PostEffect(n, id)
  PROVE  \A m \in QueueNames : /\ store'.list[m] = store.list[m]
                               /\ store'.msgs[m] \subseteq store.msgs[m]
BY DEF PostEffect, Settled, Frames

LEMMA AddedLists ==
  ASSUME TypeOK, Known, HasFresh, NEW q \in QueueNames, NEW j \in Jobs,
         Adds(q, j) \/ Leaves
  PROVE  /\ \A m \in QueueNames, id \in Ids :
              /\ Listed(m, id)' => Listed(m, id) \/ (id = Fresh /\ job'[id] \in Jobs)
              /\ id \in store'.msgs[m] => id \in store.msgs[m] \/ job'[id] \in Jobs
         /\ \A m \in QueueNames : IsInjective(store.list[m]) => IsInjective(store'.list[m])
         /\ \A id \in Ids : job[id] \in Jobs => job'[id] = job[id]
<1>1. CASE Leaves
  BY <1>1 DEF Leaves, Listed
<1>2. CASE Adds(q, j)
  <2>1. Fresh \in Ids /\ job[Fresh] \notin Jobs /\ ~Listed(q, Fresh)
    BY FreshFacts
  <2>2. job'[Fresh] = j /\ \A id \in Ids : job[id] \in Jobs => job'[id] = job[id]
    BY <1>2, <2>1, TypesHere DEF Adds
  <2>3. /\ \A m \in QueueNames \ {q} : /\ store'.list[m] = store.list[m]
                                       /\ store'.msgs[m] = store.msgs[m]
        /\ store'.msgs[q] = store.msgs[q] \cup {Fresh}
        /\ ToSet(store'.list[q]) = ToSet(store.list[q]) \cup {Fresh}
        /\ IsInjective(store.list[q]) => IsInjective(store'.list[q])
    BY <1>2, <2>1 DEF Adds, Joined, Frames, Listed
  <2> HIDE DEF Fresh
  <2>4. ASSUME NEW m \in QueueNames, NEW id \in Ids
        PROVE  /\ Listed(m, id)' => Listed(m, id) \/ (id = Fresh /\ job'[id] \in Jobs)
               /\ id \in store'.msgs[m] => id \in store.msgs[m] \/ job'[id] \in Jobs
    <3>1. CASE m = q
      BY <2>2, <2>3, <3>1 DEF Listed
    <3>2. CASE m # q
      BY <2>3, <3>2 DEF Listed
    <3> QED BY <3>1, <3>2
  <2>5. ASSUME NEW m \in QueueNames, IsInjective(store.list[m])
        PROVE  IsInjective(store'.list[m])
    BY <2>3, <2>5
  <2> QED BY <2>2, <2>4, <2>5
<1> QED BY <1>1, <1>2

LEMMA TakenLists ==
  ASSUME TypeOK, Distinct, NEW n \in QueueNames, NEW p \in Seq(Ids),
         (store' = store) \/ Taken(store, store', Me, n, p)
  PROVE  /\ store'.msgs = store.msgs
         /\ \A m \in QueueNames, id \in Ids : Listed(m, id)' => Listed(m, id)
         /\ \A m \in QueueNames : IsInjective(store'.list[m])
         /\ Taken(store, store', Me, n, p) =>
              /\ IsInjective(p)
              /\ \A id \in ToSet(p) : Listed(n, id) /\ ~Listed(n, id)'
<1>1. \A m \in QueueNames : IsInjective(store.list[m])
  BY DEF Distinct
<1>2. \A m \in QueueNames \ {n} : store'.list[m] = store.list[m]
  BY DEF Taken, Frames
<1>3. /\ store'.msgs = store.msgs /\ ToSet(store'.list[n]) \subseteq ToSet(store.list[n])
      /\ IsInjective(store'.list[n])
  BY <1>1 DEF Taken
<1>4. Taken(store, store', Me, n, p) =>
        /\ IsInjective(p)
        /\ \A id \in ToSet(p) : Listed(n, id) /\ ~Listed(n, id)'
  BY <1>1 DEF Taken, Listed
<1>5. ASSUME NEW m \in QueueNames, NEW id \in Ids, Listed(m, id)' PROVE Listed(m, id)
  <2>1. CASE m = n
    BY <1>3, <1>5, <2>1 DEF Listed
  <2>2. CASE m # n
    BY <1>2, <1>5, <2>2 DEF Listed
  <2> QED BY <2>1, <2>2
<1>6. \A m \in QueueNames : IsInjective(store'.list[m])
  BY <1>1, <1>2, <1>3
<1> QED BY <1>3, <1>4, <1>5, <1>6

LEMMA ReturnedLists ==
  ASSUME TypeOK, Distinct, NEW n \in QueueNames, NEW ids \in SUBSET Ids, GivesBack(n, ids),
         \A id \in ids : ~Listed(n, id)
  PROVE  /\ store'.msgs = store.msgs
         /\ \A m \in QueueNames, id \in Ids :
              Listed(m, id)' => Listed(m, id) \/ (m = n /\ id \in ids)
         /\ \A m \in QueueNames : IsInjective(store'.list[m])
<1>1. \A m \in QueueNames : IsInjective(store.list[m])
  BY DEF Distinct
<1>2. CASE store' = store
  BY <1>1, <1>2 DEF Listed
<1>3. CASE Returned(store, store', Me, n, ids)
  <2>1. \A m \in QueueNames \ {n} : store'.list[m] = store.list[m]
    BY <1>3 DEF Returned, Frames
  <2>2. /\ store'.msgs = store.msgs
        /\ ToSet(store'.list[n]) \subseteq ToSet(store.list[n]) \cup ids
    BY <1>3 DEF Returned
  <2>3. IsInjective(store'.list[n])
    <3>1. ToSet(store.list[n]) \cap ids = {}
      BY DEF Listed
    <3> QED BY <1>1, <1>3, <3>1 DEF Returned
  <2>4. ASSUME NEW m \in QueueNames, NEW id \in Ids, Listed(m, id)'
        PROVE  Listed(m, id) \/ (m = n /\ id \in ids)
    <3>1. CASE m = n
      BY <2>2, <2>4, <3>1 DEF Listed
    <3>2. CASE m # n
      BY <2>1, <2>4, <3>2 DEF Listed
    <3> QED BY <3>1, <3>2
  <2>5. \A m \in QueueNames : IsInjective(store'.list[m])
    BY <1>1, <2>1, <2>3
  <2> QED BY <2>2, <2>4, <2>5
<1> QED BY <1>2, <1>3 DEF GivesBack
LEMMA HeadTailFacts ==
  ASSUME NEW c \in Seq(Ids), c # <<>>
  PROVE  /\ Head(c) \in Ids /\ Tail(c) \in Seq(Ids) /\ Len(Tail(c)) = Len(c) - 1
         /\ ToSet(c) = {Head(c)} \cup ToSet(Tail(c))
         /\ IsInjective(c) => Head(c) \notin ToSet(Tail(c)) /\ IsInjective(Tail(c))
<1> DEFINE h == Head(c)
           t == Tail(c)
<1>1. /\ h \in Ids /\ t \in Seq(Ids) /\ Len(c) \in Nat /\ Len(c) >= 1 /\ h = c[1]
      /\ Len(t) = Len(c) - 1
      /\ \A i \in 1 .. Len(c) - 1 : t[i] = c[i + 1]
  OBVIOUS
<1>2. DOMAIN c = 1 .. Len(c) /\ DOMAIN t = 1 .. Len(c) - 1
  BY <1>1
<1> HIDE DEF h, t
<1>3. {h} \cup ToSet(t) \subseteq ToSet(c)
  BY <1>1, <1>2 DEF ToSet
<1>4. ASSUME NEW i \in DOMAIN c PROVE c[i] \in {h} \cup ToSet(t)
  <2>1. CASE i = 1
    BY <1>1, <2>1
  <2>2. CASE i # 1
    <3>1. i - 1 \in DOMAIN t /\ (i - 1) + 1 = i
      BY <1>1, <1>2, <2>2
    <3>2. t[i - 1] = c[i]
      BY <1>1, <1>2, <3>1
    <3> QED BY <3>1, <3>2 DEF ToSet
  <2> QED BY <2>1, <2>2
<1>5. ToSet(c) \subseteq {h} \cup ToSet(t)
  BY <1>4 DEF ToSet
<1>6. ASSUME IsInjective(c) PROVE h \notin ToSet(t) /\ IsInjective(t)
  <2>1. \A i \in DOMAIN t : i + 1 \in DOMAIN c /\ t[i] = c[i + 1] /\ i + 1 # 1
    BY <1>1, <1>2
  <2>2. 1 \in DOMAIN c
    BY <1>1, <1>2
  <2>3. \A i, j \in DOMAIN t : i + 1 = j + 1 => i = j
    BY <1>2
  <2> QED BY <1>1, <1>6, <2>1, <2>2, <2>3 DEF ToSet, IsInjective
<1> QED BY <1>1, <1>3, <1>5, <1>6 DEF h, t

LEMMA PlaceFacts ==
  /\ {"cache", "hand", "delayQ", "workQueue", "drained"} \cap Threads = {}
  /\ "cache" \in Places /\ "hand" \in Places /\ "delayQ" \in Places
  /\ "workQueue" \in Places /\ "drained" \in Places /\ Threads \subseteq Places
BY WorkerAssumption DEF Places

(* The places of the messages after consumer n has turned.                 *)
LEMMA HeldAfter ==
  ASSUME NEW n \in QueueNames, NEW pc, NEW at, NEW cache, NEW queued,
         NEW delayQ, NEW pending, NEW event,
         Turns(n, pc, at, cache, queued, delayQ, pending, event),
         UNCHANGED <<thread, workQueue, main.drained>>
  PROVE  \A m \in QueueNames, id \in Ids, r \in Places :
           /\ m # n => (In(m, r, id)' <=> In(m, r, id))
           /\ r = "cache" => (In(n, r, id)' <=> id \in ToSet(cache))
           /\ r = "hand" => (In(n, r, id)' <=> at = id)
           /\ r = "delayQ" => (In(n, r, id)' <=> id \in delayQ)
           /\ r \notin {"cache", "hand", "delayQ"} => (In(n, r, id)' <=> In(n, r, id))
<1>1. ASSUME NEW m \in QueueNames, m # n PROVE consumer'[m] = consumer[m]
  BY <1>1 DEF Turns
<1>2. /\ consumer'[n].cache = cache /\ consumer'[n].at = at /\ consumer'[n].delayQ = delayQ
  BY DEF Turns
<1>3. ASSUME NEW m \in QueueNames, m # n, NEW id \in Ids, NEW r \in Places
      PROVE  In(m, r, id)' <=> In(m, r, id)
  BY <1>1, <1>3 DEF In
<1>4. ASSUME NEW id \in Ids, NEW r \in Places
      PROVE  /\ r = "cache" => (In(n, r, id)' <=> id \in ToSet(cache))
             /\ r = "hand" => (In(n, r, id)' <=> at = id)
             /\ r = "delayQ" => (In(n, r, id)' <=> id \in delayQ)
             /\ r \notin {"cache", "hand", "delayQ"} => (In(n, r, id)' <=> In(n, r, id))
  BY <1>2, PlaceFacts DEF In
<1> QED BY <1>3, <1>4

(* A message stays where it is.                                            *)
LEMMA StaysPut ==
  ASSUME UNCHANGED job,
         \A m \in QueueNames : /\ store'.list[m] = store.list[m]
                               /\ store'.msgs[m] \subseteq store.msgs[m],
         \A m \in QueueNames, id \in Ids, r \in Places : In(m, r, id)' => In(m, r, id)
  PROVE  Passes
<1>1. \A m \in QueueNames, id \in Ids : Listed(m, id)' <=> Listed(m, id)
  BY DEF Listed
<1> QED BY <1>1 DEF Passes, Goes

(* Caches and lists hold a message once.                                   *)
LEMMA DistinctTurns ==
  ASSUME Distinct, NEW n \in QueueNames, NEW pc, NEW at, NEW cache, NEW queued,
         NEW delayQ, NEW pending, NEW event,
         Turns(n, pc, at, cache, queued, delayQ, pending, event),
         IsInjective(cache), \A m \in QueueNames : IsInjective(store'.list[m])
  PROVE  Distinct'
<1>1. ASSUME NEW m \in QueueNames PROVE IsInjective(consumer'[m].cache)
  <2>1. CASE m = n
    BY <2>1 DEF Turns
  <2>2. CASE m # n
    <3>1. consumer'[m] = consumer[m]
      BY <2>2 DEF Turns
    <3> QED BY <3>1 DEF Distinct
  <2> QED BY <2>1, <2>2
<1> QED BY <1>1 DEF Distinct
LEMMA EmptyFacts == ToSet(<<>>) = {} /\ IsInjective(<<>>) /\ Len(<<>>) = 0
<1>1. DOMAIN <<>> = {} /\ Len(<<>>) = 0
  OBVIOUS
<1> QED BY <1>1 DEF ToSet, IsInjective

LEMMA TurnStays ==
  ASSUME Typed, Distinct, NEW n \in QueueNames, NEW pc, NEW at, NEW cache, NEW queued,
         NEW delayQ, NEW pending, NEW event,
         Turns(n, pc, at, cache, queued, delayQ, pending, event),
         at \in {None, consumer[n].at}, delayQ \subseteq consumer[n].delayQ,
         ToSet(cache) \subseteq ToSet(consumer[n].cache), IsInjective(cache),
         UNCHANGED <<job, thread, workQueue, main.drained>>,
         \A m \in QueueNames : /\ store'.list[m] = store.list[m]
                               /\ store'.msgs[m] \subseteq store.msgs[m]
  PROVE  Passes /\ Distinct'
<1>0. \A m \in QueueNames, id \in Ids, r \in Places :
           /\ m # n => (In(m, r, id)' <=> In(m, r, id))
           /\ r = "cache" => (In(n, r, id)' <=> id \in ToSet(cache))
           /\ r = "hand" => (In(n, r, id)' <=> at = id)
           /\ r = "delayQ" => (In(n, r, id)' <=> id \in delayQ)
           /\ r \notin {"cache", "hand", "delayQ"} => (In(n, r, id)' <=> In(n, r, id))
  BY HeldAfter
<1>1. ASSUME NEW m \in QueueNames, NEW id \in Ids, NEW r \in Places, In(m, r, id)'
      PROVE  In(m, r, id)
  <2>1. CASE m # n
    BY <1>0, <1>1, <2>1
  <2>2. CASE m = n /\ r = "cache"
    <3>1. id \in ToSet(cache)
      BY <1>0, <1>1, <2>2
    <3> QED BY <2>2, <3>1 DEF In
  <2>3. CASE m = n /\ r = "hand"
    <3>1. at = id
      BY <1>0, <1>1, <2>3
    <3>2. id # None
      BY WorkerAssumption
    <3> QED BY <2>3, <3>1, <3>2 DEF In
  <2>4. CASE m = n /\ r = "delayQ"
    <3>1. id \in delayQ
      BY <1>0, <1>1, <2>4
    <3> QED BY <2>4, <3>1 DEF In
  <2>5. CASE m = n /\ r \notin {"cache", "hand", "delayQ"}
    BY <1>0, <1>1, <2>5
  <2> QED BY <2>1, <2>2, <2>3, <2>4, <2>5
<1>2. Passes
  BY <1>1, StaysPut
<1>3. \A m \in QueueNames : IsInjective(store'.list[m])
  BY DEF Distinct
<1> QED BY <1>2, <1>3, DistinctTurns

(* Consumer n gives its delayed messages back, or its other messages stay. *)
LEMMA GivesBackPasses ==
  ASSUME Typed, Custody, Distinct, NEW n \in QueueNames, NEW pc,
         Empties(n, pc), GivesBack(n, consumer[n].delayQ),
         UNCHANGED <<job, thread, workQueue, main.drained>>
  PROVE  Passes /\ Distinct'
<1> DEFINE D == consumer[n].delayQ
<1>1. D \in SUBSET Ids
  BY ConsumerTypes DEF Typed
<1>2. \A id \in D : In(n, "delayQ", id)
  BY DEF In
<1>3. \A id \in D : ~Listed(n, id) /\ \A r \in Places : In(n, r, id) => r = "delayQ"
  BY <1>1, <1>2, PlaceFacts DEF Custody
<1>4. /\ store'.msgs = store.msgs
      /\ \A m \in QueueNames, id \in Ids :
           Listed(m, id)' => Listed(m, id) \/ (m = n /\ id \in D)
      /\ \A m \in QueueNames : IsInjective(store'.list[m])
  BY <1>1, <1>3, ReturnedLists DEF Typed
<1>5. \A m \in QueueNames, id \in Ids, r \in Places :
           /\ m # n => (In(m, r, id)' <=> In(m, r, id))
           /\ r = "cache" => (In(n, r, id)' <=> id \in ToSet(consumer[n].cache))
           /\ r = "hand" => (In(n, r, id)' <=> consumer[n].at = id)
           /\ r = "delayQ" => (In(n, r, id)' <=> id \in {})
           /\ r \notin {"cache", "hand", "delayQ"} => (In(n, r, id)' <=> In(n, r, id))
  BY HeldAfter DEF Empties
<1>6. ASSUME NEW m \in QueueNames, NEW id \in Ids, NEW r \in Places, In(m, r, id)'
      PROVE  In(m, r, id) /\ (m # n \/ r # "delayQ")
  <2>1. CASE m # n
    BY <1>5, <1>6, <2>1
  <2>2. CASE m = n /\ r \in {"cache", "hand", "delayQ"}
    BY <1>5, <1>6, <2>2 DEF In
  <2>3. CASE m = n /\ r \notin {"cache", "hand", "delayQ"}
    BY <1>5, <1>6, <2>3
  <2> QED BY <2>1, <2>2, <2>3
<1>7. ASSUME NEW m \in QueueNames, NEW id \in Ids PROVE Goes(m, id)
  <2>1. CASE m = n /\ id \in D
    <3>1. Had(m, id)
      BY <1>2, <2>1, PlaceFacts DEF Had, Held
    <3>2. \A r \in Places : ~In(m, r, id)'
      BY <1>3, <1>6, <2>1
    <3> QED BY <3>1, <3>2 DEF Goes
  <2>2. CASE ~(m = n /\ id \in D)
    BY <1>4, <1>6, <2>2 DEF Goes
  <2> QED BY <2>1, <2>2
<1>8. Passes
  BY <1>4, <1>7 DEF Passes
<1>9. IsInjective(consumer[n].cache)
  BY DEF Distinct
<1> QED BY <1>4, <1>8, <1>9, DistinctTurns DEF Empties

(* A fresh message is on a list only.                                      *)
LEMMA AddedPasses ==
  ASSUME Typed, HasFresh, NEW q \in QueueNames, NEW j \in Jobs, Adds(q, j) \/ Leaves,
         \A m \in QueueNames, id \in Ids, r \in Places : In(m, r, id)' => In(m, r, id)
  PROVE  Passes
<1>1. PICK x \in Ids : x = Fresh
  BY FreshFacts DEF Typed
<1>2. /\ \A m \in QueueNames, id \in Ids :
           /\ Listed(m, id)' => Listed(m, id) \/ (id = x /\ job'[id] \in Jobs)
           /\ id \in store'.msgs[m] => id \in store.msgs[m] \/ job'[id] \in Jobs
      /\ \A id \in Ids : job[id] \in Jobs => job'[id] = job[id]
  BY <1>1, AddedLists DEF Typed
<1>3. job[x] \notin Jobs /\ \A m \in QueueNames, r \in Places : ~In(m, r, x)
  BY <1>1, FreshFacts DEF Typed
<1>4. ASSUME NEW m \in QueueNames, NEW id \in Ids PROVE Goes(m, id)
  <2>1. CASE Listed(m, id)' => Listed(m, id)
    BY <2>1 DEF Goes
  <2>2. CASE id = x /\ job'[id] \in Jobs
    BY <1>3, <2>2 DEF Goes, Had
  <2> QED BY <1>2, <2>1, <2>2
<1> QED BY <1>2, <1>4 DEF Passes

LEMMA ConsumerStepPasses ==
  ASSUME Typed, Custody, Distinct, NEW n \in QueueNames, ConsumerStep(n)
  PROVE  Passes /\ Distinct'
<1> USE DEF Typed
<1>0. /\ IsInjective(consumer[n].cache) /\ ToSet(<<>>) = {} /\ IsInjective(<<>>)
      /\ consumer[n].cache \in Seq(Ids)
      /\ \A m \in QueueNames : IsInjective(store.list[m])
  BY EmptyFacts, ConsumerTypes DEF Distinct
<1>1. CASE ConsumerStarts(n)
  <2>1. Same(n, "top")
    BY <1>1, GotoEffect DEF ConsumerStarts, Same
  <2> QED BY <1>0, <1>1, <2>1, TurnStays DEF ConsumerStarts, work, Same
<1>2. CASE ConsumerTop(n)
  <2>1. UNCHANGED <<store, job, thread, workQueue, main.drained>>
    BY <1>2 DEF ConsumerTop, ConsumerOnly, work
  <2> QED BY <1>0, <1>2, <2>1, ConsumerTopEffect, TurnStays DEF Same
<1>3. CASE ConsumerPaused(n)
  <2>1. UNCHANGED <<store, job, thread, workQueue, main.drained>>
    BY <1>3 DEF ConsumerPaused, ConsumerOnly, work
  <2> QED BY <1>0, <1>3, <2>1, ConsumerPausedEffect, TurnStays
<1>4. CASE NextCached(n)
  <2> DEFINE rest == Tail(consumer[n].cache)
  <2>1. UNCHANGED <<store, job, thread, workQueue, main.drained>> /\ consumer[n].cache # <<>>
    BY <1>4 DEF NextCached, ConsumerOnly, work
  <2>0. PICK x \in Ids : x = Head(consumer[n].cache)
    BY <1>0, <2>1, HeadTailFacts
  <2>2. /\ x \in Ids /\ rest \in Seq(Ids) /\ ToSet(consumer[n].cache) = {x} \cup ToSet(rest)
        /\ x \notin ToSet(rest) /\ IsInjective(rest)
    BY <1>0, <2>0, <2>1, HeadTailFacts
  <2>3. \/ Turns(n, "error", consumer[n].at, rest, consumer[n].queued,
                 consumer[n].delayQ, consumer[n].pending, consumer[n].event)
        \/ Turns(n, "handle", x, rest, consumer[n].queued \cup {job[x]},
                 consumer[n].delayQ, consumer[n].pending, consumer[n].event)
    BY <1>4, <2>0, NextCachedEffect
  <2> HIDE DEF rest
  <2>4. CASE Turns(n, "error", consumer[n].at, rest, consumer[n].queued,
                   consumer[n].delayQ, consumer[n].pending, consumer[n].event)
    BY <2>1, <2>2, <2>4, TurnStays
  <2>5. CASE Turns(n, "handle", x, rest, consumer[n].queued \cup {job[x]},
                   consumer[n].delayQ, consumer[n].pending, consumer[n].event)
    <3>1. \A m \in QueueNames, id \in Ids, r \in Places :
           /\ m # n => (In(m, r, id)' <=> In(m, r, id))
           /\ r = "cache" => (In(n, r, id)' <=> id \in ToSet(rest))
           /\ r = "hand" => (In(n, r, id)' <=> x = id)
           /\ r = "delayQ" => (In(n, r, id)' <=> id \in consumer[n].delayQ)
           /\ r \notin {"cache", "hand", "delayQ"} => (In(n, r, id)' <=> In(n, r, id))
      BY <2>1, <2>5, HeldAfter
    <3>2. \A m \in QueueNames, id \in Ids : Listed(m, id)' <=> Listed(m, id)
      BY <2>1 DEF Listed
    <3>3. In(n, "cache", x) /\ ~Listed(n, x) /\ \A r \in Places : In(n, r, x) => r = "cache"
      <4>1. In(n, "cache", x)
        BY <2>2 DEF In
      <4> QED BY <2>2, <4>1, PlaceFacts DEF Custody
    <3>4. ASSUME NEW m \in QueueNames, NEW id \in Ids, m # n \/ id # x PROVE Goes(m, id)
      <4>1. ASSUME NEW r \in Places, In(m, r, id)' PROVE In(m, r, id)
        <5>1. CASE m # n
          BY <3>1, <4>1, <5>1
        <5>2. CASE m = n /\ r = "cache"
          BY <2>2, <3>1, <4>1, <5>2 DEF In
        <5>3. CASE m = n /\ r = "hand"
          BY <3>1, <3>4, <4>1, <5>3
        <5>4. CASE m = n /\ r = "delayQ"
          BY <3>1, <4>1, <5>4 DEF In
        <5>5. CASE m = n /\ r \notin {"cache", "hand", "delayQ"}
          BY <3>1, <4>1, <5>5
        <5> QED BY <5>1, <5>2, <5>3, <5>4, <5>5
      <4> QED BY <3>2, <4>1 DEF Goes
    <3>5. Goes(n, x)
      <4>1. Fetches(n, x) /\ ~Listed(n, x)'
        BY <2>2, <3>2, <3>3, PlaceFacts DEF Fetches, Held
      <4>2. ASSUME NEW r \in Places, In(n, r, x)' PROVE r = "hand"
        <5>1. CASE r = "cache"
          BY <2>2, <3>1, <4>2, <5>1
        <5>2. CASE r = "delayQ"
          <6>1. In(n, "delayQ", x)
            BY <2>2, <3>1, <4>2, <5>2 DEF In
          <6> QED BY <3>3, <6>1, PlaceFacts
        <5>3. CASE r \notin {"cache", "hand", "delayQ"}
          BY <2>2, <3>1, <3>3, <4>2, <5>3
        <5> QED BY <5>1, <5>2, <5>3
      <4> QED BY <4>1, <4>2, PlaceFacts DEF Goes
    <3>6. Passes
      BY <2>1, <3>4, <3>5 DEF Passes
    <3>7. Distinct'
      BY <1>0, <2>1, <2>2, <2>5, DistinctTurns
    <3> QED BY <3>6, <3>7
  <2> QED BY <2>3, <2>4, <2>5
<1>5. CASE NextFull(n)
  <2>1. AfterNone(n) \in {"restart", "delayed"} /\ Same(n, AfterNone(n))
    BY <1>5, GotoEffect DEF NextFull, AfterNone, Same
  <2> QED BY <1>0, <1>5, <2>1, TurnStays DEF NextFull, ConsumerOnly, work, Same
<1>6. CASE NextFetch(n)
  <2>1. UNCHANGED <<job, thread, workQueue, main.drained>>
    BY <1>6 DEF NextFetch, ConsumerOnly, work
  <2>2. PICK p \in Seq(Ids) :
          /\ consumer[n].cache = <<>>
          /\ \/ /\ Taken(store, store', Me, n, p)
                /\ \E pc \in {"next", "restart", "delayed"} :
                     Turns(n, pc, consumer[n].at, p, consumer[n].queued,
                           consumer[n].delayQ, consumer[n].pending, consumer[n].event)
             \/ /\ store' = store \/ Taken(store, store', Me, n, p)
                /\ Turns(n, "restart", consumer[n].at, <<>>, consumer[n].queued, {}, 0,
                         consumer[n].event)
    BY <1>6, NextFetchEffect
  <2>3. /\ store'.msgs = store.msgs
        /\ \A m \in QueueNames, id \in Ids : Listed(m, id)' => Listed(m, id)
        /\ \A m \in QueueNames : IsInjective(store'.list[m])
        /\ Taken(store, store', Me, n, p) =>
             /\ IsInjective(p)
             /\ \A id \in ToSet(p) : Listed(n, id) /\ ~Listed(n, id)'
    BY <2>2, TakenLists
  <2>4. CASE /\ Taken(store, store', Me, n, p)
             /\ \E pc \in {"next", "restart", "delayed"} :
                  Turns(n, pc, consumer[n].at, p, consumer[n].queued,
                        consumer[n].delayQ, consumer[n].pending, consumer[n].event)
    <3>0. PICK pc \in {"next", "restart", "delayed"} :
             Turns(n, pc, consumer[n].at, p, consumer[n].queued,
                   consumer[n].delayQ, consumer[n].pending, consumer[n].event)
      BY <2>4
    <3>1. \A m \in QueueNames, id \in Ids, r \in Places :
           /\ m # n => (In(m, r, id)' <=> In(m, r, id))
           /\ r = "cache" => (In(n, r, id)' <=> id \in ToSet(p))
           /\ r = "hand" => (In(n, r, id)' <=> consumer[n].at = id)
           /\ r = "delayQ" => (In(n, r, id)' <=> id \in consumer[n].delayQ)
           /\ r \notin {"cache", "hand", "delayQ"} => (In(n, r, id)' <=> In(n, r, id))
      BY <2>1, <3>0, HeldAfter
    <3>2. ASSUME NEW m \in QueueNames, NEW id \in Ids, NEW r \in Places, In(m, r, id)'
          PROVE  In(m, r, id) \/ (m = n /\ r = "cache" /\ id \in ToSet(p))
      <4>1. CASE m # n
        BY <3>1, <3>2, <4>1
      <4>2. CASE m = n /\ r \in {"cache", "hand", "delayQ"}
        BY <3>1, <3>2, <4>2 DEF In
      <4>3. CASE m = n /\ r \notin {"cache", "hand", "delayQ"}
        BY <3>1, <3>2, <4>3
      <4> QED BY <4>1, <4>2, <4>3
    <3>3. ASSUME NEW m \in QueueNames, NEW id \in Ids PROVE Goes(m, id)
      <4>1. CASE m = n /\ id \in ToSet(p)
        <5>0. consumer[n].pc = "next"
          BY <1>6 DEF NextFetch
        <5>1. Fetches(m, id) /\ ~Listed(m, id)'
          BY <2>3, <2>4, <4>1, <5>0 DEF Fetches
        <5>2. \A r \in Places : ~In(n, r, id)
          BY <2>3, <2>4, <4>1 DEF Custody
        <5>3. \A r \in Places : In(m, r, id)' => r = "cache"
          BY <3>2, <4>1, <5>2
        <5> QED BY <5>1, <5>3, PlaceFacts DEF Goes
      <4>2. CASE ~(m = n /\ id \in ToSet(p))
        BY <2>3, <3>2, <4>2 DEF Goes
      <4> QED BY <4>1, <4>2
    <3>4. Passes
      BY <2>1, <2>3, <3>3 DEF Passes
    <3>5. Distinct'
      BY <2>3, <2>4, <3>0, DistinctTurns
    <3> QED BY <3>4, <3>5
  <2>5. CASE Turns(n, "restart", consumer[n].at, <<>>, consumer[n].queued, {}, 0,
                   consumer[n].event)
    <3>1. \A m \in QueueNames, id \in Ids, r \in Places :
           /\ m # n => (In(m, r, id)' <=> In(m, r, id))
           /\ r = "cache" => (In(n, r, id)' <=> id \in ToSet(<<>>))
           /\ r = "hand" => (In(n, r, id)' <=> consumer[n].at = id)
           /\ r = "delayQ" => (In(n, r, id)' <=> id \in {})
           /\ r \notin {"cache", "hand", "delayQ"} => (In(n, r, id)' <=> In(n, r, id))
      BY <2>1, <2>5, HeldAfter
    <3>2. ASSUME NEW m \in QueueNames, NEW id \in Ids, NEW r \in Places, In(m, r, id)'
          PROVE  In(m, r, id)
      <4>1. CASE m # n
        BY <3>1, <3>2, <4>1
      <4>2. CASE m = n /\ r \in {"cache", "hand", "delayQ"}
        BY <1>0, <3>1, <3>2, <4>2 DEF In
      <4>3. CASE m = n /\ r \notin {"cache", "hand", "delayQ"}
        BY <3>1, <3>2, <4>3
      <4> QED BY <4>1, <4>2, <4>3
    <3>3. Passes
      BY <2>1, <2>3, <3>2 DEF Passes, Goes
    <3>4. Distinct'
      BY <1>0, <2>3, <2>5, DistinctTurns
    <3> QED BY <3>3, <3>4
  <2> QED BY <2>2, <2>4, <2>5
<1>7. CASE HandleMessage(n)
  <2>1. PICK x \in Ids : x = consumer[n].at
    BY <1>7, HandleEffect
  <2>2. \/ /\ UNCHANGED workQueue
           /\ Turns(n, "delayed", None, consumer[n].cache, consumer[n].queued,
                    consumer[n].delayQ \cup {x}, consumer[n].pending + 1,
                    consumer[n].event)
        \/ /\ workQueue' = workQueue \cup {<<x, n>>}
           /\ Turns(n, "delayed", None, consumer[n].cache, consumer[n].queued,
                    consumer[n].delayQ, consumer[n].pending, consumer[n].event)
        \/ Same(n, "reject") /\ UNCHANGED workQueue
    BY <1>7, <2>1, HandleEffect
  <2>3. UNCHANGED <<store, job, thread, main.drained>>
    BY <1>7 DEF HandleMessage
  <2>4. In(n, "hand", x) /\ ~Listed(n, x) /\ \A r \in Places : In(n, r, x) => r = "hand"
    <3>1. In(n, "hand", x)
      BY <2>1 DEF In
    <3> QED BY <3>1, PlaceFacts DEF Custody
  <2>5. \A m \in QueueNames, id \in Ids : Listed(m, id)' <=> Listed(m, id)
    BY <2>3 DEF Listed
  <2>6. Fetches(n, x) /\ ~Listed(n, x)'
    BY <2>4, <2>5, PlaceFacts DEF Fetches, Held
  <2>7. ASSUME NEW p \in {"delayQ", "workQueue"},
               \A m \in QueueNames, id \in Ids, r \in Places :
                 In(m, r, id)' => \/ In(m, r, id) /\ (m # n \/ r # "hand")
                                  \/ m = n /\ r = p /\ id = x,
               IsInjective(consumer'[n].cache),
               \A m \in QueueNames \ {n} : consumer'[m] = consumer[m]
        PROVE  Passes /\ Distinct'
    <3>1. ASSUME NEW m \in QueueNames, NEW id \in Ids PROVE Goes(m, id)
      <4>1. CASE m = n /\ id = x
        <5>1. \A r \in Places : In(n, r, x)' => r = p
          BY <2>4, <2>7
        <5> QED BY <2>6, <4>1, <5>1, PlaceFacts DEF Goes
      <4>2. CASE ~(m = n /\ id = x)
        BY <2>5, <2>7, <4>2 DEF Goes
      <4> QED BY <4>1, <4>2
    <3>2. Passes
      BY <2>3, <3>1 DEF Passes
    <3>3. Distinct'
      <4>1. ASSUME NEW m \in QueueNames PROVE IsInjective(consumer'[m].cache)
        BY <2>7 DEF Distinct
      <4> QED BY <1>0, <2>3, <4>1 DEF Distinct
    <3> QED BY <3>2, <3>3
  <2>8. CASE /\ UNCHANGED workQueue
             /\ Turns(n, "delayed", None, consumer[n].cache, consumer[n].queued,
                      consumer[n].delayQ \cup {x}, consumer[n].pending + 1,
                      consumer[n].event)
    <3>1. \A m \in QueueNames, id \in Ids, r \in Places :
           /\ m # n => (In(m, r, id)' <=> In(m, r, id))
           /\ r = "cache" => (In(n, r, id)' <=> id \in ToSet(consumer[n].cache))
           /\ r = "hand" => (In(n, r, id)' <=> None = id)
           /\ r = "delayQ" => (In(n, r, id)' <=> id \in consumer[n].delayQ \cup {x})
           /\ r \notin {"cache", "hand", "delayQ"} => (In(n, r, id)' <=> In(n, r, id))
      BY <2>3, <2>8, HeldAfter
    <3>2. ASSUME NEW m \in QueueNames, NEW id \in Ids, NEW r \in Places, In(m, r, id)'
          PROVE  \/ In(m, r, id) /\ (m # n \/ r # "hand")
                 \/ m = n /\ r = "delayQ" /\ id = x
      <4>0. None # id
        BY WorkerAssumption
      <4>1. CASE m # n
        BY <3>1, <3>2, <4>1
      <4>2. CASE m = n /\ r \in {"cache", "hand", "delayQ"}
        BY <3>1, <3>2, <4>0, <4>2 DEF In
      <4>3. CASE m = n /\ r \notin {"cache", "hand", "delayQ"}
        BY <3>1, <3>2, <4>3
      <4> QED BY <4>1, <4>2, <4>3
    <3>3. /\ IsInjective(consumer'[n].cache)
          /\ \A m \in QueueNames \ {n} : consumer'[m] = consumer[m]
      BY <1>0, <2>8 DEF Turns
    <3> QED BY <2>7, <3>2, <3>3
  <2>9. CASE /\ workQueue' = workQueue \cup {<<x, n>>}
             /\ Turns(n, "delayed", None, consumer[n].cache, consumer[n].queued,
                      consumer[n].delayQ, consumer[n].pending, consumer[n].event)
    <3>1. /\ \A m \in QueueNames \ {n} : consumer'[m] = consumer[m]
          /\ consumer'[n].cache = consumer[n].cache /\ consumer'[n].at = None
          /\ consumer'[n].delayQ = consumer[n].delayQ
      BY <2>9 DEF Turns
    <3>2. ASSUME NEW m \in QueueNames, NEW id \in Ids, NEW r \in Places, In(m, r, id)'
          PROVE  \/ In(m, r, id) /\ (m # n \/ r # "hand")
                 \/ m = n /\ r = "workQueue" /\ id = x
      <4>0. None # id
        BY WorkerAssumption
      <4>1. CASE m # n
        <5>1. consumer'[m] = consumer[m] /\ (<<id, m>> \in workQueue' => <<id, m>> \in workQueue)
          BY <2>9, <3>1, <4>1
        <5> QED BY <2>3, <3>2, <4>1, <5>1 DEF In
      <4>2. CASE m = n
        <5>1. <<id, m>> \in workQueue' => <<id, m>> \in workQueue \/ id = x
          BY <2>9
        <5> QED BY <2>3, <3>1, <3>2, <4>0, <4>2, <5>1, PlaceFacts DEF In
      <4> QED BY <4>1, <4>2
    <3>3. IsInjective(consumer'[n].cache)
      BY <1>0, <3>1
    <3> QED BY <2>7, <3>1, <3>2, <3>3
  <2>10. CASE Same(n, "reject") /\ UNCHANGED workQueue
    BY <1>0, <2>3, <2>10, TurnStays DEF Same
  <2> QED BY <2>2, <2>8, <2>9, <2>10
<1>8. CASE RejectUnknown(n)
  <2>1. PICK pc \in {"delayed", "reject"} :
          /\ consumer[n].at \in Ids /\ PostEffect(n, consumer[n].at)
          /\ Turns(n, pc, IF pc = "reject" THEN consumer[n].at ELSE None, consumer[n].cache,
                   consumer[n].queued \ {job[consumer[n].at]}, consumer[n].delayQ,
                   consumer[n].pending, consumer[n].event)
    BY <1>8, RejectEffect
  <2>2. UNCHANGED <<job, thread, workQueue, main.drained>>
    BY <1>8 DEF RejectUnknown, ConsumerOnly, work
  <2>3. \A m \in QueueNames : /\ store'.list[m] = store.list[m]
                              /\ store'.msgs[m] \subseteq store.msgs[m]
    BY <2>1, SettledLists
  <2> DEFINE at == IF pc = "reject" THEN consumer[n].at ELSE None
  <2>4. at \in {None, consumer[n].at}
    OBVIOUS
  <2> HIDE DEF at
  <2>5. Turns(n, pc, at, consumer[n].cache, consumer[n].queued \ {job[consumer[n].at]},
              consumer[n].delayQ, consumer[n].pending, consumer[n].event)
    BY <2>1 DEF at
  <2> QED BY <1>0, <2>2, <2>3, <2>4, <2>5, TurnStays
<1>9. CASE DelayedDue(n)
  <2>1. PICK x \in consumer[n].delayQ :
           /\ x \in Ids
           /\ Turns(n, "copy", x, consumer[n].cache, consumer[n].queued,
                    consumer[n].delayQ \ {x}, consumer[n].pending, consumer[n].event)
    BY <1>9, DueEffect
  <2>2. UNCHANGED <<store, job, thread, workQueue, main.drained>>
    BY <1>9 DEF DelayedDue, ConsumerOnly, work
  <2>3. \A m \in QueueNames, id \in Ids, r \in Places :
           /\ m # n => (In(m, r, id)' <=> In(m, r, id))
           /\ r = "cache" => (In(n, r, id)' <=> id \in ToSet(consumer[n].cache))
           /\ r = "hand" => (In(n, r, id)' <=> x = id)
           /\ r = "delayQ" => (In(n, r, id)' <=> id \in consumer[n].delayQ \ {x})
           /\ r \notin {"cache", "hand", "delayQ"} => (In(n, r, id)' <=> In(n, r, id))
    BY <2>1, <2>2, HeldAfter
  <2>4. \A m \in QueueNames, id \in Ids : Listed(m, id)' <=> Listed(m, id)
    BY <2>2 DEF Listed
  <2>5. In(n, "delayQ", x) /\ ~Listed(n, x) /\ \A r \in Places : In(n, r, x) => r = "delayQ"
    <3>1. In(n, "delayQ", x)
      BY <2>1 DEF In
    <3> QED BY <2>1, <3>1, PlaceFacts DEF Custody
  <2>6. ASSUME NEW m \in QueueNames, NEW id \in Ids, NEW r \in Places, In(m, r, id)'
        PROVE  \/ In(m, r, id) /\ ~(m = n /\ id = x)
               \/ m = n /\ r = "hand" /\ id = x
    <3>1. CASE m # n
      BY <2>3, <2>6, <3>1
    <3>2. CASE m = n /\ r \in {"cache", "hand", "delayQ"}
      BY <2>3, <2>5, <2>6, <3>2, PlaceFacts DEF In
    <3>3. CASE m = n /\ r \notin {"cache", "hand", "delayQ"}
      <4>1. In(m, r, id)
        BY <2>3, <2>6, <3>3
      <4> QED BY <2>5, <3>3, <4>1
    <3> QED BY <3>1, <3>2, <3>3
  <2>7. ASSUME NEW m \in QueueNames, NEW id \in Ids PROVE Goes(m, id)
    <3>1. CASE m = n /\ id = x
      <4>1. Fetches(n, x) /\ ~Listed(n, x)'
        BY <2>1, <2>4, <2>5, PlaceFacts DEF Fetches, Held
      <4>2. \A r \in Places : In(n, r, x)' => r = "hand"
        BY <2>1, <2>6
      <4> QED BY <3>1, <4>1, <4>2, PlaceFacts DEF Goes
    <3>2. CASE ~(m = n /\ id = x)
      BY <2>4, <2>6, <3>2 DEF Goes
    <3> QED BY <3>1, <3>2
  <2>8. Passes
    BY <2>2, <2>7 DEF Passes
  <2> QED BY <1>0, <2>1, <2>2, <2>8, DistinctTurns
<1>10. CASE DelayedNone(n)
  <2>1. \E pc \in {"next", "stopped"} : Same(n, pc)
    BY <1>10, GotoEffect DEF DelayedNone, Same
  <2> QED BY <1>0, <1>10, <2>1, TurnStays DEF DelayedNone, ConsumerOnly, work, Same
<1>11. CASE CopyDelayed(n)
  <2>1. /\ consumer[n].at \in Ids /\ HasFresh /\ Canonical[n] \in QueueNames
        /\ Adds(Canonical[n], job[consumer[n].at]) \/ Leaves
        /\ \/ Same(n, "ackcopy")
           \/ Turns(n, "error", None, consumer[n].cache, consumer[n].queued,
                    consumer[n].delayQ, consumer[n].pending, consumer[n].event)
    BY <1>11, CopyEffect
  <2>2. PICK q \in QueueNames, j \in Jobs : Adds(q, j) \/ Leaves
    <3>1. In(n, "hand", consumer[n].at) /\ "hand" \in Places
      BY DEF In, Places
    <3>2. job[consumer[n].at] \in Jobs
      BY <2>1, <3>1 DEF Known
    <3> QED BY <2>1, <3>2
  <2>3. UNCHANGED <<thread, workQueue, main.drained>>
    BY <1>11 DEF CopyDelayed
  <2>4. ASSUME NEW at \in {None, consumer[n].at}, NEW pc,
               Turns(n, pc, at, consumer[n].cache, consumer[n].queued,
                     consumer[n].delayQ, consumer[n].pending, consumer[n].event)
        PROVE  Passes /\ Distinct'
    <3>1. \A m \in QueueNames, id \in Ids, r \in Places :
           /\ m # n => (In(m, r, id)' <=> In(m, r, id))
           /\ r = "cache" => (In(n, r, id)' <=> id \in ToSet(consumer[n].cache))
           /\ r = "hand" => (In(n, r, id)' <=> at = id)
           /\ r = "delayQ" => (In(n, r, id)' <=> id \in consumer[n].delayQ)
           /\ r \notin {"cache", "hand", "delayQ"} => (In(n, r, id)' <=> In(n, r, id))
      BY <2>3, <2>4, HeldAfter
    <3>2. ASSUME NEW m \in QueueNames, NEW id \in Ids, NEW r \in Places, In(m, r, id)'
          PROVE  In(m, r, id)
      <4>0. None # id
        BY WorkerAssumption
      <4>1. CASE m # n
        BY <3>1, <3>2, <4>1
      <4>2. CASE m = n /\ r \in {"cache", "hand", "delayQ"}
        BY <2>4, <3>1, <3>2, <4>0, <4>2 DEF In
      <4>3. CASE m = n /\ r \notin {"cache", "hand", "delayQ"}
        BY <3>1, <3>2, <4>3
      <4> QED BY <4>1, <4>2, <4>3
    <3>3. Passes
      BY <2>1, <2>2, <3>2, AddedPasses
    <3>4. \A m \in QueueNames : IsInjective(store'.list[m])
      BY <1>0, <2>1, <2>2, AddedLists
    <3> QED BY <1>0, <2>4, <3>3, <3>4, DistinctTurns
  <2> QED BY <2>1, <2>4 DEF Same
<1>12. CASE AckCopied(n)
  <2>1. /\ consumer[n].at \in Ids /\ PostEffect(n, consumer[n].at)
        /\ \/ Turns(n, "delayed", None, consumer[n].cache,
                    consumer[n].queued \ {job[consumer[n].at]}, consumer[n].delayQ,
                    consumer[n].pending - 1, consumer[n].event)
           \/ Turns(n, "ackcopy", consumer[n].at, consumer[n].cache,
                    consumer[n].queued \ {job[consumer[n].at]}, consumer[n].delayQ,
                    consumer[n].pending, consumer[n].event)
    BY <1>12, AckEffect
  <2>2. UNCHANGED <<job, thread, workQueue, main.drained>>
    BY <1>12 DEF AckCopied, ConsumerOnly, work
  <2>3. \A m \in QueueNames : /\ store'.list[m] = store.list[m]
                              /\ store'.msgs[m] \subseteq store.msgs[m]
    BY <2>1, SettledLists
  <2> QED BY <1>0, <2>1, <2>2, <2>3, TurnStays
<1>13. CASE ConsumerError(n)
  <2>1. GivesBack(n, consumer[n].delayQ) /\ (Empties(n, "restart") \/ Empties(n, "dead"))
    BY <1>13, ErrorEffect
  <2>2. UNCHANGED <<job, thread, workQueue, main.drained>>
    BY <1>13 DEF ConsumerError, ConsumerOnly, work
  <2> QED BY <2>1, <2>2, GivesBackPasses
<1>14. CASE ConsumerRestart(n)
  <2>1. \/ Same(n, "stopped") /\ UNCHANGED <<store, failures>>
        \/ /\ GivesBack(n, consumer[n].delayQ)
           /\ Empties(n, "top") \/ Empties(n, "dead")
    BY <1>14, RestartEffect
  <2>2. UNCHANGED <<job, thread, workQueue, main.drained>>
    BY <1>14 DEF ConsumerRestart, ConsumerOnly, work
  <2>3. CASE Same(n, "stopped") /\ UNCHANGED <<store, failures>>
    BY <1>0, <2>2, <2>3, TurnStays DEF Same
  <2> QED BY <2>1, <2>2, <2>3, GivesBackPasses
<1> QED BY <1>1, <1>2, <1>3, <1>4, <1>5, <1>6, <1>7, <1>8, <1>9, <1>10, <1>11, <1>12,
           <1>13, <1>14 DEF ConsumerStep

-----------------------------------------------------------------------------

LEMMA DistinctSame ==
  ASSUME Distinct, \A n \in QueueNames : consumer'[n].cache = consumer[n].cache,
         \A n \in QueueNames : IsInjective(store'.list[n])
  PROVE  Distinct'
BY DEF Distinct

(* The places of the messages after thread t has moved.                    *)
LEMMA ThreadAfter ==
  ASSUME NEW t \in Threads, NEW pc, NEW at, NEW queue, NEW failed, NEW event,
         Moves(t, pc, at, queue, failed, event), UNCHANGED <<consumer, main.drained>>
  PROVE  \A m \in QueueNames, id \in Ids, r \in Places :
           /\ r = t => (In(m, r, id)' <=> ((queue = m) /\ (at = id)))
           /\ r = "workQueue" => (In(m, r, id)' <=> <<id, m>> \in workQueue')
           /\ r \notin {t, "workQueue"} => (In(m, r, id)' <=> In(m, r, id))
<1>1. /\ \A u \in Threads \ {t} : thread'[u] = thread[u]
      /\ thread'[t].at = at /\ thread'[t].queue = queue
  BY DEF Moves
<1>2. ASSUME NEW m \in QueueNames, NEW id \in Ids, NEW r \in Places
      PROVE  /\ r = t => (In(m, r, id)' <=> ((queue = m) /\ (at = id)))
             /\ r = "workQueue" => (In(m, r, id)' <=> <<id, m>> \in workQueue')
             /\ r \notin {t, "workQueue"} => (In(m, r, id)' <=> In(m, r, id))
  <2>1. CASE r \in Threads
    BY <1>1, <2>1, PlaceFacts DEF In
  <2>2. CASE r \notin Threads
    BY <1>1, <2>2, PlaceFacts DEF In
  <2> QED BY <2>1, <2>2
<1> QED BY <1>2

(* A thread that keeps what it has, or lets go of it.                      *)
LEMMA MoveStays ==
  ASSUME NEW t \in Threads, NEW pc, NEW at, NEW failed, NEW event,
         Moves(t, pc, at, thread[t].queue, failed, event), at \in {None, thread[t].at},
         UNCHANGED <<consumer, workQueue, main.drained>>
  PROVE  \A m \in QueueNames, id \in Ids, r \in Places : In(m, r, id)' => In(m, r, id)
<1>1. \A m \in QueueNames, id \in Ids, r \in Places :
           /\ r = t => (In(m, r, id)' <=> ((thread[t].queue = m) /\ (at = id)))
           /\ r = "workQueue" => (In(m, r, id)' <=> <<id, m>> \in workQueue')
           /\ r \notin {t, "workQueue"} => (In(m, r, id)' <=> In(m, r, id))
  BY ThreadAfter, ZenonT(60)
<1>2. ASSUME NEW m \in QueueNames, NEW id \in Ids, NEW r \in Places, In(m, r, id)'
      PROVE  In(m, r, id)
  <2>0. None # id
    BY WorkerAssumption
  <2>1. CASE r = t
    BY <1>1, <1>2, <2>0, <2>1 DEF In
  <2>2. CASE r = "workQueue"
    BY <1>1, <1>2, <2>2 DEF In
  <2>3. CASE r \notin {t, "workQueue"}
    BY <1>1, <1>2, <2>3
  <2> QED BY <2>1, <2>2, <2>3
<1> QED BY <1>2

LEMMA ThreadStepPasses ==
  ASSUME Typed, Custody, Distinct, NEW t \in Threads, ThreadStep(t)
  PROVE  Passes /\ Distinct'
<1> USE DEF Typed
<1>0. \A m \in QueueNames : IsInjective(store.list[m])
  BY DEF Distinct
<1>1. CASE ThreadStarts(t)
  <2>1. Still(t, "idle")
    BY <1>1, StillEffect DEF ThreadStarts
  <2>2. UNCHANGED <<store, job, consumer, workQueue, main.drained>>
    BY <1>1 DEF ThreadStarts, work
  <2> QED BY <1>0, <2>1, <2>2, MoveStays, StaysPut, DistinctSame DEF Still
<1>2. CASE ThreadTop(t)
  <2>1. UNCHANGED <<store, job, consumer, workQueue, main.drained>>
    BY <1>2 DEF ThreadTop, ThreadOnly, work
  <2>2. \E pc \in {"stopped", "paused", "get"} : Still(t, pc)
    BY <1>2, ThreadTopEffect
  <2> QED BY <1>0, <2>1, <2>2, MoveStays, StaysPut, DistinctSame DEF Still
<1>7. CASE ThreadGet(t)
  <2>1. UNCHANGED <<store, job, consumer, main.drained>>
    BY <1>7 DEF ThreadGet, ThreadOnly, work
  <2>2. CASE Still(t, "idle") /\ UNCHANGED workQueue
    BY <1>0, <2>1, <2>2, MoveStays, StaysPut, DistinctSame DEF Still
  <2>3. CASE \E id \in Ids, n \in QueueNames : Takes(t, id, n)
    <3>1. PICK x \in Ids, n \in QueueNames : Takes(t, x, n)
      BY <2>3
    <3>2. /\ <<x, n>> \in workQueue /\ workQueue' = workQueue \ {<<x, n>>}
          /\ Moves(t, "run", x, n, thread[t].failed, thread[t].event)
      BY <3>1 DEF Takes
    <3>3. \A m \in QueueNames, id \in Ids, r \in Places :
           /\ r = t => (In(m, r, id)' <=> ((n = m) /\ (x = id)))
           /\ r = "workQueue" => (In(m, r, id)' <=> <<id, m>> \in workQueue')
           /\ r \notin {t, "workQueue"} => (In(m, r, id)' <=> In(m, r, id))
      <4>1. /\ Moves(t, "run", x, n, thread[t].failed, thread[t].event)
            /\ UNCHANGED <<consumer, main.drained>>
        BY <2>1, <3>2
      <4> QED BY ONLY t \in Threads, <4>1, ThreadAfter, ZenonT(60)
    <3>4. /\ In(n, "workQueue", x) /\ ~Listed(n, x)
          /\ \A r \in Places : In(n, r, x) => r = "workQueue"
      <4>1. In(n, "workQueue", x)
        BY <3>2 DEF In
      <4> QED BY <4>1, PlaceFacts DEF Custody
    <3>5. \A m \in QueueNames, id \in Ids : Listed(m, id)' <=> Listed(m, id)
      BY <2>1 DEF Listed
    <3>6. ASSUME NEW m \in QueueNames, NEW id \in Ids, NEW r \in Places, In(m, r, id)'
          PROVE  \/ In(m, r, id) /\ ~(m = n /\ id = x)
                 \/ m = n /\ r = t /\ id = x
      <4>1. CASE r = t
        BY <3>3, <3>6, <4>1
      <4>2. CASE r = "workQueue"
        <5>1. <<id, m>> \in workQueue /\ <<id, m>> # <<x, n>>
          BY <3>2, <3>3, <3>6, <4>2
        <5> QED BY <4>2, <5>1 DEF In
      <4>3. CASE r \notin {t, "workQueue"}
        <5>1. In(m, r, id)
          BY <3>3, <3>6, <4>3
        <5> QED BY <3>4, <4>3, <5>1
      <4> QED BY <4>1, <4>2, <4>3
    <3>7. ASSUME NEW m \in QueueNames, NEW id \in Ids PROVE Goes(m, id)
      <4>1. CASE m = n /\ id = x
        <5>1. Fetches(n, x) /\ ~Listed(n, x)'
          BY <3>4, <3>5, PlaceFacts DEF Fetches, Held
        <5>2. \A r \in Places : In(n, r, x)' => r = t
          BY <3>6
        <5> QED BY <4>1, <5>1, <5>2, PlaceFacts DEF Goes
      <4>2. CASE ~(m = n /\ id = x)
        BY <3>5, <3>6, <4>2 DEF Goes
      <4> QED BY <4>1, <4>2
    <3>8. Passes
      BY <2>1, <3>7 DEF Passes
    <3> QED BY <1>0, <2>1, <3>8, DistinctSame
  <2> QED BY <1>7, <2>2, <2>3, ThreadGetEffect
<1>3. CASE ThreadPaused(t)
  <2>1. Moves(t, "idle", thread[t].at, thread[t].queue, thread[t].failed, TRUE)
    BY <1>3, ThreadPausedEffect
  <2>2. UNCHANGED <<store, job, consumer, workQueue, main.drained>>
    BY <1>3 DEF ThreadPaused, ThreadOnly, work
  <2> QED BY <1>0, <2>1, <2>2, MoveStays, StaysPut, DistinctSame
<1>4. CASE Finish(t)
  <2>1. PICK failed \in BOOLEAN :
           Moves(t, "post", thread[t].at, thread[t].queue, failed, thread[t].event)
    BY <1>4, FinishEffect
  <2>2. UNCHANGED <<store, job, consumer, workQueue, main.drained>>
    BY <1>4 DEF Finish, ThreadOnly
  <2> QED BY <1>0, <2>1, <2>2, MoveStays, StaysPut, DistinctSame
<1>5. CASE RetryLater(t)
  <2>1. /\ job[thread[t].at] \in Jobs /\ HasFresh
        /\ (\E q \in QueueNames : Adds(q, job[thread[t].at])) \/ Leaves
        /\ Moves(t, "post", thread[t].at, thread[t].queue, FALSE, thread[t].event)
    BY <1>5, RetryEffect
  <2>2. PICK q \in QueueNames, j \in Jobs : Adds(q, j) \/ Leaves
    BY <2>1, WorkerAssumption
  <2>3. UNCHANGED <<consumer, workQueue, main.drained>>
    BY <1>5 DEF RetryLater, ThreadOnly
  <2>4. \A m \in QueueNames, id \in Ids, r \in Places : In(m, r, id)' => In(m, r, id)
    BY <2>1, <2>3, MoveStays
  <2>5. Passes
    BY <2>1, <2>2, <2>4, AddedPasses
  <2>6. \A m \in QueueNames : IsInjective(store'.list[m])
    BY <1>0, <2>1, <2>2, AddedLists
  <2> QED BY <2>3, <2>5, <2>6, DistinctSame
<1>6. CASE PostProcess(t)
  <2> DEFINE id == thread[t].at
             n == thread[t].queue
  <2>1. /\ id \in Ids /\ n \in QueueNames /\ PostEffect(n, id)
        /\ Turns(n, consumer[n].pc, consumer[n].at, consumer[n].cache,
                 consumer[n].queued \ {job[id]}, consumer[n].delayQ,
                 consumer[n].pending, consumer[n].event)
        /\ UNCHANGED thread \/ Moves(t, "idle", None, n, FALSE, thread[t].event)
    BY <1>6, PostProcessEffect
  <2>2. UNCHANGED <<job, workQueue, main.drained>>
    BY <1>6 DEF PostProcess, work
  <2>3. \A m \in QueueNames : /\ store'.list[m] = store.list[m]
                              /\ store'.msgs[m] \subseteq store.msgs[m]
    BY <2>1, SettledLists
  <2>4. \A m \in QueueNames : /\ consumer'[m].cache = consumer[m].cache
                              /\ consumer'[m].at = consumer[m].at
                              /\ consumer'[m].delayQ = consumer[m].delayQ
    <3>1. ASSUME NEW m \in QueueNames
          PROVE  /\ consumer'[m].cache = consumer[m].cache
                 /\ consumer'[m].at = consumer[m].at
                 /\ consumer'[m].delayQ = consumer[m].delayQ
      <4>1. CASE m = n
        BY <2>1, <4>1 DEF Turns
      <4>2. CASE m # n
        BY <2>1, <4>2 DEF Turns
      <4> QED BY <4>1, <4>2
    <3> QED BY <3>1
  <2>5. \A u \in Threads : \/ thread'[u].queue = thread[u].queue /\ thread'[u].at = thread[u].at
                           \/ thread'[u].at = None
    BY <2>1 DEF Moves
  <2>6. ASSUME NEW m \in QueueNames, NEW i \in Ids, NEW r \in Places, In(m, r, i)'
        PROVE  In(m, r, i)
    <3>0. i # None
      BY WorkerAssumption
    <3>1. CASE r \in Threads
      BY <2>5, <2>6, <3>0, <3>1, PlaceFacts DEF In
    <3>2. CASE r \notin Threads
      BY <2>2, <2>4, <2>6, <3>2 DEF In
    <3> QED BY <3>1, <3>2
  <2>7. Passes
    BY <2>2, <2>3, <2>6, StaysPut
  <2> QED BY <1>0, <2>3, <2>4, <2>7, DistinctSame
<1> QED BY <1>1, <1>2, <1>3, <1>4, <1>5, <1>6, <1>7 DEF ThreadStep
-----------------------------------------------------------------------------
(* Steps of the main thread.                                               *)

LEMMA ClearedStays ==
  ASSUME Typed, Distinct, NEW c \in Children, Cleared(c),
         UNCHANGED <<store, job, workQueue, main.drained>>
  PROVE  Passes /\ Distinct'
<1>1. ASSUME NEW m \in QueueNames, NEW id \in Ids, NEW r \in Places, In(m, r, id)'
      PROVE  In(m, r, id)
  <2>1. CASE r \in Threads
    BY <1>1, <2>1, PlaceFacts DEF In, Cleared
  <2>2. CASE r \notin Threads
    BY <1>1, <2>2 DEF In, Cleared
  <2> QED BY <2>1, <2>2
<1>2. Passes
  BY <1>1, StaysPut
<1>3. /\ \A n \in QueueNames : consumer'[n].cache = consumer[n].cache
      /\ \A n \in QueueNames : IsInjective(store'.list[n])
  BY DEF Cleared, Distinct
<1> QED BY <1>2, <1>3, DistinctSame

LEMMA IdleStays ==
  ASSUME Distinct, UNCHANGED <<store, job, consumer, thread, workQueue, main.drained>>
  PROVE  Passes /\ Distinct'
<1>1. \A m \in QueueNames, id \in Ids, r \in Places : In(m, r, id)' => In(m, r, id)
  BY DEF In
<1>2. Passes
  BY <1>1, StaysPut
<1> QED BY <1>2 DEF Distinct

(* A message goes from the work queue to what stop() has taken off it.     *)
LEMMA DrainPasses ==
  ASSUME Typed, Custody, Distinct, DrainWork
  PROVE  Passes /\ Distinct'
<1>1. UNCHANGED <<store, job, consumer, thread>>
  BY DEF DrainWork, work
<1>2. CASE MainAt("requeue") /\ UNCHANGED workQueue
  <2>1. UNCHANGED main.drained
    BY <1>2 DEF MainAt, MainIs
  <2> QED BY <1>1, <1>2, <2>1, IdleStays
<1>3. ASSUME NEW x \in Ids, NEW n \in QueueNames, <<x, n>> \in workQueue,
             workQueue' = workQueue \ {<<x, n>>},
             main'.drained = main.drained \cup {<<x, n>>}
      PROVE  Passes /\ Distinct'
  <2>1. /\ In(n, "workQueue", x) /\ ~Listed(n, x)
        /\ \A r \in Places : In(n, r, x) => r = "workQueue"
    <3>1. In(n, "workQueue", x)
      BY <1>3 DEF In
    <3> QED BY <3>1, PlaceFacts DEF Custody
  <2>2. \A m \in QueueNames, id \in Ids : Listed(m, id)' <=> Listed(m, id)
    BY <1>1 DEF Listed
  <2>3. ASSUME NEW m \in QueueNames, NEW id \in Ids, NEW r \in Places, In(m, r, id)'
        PROVE  \/ In(m, r, id) /\ ~(m = n /\ id = x)
               \/ m = n /\ r = "drained" /\ id = x
    <3>1. CASE r = "workQueue"
      <4>1. <<id, m>> \in workQueue'
        BY <2>3, <3>1, PlaceFacts DEF In
      <4>2. <<id, m>> \in workQueue /\ ~(m = n /\ id = x)
        BY <1>3, <4>1
      <4> QED BY <3>1, <4>2 DEF In
    <3>2. CASE r = "drained"
      <4>1. <<id, m>> \in main'.drained
        BY <2>3, <3>2, PlaceFacts DEF In
      <4>2. <<id, m>> \in main.drained \/ (id = x /\ m = n)
        BY <1>3, <4>1
      <4>3. <<id, m>> \in main.drained => In(m, r, id)
        BY <3>2 DEF In
      <4>4. ~(In(m, r, id) /\ m = n /\ id = x)
        BY <2>1, <3>2
      <4> QED BY <3>2, <4>2, <4>3, <4>4
    <3>3. CASE r \notin {"workQueue", "drained"}
      <4>1. In(m, r, id)
        BY <1>1, <2>3, <3>3 DEF In
      <4> QED BY <2>1, <3>3, <4>1
    <3> QED BY <3>1, <3>2, <3>3
  <2>4. ASSUME NEW m \in QueueNames, NEW id \in Ids PROVE Goes(m, id)
    <3>1. CASE m = n /\ id = x
      <4>1. Fetches(n, x) /\ ~Listed(n, x)'
        BY <2>1, <2>2, PlaceFacts DEF Fetches, Held
      <4>2. \A r \in Places : In(n, r, x)' => r = "drained"
        BY <2>3
      <4> QED BY <3>1, <4>1, <4>2, PlaceFacts DEF Goes
    <3>2. CASE ~(m = n /\ id = x)
      BY <2>2, <2>3, <3>2 DEF Goes
    <3> QED BY <3>1, <3>2
  <2>5. Passes
    BY <1>1, <2>4 DEF Passes
  <2>6. \A m \in QueueNames : IsInjective(store'.list[m])
    BY <1>1 DEF Distinct
  <2> QED BY <1>1, <2>5, <2>6, DistinctSame
<1> QED BY <1>2, <1>3, DrainEffect DEF MainIs, Typed

(* stop() gives back what it took off the work queue of queue n.           *)
LEMMA WorkBackPasses ==
  ASSUME Typed, Custody, Distinct, NEW n \in QueueNames,
         main'.drained = Undrained(n), GivesBack(n, DrainedOf(n)),
         UNCHANGED <<job, consumer, thread, workQueue>>
  PROVE  Passes /\ Distinct'
<1> DEFINE ids == DrainedOf(n)
<1>1. ids \in SUBSET Ids
  BY DEF DrainedOf
<1>2. \A id \in ids : In(n, "drained", id)
  BY DEF In, DrainedOf
<1>3. \A id \in ids : ~Listed(n, id) /\ \A r \in Places : In(n, r, id) => r = "drained"
  BY <1>1, <1>2, PlaceFacts DEF Custody
<1> HIDE DEF ids
<1>4. /\ store'.msgs = store.msgs
      /\ \A m \in QueueNames, id \in Ids :
           Listed(m, id)' => Listed(m, id) \/ (m = n /\ id \in ids)
      /\ \A m \in QueueNames : IsInjective(store'.list[m])
  <2>1. GivesBack(n, ids)
    BY DEF ids
  <2> QED BY <1>1, <1>3, <2>1, ReturnedLists DEF Typed
<1>5. ASSUME NEW m \in QueueNames, NEW id \in Ids, NEW r \in Places, In(m, r, id)'
      PROVE  /\ In(m, r, id)
             /\ r = "drained" => ~(m = n /\ id \in ids)
  <2>1. CASE r = "drained"
    <3>1. <<id, m>> \in Undrained(n)
      BY <1>5, <2>1, PlaceFacts DEF In
    <3> QED BY <2>1, <3>1 DEF In, Undrained, ids
  <2>2. CASE r # "drained"
    BY <1>5, <2>2 DEF In
  <2> QED BY <2>1, <2>2
<1>6. ASSUME NEW m \in QueueNames, NEW id \in Ids PROVE Goes(m, id)
  <2>1. CASE m = n /\ id \in ids
    <3>1. Had(m, id)
      BY <1>2, <2>1, PlaceFacts DEF Had, Held, ids
    <3>2. \A r \in Places : ~In(m, r, id)'
      BY <1>3, <1>5, <2>1
    <3> QED BY <3>1, <3>2 DEF Goes
  <2>2. CASE ~(m = n /\ id \in ids)
    BY <1>4, <1>5, <2>2 DEF Goes
  <2> QED BY <2>1, <2>2
<1>7. Passes
  BY <1>4, <1>6 DEF Passes
<1> QED BY <1>4, <1>7, DistinctSame

LEMMA MainStepPasses ==
  ASSUME Typed, Custody, Distinct, MainStep
  PROVE  Passes /\ Distinct'
<1> USE DEF Typed
<1>1. ASSUME NEW c \in Children, ClearEvent(c) PROVE Passes /\ Distinct'
  <2>1. UNCHANGED <<store, job, workQueue>>
    BY <1>1 DEF ClearEvent, MainOnly, work
  <2>2. Cleared(c) /\ UNCHANGED main.drained
    BY <1>1, ClearEffect DEF MainIs
  <2> QED BY <2>1, <2>2, ClearedStays
<1>2. CASE \/ Pause \/ Resume \/ PauseReturns \/ ResumeReturns \/ Stop
           \/ WorkersJoined \/ ConsumersJoined
           \/ \E c \in Children : TellChild(c) \/ StopChild(c)
  <2>1. UNCHANGED <<store, job, consumer, thread, workQueue>>
    BY <1>2 DEF Pause, Resume, TellChild, PauseReturns, ResumeReturns, Stop, StopChild,
                WorkersJoined, ConsumersJoined, MainOnly, work
  <2>2. UNCHANGED main.drained
    <3>1. CASE PauseReturns \/ ResumeReturns
      BY <3>1, MainAtEffect DEF PauseReturns, ResumeReturns, MainAt, MainIs
    <3>2. CASE Pause \/ Resume \/ Stop \/ WorkersJoined \/ ConsumersJoined
      BY <3>2, PauseEffect, ResumeEffect, StopEffect, WorkersJoinedEffect,
         ConsumersJoinedEffect DEF MainIs
    <3>3. CASE \E c \in Children : TellChild(c) \/ StopChild(c)
      BY <3>3, TellEffect, StopChildEffect DEF MainIs
    <3> QED BY <1>2, <3>1, <3>2, <3>3
  <2> QED BY <2>1, <2>2, IdleStays
<1>3. CASE RequeueWork
  <2>1. UNCHANGED <<job, consumer, thread, workQueue>>
    BY <1>3 DEF RequeueWork, work
  <2>2. CASE UNCHANGED <<store, main.drained>>
    BY <2>1, <2>2, IdleStays
  <2>3. ASSUME NEW n \in QueueNames, GivesBack(n, DrainedOf(n)),
               main'.drained = Undrained(n)
        PROVE  Passes /\ Distinct'
    BY <2>1, <2>3, WorkBackPasses
  <2> QED BY <1>3, <2>2, <2>3, RequeueWorkEffect DEF MainIs
<1>4. CASE CloseConsumers
  <2>1. UNCHANGED <<job, thread, workQueue, main.drained>>
    BY <1>4, CloseConsumersEffect DEF CloseConsumers, work, MainAt, MainIs
  <2>2. CASE UNCHANGED <<store, failures, consumer>>
    BY <2>1, <2>2, IdleStays
  <2>3. ASSUME NEW n \in QueueNames, Empties(n, consumer[n].pc),
               GivesBack(n, consumer[n].delayQ)
        PROVE  Passes /\ Distinct'
    BY <2>1, <2>3, GivesBackPasses
  <2> QED BY <1>4, <2>2, <2>3, CloseConsumersEffect
<1> QED BY <1>1, <1>2, <1>3, <1>4, DrainPasses DEF MainStep, PauseStep, StopStep

LEMMA SendPasses ==
  ASSUME Typed, Distinct, NEW j \in Jobs, NEW n \in QueueNames, Send(j, n)
  PROVE  Passes /\ Distinct'
<1>1. Adds(n, j) /\ HasFresh
  BY SendEffect DEF Typed
<1>2. UNCHANGED <<consumer, thread, workQueue, main.drained>>
  BY DEF Send
<1>3. \A m \in QueueNames, id \in Ids, r \in Places : In(m, r, id)' => In(m, r, id)
  BY <1>2 DEF In
<1>4. Passes
  BY <1>1, <1>3, AddedPasses
<1>5. \A m \in QueueNames : IsInjective(store'.list[m])
  BY <1>1, AddedLists DEF Distinct, Typed
<1> QED BY <1>2, <1>4, <1>5, DistinctSame

(* Where the messages are, in every reachable state.                       *)
Placed == Typed /\ Custody /\ Distinct

LEMMA PlacedStep ==
  ASSUME Placed, [Next]_vars
  PROVE  Placed' /\ Passes
<1> USE DEF Placed
<1>1. TypeOK' /\ Stages'
  BY TypesStep
<1>2. Passes /\ Distinct'
  <2>1. CASE UNCHANGED vars
    BY <2>1, IdleStays DEF vars
  <2>2. CASE Next
    BY <2>2, SendPasses, ConsumerStepPasses, ThreadStepPasses, MainStepPasses DEF Next
  <2> QED BY <2>1, <2>2
<1>3. Known' /\ Custody'
  BY <1>1, <1>2, PassesKeeps DEF Typed
<1> QED BY <1>1, <1>2, <1>3 DEF Typed
-----------------------------------------------------------------------------
(* Initially, no message is anywhere.                                      *)
LEMMA Starting ==
  ASSUME Init
  PROVE  /\ TypeOK /\ store = EmptyStore /\ workQueue = {} /\ failures = 0
         /\ main.drained = {}
         /\ \A n \in QueueNames :
              /\ consumer[n].pc \in {"new", "top"} /\ consumer[n].at = None
              /\ consumer[n].cache = <<>> /\ consumer[n].queued = {}
              /\ consumer[n].delayQ = {} /\ consumer[n].pending = 0
              /\ running[n] \/ consumer[n].pc = "new"
         /\ \A t \in Threads :
              /\ thread[t].pc \in {"new", "idle"} /\ thread[t].at = None
              /\ running[t] \/ thread[t].pc = "new"
<1> DEFINE q == CHOOSE n \in QueueNames : TRUE
<1>1. q \in QueueNames
  BY WorkerAssumption
<1> HIDE DEF q
<1> DEFINE mid == <<>>
<1>2. mid \in Seq(Ids)
  OBVIOUS
<1> HIDE DEF mid
<1>3. ASSUME NEW n \in QueueNames
      PROVE  /\ consumer[n] \in Consumer
             /\ consumer[n].pc \in {"new", "top"} /\ consumer[n].at = None
             /\ consumer[n].cache = mid /\ consumer[n].queued = {}
             /\ consumer[n].delayQ = {} /\ consumer[n].pending = 0
             /\ running[n] \/ consumer[n].pc = "new"
  <2> DEFINE new == [pc |-> "new", at |-> None, cache |-> mid, queued |-> {},
                     delayQ |-> {}, pending |-> 0, event |-> FALSE]
             top == [new EXCEPT !.pc = "top"]
  <2>1. consumer[n] = IF setup.early THEN new ELSE top
    BY DEF Init, NewConsumer, mid
  <2>2. running[n] = ~setup.early
    BY DEF Init, Children
  <2>3. /\ new \in Consumer /\ new.pc = "new" /\ new.at = None /\ new.cache = mid
        /\ new.queued = {} /\ new.delayQ = {} /\ new.pending = 0
    BY <1>2 DEF Consumer
  <2>4. /\ top \in Consumer /\ top.pc = "top" /\ top.at = None /\ top.cache = mid
        /\ top.queued = {} /\ top.delayQ = {} /\ top.pending = 0
    BY <1>2 DEF Consumer
  <2> HIDE DEF new, top
  <2> QED BY <2>1, <2>2, <2>3, <2>4
<1>4. ASSUME NEW t \in Threads
      PROVE  /\ thread[t] \in Thread
             /\ thread[t].pc \in {"new", "idle"} /\ thread[t].at = None
             /\ running[t] \/ thread[t].pc = "new"
  <2> DEFINE new == [pc |-> "new", at |-> None, queue |-> q, failed |-> FALSE,
                     event |-> FALSE]
             top == [new EXCEPT !.pc = "idle"]
  <2>1. thread[t] = IF setup.early THEN new ELSE top
    BY DEF Init, NewThread, q
  <2>2. running[t] = ~setup.early
    BY DEF Init, Children
  <2>3. new \in Thread /\ new.pc = "new" /\ new.at = None
    BY <1>1 DEF Thread
  <2>4. top \in Thread /\ top.pc = "idle" /\ top.at = None
    BY <1>1 DEF Thread
  <2> HIDE DEF new, top
  <2> QED BY <2>1, <2>2, <2>3, <2>4
<1>5. consumer \in [QueueNames -> Consumer] /\ thread \in [Threads -> Thread]
  <2>1. /\ \E f, g : consumer = [n \in QueueNames |-> IF setup.early THEN f ELSE g]
        /\ \E f, g : thread = [t \in Threads |-> IF setup.early THEN f ELSE g]
    BY DEF Init
  <2> QED BY <1>3, <1>4, <2>1
<1>6. store = EmptyStore /\ store \in Store
  BY TimesAssumption DEF Init, EmptyStore, Store, Never
<1>7. setup \in Setups /\ 0 \in 0 .. setup.failures /\ 0 \in 0 .. setup.retries
  <2>1. setup \in [queues : [Jobs -> SUBSET QueueNames], poison : SUBSET Jobs,
                   unknown : SUBSET Jobs, impatient : BOOLEAN, early : BOOLEAN,
                   retries : Nat, pauses : Nat, failures : Nat]
    BY WorkerAssumption DEF Init
  <2>2. setup.failures \in Nat /\ setup.retries \in Nat
    BY <2>1
  <2> QED BY <2>2 DEF Init
<1>8. main \in Main /\ main.drained = {}
  BY WorkerAssumption DEF Init, Main
<1>9. /\ job \in [Ids -> Jobs \cup {NoJob}] /\ finished \subseteq Jobs
      /\ retries \in [Jobs -> 0 .. setup.retries] /\ unretried \subseteq Jobs
      /\ workQueue \subseteq Ids \X QueueNames /\ paused \in [Children -> BOOLEAN]
  <2>1. job \in [Ids -> Jobs \cup {NoJob}]
    BY DEF Init
  <2>2. retries \in [Jobs -> 0 .. setup.retries]
    BY <1>7 DEF Init
  <2> QED BY <2>1, <2>2 DEF Init
<1>10. running \in [Children -> BOOLEAN]
  <2>1. setup.early \in BOOLEAN
    BY WorkerAssumption DEF Init
  <2> QED BY <2>1 DEF Init
<1>11. workQueue = {} /\ failures = 0
  BY DEF Init
<1>12. TypeOK
  BY <1>5, <1>6, <1>7, <1>8, <1>9, <1>10, <1>11 DEF TypeOK
<1> QED BY <1>3, <1>4, <1>6, <1>8, <1>11, <1>12 DEF mid

LEMMA NothingYet ==
  ASSUME Init
  PROVE  /\ \A n \in QueueNames, id \in Ids :
              /\ ~Listed(n, id) /\ id \notin store.msgs[n] /\ job[id] = NoJob
              /\ \A p \in Places : ~In(n, p, id)
         /\ \A n \in QueueNames : store.acks[Me][n] = {}
<1>1. store = EmptyStore /\ \A id \in Ids : job[id] = NoJob /\ id # None
  BY WorkerAssumption DEF Init
<1>2. \A n \in QueueNames : /\ store.list[n] = <<>> /\ store.msgs[n] = {}
                            /\ store.acks[Me][n] = {}
  BY <1>1, WorkerAssumption DEF EmptyStore
<1>3. \A n \in QueueNames, id \in Ids, p \in Places : ~In(n, p, id)
  BY <1>1, Starting, EmptyFacts DEF In
<1> QED BY <1>1, <1>2, <1>3, EmptyFacts DEF Listed

LEMMA InitPlaced == Init => Placed
<1> SUFFICES ASSUME Init PROVE Placed
  OBVIOUS
<1>1. TypeOK
  BY Starting
<1>2. Stages
  <2>1. \A n \in QueueNames :
          /\ consumer[n].pc \in {"new", "top"} /\ consumer[n].at = None
          /\ Cardinality(consumer[n].delayQ) = 0 /\ consumer[n].pending = 0
    BY Starting, FS_EmptySet
  <2>2. \A n \in QueueNames : Copying(consumer[n]) = 0
    BY <2>1 DEF Copying
  <2>3. \A t \in Threads : thread[t].pc \in {"new", "idle"} /\ thread[t].at = None
    BY Starting
  <2> QED BY <2>1, <2>2, <2>3 DEF Stages
<1>3. Known /\ Custody
  BY NothingYet DEF Known, Custody
<1>4. Distinct
  <2>1. \A n \in QueueNames : store.list[n] = <<>> /\ consumer[n].cache = <<>>
    BY Starting DEF EmptyStore
  <2> QED BY <2>1, EmptyFacts DEF Distinct
<1> QED BY <1>1, <1>2, <1>3, <1>4 DEF Placed, Typed

(* Every message of a queue is in one place of the process at most, and
   not on the queue's list too; the caches and lists hold it once.         *)
THEOREM PlacedAlways == Spec => []Placed
<1>1. Placed /\ [Next]_vars => Placed'
  BY PlacedStep
<1> QED BY InitPlaced, <1>1, PTL DEF Spec

(* What is in a place is what the properties say is there.                 *)
LEMMA AtFacts ==
  ASSUME TypeOK, NEW n \in QueueNames, NEW p \in Places
  PROVE  At(n, p) = {id \in Ids : In(n, p, id)}
<1>1. /\ ToSet(consumer[n].cache) \subseteq Ids /\ consumer[n].delayQ \subseteq Ids
      /\ consumer[n].at \in Ids \cup {None} /\ None \notin Ids
  <2>1. consumer[n].cache \in Seq(Ids)
    BY ConsumerTypes
  <2>2. ToSet(consumer[n].cache) \subseteq Ids
    BY ONLY <2>1 DEF ToSet
  <2>3. consumer[n].delayQ \subseteq Ids /\ consumer[n].at \in Ids \cup {None}
    BY ConsumerTypes
  <2> QED BY <2>2, <2>3, WorkerAssumption
<1>2. CASE p \in Threads
  <2>1. thread[p].at \in Ids \cup {None}
    BY <1>2, ThreadTypes
  <2>2. At(n, p) = IF thread[p].queue = n THEN {thread[p].at} \ {None} ELSE {}
    BY <1>2, PlaceFacts DEF At
  <2>3. \A id \in Ids : In(n, p, id) <=> ((thread[p].queue = n) /\ (thread[p].at = id))
    BY <1>2, PlaceFacts DEF In
  <2> QED BY <1>1, <2>1, <2>2, <2>3
<1>3. CASE p = "cache"
  BY <1>1, <1>3, PlaceFacts DEF At, In
<1>4. CASE p = "hand"
  BY <1>1, <1>4, PlaceFacts DEF At, In
<1>5. CASE p = "delayQ"
  BY <1>1, <1>5, PlaceFacts DEF At, In
<1>6. CASE p = "workQueue"
  BY <1>6, PlaceFacts DEF At, In
<1>7. CASE p = "drained"
  BY <1>7, PlaceFacts DEF At, In
<1> QED BY <1>2, <1>3, <1>4, <1>5, <1>6, <1>7 DEF Places

(* A message the process holds is held in one place, and is not on the
   queue at the same time, where another worker would fetch it.            *)
THEOREM HeldInOnePlace == Spec => []HeldOnce
<1>1. Placed => HeldOnce
  <2> SUFFICES ASSUME Placed PROVE HeldOnce
    OBVIOUS
  <2>1. TypeOK
    BY DEF Placed, Typed
  <2>2. ASSUME NEW n \in QueueNames
        PROVE  /\ InHand(n) \cap ToSet(store.list[n]) = {}
               /\ \A p, r \in Places : p # r => At(n, p) \cap At(n, r) = {}
    BY <2>1, AtFacts DEF Placed, Custody, InHand, Listed
  <2> QED BY <2>1, <2>2 DEF HeldOnce
<1> QED BY <1>1, PlacedAlways, PTL
-----------------------------------------------------------------------------
(* Pausing.                                                                *)

(* A thread at pc that goes to pc2, its flags running and held: once it has
   signalled that it is paused, it stays where it checks whether it still is. *)
Calm(pc, event, pc2, event2, on, held, quiet) ==
  \/ pc2 = pc /\ event2 = event
  \/ pc # "new" /\ pc2 \in quiet /\ event2 \in {event, TRUE}
  \/ pc # "new" /\ event2 = event /\ (pc \notin quiet \/ ~held \/ ~on)
CalmConsumer(n) == Calm(consumer[n].pc, consumer[n].event, consumer'[n].pc,
                        consumer'[n].event, running[n], paused[n], {"top", "paused"})
CalmThread(t) == Calm(thread[t].pc, thread[t].event, thread'[t].pc, thread'[t].event,
                      running[t], paused[t], {"idle", "paused"})

LEMMA CalmStep ==
  ASSUME Quiet, \A n \in QueueNames : CalmConsumer(n), \A t \in Threads : CalmThread(t),
         UNCHANGED <<running, paused, main>>
  PROVE  Quiet'
<1>1. ASSUME NEW n \in QueueNames,
             main.pc \in {"up", "pausing"}
      PROVE  /\ QuietConsumer(n)'
             /\ consumer[n].event => consumer'[n].event
  BY <1>1 DEF Quiet, QuietConsumer, CalmConsumer, Calm
<1>2. ASSUME NEW t \in Threads, main.pc \in {"up", "pausing"}
      PROVE  /\ QuietThread(t)'
             /\ thread[t].event => thread'[t].event
  BY <1>2 DEF Quiet, QuietThread, CalmThread, Calm
<1>3. main.pc = "up" /\ Paused => AllPaused'
  BY <1>1, <1>2 DEF Quiet, AllPaused
<1>4. main.pc = "resuming" =>
        /\ \A n \in QueueNames : consumer'[n].pc # "new" => running'[n]
        /\ \A t \in Threads : thread'[t].pc # "new" => running'[t]
  BY DEF Quiet, CalmConsumer, CalmThread, Calm
<1>5. AllTold' = AllTold /\ Paused' = Paused
  BY DEF AllTold, Paused
<1> QED BY <1>1, <1>2, <1>3, <1>4, <1>5 DEF Quiet

LEMMA TurnCalms ==
  ASSUME NEW n \in QueueNames, NEW pc, NEW at, NEW cache, NEW queued,
         NEW delayQ, NEW pending, NEW event,
         Turns(n, pc, at, cache, queued, delayQ, pending, event),
         Calm(consumer[n].pc, consumer[n].event, pc, event, running[n], paused[n],
              {"top", "paused"})
  PROVE  \A m \in QueueNames : CalmConsumer(m)
<1>1. ASSUME NEW m \in QueueNames PROVE CalmConsumer(m)
  <2>1. CASE m = n
    BY <2>1 DEF Turns, CalmConsumer
  <2>2. CASE m # n
    BY <2>2 DEF Turns, CalmConsumer, Calm
  <2> QED BY <2>1, <2>2
<1> QED BY <1>1

(* Most steps start where no paused consumer is.                           *)
LEMMA TurnCalmsBusy ==
  ASSUME NEW n \in QueueNames, NEW pc, NEW at, NEW cache, NEW queued,
         NEW delayQ, NEW pending,
         Turns(n, pc, at, cache, queued, delayQ, pending, consumer[n].event),
         consumer[n].pc \notin {"new", "top", "paused"}
  PROVE  \A m \in QueueNames : CalmConsumer(m)
<1>1. Calm(consumer[n].pc, consumer[n].event, pc, consumer[n].event, running[n],
           paused[n], {"top", "paused"})
  BY DEF Calm
<1> QED BY <1>1, TurnCalms

LEMMA MoveCalms ==
  ASSUME NEW t \in Threads, NEW pc, NEW at, NEW queue, NEW failed, NEW event,
         Moves(t, pc, at, queue, failed, event),
         Calm(thread[t].pc, thread[t].event, pc, event, running[t], paused[t],
              {"idle", "paused"})
  PROVE  \A u \in Threads : CalmThread(u)
<1>1. ASSUME NEW u \in Threads PROVE CalmThread(u)
  <2>1. CASE u = t
    BY <2>1 DEF Moves, CalmThread
  <2>2. CASE u # t
    BY <2>2 DEF Moves, CalmThread, Calm
  <2> QED BY <2>1, <2>2
<1> QED BY <1>1

LEMMA ConsumerStepQuiet ==
  ASSUME Typed, Quiet, NEW n \in QueueNames, ConsumerStep(n)
  PROVE  Quiet'
<1> USE DEF Typed
<1>1. CASE ConsumerStarts(n)
  <2>1. /\ Same(n, "top") /\ consumer[n].pc = "new"
        /\ UNCHANGED <<thread, paused, main>> /\ n \notin Threads
        /\ running' = [running EXCEPT ![n] = TRUE]
    BY <1>1, GotoEffect, WorkerAssumption DEF ConsumerStarts, Same
  <2>2. running \in [Children -> BOOLEAN]
    BY DEF TypeOK
  <2>3. /\ \A m \in QueueNames : running'[m] = (running[m] \/ m = n)
        /\ \A t \in Threads : running'[t] = running[t]
    <3>1. running'[n] = TRUE /\ \A c \in Children : c # n => running'[c] = running[c]
      BY <2>1, <2>2 DEF Children
    <3>2. \A m \in QueueNames : m # n => running'[m] = (running[m] \/ m = n)
      BY <2>2, <3>1 DEF Children
    <3> QED BY <2>1, <3>1, <3>2 DEF Children
  <2>4. ASSUME NEW m \in QueueNames
        PROVE  /\ consumer'[m].event = consumer[m].event
               /\ consumer'[m].pc = IF m = n THEN "top" ELSE consumer[m].pc
    <3>1. CASE m = n
      BY <2>1, <3>1 DEF Same, Turns
    <3>2. CASE m # n
      BY <2>1, <3>2 DEF Same, Turns
    <3> QED BY <3>1, <3>2
  <2>5. AllPaused => AllPaused'
    BY <2>1, <2>4 DEF AllPaused
  <2>6. AllTold' = AllTold /\ Paused' = Paused
    BY <2>1 DEF AllTold, Paused
  <2>7. \A m \in QueueNames : QuietConsumer(m) => QuietConsumer(m)'
    BY <2>1, <2>3, <2>4 DEF QuietConsumer
  <2>8. \A t \in Threads : QuietThread(t) => QuietThread(t)'
    BY <2>1, <2>3 DEF QuietThread
  <2>9. main.pc = "resuming" =>
          /\ \A m \in QueueNames : consumer'[m].pc # "new" => running'[m]
          /\ \A t \in Threads : thread'[t].pc # "new" => running'[t]
    <3>1. main.pc = "resuming" =>
            /\ \A m \in QueueNames : consumer[m].pc # "new" => running[m]
            /\ \A t \in Threads : thread[t].pc # "new" => running[t]
      BY DEF Quiet
    <3> QED BY <2>1, <2>3, <2>4, <3>1
  <2>10. /\ \A c, d \in main'.toClear : c = d
         /\ main'.pc = "pausing" \/ Paused' => main'.pauses > 0
         /\ main'.pc = "pausing" => \A c \in Children : paused'[c] <=> c \notin main'.toTell
         /\ main'.pc = "resuming" => \A c \in Children : paused'[c] => c \in main'.toTell
    BY <2>1, <2>6 DEF Quiet
  <2>11. main'.pc = "up" => /\ AllTold'
                            /\ Paused' => AllPaused' /\ \A c \in Children : paused'[c]
    BY <2>1, <2>5, <2>6 DEF Quiet
  <2>12. main'.pc \in {"up", "pausing"} => /\ \A m \in QueueNames : QuietConsumer(m)'
                                           /\ \A u \in Threads : QuietThread(u)'
    BY <2>1, <2>7, <2>8 DEF Quiet
  <2> QED BY <2>1, <2>9, <2>10, <2>11, <2>12 DEF Quiet
<1>2. CASE ~ConsumerStarts(n)
  <2>1. UNCHANGED <<running, paused, main>>
    BY <1>2 DEF ConsumerStep, ConsumerTop, ConsumerPaused, NextCached, NextFull, NextFetch,
                HandleMessage, RejectUnknown, DelayedDue, DelayedNone, CopyDelayed,
                AckCopied, ConsumerError, ConsumerRestart, ConsumerOnly
  <2>2. UNCHANGED thread
    BY <1>2 DEF ConsumerStep, ConsumerTop, ConsumerPaused, NextCached, NextFull, NextFetch,
                HandleMessage, RejectUnknown, DelayedDue, DelayedNone, CopyDelayed,
                AckCopied, ConsumerError, ConsumerRestart, ConsumerOnly
  <2>3. \A m \in QueueNames : CalmConsumer(m)
    <3>1. CASE ConsumerTop(n)
      <4>1. consumer[n].pc = "top"
        BY <3>1 DEF ConsumerTop
      <4>2. CASE ~running[n] /\ Same(n, "stopped")
        BY <4>1, <4>2, TurnCalms DEF Same, Calm
      <4>3. CASE Same(n, "paused")
        BY <4>1, <4>3, TurnCalms DEF Same, Calm
      <4>4. CASE /\ ~paused[n]
                 /\ Turns(n, "next", consumer[n].at, <<>>, {}, consumer[n].delayQ,
                          consumer[n].pending, consumer[n].event)
        BY <4>1, <4>4, TurnCalms DEF Calm
      <4> QED BY <3>1, <4>2, <4>3, <4>4, ConsumerTopEffect
    <3>2. CASE ConsumerPaused(n)
      <4>1. consumer[n].pc = "paused"
        BY <3>2 DEF ConsumerPaused
      <4> QED BY <3>2, <4>1, ConsumerPausedEffect, TurnCalms DEF Calm
    <3>3. CASE NextCached(n)
      <4>1. consumer[n].pc = "next"
        BY <3>3 DEF NextCached
      <4> QED BY <3>3, <4>1, NextCachedEffect, TurnCalmsBusy
    <3>4. CASE NextFull(n)
      <4>1. consumer[n].pc = "next" /\ \E pc : Same(n, pc)
        BY <3>4, GotoEffect DEF NextFull, AfterNone, Same
      <4> QED BY <4>1, TurnCalmsBusy DEF Same
    <3>5. CASE NextFetch(n)
      <4>1. consumer[n].pc = "next"
        BY <3>5 DEF NextFetch
      <4> QED BY <3>5, <4>1, NextFetchEffect, TurnCalmsBusy
    <3>6. CASE HandleMessage(n)
      <4>1. consumer[n].pc = "handle"
        BY <3>6 DEF HandleMessage
      <4> QED BY <3>6, <4>1, HandleEffect, TurnCalmsBusy DEF Same
    <3>7. CASE RejectUnknown(n)
      <4>1. consumer[n].pc = "reject"
        BY <3>7 DEF RejectUnknown
      <4> QED BY <3>7, <4>1, RejectEffect, TurnCalmsBusy
    <3>8. CASE DelayedDue(n)
      <4>1. consumer[n].pc = "delayed"
        BY <3>8 DEF DelayedDue
      <4> QED BY <3>8, <4>1, DueEffect, TurnCalmsBusy
    <3>9. CASE DelayedNone(n)
      <4>1. consumer[n].pc = "delayed" /\ \E pc : Same(n, pc)
        BY <3>9, GotoEffect DEF DelayedNone, Same
      <4> QED BY <4>1, TurnCalmsBusy DEF Same
    <3>10. CASE CopyDelayed(n)
      <4>1. consumer[n].pc = "copy"
        BY <3>10 DEF CopyDelayed
      <4> QED BY <3>10, <4>1, CopyEffect, TurnCalmsBusy DEF Same
    <3>11. CASE AckCopied(n)
      <4>1. consumer[n].pc = "ackcopy"
        BY <3>11 DEF AckCopied
      <4> QED BY <3>11, <4>1, AckEffect, TurnCalmsBusy
    <3>12. CASE ConsumerError(n)
      <4>1. consumer[n].pc = "error"
        BY <3>12 DEF ConsumerError
      <4> QED BY <3>12, <4>1, ErrorEffect, TurnCalmsBusy DEF Empties
    <3>13. CASE ConsumerRestart(n)
      <4>1. consumer[n].pc = "restart"
        BY <3>13 DEF ConsumerRestart
      <4> QED BY <3>13, <4>1, RestartEffect, TurnCalmsBusy DEF Empties, Same
    <3> QED BY <1>2, <3>1, <3>2, <3>3, <3>4, <3>5, <3>6, <3>7, <3>8, <3>9, <3>10, <3>11,
               <3>12, <3>13 DEF ConsumerStep
  <2>4. \A t \in Threads : CalmThread(t)
    BY <2>2 DEF CalmThread, Calm
  <2> QED BY <2>1, <2>3, <2>4, CalmStep
<1> QED BY <1>1, <1>2
LEMMA ThreadStepQuiet ==
  ASSUME Typed, Quiet, NEW t \in Threads, ThreadStep(t)
  PROVE  Quiet'
<1> USE DEF Typed
<1>1. CASE ThreadStarts(t)
  <2>1. /\ Still(t, "idle") /\ thread[t].pc = "new" /\ t \notin QueueNames
        /\ UNCHANGED <<consumer, paused, main>>
        /\ running' = [running EXCEPT ![t] = TRUE]
    BY <1>1, StillEffect, WorkerAssumption DEF ThreadStarts
  <2>2. running \in [Children -> BOOLEAN]
    BY DEF TypeOK
  <2>3. /\ \A u \in Threads : running'[u] = (running[u] \/ u = t)
        /\ \A n \in QueueNames : running'[n] = running[n]
    <3>1. running'[t] = TRUE /\ \A c \in Children : c # t => running'[c] = running[c]
      BY <2>1, <2>2 DEF Children
    <3>2. \A u \in Threads : u # t => running'[u] = (running[u] \/ u = t)
      BY <2>2, <3>1 DEF Children
    <3> QED BY <2>1, <3>1, <3>2 DEF Children
  <2>4. ASSUME NEW u \in Threads
        PROVE  /\ thread'[u].event = thread[u].event
               /\ thread'[u].pc = IF u = t THEN "idle" ELSE thread[u].pc
    <3>1. CASE u = t
      BY <2>1, <3>1 DEF Still, Moves
    <3>2. CASE u # t
      BY <2>1, <3>2 DEF Still, Moves
    <3> QED BY <3>1, <3>2
  <2>5. AllPaused => AllPaused'
    BY <2>1, <2>4 DEF AllPaused
  <2>6. AllTold' = AllTold /\ Paused' = Paused
    BY <2>1 DEF AllTold, Paused
  <2>7. \A u \in Threads : QuietThread(u) => QuietThread(u)'
    BY <2>1, <2>3, <2>4 DEF QuietThread
  <2>8. \A n \in QueueNames : QuietConsumer(n) => QuietConsumer(n)'
    BY <2>1, <2>3 DEF QuietConsumer
  <2>9. main.pc = "resuming" =>
          /\ \A n \in QueueNames : consumer'[n].pc # "new" => running'[n]
          /\ \A u \in Threads : thread'[u].pc # "new" => running'[u]
    <3>1. main.pc = "resuming" =>
            /\ \A n \in QueueNames : consumer[n].pc # "new" => running[n]
            /\ \A u \in Threads : thread[u].pc # "new" => running[u]
      BY DEF Quiet
    <3> QED BY <2>1, <2>3, <2>4, <3>1
  <2>10. /\ \A c, d \in main'.toClear : c = d
         /\ main'.pc = "pausing" \/ Paused' => main'.pauses > 0
         /\ main'.pc = "pausing" => \A c \in Children : paused'[c] <=> c \notin main'.toTell
         /\ main'.pc = "resuming" => \A c \in Children : paused'[c] => c \in main'.toTell
    BY <2>1, <2>6 DEF Quiet
  <2>11. main'.pc = "up" => /\ AllTold'
                            /\ Paused' => AllPaused' /\ \A c \in Children : paused'[c]
    BY <2>1, <2>5, <2>6 DEF Quiet
  <2>12. main'.pc \in {"up", "pausing"} => /\ \A m \in QueueNames : QuietConsumer(m)'
                                           /\ \A u \in Threads : QuietThread(u)'
    BY <2>1, <2>7, <2>8 DEF Quiet
  <2> QED BY <2>1, <2>9, <2>10, <2>11, <2>12 DEF Quiet
<1>2. CASE \/ ThreadTop(t) \/ ThreadGet(t) \/ ThreadPaused(t)
           \/ Finish(t) \/ RetryLater(t)
  <2>1. UNCHANGED <<running, paused, main, consumer>>
    BY <1>2 DEF ThreadTop, ThreadGet, ThreadPaused, Finish, RetryLater, ThreadOnly
  <2>2. \A u \in Threads : CalmThread(u)
    <3>1. CASE ThreadTop(t)
      <4>1. thread[t].pc = "idle"
        BY <3>1 DEF ThreadTop
      <4>2. CASE ~running[t] /\ Still(t, "stopped")
        BY <4>1, <4>2, MoveCalms DEF Still, Calm
      <4>3. CASE Still(t, "paused")
        BY <4>1, <4>3, MoveCalms DEF Still, Calm
      <4>4. CASE ~paused[t] /\ Still(t, "get")
        BY <4>1, <4>4, MoveCalms DEF Still, Calm
      <4> QED BY <3>1, <4>2, <4>3, <4>4, ThreadTopEffect
    <3>2. CASE ThreadPaused(t)
      <4>1. thread[t].pc = "paused"
        BY <3>2 DEF ThreadPaused
      <4> QED BY <3>2, <4>1, ThreadPausedEffect, MoveCalms DEF Calm
    <3>3. CASE Finish(t)
      <4>1. thread[t].pc = "run"
        BY <3>3 DEF Finish
      <4> QED BY <3>3, <4>1, FinishEffect, MoveCalms DEF Calm
    <3>4. CASE RetryLater(t)
      <4>1. thread[t].pc = "run"
        BY <3>4 DEF RetryLater
      <4> QED BY <3>4, <4>1, RetryEffect, MoveCalms DEF Calm
    <3>5. CASE ThreadGet(t)
      <4>1. thread[t].pc = "get"
        BY <3>5 DEF ThreadGet
      <4>2. CASE Still(t, "idle")
        BY <4>1, <4>2, MoveCalms DEF Still, Calm
      <4>3. ASSUME NEW id \in Ids, NEW n \in QueueNames, Takes(t, id, n)
            PROVE  \A u \in Threads : CalmThread(u)
        BY <4>1, <4>3, MoveCalms DEF Takes, Calm
      <4> QED BY <3>5, <4>2, <4>3, ThreadGetEffect
    <3> QED BY <1>2, <3>1, <3>2, <3>3, <3>4, <3>5
  <2>3. \A n \in QueueNames : CalmConsumer(n)
    BY <2>1 DEF CalmConsumer, Calm
  <2> QED BY <2>1, <2>2, <2>3, CalmStep
<1>3. CASE PostProcess(t)
  <2> DEFINE n == thread[t].queue
             id == thread[t].at
  <2>1. thread[t].pc = "post" /\ UNCHANGED <<running, paused, main>>
    BY <1>3 DEF PostProcess
  <2>2. /\ n \in QueueNames
        /\ Turns(n, consumer[n].pc, consumer[n].at, consumer[n].cache,
                 consumer[n].queued \ {job[id]}, consumer[n].delayQ,
                 consumer[n].pending, consumer[n].event)
        /\ UNCHANGED thread \/ Moves(t, "idle", None, n, FALSE, thread[t].event)
    BY <1>3, PostProcessEffect
  <2>3. \A m \in QueueNames : CalmConsumer(m)
    BY <2>2, TurnCalms DEF Calm
  <2>4. \A u \in Threads : CalmThread(u)
    <3>1. CASE UNCHANGED thread
      BY <3>1 DEF CalmThread, Calm
    <3>2. CASE Moves(t, "idle", None, n, FALSE, thread[t].event)
      BY <2>1, <3>2, MoveCalms DEF Calm
    <3> QED BY <2>2, <3>1, <3>2
  <2> QED BY <2>1, <2>3, <2>4, CalmStep
<1> QED BY <1>1, <1>2, <1>3 DEF ThreadStep

LEMMA MainStepQuiet ==
  ASSUME Typed, Quiet, MainStep
  PROVE  Quiet'
<1> USE DEF Typed
<1>0. main.pauses \in Nat /\ Threads \cap QueueNames = {}
  BY MainTypes, WorkerAssumption
<1>1. CASE Pause
  <2>1. /\ main'.pc = "pausing" /\ main'.toTell = Children
        /\ main'.toClear = main.toClear /\ main'.pauses = main.pauses + 1
        /\ main.pc = "up" /\ ~Paused /\ UNCHANGED <<consumer, thread, running, paused>>
    BY <1>1, PauseEffect DEF Pause, MainIs, MainOnly
  <2>2. \A c \in Children : ~paused'[c]
    BY <2>1 DEF Paused
  <2>3. /\ \A n \in QueueNames : QuietConsumer(n)'
        /\ \A t \in Threads : QuietThread(t)'
    BY <2>1, <2>2 DEF Quiet, QuietConsumer, QuietThread, Children
  <2> QED BY <1>0, <2>1, <2>2, <2>3 DEF Quiet
<1>2. CASE Resume
  <2>1. /\ main'.pc = "resuming" /\ main'.toTell = Children /\ main'.pauses = main.pauses
        /\ main'.toClear = main.toClear
        /\ main.pc = "up" /\ Paused /\ UNCHANGED <<consumer, thread, running, paused>>
    BY <1>2, ResumeEffect DEF Resume, MainIs
  <2>2. /\ \A n \in QueueNames : consumer'[n].pc # "new" => running'[n]
        /\ \A t \in Threads : thread'[t].pc # "new" => running'[t]
    BY <2>1 DEF Quiet, QuietConsumer, QuietThread
  <2>3. main'.pauses > 0
    BY <2>1 DEF Quiet
  <2> QED BY <2>1, <2>2, <2>3 DEF Quiet
<1>3. ASSUME NEW c \in Children, TellChild(c) PROVE Quiet'
  <2>1. /\ main'.pc = main.pc /\ main'.toTell = main.toTell \ {c}
        /\ main'.toClear = {c} /\ main'.pauses = main.pauses
        /\ main.pc \in {"pausing", "resuming"}
        /\ UNCHANGED <<consumer, thread, running>>
    BY <1>3, TellEffect DEF TellChild, MainIs
  <2>2. /\ paused'[c] = (main.pc = "pausing")
        /\ \A d \in Children \ {c} : paused'[d] = paused[d]
        /\ main.toClear = {}
    BY <1>3, TellEffect DEF TellChild
  <2>3. main.pc = "pausing" => /\ \A n \in QueueNames : QuietConsumer(n)'
                               /\ \A t \in Threads : QuietThread(t)'
    BY <2>1, <2>2 DEF Quiet, QuietConsumer, QuietThread, Children
  <2>4. main.pc = "resuming" =>
          /\ \A n \in QueueNames : consumer'[n].pc # "new" => running'[n]
          /\ \A t \in Threads : thread'[t].pc # "new" => running'[t]
    BY <2>1 DEF Quiet
  <2>5. /\ main.pc = "pausing" => \A d \in Children : paused'[d] <=> d \notin main'.toTell
        /\ main.pc = "resuming" => \A d \in Children : paused'[d] => d \in main'.toTell
    <3>1. /\ main.pc = "pausing" => \A d \in Children : paused[d] <=> d \notin main.toTell
          /\ main.pc = "resuming" => \A d \in Children : paused[d] => d \in main.toTell
      BY DEF Quiet
    <3>2. main'.toTell = main.toTell \ {c}
      BY <2>1
    <3>3. ASSUME NEW d \in Children
          PROVE  /\ main.pc = "pausing" => (paused'[d] <=> d \notin main'.toTell)
                 /\ main.pc = "resuming" => (paused'[d] => d \in main'.toTell)
      <4>1. CASE d = c
        BY <2>2, <3>2, <4>1
      <4>2. CASE d # c
        <5>1. paused'[d] = paused[d]
          BY <2>2, <4>2
        <5> QED BY <3>1, <3>2, <4>2, <5>1
      <4> QED BY <4>1, <4>2
    <3> QED BY <3>3
  <2>6. main'.pc = "pausing" \/ Paused' => main'.pauses > 0
    <3>1. CASE main.pc = "pausing"
      BY <2>1, <3>1 DEF Quiet
    <3>2. CASE main.pc = "resuming"
      <4>1. \A d \in Children : paused'[d] => paused[d]
        BY <2>2, <3>2
      <4>2. Paused' => Paused
        BY <4>1 DEF Paused
      <4>3. main'.pc # "pausing" /\ main'.pauses = main.pauses
        BY <2>1, <3>2
      <4> QED BY <4>2, <4>3 DEF Quiet
    <3> QED BY <2>1, <3>1, <3>2
  <2> QED BY <2>1, <2>3, <2>4, <2>5, <2>6 DEF Quiet
<1>4. ASSUME NEW c \in Children, ClearEvent(c) PROVE Quiet'
  <2>1. /\ main'.pc = main.pc /\ main'.toTell = main.toTell /\ main'.toClear = {}
        /\ main'.pauses = main.pauses /\ Cleared(c) /\ c \in main.toClear
        /\ UNCHANGED <<running, paused>>
    BY <1>4, ClearEffect DEF ClearEvent, MainIs
  <2>2. main.pc # "up"
    BY <2>1 DEF Quiet, AllTold
  <2>3. \A d \in main.toClear : d = c
    BY <2>1 DEF Quiet
  <2>4. main.pc = "pausing" => /\ \A n \in QueueNames : QuietConsumer(n)'
                               /\ \A t \in Threads : QuietThread(t)'
    <3>1. ASSUME NEW n \in QueueNames, QuietConsumer(n) PROVE QuietConsumer(n)'
      <4>1. /\ consumer'[n].pc = consumer[n].pc
            /\ consumer'[n].event = (consumer[n].event /\ n # c)
        BY <2>1 DEF Cleared
      <4> QED BY <2>1, <2>3, <3>1, <4>1 DEF QuietConsumer
    <3>2. ASSUME NEW t \in Threads, QuietThread(t) PROVE QuietThread(t)'
      <4>1. /\ thread'[t].pc = thread[t].pc
            /\ thread'[t].event = (thread[t].event /\ t # c)
        BY <2>1 DEF Cleared
      <4> QED BY <2>1, <2>3, <3>2, <4>1 DEF QuietThread
    <3> QED BY <3>1, <3>2 DEF Quiet
  <2>5. main.pc = "resuming" =>
          /\ \A n \in QueueNames : consumer'[n].pc # "new" => running'[n]
          /\ \A t \in Threads : thread'[t].pc # "new" => running'[t]
    BY <2>1 DEF Quiet, Cleared
  <2>6. Paused' = Paused
    BY <2>1 DEF Paused
  <2> QED BY <2>1, <2>2, <2>4, <2>5, <2>6 DEF Quiet
<1>5. CASE PauseReturns
  <2>1. /\ main'.pc = "up" /\ main'.pauses = main.pauses /\ main.pc = "pausing"
        /\ main'.toTell = main.toTell /\ main'.toClear = main.toClear
        /\ AllPaused /\ AllTold /\ UNCHANGED <<consumer, thread, running, paused>>
    BY <1>5, MainAtEffect DEF PauseReturns, MainAt, MainIs
  <2>2. \A c \in Children : paused'[c]
    BY <2>1 DEF Quiet, AllTold
  <2>3. /\ \A n \in QueueNames : QuietConsumer(n)'
        /\ \A t \in Threads : QuietThread(t)'
    BY <2>1 DEF Quiet, QuietConsumer, QuietThread
  <2>4. AllPaused' /\ AllTold' /\ Paused' = Paused
    BY <2>1 DEF AllPaused, AllTold, Paused
  <2> QED BY <2>1, <2>2, <2>3, <2>4 DEF Quiet
<1>6. CASE ResumeReturns
  <2>1. /\ main'.pc = "up" /\ main'.pauses = main.pauses /\ main.pc = "resuming"
        /\ main'.toTell = main.toTell /\ main'.toClear = main.toClear
        /\ AllTold /\ UNCHANGED <<consumer, thread, running, paused>>
    BY <1>6, MainAtEffect DEF ResumeReturns, MainAt, MainIs
  <2>2. \A c \in Children : ~paused'[c]
    BY <2>1 DEF Quiet, AllTold
  <2>3. /\ \A n \in QueueNames : QuietConsumer(n)'
        /\ \A t \in Threads : QuietThread(t)'
    BY <2>1, <2>2 DEF Quiet, QuietConsumer, QuietThread, Children
  <2>4. AllTold' /\ ~Paused'
    BY <2>1, <2>2 DEF AllTold, Paused
  <2> QED BY <2>1, <2>3, <2>4 DEF Quiet
<1>7. CASE \/ Stop \/ WorkersJoined \/ ConsumersJoined \/ DrainWork
           \/ RequeueWork \/ CloseConsumers \/ \E c \in Children : StopChild(c)
  <2>1. /\ main'.pc \notin {"up", "pausing", "resuming"} /\ main'.pauses = main.pauses
        /\ main'.toClear = main.toClear /\ UNCHANGED paused
    <3>1. CASE Stop
      BY <3>1, StopEffect DEF Stop, MainIs
    <3>2. CASE WorkersJoined
      BY <3>2, WorkersJoinedEffect DEF WorkersJoined, MainIs
    <3>3. CASE ConsumersJoined
      BY <3>3, ConsumersJoinedEffect DEF ConsumersJoined, MainIs
    <3>4. CASE DrainWork
      BY <3>4, DrainEffect DEF DrainWork, MainIs, MainAt
    <3>5. CASE RequeueWork
      BY <3>5, RequeueWorkEffect DEF RequeueWork, MainIs
    <3>6. CASE CloseConsumers
      BY <3>6, CloseConsumersEffect DEF CloseConsumers, MainIs, MainAt
    <3>7. ASSUME NEW c \in Children, StopChild(c)
          PROVE  /\ main'.pc \notin {"up", "pausing", "resuming"}
                 /\ main'.pauses = main.pauses
                 /\ main'.toClear = main.toClear /\ UNCHANGED paused
      BY <3>7, StopChildEffect DEF StopChild, MainIs
    <3> QED BY <1>7, <3>1, <3>2, <3>3, <3>4, <3>5, <3>6, <3>7
  <2> QED BY <2>1 DEF Quiet, Paused
<1> QED BY <1>1, <1>2, <1>3, <1>4, <1>5, <1>6, <1>7 DEF MainStep, PauseStep, StopStep

LEMMA QuietStep ==
  ASSUME Placed, Quiet, [Next]_vars
  PROVE  Quiet'
<1>1. CASE UNCHANGED vars
  <2>1. UNCHANGED <<consumer, thread, running, paused, main>>
    BY <1>1 DEF vars
  <2>2. /\ \A n \in QueueNames : CalmConsumer(n)
        /\ \A t \in Threads : CalmThread(t)
    BY <2>1 DEF CalmConsumer, CalmThread, Calm
  <2> QED BY <2>1, <2>2, CalmStep
<1>2. ASSUME NEW j \in Jobs, NEW n \in QueueNames, Send(j, n) PROVE Quiet'
  <2>1. UNCHANGED <<consumer, thread, running, paused, main>>
    BY <1>2 DEF Send
  <2>2. /\ \A m \in QueueNames : CalmConsumer(m)
        /\ \A t \in Threads : CalmThread(t)
    BY <2>1 DEF CalmConsumer, CalmThread, Calm
  <2> QED BY <2>1, <2>2, CalmStep
<1> QED BY <1>1, <1>2, ConsumerStepQuiet, ThreadStepQuiet, MainStepQuiet DEF Next, Placed

(* After pause() returned and until resume(), no thread processes anything
   and no consumer talks to the server: a flag that is set is that of a
   thread which is at the check of the pause, and stays there.             *)
THEOREM PausedQuiet == Spec => []PausedIsQuiet
<1>1. Init => Quiet
  <2> SUFFICES ASSUME Init PROVE Quiet
    OBVIOUS
  <2>1. ~Paused /\ main.pc = "up" /\ AllTold /\ main.toClear = {}
    BY DEF Init, Paused, AllTold
  <2>2. /\ \A n \in QueueNames : QuietConsumer(n)
        /\ \A t \in Threads : QuietThread(t)
    BY <2>1, Starting DEF QuietConsumer, QuietThread, Paused, Children
  <2> QED BY <2>1, <2>2 DEF Quiet
<1>2. Placed /\ Quiet /\ [Next]_vars => Quiet'
  BY QuietStep
<1>3. Quiet => PausedIsQuiet
  BY DEF Quiet, QuietConsumer, QuietThread, AllPaused, AllTold, Children, PausedIsQuiet
<1> QED BY PlacedAlways, <1>1, <1>2, <1>3, PTL DEF Spec
-----------------------------------------------------------------------------
(* No job is lost.                                                         *)

(* After the step, job j is carried by a message that is not to be acked.  *)
CarriedNow(j) ==
  \E id \in Ids, n \in QueueNames : job'[id] = j /\ id \in store'.msgs[n] /\ ~Doomed(id)'
Safe(id) == job[id] \in Over' \/ CarriedNow(job[id])
Grows == /\ \A id \in Ids : job[id] \in Jobs => job'[id] = job[id]
         /\ finished \subseteq finished' /\ unretried \subseteq unretried'

LEMMA AliveStep ==
  ASSUME Typed, Alive, Grows,
         \A id \in Ids : Doomed(id)' => Doomed(id) \/ Safe(id),
         \A id \in Ids, m \in QueueNames :
           id \in store.msgs[m] => id \in store'.msgs[m] \/ Doomed(id) \/ Safe(id),
         \A id \in Ids : job'[id] = job[id] \/ CarriedNow(job'[id]),
         \A m \in QueueNames : consumer'[m].pc = "reject" =>
           \/ consumer[m].pc = "reject" /\ consumer'[m].at = consumer[m].at
           \/ job'[consumer'[m].at] \in Over'
  PROVE  Alive'
<1>1. /\ job \in [Ids -> Jobs \cup {NoJob}] /\ NoJob \notin Jobs
      /\ finished \subseteq Jobs /\ unretried \subseteq Jobs
  BY JobTypes DEF Typed
<1>2. Over \subseteq Over' /\ Over \subseteq Jobs
  BY <1>1 DEF Over, Grows
<1>3. ASSUME NEW id \in Ids, job'[id] = job[id]
      PROVE  job'[id] \in Over' \cup {NoJob} \/ CarriedNow(job'[id])
  <2>1. CASE job[id] \in Over \cup {NoJob}
    BY <1>2, <1>3, <2>1
  <2>2. CASE job[id] \notin Over \cup {NoJob}
    <3>1. PICK i \in Ids, m \in QueueNames :
            job[i] = job[id] /\ i \in store.msgs[m] /\ ~Doomed(i)
      BY <2>2 DEF Alive, Carried
    <3>2. job[i] \in Jobs /\ job'[i] = job[i]
      BY <1>1, <2>2, <3>1 DEF Grows
    <3>3. (i \in store'.msgs[m] /\ ~Doomed(i)') \/ Safe(i)
      BY <3>1
    <3>4. CASE Safe(i)
      BY <1>3, <3>1, <3>4 DEF Safe
    <3>5. CASE i \in store'.msgs[m] /\ ~Doomed(i)'
      BY <1>3, <3>1, <3>2, <3>5 DEF CarriedNow
    <3> QED BY <3>3, <3>4, <3>5
  <2> QED BY <2>1, <2>2
<1>4. \A id \in Ids : job'[id] \in Over' \cup {NoJob} \/ CarriedNow(job'[id])
  BY <1>3
<1>5. ASSUME NEW m \in QueueNames, consumer'[m].pc = "reject"
      PROVE  job'[consumer'[m].at] \in Over'
  <2>1. CASE consumer[m].pc = "reject" /\ consumer'[m].at = consumer[m].at
    <3>1. consumer[m].at \in Ids
      BY <2>1, InHandFacts DEF Typed
    <3>2. job[consumer[m].at] \in Over
      BY <2>1 DEF Alive
    <3> QED BY <1>2, <2>1, <3>1, <3>2 DEF Grows
  <2> QED BY <1>5, <2>1
<1> QED BY <1>4, <1>5 DEF Alive, Carried, CarriedNow

(* What is about to be acked after a consumer or a thread has moved.       *)
LEMMA DoomedTurn ==
  ASSUME NEW n \in QueueNames, NEW pc, NEW at, NEW cache, NEW queued,
         NEW delayQ, NEW pending, NEW event,
         Turns(n, pc, at, cache, queued, delayQ, pending, event), UNCHANGED thread
  PROVE  /\ \A id \in Ids : Doomed(id)' => Doomed(id) \/ (pc = "ackcopy" /\ at = id)
         /\ \A m \in QueueNames : consumer'[m].pc = "reject" =>
              \/ consumer[m].pc = "reject" /\ consumer'[m].at = consumer[m].at
              \/ pc = "reject" /\ consumer'[m].at = at
<1>1. /\ \A m \in QueueNames \ {n} : consumer'[m] = consumer[m]
      /\ consumer'[n].pc = pc /\ consumer'[n].at = at
  BY DEF Turns
<1> QED BY <1>1 DEF Doomed

LEMMA DoomedMove ==
  ASSUME NEW t \in Threads, NEW pc, NEW at, NEW queue, NEW failed, NEW event,
         Moves(t, pc, at, queue, failed, event), UNCHANGED consumer
  PROVE  \A id \in Ids : Doomed(id)' => Doomed(id) \/ (pc = "post" /\ at = id)
<1>1. /\ \A u \in Threads \ {t} : thread'[u] = thread[u]
      /\ thread'[t].pc = pc /\ thread'[t].at = at
  BY DEF Moves
<1> QED BY <1>1 DEF Doomed

(* A message that carries no job is not about to be acked.                 *)
LEMMA DoomedFacts ==
  ASSUME Typed, NEW id \in Ids, Doomed(id)
  PROVE  job[id] \in Jobs
<1>1. \E n \in QueueNames, p \in Places : In(n, p, id)
  <2>1. ASSUME NEW n \in QueueNames, consumer[n].at = id
        PROVE  In(n, "hand", id)
    BY <2>1 DEF In
  <2>2. ASSUME NEW t \in Threads, thread[t].at = id
        PROVE  In(thread[t].queue, t, id) /\ thread[t].queue \in QueueNames
    BY <2>2, ThreadTypes DEF In, Typed
  <2> QED BY <2>1, <2>2, PlaceFacts DEF Doomed
<1> QED BY <1>1 DEF Typed, Known

LEMMA SettledKeeps ==
  ASSUME NEW n \in QueueNames, NEW id \in Ids, PostEffect(n, id)
  PROVE  \A i \in Ids, m \in QueueNames :
           i \in store.msgs[m] => i \in store'.msgs[m] \/ i = id
<1>1. CASE store' = store
  BY <1>1
<1>2. ASSUME Settled(store, store', Me, n, id), NEW i \in Ids, NEW m \in QueueNames,
             i \in store.msgs[m], i # id
      PROVE  i \in store'.msgs[m]
  BY <1>2 DEF Settled, Frames
<1> QED BY <1>1, <1>2 DEF PostEffect

(* A message that was added is a carrier of its job.                       *)
LEMMA AddedFacts ==
  ASSUME Typed, HasFresh, NEW q \in QueueNames, NEW j \in Jobs, Adds(q, j) \/ Leaves
  PROVE  /\ Fresh \in Ids /\ ~Doomed(Fresh) /\ job[Fresh] \notin Jobs
         /\ \A id \in Ids : \/ job'[id] = job[id]
                            \/ id = Fresh /\ job'[id] = j
         /\ \A m \in QueueNames : store.msgs[m] \subseteq store'.msgs[m]
         /\ Adds(q, j) => Fresh \in store'.msgs[q] /\ job'[Fresh] = j
<1>1. Fresh \in Ids /\ job[Fresh] = NoJob /\ NoJob \notin Jobs
  BY FreshFacts DEF Typed
<1>2. \A x \in Ids : Doomed(x) => job[x] \in Jobs
  BY DoomedFacts
<1>3. ~Doomed(Fresh)
  BY <1>1, <1>2
<1>4. job \in [Ids -> Jobs \cup {NoJob}]
  BY JobTypes DEF Typed
<1>5. CASE Adds(q, j)
  <2>1. \A m \in QueueNames \ {q} : store'.msgs[m] = store.msgs[m]
    BY <1>5 DEF Adds, Joined, Frames
  <2>2. store'.msgs[q] = store.msgs[q] \cup {Fresh}
    BY <1>5 DEF Adds, Joined
  <2>3. job' = [job EXCEPT ![Fresh] = j]
    BY <1>5 DEF Adds
  <2>4. \A m \in QueueNames : store.msgs[m] \subseteq store'.msgs[m]
    BY <2>1, <2>2
  <2>5. \A id \in Ids : job'[id] = IF id = Fresh THEN j ELSE job[id]
    BY <1>4, <2>3
  <2> QED BY <1>1, <1>3, <2>2, <2>4, <2>5
<1>6. CASE Leaves
  <2>1. Adds(q, j) => FALSE
    <3>1. Adds(q, j) => job'[Fresh] = j
      BY <1>1, <1>4 DEF Adds
    <3> QED BY <1>1, <1>6, <3>1 DEF Leaves
  <2> QED BY <1>1, <1>3, <1>6, <2>1 DEF Leaves
<1> QED BY <1>5, <1>6

LEMMA AliveTurn ==
  ASSUME Typed, Alive, NEW n \in QueueNames, NEW pc, NEW at, NEW cache, NEW queued,
         NEW delayQ, NEW pending, NEW event,
         Turns(n, pc, at, cache, queued, delayQ, pending, event),
         pc \in {"ackcopy", "reject"} => consumer[n].pc = pc /\ consumer[n].at = at,
         UNCHANGED <<job, finished, unretried, thread>>,
         \A i \in Ids, m \in QueueNames :
           i \in store.msgs[m] => i \in store'.msgs[m] \/ Doomed(i) \/ job[i] \in Over
  PROVE  Alive'
<1>1. /\ \A id \in Ids : Doomed(id)' => Doomed(id) \/ (pc = "ackcopy" /\ at = id)
      /\ \A m \in QueueNames : consumer'[m].pc = "reject" =>
           \/ consumer[m].pc = "reject" /\ consumer'[m].at = consumer[m].at
           \/ pc = "reject" /\ consumer'[m].at = at
  BY DoomedTurn
<1>2. pc = "ackcopy" => Doomed(at)
  BY DEF Doomed
<1>3. Grows /\ Over' = Over
  BY DEF Grows, Over
<1>4. \A id \in Ids : Doomed(id)' => Doomed(id)
  BY <1>1, <1>2
<1>5. \A m \in QueueNames : consumer'[m].pc = "reject" =>
           \/ consumer[m].pc = "reject" /\ consumer'[m].at = consumer[m].at
           \/ job'[consumer'[m].at] \in Over'
  <2>1. pc = "reject" => job[at] \in Over
    BY DEF Alive
  <2> QED BY <1>1, <1>3, <2>1
<1>6. \A i \in Ids, m \in QueueNames :
        i \in store.msgs[m] => i \in store'.msgs[m] \/ Doomed(i) \/ Safe(i)
  BY <1>3 DEF Safe
<1>7. \A id \in Ids : job'[id] = job[id]
  OBVIOUS
<1> QED BY <1>3, <1>4, <1>5, <1>6, <1>7, AliveStep
LEMMA ConsumerStepAlive ==
  ASSUME Typed, Alive, NEW n \in QueueNames, ConsumerStep(n)
  PROVE  Alive'
<1> USE DEF Typed
<1> DEFINE KeepsMsgs == \A i \in Ids, m \in QueueNames :
             i \in store.msgs[m] => i \in store'.msgs[m] \/ Doomed(i) \/ job[i] \in Over
<1>1. ASSUME NEW pc, Same(n, pc), pc \notin {"ackcopy", "reject"}, KeepsMsgs,
             UNCHANGED <<job, finished, unretried, thread>>
      PROVE  Alive'
  BY <1>1, AliveTurn DEF Same
<1>2. CASE ConsumerStarts(n) \/ NextFull(n) \/ DelayedNone(n)
  <2>1. UNCHANGED <<job, finished, unretried, thread, store>>
    BY <1>2 DEF ConsumerStarts, NextFull, DelayedNone, ConsumerOnly, work
  <2>2. \E pc \in {"top", "restart", "delayed", "next", "stopped"} : Same(n, pc)
    BY <1>2, GotoEffect DEF ConsumerStarts, NextFull, DelayedNone, AfterNone, Same
  <2> QED BY <1>1, <2>1, <2>2
<1>3. CASE ConsumerTop(n)
  <2>1. UNCHANGED <<job, finished, unretried, thread, store>>
    BY <1>3 DEF ConsumerTop, ConsumerOnly, work
  <2>2. CASE Same(n, "stopped") \/ Same(n, "paused")
    BY <1>1, <2>1, <2>2
  <2>3. CASE Turns(n, "next", consumer[n].at, <<>>, {}, consumer[n].delayQ,
                   consumer[n].pending, consumer[n].event)
    BY <2>1, <2>3, AliveTurn
  <2> QED BY <1>3, <2>2, <2>3, ConsumerTopEffect
<1>4. CASE ConsumerPaused(n)
  <2>1. UNCHANGED <<job, finished, unretried, thread, store>>
    BY <1>4 DEF ConsumerPaused, ConsumerOnly, work
  <2> QED BY <1>4, <2>1, ConsumerPausedEffect, AliveTurn
<1>5. CASE NextCached(n)
  <2>1. UNCHANGED <<job, finished, unretried, thread, store>>
    BY <1>5 DEF NextCached, ConsumerOnly, work
  <2> QED BY <1>5, <2>1, NextCachedEffect, AliveTurn
<1>6. CASE NextFetch(n)
  <2>1. UNCHANGED <<job, finished, unretried, thread>>
    BY <1>6 DEF NextFetch, ConsumerOnly, work
  <2>2. PICK p \in Seq(Ids) :
           \/ /\ Taken(store, store', Me, n, p)
              /\ \E pc \in {"next", "restart", "delayed"} :
                   Turns(n, pc, consumer[n].at, p, consumer[n].queued,
                         consumer[n].delayQ, consumer[n].pending, consumer[n].event)
           \/ /\ store' = store \/ Taken(store, store', Me, n, p)
              /\ Turns(n, "restart", consumer[n].at, <<>>, consumer[n].queued, {}, 0,
                       consumer[n].event)
    BY <1>6, NextFetchEffect
  <2>3. store'.msgs = store.msgs
    BY <2>2 DEF Taken
  <2> QED BY <2>1, <2>2, <2>3, AliveTurn
<1>7. CASE HandleMessage(n)
  <2> DEFINE id == consumer[n].at
  <2>1. UNCHANGED <<job, store, unretried, thread>> /\ consumer[n].pc = "handle"
    BY <1>7 DEF HandleMessage
  <2>2. id \in Ids
    BY <1>7, HandleEffect
  <2>3. CASE Same(n, "reject") /\ finished' = finished \cup {job[id]}
    <3>1. /\ \A i \in Ids : Doomed(i)' => Doomed(i)
          /\ \A m \in QueueNames : consumer'[m].pc = "reject" =>
               \/ consumer[m].pc = "reject" /\ consumer'[m].at = consumer[m].at
               \/ consumer'[m].at = id
      BY <2>1, <2>3, DoomedTurn DEF Same
    <3>2. Grows /\ job'[id] \in Over'
      BY <2>1, <2>3 DEF Grows, Over
    <3>3. \A m \in QueueNames : consumer'[m].pc = "reject" =>
           \/ consumer[m].pc = "reject" /\ consumer'[m].at = consumer[m].at
           \/ job'[consumer'[m].at] \in Over'
      BY <3>1, <3>2
    <3>4. \A i \in Ids : job'[i] = job[i]
      BY <2>1
    <3>5. \A i \in Ids, m \in QueueNames : i \in store.msgs[m] => i \in store'.msgs[m]
      BY <2>1
    <3> QED BY <3>1, <3>2, <3>3, <3>4, <3>5, AliveStep
  <2>4. CASE UNCHANGED finished /\ \E delayQ, pending :
               Turns(n, "delayed", None, consumer[n].cache, consumer[n].queued, delayQ,
                     pending, consumer[n].event)
    BY <2>1, <2>4, AliveTurn
  <2> QED BY <1>7, <2>3, <2>4, HandleEffect
<1>8. CASE RejectUnknown(n)
  <2> DEFINE id == consumer[n].at
  <2>1. UNCHANGED <<job, finished, unretried, thread>> /\ consumer[n].pc = "reject"
    BY <1>8 DEF RejectUnknown, ConsumerOnly, work
  <2>2. /\ id \in Ids /\ PostEffect(n, id)
        /\ \E pc \in {"delayed", "reject"} :
             Turns(n, pc, IF pc = "reject" THEN id ELSE None, consumer[n].cache,
                   consumer[n].queued \ {job[id]}, consumer[n].delayQ,
                   consumer[n].pending, consumer[n].event)
    BY <1>8, RejectEffect
  <2>3. job[id] \in Over
    BY <2>1 DEF Alive
  <2>4. KeepsMsgs
    BY <2>2, <2>3, SettledKeeps
  <2>5. CASE Turns(n, "reject", id, consumer[n].cache,
                   consumer[n].queued \ {job[id]}, consumer[n].delayQ,
                   consumer[n].pending, consumer[n].event)
    BY <2>1, <2>4, <2>5, AliveTurn
  <2>6. CASE Turns(n, "delayed", None, consumer[n].cache,
                   consumer[n].queued \ {job[id]}, consumer[n].delayQ,
                   consumer[n].pending, consumer[n].event)
    BY <2>1, <2>4, <2>6, AliveTurn
  <2> QED BY <2>2, <2>5, <2>6
<1>9. CASE DelayedDue(n)
  <2>1. UNCHANGED <<job, finished, unretried, thread, store>>
    BY <1>9 DEF DelayedDue, ConsumerOnly, work
  <2> QED BY <1>9, <2>1, DueEffect, AliveTurn
<1>10. CASE CopyDelayed(n)
  <2>1. /\ consumer[n].at \in Ids /\ HasFresh
        /\ \/ Adds(Canonical[n], job[consumer[n].at]) /\ Same(n, "ackcopy")
           \/ /\ Adds(Canonical[n], job[consumer[n].at]) \/ Leaves
              /\ Turns(n, "error", None, consumer[n].cache, consumer[n].queued,
                       consumer[n].delayQ, consumer[n].pending, consumer[n].event)
    BY <1>10, CopyEffect
  <2>2. PICK id \in Ids, q \in QueueNames, j \in Jobs :
          id = consumer[n].at /\ q = Canonical[n] /\ j = job[id]
    <3>1. In(n, "hand", consumer[n].at)
      BY DEF In
    <3>2. job[consumer[n].at] \in Jobs
      BY <2>1, <3>1, PlaceFacts DEF Known
    <3> QED BY <2>1, <3>2, CanonicalAssumption
  <2>3. UNCHANGED <<finished, unretried, thread>>
    BY <1>10 DEF CopyDelayed
  <2>4. /\ Fresh \in Ids /\ ~Doomed(Fresh) /\ job[Fresh] \notin Jobs
        /\ \A i \in Ids : job'[i] = job[i] \/ (i = Fresh /\ job'[i] = j)
        /\ \A m \in QueueNames : store.msgs[m] \subseteq store'.msgs[m]
        /\ Adds(q, j) => Fresh \in store'.msgs[q] /\ job'[Fresh] = j
    BY <2>1, <2>2, AddedFacts
  <2>5. PICK x \in Ids : x = Fresh
    BY <2>4
  <2>6. /\ \A i \in Ids : Doomed(i)' => Doomed(i) \/ (Same(n, "ackcopy") /\ i = id)
        /\ \A m \in QueueNames : consumer'[m].pc = "reject" =>
             consumer[m].pc = "reject" /\ consumer'[m].at = consumer[m].at
    <3>1. CASE Same(n, "ackcopy")
      BY <2>2, <2>3, <3>1, DoomedTurn DEF Same
    <3>2. CASE Turns(n, "error", None, consumer[n].cache, consumer[n].queued,
                     consumer[n].delayQ, consumer[n].pending, consumer[n].event)
      BY <2>3, <3>2, DoomedTurn
    <3> QED BY <2>1, <3>1, <3>2
  <2>7. ~Doomed(x)'
    BY <2>2, <2>4, <2>5, <2>6
  <2>8. Adds(q, j) => CarriedNow(j)
    BY <2>4, <2>5, <2>7 DEF CarriedNow
  <2>9. Same(n, "ackcopy") => Adds(q, j)
    <3>1. ~(Same(n, "ackcopy") /\ Turns(n, "error", None, consumer[n].cache,
              consumer[n].queued, consumer[n].delayQ, consumer[n].pending, consumer[n].event))
      BY DEF Same, Turns
    <3> QED BY <2>1, <2>2, <3>1
  <2>10. \A i \in Ids : Doomed(i)' => Doomed(i) \/ Safe(i)
    BY <2>2, <2>6, <2>8, <2>9 DEF Safe
  <2>11. \A i \in Ids : job'[i] = job[i] \/ CarriedNow(job'[i])
    <3>1. CASE Adds(q, j)
      BY <2>4, <2>8, <3>1
    <3>2. CASE Leaves
      BY <3>2 DEF Leaves
    <3> QED BY <2>1, <2>2, <3>1, <3>2
  <2>12. Grows
    BY <2>3, <2>4 DEF Grows
  <2>13. \A i \in Ids, m \in QueueNames : i \in store.msgs[m] => i \in store'.msgs[m]
    BY <2>4
  <2> QED BY <2>6, <2>10, <2>11, <2>12, <2>13, AliveStep
<1>11. CASE AckCopied(n)
  <2> DEFINE id == consumer[n].at
  <2>1. UNCHANGED <<job, finished, unretried, thread>> /\ consumer[n].pc = "ackcopy"
    BY <1>11 DEF AckCopied, ConsumerOnly, work
  <2>2. /\ id \in Ids /\ PostEffect(n, id)
        /\ \/ Turns(n, "delayed", None, consumer[n].cache,
                    consumer[n].queued \ {job[id]}, consumer[n].delayQ,
                    consumer[n].pending - 1, consumer[n].event)
           \/ Turns(n, "ackcopy", id, consumer[n].cache,
                    consumer[n].queued \ {job[id]}, consumer[n].delayQ,
                    consumer[n].pending, consumer[n].event)
    BY <1>11, AckEffect
  <2>3. Doomed(id)
    BY <2>1 DEF Doomed
  <2>4. KeepsMsgs
    BY <2>2, <2>3, SettledKeeps
  <2> QED BY <2>1, <2>2, <2>4, AliveTurn
<1>12. CASE ConsumerError(n) \/ ConsumerRestart(n)
  <2>1. UNCHANGED <<job, finished, unretried, thread>>
    BY <1>12 DEF ConsumerError, ConsumerRestart, ConsumerOnly, work
  <2>2. \/ Same(n, "stopped") /\ store' = store
        \/ /\ GivesBack(n, consumer[n].delayQ)
           /\ Empties(n, "restart") \/ Empties(n, "top") \/ Empties(n, "dead")
    BY <1>12, ErrorEffect, RestartEffect
  <2>3. CASE Same(n, "stopped") /\ store' = store
    BY <1>1, <2>1, <2>3
  <2>4. CASE /\ GivesBack(n, consumer[n].delayQ)
             /\ Empties(n, "restart") \/ Empties(n, "top") \/ Empties(n, "dead")
    <3>1. store'.msgs = store.msgs
      BY <2>4 DEF GivesBack, Returned
    <3> QED BY <2>1, <2>4, <3>1, AliveTurn DEF Empties
  <2> QED BY <2>2, <2>3, <2>4
<1> QED BY <1>2, <1>3, <1>4, <1>5, <1>6, <1>7, <1>8, <1>9, <1>10, <1>11, <1>12
       DEF ConsumerStep
LEMMA ThreadStepAlive ==
  ASSUME Typed, Alive, NEW t \in Threads, ThreadStep(t)
  PROVE  Alive'
<1> USE DEF Typed
<1>0. ASSUME NEW pc, NEW at, NEW queue, NEW failed, NEW event,
             Moves(t, pc, at, queue, failed, event), pc # "post",
             UNCHANGED <<job, finished, unretried, consumer, store>>
      PROVE  Alive'
  <2>1. \A i \in Ids : Doomed(i)' => Doomed(i)
    BY <1>0, DoomedMove
  <2>2. Grows
    BY <1>0 DEF Grows
  <2>3. \A m \in QueueNames : consumer'[m].pc = "reject" =>
          consumer[m].pc = "reject" /\ consumer'[m].at = consumer[m].at
    BY <1>0
  <2> QED BY <1>0, <2>1, <2>2, <2>3, AliveStep
<1>1. CASE ThreadStarts(t) \/ ThreadTop(t) \/ ThreadGet(t) \/ ThreadPaused(t)
  <2>1. UNCHANGED <<job, finished, unretried, consumer, store>>
    BY <1>1 DEF ThreadStarts, ThreadTop, ThreadGet, ThreadPaused, ThreadOnly, work
  <2>2. CASE ThreadStarts(t)
    <3>1. Still(t, "idle")
      BY <2>2, StillEffect DEF ThreadStarts
    <3> QED BY <1>0, <2>1, <3>1 DEF Still
  <2>3. CASE ThreadTop(t)
    BY <1>0, <2>1, <2>3, ThreadTopEffect DEF Still
  <2>4. CASE ThreadGet(t)
    BY <1>0, <2>1, <2>4, ThreadGetEffect DEF Still, Takes
  <2>5. CASE ThreadPaused(t)
    BY <1>0, <2>1, <2>5, ThreadPausedEffect
  <2> QED BY <1>1, <2>2, <2>3, <2>4, <2>5
<1>2. CASE Finish(t)
  <2> DEFINE id == thread[t].at
  <2>1. UNCHANGED <<job, unretried, consumer, store>> /\ finished' = finished \cup {job[id]}
    BY <1>2 DEF Finish, ThreadOnly
  <2>2. \A i \in Ids : Doomed(i)' => Doomed(i) \/ id = i
    BY <1>2, <2>1, FinishEffect, DoomedMove
  <2>3. Grows /\ job[id] \in Over'
    BY <2>1 DEF Grows, Over
  <2>4. \A i \in Ids : Doomed(i)' => Doomed(i) \/ Safe(i)
    BY <2>2, <2>3 DEF Safe
  <2>5. \A m \in QueueNames : consumer'[m].pc = "reject" =>
          consumer[m].pc = "reject" /\ consumer'[m].at = consumer[m].at
    BY <2>1
  <2>6. /\ \A i \in Ids : job'[i] = job[i]
        /\ \A i \in Ids, m \in QueueNames : i \in store.msgs[m] => i \in store'.msgs[m]
    BY <2>1
  <2> QED BY <2>3, <2>4, <2>5, <2>6, AliveStep
<1>3. CASE RetryLater(t)
  <2>1. /\ thread[t].at \in Ids /\ job[thread[t].at] \in Jobs /\ HasFresh
        /\ \/ (\E q \in QueueNames : Adds(q, job[thread[t].at])) /\ UNCHANGED unretried
           \/ Leaves /\ unretried' = unretried \cup {job[thread[t].at]}
        /\ Moves(t, "post", thread[t].at, thread[t].queue, FALSE, thread[t].event)
    BY <1>3, RetryEffect
  <2>2. PICK id \in Ids, j \in Jobs : id = thread[t].at /\ j = job[id]
    BY <2>1
  <2>3. PICK q \in QueueNames : \/ Adds(q, j) /\ UNCHANGED unretried
                                \/ Leaves /\ unretried' = unretried \cup {j}
    BY <2>1, <2>2, WorkerAssumption
  <2>4. UNCHANGED <<finished, consumer>>
    BY <1>3 DEF RetryLater, ThreadOnly
  <2>5. /\ Fresh \in Ids /\ ~Doomed(Fresh) /\ job[Fresh] \notin Jobs
        /\ \A i \in Ids : job'[i] = job[i] \/ (i = Fresh /\ job'[i] = j)
        /\ \A m \in QueueNames : store.msgs[m] \subseteq store'.msgs[m]
        /\ Adds(q, j) => Fresh \in store'.msgs[q] /\ job'[Fresh] = j
    BY <2>1, <2>3, AddedFacts
  <2>6. PICK x \in Ids : x = Fresh
    BY <2>5
  <2>7. \A i \in Ids : Doomed(i)' => Doomed(i) \/ id = i
    <3>1. UNCHANGED consumer
      BY <2>4
    <3>2. /\ \A u \in Threads \ {t} : thread'[u] = thread[u]
          /\ thread'[t].at = thread[t].at
      BY <2>1 DEF Moves
    <3>3. \A i \in Ids : Doomed(i)' => Doomed(i) \/ thread[t].at = i
      BY <3>1, <3>2 DEF Doomed
    <3> QED BY <2>2, <3>3
  <2>8. ~Doomed(x)'
    BY <2>2, <2>5, <2>6, <2>7
  <2>9. Adds(q, j) => CarriedNow(j)
    BY <2>5, <2>6, <2>8 DEF CarriedNow
  <2>10. Grows /\ (j \in Over' \/ CarriedNow(j))
    BY <2>3, <2>4, <2>5, <2>9 DEF Grows, Over
  <2>11. \A i \in Ids : Doomed(i)' => Doomed(i) \/ Safe(i)
    BY <2>2, <2>7, <2>10 DEF Safe
  <2>12. \A i \in Ids : job'[i] = job[i] \/ CarriedNow(job'[i])
    <3>1. CASE Adds(q, j)
      BY <2>5, <2>9, <3>1
    <3>2. CASE Leaves
      BY <3>2 DEF Leaves
    <3> QED BY <2>3, <3>1, <3>2
  <2>13. /\ \A i \in Ids, m \in QueueNames : i \in store.msgs[m] => i \in store'.msgs[m]
         /\ \A m \in QueueNames : consumer'[m].pc = "reject" =>
              consumer[m].pc = "reject" /\ consumer'[m].at = consumer[m].at
    BY <2>4, <2>5
  <2> QED BY <2>10, <2>11, <2>12, <2>13, AliveStep
<1>4. CASE PostProcess(t)
  <2> DEFINE id == thread[t].at
             n == thread[t].queue
  <2>1. /\ id \in Ids /\ n \in QueueNames /\ PostEffect(n, id)
        /\ Turns(n, consumer[n].pc, consumer[n].at, consumer[n].cache,
                 consumer[n].queued \ {job[id]}, consumer[n].delayQ,
                 consumer[n].pending, consumer[n].event)
        /\ UNCHANGED thread \/ Moves(t, "idle", None, n, FALSE, thread[t].event)
    BY <1>4, PostProcessEffect
  <2>2. UNCHANGED <<job, finished, unretried>> /\ thread[t].pc = "post"
    BY <1>4 DEF PostProcess, work
  <2>3. Doomed(id)
    BY <2>2 DEF Doomed
  <2>4. \A m \in QueueNames : consumer'[m].pc = consumer[m].pc
                              /\ consumer'[m].at = consumer[m].at
    <3>1. ASSUME NEW m \in QueueNames
          PROVE  consumer'[m].pc = consumer[m].pc /\ consumer'[m].at = consumer[m].at
      <4>1. CASE m = n
        BY <2>1, <4>1 DEF Turns
      <4>2. CASE m # n
        BY <2>1, <4>2 DEF Turns
      <4> QED BY <4>1, <4>2
    <3> QED BY <3>1
  <2>5. \A u \in Threads : \/ thread'[u] = thread[u]
                           \/ thread'[u].pc = "idle"
    BY <2>1 DEF Moves
  <2>6. \A i \in Ids : Doomed(i)' => Doomed(i)
    BY <2>4, <2>5 DEF Doomed
  <2>7. \A i \in Ids, m \in QueueNames :
          i \in store.msgs[m] => i \in store'.msgs[m] \/ Doomed(i)
    BY <2>1, <2>3, SettledKeeps
  <2>8. Grows /\ \A i \in Ids : job'[i] = job[i]
    BY <2>2 DEF Grows
  <2> QED BY <2>4, <2>6, <2>7, <2>8, AliveStep
<1> QED BY <1>1, <1>2, <1>3, <1>4 DEF ThreadStep

(* The main thread and the callers change nothing that is about to be acked. *)
LEMMA OtherStepAlive ==
  ASSUME Typed, Alive,
         \A m \in QueueNames : consumer'[m].pc = consumer[m].pc
                               /\ consumer'[m].at = consumer[m].at,
         \A t \in Threads : thread'[t].pc = thread[t].pc /\ thread'[t].at = thread[t].at,
         UNCHANGED <<finished, unretried>>,
         \/ store'.msgs = store.msgs /\ job' = job
         \/ \E j \in Jobs, q \in QueueNames : Adds(q, j) /\ HasFresh
  PROVE  Alive'
<1>1. \A i \in Ids : Doomed(i)' => Doomed(i)
  BY DEF Doomed
<1>2. \A m \in QueueNames : consumer'[m].pc = "reject" =>
        consumer[m].pc = "reject" /\ consumer'[m].at = consumer[m].at
  OBVIOUS
<1>3. CASE store'.msgs = store.msgs /\ job' = job
  BY <1>1, <1>2, <1>3, AliveStep DEF Grows
<1>4. CASE \E j \in Jobs, q \in QueueNames : Adds(q, j) /\ HasFresh
  <2>1. PICK j \in Jobs, q \in QueueNames : Adds(q, j) /\ HasFresh
    BY <1>4
  <2>2. /\ Fresh \in Ids /\ ~Doomed(Fresh) /\ job[Fresh] \notin Jobs
        /\ \A i \in Ids : job'[i] = job[i] \/ (i = Fresh /\ job'[i] = j)
        /\ \A m \in QueueNames : store.msgs[m] \subseteq store'.msgs[m]
        /\ Fresh \in store'.msgs[q] /\ job'[Fresh] = j
    BY <2>1, AddedFacts
  <2>3. PICK x \in Ids : x = Fresh
    BY <2>2
  <2>4. CarriedNow(j)
    BY <1>1, <2>2, <2>3 DEF CarriedNow
  <2>5. \A i \in Ids : job'[i] = job[i] \/ CarriedNow(job'[i])
    BY <2>2, <2>4
  <2>6. Grows /\ \A i \in Ids, m \in QueueNames :
                   i \in store.msgs[m] => i \in store'.msgs[m]
    BY <2>2 DEF Grows
  <2> QED BY <1>1, <1>2, <2>5, <2>6, AliveStep
<1> QED BY <1>3, <1>4

(* What the main thread does to the other threads: it sets and clears their
   flags, and it empties their delay queues.                               *)
LEMMA MainStepFacts ==
  ASSUME Typed, MainStep
  PROVE  /\ \A m \in QueueNames : /\ consumer'[m].pc = consumer[m].pc
                                  /\ consumer'[m].at = consumer[m].at
                                  /\ consumer'[m].cache = consumer[m].cache
                                  /\ consumer'[m].queued = consumer[m].queued
         /\ \A t \in Threads : thread'[t].pc = thread[t].pc /\ thread'[t].at = thread[t].at
         /\ UNCHANGED <<setup, job, finished, unretried>> /\ store'.msgs = store.msgs
<1> USE DEF Typed
<1>1. ASSUME NEW c \in Children, ClearEvent(c)
      PROVE  /\ Cleared(c) /\ UNCHANGED <<setup, job, finished, unretried, store>>
  BY <1>1, ClearEffect DEF ClearEvent, MainOnly, work
<1>2. CASE \/ Pause \/ Resume \/ PauseReturns \/ ResumeReturns
           \/ \E c \in Children : TellChild(c) \/ StopChild(c)
           \/ Stop \/ WorkersJoined \/ ConsumersJoined \/ DrainWork
  BY <1>2 DEF Pause, Resume, PauseReturns, ResumeReturns, TellChild, StopChild, Stop,
              WorkersJoined, ConsumersJoined, DrainWork, MainOnly, work
<1>3. CASE RequeueWork
  <2>1. UNCHANGED <<work, consumer, thread>>
    BY <1>3 DEF RequeueWork
  <2>2. ASSUME NEW n, NEW ids, GivesBack(n, ids) PROVE store'.msgs = store.msgs
    BY <2>2 DEF GivesBack, Returned
  <2>3. store'.msgs = store.msgs
    BY <1>3, <2>2, RequeueWorkEffect
  <2> QED BY <2>1, <2>3 DEF work
<1>4. CASE CloseConsumers
  <2>1. UNCHANGED <<work, thread>>
    BY <1>4 DEF CloseConsumers
  <2>2. CASE UNCHANGED <<store, failures, consumer>>
    BY <2>1, <2>2 DEF work
  <2>3. ASSUME NEW n \in QueueNames, Empties(n, consumer[n].pc),
               GivesBack(n, consumer[n].delayQ)
        PROVE  /\ store'.msgs = store.msgs
               /\ \A m \in QueueNames : /\ consumer'[m].pc = consumer[m].pc
                                        /\ consumer'[m].at = consumer[m].at
                                        /\ consumer'[m].cache = consumer[m].cache
                                        /\ consumer'[m].queued = consumer[m].queued
    <3>1. store'.msgs = store.msgs
      BY <2>3 DEF GivesBack, Returned
    <3>2. ASSUME NEW m \in QueueNames
          PROVE  /\ consumer'[m].pc = consumer[m].pc /\ consumer'[m].at = consumer[m].at
                 /\ consumer'[m].cache = consumer[m].cache
                 /\ consumer'[m].queued = consumer[m].queued
      <4>1. CASE m = n
        BY <2>3, <4>1 DEF Empties, Turns
      <4>2. CASE m # n
        BY <2>3, <4>2 DEF Empties, Turns
      <4> QED BY <4>1, <4>2
    <3> QED BY <3>1, <3>2
  <2> QED BY <1>4, <2>1, <2>2, <2>3, CloseConsumersEffect DEF work
<1> QED BY <1>1, <1>2, <1>3, <1>4 DEF MainStep, PauseStep, StopStep, Cleared

(* A job that was sent is finished, or given up after a retry that could
   not be enqueued, or a message in the store still carries it.  The
   invariant asks for a message that no thread is about to ack: the copy of
   a delayed message, or the retry, is in the store before the ack.        *)
THEOREM JobsKept == Spec => []NoJobLost
<1>1. Init => Alive
  <2> SUFFICES ASSUME Init PROVE Alive
    OBVIOUS
  <2>1. \A n \in QueueNames : consumer[n].pc \in {"new", "top"}
    BY Starting
  <2>2. \A id \in Ids : job[id] = NoJob
    BY DEF Init
  <2> QED BY <2>1, <2>2 DEF Alive
<1>2. Placed /\ Alive /\ [Next]_vars => Alive'
  <2> SUFFICES ASSUME Placed, Alive, [Next]_vars PROVE Alive'
    OBVIOUS
  <2>0. Typed
    BY DEF Placed
  <2>1. CASE UNCHANGED vars
    <3>1. UNCHANGED <<consumer, thread, finished, unretried, store, job>>
      BY <2>1 DEF vars
    <3> QED BY <2>0, <3>1, OtherStepAlive
  <2>2. ASSUME NEW j \in Jobs, NEW n \in QueueNames, Send(j, n) PROVE Alive'
    <3>1. UNCHANGED <<consumer, thread, finished, unretried>>
      BY <2>2 DEF Send
    <3>2. Adds(n, j) /\ HasFresh
      BY <2>0, <2>2, SendEffect DEF Typed
    <3> QED BY <2>0, <3>1, <3>2, OtherStepAlive
  <2>3. CASE MainStep
    BY <2>0, <2>3, MainStepFacts, OtherStepAlive
  <2> QED BY <2>0, <2>1, <2>2, <2>3, ConsumerStepAlive, ThreadStepAlive DEF Next
<1>3. Alive => NoJobLost
  BY DEF Alive, Carried, Over, NoJobLost
<1> QED BY PlacedAlways, <1>1, <1>2, <1>3, PTL DEF Spec
-----------------------------------------------------------------------------
(* No message is forgotten.                                                *)

(* Errors are not undone.                                                  *)
LEMMA ErrorsStay ==
  ASSUME Typed, [Next]_vars
  PROVE  setup' = setup /\ (failures' = 0 => failures = 0)
<1> USE DEF Typed
<1>0. Fails => failures' # 0
  BY SetupTypes DEF Fails
<1>1. CASE UNCHANGED vars
  BY <1>1 DEF vars
<1>2. ASSUME NEW j \in Jobs, NEW n \in QueueNames, Send(j, n)
      PROVE  UNCHANGED <<setup, failures>>
  BY <1>2 DEF Send
<1>3. ASSUME NEW n \in QueueNames, ConsumerStep(n)
      PROVE  setup' = setup /\ (failures' = 0 => failures = 0)
  <2>1. setup' = setup
    BY <1>3 DEF ConsumerStep, ConsumerStarts, ConsumerTop, ConsumerPaused, NextCached,
                NextFull, NextFetch, HandleMessage, RejectUnknown, DelayedDue, DelayedNone,
                CopyDelayed, AckCopied, ConsumerError, ConsumerRestart, ConsumerOnly, work
  <2>2. CASE \/ ConsumerStarts(n) \/ ConsumerTop(n) \/ ConsumerPaused(n) \/ NextCached(n)
             \/ NextFull(n) \/ HandleMessage(n) \/ DelayedDue(n) \/ DelayedNone(n)
    BY <2>1, <2>2 DEF ConsumerStarts, ConsumerTop, ConsumerPaused, NextCached,
                      NextFull, HandleMessage, DelayedDue, DelayedNone
  <2>3. CASE NextFetch(n)
    BY <1>0, <2>1, <2>3, NextFetchEffect
  <2>4. CASE RejectUnknown(n)
    BY <1>0, <2>1, <2>4, RejectEffect DEF PostEffect
  <2>5. CASE CopyDelayed(n)
    BY <1>0, <2>1, <2>5, CopyEffect
  <2>6. CASE AckCopied(n)
    BY <1>0, <2>1, <2>6, AckEffect DEF PostEffect
  <2>7. CASE ConsumerError(n)
    BY <2>1, <2>7, ErrorEffect DEF GivesBack
  <2>8. CASE ConsumerRestart(n)
    BY <2>1, <2>8, RestartEffect DEF GivesBack
  <2> QED BY <1>3, <2>2, <2>3, <2>4, <2>5, <2>6, <2>7, <2>8 DEF ConsumerStep
<1>4. ASSUME NEW t \in Threads, ThreadStep(t)
      PROVE  setup' = setup /\ (failures' = 0 => failures = 0)
  <2>1. setup' = setup
    BY <1>4 DEF ThreadStep, ThreadStarts, ThreadTop, ThreadGet, ThreadPaused, Finish,
                RetryLater, PostProcess, work
  <2>2. CASE \/ ThreadStarts(t) \/ ThreadTop(t) \/ ThreadGet(t) \/ ThreadPaused(t)
             \/ Finish(t)
    BY <2>1, <2>2 DEF ThreadStarts, ThreadTop, ThreadGet, ThreadPaused, Finish
  <2>3. CASE RetryLater(t)
    BY <1>0, <2>1, <2>3, RetryEffect
  <2>4. CASE PostProcess(t)
    BY <1>0, <2>1, <2>4, PostProcessEffect DEF PostEffect
  <2> QED BY <1>4, <2>2, <2>3, <2>4 DEF ThreadStep
<1>5. CASE MainStep
  <2>1. setup' = setup
    BY <1>5, MainStepFacts
  <2>2. CASE \/ Pause \/ Resume \/ PauseReturns \/ ResumeReturns
             \/ \E c \in Children : TellChild(c) \/ ClearEvent(c) \/ StopChild(c)
             \/ Stop \/ WorkersJoined \/ ConsumersJoined \/ DrainWork
    BY <2>1, <2>2 DEF Pause, Resume, PauseReturns, ResumeReturns, TellChild, ClearEvent,
                      StopChild, Stop, WorkersJoined, ConsumersJoined, DrainWork, MainOnly
  <2>3. ASSUME NEW n, NEW ids, GivesBack(n, ids) PROVE failures' = 0 => failures = 0
    BY <2>3 DEF GivesBack
  <2>4. CASE RequeueWork
    BY <2>1, <2>3, <2>4, RequeueWorkEffect
  <2>5. CASE CloseConsumers
    BY <2>1, <2>3, <2>5, CloseConsumersEffect
  <2> QED BY <1>5, <2>2, <2>4, <2>5 DEF MainStep, PauseStep, StopStep
<1> QED BY <1>1, <1>2, <1>3, <1>4, <1>5 DEF Next

LEMMA NoErrorBack ==
  ASSUME Placed, [Next]_vars, NoError'
  PROVE  NoError /\ failures' = 0
<1>1. setup' = setup /\ failures' = 0 /\ failures = 0
  BY ErrorsStay DEF Placed, NoError
<1>2. setup.poison \subseteq Jobs
  BY SetupTypes DEF Placed, Typed
<1>3. \A id \in Ids : job[id] \in Jobs => job'[id] = job[id]
  BY PlacedStep DEF Passes
<1> QED BY <1>1, <1>2, <1>3 DEF NoError

(* Where a message of queue n is when a consumer has these fields.         *)
Spread(n, at, cache, delayQ, id) ==
  \/ id \in ToSet(cache) \/ at = id \/ id \in delayQ \/ <<id, n>> \in workQueue'
  \/ <<id, n>> \in main.drained
  \/ \E t \in Threads : thread[t].queue = n /\ thread[t].at = id

LEMMA HeldSpread ==
  ASSUME NEW n \in QueueNames, NEW id \in Ids, Held(n, id)
  PROVE  \/ id \in ToSet(consumer[n].cache) \/ consumer[n].at = id
         \/ id \in consumer[n].delayQ \/ <<id, n>> \in workQueue
         \/ <<id, n>> \in main.drained
         \/ \E t \in Threads : thread[t].queue = n /\ thread[t].at = id
BY DEF Held, In

LEMMA KeptTurn ==
  ASSUME NEW n \in QueueNames, NEW pc, NEW at, NEW cache, NEW queued,
         NEW delayQ, NEW pending, NEW event,
         Turns(n, pc, at, cache, queued, delayQ, pending, event),
         UNCHANGED <<thread, main.drained>>, \A m \in QueueNames : KeptIn(m),
         \A m \in QueueNames \ {n} : store'.acks[Me][m] = store.acks[Me][m],
         workQueue \subseteq workQueue',
         \A id \in store'.acks[Me][n] : Spread(n, at, cache, delayQ, id),
         pc \notin {"error", "dead"},
         pc \in {"new", "top", "paused", "restart"} => cache = <<>>
  PROVE  \A m \in QueueNames : KeptIn(m)'
<1>1. ASSUME NEW m \in QueueNames PROVE KeptIn(m)'
  <2>1. CASE m # n
    <3>1. consumer'[m] = consumer[m]
      BY <2>1 DEF Turns
    <3>2. \A id, p : In(m, p, id) => In(m, p, id)'
      BY <3>1 DEF In
    <3> QED BY <2>1, <3>1, <3>2 DEF KeptIn
  <2>2. CASE m = n
    <3>1. /\ consumer'[n].pc = pc /\ consumer'[n].at = at
          /\ consumer'[n].cache = cache /\ consumer'[n].delayQ = delayQ
      BY DEF Turns
    <3>2. ASSUME NEW id, Spread(n, at, cache, delayQ, id)
          PROVE  \E p \in Places : In(n, p, id)'
      <4>1. CASE id \in ToSet(cache)
        BY <3>1, <4>1, PlaceFacts DEF In
      <4>2. CASE at = id
        BY <3>1, <4>2, PlaceFacts DEF In
      <4>3. CASE id \in delayQ
        BY <3>1, <4>3, PlaceFacts DEF In
      <4>4. CASE <<id, n>> \in workQueue'
        BY <4>4, PlaceFacts DEF In
      <4>5. CASE \E t \in Threads : thread[t].queue = n /\ thread[t].at = id
        BY <4>5, PlaceFacts DEF In
      <4>6. CASE <<id, n>> \in main.drained
        BY <4>6, PlaceFacts DEF In
      <4> QED BY <3>2, <4>1, <4>2, <4>3, <4>4, <4>5, <4>6 DEF Spread
    <3> QED BY <2>2, <3>1, <3>2 DEF KeptIn
  <2> QED BY <2>1, <2>2
<1> QED BY <1>1

(* What has been fetched for this process, after each kind of call.        *)
LEMMA AcksFacts ==
  ASSUME Typed, NEW n \in QueueNames
  PROVE  /\ \A m \in QueueNames : store.acks[Me][m] \subseteq Ids
         /\ \A id \in Ids : Settled(store, store', Me, n, id) =>
              /\ store'.acks[Me][n] = store.acks[Me][n] \ {id}
              /\ \A m \in QueueNames \ {n} : store'.acks[Me][m] = store.acks[Me][m]
         /\ \A p \in Seq(Ids) : Taken(store, store', Me, n, p) =>
              /\ store'.acks[Me][n] = store.acks[Me][n] \cup ToSet(p)
              /\ \A m \in QueueNames \ {n} : store'.acks[Me][m] = store.acks[Me][m]
         /\ \A ids : GivesBack(n, ids) /\ failures' = 0 =>
              /\ store'.acks[Me][n] = store.acks[Me][n] \ ids
              /\ \A m \in QueueNames \ {n} : store'.acks[Me][m] = store.acks[Me][m]
         /\ \A j \in Jobs : Adds(n, j) => store'.acks = store.acks
<1>1. store \in Store /\ Me \in Workers
  BY ServerFacts DEF Typed
<1>2. \A m \in QueueNames : store.acks[Me][m] \subseteq Ids
  BY <1>1, StoreTypes
<1>3. ASSUME NEW id \in Ids, Settled(store, store', Me, n, id)
      PROVE  /\ store'.acks[Me][n] = store.acks[Me][n] \ {id}
             /\ \A m \in QueueNames \ {n} : store'.acks[Me][m] = store.acks[Me][m]
  BY <1>3 DEF Settled, Frames
<1>4. ASSUME NEW p \in Seq(Ids), Taken(store, store', Me, n, p)
      PROVE  /\ store'.acks[Me][n] = store.acks[Me][n] \cup ToSet(p)
             /\ \A m \in QueueNames \ {n} : store'.acks[Me][m] = store.acks[Me][m]
  BY <1>4 DEF Taken, Frames
<1>5. ASSUME NEW ids, GivesBack(n, ids), failures' = 0
      PROVE  /\ store'.acks[Me][n] = store.acks[Me][n] \ ids
             /\ \A m \in QueueNames \ {n} : store'.acks[Me][m] = store.acks[Me][m]
  <2>1. CASE ids = {} /\ store' = store
    BY <2>1
  <2>2. CASE Returned(store, store', Me, n, ids)
    BY <2>2 DEF Returned, Frames
  <2> QED BY <1>5, <2>1, <2>2 DEF GivesBack
<1>6. \A j \in Jobs : Adds(n, j) => store'.acks = store.acks
  BY DEF Adds, Joined
<1> QED BY <1>2, <1>3, <1>4, <1>5, <1>6
LEMMA ConsumerStepKept ==
  ASSUME Typed, NoError, \A m \in QueueNames : KeptIn(m), failures' = 0,
         NEW n \in QueueNames, ConsumerStep(n)
  PROVE  \A m \in QueueNames : KeptIn(m)'
<1> USE DEF Typed
<1> DEFINE c == consumer[n]
           Here(id) == \/ id \in ToSet(c.cache) \/ c.at = id \/ id \in c.delayQ
                       \/ <<id, n>> \in workQueue \/ <<id, n>> \in main.drained
                       \/ \E t \in Threads : thread[t].queue = n /\ thread[t].at = id
<1>0. UNCHANGED <<thread, main.drained>>
  BY DEF ConsumerStep, ConsumerStarts, ConsumerTop, ConsumerPaused, NextCached, NextFull,
         NextFetch, HandleMessage, RejectUnknown, DelayedDue, DelayedNone, CopyDelayed,
         AckCopied, ConsumerError, ConsumerRestart, ConsumerOnly
<1>1. /\ \A id \in store.acks[Me][n] : Here(id) /\ id \in Ids
      /\ c.pc \notin {"error", "dead"}
      /\ c.pc \in {"new", "top", "paused", "restart"} => c.cache = <<>>
  BY AcksFacts, HeldSpread DEF KeptIn, Held
<1>2. ~Fails
  BY SetupTypes DEF Fails
<1>3. c.pc \notin {"handle", "reject", "copy", "ackcopy"} => c.at = None
  BY DEF Stages
<1>4. \A id \in Ids : id # None
  BY WorkerAssumption
<1> HIDE DEF c
<1>5. ASSUME NEW pc, Turns(n, pc, c.at, c.cache, c.queued, c.delayQ, c.pending, c.event),
             pc \notin {"error", "dead"},
             pc \in {"new", "top", "paused", "restart"} => c.cache = <<>>,
             UNCHANGED <<thread, workQueue, store>>
      PROVE  \A m \in QueueNames : KeptIn(m)'
  <2>1. \A id \in store'.acks[Me][n] : Spread(n, c.at, c.cache, c.delayQ, id)
    BY <1>1, <1>5 DEF Spread
  <2> QED BY <1>5, <2>1, <1>0, KeptTurn
<1>6. CASE ConsumerStarts(n) \/ NextFull(n) \/ DelayedNone(n)
  <2>1. UNCHANGED <<thread, workQueue, store>>
    BY <1>6 DEF ConsumerStarts, NextFull, DelayedNone, ConsumerOnly
  <2>2. CASE ConsumerStarts(n)
    <3>1. c.pc = "new" /\ Same(n, "top")
      BY <2>2, GotoEffect DEF ConsumerStarts, Same, c
    <3> QED BY <1>1, <1>5, <2>1, <3>1 DEF Same, c
  <2>3. CASE NextFull(n)
    <3>1. c.cache = <<>> /\ \E pc \in {"restart", "delayed"} : Same(n, pc)
      BY <2>3, GotoEffect DEF NextFull, AfterNone, Same, c
    <3> QED BY <1>1, <1>5, <2>1, <3>1 DEF Same, c
  <2>4. CASE DelayedNone(n)
    <3>1. \E pc \in {"next", "stopped"} : Same(n, pc)
      BY <2>4, GotoEffect DEF DelayedNone, Same, c
    <3> QED BY <1>1, <1>5, <2>1, <3>1 DEF Same, c
  <2> QED BY <1>6, <2>2, <2>3, <2>4
<1>7. CASE ConsumerTop(n)
  <2>1. UNCHANGED <<thread, workQueue, store>> /\ c.pc = "top"
    BY <1>7 DEF ConsumerTop, ConsumerOnly, c
  <2>2. CASE Same(n, "stopped") \/ Same(n, "paused")
    BY <1>1, <1>5, <2>1, <2>2 DEF Same, c
  <2>3. CASE Turns(n, "next", c.at, <<>>, {}, c.delayQ, c.pending, c.event)
    <3>1. \A id \in store'.acks[Me][n] : Spread(n, c.at, <<>>, c.delayQ, id)
      BY <1>1, <2>1 DEF Spread
    <3> QED BY <2>1, <2>3, <3>1, <1>0, KeptTurn
  <2> QED BY <1>7, <2>2, <2>3, ConsumerTopEffect DEF c
<1>8. CASE ConsumerPaused(n)
  <2>1. UNCHANGED <<thread, workQueue, store>> /\ c.pc = "paused"
    BY <1>8 DEF ConsumerPaused, ConsumerOnly, c
  <2>2. \A id \in store'.acks[Me][n] : Spread(n, c.at, c.cache, c.delayQ, id)
    BY <1>1, <2>1 DEF Spread
  <2>3. PICK e : Turns(n, "top", c.at, c.cache, c.queued, c.delayQ, c.pending, e)
    BY <1>8, ConsumerPausedEffect DEF c
  <2> QED BY <1>1, <2>1, <2>2, <2>3, <1>0, KeptTurn
<1>9. CASE NextCached(n)
  <2> DEFINE x == Head(c.cache)
             rest == Tail(c.cache)
  <2>1. UNCHANGED <<thread, workQueue, store>> /\ c.pc = "next" /\ c.cache # <<>>
    BY <1>9 DEF NextCached, ConsumerOnly, c
  <2>2. x \in Ids /\ ToSet(c.cache) = {x} \cup ToSet(rest)
    BY <2>1, ConsumerTypes, HeadTailFacts DEF c
  <2>3. job[x] \notin setup.poison
    BY <2>2 DEF NoError
  <2>4. Turns(n, "handle", x, rest, c.queued \cup {job[x]}, c.delayQ, c.pending, c.event)
    BY <1>9, <2>3, NextCachedEffect DEF c
  <2> HIDE DEF x, rest
  <2>5. \A id \in store'.acks[Me][n] : Spread(n, x, rest, c.delayQ, id)
    BY <1>1, <1>3, <1>4, <2>1, <2>2 DEF Spread
  <2> QED BY <2>1, <2>4, <2>5, <1>0, KeptTurn
<1>10. CASE NextFetch(n)
  <2>1. UNCHANGED <<thread, workQueue>>
    BY <1>10 DEF NextFetch, ConsumerOnly
  <2>2. PICK p \in Seq(Ids) :
           /\ c.pc = "next" /\ c.cache = <<>>
           /\ Taken(store, store', Me, n, p)
           /\ \E pc \in {"next", "restart", "delayed"} :
                /\ pc # "next" => p = <<>>
                /\ Turns(n, pc, c.at, p, c.queued, c.delayQ, c.pending, c.event)
    BY <1>2, <1>10, NextFetchEffect DEF c
  <2>3. /\ store'.acks[Me][n] = store.acks[Me][n] \cup ToSet(p)
        /\ \A m \in QueueNames \ {n} : store'.acks[Me][m] = store.acks[Me][m]
    BY <2>2, AcksFacts
  <2>4. \A id \in store'.acks[Me][n] : Spread(n, c.at, p, c.delayQ, id)
    BY <1>1, <2>1, <2>2, <2>3, EmptyFacts DEF Spread
  <2> QED BY <2>1, <2>2, <2>3, <2>4, <1>0, KeptTurn
<1>11. CASE HandleMessage(n)
  <2>1. UNCHANGED <<thread, store>> /\ c.pc = "handle"
    BY <1>11 DEF HandleMessage, c
  <2>2. CASE /\ UNCHANGED workQueue
             /\ Turns(n, "delayed", None, c.cache, c.queued, c.delayQ \cup {c.at},
                      c.pending + 1, c.event)
    <3> DEFINE D == c.delayQ \cup {c.at}
               k == c.pending + 1
    <3>1. \A id \in store'.acks[Me][n] : Spread(n, None, c.cache, D, id)
      BY <1>1, <2>1, <2>2 DEF Spread
    <3>2. Turns(n, "delayed", None, c.cache, c.queued, D, k, c.event)
      BY <2>2
    <3> HIDE DEF D, k
    <3> QED BY <2>1, <2>2, <3>1, <3>2, <1>0, KeptTurn
  <2>3. CASE /\ workQueue' = workQueue \cup {<<c.at, n>>}
             /\ Turns(n, "delayed", None, c.cache, c.queued, c.delayQ, c.pending, c.event)
    <3>1. \A id \in store'.acks[Me][n] : Spread(n, None, c.cache, c.delayQ, id)
      BY <1>1, <2>1, <2>3 DEF Spread
    <3> QED BY <2>1, <2>3, <3>1, <1>0, KeptTurn
  <2>4. CASE UNCHANGED workQueue /\ Same(n, "reject")
    BY <1>5, <2>1, <2>4 DEF Same, c
  <2> QED BY <1>11, <2>2, <2>3, <2>4, HandleEffect DEF c
<1>12. CASE RejectUnknown(n) \/ AckCopied(n)
  <2>1. UNCHANGED <<thread, workQueue>>
    BY <1>12 DEF RejectUnknown, AckCopied, ConsumerOnly
  <2>2. /\ c.at \in Ids /\ Settled(store, store', Me, n, c.at)
        /\ \E pending : Turns(n, "delayed", None, c.cache, c.queued \ {job[c.at]}, c.delayQ,
                              pending, c.event)
    BY <1>2, <1>12, RejectEffect, AckEffect DEF c
  <2>3. /\ store'.acks[Me][n] = store.acks[Me][n] \ {c.at}
        /\ \A m \in QueueNames \ {n} : store'.acks[Me][m] = store.acks[Me][m]
    BY <2>2, AcksFacts
  <2>4. \A id \in store'.acks[Me][n] : Spread(n, None, c.cache, c.delayQ, id)
    BY <1>1, <2>1, <2>3 DEF Spread
  <2> QED BY <2>1, <2>2, <2>3, <2>4, <1>0, KeptTurn
<1>13. CASE DelayedDue(n)
  <2>1. UNCHANGED <<thread, workQueue, store>> /\ c.pc = "delayed"
    BY <1>13 DEF DelayedDue, ConsumerOnly, c
  <2>2. PICK x \in c.delayQ :
          Turns(n, "copy", x, c.cache, c.queued, c.delayQ \ {x}, c.pending, c.event)
    BY <1>13, DueEffect DEF c
  <2> DEFINE D == c.delayQ \ {x}
  <2>3. \A id \in store'.acks[Me][n] : Spread(n, x, c.cache, D, id)
    BY <1>1, <1>3, <1>4, <2>1, <2>2 DEF Spread
  <2>4. Turns(n, "copy", x, c.cache, c.queued, D, c.pending, c.event)
    BY <2>2
  <2> HIDE DEF D
  <2> QED BY <2>1, <2>3, <2>4, <1>0, KeptTurn
<1>14. CASE CopyDelayed(n)
  <2>1. UNCHANGED <<thread, workQueue>>
    BY <1>14 DEF CopyDelayed
  <2>2. /\ Canonical[n] \in QueueNames /\ Adds(Canonical[n], job[c.at])
        /\ Same(n, "ackcopy")
    BY <1>2, <1>14, CopyEffect DEF c
  <2>3. store'.acks = store.acks
    BY <2>2 DEF Adds, Joined
  <2>4. \A id \in store'.acks[Me][n] : Spread(n, c.at, c.cache, c.delayQ, id)
    BY <1>1, <2>1, <2>3 DEF Spread
  <2>5. Turns(n, "ackcopy", c.at, c.cache, c.queued, c.delayQ, c.pending, c.event)
    BY <2>2 DEF Same, c
  <2> QED BY <2>1, <2>3, <2>4, <2>5, <1>0, KeptTurn
<1>15. CASE ConsumerError(n)
  BY <1>1, <1>15 DEF ConsumerError, c
<1>16. CASE ConsumerRestart(n)
  <2>1. UNCHANGED <<thread, workQueue>> /\ c.pc = "restart"
    BY <1>16 DEF ConsumerRestart, ConsumerOnly, c
  <2>2. CASE Same(n, "stopped") /\ UNCHANGED store
    BY <1>5, <2>1, <2>2 DEF Same, c
  <2>3. CASE GivesBack(n, c.delayQ) /\ Empties(n, "top")
    <3>1. /\ store'.acks[Me][n] = store.acks[Me][n] \ c.delayQ
          /\ \A m \in QueueNames \ {n} : store'.acks[Me][m] = store.acks[Me][m]
      BY <2>3, AcksFacts
    <3>2. \A id \in store'.acks[Me][n] : Spread(n, c.at, c.cache, {}, id)
      BY <1>1, <2>1, <3>1 DEF Spread
    <3>3. Turns(n, "top", c.at, c.cache, c.queued, {}, c.pending, c.event)
      BY <2>3 DEF Empties, c
    <3> QED BY <1>1, <2>1, <3>1, <3>2, <3>3, <1>0, KeptTurn
  <2> QED BY <1>16, <2>2, <2>3, RestartEffect DEF c
<1> QED BY <1>6, <1>7, <1>8, <1>9, <1>10, <1>11, <1>12, <1>13, <1>14, <1>15, <1>16
       DEF ConsumerStep
(* Where no consumer takes a turn, its messages stay in some place.        *)
LEMMA KeptHeld ==
  ASSUME \A m \in QueueNames : KeptIn(m),
         \A m \in QueueNames : /\ consumer'[m].pc = consumer[m].pc
                               /\ consumer'[m].cache = consumer[m].cache,
         \A m \in QueueNames : \A id \in store'.acks[Me][m] :
           /\ id \in store.acks[Me][m]
           /\ \A p \in Places : In(m, p, id) => \E r \in Places : In(m, r, id)'
  PROVE  \A m \in QueueNames : KeptIn(m)'
BY DEF KeptIn

LEMMA ThreadStepKept ==
  ASSUME Typed, \A m \in QueueNames : KeptIn(m), failures' = 0,
         NEW t \in Threads, ThreadStep(t)
  PROVE  \A m \in QueueNames : KeptIn(m)'
<1> USE DEF Typed
<1>0. UNCHANGED main.drained
  BY DEF ThreadStep, ThreadStarts, ThreadTop, ThreadGet, ThreadPaused, Finish, RetryLater,
         PostProcess, ThreadOnly
<1>1. \A m \in QueueNames : store.acks[Me][m] \subseteq Ids
  BY AcksFacts
<1>2. ~Fails
  BY SetupTypes DEF Fails
<1>3. ASSUME NEW pc, NEW failed, NEW event,
             Moves(t, pc, thread[t].at, thread[t].queue, failed, event),
             UNCHANGED <<consumer, workQueue>>, store'.acks = store.acks
      PROVE  \A m \in QueueNames : KeptIn(m)'
  <2>1. \A u \in Threads : thread'[u].at = thread[u].at /\ thread'[u].queue = thread[u].queue
    <3>1. ASSUME NEW u \in Threads
          PROVE  thread'[u].at = thread[u].at /\ thread'[u].queue = thread[u].queue
      <4>1. CASE u = t
        BY <1>3, <4>1 DEF Moves
      <4>2. CASE u # t
        BY <1>3, <4>2 DEF Moves
      <4> QED BY <4>1, <4>2
    <3> QED BY <3>1
  <2>2. \A m \in QueueNames, p \in Places : \A id : In(m, p, id) => In(m, p, id)'
    BY <1>0, <1>3, <2>1 DEF In
  <2> QED BY <1>3, <2>2, KeptHeld
<1>4. CASE ThreadStarts(t) \/ ThreadTop(t) \/ ThreadPaused(t) \/ Finish(t)
  <2>1. UNCHANGED <<consumer, workQueue>> /\ store'.acks = store.acks
    BY <1>4 DEF ThreadStarts, ThreadTop, ThreadPaused, Finish, ThreadOnly
  <2>2. \E pc, failed, event : Moves(t, pc, thread[t].at, thread[t].queue, failed, event)
    BY <1>4, StillEffect, ThreadTopEffect, ThreadPausedEffect, FinishEffect
       DEF ThreadStarts, Still
  <2> QED BY <1>3, <2>1, <2>2
<1>5. CASE ThreadGet(t)
  <2>1. UNCHANGED consumer /\ store'.acks = store.acks /\ thread[t].pc = "get"
    BY <1>5 DEF ThreadGet, ThreadOnly
  <2>2. CASE Still(t, "idle") /\ UNCHANGED workQueue
    BY <1>3, <2>1, <2>2 DEF Still
  <2>3. CASE \E x \in Ids, n \in QueueNames : Takes(t, x, n)
    <3>1. PICK x \in Ids, n \in QueueNames : Takes(t, x, n)
      BY <2>3
    <3>2. /\ workQueue' = workQueue \ {<<x, n>>}
          /\ \A u \in Threads \ {t} : thread'[u] = thread[u]
          /\ thread'[t].at = x /\ thread'[t].queue = n
      BY <3>1 DEF Takes, Moves
    <3>3. thread[t].at = None
      BY <2>1 DEF Stages
    <3>4. ASSUME NEW m \in QueueNames, NEW p \in Places, NEW id \in Ids, In(m, p, id)
          PROVE  \E r \in Places : In(m, r, id)'
      <4>0. id # None
        BY WorkerAssumption
      <4>1. CASE p \in Threads
        <5>1. p # t
          BY <3>3, <3>4, <4>0, <4>1, PlaceFacts DEF In
        <5>2. In(m, p, id)'
          BY <3>2, <3>4, <4>1, <5>1, PlaceFacts DEF In
        <5> QED BY <5>2
      <4>2. CASE p = "workQueue" /\ m = n /\ id = x
        <5>1. In(n, t, x)'
          BY <3>2 DEF In
        <5> QED BY <4>2, <5>1, PlaceFacts
      <4>3. CASE p = "workQueue" /\ ~(m = n /\ id = x)
        <5>1. In(m, p, id)'
          BY <3>2, <3>4, <4>3, PlaceFacts DEF In
        <5> QED BY <5>1
      <4>4. CASE p \notin Threads /\ p # "workQueue"
        <5>1. In(m, p, id)'
          BY <1>0, <2>1, <3>4, <4>4 DEF In
        <5> QED BY <5>1
      <4> QED BY <4>1, <4>2, <4>3, <4>4
    <3> QED BY <1>1, <2>1, <3>4, KeptHeld
  <2> QED BY <1>5, <2>2, <2>3, ThreadGetEffect
<1>6. CASE RetryLater(t)
  <2>1. UNCHANGED <<consumer, workQueue>>
    BY <1>6 DEF RetryLater, ThreadOnly
  <2>2. /\ (\E q \in QueueNames : Adds(q, job[thread[t].at])) \/ Leaves
        /\ \E failed : Moves(t, "post", thread[t].at, thread[t].queue, failed,
                             thread[t].event)
    BY <1>6, RetryEffect
  <2>3. store'.acks = store.acks
    BY <2>2 DEF Adds, Joined, Leaves
  <2> QED BY <1>3, <2>1, <2>2, <2>3
<1>7. CASE PostProcess(t)
  <2> DEFINE x == thread[t].at
             n == thread[t].queue
  <2>1. /\ x \in Ids /\ n \in QueueNames
        /\ Turns(n, consumer[n].pc, consumer[n].at, consumer[n].cache,
                 consumer[n].queued \ {job[x]}, consumer[n].delayQ,
                 consumer[n].pending, consumer[n].event)
        /\ Settled(store, store', Me, n, x)
        /\ \E failed : Moves(t, "idle", None, n, failed, thread[t].event)
    BY <1>2, <1>7, PostProcessEffect
  <2>2. UNCHANGED workQueue
    BY <1>7 DEF PostProcess
  <2>3. \A m \in QueueNames : /\ consumer'[m].pc = consumer[m].pc
                              /\ consumer'[m].cache = consumer[m].cache
                              /\ consumer'[m].at = consumer[m].at
                              /\ consumer'[m].delayQ = consumer[m].delayQ
    <3>1. ASSUME NEW m \in QueueNames
          PROVE  /\ consumer'[m].pc = consumer[m].pc
                 /\ consumer'[m].cache = consumer[m].cache
                 /\ consumer'[m].at = consumer[m].at
                 /\ consumer'[m].delayQ = consumer[m].delayQ
      <4>1. CASE m = n
        BY <2>1, <4>1 DEF Turns
      <4>2. CASE m # n
        BY <2>1, <4>2 DEF Turns
      <4> QED BY <4>1, <4>2
    <3> QED BY <3>1
  <2>4. /\ store'.acks[Me][n] = store.acks[Me][n] \ {x}
        /\ \A m \in QueueNames \ {n} : store'.acks[Me][m] = store.acks[Me][m]
    BY <2>1, AcksFacts
  <2>5. \A u \in Threads \ {t} : thread'[u] = thread[u]
    BY <2>1 DEF Moves
  <2>6. ASSUME NEW m \in QueueNames, NEW p \in Places, NEW id \in Ids, In(m, p, id),
               id \in store'.acks[Me][m]
        PROVE  In(m, p, id)'
    <3>1. CASE p \in Threads
      <4>1. p # t
        BY <2>4, <2>6, <3>1, PlaceFacts DEF In
      <4> QED BY <2>5, <2>6, <3>1, <4>1, PlaceFacts DEF In
    <3>2. CASE p \notin Threads
      BY <1>0, <2>2, <2>3, <2>6, <3>2 DEF In
    <3> QED BY <3>1, <3>2
  <2>7. ASSUME NEW m \in QueueNames PROVE store'.acks[Me][m] \subseteq store.acks[Me][m]
    BY <2>4
  <2>8. \A m \in QueueNames : \A id \in store'.acks[Me][m] :
           /\ id \in store.acks[Me][m]
           /\ \A p \in Places : In(m, p, id) => \E r \in Places : In(m, r, id)'
    BY <1>1, <2>6, <2>7
  <2> QED BY <2>3, <2>8, KeptHeld
<1> QED BY <1>4, <1>5, <1>6, <1>7 DEF ThreadStep

LEMMA MainStepKept ==
  ASSUME Typed, \A m \in QueueNames : KeptIn(m), failures' = 0, MainStep
  PROVE  \A m \in QueueNames : KeptIn(m)'
<1> USE DEF Typed
<1>1. \A m \in QueueNames : store.acks[Me][m] \subseteq Ids
  BY AcksFacts, WorkerAssumption
<1>2. \A m \in QueueNames : /\ consumer'[m].pc = consumer[m].pc
                            /\ consumer'[m].cache = consumer[m].cache
                            /\ consumer'[m].at = consumer[m].at
  BY MainStepFacts
<1>3. ASSUME store'.acks = store.acks,
             \A m \in QueueNames, p \in Places, id \in Ids : In(m, p, id) => In(m, p, id)'
      PROVE  \A m \in QueueNames : KeptIn(m)'
  <2>1. \A m \in QueueNames : \A id \in store'.acks[Me][m] :
           /\ id \in store.acks[Me][m]
           /\ \A p \in Places : In(m, p, id) => \E r \in Places : In(m, r, id)'
    BY <1>1, <1>3
  <2> QED BY <1>2, <2>1, KeptHeld
<1>4. ASSUME UNCHANGED <<store, consumer, thread, workQueue, main.drained>>
      PROVE  \A m \in QueueNames : KeptIn(m)'
  BY <1>4 DEF KeptIn, In
<1>5. ASSUME NEW c \in Children, ClearEvent(c)
      PROVE  \A m \in QueueNames : KeptIn(m)'
  <2>1. Cleared(c) /\ UNCHANGED <<store, workQueue, main.drained>>
    BY <1>5, ClearEffect DEF ClearEvent, MainOnly, MainIs
  <2>2. ASSUME NEW m \in QueueNames, NEW p \in Places, NEW id \in Ids, In(m, p, id)
        PROVE  In(m, p, id)'
    <3>1. CASE p \in Threads
      BY <2>1, <2>2, <3>1, PlaceFacts DEF In, Cleared
    <3>2. CASE p \notin Threads
      BY <2>1, <2>2, <3>2 DEF In, Cleared
    <3> QED BY <3>1, <3>2
  <2> QED BY <1>3, <2>1, <2>2
<1>6. CASE \/ Pause \/ Resume \/ PauseReturns \/ ResumeReturns
           \/ \E c \in Children : TellChild(c) \/ StopChild(c)
           \/ Stop \/ WorkersJoined \/ ConsumersJoined
  <2>1. UNCHANGED <<store, consumer, thread, workQueue>>
    BY <1>6 DEF Pause, Resume, PauseReturns, ResumeReturns, TellChild, StopChild, Stop,
                WorkersJoined, ConsumersJoined, MainOnly
  <2>2. main'.drained = main.drained
    <3>1. CASE Pause \/ Resume \/ PauseReturns \/ ResumeReturns \/ Stop
      BY <3>1, PauseEffect, ResumeEffect, StopEffect, MainAtEffect
         DEF PauseReturns, ResumeReturns, MainIs, MainAt
    <3>2. CASE WorkersJoined \/ ConsumersJoined
      BY <3>2, WorkersJoinedEffect, ConsumersJoinedEffect DEF MainIs
    <3>3. ASSUME NEW c \in Children, TellChild(c) \/ StopChild(c)
          PROVE  main'.drained = main.drained
      BY <3>3, TellEffect, StopChildEffect DEF MainIs
    <3> QED BY <1>6, <3>1, <3>2, <3>3
  <2> QED BY <1>4, <2>1, <2>2
<1>7. CASE DrainWork
  <2>1. UNCHANGED <<store, consumer, thread>>
    BY <1>7 DEF DrainWork
  <2>2. CASE MainAt("requeue") /\ UNCHANGED workQueue
    BY <1>4, <2>1, <2>2 DEF MainAt, MainIs
  <2>3. ASSUME NEW x \in Ids, NEW n \in QueueNames,
               workQueue' = workQueue \ {<<x, n>>},
               MainIs("draining", main.toTell, main.toClear,
                      main.drained \cup {<<x, n>>}, main.toClose)
        PROVE  \A m \in QueueNames : KeptIn(m)'
    <3>1. main'.drained = main.drained \cup {<<x, n>>}
      BY <2>3 DEF MainIs
    <3>2. ASSUME NEW m \in QueueNames, NEW p \in Places, NEW id \in Ids, In(m, p, id)
          PROVE  \E r \in Places : In(m, r, id)'
      <4>1. CASE p = "workQueue" /\ m = n /\ id = x
        BY <3>1, <4>1, PlaceFacts DEF In
      <4>2. CASE p = "workQueue" /\ ~(m = n /\ id = x)
        <5>1. In(m, p, id)'
          BY <2>3, <3>2, <4>2, PlaceFacts DEF In
        <5> QED BY <5>1
      <4>3. CASE p # "workQueue"
        <5>1. In(m, p, id)'
          BY <2>1, <3>1, <3>2, <4>3 DEF In
        <5> QED BY <5>1
      <4> QED BY <4>1, <4>2, <4>3
    <3>3. \A m \in QueueNames : \A id \in store'.acks[Me][m] :
             /\ id \in store.acks[Me][m]
             /\ \A p \in Places : In(m, p, id) => \E r \in Places : In(m, r, id)'
      BY <1>1, <2>1, <3>2
    <3> QED BY <1>2, <3>3, KeptHeld
  <2> QED BY <1>7, <2>2, <2>3, DrainEffect
<1>9. CASE RequeueWork
  <2>1. UNCHANGED <<consumer, thread, workQueue>>
    BY <1>9 DEF RequeueWork
  <2>2. CASE UNCHANGED store /\ main'.drained = main.drained
    BY <1>4, <2>1, <2>2
  <2>3. ASSUME NEW n \in QueueNames, main'.drained = Undrained(n),
               GivesBack(n, DrainedOf(n))
        PROVE  \A m \in QueueNames : KeptIn(m)'
    <3>1. /\ store'.acks[Me][n] = store.acks[Me][n] \ DrainedOf(n)
          /\ \A m \in QueueNames \ {n} : store'.acks[Me][m] = store.acks[Me][m]
      BY <2>3, AcksFacts
    <3>2. ASSUME NEW m \in QueueNames, NEW p \in Places, NEW id \in Ids, In(m, p, id),
                 id \in store'.acks[Me][m]
          PROVE  In(m, p, id)'
      <4>1. CASE p = "drained"
        <5>1. <<id, m>> \in main.drained /\ ~(m = n /\ id \in DrainedOf(n))
          BY <3>1, <3>2, <4>1, PlaceFacts DEF In
        <5>2. <<id, m>> \in Undrained(n)
          BY <5>1 DEF Undrained
        <5> QED BY <2>3, <4>1, <5>2 DEF In
      <4>2. CASE p # "drained"
        BY <2>1, <3>2, <4>2 DEF In
      <4> QED BY <4>1, <4>2
    <3>3. ASSUME NEW m \in QueueNames PROVE store'.acks[Me][m] \subseteq store.acks[Me][m]
      BY <3>1
    <3>4. \A m \in QueueNames : \A id \in store'.acks[Me][m] :
             /\ id \in store.acks[Me][m]
             /\ \A p \in Places : In(m, p, id) => \E r \in Places : In(m, r, id)'
      BY <1>1, <3>2, <3>3
    <3> QED BY <1>2, <3>4, KeptHeld
  <2> QED BY <1>9, <2>2, <2>3, RequeueWorkEffect DEF MainIs
<1>8. CASE CloseConsumers
  <2>1. UNCHANGED <<thread, workQueue, main.drained>>
    BY <1>8, CloseConsumersEffect DEF CloseConsumers, MainIs, MainAt
  <2>2. CASE UNCHANGED <<store, failures, consumer>>
    BY <1>4, <2>1, <2>2
  <2>3. ASSUME NEW n \in QueueNames, Empties(n, consumer[n].pc),
               GivesBack(n, consumer[n].delayQ)
        PROVE  \A m \in QueueNames : KeptIn(m)'
    <3>1. /\ store'.acks[Me][n] = store.acks[Me][n] \ consumer[n].delayQ
          /\ \A m \in QueueNames \ {n} : store'.acks[Me][m] = store.acks[Me][m]
      BY <2>3, AcksFacts
    <3>2. \A m \in QueueNames \ {n} : consumer'[m] = consumer[m]
      BY <2>3 DEF Empties, Turns
    <3>3. ASSUME NEW m \in QueueNames, NEW p \in Places, NEW id \in Ids, In(m, p, id),
                 id \in store'.acks[Me][m]
          PROVE  In(m, p, id)'
      <4>1. CASE p = "delayQ"
        <5>1. m # n
          BY <3>1, <3>3, <4>1, PlaceFacts DEF In
        <5> QED BY <3>2, <3>3, <4>1, <5>1, PlaceFacts DEF In
      <4>2. CASE p # "delayQ"
        BY <1>2, <2>1, <3>3, <4>2 DEF In
      <4> QED BY <4>1, <4>2
    <3>4. ASSUME NEW m \in QueueNames PROVE store'.acks[Me][m] \subseteq store.acks[Me][m]
      BY <3>1
    <3>5. \A m \in QueueNames : \A id \in store'.acks[Me][m] :
             /\ id \in store.acks[Me][m]
             /\ \A p \in Places : In(m, p, id) => \E r \in Places : In(m, r, id)'
      BY <1>1, <3>3, <3>4
    <3> QED BY <1>2, <3>5, KeptHeld
  <2> QED BY <1>8, <2>2, <2>3, CloseConsumersEffect
<1> QED BY <1>5, <1>6, <1>7, <1>8, <1>9 DEF MainStep, PauseStep, StopStep

LEMMA KeptStep ==
  ASSUME Placed, Kept, [Next]_vars
  PROVE  Kept'
<1> SUFFICES ASSUME NoError' PROVE \A m \in QueueNames : KeptIn(m)'
  BY DEF Kept
<1>1. NoError /\ failures' = 0 /\ \A m \in QueueNames : KeptIn(m)
  BY NoErrorBack DEF Kept
<1>2. CASE UNCHANGED vars
  BY <1>1, <1>2 DEF vars, KeptIn, In
<1>3. ASSUME NEW j \in Jobs, NEW n \in QueueNames, Send(j, n)
      PROVE  \A m \in QueueNames : KeptIn(m)'
  <2>1. UNCHANGED <<consumer, thread, workQueue, main.drained>>
    BY <1>3 DEF Send
  <2>2. store'.acks = store.acks
    BY <1>3, SendEffect DEF Placed, Typed, Adds, Joined
  <2> QED BY <1>1, <2>1, <2>2 DEF KeptIn, In
<1> QED BY <1>1, <1>2, <1>3, ConsumerStepKept, ThreadStepKept, MainStepKept DEF Next, Placed
(* Once stop() has seen the threads end, they stay ended, and what it has
   emptied stays empty.                                                    *)
LEMMA EndsStep ==
  ASSUME Typed, Ends, [Next]_vars
  PROVE  Ends'
<1> USE DEF Typed
<1>1. CASE UNCHANGED vars
  BY <1>1 DEF vars, Ends
<1>2. ASSUME NEW j \in Jobs, NEW n \in QueueNames, Send(j, n) PROVE Ends'
  BY <1>2 DEF Send, Ends
<1>3. ASSUME NEW n \in QueueNames, ConsumerStep(n) PROVE Ends'
  <2>1. UNCHANGED <<main, thread>>
    BY <1>3 DEF ConsumerStep, ConsumerStarts, ConsumerTop, ConsumerPaused, NextCached,
                NextFull, NextFetch, HandleMessage, RejectUnknown, DelayedDue, DelayedNone,
                CopyDelayed, AckCopied, ConsumerError, ConsumerRestart, ConsumerOnly
  <2>2. consumer[n].pc \notin {"stopped", "dead"}
    BY <1>3 DEF ConsumerStep, ConsumerStarts, ConsumerTop, ConsumerPaused, NextCached,
                NextFull, NextFetch, HandleMessage, RejectUnknown, DelayedDue, DelayedNone,
                CopyDelayed, AckCopied, ConsumerError, ConsumerRestart
  <2>3. main.gaveUp \/ main.pc \notin {"draining", "requeue", "closing", "done"}
    BY <2>2 DEF Ends
  <2> QED BY <2>1, <2>3 DEF Ends
<1>4. ASSUME NEW t \in Threads, ThreadStep(t) PROVE Ends'
  <2>1. UNCHANGED main
    BY <1>4 DEF ThreadStep, ThreadStarts, ThreadTop, ThreadGet, ThreadPaused, Finish,
                RetryLater, PostProcess, ThreadOnly
  <2>2. thread[t].pc # "stopped"
    BY <1>4 DEF ThreadStep, ThreadStarts, ThreadTop, ThreadGet, ThreadPaused, Finish,
                RetryLater, PostProcess
  <2>3. main.gaveUp \/ main.pc \notin {"joining", "draining", "requeue", "closing", "done"}
    BY <2>2 DEF Ends
  <2> QED BY <2>1, <2>3 DEF Ends
<1>5. CASE MainStep
  <2>0. /\ \A m \in QueueNames : consumer'[m].pc = consumer[m].pc
        /\ \A t \in Threads : thread'[t].pc = thread[t].pc
    BY <1>5, MainStepFacts
  <2>1. CASE \/ Pause \/ Resume \/ PauseReturns \/ ResumeReturns \/ Stop
             \/ \E c \in Children : TellChild(c)
    <3>1. main'.pc \in {"up", "pausing", "resuming", "stopping"}
      BY <2>1, PauseEffect, ResumeEffect, StopEffect, TellEffect, MainAtEffect
         DEF PauseReturns, ResumeReturns, TellChild, MainAt, MainIs
    <3> QED BY <3>1 DEF Ends
  <2>8. ASSUME NEW c \in Children, ClearEvent(c) PROVE Ends'
    <3>1. /\ Cleared(c) /\ UNCHANGED workQueue
          /\ MainIs(main.pc, main.toTell, {}, main.drained, main.toClose)
          /\ main'.gaveUp = main.gaveUp
      BY <2>8, ClearEffect DEF ClearEvent, MainOnly
    <3> QED BY <2>0, <3>1 DEF Cleared, MainIs, Ends
  <2>2. ASSUME NEW c \in Children, StopChild(c) PROVE Ends'
    BY <2>0, <2>2, StopChildEffect DEF MainIs, Ends
  <2>3. CASE WorkersJoined
    BY <2>0, <2>3, WorkersJoinedEffect DEF MainIs, Ends
  <2>4. CASE ConsumersJoined
    <3>1. main.pc = "joining"
      BY <2>4 DEF ConsumersJoined
    <3> QED BY <2>0, <2>4, <3>1, ConsumersJoinedEffect DEF MainIs, Ends
  <2>5. CASE DrainWork
    <3>1. main.pc = "draining" /\ main'.gaveUp = main.gaveUp
      BY <2>5, DrainEffect DEF MainAt
    <3>2. \/ main'.pc = "requeue" /\ workQueue' = {}
          \/ main'.pc = "draining"
      BY <2>5, DrainEffect DEF MainAt, MainIs
    <3> QED BY <2>0, <3>1, <3>2 DEF Ends
  <2>6. CASE RequeueWork
    <3>1. main.pc = "requeue" /\ UNCHANGED workQueue /\ main'.gaveUp = main.gaveUp
      BY <2>6, RequeueWorkEffect DEF RequeueWork
    <3>2. \/ main'.pc = "closing" /\ main'.drained = {} /\ main'.toClose = QueueNames
          \/ main'.pc \in {"requeue", "failed"}
      BY <2>6, RequeueWorkEffect DEF MainIs
    <3> QED BY <2>0, <3>1, <3>2 DEF Ends
  <2>7. CASE CloseConsumers
    <3>1. main.pc = "closing" /\ UNCHANGED workQueue /\ main'.gaveUp = main.gaveUp
      BY <2>7, CloseConsumersEffect DEF CloseConsumers
    <3>2. CASE main.toClose = {} /\ MainAt("done") /\ UNCHANGED consumer
      BY <2>0, <3>1, <3>2 DEF MainAt, MainIs, Ends
    <3>3. CASE MainAt("failed")
      BY <3>3 DEF MainAt, MainIs, Ends
    <3>4. ASSUME NEW n \in QueueNames, Empties(n, consumer[n].pc),
                 MainIs("closing", main.toTell, main.toClear, main.drained,
                        main.toClose \ {n})
          PROVE  Ends'
      <4>1. \A m \in QueueNames \ (main.toClose \ {n}) :
              consumer'[m].delayQ = {} \/ (m # n /\ consumer'[m].delayQ = consumer[m].delayQ)
        BY <3>4 DEF Empties, Turns
      <4> QED BY <2>0, <3>1, <3>4, <4>1 DEF MainIs, Ends
    <3> QED BY <2>7, <3>2, <3>3, <3>4, CloseConsumersEffect
  <2> QED BY <1>5, <2>1, <2>2, <2>3, <2>4, <2>5, <2>6, <2>7, <2>8
         DEF MainStep, PauseStep, StopStep
<1> QED BY <1>1, <1>2, <1>3, <1>4, <1>5 DEF Next

(* Every message that the server counts as fetched by this process is
   somewhere in the process; and once stop() is through, and did not give
   up waiting for a thread, in a consumer's own cache.  The invariant adds
   which consumers have an empty cache, so that a new one forgets nothing,
   and how far each stage of stop() has come.                              *)
THEOREM NothingForgotten == Spec => []NoneForgotten
<1>1. Init => Kept /\ Ends
  <2> SUFFICES ASSUME Init PROVE Kept /\ Ends
    OBVIOUS
  <2>1. main.pc = "up"
    BY DEF Init
  <2>2. \A n \in QueueNames : KeptIn(n)
    BY Starting, NothingYet DEF KeptIn
  <2> QED BY <2>1, <2>2 DEF Kept, Ends
<1>2. Placed /\ Kept /\ Ends /\ [Next]_vars => Kept' /\ Ends'
  BY KeptStep, EndsStep DEF Placed
<1>3. Placed /\ Kept /\ Ends => NoneForgotten
  <2> SUFFICES ASSUME Placed, Kept, Ends, NoError PROVE
               /\ \A n \in QueueNames : store.acks[Me][n] \subseteq InHand(n)
               /\ main.pc = "done" /\ ~main.gaveUp =>
                    \A n \in QueueNames : store.acks[Me][n] \subseteq ToSet(consumer[n].cache)
    BY DEF NoneForgotten
  <2> USE DEF Placed, Typed
  <2>1. ASSUME NEW n \in QueueNames, NEW id \in store.acks[Me][n]
        PROVE  id \in Ids /\ \E p \in Places : In(n, p, id)
    BY AcksFacts DEF Kept, KeptIn
  <2>2. ASSUME NEW n \in QueueNames, NEW id \in store.acks[Me][n]
        PROVE  id \in InHand(n)
    BY <2>1, AtFacts DEF InHand
  <2>3. ASSUME main.pc = "done", ~main.gaveUp, NEW n \in QueueNames,
               NEW id \in store.acks[Me][n]
        PROVE  id \in ToSet(consumer[n].cache)
    <3>0. id # None
      BY <2>1, WorkerAssumption
    <3>1. /\ \A t \in Threads : thread[t].at = None
          /\ consumer[n].at = None /\ workQueue = {} /\ consumer[n].delayQ = {}
          /\ main.drained = {}
      BY <2>3 DEF Ends, Stages
    <3>2. PICK p \in Places : In(n, p, id)
      BY <2>1
    <3> QED BY <3>0, <3>1, <3>2 DEF In
  <2> QED BY <2>2, <2>3
<1> QED BY PlacedAlways, <1>1, <1>2, <1>3, PTL DEF Spec
-----------------------------------------------------------------------------
(* The prefetch.                                                           *)

(* A message is held by the process, or is on the queue.                   *)
Present(n, id) == Held(n, id) \/ Listed(n, id)

(* A message that has been replaced: by its copy, or by a retry.           *)
Acking(n, id) == consumer[n].pc = "ackcopy" /\ consumer[n].at = id
Posting(n, id) ==
  \E t \in Threads : thread[t].pc = "post" /\ thread[t].at = id /\ thread[t].queue = n
Current(n, id) == ~Acking(n, id) /\ (retries[job[id]] = 0 \/ ~Posting(n, id))

(* Threads have messages of the queues proper, delay queues hold delayed
   ones.                                                                   *)
Sorted ==
  /\ \A n \in QueueNames : consumer[n].delayQ # {} \/ consumer[n].pc = "copy" => IsDelay(n)
  /\ \A id \in Ids, n \in QueueNames : <<id, n>> \in workQueue => ~IsDelay(n)
  /\ \A t \in Threads : thread[t].at # None => ~IsDelay(thread[t].queue)

(* A job has one message, those that have been replaced aside.             *)
Single ==
  \A n, m \in QueueNames, x, y \in Ids :
    /\ Present(n, x) /\ Current(n, x) /\ Present(m, y) /\ Current(m, y)
    /\ job[x] = job[y]
    => x = y /\ n = m
AckAlone ==
  \A n \in QueueNames : consumer[n].pc = "ackcopy" =>
    \A y \in Ids : Held(n, y) /\ job[y] = job[consumer[n].at] => y = consumer[n].at
Sole == NoError => Single /\ AckAlone

LEMMA PresentAfter ==
  ASSUME Placed, [Next]_vars, NEW n \in QueueNames, NEW id \in Ids
  PROVE  /\ Present(n, id)' =>
              \/ Present(n, id) /\ job[id] \in Jobs /\ job'[id] = job[id]
              \/ job[id] \notin Jobs /\ job'[id] \in Jobs /\ ~Held(n, id)'
         /\ Held(n, id)' => \/ Held(n, id)
                            \/ Listed(n, id) /\ consumer[n].pc = "next"
<1>1. Goes(n, id) /\ (job[id] \in Jobs => job'[id] = job[id])
  BY PlacedStep DEF Passes
<1>2. Present(n, id) => job[id] \in Jobs
  BY DEF Present, Held, Placed, Typed, Known
<1>3. CASE /\ \A r \in Places : In(n, r, id)' => In(n, r, id)
           /\ Listed(n, id)' => Listed(n, id)
  BY <1>1, <1>2, <1>3 DEF Present, Held
<1>4. CASE Fetches(n, id)
  BY <1>1, <1>2, <1>4 DEF Present, Fetches
<1>5. CASE Had(n, id) /\ \A r \in Places : ~In(n, r, id)'
  BY <1>1, <1>2, <1>5 DEF Present, Held, Had
<1> QED BY <1>1, <1>3, <1>4, <1>5 DEF Goes

(* What a step that adds a message adds.                                   *)
LEMMA AddedPresent ==
  ASSUME Placed, [Next]_vars, HasFresh, NEW q \in QueueNames, NEW j \in Jobs, Adds(q, j)
  PROVE  /\ Fresh \in Ids /\ job'[Fresh] = j
         /\ \A n \in QueueNames, id \in Ids : Present(n, id)' =>
              \/ n = q /\ id = Fresh
              \/ Present(n, id) /\ job[id] \in Jobs /\ job'[id] = job[id]
<1>1. /\ Fresh \in Ids /\ job[Fresh] \notin Jobs
      /\ \A n \in QueueNames : ~Listed(n, Fresh)
  BY FreshFacts DEF Placed, Typed
<1>2. job' = [job EXCEPT ![Fresh] = j] /\ job \in [Ids -> Jobs \cup {NoJob}]
  BY JobTypes DEF Adds, Placed, Typed
<1>3. \A n \in QueueNames \ {q} : store'.list[n] = store.list[n]
  BY DEF Adds, Joined, Frames
<1> HIDE DEF Fresh
<1>4. ASSUME NEW n \in QueueNames, NEW id \in Ids, Present(n, id)',
             job[id] \notin Jobs, job'[id] \in Jobs, ~Held(n, id)'
      PROVE  n = q /\ id = Fresh
  <2>1. id = Fresh
    BY <1>1, <1>2, <1>4
  <2>2. Listed(n, id)'
    BY <1>4 DEF Present
  <2> QED BY <1>1, <1>3, <2>1, <2>2 DEF Listed
<1>5. job'[Fresh] = j
  BY <1>1, <1>2
<1> QED BY <1>1, <1>4, <1>5, PresentAfter

LEMMA SingleKept ==
  ASSUME Single,
         \A n \in QueueNames, id \in Ids : Present(n, id)' /\ Current(n, id)' =>
           Present(n, id) /\ Current(n, id) /\ job'[id] = job[id]
  PROVE  Single'
BY DEF Single

LEMMA SingleAdded ==
  ASSUME Single, NEW q \in QueueNames, NEW f \in Ids,
         \A n \in QueueNames, id \in Ids : Present(n, id)' /\ Current(n, id)' =>
           \/ n = q /\ id = f
           \/ Present(n, id) /\ Current(n, id) /\ job'[id] = job[id] /\ job'[id] # job'[f]
  PROVE  Single'
BY DEF Single

(* Consumer n is the only one that its step changes.                       *)
LEMMA ConsumerStepOthers ==
  ASSUME TypeOK, NEW n \in QueueNames, ConsumerStep(n)
  PROVE  /\ UNCHANGED <<thread, retries, main>>
         /\ \A m \in QueueNames \ {n} : consumer'[m] = consumer[m]
         /\ consumer[n].pc = "ackcopy" => AckCopied(n)
         /\ consumer'[n].pc = "ackcopy" /\ ~AckCopied(n) => CopyDelayed(n)
         /\ job' # job => CopyDelayed(n)
<1>0. consumer \in [QueueNames -> Consumer]
  BY ConsumerTypes
<1>1. CASE \/ ConsumerStarts(n) \/ ConsumerTop(n) \/ ConsumerPaused(n)
           \/ NextCached(n) \/ NextFull(n) \/ DelayedNone(n) \/ DelayedDue(n)
  <2>1. UNCHANGED <<thread, retries, main, job>>
    BY <1>1 DEF ConsumerStarts, ConsumerTop, ConsumerPaused, NextCached, NextFull, DelayedNone,
                DelayedDue, ConsumerOnly, work
  <2>2. /\ \A m \in QueueNames \ {n} : consumer'[m] = consumer[m]
        /\ consumer[n].pc # "ackcopy"
    BY <1>0, <1>1 DEF ConsumerStarts, ConsumerTop, ConsumerPaused, NextCached, NextFull,
                      DelayedNone, DelayedDue, Goto
  <2>3. consumer'[n].pc # "ackcopy"
    <3>1. CASE ConsumerStarts(n) \/ ConsumerTop(n) \/ ConsumerPaused(n)
      BY <1>0, <3>1 DEF ConsumerStarts, ConsumerTop, ConsumerPaused, Goto, Consumer
    <3>2. CASE NextCached(n)
      BY <1>0, <3>2 DEF NextCached, Consumer
    <3>3. CASE NextFull(n) \/ DelayedNone(n)
      BY <1>0, <3>3 DEF NextFull, DelayedNone, Goto, AfterNone, Consumer
    <3>4. CASE DelayedDue(n)
      BY <1>0, <3>4 DEF DelayedDue, Consumer
    <3> QED BY <1>1, <3>1, <3>2, <3>3, <3>4
  <2> QED BY <2>1, <2>2, <2>3
<1>2. CASE NextFetch(n) \/ HandleMessage(n)
  <2>1. UNCHANGED <<thread, retries, main, job>>
    BY <1>2 DEF NextFetch, HandleMessage, ConsumerOnly, work
  <2>2. /\ \A m \in QueueNames \ {n} : consumer'[m] = consumer[m]
        /\ consumer[n].pc # "ackcopy" /\ consumer'[n].pc # "ackcopy"
    BY <1>0, <1>2 DEF NextFetch, HandleMessage, Goto, AfterNone, Consumer
  <2> QED BY <2>1, <2>2
<1>3. CASE RejectUnknown(n) \/ AckCopied(n)
  <2>1. UNCHANGED <<thread, retries, main, job>>
    BY <1>3 DEF RejectUnknown, AckCopied, ConsumerOnly, work
  <2>2. /\ \A m \in QueueNames \ {n} : consumer'[m] = consumer[m]
        /\ RejectUnknown(n) => consumer[n].pc # "ackcopy" /\ consumer'[n].pc # "ackcopy"
    BY <1>0, <1>3 DEF RejectUnknown, AckCopied, Post, Consumer
  <2> QED BY <1>3, <2>1, <2>2
<1>4. CASE CopyDelayed(n)
  BY <1>0, <1>4 DEF CopyDelayed, Goto
<1>5. CASE ConsumerError(n) \/ ConsumerRestart(n)
  <2>1. UNCHANGED <<thread, retries, main, job>>
    BY <1>5 DEF ConsumerError, ConsumerRestart, ConsumerOnly, work
  <2>2. /\ \A m \in QueueNames \ {n} : consumer'[m] = consumer[m]
        /\ consumer[n].pc # "ackcopy" /\ consumer'[n].pc # "ackcopy"
    BY <1>0, <1>5 DEF ConsumerError, ConsumerRestart, Close, requeue_messages, Emptied, Goto,
                      Consumer
  <2> QED BY <2>1, <2>2
<1> QED BY <1>1, <1>2, <1>3, <1>4, <1>5 DEF ConsumerStep

LEMMA ThreadStepOthers ==
  ASSUME TypeOK, NEW t \in Threads, ThreadStep(t)
  PROVE  /\ UNCHANGED main
         /\ \A m \in QueueNames : consumer'[m].pc = consumer[m].pc /\ consumer'[m].at = consumer[m].at
         /\ \A u \in Threads \ {t} : thread'[u] = thread[u]
         /\ thread[t].pc = "post" => PostProcess(t)
         /\ retries' # retries => RetryLater(t)
         /\ job' # job => RetryLater(t)
<1>0. consumer \in [QueueNames -> Consumer] /\ thread \in [Threads -> Thread]
  BY ConsumerTypes, ThreadTypes
<1>1. CASE \/ ThreadStarts(t) \/ ThreadTop(t) \/ ThreadPaused(t) \/ ThreadGet(t) \/ Finish(t)
  <2>1. UNCHANGED <<main, consumer, retries, job>>
    BY <1>1 DEF ThreadStarts, ThreadTop, ThreadPaused, ThreadGet, Finish, ThreadOnly, work
  <2>2. /\ \A u \in Threads \ {t} : thread'[u] = thread[u]
        /\ thread[t].pc # "post"
    BY <1>0, <1>1 DEF ThreadStarts, ThreadTop, ThreadPaused, ThreadGet, Finish
  <2> QED BY <2>1, <2>2
<1>2. CASE RetryLater(t)
  <2>1. UNCHANGED <<main, consumer>>
    BY <1>2 DEF RetryLater, ThreadOnly
  <2>2. /\ \A u \in Threads \ {t} : thread'[u] = thread[u]
        /\ thread[t].pc # "post"
    BY <1>0, <1>2 DEF RetryLater
  <2> QED BY <1>2, <2>1, <2>2
<1>3. CASE PostProcess(t)
  <2>1. UNCHANGED <<main, retries, job>>
    BY <1>3 DEF PostProcess, work
  <2>2. \A u \in Threads \ {t} : thread'[u] = thread[u]
    BY <1>0, <1>3 DEF PostProcess, Post
  <2>3. \A m \in QueueNames : consumer'[m].pc = consumer[m].pc /\ consumer'[m].at = consumer[m].at
    BY <1>0, <1>3 DEF PostProcess, Consumer
  <2> QED BY <1>3, <2>1, <2>2, <2>3
<1> QED BY <1>1, <1>2, <1>3 DEF ThreadStep

LEMMA MainStepOthers ==
  ASSUME Typed, MainStep
  PROVE  /\ \A m \in QueueNames : /\ consumer'[m].pc = consumer[m].pc
                                  /\ consumer'[m].at = consumer[m].at
         /\ \A t \in Threads : /\ thread'[t].pc = thread[t].pc /\ thread'[t].at = thread[t].at
                               /\ thread'[t].queue = thread[t].queue
         /\ UNCHANGED <<job, retries>>
<1>1. UNCHANGED retries /\ \A t \in Threads : thread'[t].queue = thread[t].queue
  <2>1. CASE \E c \in Children : ClearEvent(c)
    BY <2>1, ClearEffect DEF ClearEvent, MainOnly, work, Cleared, Typed
  <2>2. CASE ~\E c \in Children : ClearEvent(c)
    BY <2>2 DEF MainStep, PauseStep, StopStep, Pause, Resume, PauseReturns, ResumeReturns,
            TellChild, StopChild, Stop, WorkersJoined, ConsumersJoined, DrainWork, RequeueWork,
            CloseConsumers, MainOnly, work
  <2> QED BY <2>1, <2>2
<1> QED BY <1>1, MainStepFacts

LEMMA SortedStep ==
  ASSUME Typed, Sorted, [Next]_vars
  PROVE  Sorted'
<1> USE DEF Typed
<1>1. ASSUME UNCHANGED consumer, \A id, m : <<id, m>> \in workQueue' => <<id, m>> \in workQueue,
             \A t \in Threads : \/ thread'[t].at = None
                                \/ thread'[t].at = thread[t].at /\ thread'[t].queue = thread[t].queue
      PROVE  Sorted'
  BY <1>1 DEF Sorted, IsDelay
<1>2. CASE UNCHANGED vars
  BY <1>2 DEF vars, Sorted, IsDelay
<1>3. ASSUME NEW j \in Jobs, NEW n \in QueueNames, Send(j, n) PROVE Sorted'
  BY <1>3, <1>1 DEF Send
<1>4. ASSUME NEW n \in QueueNames, ConsumerStep(n) PROVE Sorted'
  <2>0. /\ consumer[n].delayQ # {} \/ consumer[n].pc = "copy" => IsDelay(n)
        /\ UNCHANGED thread /\ \A m \in QueueNames \ {n} : consumer'[m] = consumer[m]
    BY <1>4, ConsumerStepOthers DEF Sorted
  <2>1. /\ consumer'[n].delayQ # {} \/ consumer'[n].pc = "copy" => IsDelay(n)
        /\ \A id, m : <<id, m>> \in workQueue' => <<id, m>> \in workQueue \/ (m = n /\ ~IsDelay(n))
    <3>1. CASE ConsumerStarts(n) \/ NextFull(n) \/ DelayedNone(n)
      <4>1. UNCHANGED workQueue
        BY <3>1 DEF ConsumerStarts, NextFull, DelayedNone, ConsumerOnly
      <4>2. \E pc \in {"top", "delayed", "restart", "next", "stopped"} : Same(n, pc)
        BY <3>1, GotoEffect DEF ConsumerStarts, NextFull, DelayedNone, AfterNone, Same
      <4> QED BY <2>0, <4>1, <4>2 DEF Same, Turns
    <3>2. CASE ConsumerTop(n) \/ ConsumerPaused(n)
      <4>1. UNCHANGED workQueue
        BY <3>2 DEF ConsumerTop, ConsumerPaused, ConsumerOnly
      <4>2. CASE ConsumerTop(n)
        BY <2>0, <4>1, <4>2, ConsumerTopEffect DEF Same, Turns
      <4>3. CASE ConsumerPaused(n)
        BY <2>0, <4>1, <4>3, ConsumerPausedEffect DEF Turns
      <4> QED BY <3>2, <4>2, <4>3
    <3>3. CASE NextCached(n)
      <4>1. UNCHANGED workQueue
        BY <3>3 DEF NextCached, ConsumerOnly
      <4> QED BY <2>0, <3>3, <4>1, NextCachedEffect DEF Turns
    <3>4. CASE NextFetch(n)
      <4>1. UNCHANGED workQueue
        BY <3>4 DEF NextFetch, ConsumerOnly
      <4>2. /\ consumer'[n].pc \in {"next", "restart", "delayed"}
            /\ consumer'[n].delayQ \in {consumer[n].delayQ, {}}
        BY <3>4, NextFetchEffect DEF Turns
      <4> QED BY <2>0, <4>1, <4>2
    <3>5. CASE HandleMessage(n)
      <4>1. workQueue' # workQueue => ~IsDelay(n)
        BY <3>5 DEF HandleMessage
      <4>2. /\ consumer'[n].pc \in {"delayed", "reject"}
            /\ consumer'[n].delayQ # {} => consumer[n].delayQ # {} \/ IsDelay(n)
        BY <3>5, HandleEffect DEF Same, Turns
      <4>3. \A id, m : <<id, m>> \in workQueue' => <<id, m>> \in workQueue \/ m = n
        BY <3>5 DEF HandleMessage
      <4> QED BY <2>0, <4>1, <4>2, <4>3
    <3>6. CASE RejectUnknown(n) \/ AckCopied(n)
      <4>1. UNCHANGED workQueue
        BY <3>6 DEF RejectUnknown, AckCopied, ConsumerOnly
      <4>2. /\ consumer'[n].pc \in {"delayed", "reject", "ackcopy"}
            /\ consumer'[n].delayQ = consumer[n].delayQ
        BY <3>6, RejectEffect, AckEffect DEF Turns
      <4> QED BY <2>0, <4>1, <4>2
    <3>7. CASE DelayedDue(n)
      <4>1. UNCHANGED workQueue
        BY <3>7 DEF DelayedDue, ConsumerOnly
      <4>2. consumer[n].delayQ # {}
        BY <3>7 DEF DelayedDue
      <4> QED BY <2>0, <4>1, <4>2
    <3>8. CASE CopyDelayed(n)
      <4>1. UNCHANGED workQueue
        BY <3>8 DEF CopyDelayed
      <4> QED BY <2>0, <3>8, <4>1, CopyEffect DEF Same, Turns
    <3>9. CASE ConsumerError(n) \/ ConsumerRestart(n)
      <4>1. UNCHANGED workQueue
        BY <3>9 DEF ConsumerError, ConsumerRestart, ConsumerOnly
      <4>2. /\ consumer'[n].pc \in {"restart", "dead", "top", "stopped"}
            /\ consumer'[n].delayQ \in {consumer[n].delayQ, {}}
        BY <3>9, ErrorEffect, RestartEffect DEF Same, Empties, Turns
      <4> QED BY <2>0, <4>1, <4>2
    <3> QED BY <1>4, <3>1, <3>2, <3>3, <3>4, <3>5, <3>6, <3>7, <3>8, <3>9 DEF ConsumerStep
  <2> QED BY <2>0, <2>1 DEF Sorted, IsDelay
<1>5. ASSUME NEW t \in Threads, ThreadStep(t) PROVE Sorted'
  <2>1. CASE ThreadGet(t)
    <3>1. UNCHANGED consumer
      BY <2>1 DEF ThreadGet, ThreadOnly
    <3>2. CASE Still(t, "idle") /\ UNCHANGED workQueue
      BY <1>1, <3>1, <3>2 DEF Still, Moves
    <3>3. CASE \E x \in Ids, m \in QueueNames : Takes(t, x, m)
      <4>1. PICK x \in Ids, m \in QueueNames : Takes(t, x, m)
        BY <3>3
      <4>2. /\ ~IsDelay(m) /\ \A i, q : <<i, q>> \in workQueue' => <<i, q>> \in workQueue
            /\ thread'[t].queue = m /\ \A u \in Threads \ {t} : thread'[u] = thread[u]
        BY <4>1 DEF Takes, Moves, Sorted
      <4> QED BY <3>1, <4>2 DEF Sorted, IsDelay
    <3> QED BY <2>1, <3>2, <3>3, ThreadGetEffect
  <2>2. CASE ThreadStarts(t) \/ ThreadTop(t) \/ ThreadPaused(t) \/ Finish(t) \/ RetryLater(t)
    <3>1. UNCHANGED <<consumer, workQueue>>
      BY <2>2 DEF ThreadStarts, ThreadTop, ThreadPaused, Finish, RetryLater, ThreadOnly
    <3>2. \E pc, failed, event : Moves(t, pc, thread[t].at, thread[t].queue, failed, event)
      BY <2>2, StillEffect, ThreadTopEffect, ThreadPausedEffect, FinishEffect, RetryEffect
         DEF Still, ThreadStarts
    <3> QED BY <1>1, <3>1, <3>2 DEF Moves
  <2>3. CASE PostProcess(t)
    <3>1. UNCHANGED workQueue
      BY <2>3 DEF PostProcess
    <3>2. \A u \in Threads : \/ thread'[u].at = None
                             \/ thread'[u].at = thread[u].at /\ thread'[u].queue = thread[u].queue
      BY <2>3, PostProcessEffect DEF Moves
    <3>3. \A m \in QueueNames : consumer'[m].pc = consumer[m].pc /\ consumer'[m].delayQ = consumer[m].delayQ
      BY <2>3, PostProcessEffect DEF Turns
    <3> QED BY <3>1, <3>2, <3>3 DEF Sorted, IsDelay
  <2> QED BY <1>5, <2>1, <2>2, <2>3 DEF ThreadStep
<1>6. CASE MainStep
  <2>1. /\ \A m \in QueueNames : consumer'[m].pc = consumer[m].pc
        /\ \A t \in Threads : thread'[t].at = thread[t].at /\ thread'[t].queue = thread[t].queue
    BY <1>6, MainStepOthers
  <2>2. /\ \A id, m : <<id, m>> \in workQueue' => <<id, m>> \in workQueue
        /\ \A m \in QueueNames : consumer'[m].delayQ \subseteq consumer[m].delayQ
    <3>1. CASE \E c \in Children : ClearEvent(c)
      BY <3>1, ClearEffect DEF ClearEvent, MainOnly, Cleared
    <3>2. CASE CloseConsumers
      BY <3>2, CloseConsumersEffect DEF CloseConsumers, Empties, Turns
    <3>3. CASE ~CloseConsumers /\ ~\E c \in Children : ClearEvent(c)
      BY <1>6, <3>3 DEF MainStep, PauseStep, StopStep, Pause, Resume, PauseReturns,
         ResumeReturns, TellChild, StopChild, Stop, WorkersJoined, ConsumersJoined, DrainWork,
         RequeueWork, MainOnly, work
    <3> QED BY <3>1, <3>2, <3>3
  <2> QED BY <2>1, <2>2 DEF Sorted, IsDelay
<1> QED BY <1>2, <1>3, <1>4, <1>5, <1>6 DEF Next

(* A message that was replaced is so until it is settled, and gone.        *)
Lasting ==
  \A n \in QueueNames, id \in Ids :
    job[id] \in Jobs /\ job'[id] = job[id] /\ Present(n, id)' /\ Current(n, id)' => Current(n, id)

(* What has been settled is nowhere.                                       *)
LEMMA SettledGone ==
  ASSUME Placed, NEW n \in QueueNames, NEW id \in Ids, NEW p \in Places, In(n, p, id),
         \A r \in Places \ {p} : In(n, r, id)' => In(n, r, id), ~In(n, p, id)',
         store'.list[n] = store.list[n]
  PROVE  ~Present(n, id)'
BY DEF Placed, Custody, Present, Held, Listed

LEMMA AckedGone ==
  ASSUME Placed, failures' = 0, NEW n \in QueueNames, AckCopied(n),
         NEW id \in Ids, consumer[n].at = id
  PROVE  ~Present(n, id)' /\ consumer'[n].pc = "delayed"
<1> USE DEF Placed, Typed
<1>0. ~Fails
  BY SetupTypes DEF Fails
<1>1. /\ id # None /\ PostEffect(n, id)
      /\ \E k : Turns(n, "delayed", None, consumer[n].cache, consumer[n].queued \ {job[id]},
                      consumer[n].delayQ, k, consumer[n].event)
  BY <1>0, AckEffect, WorkerAssumption
<1>2. UNCHANGED <<thread, workQueue, main.drained>>
  BY DEF AckCopied, ConsumerOnly
<1>3. \A r \in Places :
           /\ r = "cache" => (In(n, r, id)' <=> id \in ToSet(consumer[n].cache))
           /\ r = "hand" => (In(n, r, id)' <=> None = id)
           /\ r = "delayQ" => (In(n, r, id)' <=> id \in consumer[n].delayQ)
           /\ r \notin {"cache", "hand", "delayQ"} => (In(n, r, id)' <=> In(n, r, id))
  BY <1>1, <1>2, HeldAfter
<1>4. In(n, "hand", id) /\ "hand" \in Places
  BY PlaceFacts DEF In
<1>5. /\ ~In(n, "hand", id)'
      /\ \A r \in Places \ {"hand"} : In(n, r, id)' => In(n, r, id)
  BY <1>1, <1>3, PlaceFacts DEF In
<1>6. store'.list[n] = store.list[n] /\ consumer'[n].pc = "delayed"
  BY <1>1, SettledLists DEF Turns
<1> QED BY <1>4, <1>5, <1>6, SettledGone

LEMMA PostedGone ==
  ASSUME Placed, failures' = 0, NEW t \in Threads, PostProcess(t),
         NEW id \in Ids, NEW n \in QueueNames, thread[t].at = id, thread[t].queue = n
  PROVE  ~Present(n, id)'
<1> USE DEF Placed, Typed
<1>0. ~Fails
  BY SetupTypes DEF Fails
<1>1. /\ id # None /\ PostEffect(n, id)
      /\ Turns(n, consumer[n].pc, consumer[n].at, consumer[n].cache,
               consumer[n].queued \ {job[id]}, consumer[n].delayQ,
               consumer[n].pending, consumer[n].event)
      /\ Moves(t, "idle", None, n, FALSE, thread[t].event)
  BY <1>0, PostProcessEffect, WorkerAssumption
<1>2. UNCHANGED <<workQueue, main.drained>>
  BY DEF PostProcess
<1>3. /\ consumer'[n].cache = consumer[n].cache /\ consumer'[n].at = consumer[n].at
      /\ consumer'[n].delayQ = consumer[n].delayQ
      /\ thread'[t].at = None /\ \A u \in Threads \ {t} : thread'[u] = thread[u]
  BY <1>1 DEF Turns, Moves
<1>4. In(n, t, id) /\ t \in Places
  BY PlaceFacts DEF In
<1>5. ~In(n, t, id)'
  BY <1>1, <1>3, PlaceFacts DEF In
<1>6. ASSUME NEW r \in Places \ {t}, In(n, r, id)' PROVE In(n, r, id)
  <2>1. CASE r \in Threads
    BY <1>3, <1>6, <2>1, PlaceFacts DEF In
  <2>2. CASE r \notin Threads
    BY <1>2, <1>3, <1>6, <2>2 DEF In
  <2> QED BY <2>1, <2>2
<1>7. store'.list[n] = store.list[n]
  BY <1>1, SettledLists
<1> QED BY <1>4, <1>5, <1>6, <1>7, SettledGone

LEMMA ConsumerStepLasting ==
  ASSUME Placed, failures' = 0, NEW n \in QueueNames, ConsumerStep(n)
  PROVE  Lasting
<1>1. /\ UNCHANGED <<thread, retries>>
      /\ \A m \in QueueNames \ {n} : consumer'[m] = consumer[m]
      /\ consumer[n].pc = "ackcopy" => AckCopied(n)
  BY ConsumerStepOthers DEF Placed, Typed
<1>2. \A id \in Ids : Acking(n, id) => ~Present(n, id)'
  BY <1>1, AckedGone DEF Acking
<1>3. ASSUME NEW m \in QueueNames, NEW id \in Ids, job'[id] = job[id], Present(m, id)',
             Current(m, id)'
      PROVE  Current(m, id)
  <2>1. Posting(m, id)' <=> Posting(m, id)
    BY <1>1 DEF Posting
  <2>2. Acking(m, id) => Acking(m, id)'
    BY <1>1, <1>2, <1>3 DEF Acking
  <2> QED BY <1>1, <1>3, <2>1, <2>2 DEF Current
<1> QED BY <1>3 DEF Lasting

LEMMA ThreadStepLasting ==
  ASSUME Placed, failures' = 0, NEW t \in Threads, ThreadStep(t)
  PROVE  Lasting
<1>1. /\ \A m \in QueueNames : consumer'[m].pc = consumer[m].pc /\ consumer'[m].at = consumer[m].at
      /\ \A u \in Threads \ {t} : thread'[u] = thread[u]
      /\ thread[t].pc = "post" => PostProcess(t)
      /\ retries' # retries => RetryLater(t)
  BY ThreadStepOthers DEF Placed, Typed
<1>2. \A id \in Ids, n \in QueueNames :
        thread[t].pc = "post" /\ thread[t].at = id /\ thread[t].queue = n => ~Present(n, id)'
  BY <1>1, PostedGone
<1>3. ASSUME NEW j \in Jobs, retries'[j] = 0 PROVE retries[j] = 0
  <2>1. CASE RetryLater(t)
    <3>1. PICK i \in Jobs : retries' = [retries EXCEPT ![i] = @ + 1]
      BY <2>1, RetryEffect DEF Placed, Typed
    <3>2. retries \in [Jobs -> Nat]
      BY SetupTypes DEF Placed, Typed, TypeOK
    <3> QED BY <1>3, <3>1, <3>2
  <2> QED BY <1>1, <1>3, <2>1
<1>4. ASSUME NEW m \in QueueNames, NEW id \in Ids, job[id] \in Jobs, job'[id] = job[id],
             Present(m, id)', Current(m, id)'
      PROVE  Current(m, id)
  <2>1. ASSUME Posting(m, id) PROVE Posting(m, id)'
    <3>1. PICK u \in Threads : thread[u].pc = "post" /\ thread[u].at = id /\ thread[u].queue = m
      BY <2>1 DEF Posting
    <3>2. u # t
      BY <1>2, <1>4, <3>1
    <3> QED BY <1>1, <3>1, <3>2 DEF Posting
  <2>2. Acking(m, id) => Acking(m, id)'
    BY <1>1 DEF Acking
  <2> QED BY <1>3, <1>4, <2>1, <2>2 DEF Current
<1> QED BY <1>4 DEF Lasting

LEMMA StepLasting ==
  ASSUME Placed, failures' = 0, [Next]_vars
  PROVE  Lasting
<1>1. ASSUME \A m \in QueueNames : consumer'[m].pc = consumer[m].pc /\ consumer'[m].at = consumer[m].at,
             \A t \in Threads : /\ thread'[t].pc = thread[t].pc /\ thread'[t].at = thread[t].at
                                /\ thread'[t].queue = thread[t].queue,
             UNCHANGED retries
      PROVE  Lasting
  BY <1>1 DEF Lasting, Current, Acking, Posting
<1>2. CASE MainStep
  BY <1>1, <1>2, MainStepOthers DEF Placed
<1>3. CASE UNCHANGED vars \/ \E j \in Jobs, n \in QueueNames : Send(j, n)
  BY <1>1, <1>3 DEF vars, Send
<1> QED BY <1>2, <1>3, ConsumerStepLasting, ThreadStepLasting DEF Next

(* A message is replaced by one that is added.                             *)
LEMMA SingleReplaced ==
  ASSUME Placed, Single, Lasting, [Next]_vars, HasFresh, NEW q \in QueueNames,
         NEW n \in QueueNames, NEW x \in Ids, NEW j \in Jobs, job[x] = j,
         Present(n, x), Current(n, x), Adds(q, j), ~Current(n, x)'
  PROVE  Single'
<1>1. PICK f \in Ids : f = Fresh
  BY AddedPresent
<1>2. /\ job'[f] = j
      /\ \A m \in QueueNames, id \in Ids : Present(m, id)' =>
           \/ m = q /\ id = f
           \/ Present(m, id) /\ job[id] \in Jobs /\ job'[id] = job[id]
  BY <1>1, AddedPresent
<1>3. ASSUME NEW m \in QueueNames, NEW id \in Ids, Present(m, id)', Current(m, id)',
             ~(m = q /\ id = f)
      PROVE  Present(m, id) /\ Current(m, id) /\ job'[id] = job[id] /\ job'[id] # job'[f]
  <2>1. Present(m, id) /\ job[id] \in Jobs /\ job'[id] = job[id]
    BY <1>2, <1>3
  <2>2. Current(m, id)
    BY <1>3, <2>1 DEF Lasting
  <2>3. job[id] # j
    <3>1. job[id] = job[x] => id = x /\ m = n
      BY <2>1, <2>2 DEF Single
    <3> QED BY <1>3, <3>1
  <2> QED BY <1>2, <2>1, <2>2, <2>3
<1> QED BY <1>3, SingleAdded

LEMMA HandCurrent ==
  ASSUME Placed, NEW n \in QueueNames, NEW id \in Ids
  PROVE  /\ consumer[n].pc = "copy" /\ consumer[n].at = id => Present(n, id) /\ Current(n, id)
         /\ \A t \in Threads : thread[t].pc = "run" /\ thread[t].at = id /\ thread[t].queue = n
              => Present(n, id) /\ Current(n, id)
<1>1. ASSUME consumer[n].pc = "copy", consumer[n].at = id
      PROVE  Present(n, id) /\ Current(n, id)
  <2>1. In(n, "hand", id)
    BY <1>1 DEF In
  <2>2. \A t \in Threads : ~In(n, t, id)
    BY <2>1, PlaceFacts DEF Placed, Custody
  <2> QED BY <1>1, <2>1, <2>2, PlaceFacts DEF Present, Held, Current, Acking, Posting, In
<1>2. ASSUME NEW t \in Threads, thread[t].pc = "run", thread[t].at = id, thread[t].queue = n
      PROVE  Present(n, id) /\ Current(n, id)
  <2>1. In(n, t, id) /\ t \in Places
    BY <1>2, PlaceFacts DEF In
  <2>2. ~In(n, "hand", id) /\ \A u \in Threads : In(n, u, id) => u = t
    BY <2>1, PlaceFacts DEF Placed, Custody
  <2>3. ~Acking(n, id)
    BY <2>2, PlaceFacts DEF Acking, In
  <2>4. ~Posting(n, id)
    BY <1>2, <2>2 DEF Posting, In
  <2> QED BY <2>1, <2>3, <2>4 DEF Present, Held, Current
<1> QED BY <1>1, <1>2

LEMMA SingleStep ==
  ASSUME Placed, Single, [Next]_vars, failures' = 0
  PROVE  Single'
<1>0. Lasting /\ ~Fails
  BY StepLasting, SetupTypes DEF Fails, Placed, Typed
<1>1. CASE job' = job
  BY <1>0, <1>1, PresentAfter, SingleKept DEF Lasting
<1>2. ASSUME NEW j \in Jobs, NEW n \in QueueNames, Send(j, n) PROVE Single'
  <2>1. Adds(n, j) /\ HasFresh /\ \A id \in Ids : job[id] # j
    BY <1>2, SendEffect DEF Send, Placed, Typed
  <2>2. PICK f \in Ids : f = Fresh
    BY <2>1, AddedPresent
  <2>3. /\ job'[f] = j
        /\ \A m \in QueueNames, id \in Ids : Present(m, id)' =>
             \/ m = n /\ id = f
             \/ Present(m, id) /\ job[id] \in Jobs /\ job'[id] = job[id]
    BY <2>1, <2>2, AddedPresent
  <2>4. \A m \in QueueNames, id \in Ids : Present(m, id)' /\ Current(m, id)' =>
          \/ m = n /\ id = f
          \/ Present(m, id) /\ Current(m, id) /\ job'[id] = job[id] /\ job'[id] # job'[f]
    BY <1>0, <2>1, <2>3 DEF Lasting
  <2> QED BY <2>4, SingleAdded
<1>3. ASSUME NEW n \in QueueNames, CopyDelayed(n) PROVE Single'
  <2>1. PICK x \in Ids : x = consumer[n].at
    BY <1>3, CopyEffect DEF Placed, Typed
  <2>2. /\ HasFresh /\ Canonical[n] \in QueueNames /\ Adds(Canonical[n], job[x])
        /\ Same(n, "ackcopy") /\ consumer[n].pc = "copy"
    BY <1>0, <1>3, <2>1, CopyEffect DEF CopyDelayed, Placed, Typed
  <2>3. Present(n, x) /\ Current(n, x)
    BY <2>1, <2>2, HandCurrent
  <2>4. PICK j \in Jobs : job[x] = j
    BY <2>3 DEF Present, Held, Placed, Typed, Known
  <2>5. ~Current(n, x)'
    <3>1. consumer'[n].pc = "ackcopy" /\ consumer'[n].at = x
      BY <2>1, <2>2 DEF Same, Turns
    <3> QED BY <3>1 DEF Current, Acking
  <2> QED BY <1>0, <2>2, <2>3, <2>4, <2>5, SingleReplaced
<1>4. ASSUME NEW t \in Threads, RetryLater(t) PROVE Single'
  <2>1. PICK x \in Ids, n \in QueueNames : x = thread[t].at /\ n = thread[t].queue
    BY <1>4, RetryEffect, ThreadTypes DEF Placed, Typed
  <2>2. PICK j \in Jobs : job[x] = j
    BY <1>4, <2>1, RetryEffect DEF Placed, Typed
  <2>3. /\ HasFresh /\ \E q \in QueueNames : Adds(q, j)
        /\ retries' = [retries EXCEPT ![j] = @ + 1]
        /\ Moves(t, "post", x, n, FALSE, thread[t].event)
    BY <1>0, <1>4, <2>1, <2>2, RetryEffect DEF Placed, Typed
  <2>4. thread[t].pc = "run"
    BY <1>4 DEF RetryLater
  <2>5. Present(n, x) /\ Current(n, x)
    BY <2>1, <2>4, HandCurrent
  <2>6. ~Current(n, x)'
    <3>1. job'[x] = j
      BY <2>2, PlacedStep DEF Passes
    <3>2. retries'[j] # 0
      <4>1. retries \in [Jobs -> Nat]
        BY SetupTypes DEF Placed, Typed, TypeOK
      <4> QED BY <2>3, <4>1
    <3>3. Posting(n, x)'
      BY <2>3 DEF Moves, Posting
    <3> QED BY <3>1, <3>2, <3>3 DEF Current
  <2> QED BY <1>0, <2>2, <2>3, <2>5, <2>6, SingleReplaced
<1>5. ASSUME NEW n \in QueueNames, ConsumerStep(n), ~CopyDelayed(n) PROVE job' = job
  BY <1>5, ConsumerStepOthers DEF Placed, Typed
<1>6. ASSUME NEW t \in Threads, ThreadStep(t), ~RetryLater(t) PROVE job' = job
  BY <1>6, ThreadStepOthers DEF Placed, Typed
<1>7. MainStep \/ UNCHANGED vars => job' = job
  BY MainStepOthers DEF vars, Placed
<1> QED BY <1>1, <1>2, <1>3, <1>4, <1>5, <1>6, <1>7 DEF Next

LEMMA AckAloneStep ==
  ASSUME Placed, Sorted, Single, AckAlone, [Next]_vars, failures' = 0
  PROVE  AckAlone'
<1> SUFFICES ASSUME NEW n \in QueueNames, consumer'[n].pc = "ackcopy", NEW y \in Ids,
                    Held(n, y)', job'[y] = job'[consumer'[n].at]
             PROVE  y = consumer'[n].at
  BY DEF AckAlone
<1>1. \/ consumer[n].pc = "ackcopy" /\ consumer'[n].at = consumer[n].at
      \/ CopyDelayed(n)
  <2>1. ASSUME NEW m \in QueueNames, ConsumerStep(m)
        PROVE  (consumer[n].pc = "ackcopy" /\ consumer'[n].at = consumer[n].at) \/ CopyDelayed(n)
    <3>1. CASE m # n
      BY <2>1, <3>1, ConsumerStepOthers DEF Placed, Typed
    <3>2. CASE m = n
      <4>1. ~AckCopied(n)
        BY AckEffect, AckedGone DEF Placed, Typed
      <4> QED BY <2>1, <3>2, <4>1, ConsumerStepOthers DEF Placed, Typed
    <3> QED BY <3>1, <3>2
  <2>2. ASSUME NEW t \in Threads, ThreadStep(t)
        PROVE  consumer'[n].pc = consumer[n].pc /\ consumer'[n].at = consumer[n].at
    BY <2>2, ThreadStepOthers DEF Placed, Typed
  <2>3. CASE MainStep \/ UNCHANGED vars \/ \E j \in Jobs, m \in QueueNames : Send(j, m)
    BY <2>3, MainStepOthers DEF vars, Send, Placed
  <2> QED BY <2>1, <2>2, <2>3 DEF Next
<1>2. consumer[n].pc \in {"copy", "ackcopy"} /\ consumer'[n].at = consumer[n].at
  BY <1>1, CopyEffect DEF CopyDelayed, Same, Turns, Placed, Typed, Goto
<1>3. PICK x \in Ids : x = consumer[n].at
  BY <1>2, ConsumerTypes DEF Placed, Typed, Stages
<1>4. Held(n, x)
  BY <1>3, PlaceFacts DEF Held, In
<1>5. Held(n, y) /\ job'[y] = job[y]
  <2>1. Present(n, y)' /\ Held(n, y)
    BY <1>2, PresentAfter DEF Present
  <2> QED BY <2>1, PresentAfter
<1>6. job'[x] = job[x]
  BY <1>4, PlacedStep DEF Passes, Placed, Typed, Known, Held
<1>7. job[y] = job[x]
  BY <1>2, <1>3, <1>5, <1>6
<1>8. CASE consumer[n].pc = "ackcopy"
  BY <1>2, <1>3, <1>5, <1>7, <1>8 DEF AckAlone
<1>9. CASE consumer[n].pc = "copy"
  <2>1. Present(n, x) /\ Current(n, x)
    BY <1>3, <1>9, HandCurrent
  <2>2. IsDelay(n)
    BY <1>9 DEF Sorted
  <2>3. ~Posting(n, y)
    BY <2>2, WorkerAssumption DEF Sorted, Posting
  <2>4. Present(n, y) /\ Current(n, y)
    BY <1>5, <1>9, <2>3 DEF Present, Current, Acking
  <2> QED BY <1>2, <1>3, <1>7, <2>1, <2>4 DEF Single
<1> QED BY <1>2, <1>8, <1>9

LEMMA SoleStep ==
  ASSUME Placed, Sorted, Sole, [Next]_vars
  PROVE  Sole'
<1>1. NoError' => NoError /\ failures' = 0
  BY NoErrorBack
<1> QED BY <1>1, SingleStep, AckAloneStep DEF Sole

(* A message in progress is held, and not in the cache.  It counts if it is
   no retry on its queue: its message_id is then among those outstanding.   *)
Busy(n, id) == \E p \in Places \ {"cache"} : In(n, p, id)
Counts(n, id) == IsDelay(n) \/ retries[job[id]] = 0
CountedIn(n) ==
  /\ \A id \in Ids : Busy(n, id) /\ Counts(n, id) => job[id] \in consumer[n].queued
  /\ Cardinality(consumer[n].queued) + Len(consumer[n].cache) <= Prefetch[n]
  /\ consumer[n].pc \in {"new", "top"} => \A id \in Ids : ~Held(n, id)
  /\ consumer[n].pc \notin {"paused", "restart"}
Counted == main.pauses = 0 /\ NoError => \A n \in QueueNames : CountedIn(n)

(* What stands between the places of queue n and consumer n's fields.      *)
InProgress(n, at, delayQ, id) ==
  \/ at = id \/ id \in delayQ \/ <<id, n>> \in workQueue' \/ <<id, n>> \in main.drained
  \/ \E t \in Threads : thread[t].queue = n /\ thread[t].at = id

(* Two messages of one job, both counted on one queue, are the same.       *)
LEMMA CountedOnce ==
  ASSUME Sorted, Single, AckAlone, NEW n \in QueueNames, NEW x \in Ids, NEW y \in Ids,
         Held(n, x), Held(n, y), Counts(n, x), job[x] = job[y]
  PROVE  x = y
<1>1. CASE Acking(n, x) \/ Acking(n, y)
  BY <1>1 DEF AckAlone, Acking
<1>2. CASE ~Acking(n, x) /\ ~Acking(n, y)
  <2>1. IsDelay(n) => ~Posting(n, x) /\ ~Posting(n, y)
    BY WorkerAssumption DEF Sorted, Posting
  <2>2. Current(n, x) /\ Current(n, y)
    BY <1>2, <2>1 DEF Current, Counts
  <2> QED BY <2>2 DEF Single, Present
<1> QED BY <1>1, <1>2

(* What is held keeps its job.                                             *)
LEMMA HeldJob ==
  ASSUME Placed, [Next]_vars, NEW n \in QueueNames, NEW id \in Ids, Held(n, id)'
  PROVE  job'[id] = job[id] /\ job[id] \in Jobs
BY PresentAfter DEF Present

LEMMA CountedTurn ==
  ASSUME Placed, [Next]_vars, NEW n \in QueueNames, NEW pc, NEW at, NEW cache, NEW queued,
         NEW delayQ, NEW pending, NEW event,
         Turns(n, pc, at, cache, queued, delayQ, pending, event),
         UNCHANGED <<thread, retries, main.drained>>, \A m \in QueueNames : CountedIn(m),
         \A m \in QueueNames \ {n}, id \in Ids :
           <<id, m>> \in workQueue' => <<id, m>> \in workQueue,
         \A id \in Ids : InProgress(n, at, delayQ, id) /\ Counts(n, id) => job[id] \in queued,
         Cardinality(queued) + Len(cache) <= Prefetch[n],
         pc \in {"new", "top"} =>
           \A id \in Ids : id \notin ToSet(cache) /\ ~InProgress(n, at, delayQ, id),
         pc \notin {"paused", "restart"}
  PROVE  \A m \in QueueNames : CountedIn(m)'
<1>0. ASSUME NEW m \in QueueNames, NEW id \in Ids, Held(m, id)', Counts(m, id)'
      PROVE  Counts(m, id) /\ job'[id] = job[id]
  BY <1>0, HeldJob DEF Counts
<1>1. ASSUME NEW m \in QueueNames PROVE CountedIn(m)'
  <2>1. CASE m # n
    <3>1. consumer'[m] = consumer[m]
      BY <2>1 DEF Turns
    <3>2. \A id \in Ids : \A p : In(m, p, id)' => In(m, p, id)
      BY <2>1, <3>1 DEF In
    <3>3. \A id \in Ids : /\ Held(m, id)' => Held(m, id)
                          /\ Busy(m, id)' => Busy(m, id) /\ Held(m, id)'
      BY <3>2 DEF Held, Busy
    <3> QED BY <1>0, <2>1, <3>1, <3>3 DEF CountedIn
  <2>2. CASE m = n
    <3>1. /\ consumer'[n].pc = pc /\ consumer'[n].at = at /\ consumer'[n].queued = queued
          /\ consumer'[n].cache = cache /\ consumer'[n].delayQ = delayQ
      BY DEF Turns
    <3>2. ASSUME NEW id \in Ids, NEW p \in Places, In(n, p, id)'
          PROVE  (p = "cache" /\ id \in ToSet(cache)) \/ InProgress(n, at, delayQ, id)
      BY <3>1, <3>2 DEF In, InProgress
    <3>3. ASSUME NEW id \in Ids, NEW p \in Places \ {"cache"}, In(n, p, id)'
          PROVE  InProgress(n, at, delayQ, id)
      BY <3>2, <3>3
    <3>4. \A id \in Ids : Busy(n, id)' => InProgress(n, at, delayQ, id) /\ Held(n, id)'
      BY <3>3 DEF Busy, Held
    <3>5. \A id \in Ids : Held(n, id)' => id \in ToSet(cache) \/ InProgress(n, at, delayQ, id)
      BY <3>2 DEF Held
    <3> QED BY <1>0, <2>2, <3>1, <3>4, <3>5 DEF CountedIn
  <2> QED BY <2>1, <2>2
<1> QED BY <1>1

LEMMA QueuedFacts ==
  ASSUME TypeOK, NEW n \in QueueNames, NEW j \in Jobs
  PROVE  LET Q == consumer[n].queued
         IN  /\ Cardinality(Q \cup {j}) <= Cardinality(Q) + 1
             /\ Cardinality(Q \ {j}) <= Cardinality(Q)
             /\ Cardinality(Q) \in Nat /\ Cardinality({}) = 0
             /\ Cardinality(Q \cup {j}) \in Nat /\ Cardinality(Q \ {j}) \in Nat
<1> DEFINE Q == consumer[n].queued
<1>1. IsFiniteSet(Q) /\ Cardinality(Q) \in Nat /\ IsFiniteSet({j}) /\ Cardinality({j}) = 1
  BY OutstandingTypes, FS_Singleton
<1> HIDE DEF Q
<1>2. /\ IsFiniteSet(Q \cup {j})
      /\ Cardinality(Q \cup {j}) = Cardinality(Q) + Cardinality({j})
                                     - Cardinality(Q \cap {j})
  BY <1>1, FS_Union
<1>3. /\ IsFiniteSet(Q \cap {j}) /\ IsFiniteSet(Q \ {j})
      /\ Cardinality(Q \ {j}) <= Cardinality(Q)
  BY <1>1, FS_Subset
<1>4. /\ Cardinality(Q \cap {j}) \in Nat /\ Cardinality(Q \ {j}) \in Nat
      /\ Cardinality(Q \cup {j}) \in Nat /\ Cardinality({}) = 0
  BY <1>2, <1>3, FS_CardinalityType, FS_EmptySet
<1>5. Cardinality(Q \cup {j}) <= Cardinality(Q) + 1
  BY <1>1, <1>2, <1>4
<1> QED BY <1>1, <1>3, <1>4, <1>5 DEF Q

LEMMA ConsumerStepCounted ==
  ASSUME Placed, Sorted, Single, AckAlone, NoError, NEW n \in QueueNames, ~paused[n],
         \A m \in QueueNames : KeptIn(m), \A m \in QueueNames : CountedIn(m),
         failures' = 0, ConsumerStep(n)
  PROVE  \A m \in QueueNames : CountedIn(m)'
<1> USE DEF Placed, Typed
<1>0. [Next]_vars
  BY DEF Next
<1> DEFINE c == consumer[n]
<1>t. UNCHANGED <<thread, retries, main.drained>>
  BY ConsumerStepOthers
<1>1. /\ c.pc \notin {"error", "dead", "paused", "restart"}
      /\ Cardinality(c.queued) + Len(c.cache) <= Prefetch[n]
      /\ \A id \in Ids : \/ c.at = id \/ id \in c.delayQ \/ <<id, n>> \in workQueue
                         \/ <<id, n>> \in main.drained
                         \/ \E t \in Threads : thread[t].queue = n /\ thread[t].at = id
                         => Held(n, id) /\ (Counts(n, id) => job[id] \in c.queued)
      /\ c.pc \in {"new", "top"} => \A id \in Ids :
           /\ c.at # id /\ id \notin c.delayQ /\ <<id, n>> \notin workQueue
           /\ <<id, n>> \notin main.drained
           /\ id \notin ToSet(c.cache)
           /\ ~\E t \in Threads : thread[t].queue = n /\ thread[t].at = id
  <2>1. c.pc \notin {"error", "dead", "paused", "restart"}
    BY DEF KeptIn, CountedIn
  <2>2. Cardinality(c.queued) + Len(c.cache) <= Prefetch[n]
    BY DEF CountedIn
  <2>3. ASSUME NEW id \in Ids
        PROVE  /\ c.at = id => In(n, "hand", id)
               /\ id \in c.delayQ => In(n, "delayQ", id)
               /\ <<id, n>> \in workQueue => In(n, "workQueue", id)
               /\ <<id, n>> \in main.drained => In(n, "drained", id)
               /\ id \in ToSet(c.cache) => In(n, "cache", id)
               /\ \A t \in Threads :
                    thread[t].queue = n /\ thread[t].at = id => In(n, t, id)
    BY DEF In
  <2>4. ASSUME NEW id \in Ids,
               \/ c.at = id \/ id \in c.delayQ \/ <<id, n>> \in workQueue
               \/ <<id, n>> \in main.drained
               \/ \E t \in Threads : thread[t].queue = n /\ thread[t].at = id
        PROVE  Held(n, id) /\ (Counts(n, id) => job[id] \in c.queued)
    <3>1. \E p \in Places \ {"cache"} : In(n, p, id)
      BY <2>3, <2>4, PlaceFacts
    <3> QED BY <3>1 DEF CountedIn, Busy, Held
  <2>5. ASSUME NEW id \in Ids, c.pc \in {"new", "top"}
        PROVE  /\ c.at # id /\ id \notin c.delayQ /\ <<id, n>> \notin workQueue
               /\ <<id, n>> \notin main.drained
               /\ id \notin ToSet(c.cache)
               /\ ~\E t \in Threads : thread[t].queue = n /\ thread[t].at = id
    <3>1. \A p \in Places : ~In(n, p, id)
      BY <2>5 DEF CountedIn, Held
    <3> QED BY <2>3, <3>1, PlaceFacts
  <2> QED BY <2>1, <2>2, <2>4, <2>5
<1>2. ~Fails
  BY SetupTypes DEF Fails
<1>3. c.pc \notin {"handle", "reject", "copy", "ackcopy"} => c.at = None
  BY DEF Stages
<1>4. \A id \in Ids : id # None
  BY WorkerAssumption
<1>5. /\ Cardinality(c.queued) \in Nat /\ Len(c.cache) \in Nat /\ Prefetch[n] \in Nat
      /\ \A j \in Jobs : /\ Cardinality(c.queued \cup {j}) <= Cardinality(c.queued) + 1
                         /\ Cardinality(c.queued \ {j}) <= Cardinality(c.queued)
                         /\ Cardinality(c.queued \cup {j}) \in Nat
                         /\ Cardinality(c.queued \ {j}) \in Nat
  BY OutstandingTypes, QueuedFacts
<1>6. \A id \in Ids : c.at = id =>
        /\ id \notin c.delayQ /\ <<id, n>> \notin workQueue /\ <<id, n>> \notin main.drained
        /\ ~\E t \in Threads : thread[t].queue = n /\ thread[t].at = id
  <2>1. ASSUME NEW id \in Ids, c.at = id
        PROVE  \A r \in Places : In(n, r, id) => r = "hand"
    <3>1. In(n, "hand", id)
      BY <2>1 DEF In
    <3> QED BY <3>1, PlaceFacts DEF Custody
  <2>2. ASSUME NEW id \in Ids, c.at = id
        PROVE  /\ ~In(n, "delayQ", id) /\ ~In(n, "workQueue", id) /\ ~In(n, "drained", id)
               /\ \A t \in Threads : ~In(n, t, id)
    BY <2>1, <2>2, PlaceFacts
  <2> QED BY <2>2 DEF In
<1> HIDE DEF c
<1>7. ASSUME NEW pc, Turns(n, pc, c.at, c.cache, c.queued, c.delayQ, c.pending, c.event),
             pc \notin {"paused", "restart"}, pc \in {"new", "top"} => c.pc \in {"new", "top"},
             UNCHANGED workQueue
      PROVE  \A m \in QueueNames : CountedIn(m)'
  <2>1. /\ \A id \in Ids : InProgress(n, c.at, c.delayQ, id) /\ Counts(n, id)
             => job[id] \in c.queued
        /\ pc \in {"new", "top"} => \A id \in Ids :
             id \notin ToSet(c.cache) /\ ~InProgress(n, c.at, c.delayQ, id)
    BY <1>1, <1>7 DEF InProgress
  <2> QED BY <1>0, <1>t, <1>1, <1>7, <2>1, CountedTurn
<1>8. CASE ConsumerStarts(n) \/ NextFull(n) \/ DelayedNone(n)
  <2>1. UNCHANGED workQueue
    BY <1>8 DEF ConsumerStarts, NextFull, DelayedNone, ConsumerOnly
  <2>2. CASE ConsumerStarts(n)
    <3>1. c.pc = "new" /\ Same(n, "top")
      BY <2>2, GotoEffect DEF ConsumerStarts, Same, c
    <3> QED BY <1>7, <2>1, <3>1 DEF Same, c
  <2>3. CASE NextFull(n)
    <3>1. Same(n, "delayed")
      BY <2>3, GotoEffect DEF NextFull, AfterNone, Same
    <3> QED BY <1>7, <2>1, <3>1 DEF Same, c
  <2>4. CASE DelayedNone(n)
    <3>1. \E pc \in {"next", "stopped"} : Same(n, pc)
      BY <2>4, GotoEffect DEF DelayedNone, Same
    <3> QED BY <1>7, <2>1, <3>1 DEF Same, c
  <2> QED BY <1>8, <2>2, <2>3, <2>4
<1>9. CASE ConsumerTop(n)
  <2>1. UNCHANGED workQueue /\ c.pc = "top"
    BY <1>9 DEF ConsumerTop, ConsumerOnly, c
  <2>2. CASE Same(n, "stopped")
    BY <1>7, <2>1, <2>2 DEF Same, c
  <2>3. CASE Turns(n, "next", c.at, <<>>, {}, c.delayQ, c.pending, c.event)
    <3> DEFINE none == {}
               empty == <<>>
    <3>1. \A id \in Ids : InProgress(n, c.at, c.delayQ, id) /\ Counts(n, id) => job[id] \in none
      BY <1>1, <2>1 DEF InProgress
    <3>2. Cardinality(none) + Len(empty) <= Prefetch[n]
      BY <1>5, EmptyFacts, FS_EmptySet
    <3>3. Turns(n, "next", c.at, empty, none, c.delayQ, c.pending, c.event)
      BY <2>3
    <3> HIDE DEF none, empty
    <3> QED BY <1>0, <1>t, <2>1, <3>1, <3>2, <3>3, CountedTurn
  <2> QED BY <1>9, <2>2, <2>3, ConsumerTopEffect DEF c
<1>10. CASE ConsumerPaused(n) \/ ConsumerError(n) \/ ConsumerRestart(n)
  BY <1>1, <1>10 DEF ConsumerPaused, ConsumerError, ConsumerRestart, c
<1>11. CASE NextCached(n)
  <2>1. UNCHANGED workQueue /\ c.pc = "next" /\ c.cache # <<>>
    BY <1>11 DEF NextCached, ConsumerOnly, c
  <2>2. PICK x \in Ids : x = Head(c.cache) /\ x \in ToSet(c.cache)
    BY <2>1, ConsumerTypes, HeadTailFacts DEF c
  <2>3. Len(Tail(c.cache)) = Len(c.cache) - 1
    BY <2>1, ConsumerTypes, HeadTailFacts DEF c
  <2>4. PICK j \in Jobs : job[x] = j
    <3>1. In(n, "cache", x)
      BY <2>2 DEF In, c
    <3> QED BY <3>1, PlaceFacts DEF Known
  <2> DEFINE rest == Tail(c.cache)
             Q == c.queued \cup {j}
  <2>5. job[x] \notin setup.poison
    BY DEF NoError
  <2>6. Turns(n, "handle", x, rest, Q, c.delayQ, c.pending, c.event)
    BY <1>11, <2>2, <2>4, <2>5, NextCachedEffect DEF c
  <2>7. \A id \in Ids : InProgress(n, x, c.delayQ, id) /\ Counts(n, id) => job[id] \in Q
    BY <1>1, <1>t, <2>1, <2>4 DEF InProgress
  <2>8. Cardinality(Q) + Len(rest) <= Prefetch[n]
    <3>1. Cardinality(Q) <= Cardinality(c.queued) + 1 /\ Cardinality(Q) \in Nat
      BY <1>5
    <3> QED BY <1>1, <1>5, <2>3, <3>1
  <2> HIDE DEF rest, Q
  <2> QED BY <1>0, <1>t, <2>1, <2>6, <2>7, <2>8, CountedTurn
<1>12. CASE NextFetch(n)
  <2>1. UNCHANGED workQueue
    BY <1>12 DEF NextFetch, ConsumerOnly
  <2>2. PICK p \in Seq(Ids) :
           /\ Len(p) + Outstanding(n) <= Prefetch[n]
           /\ \E pc \in {"next", "delayed"} :
                Turns(n, pc, c.at, p, c.queued, c.delayQ, c.pending, c.event)
    BY <1>2, <1>12, NextFetchEffect DEF c
  <2>3. \A id \in Ids : InProgress(n, c.at, c.delayQ, id) /\ Counts(n, id) => job[id] \in c.queued
    BY <1>1, <1>t, <2>1 DEF InProgress
  <2>4. Cardinality(c.queued) + Len(p) <= Prefetch[n]
    <3>1. Outstanding(n) = Cardinality(c.queued) + Len(c.cache)
      BY DEF Outstanding, c
    <3>2. Len(p) \in Nat
      OBVIOUS
    <3> QED BY <1>5, <2>2, <3>1, <3>2
  <2>5. PICK pc \in {"next", "delayed"} :
           Turns(n, pc, c.at, p, c.queued, c.delayQ, c.pending, c.event)
    BY <2>2
  <2> QED BY <1>0, <1>t, <2>1, <2>3, <2>4, <2>5, CountedTurn
<1>13. CASE HandleMessage(n)
  <2>1. c.pc = "handle" /\ c.at \in Ids
    BY <1>13, HandleEffect DEF HandleMessage, c
  <2>2. CASE /\ UNCHANGED workQueue
             /\ Turns(n, "delayed", None, c.cache, c.queued, c.delayQ \cup {c.at},
                      c.pending + 1, c.event)
    <3> DEFINE D == c.delayQ \cup {c.at}
               k == c.pending + 1
    <3>1. \A id \in Ids : InProgress(n, None, D, id) /\ Counts(n, id) => job[id] \in c.queued
      BY <1>1, <1>t, <1>4, <2>2 DEF InProgress
    <3>2. Turns(n, "delayed", None, c.cache, c.queued, D, k, c.event)
      BY <2>2
    <3> HIDE DEF D, k
    <3> QED BY <1>0, <1>t, <1>1, <2>1, <2>2, <3>1, <3>2, CountedTurn
  <2>3. CASE /\ workQueue' = workQueue \cup {<<c.at, n>>}
             /\ Turns(n, "delayed", None, c.cache, c.queued, c.delayQ, c.pending, c.event)
    <3>1. \A id \in Ids : InProgress(n, None, c.delayQ, id) /\ Counts(n, id)
            => job[id] \in c.queued
      BY <1>1, <1>t, <1>4, <2>3 DEF InProgress
    <3>2. \A m \in QueueNames \ {n}, id \in Ids :
            <<id, m>> \in workQueue' => <<id, m>> \in workQueue
      BY <2>3
    <3> QED BY <1>0, <1>t, <1>1, <2>1, <2>3, <3>1, <3>2, CountedTurn
  <2>4. CASE UNCHANGED workQueue /\ Same(n, "reject")
    BY <1>7, <2>1, <2>4 DEF Same, c
  <2> QED BY <1>13, <2>2, <2>3, <2>4, HandleEffect DEF c
<1>14. CASE RejectUnknown(n) \/ AckCopied(n)
  <2>1. UNCHANGED workQueue
    BY <1>14 DEF RejectUnknown, AckCopied, ConsumerOnly
  <2>2. /\ c.at \in Ids
        /\ \E pending : Turns(n, "delayed", None, c.cache, c.queued \ {job[c.at]}, c.delayQ,
                              pending, c.event)
    BY <1>2, <1>14, RejectEffect, AckEffect DEF c
  <2>3. PICK x \in Ids : x = c.at
    BY <2>2
  <2>4. Held(n, x)
    BY <1>1, <2>3
  <2>5. PICK j \in Jobs : job[x] = j
    BY <2>4 DEF Known, Held
  <2> DEFINE Q == c.queued \ {j}
  <2>6. ASSUME NEW id \in Ids, InProgress(n, None, c.delayQ, id), Counts(n, id)
        PROVE  job[id] \in Q
    <3>1. /\ id # x /\ Held(n, id) /\ job[id] \in c.queued
      BY <1>1, <1>t, <1>4, <1>6, <2>1, <2>3, <2>6 DEF InProgress
    <3>2. job[id] # job[x]
      BY <2>4, <2>6, <3>1, CountedOnce
    <3> QED BY <2>5, <3>1, <3>2
  <2>7. Cardinality(Q) + Len(c.cache) <= Prefetch[n]
    <3>1. Cardinality(Q) <= Cardinality(c.queued) /\ Cardinality(Q) \in Nat
      BY <1>5
    <3> QED BY <1>1, <1>5, <3>1
  <2>8. PICK pending : Turns(n, "delayed", None, c.cache, Q, c.delayQ, pending, c.event)
    BY <2>2, <2>3, <2>5
  <2> HIDE DEF Q
  <2> QED BY <1>0, <1>t, <2>1, <2>6, <2>7, <2>8, CountedTurn
<1>15. CASE DelayedDue(n)
  <2>1. UNCHANGED workQueue
    BY <1>15 DEF DelayedDue, ConsumerOnly
  <2>2. PICK x \in c.delayQ :
          Turns(n, "copy", x, c.cache, c.queued, c.delayQ \ {x}, c.pending, c.event)
    BY <1>15, DueEffect DEF c
  <2> DEFINE D == c.delayQ \ {x}
  <2>3. \A id \in Ids : InProgress(n, x, D, id) /\ Counts(n, id) => job[id] \in c.queued
    BY <1>1, <1>t, <2>1, <2>2 DEF InProgress
  <2>4. Turns(n, "copy", x, c.cache, c.queued, D, c.pending, c.event)
    BY <2>2
  <2> HIDE DEF D
  <2> QED BY <1>0, <1>t, <1>1, <2>1, <2>3, <2>4, CountedTurn
<1>16. CASE CopyDelayed(n)
  <2>1. UNCHANGED workQueue /\ Same(n, "ackcopy")
    BY <1>2, <1>16, CopyEffect DEF CopyDelayed
  <2> QED BY <1>7, <2>1 DEF Same, c
<1> QED BY <1>8, <1>9, <1>10, <1>11, <1>12, <1>13, <1>14, <1>15, <1>16 DEF ConsumerStep

(* Where no consumer takes a turn, messages in progress stay in progress.  *)
LEMMA CountedHeld ==
  ASSUME Placed, [Next]_vars, \A m \in QueueNames : CountedIn(m),
         \A m \in QueueNames : /\ consumer'[m].pc = consumer[m].pc
                               /\ consumer'[m].cache = consumer[m].cache
                               /\ consumer'[m].queued = consumer[m].queued,
         \A j \in Jobs : retries'[j] = 0 => retries[j] = 0,
         \A m \in QueueNames, id \in Ids, p \in Places : In(m, p, id)' =>
           \E r \in Places : In(m, r, id) /\ (r = "cache" => p = "cache")
  PROVE  \A m \in QueueNames : CountedIn(m)'
<1>1. ASSUME NEW m \in QueueNames PROVE CountedIn(m)'
  <2>1. ASSUME NEW id \in Ids, Busy(m, id)', Counts(m, id)'
        PROVE  job'[id] \in consumer'[m].queued
    <3>1. PICK p \in Places \ {"cache"} : In(m, p, id)'
      BY <2>1 DEF Busy
    <3>2. \E r \in Places \ {"cache"} : In(m, r, id)
      BY <3>1
    <3>3. Held(m, id)'
      BY <3>1 DEF Held
    <3>4. job'[id] = job[id] /\ job[id] \in Jobs
      BY <3>3, HeldJob
    <3>5. Busy(m, id) /\ Counts(m, id)
      BY <2>1, <3>2, <3>4 DEF Busy, Counts
    <3> QED BY <3>4, <3>5 DEF CountedIn
  <2>2. \A id \in Ids : Held(m, id)' => Held(m, id)
    BY DEF Held
  <2> QED BY <2>1, <2>2 DEF CountedIn
<1> QED BY <1>1

LEMMA PostCounted ==
  ASSUME Placed, Sorted, Single, AckAlone, failures' = 0, \A m \in QueueNames : CountedIn(m),
         NEW t \in Threads, PostProcess(t)
  PROVE  \A m \in QueueNames : CountedIn(m)'
<1> USE DEF Placed, Typed
<1>0. [Next]_vars /\ ~Fails
  BY SetupTypes DEF Next, ThreadStep, Fails
<1>1. PICK x \in Ids, n \in QueueNames : x = thread[t].at /\ n = thread[t].queue
  BY PostProcessEffect
<1>2. /\ Turns(n, consumer[n].pc, consumer[n].at, consumer[n].cache,
               consumer[n].queued \ {job[x]}, consumer[n].delayQ,
               consumer[n].pending, consumer[n].event)
      /\ Moves(t, "idle", None, n, FALSE, thread[t].event)
  BY <1>0, <1>1, PostProcessEffect
<1>3. UNCHANGED <<workQueue, main.drained, retries, job>>
  BY DEF PostProcess, work
<1>4. In(n, t, x) /\ Held(n, x) /\ job[x] \in Jobs
  BY <1>1, PlaceFacts DEF In, Held, Known
<1>5. ~Held(n, x)'
  BY <1>1, PostedGone DEF Present
<1>6. ASSUME NEW m \in QueueNames
      PROVE  /\ consumer'[m].pc = consumer[m].pc /\ consumer'[m].at = consumer[m].at
             /\ consumer'[m].cache = consumer[m].cache
             /\ consumer'[m].delayQ = consumer[m].delayQ
             /\ consumer'[m].queued = IF m = n THEN consumer[m].queued \ {job[x]}
                                      ELSE consumer[m].queued
  <2>1. CASE m = n
    BY <1>2, <2>1 DEF Turns
  <2>2. CASE m # n
    BY <1>2, <2>2 DEF Turns
  <2> QED BY <2>1, <2>2
<1>7. ASSUME NEW m \in QueueNames, NEW id \in Ids, NEW p \in Places, In(m, p, id)'
      PROVE  In(m, p, id)
  <2>0. id # None
    BY WorkerAssumption
  <2>1. \A u \in Threads : thread'[u] = thread[u] \/ thread'[u].at = None
    BY <1>2 DEF Moves
  <2>2. CASE p \in Threads
    <3>1. thread'[p].queue = m /\ thread'[p].at = id
      BY <1>7, <2>2, PlaceFacts DEF In
    <3>2. thread'[p] = thread[p]
      BY <2>0, <2>1, <2>2, <3>1
    <3> QED BY <2>2, <3>1, <3>2 DEF In
  <2>3. CASE p \notin Threads
    <3>1. /\ consumer'[m].at = consumer[m].at /\ consumer'[m].cache = consumer[m].cache
          /\ consumer'[m].delayQ = consumer[m].delayQ
      BY <1>6
    <3>2. workQueue' = workQueue /\ main'.drained = main.drained
      BY <1>3
    <3> QED BY <1>7, <2>3, <3>1, <3>2 DEF In
  <2> QED BY <2>2, <2>3
<1>8. ASSUME NEW m \in QueueNames
      PROVE  Cardinality(consumer'[m].queued) + Len(consumer'[m].cache) <= Prefetch[m]
  <2>1. /\ Cardinality(consumer[m].queued) + Len(consumer[m].cache) <= Prefetch[m]
        /\ Cardinality(consumer[m].queued) \in Nat /\ Len(consumer[m].cache) \in Nat
        /\ Prefetch[m] \in Nat
    BY OutstandingTypes DEF CountedIn
  <2>2. /\ Cardinality(consumer'[m].queued) \in Nat
        /\ Cardinality(consumer'[m].queued) <= Cardinality(consumer[m].queued)
    <3>1. CASE m = n
      <4>1. /\ Cardinality(consumer[n].queued \ {job[x]}) \in Nat
            /\ Cardinality(consumer[n].queued \ {job[x]}) <= Cardinality(consumer[n].queued)
        BY <1>4, QueuedFacts
      <4>2. consumer'[m].queued = consumer[n].queued \ {job[x]}
        BY <1>6, <3>1
      <4> QED BY <3>1, <4>1, <4>2
    <3>2. CASE m # n
      <4>1. consumer'[m].queued = consumer[m].queued
        BY <1>6, <3>2
      <4>2. Cardinality(consumer'[m].queued) = Cardinality(consumer[m].queued)
        BY <4>1
      <4> QED BY <2>1, <4>2
    <3> QED BY <3>1, <3>2
  <2>3. Len(consumer'[m].cache) = Len(consumer[m].cache)
    BY <1>6
  <2> QED BY <2>1, <2>2, <2>3
<1>9. ASSUME NEW m \in QueueNames, NEW id \in Ids, Held(m, id)' PROVE Held(m, id)
  BY <1>7, <1>9 DEF Held
<1>10. ASSUME NEW m \in QueueNames, NEW id \in Ids, Busy(m, id)', Counts(m, id)'
       PROVE  job'[id] \in consumer'[m].queued
  <2>1. Busy(m, id) /\ Held(m, id) /\ Held(m, id)'
    BY <1>7, <1>10 DEF Busy, Held
  <2>2. Counts(m, id)
    BY <1>3, <1>10 DEF Counts
  <2>3. job[id] \in consumer[m].queued
    BY <2>1, <2>2 DEF CountedIn
  <2>4. m = n => job[id] # job[x]
    BY <1>4, <1>5, <2>1, <2>2, CountedOnce
  <2> QED BY <1>3, <1>6, <2>3, <2>4
<1>11. ASSUME NEW m \in QueueNames PROVE CountedIn(m)'
  <2>1. consumer'[m].pc = consumer[m].pc
    BY <1>6
  <2> QED BY <1>8, <1>9, <1>10, <2>1 DEF CountedIn
<1> QED BY <1>11

LEMMA ThreadStepCounted ==
  ASSUME Placed, Sorted, Single, AckAlone, failures' = 0, \A m \in QueueNames : CountedIn(m),
         NEW t \in Threads, ThreadStep(t)
  PROVE  \A m \in QueueNames : CountedIn(m)'
<1> USE DEF Placed, Typed
<1>0. [Next]_vars
  BY DEF Next
<1>1. ASSUME NEW pc, NEW failed, NEW event,
             Moves(t, pc, thread[t].at, thread[t].queue, failed, event),
             UNCHANGED <<consumer, workQueue, main>>,
             \A j \in Jobs : retries'[j] = 0 => retries[j] = 0
      PROVE  \A m \in QueueNames : CountedIn(m)'
  <2>1. \A m \in QueueNames, id \in Ids, r \in Places : In(m, r, id)' => In(m, r, id)
    BY <1>1, MoveStays
  <2> QED BY <1>0, <1>1, <2>1, CountedHeld
<1>2. CASE ThreadStarts(t) \/ ThreadTop(t) \/ ThreadPaused(t) \/ Finish(t)
  <2>1. UNCHANGED <<consumer, workQueue, main, retries>>
    BY <1>2 DEF ThreadStarts, ThreadTop, ThreadPaused, Finish, ThreadOnly, work
  <2>2. \E pc, failed, event : Moves(t, pc, thread[t].at, thread[t].queue, failed, event)
    BY <1>2, StillEffect, ThreadTopEffect, ThreadPausedEffect, FinishEffect
       DEF ThreadStarts, Still
  <2> QED BY <1>1, <2>1, <2>2
<1>3. CASE ThreadGet(t)
  <2>1. UNCHANGED <<consumer, main, retries>>
    BY <1>3 DEF ThreadGet, ThreadOnly, work
  <2>2. CASE Still(t, "idle") /\ UNCHANGED workQueue
    BY <1>1, <2>1, <2>2 DEF Still
  <2>3. CASE \E x \in Ids, n \in QueueNames : Takes(t, x, n)
    <3>1. PICK x \in Ids, n \in QueueNames : Takes(t, x, n)
      BY <2>3
    <3>2. /\ workQueue' = workQueue \ {<<x, n>>} /\ <<x, n>> \in workQueue
          /\ \A u \in Threads \ {t} : thread'[u] = thread[u]
          /\ thread'[t].at = x /\ thread'[t].queue = n
      BY <3>1 DEF Takes, Moves
    <3>3. ASSUME NEW m \in QueueNames, NEW id \in Ids, NEW p \in Places, In(m, p, id)'
          PROVE  \E r \in Places : In(m, r, id) /\ (r = "cache" => p = "cache")
      <4>1. CASE p = t
        <5>1. m = n /\ id = x
          BY <3>2, <3>3, <4>1, PlaceFacts DEF In
        <5>2. In(n, "workQueue", x)
          BY <3>2 DEF In
        <5> QED BY <5>1, <5>2, PlaceFacts
      <4>2. CASE p # t
        <5>1. In(m, p, id)
          BY <2>1, <3>2, <3>3, <4>2, PlaceFacts DEF In
        <5> QED BY <5>1
      <4> QED BY <4>1, <4>2
    <3> QED BY <1>0, <2>1, <3>3, CountedHeld
  <2> QED BY <1>3, <2>2, <2>3, ThreadGetEffect
<1>4. CASE RetryLater(t)
  <2>1. UNCHANGED <<consumer, workQueue, main>>
    BY <1>4 DEF RetryLater, ThreadOnly
  <2>2. /\ \E i \in Jobs : retries' = [retries EXCEPT ![i] = @ + 1]
        /\ Moves(t, "post", thread[t].at, thread[t].queue, FALSE, thread[t].event)
    BY <1>4, RetryEffect
  <2>3. retries \in [Jobs -> Nat]
    BY SetupTypes DEF TypeOK
  <2>4. \A j \in Jobs : retries'[j] = 0 => retries[j] = 0
    BY <2>2, <2>3
  <2> QED BY <1>1, <2>1, <2>2, <2>4
<1>5. CASE PostProcess(t)
  BY <1>5, PostCounted
<1> QED BY <1>2, <1>3, <1>4, <1>5 DEF ThreadStep

LEMMA MainStepCounted ==
  ASSUME Placed, MainStep
  PROVE  /\ main'.pauses = 0 => main.pauses = 0
         /\ (\A m \in QueueNames : CountedIn(m)) => \A m \in QueueNames : CountedIn(m)'
<1> USE DEF Placed, Typed
<1>1. \A m \in QueueNames : /\ consumer'[m].pc = consumer[m].pc
                            /\ consumer'[m].cache = consumer[m].cache
                            /\ consumer'[m].queued = consumer[m].queued
  BY MainStepFacts
<1>2. UNCHANGED retries /\ [Next]_vars
  BY MainStepOthers DEF Next
<1>3. ASSUME \A m \in QueueNames, id \in Ids, p \in Places :
               In(m, p, id)' => In(m, p, id) \/ (p = "drained" /\ In(m, "workQueue", id))
      PROVE  (\A m \in QueueNames : CountedIn(m)) => \A m \in QueueNames : CountedIn(m)'
  <2>1. \A m \in QueueNames, id \in Ids, p \in Places : In(m, p, id)' =>
          \E r \in Places : In(m, r, id) /\ (r = "cache" => p = "cache")
    BY <1>3, PlaceFacts
  <2> QED BY <1>1, <1>2, <2>1, CountedHeld
<1>4. ASSUME NEW c \in Children, ClearEvent(c)
      PROVE  /\ main'.pauses = main.pauses
             /\ (\A m \in QueueNames : CountedIn(m)) => \A m \in QueueNames : CountedIn(m)'
  <2>1. Cleared(c) /\ UNCHANGED <<workQueue, main.drained>> /\ main'.pauses = main.pauses
    BY <1>4, ClearEffect DEF ClearEvent, MainOnly, MainIs
  <2>2. ASSUME NEW m \in QueueNames, NEW id \in Ids, NEW p \in Places, In(m, p, id)'
        PROVE  In(m, p, id)
    <3>1. CASE p \in Threads
      BY <2>1, <2>2, <3>1, PlaceFacts DEF In, Cleared
    <3>2. CASE p \notin Threads
      BY <2>1, <2>2, <3>2 DEF In, Cleared
    <3> QED BY <3>1, <3>2
  <2> QED BY <1>3, <2>1, <2>2
<1>5. CASE \/ Pause \/ Resume \/ PauseReturns \/ ResumeReturns \/ Stop
           \/ WorkersJoined \/ ConsumersJoined
           \/ \E c \in Children : TellChild(c) \/ StopChild(c)
  <2>1. UNCHANGED <<consumer, thread, workQueue>>
    BY <1>5 DEF Pause, Resume, TellChild, PauseReturns, ResumeReturns, Stop, StopChild,
                WorkersJoined, ConsumersJoined, MainOnly, work
  <2>2. UNCHANGED main.drained /\ (main'.pauses = 0 => main.pauses = 0)
    <3>1. CASE PauseReturns \/ ResumeReturns
      BY <3>1, MainAtEffect DEF PauseReturns, ResumeReturns, MainAt, MainIs
    <3>2. CASE Pause \/ Resume \/ Stop \/ WorkersJoined \/ ConsumersJoined
      <4>1. Pause => main'.pauses # 0
        BY PauseEffect, MainTypes
      <4> QED BY <3>2, <4>1, PauseEffect, ResumeEffect, StopEffect, WorkersJoinedEffect,
                 ConsumersJoinedEffect DEF MainIs
    <3>3. CASE \E c \in Children : TellChild(c) \/ StopChild(c)
      BY <3>3, TellEffect, StopChildEffect DEF MainIs
    <3> QED BY <1>5, <3>1, <3>2, <3>3
  <2>3. \A m \in QueueNames, id \in Ids, p \in Places : In(m, p, id)' => In(m, p, id)
    BY <2>1, <2>2 DEF In
  <2> QED BY <1>3, <2>2, <2>3
<1>6. CASE DrainWork
  <2>1. UNCHANGED <<consumer, thread>>
    BY <1>6 DEF DrainWork
  <2>2. main'.pauses = main.pauses
    BY <1>6, DrainEffect DEF MainAt
  <2>3. \A item : /\ item \in workQueue' => item \in workQueue
                  /\ item \in main'.drained => item \in main.drained \/ item \in workQueue
    BY <1>6, DrainEffect DEF MainAt, MainIs
  <2>4. \A m \in QueueNames, id \in Ids, p \in Places :
          In(m, p, id)' => In(m, p, id) \/ (p = "drained" /\ In(m, "workQueue", id))
    BY <2>1, <2>3 DEF In
  <2> QED BY <1>3, <2>2, <2>4
<1>7. CASE RequeueWork
  <2>1. UNCHANGED <<consumer, thread, workQueue>>
    BY <1>7 DEF RequeueWork
  <2>2. main'.drained \subseteq main.drained /\ main'.pauses = main.pauses
    BY <1>7, RequeueWorkEffect DEF MainIs, Undrained
  <2>3. \A m \in QueueNames, id \in Ids, p \in Places : In(m, p, id)' => In(m, p, id)
    BY <2>1, <2>2 DEF In
  <2> QED BY <1>3, <2>2, <2>3
<1>8. CASE CloseConsumers
  <2>1. UNCHANGED <<thread, workQueue>>
    BY <1>8 DEF CloseConsumers
  <2>2. main'.pauses = main.pauses /\ main'.drained = main.drained
    BY <1>8, CloseConsumersEffect DEF MainAt, MainIs
  <2>3. ASSUME NEW m \in QueueNames
        PROVE  /\ consumer'[m].at = consumer[m].at /\ consumer'[m].cache = consumer[m].cache
               /\ consumer'[m].delayQ \subseteq consumer[m].delayQ
    <3>1. CASE UNCHANGED consumer
      BY <3>1
    <3>2. ASSUME NEW n \in QueueNames, Empties(n, consumer[n].pc)
          PROVE  /\ consumer'[m].at = consumer[m].at /\ consumer'[m].cache = consumer[m].cache
                 /\ consumer'[m].delayQ \subseteq consumer[m].delayQ
      <4>1. CASE m = n
        BY <3>2, <4>1 DEF Empties, Turns
      <4>2. CASE m # n
        BY <3>2, <4>2 DEF Empties, Turns
      <4> QED BY <4>1, <4>2
    <3> QED BY <1>8, <3>1, <3>2, CloseConsumersEffect
  <2>4. \A m \in QueueNames, id \in Ids, p \in Places : In(m, p, id)' => In(m, p, id)
    BY <2>1, <2>2, <2>3 DEF In
  <2> QED BY <1>3, <2>2, <2>4
<1> QED BY <1>4, <1>5, <1>6, <1>7, <1>8 DEF MainStep, PauseStep, StopStep

LEMMA PausesKept ==
  ASSUME Placed, [Next]_vars
  PROVE  main'.pauses = 0 => main.pauses = 0
<1> USE DEF Placed, Typed
<1>1. ASSUME NEW j \in Jobs, NEW n \in QueueNames, Send(j, n) PROVE main' = main
  BY <1>1 DEF Send
<1>2. ASSUME NEW n \in QueueNames, ConsumerStep(n) PROVE main' = main
  BY <1>2, ConsumerStepOthers
<1>3. ASSUME NEW t \in Threads, ThreadStep(t) PROVE main' = main
  BY <1>3, ThreadStepOthers
<1>4. UNCHANGED vars => main' = main
  BY DEF vars
<1> QED BY <1>1, <1>2, <1>3, <1>4, MainStepCounted DEF Next

LEMMA CountedStep ==
  ASSUME Placed, Kept, Quiet, Sorted, Sole, Counted, [Next]_vars
  PROVE  Counted'
<1> SUFFICES ASSUME main'.pauses = 0, NoError' PROVE \A m \in QueueNames : CountedIn(m)'
  BY DEF Counted
<1>1. NoError /\ failures' = 0 /\ \A m \in QueueNames : KeptIn(m)
  BY NoErrorBack DEF Kept
<1>2. main.pauses = 0 /\ main.pauses \in Nat
  BY PausesKept, MainTypes DEF Placed, Typed
<1>3. Single /\ AckAlone /\ \A m \in QueueNames : CountedIn(m)
  BY <1>1, <1>2 DEF Sole, Counted
<1>4. \A c \in Children : ~paused[c]
  BY <1>2 DEF Quiet, Paused
<1>5. CASE UNCHANGED vars
  <2>1. UNCHANGED <<consumer, thread, workQueue, main, retries>>
    BY <1>5 DEF vars
  <2>2. \A m \in QueueNames, id \in Ids, p \in Places : In(m, p, id)' => In(m, p, id)
    BY <2>1 DEF In
  <2> QED BY <1>3, <2>1, <2>2, CountedHeld
<1>6. ASSUME NEW j \in Jobs, NEW n \in QueueNames, Send(j, n)
      PROVE  \A m \in QueueNames : CountedIn(m)'
  <2>1. UNCHANGED <<consumer, thread, workQueue, main, retries>>
    BY <1>6 DEF Send
  <2>2. \A m \in QueueNames, id \in Ids, p \in Places : In(m, p, id)' => In(m, p, id)
    BY <2>1 DEF In
  <2> QED BY <1>3, <2>1, <2>2, CountedHeld
<1>7. ASSUME NEW n \in QueueNames, ConsumerStep(n) PROVE \A m \in QueueNames : CountedIn(m)'
  <2>1. ~paused[n]
    BY <1>4 DEF Children
  <2> QED BY <1>1, <1>3, <1>7, <2>1, ConsumerStepCounted
<1> QED BY <1>1, <1>3, <1>5, <1>6, <1>7, ThreadStepCounted, MainStepCounted DEF Next

(* As many elements as a sequence is long, or fewer.                       *)
LEMMA CacheSize ==
  ASSUME NEW c \in Seq(Ids)
  PROVE  /\ IsFiniteSet(ToSet(c)) /\ Cardinality(ToSet(c)) \in Nat
         /\ Cardinality(ToSet(c)) <= Len(c)
<1>1. Len(c) \in Nat /\ DOMAIN c = 1 .. Len(c) /\ c \in [1 .. Len(c) -> Ids]
  OBVIOUS
<1>2. /\ IsFiniteSet(1 .. Len(c)) /\ Cardinality(1 .. Len(c)) = Len(c)
  BY <1>1, FS_Interval
<1>3. c \in Surjection(1 .. Len(c), ToSet(c))
  BY <1>1 DEF Surjection, ToSet
<1> QED BY <1>2, <1>3, FS_Surjection, FS_CardinalityType

(* As many messages as jobs that are counted for them, or fewer.           *)
LEMMA CountedSize ==
  ASSUME TypeOK, Sorted, Single, AckAlone, NEW n \in QueueNames, CountedIn(n),
         NEW B \in SUBSET Ids, \A id \in B : Busy(n, id) /\ Counts(n, id)
  PROVE  Cardinality(B) <= Cardinality(consumer[n].queued)
<1> DEFINE f == [id \in B |-> job[id]]
           Q == consumer[n].queued
<1>1. IsFiniteSet(Q) /\ Q \subseteq Jobs
  BY OutstandingTypes, ConsumerTypes
<1>2. \A id \in B : job[id] \in Q /\ Held(n, id)
  BY DEF CountedIn, Busy, Held
<1>3. \A x, y \in B : job[x] = job[y] => x = y
  BY <1>2, CountedOnce
<1> HIDE DEF Q
<1>4. f \in Injection(B, Q)
  BY <1>2, <1>3 DEF Injection, IsInjective
<1> HIDE DEF f
<1> QED BY <1>1, <1>4, FS_Injection DEF Q

(* The messages of a queue that the process holds are within its prefetch,
   those in progress included, retries on their queue excepted, until a
   pause or an error makes a new consumer.  A consumer counts message_ids,
   and the ack of one message may end the count of another that has the
   same one.  The proof shows that it does not end the count of one that is
   still held: of the messages of a job at most one has not been replaced by
   a copy or a retry (Single), and a consumer that acks what it copied holds
   no other message of the job (AckAlone); so each of the messages in
   progress that are no retries has an entry of its own.                   *)
THEOREM PrefetchKept == Spec => []WithinPrefetch
<1>1. Init => Kept /\ Quiet /\ Sorted /\ Sole /\ Counted
  <2> SUFFICES ASSUME Init PROVE Kept /\ Quiet /\ Sorted /\ Sole /\ Counted
    OBVIOUS
  <2>1. ~Paused /\ main.pc = "up" /\ AllTold /\ main.toClear = {}
    BY DEF Init, Paused, AllTold
  <2>2. /\ \A n \in QueueNames : QuietConsumer(n)
        /\ \A t \in Threads : QuietThread(t)
    BY <2>1, Starting DEF QuietConsumer, QuietThread, Paused, Children
  <2>3. \A n \in QueueNames : KeptIn(n)
    BY Starting, NothingYet DEF KeptIn
  <2>4. Sorted
    BY Starting DEF Sorted
  <2>5. \A n \in QueueNames, id \in Ids : ~Held(n, id) /\ ~Present(n, id)
    BY NothingYet DEF Held, Present
  <2>6. Single /\ AckAlone
    BY <2>5 DEF Single, AckAlone
  <2>7. ASSUME NEW n \in QueueNames PROVE CountedIn(n)
    <3>1. /\ \A id \in Ids, p \in Places : ~In(n, p, id)
          /\ consumer[n].pc \in {"new", "top"}
      BY Starting, NothingYet
    <3>2. /\ Cardinality(consumer[n].queued) = 0 /\ Len(consumer[n].cache) = 0
          /\ Prefetch[n] \in Nat
      BY Starting, EmptyFacts, FS_EmptySet, WorkerAssumption
    <3> QED BY <2>5, <3>1, <3>2 DEF CountedIn, Busy
  <2> QED BY <2>1, <2>2, <2>3, <2>4, <2>6, <2>7 DEF Kept, Quiet, Sole, Counted
<1>2. Placed /\ Kept /\ Quiet /\ Sorted /\ Sole /\ Counted /\ [Next]_vars
        => Kept' /\ Quiet' /\ Sorted' /\ Sole' /\ Counted'
  BY KeptStep, QuietStep, SortedStep, SoleStep, CountedStep DEF Placed
<1>3. Placed /\ Sorted /\ Sole /\ Counted => WithinPrefetch
  <2> DEFINE counted(n) == {id \in InHand(n) : IsDelay(n) \/ retries[job[id]] = 0}
  <2> SUFFICES ASSUME Placed, Sorted, Sole, Counted, main.pauses = 0, NoError,
                      NEW n \in QueueNames
               PROVE  Cardinality(counted(n)) <= Prefetch[n]
    BY DEF WithinPrefetch
  <2> DEFINE C == ToSet(consumer[n].cache)
             B == counted(n) \ C
             Q == consumer[n].queued
  <2>0. TypeOK
    BY DEF Placed, Typed
  <2>1. CountedIn(n) /\ Single /\ AckAlone
    BY DEF Counted, Sole
  <2>2. /\ IsFiniteSet(C) /\ Cardinality(C) \in Nat
        /\ Cardinality(C) <= Len(consumer[n].cache)
    BY <2>0, ConsumerTypes, CacheSize
  <2>3. Cardinality(Q) \in Nat /\ Len(consumer[n].cache) \in Nat /\ Prefetch[n] \in Nat
    BY <2>0, OutstandingTypes
  <2>4. ASSUME NEW id \in B PROVE id \in Ids /\ Busy(n, id) /\ Counts(n, id)
    <3>1. PICK p \in Places : id \in At(n, p)
      BY <2>4 DEF InHand
    <3>2. id \in Ids /\ In(n, p, id)
      BY <2>0, <3>1, AtFacts
    <3>3. p # "cache"
      BY <2>4, <3>2, PlaceFacts DEF In
    <3> QED BY <2>4, <3>2, <3>3 DEF Busy, Counts
  <2>5. /\ IsFiniteSet(B) /\ Cardinality(B) \in Nat /\ Cardinality(B) <= Cardinality(Q)
    <3>1. B \subseteq Ids
      BY <2>4
    <3> HIDE DEF B
    <3>2. IsFiniteSet(B) /\ Cardinality(B) \in Nat
      BY <3>1, IdsAssumption, FS_Subset, FS_CardinalityType
    <3> QED BY <2>0, <2>1, <2>4, <3>1, <3>2, CountedSize
  <2>6. counted(n) \subseteq B \cup C
    OBVIOUS
  <2>7. Cardinality(Q) + Len(consumer[n].cache) <= Prefetch[n]
    BY <2>1 DEF CountedIn
  <2> HIDE DEF Q, C, B, counted
  <2>8. /\ IsFiniteSet(B \cup C)
        /\ Cardinality(B \cup C) = Cardinality(B) + Cardinality(C) - Cardinality(B \cap C)
    BY <2>2, <2>5, FS_Union
  <2>9. Cardinality(B \cap C) \in Nat /\ Cardinality(B \cup C) \in Nat
    BY <2>5, <2>8, FS_Subset, FS_CardinalityType
  <2>10. Cardinality(counted(n)) <= Cardinality(B \cup C) /\ Cardinality(counted(n)) \in Nat
    BY <2>6, <2>8, FS_Subset, FS_CardinalityType
  <2> QED BY <2>2, <2>3, <2>5, <2>7, <2>8, <2>9, <2>10
<1> QED BY PlacedAlways, <1>1, <1>2, <1>3, PTL DEF Spec
=============================================================================
