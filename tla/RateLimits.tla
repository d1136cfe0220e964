----------------------------- MODULE RateLimits -----------------------------
(***************************************************************************)
(* Rate limiters and barriers (rate_limits/) over their three backends:    *)
(* clients in several processes that share one limiter, the commands they  *)
(* send to the server one after the other, and keys that expire.  A        *)
(* behaviour has one limiter on one backend.  The clock counts seconds.    *)
(***************************************************************************)
EXTENDS Naturals, FiniteSets

CONSTANTS
  Clients,
  Setups,    \* pairs of a limiter and a backend
  Limit,
  Ttl,       \* of concurrent limiters and of barriers
  Interval,  \* the bucket, or the window
  MaxTime,   \* bound: the clock
  MaxValue   \* bound: what failed increments add up to on memcached

Limiters == {"concurrent", "bucket", "window", "barrier"}
Backends == {"redis", "memcached", "stub"}

ASSUME RateLimitsAssumption ==
  /\ Setups \subseteq Limiters \X Backends
  /\ IsFiniteSet(Clients) /\ Clients # {}
  /\ {Limit, Ttl, Interval} \subseteq Nat \ {0}
  /\ MaxTime \in Nat /\ MaxValue \in Nat
  /\ MaxValue > Limit /\ MaxValue >= Cardinality(Clients)

VARIABLES
  limiter,   \* the kind of limiter, and its backend
  backend,
  now,       \* the clock
  db,        \* the keys: their value, and when they expire
  events,    \* when the barrier's event expires (Redis)
  client,    \* what each client is doing
  granted,   \* acquisitions in each of the last seconds, of buckets and windows
  slow       \* a client took longer than the limiter allows for

vars == <<limiter, backend, now, db, events, client, granted, slow>>

Times == 0 .. MaxTime
Keys == Times

Absent == [value |-> 0, expires |-> 0]
Present(k) == db[k].expires > now
Value(k) == IF Present(k) THEN db[k].value ELSE 0

Idle == [pc |-> "idle", key |-> 0, since |-> 0, seen |-> 0, watched |-> {},
         dirty |-> FALSE]

Entry == [value : 0 .. MaxValue, expires : 0 .. MaxTime + Ttl + Interval]
Client ==
  [pc : {"idle", "add", "incr", "read", "sum", "exec", "held", "cleared", "opened",
         "blocked", "waiting", "passed", "left"},
   key : Keys, since : Times, seen : 0 .. Limit - 1, watched : SUBSET Keys,
   dirty : BOOLEAN]

TypeOK ==
  /\ <<limiter, backend>> \in Setups
  /\ now \in Times
  /\ db \in [Keys -> Entry]
  /\ events \in 0 .. MaxTime + Ttl
  /\ client \in [Clients -> Client]
  /\ granted \in [Times -> Nat]
  /\ slow \in BOOLEAN

Init ==
  /\ \E setup \in Setups : limiter = setup[1] /\ backend = setup[2]
  /\ now = 0
  /\ db = [k \in Keys |-> IF limiter = "barrier" /\ k = 0
             THEN [value |-> Cardinality(Clients), expires |-> Ttl] ELSE Absent]
  /\ events = 0
  /\ client = [c \in Clients |-> Idle]
  /\ granted = [t \in Times |-> 0]
  /\ slow = FALSE

Fixed == UNCHANGED <<limiter, backend, now, slow>>

(* The keys a limiter uses at a time: one for the whole time, one for each
   bucket, one for each second.                                            *)
Key(t) == CASE limiter = "bucket" -> t - (t % Interval)
            [] limiter = "window" -> t
            [] OTHER -> 0
Window(t) == {k \in Keys : k <= t /\ t < k + Interval}
Lifetime == IF limiter \in {"bucket", "window"} THEN Interval ELSE Ttl

(* A client becomes what "state" says.                                     *)
Become(c, state) ==
  /\ client' = [client EXCEPT ![c] = state]
  /\ UNCHANGED <<db, events, granted>>

(* A key is written, which the clients that watch it notice.               *)
Write(k, entry, c, state) ==
  /\ db' = [db EXCEPT ![k] = entry]
  /\ client' = [d \in Clients |->
       IF d = c THEN state
       ELSE [client[d] EXCEPT !.dirty = @ \/ k \in client[d].watched]]
  /\ UNCHANGED events
Put(k, v, c, state) == Write(k, [value |-> v, expires |-> now + Lifetime], c, state)

(* acquire() yields TRUE.                                                  *)
Acquired(c) ==
  IF limiter = "concurrent" THEN [Idle EXCEPT !.pc = "held", !.since = now] ELSE Idle
Granted(yes) == granted' =
  IF yes /\ limiter # "concurrent" THEN [granted EXCEPT ![now] = @ + 1] ELSE granted

-----------------------------------------------------------------------------
(* Limiters.                                                               *)

(* _acquire() works out its key; memcached and the stub add it as zero.    *)
Begin(c) ==
  /\ client[c].pc = "idle" /\ limiter # "barrier"
  /\ LET k == Key(now)
         state == [Idle EXCEPT !.key = k,
                     !.pc = IF limiter = "window" THEN "read" ELSE "add"]
     IN  IF limiter = "window" /\ backend # "redis" /\ ~Present(k)
         THEN Put(k, 0, c, state) /\ Granted(FALSE)
         ELSE Become(c, state)
  /\ Fixed

Add(c) ==
  /\ client[c].pc = "add"
  /\ LET k == client[c].key IN
       IF Present(k) THEN Become(c, [client[c] EXCEPT !.pc = "incr"])
       ELSE Put(k, 1, c, Acquired(c)) /\ Granted(TRUE)
  /\ Fixed

(* Redis (WATCH, MULTI, EXEC) and the stub (a lock) count up to the limit. *)
Counts == backend \in {"redis", "stub"}

Incr(c) ==
  /\ client[c].pc = "incr" /\ Counts
  /\ LET k == client[c].key
         v == Value(k) + 1
     IN  IF v > Limit THEN Become(c, Idle)
         ELSE Put(k, v, c, Acquired(c)) /\ Granted(TRUE)
  /\ Fixed

(* memcached increments first and compares afterwards, and a missing key is
   an error.                                                               *)
IncrMemcached(c) ==
  /\ client[c].pc = "incr" /\ backend = "memcached"
  /\ LET k == client[c].key
         v == Value(k) + 1
     IN  IF ~Present(k) THEN Become(c, Idle)
         ELSE /\ v <= MaxValue
              /\ Write(k, [db[k] EXCEPT !.value = v], c,
                       IF v <= Limit THEN Acquired(c) ELSE Idle)
              /\ Granted(v <= Limit)
  /\ Fixed

Release(c) ==
  /\ client[c].pc = "held"
  /\ LET v == Value(0) IN
       CASE v < 1 -> Become(c, Idle)
         [] v >= 1 /\ Counts -> Put(0, v - 1, c, Idle) /\ Granted(FALSE)
         [] OTHER -> Write(0, [db[0] EXCEPT !.value = v - 1], c, Idle) /\ Granted(FALSE)
  /\ Fixed

-----------------------------------------------------------------------------
(* The window's incr_and_sum.                                              *)

(* What the values of f over S add up to: as many as they count units.     *)
Units(f, S) == UNION {{t} \X (1 .. f[t]) : t \in S}
SumOf(f, S) == Cardinality(Units(f, S))

Total == 1 + SumOf([k \in Keys |-> Value(k)], Window(now))

(* The stub holds its lock from the reads to the write.                    *)
StubSum(c) ==
  /\ client[c].pc = "read" /\ backend = "stub"
  /\ LET k == client[c].key IN
       IF Value(k) + 1 > Limit \/ Total > Limit THEN Become(c, Idle)
       ELSE Put(k, Value(k) + 1, c, Idle) /\ Granted(TRUE)
  /\ Fixed

(* Redis watches the keys of the window there is now; memcached has a token
   for the one key.  Then the key's value is read.                         *)
Read(c) ==
  /\ client[c].pc = "read" /\ backend # "stub"
  /\ LET k == client[c].key IN
       IF Value(k) + 1 > Limit \/ (backend = "memcached" /\ ~Present(k))
       THEN Become(c, Idle)
       ELSE Become(c, [client[c] EXCEPT !.pc = "sum", !.seen = Value(k), !.dirty = FALSE,
              !.watched = IF backend = "redis" THEN {k} \cup Window(now) ELSE {k}])
  /\ Fixed

(* The keys are worked out again and summed.                               *)
Sum(c) ==
  /\ client[c].pc = "sum"
  /\ IF Total > Limit THEN Become(c, Idle)
     ELSE Become(c, [client[c] EXCEPT !.pc = "exec"])
  /\ Fixed

(* Mutant: the write does not depend on what was watched.                  *)
ExecUnwatched(c) ==
  /\ client[c].pc = "exec"
  /\ Put(client[c].key, client[c].seen + 1, c, Idle) /\ Granted(TRUE)
  /\ Fixed

(* EXEC, or cas(): again from the start if a watched key was written.      *)
Exec(c) ==
  /\ client[c].pc = "exec"
  /\ LET k == client[c].key IN
       IF client[c].dirty \/ (backend = "memcached" /\ ~Present(k))
       THEN Become(c, [Idle EXCEPT !.pc = "read", !.key = k])
       ELSE Put(k, client[c].seen + 1, c, Idle) /\ Granted(TRUE)
  /\ Fixed

-----------------------------------------------------------------------------
(* Barrier.wait(), by as many parties as the barrier was created for.      *)

Arrived(pc) == [Idle EXCEPT !.pc = pc, !.since = now]

(* Mutant: the party before the last clears the barrier.                   *)
ArriveEarly(c) ==
  /\ client[c].pc = "idle" /\ limiter = "barrier" /\ Counts
  /\ IF Value(0) < 3 THEN Become(c, Arrived("cleared"))
     ELSE \E pc \in {"blocked", "left"} :
            Put(0, Value(0) - 1, c, Arrived(pc)) /\ Granted(FALSE)
  /\ Fixed

(* The party that cannot decrement below one clears the barrier; another one
   blocks, or goes away with FALSE.                                        *)
Arrive(c) ==
  /\ client[c].pc = "idle" /\ limiter = "barrier" /\ Counts
  /\ IF Value(0) < 2 THEN Become(c, Arrived("cleared"))
     ELSE \E pc \in {"blocked", "left"} :
            Put(0, Value(0) - 1, c, Arrived(pc)) /\ Granted(FALSE)
  /\ Fixed

(* memcached cannot block, decrements to zero, and fails without the key.  *)
ArriveMemcached(c) ==
  /\ client[c].pc = "idle" /\ limiter = "barrier" /\ backend = "memcached"
  /\ IF ~Present(0) THEN Become(c, Arrived("left"))
     ELSE LET v == IF Value(0) = 0 THEN 0 ELSE Value(0) - 1 IN
          /\ Write(0, [db[0] EXCEPT !.value = v], c,
                   Arrived(IF v < 1 THEN "cleared" ELSE "left"))
          /\ Granted(FALSE)
  /\ Fixed

(* Mutant: no event is left for those that have yet to block.              *)
NotifyWaiting(c) ==
  /\ client[c].pc = "cleared"
  /\ client' = [d \in Clients |-> IF d = c THEN [client[d] EXCEPT !.pc = "opened"]
       ELSE IF client[d].pc = "waiting" THEN [client[d] EXCEPT !.pc = "passed"]
       ELSE client[d]]
  /\ UNCHANGED <<events, db, granted>> /\ Fixed

(* wait_notify(): Redis keeps the event, the stub wakes who is waiting.    *)
Notify(c) ==
  /\ client[c].pc = "cleared"
  /\ client' = [d \in Clients |-> IF d = c THEN [client[d] EXCEPT !.pc = "opened"]
       ELSE IF client[d].pc = "waiting" THEN [client[d] EXCEPT !.pc = "passed"]
       ELSE client[d]]
  /\ events' = IF backend = "redis" THEN now + Ttl ELSE events
  /\ UNCHANGED <<db, granted>> /\ Fixed

(* wait(): Redis passes the event on, the stub's condition begins to wait. *)
Wait(c) ==
  /\ client[c].pc = "blocked"
  /\ \/ backend = "redis" /\ events > now
        /\ Become(c, [client[c] EXCEPT !.pc = "passed"])
     \/ backend = "stub" /\ Become(c, [client[c] EXCEPT !.pc = "waiting"])
  /\ Fixed

(* wait() returns FALSE after its timeout.                                 *)
TimeOut(c) ==
  /\ \/ client[c].pc = "waiting"
     \/ client[c].pc = "blocked" /\ backend = "redis" /\ events <= now
  /\ Become(c, [client[c] EXCEPT !.pc = "left"])
  /\ Fixed

-----------------------------------------------------------------------------
(* Slow: a slot held for the ttl, a barrier that is still in use after its
   ttl, an acquisition that goes on when its key is no longer current.     *)
TooSlow ==
  CASE limiter = "concurrent" ->
         \E c \in Clients : client[c].pc = "held" /\ now + 1 >= client[c].since + Ttl
    [] limiter = "barrier" -> now + 1 >= Ttl
    [] OTHER -> \E c \in Clients : client[c].pc # "idle" /\ client[c].key # Key(now + 1)

Tick ==
  /\ now < MaxTime
  /\ ~slow  \* bound: at most one second more
  /\ now' = now + 1
  /\ db' = [k \in Keys |-> IF db[k].expires > now + 1 THEN db[k] ELSE Absent]
  /\ slow' = (slow \/ TooSlow)
  /\ granted' = [t \in Times |-> IF now + 1 < t + Interval THEN granted[t] ELSE 0]
  /\ UNCHANGED <<limiter, backend, events, client>>

Next ==
  \/ Tick
  \/ \E c \in Clients :
       \/ Begin(c) \/ Add(c) \/ Incr(c) \/ IncrMemcached(c) \/ Release(c)
       \/ StubSum(c) \/ Read(c) \/ Sum(c) \/ Exec(c)
       \/ Arrive(c) \/ ArriveMemcached(c) \/ Notify(c) \/ Wait(c) \/ TimeOut(c)

(* A client that has begun goes on.                                        *)
Fairness == \A c \in Clients : WF_vars(Notify(c)) /\ WF_vars(Wait(c))

Spec == Init /\ [][Next]_vars /\ Fairness

-----------------------------------------------------------------------------
(* Properties.                                                             *)

Holders == {c \in Clients : client[c].pc = "held"}

(* "ensures that only `limit` concurrent operations may happen at the same
   time" (concurrent.py:24), as long as no operation outlives the ttl: each
   acquisition gives the key a new lifetime.  Not so on Memcached, whose incr
   leaves the key the lifetime it was added with (memcached.py:53): there
   only until the first key may have expired.  Later the next add() lets in
   Limit clients beside those that still hold the slots they took.         *)
WithinLimit ==
  ~slow /\ (backend = "memcached" => now < Ttl) => Cardinality(Holders) <= Limit

(* The counter counts the holders: every slot that was given back can be
   acquired again, and refused clients took nothing.  On Memcached refused
   clients stay counted, so it counts at least the holders, until the first
   key may have expired.                                                   *)
CountsHolders ==
  limiter = "concurrent" /\ ~slow =>
    /\ backend # "memcached" => Value(0) = Cardinality(Holders)
    /\ backend = "memcached" /\ now < Ttl => Cardinality(Holders) <= Value(0)

(* At most "limit" operations in each bucket, if no client is held up
   between working out its key and the server's answer.                    *)
BucketLimit ==
  limiter = "bucket" /\ ~slow => \A k \in Keys : k % Interval = 0 =>
    SumOf(granted, Window(k + Interval - 1)) <= Limit

(* At most "limit" operations in any window, under the same condition,
   whichever way the clients' commands interleave within a second.         *)
WindowLimit ==
  limiter = "window" /\ ~slow =>
    \A t \in Times : SumOf(granted, Window(t)) <= Limit

(* Each limiter keeps its limit on each backend, the concurrent one on
   Memcached only for its first ttl; on Redis and the stub the concurrent
   one refuses nobody whom it has room for.                                *)
LimitsHold == TypeOK /\ WithinLimit /\ CountsHolders /\ BucketLimit /\ WindowLimit

(* A barrier that is used within its ttl lets no party through before the
   last one has arrived, and of all its parties exactly one clears it, by
   which the callbacks of a group are enqueued once.                       *)
Through == {c \in Clients : client[c].pc \in {"cleared", "opened", "passed"}}
BarrierHolds ==
  limiter = "barrier" /\ ~slow =>
    LET clearing == {c \in Clients : client[c].pc \in {"cleared", "opened"}}
        complete == \A c \in Clients : client[c].pc # "idle"
    IN  /\ Through # {} => complete
        /\ complete => Cardinality(clearing) = 1

(* On Redis the parties that block get through when the last one arrives,
   even those that had yet to block when the event was published.          *)
BarrierOpens ==
  \A c \in Clients :
    limiter = "barrier" /\ backend = "redis" /\ client[c].pc = "blocked"
      /\ (\A d \in Clients : client[d].pc # "idle")
    ~> client[c].pc \in {"passed", "left"} \/ slow
=============================================================================
