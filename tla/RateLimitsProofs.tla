-------------------------- MODULE RateLimitsProofs --------------------------
(***************************************************************************)
(* Proofs about RateLimits: every limiter keeps its limit and every barrier *)
(* opens once and for all its parties, for any number of clients, any      *)
(* limit, interval and lifetime.                                           *)
(***************************************************************************)
EXTENDS RateLimits, FiniteSetTheorems, TLAPS

(* The steps of the parties that have taken a place at a barrier.          *)
Gone == {"blocked", "waiting", "passed", "left"}

(***************************************************************************)
(* What an inductive invariant of the limiters adds to their properties.   *)
(***************************************************************************)

(* The steps a client takes are those of its limiter.                      *)
Steps == CASE limiter = "concurrent" -> {"idle", "add", "incr", "held"}
           [] limiter = "bucket" -> {"idle", "add", "incr"}
           [] limiter = "window" -> {"idle", "read", "sum", "exec"}
           [] OTHER -> {"idle", "cleared", "opened"} \cup Gone
Allowed(s) ==
  /\ s.pc \in Steps
  /\ limiter \in {"concurrent", "barrier"} => s.key = 0
  /\ s.since <= now
Stages == \A c \in Clients : Allowed(client[c])

(* The key outlives the holders it counts.                                 *)
Held ==
  limiter = "concurrent" /\ backend # "memcached" /\ ~slow =>
    /\ Value(0) = Cardinality(Holders) /\ Value(0) <= Limit
    /\ \A c \in Holders : client[c].since + Ttl <= db[0].expires

(* On Memcached the first key lives for its ttl and counts the holders, and
   perhaps more.                                                           *)
FirstKey ==
  limiter = "concurrent" /\ backend = "memcached" /\ now < Ttl =>
    /\ Cardinality(Holders) <= Value(0) /\ Cardinality(Holders) <= Limit
    /\ db[0].expires = 0 \/ Ttl <= db[0].expires

(* The bucket's key outlives the bucket and counts at least what was
   acquired in it.                                                         *)
Bucket(k) == Window(k + Interval - 1)
Bucketed ==
  limiter = "bucket" /\ ~slow =>
    /\ \A c \in Clients : client[c].pc # "idle" => client[c].key = Key(now)
    /\ \A k \in Keys : db[k].expires > 0 => k + Interval <= db[k].expires
    /\ \A t \in Times : now < t => granted[t] = 0
    /\ SumOf(granted, Bucket(Key(now))) <= Value(Key(now))

(* Each second's key counts what was acquired in it and expires when it
   leaves the window; a client that nobody disturbed has read the counts
   there are now, and then found room.                                     *)
Windowed ==
  limiter = "window" /\ ~slow =>
    /\ \A t \in Times :
         /\ granted[t] = db[t].value
         /\ db[t].value > 0 => t <= now /\ now < db[t].expires /\ db[t].expires = t + Interval
    /\ \A c \in Clients :
         /\ client[c].pc # "idle" => client[c].key = now
         /\ client[c].pc \in {"sum", "exec"} => now \in client[c].watched
         /\ client[c].pc \in {"sum", "exec"} /\ ~client[c].dirty => client[c].seen = Value(now)
         /\ client[c].pc = "exec" /\ ~client[c].dirty =>
              SumOf(granted, Window(now)) + 1 <= Limit

(* The value is what is left of the parties: of those that have yet to come
   and, on Redis and the stub, of the one that clears.                     *)
Clearing == {c \in Clients : client[c].pc \in {"cleared", "opened"}}
Spent == {c \in Clients : client[c].pc \in IF Counts THEN Gone
                                           ELSE Gone \cup {"cleared", "opened"}}
Parties ==
  limiter = "barrier" /\ ~slow =>
    /\ now < Ttl /\ Ttl <= db[0].expires
    /\ Value(0) + Cardinality(Spent) = Cardinality(Clients)
    /\ Counts => 1 <= Value(0)
    /\ \A c \in Clearing, d \in Clients : d # c => client[d].pc \in Gone
    /\ (\A c \in Clients : client[c].pc # "idle") => Clearing # {}
    /\ (events > 0 \/ \E c \in Clients : client[c].pc = "passed") => Clearing # {}

IInv ==
  /\ TypeOK /\ Stages /\ Held /\ FirstKey /\ Bucketed /\ Windowed /\ Parties
  /\ BucketLimit /\ WindowLimit

-----------------------------------------------------------------------------
(* Buckets: which multiple of the interval a time belongs to.              *)

LEMMA Constants ==
  /\ Limit \in Nat /\ 1 <= Limit /\ Ttl \in Nat /\ 1 <= Ttl
  /\ Interval \in Nat /\ 1 <= Interval
  /\ MaxTime \in Nat /\ MaxValue \in Nat /\ Limit < MaxValue
  /\ IsFiniteSet(Clients) /\ Cardinality(Clients) \in Nat
  /\ Cardinality(Clients) <= MaxValue
  /\ Setups \subseteq Limiters \X Backends
<1>1. IsFiniteSet(Clients) /\ Cardinality(Clients) \in Nat
  BY RateLimitsAssumption, FS_CardinalityType
<1> QED BY <1>1, RateLimitsAssumption

(* A product with a number of the bucket.                                  *)
LEMMA Multiples ==
  ASSUME NEW a \in Int, NEW b \in Int, a < b
  PROVE  (Interval * a) + Interval <= Interval * b
<1>1. Interval * (b - (a + 1)) >= 0
  <2>1. b - (a + 1) \in Nat /\ Interval \in Nat
    BY Constants
  <2> QED BY <2>1
<1>2. Interval * (b - (a + 1)) = (Interval * b) - ((Interval * a) + Interval)
  BY Constants
<1>3. Interval * a \in Int /\ Interval * b \in Int /\ Interval \in Int
  BY Constants
<1> QED BY <1>1, <1>2, <1>3

LEMMA Division ==
  ASSUME NEW t \in Nat
  PROVE  /\ t \div Interval \in Int /\ t % Interval \in 0 .. Interval - 1
         /\ t = (Interval * (t \div Interval)) + (t % Interval)
BY Constants

(* The bucket of t begins at a multiple, and ends after t.                 *)
LEMMA BucketOf ==
  ASSUME NEW t \in Nat
  PROVE  /\ t - (t % Interval) \in 0 .. t
         /\ t < (t - (t % Interval)) + Interval
         /\ (t - (t % Interval)) % Interval = 0
<1> DEFINE q == t \div Interval
           k == Interval * q
           p == k \div Interval
           r == k % Interval
<1>1. /\ q \in Int /\ k \in Int /\ t % Interval \in 0 .. Interval - 1
      /\ t = k + (t % Interval)
  BY Division, Constants
<1>2. k \in Nat
  <2>1. CASE q < 0
    <3>1. k + Interval <= Interval * 0
      BY <1>1, <2>1, Multiples
    <3>2. Interval * 0 = 0 /\ Interval \in Int
      BY Constants
    <3> QED BY <1>1, <3>1, <3>2
  <2>2. CASE q >= 0
    <3>1. q \in Nat /\ Interval \in Nat
      BY <1>1, <2>2, Constants
    <3> QED BY <3>1
  <2> QED BY <1>1, <2>1, <2>2
<1>3. p \in Int /\ r \in 0 .. Interval - 1 /\ k = (Interval * p) + r
  BY <1>2, Division
<1>4. Interval * p \in Int /\ Interval \in Int
  BY <1>3, Constants
<1> HIDE DEF k, p, q, r
<1>5. k = Interval * q
  BY DEF k
<1>6. p = q
  <2>1. CASE p < q
    <3>1. (Interval * p) + Interval <= k
      BY <1>1, <1>3, <1>5, <2>1, Multiples
    <3> QED BY <1>1, <1>3, <1>4, <3>1
  <2>2. CASE q < p
    <3>1. k + Interval <= Interval * p
      BY <1>1, <1>3, <1>5, <2>2, Multiples
    <3> QED BY <1>1, <1>3, <1>4, <3>1
  <2> QED BY <1>1, <1>3, <2>1, <2>2
<1>7. r = 0
  BY <1>1, <1>3, <1>4, <1>5, <1>6
<1>8. k % Interval = 0
  BY <1>7 DEF r
<1>9. t - (t % Interval) = k
  BY <1>1
<1> QED BY <1>1, <1>2, <1>4, <1>8, <1>9

(* No two buckets share a time.                                            *)
LEMMA OneBucket ==
  ASSUME NEW t \in Nat, NEW k \in Nat, k % Interval = 0, k <= t, t < k + Interval
  PROVE  k = t - (t % Interval)
<1> DEFINE a == k \div Interval
           b == t \div Interval
<1>1. /\ a \in Int /\ k = (Interval * a) + 0
      /\ b \in Int /\ t % Interval \in 0 .. Interval - 1
      /\ t = (Interval * b) + (t % Interval)
  BY Division
<1>2. Interval * a \in Int /\ Interval * b \in Int /\ Interval \in Int
  BY <1>1, Constants
<1> HIDE DEF a, b
<1>3. a = b
  <2>1. CASE a < b
    <3>1. (Interval * a) + Interval <= Interval * b
      BY <1>1, <2>1, Multiples
    <3> QED BY <1>1, <1>2, <3>1
  <2>2. CASE b < a
    <3>1. (Interval * b) + Interval <= Interval * a
      BY <1>1, <2>2, Multiples
    <3> QED BY <1>1, <1>2, <3>1
  <2> QED BY <1>1, <2>1, <2>2
<1> QED BY <1>1, <1>2, <1>3

-----------------------------------------------------------------------------
(* Sums.                                                                   *)

LEMMA UnitsAre ==
  ASSUME NEW f, NEW S, NEW u
  PROVE  u \in Units(f, S) <=> \E t \in S : u \in {t} \X (1 .. f[t])
BY DEF Units

LEMMA UnitsFinite ==
  ASSUME NEW f \in [Times -> Nat], NEW S \in SUBSET Times
  PROVE  IsFiniteSet(Units(f, S)) /\ SumOf(f, S) \in Nat
<1> DEFINE R == {{t} \X (1 .. f[t]) : t \in S}
           g == [t \in S |-> {t} \X (1 .. f[t])]
<1>1. IsFiniteSet(S)
  <2>1. IsFiniteSet(Times)
    BY Constants, FS_Interval DEF Times
  <2> QED BY <2>1, FS_Subset
<1>2. g \in Surjection(S, R)
  BY DEF Surjection
<1>3. IsFiniteSet(R)
  BY <1>1, <1>2, FS_Surjection
<1>4. ASSUME NEW t \in S PROVE IsFiniteSet({t} \X (1 .. f[t]))
  <2>1. IsFiniteSet({t}) /\ IsFiniteSet(1 .. f[t])
    <3>1. 1 \in Int /\ f[t] \in Int
      OBVIOUS
    <3> QED BY <3>1, FS_Interval, FS_Singleton
  <2> QED BY <2>1, FS_Product
<1>5. \A T \in R : IsFiniteSet(T)
  BY <1>4
<1>6. IsFiniteSet(UNION R)
  BY <1>3, <1>5, FS_UNION
<1>7. IsFiniteSet(Units(f, S))
  BY <1>6 DEF Units
<1> QED BY <1>7, FS_CardinalityType DEF SumOf

(* Of two functions, the smaller adds up to less over the smaller set.     *)
LEMMA SumMonotone ==
  ASSUME NEW f \in [Times -> Nat], NEW g \in [Times -> Nat],
         NEW S \in SUBSET Times, NEW T \in SUBSET Times,
         \A t \in S : f[t] > 0 => t \in T /\ f[t] <= g[t]
  PROVE  SumOf(f, S) <= SumOf(g, T)
<1>1. Units(f, S) \subseteq Units(g, T)
  <2>1. ASSUME NEW u \in Units(f, S) PROVE u \in Units(g, T)
    <3>1. PICK t \in S : u \in {t} \X (1 .. f[t])
      BY UnitsAre
    <3>2. f[t] \in Nat /\ g[t] \in Nat /\ u = <<t, u[2]>> /\ u[2] \in 1 .. f[t]
      BY <3>1
    <3>3. t \in T /\ f[t] <= g[t]
      BY <3>2
    <3>4. u \in {t} \X (1 .. g[t])
      BY <3>2, <3>3
    <3> QED BY <3>3, <3>4, UnitsAre
  <2> QED BY <2>1
<1> QED BY <1>1, UnitsFinite, FS_Subset DEF SumOf

LEMMA SumOfNone ==
  ASSUME NEW f \in [Times -> Nat], NEW S \in SUBSET Times, \A t \in S : f[t] = 0
  PROVE  SumOf(f, S) = 0
<1>1. ASSUME NEW u \in Units(f, S) PROVE FALSE
  <2>1. PICK t \in S : u \in {t} \X (1 .. f[t])
    BY UnitsAre
  <2> QED BY <2>1
<1>2. Units(f, S) = {}
  BY <1>1
<1> QED BY <1>2, FS_EmptySet DEF SumOf

(* One more in one place.                                                  *)
LEMMA SumPlusOne ==
  ASSUME NEW f \in [Times -> Nat], NEW n \in Times, NEW S \in SUBSET Times,
         NEW g \in [Times -> Nat], \A t \in Times : g[t] = IF t = n THEN f[n] + 1 ELSE f[t]
  PROVE  SumOf(g, S) = IF n \in S THEN SumOf(f, S) + 1 ELSE SumOf(f, S)
<1> DEFINE x == <<n, f[n] + 1>>
<1>0. f[n] \in Nat
  OBVIOUS
<1>1. ASSUME NEW t \in S, NEW u
      PROVE  u \in {t} \X (1 .. g[t]) <=> u \in {t} \X (1 .. f[t]) \/ (t = n /\ u = x)
  <2>1. CASE t = n
    <3>1. 1 .. g[t] = (1 .. f[t]) \cup {f[n] + 1}
      BY <1>0, <2>1
    <3> QED BY <2>1, <3>1
  <2>2. CASE t # n
    BY <2>2
  <2> QED BY <2>1, <2>2
<1>2. ASSUME NEW u
      PROVE  u \in Units(g, S) <=> u \in Units(f, S) \/ (n \in S /\ u = x)
  BY <1>1, UnitsAre
<1>3. x \notin Units(f, S)
  <2>1. ASSUME NEW t \in S, x \in {t} \X (1 .. f[t]) PROVE FALSE
    BY <1>0, <2>1
  <2> QED BY <2>1, UnitsAre
<1>4. CASE n \in S
  <2>1. Units(g, S) = Units(f, S) \cup {x}
    BY <1>2, <1>4
  <2>2. Cardinality(Units(f, S) \cup {x}) = Cardinality(Units(f, S)) + 1
    BY <1>3, UnitsFinite, FS_AddElement
  <2> QED BY <1>4, <2>1, <2>2 DEF SumOf
<1>5. CASE n \notin S
  <2>1. Units(g, S) = Units(f, S)
    BY <1>2, <1>5
  <2> QED BY <1>5, <2>1 DEF SumOf
<1> QED BY <1>4, <1>5

-----------------------------------------------------------------------------
(* What the operations change.                                             *)

Same(c) ==
  \A d \in Clients \ {c} :
    /\ client'[d].pc = client[d].pc /\ client'[d].key = client[d].key
    /\ client'[d].since = client[d].since /\ client'[d].seen = client[d].seen
    /\ client'[d].watched = client[d].watched

LEMMA ClientTypes ==
  ASSUME TypeOK, NEW c \in Clients
  PROVE  /\ client[c] \in Client /\ client[c].key \in Keys /\ client[c].since \in Times
         /\ client[c].seen \in Nat /\ client[c].seen <= Limit - 1
         /\ client[c].watched \subseteq Keys /\ client[c].dirty \in BOOLEAN
<1>1. client[c] \in Client
  BY DEF TypeOK
<1> QED BY <1>1, Constants DEF Client

LEMMA DbTypes ==
  ASSUME TypeOK, NEW k \in Keys
  PROVE  /\ db[k] \in Entry /\ db[k].value \in 0 .. MaxValue /\ db[k].value \in Nat
         /\ db[k].expires \in Nat /\ db[k].expires <= MaxTime + Ttl + Interval
         /\ now \in Nat /\ now <= MaxTime
         /\ Value(k) \in 0 .. MaxValue /\ Value(k) \in Nat
         /\ db[k].value = 0 => Value(k) = 0
         /\ Value(k) > 0 => Present(k) /\ db[k].value = Value(k)
<1>1. db[k] \in Entry /\ now \in 0 .. MaxTime
  BY DEF TypeOK, Times
<1>2. /\ db[k].value \in 0 .. MaxValue
      /\ db[k].expires \in 0 .. MaxTime + Ttl + Interval
  BY <1>1 DEF Entry
<1> QED BY <1>1, <1>2, Constants DEF Value

LEMMA KeyTypes ==
  ASSUME TypeOK
  PROVE  /\ Key(now) \in Keys /\ Key(now) \in Nat /\ Key(now) <= now
         /\ limiter \in {"concurrent", "barrier"} => Key(now) = 0
         /\ limiter = "window" => Key(now) = now
         /\ limiter = "bucket" => Key(now) % Interval = 0 /\ now < Key(now) + Interval
         /\ 0 \in Keys /\ now \in Times /\ Keys = Times
         /\ Keys \subseteq Nat /\ now \in Nat
<1>1. now \in 0 .. MaxTime /\ MaxTime \in Nat
  BY Constants DEF TypeOK, Times
<1>2. /\ now - (now % Interval) \in 0 .. now
      /\ now < (now - (now % Interval)) + Interval
      /\ (now - (now % Interval)) % Interval = 0
  BY <1>1, BucketOf
<1>3. limiter \in {"concurrent", "bucket", "window", "barrier"}
  BY Constants DEF TypeOK, Limiters
<1>4. CASE limiter = "bucket"
  BY <1>1, <1>2, <1>4 DEF Key, Keys, Times
<1>5. CASE limiter # "bucket"
  BY <1>1, <1>3, <1>5 DEF Key, Keys, Times
<1> QED BY <1>4, <1>5

LEMMA IdleTypes == Idle \in Client /\ Idle.pc = "idle" /\ Idle.key = 0 /\ Idle.since = 0
  BY Constants DEF Idle, Client, Keys, Times

LEMMA BecomeEffect ==
  ASSUME TypeOK, NEW c \in Clients, NEW s \in Client, Become(c, s)
  PROVE  /\ client' \in [Clients -> Client] /\ client'[c] = s
         /\ \A d \in Clients \ {c} : client'[d] = client[d]
         /\ Same(c) /\ UNCHANGED <<db, events, granted>>
<1>1. client \in [Clients -> Client]
  BY DEF TypeOK
<1>2. client' = [client EXCEPT ![c] = s] /\ UNCHANGED <<db, events, granted>>
  BY DEF Become
<1> QED BY <1>1, <1>2 DEF Same

LEMMA WriteEffect ==
  ASSUME TypeOK, NEW c \in Clients, NEW s \in Client, NEW k \in Keys, NEW e \in Entry,
         Write(k, e, c, s)
  PROVE  /\ client' \in [Clients -> Client] /\ client'[c] = s /\ Same(c)
         /\ \A d \in Clients \ {c} :
              client'[d].dirty <=> client[d].dirty \/ k \in client[d].watched
         /\ db' \in [Keys -> Entry] /\ events' = events
         /\ db'[k] = e /\ \A j \in Keys \ {k} : db'[j] = db[j]
<1>1. client \in [Clients -> Client] /\ db \in [Keys -> Entry]
  BY DEF TypeOK
<1>2. /\ db' = [db EXCEPT ![k] = e] /\ events' = events
      /\ client' = [d \in Clients |-> IF d = c THEN s
           ELSE [client[d] EXCEPT !.dirty = client[d].dirty \/ k \in client[d].watched]]
  BY DEF Write
<1>3. ASSUME NEW d \in Clients \ {c}
      PROVE  /\ client'[d] \in Client
             /\ client'[d].pc = client[d].pc /\ client'[d].key = client[d].key
             /\ client'[d].since = client[d].since /\ client'[d].seen = client[d].seen
             /\ client'[d].watched = client[d].watched
             /\ client'[d].dirty <=> client[d].dirty \/ k \in client[d].watched
  <2> DEFINE b == client[d].dirty \/ k \in client[d].watched
  <2>1. client'[d] = [client[d] EXCEPT !.dirty = b]
    BY <1>2
  <2>2. b \in BOOLEAN /\ client[d] \in Client
    BY <1>1
  <2>3. [client[d] EXCEPT !.dirty = b].dirty = b
    BY <2>2, Zenon DEF Client
  <2>4. client'[d].dirty <=> b
    BY <2>1, <2>3
  <2> HIDE DEF b
  <2>5. /\ client'[d] \in Client
        /\ client'[d].pc = client[d].pc /\ client'[d].key = client[d].key
        /\ client'[d].since = client[d].since /\ client'[d].seen = client[d].seen
        /\ client'[d].watched = client[d].watched
    BY <2>1, <2>2 DEF Client
  <2> QED BY <2>4, <2>5 DEF b
<1>4. client' \in [Clients -> Client] /\ client'[c] = s
  BY <1>2, <1>3
<1>5. db' \in [Keys -> Entry] /\ db'[k] = e /\ \A j \in Keys \ {k} : db'[j] = db[j]
  BY <1>1, <1>2
<1> QED BY <1>2, <1>3, <1>4, <1>5 DEF Same

LEMMA PutEffect ==
  ASSUME TypeOK, NEW c \in Clients, NEW s \in Client, NEW k \in Keys,
         NEW v \in 0 .. MaxValue, Put(k, v, c, s)
  PROVE  /\ client' \in [Clients -> Client] /\ client'[c] = s /\ Same(c)
         /\ \A d \in Clients \ {c} :
              client'[d].dirty <=> client[d].dirty \/ k \in client[d].watched
         /\ db' \in [Keys -> Entry] /\ events' = events
         /\ db'[k] = [value |-> v, expires |-> now + Lifetime]
         /\ \A j \in Keys \ {k} : db'[j] = db[j]
         /\ Lifetime \in Nat /\ 1 <= Lifetime
<1>1. Lifetime \in Nat /\ 1 <= Lifetime /\ Lifetime <= Ttl + Interval
  BY Constants DEF Lifetime
<1>2. [value |-> v, expires |-> now + Lifetime] \in Entry
  <2>1. now + Lifetime \in 0 .. MaxTime + Ttl + Interval
    BY <1>1, DbTypes, KeyTypes, Constants
  <2> QED BY <2>1 DEF Entry
<1> QED BY <1>1, <1>2, WriteEffect DEF Put

LEMMA GrantedEffect ==
  ASSUME TypeOK, NEW yes, Granted(yes)
  PROVE  /\ granted' \in [Times -> Nat]
         /\ ~yes \/ limiter = "concurrent" => granted' = granted
         /\ yes /\ limiter # "concurrent" =>
              \A t \in Times : granted'[t] = IF t = now THEN granted[now] + 1 ELSE granted[t]
<1>1. granted \in [Times -> Nat] /\ now \in Times
  BY DEF TypeOK
<1>2. CASE yes /\ limiter # "concurrent"
  <2>1. granted' = [granted EXCEPT ![now] = granted[now] + 1]
    BY <1>2 DEF Granted
  <2> QED BY <1>1, <1>2, <2>1
<1>3. CASE ~(yes /\ limiter # "concurrent")
  <2>1. granted' = granted
    BY <1>3 DEF Granted
  <2> QED BY <1>1, <1>3, <2>1
<1> QED BY <1>2, <1>3

LEMMA AcquiredTypes ==
  ASSUME TypeOK, NEW c \in Clients
  PROVE  /\ Acquired(c) \in Client
         /\ limiter = "concurrent" => Acquired(c).pc = "held" /\ Acquired(c).since = now
                                      /\ Acquired(c).key = 0
         /\ limiter # "concurrent" => Acquired(c) = Idle
<1>1. now \in Times
  BY DEF TypeOK
<1> QED BY <1>1, IdleTypes DEF Acquired, Client, Idle

-----------------------------------------------------------------------------
(* Types, and the steps of each limiter.                                   *)

LEMMA LimiterIs ==
  ASSUME TypeOK
  PROVE  limiter \in {"concurrent", "bucket", "window", "barrier"}
         /\ backend \in {"redis", "memcached", "stub"}
BY Constants DEF TypeOK, Limiters, Backends

LEMMA BecomeTypes ==
  ASSUME TypeOK, Stages, NEW c \in Clients, NEW s \in Client, Become(c, s), Fixed, Allowed(s)
  PROVE  TypeOK' /\ Stages'
<1>1. /\ client' \in [Clients -> Client] /\ client'[c] = s /\ Same(c)
      /\ UNCHANGED <<db, events, granted>>
  BY BecomeEffect
<1>2. TypeOK'
  BY <1>1 DEF TypeOK, Fixed
<1>3. Stages'
  BY <1>1 DEF Stages, Allowed, Steps, Same, Fixed
<1> QED BY <1>2, <1>3

LEMMA WriteTypes ==
  ASSUME TypeOK, Stages, NEW c \in Clients, NEW s \in Client, NEW k \in Keys,
         NEW e \in Entry, Write(k, e, c, s), NEW yes, Granted(yes), Fixed, Allowed(s)
  PROVE  TypeOK' /\ Stages'
<1>1. /\ client' \in [Clients -> Client] /\ client'[c] = s /\ Same(c)
      /\ db' \in [Keys -> Entry] /\ events' = events
  BY WriteEffect
<1>2. granted' \in [Times -> Nat]
  BY GrantedEffect
<1>3. TypeOK'
  BY <1>1, <1>2 DEF TypeOK, Fixed
<1>4. Stages'
  BY <1>1 DEF Stages, Allowed, Steps, Same, Fixed
<1> QED BY <1>3, <1>4

LEMMA PutTypes ==
  ASSUME TypeOK, Stages, NEW c \in Clients, NEW s \in Client, NEW k \in Keys,
         NEW v \in 0 .. MaxValue, Put(k, v, c, s), NEW yes, Granted(yes), Fixed, Allowed(s)
  PROVE  TypeOK' /\ Stages'
<1>1. /\ client' \in [Clients -> Client] /\ client'[c] = s /\ Same(c)
      /\ db' \in [Keys -> Entry] /\ events' = events
  BY PutEffect
<1>2. granted' \in [Times -> Nat]
  BY GrantedEffect
<1>3. TypeOK'
  BY <1>1, <1>2 DEF TypeOK, Fixed
<1>4. Stages'
  BY <1>1 DEF Stages, Allowed, Steps, Same, Fixed
<1> QED BY <1>3, <1>4

(* Clients that are idle again, or that have acquired.                     *)
LEMMA IdleAllowed ==
  ASSUME TypeOK, NEW c \in Clients
  PROVE  /\ Idle \in Client /\ Allowed(Idle) /\ Acquired(c) \in Client
         /\ limiter \in {"concurrent", "bucket", "window"} => Allowed(Acquired(c))
<1>1. 0 <= now /\ now <= now
  BY KeyTypes
<1>2. Idle.pc \in Steps
  BY IdleTypes, LimiterIs DEF Steps
<1> QED BY <1>1, <1>2, IdleTypes, AcquiredTypes DEF Allowed, Steps

LEMMA StepOf ==
  ASSUME TypeOK, Stages, NEW c \in Clients
  PROVE  /\ client[c].pc \in {"add", "incr"} => limiter \in {"concurrent", "bucket"}
         /\ client[c].pc \in {"read", "sum", "exec"} => limiter = "window"
         /\ client[c].pc = "held" => limiter = "concurrent"
         /\ client[c].pc \in Gone \cup {"cleared", "opened"} => limiter = "barrier"
         /\ limiter \in {"concurrent", "barrier"} => client[c].key = 0
         /\ client[c].since <= now
BY LimiterIs DEF Stages, Allowed, Steps, Gone

LEMMA BeginTypes ==
  ASSUME TypeOK, Stages, NEW c \in Clients, Begin(c) PROVE TypeOK' /\ Stages'
<1> DEFINE k == Key(now)
           s == [Idle EXCEPT !.key = k, !.pc = IF limiter = "window" THEN "read" ELSE "add"]
<1>1. k \in Keys /\ (limiter = "concurrent" => k = 0) /\ limiter # "barrier" /\ 0 <= now
      /\ 0 \in 0 .. MaxValue
  BY KeyTypes, Constants DEF Begin
<1>2. /\ s \in Client /\ s.pc = (IF limiter = "window" THEN "read" ELSE "add")
      /\ s.key = k /\ s.since = 0
  BY <1>1, IdleTypes DEF Client
<1>3. Allowed(s)
  BY <1>1, <1>2, LimiterIs DEF Allowed, Steps
<1>4. Fixed /\ (Become(c, s) \/ (Put(k, 0, c, s) /\ Granted(FALSE)))
  BY DEF Begin
<1> HIDE DEF k, s
<1> QED BY <1>1, <1>2, <1>3, <1>4, BecomeTypes, PutTypes

LEMMA AddTypes ==
  ASSUME TypeOK, Stages, NEW c \in Clients, Add(c) PROVE TypeOK' /\ Stages'
<1> DEFINE k == client[c].key
           s == [client[c] EXCEPT !.pc = "incr"]
<1>1. k \in Keys /\ limiter \in {"concurrent", "bucket"} /\ 1 \in 0 .. MaxValue
      /\ client[c] \in Client /\ Allowed(client[c])
  BY ClientTypes, StepOf, Constants DEF Add, Stages
<1>2. s \in Client /\ s.pc = "incr" /\ s.key = client[c].key /\ s.since = client[c].since
  BY <1>1 DEF Client
<1>3. Allowed(s)
  BY <1>1, <1>2 DEF Allowed, Steps
<1>4. Fixed /\ (Become(c, s) \/ (Put(k, 1, c, Acquired(c)) /\ Granted(TRUE)))
  BY DEF Add
<1> HIDE DEF k, s
<1> QED BY <1>1, <1>2, <1>3, <1>4, BecomeTypes, PutTypes, IdleAllowed

LEMMA IncrTypes ==
  ASSUME TypeOK, Stages, NEW c \in Clients, Incr(c) PROVE TypeOK' /\ Stages'
<1> DEFINE k == client[c].key
           v == Value(k) + 1
<1>1. k \in Keys /\ limiter \in {"concurrent", "bucket"}
  BY ClientTypes, StepOf DEF Incr
<1>2. v \in Nat
  BY <1>1, DbTypes
<1>3. Fixed /\ (Become(c, Idle) \/ (v <= Limit /\ Put(k, v, c, Acquired(c)) /\ Granted(TRUE)))
  <2>1. v > Limit \/ v <= Limit
    BY <1>2, Constants
  <2>2. v > Limit => ~(v <= Limit)
    BY <1>2, Constants
  <2> QED BY <2>1, <2>2 DEF Incr
<1>4. v <= Limit => v \in 0 .. MaxValue
  BY <1>2, Constants
<1> HIDE DEF k, v
<1> QED BY <1>1, <1>3, <1>4, BecomeTypes, PutTypes, IdleAllowed

LEMMA IncrMemcachedTypes ==
  ASSUME TypeOK, Stages, NEW c \in Clients, IncrMemcached(c) PROVE TypeOK' /\ Stages'
<1> DEFINE k == client[c].key
           v == Value(k) + 1
           e == [db[k] EXCEPT !.value = v]
           s == IF v <= Limit THEN Acquired(c) ELSE Idle
<1>1. k \in Keys /\ limiter \in {"concurrent", "bucket"}
  BY ClientTypes, StepOf DEF IncrMemcached
<1>2. v \in Nat /\ db[k] \in Entry
  BY <1>1, DbTypes
<1>3. Fixed /\ (Become(c, Idle) \/ (v <= MaxValue /\ Write(k, e, c, s) /\ Granted(v <= Limit)))
  BY DEF IncrMemcached
<1>4. v <= MaxValue => e \in Entry
  BY <1>2 DEF Entry
<1>5. s \in Client /\ Allowed(s)
  BY <1>1, IdleAllowed
<1> HIDE DEF k, v, e, s
<1> QED BY <1>1, <1>3, <1>4, <1>5, BecomeTypes, WriteTypes, IdleAllowed

LEMMA ReleaseTypes ==
  ASSUME TypeOK, Stages, NEW c \in Clients, Release(c) PROVE TypeOK' /\ Stages'
<1> DEFINE v == Value(0)
           e == [db[0] EXCEPT !.value = v - 1]
<1>1. 0 \in Keys /\ v \in 0 .. MaxValue /\ db[0] \in Entry /\ MaxValue \in Nat
  BY KeyTypes, DbTypes, Constants
<1>2. /\ Fixed
      /\ \/ Become(c, Idle)
         \/ v >= 1 /\ Put(0, v - 1, c, Idle) /\ Granted(FALSE)
         \/ v >= 1 /\ Write(0, e, c, Idle) /\ Granted(FALSE)
  <2>1. v < 1 \/ v >= 1
    BY <1>1
  <2> QED BY <2>1 DEF Release
<1>3. v >= 1 => v - 1 \in 0 .. MaxValue /\ e \in Entry
  BY <1>1 DEF Entry
<1> HIDE DEF v, e
<1> QED BY <1>1, <1>2, <1>3, BecomeTypes, PutTypes, WriteTypes, IdleAllowed

LEMMA StubSumTypes ==
  ASSUME TypeOK, Stages, NEW c \in Clients, StubSum(c) PROVE TypeOK' /\ Stages'
<1> DEFINE k == client[c].key
           v == Value(k) + 1
<1>1. k \in Keys
  BY ClientTypes
<1>2. v \in Nat
  BY <1>1, DbTypes
<1>3. Fixed /\ (Become(c, Idle) \/ (v <= Limit /\ Put(k, v, c, Idle) /\ Granted(TRUE)))
  <2>1. v > Limit \/ v <= Limit
    BY <1>2, Constants
  <2>2. v > Limit => ~(v <= Limit)
    BY <1>2, Constants
  <2> QED BY <2>1, <2>2 DEF StubSum
<1>4. v <= Limit => v \in 0 .. MaxValue
  BY <1>2, Constants
<1> HIDE DEF k, v
<1> QED BY <1>1, <1>3, <1>4, BecomeTypes, PutTypes, IdleAllowed

LEMMA ReadTypes ==
  ASSUME TypeOK, Stages, NEW c \in Clients, Read(c) PROVE TypeOK' /\ Stages'
<1> DEFINE k == client[c].key
           w == IF backend = "redis" THEN {k} \cup Window(now) ELSE {k}
           s == [client[c] EXCEPT !.pc = "sum", !.seen = Value(k), !.dirty = FALSE,
                                  !.watched = w]
<1>1. k \in Keys /\ limiter = "window" /\ client[c] \in Client /\ Allowed(client[c])
  BY ClientTypes, StepOf DEF Read, Stages
<1>2. Value(k) \in Nat /\ w \in SUBSET Keys
  BY <1>1, DbTypes DEF Window
<1>3. Fixed /\ (Become(c, Idle) \/ (Value(k) + 1 <= Limit /\ Become(c, s)))
  BY <1>2, Constants DEF Read
<1>4. Value(k) + 1 <= Limit => Value(k) \in 0 .. Limit - 1
  BY <1>2, Constants
<1> HIDE DEF w
<1>5. Value(k) + 1 <= Limit =>
        s \in Client /\ s.pc = "sum" /\ s.key = client[c].key /\ s.since = client[c].since
  BY <1>1, <1>2, <1>4 DEF Client
<1>6. Value(k) + 1 <= Limit => Allowed(s)
  BY <1>1, <1>5 DEF Allowed, Steps
<1> HIDE DEF k, s
<1> QED BY <1>3, <1>5, <1>6, BecomeTypes, IdleAllowed

LEMMA SumTypes ==
  ASSUME TypeOK, Stages, NEW c \in Clients, Sum(c) PROVE TypeOK' /\ Stages'
<1> DEFINE s == [client[c] EXCEPT !.pc = "exec"]
<1>1. limiter = "window" /\ client[c] \in Client /\ Allowed(client[c])
  BY ClientTypes, StepOf DEF Sum, Stages
<1>2. Fixed /\ (Become(c, Idle) \/ Become(c, s))
  BY DEF Sum
<1>3. s \in Client /\ s.pc = "exec" /\ s.key = client[c].key /\ s.since = client[c].since
  BY <1>1 DEF Client
<1>4. Allowed(s)
  BY <1>1, <1>3 DEF Allowed, Steps
<1> HIDE DEF s
<1> QED BY <1>2, <1>3, <1>4, BecomeTypes, IdleAllowed

LEMMA ExecTypes ==
  ASSUME TypeOK, Stages, NEW c \in Clients, Exec(c) PROVE TypeOK' /\ Stages'
<1> DEFINE k == client[c].key
           s == [Idle EXCEPT !.pc = "read", !.key = k]
           v == client[c].seen + 1
<1>1. k \in Keys /\ limiter = "window" /\ 0 <= now
  BY ClientTypes, StepOf, KeyTypes DEF Exec
<1>2. v \in 0 .. MaxValue
  BY ClientTypes, Constants
<1>3. Fixed /\ (Become(c, s) \/ (Put(k, v, c, Idle) /\ Granted(TRUE)))
  BY DEF Exec
<1>4. s \in Client /\ s.pc = "read" /\ s.key = k /\ s.since = 0
  BY <1>1, IdleTypes DEF Client
<1>5. Allowed(s)
  BY <1>1, <1>4 DEF Allowed, Steps
<1> HIDE DEF k, s, v
<1> QED BY <1>1, <1>2, <1>3, <1>4, <1>5, BecomeTypes, PutTypes, IdleAllowed

LEMMA ArrivedTypes ==
  ASSUME TypeOK, limiter = "barrier", NEW pc \in Gone \cup {"cleared", "opened"}
  PROVE  /\ Arrived(pc) \in Client /\ Allowed(Arrived(pc)) /\ Arrived(pc).pc = pc
<1>1. now \in Times /\ now <= now /\ 0 \in Keys
  BY KeyTypes
<1>2. /\ Arrived(pc) \in Client /\ Arrived(pc).pc = pc /\ Arrived(pc).key = 0
      /\ Arrived(pc).since = now
  BY <1>1, IdleTypes DEF Arrived, Client, Idle, Gone
<1> QED BY <1>1, <1>2 DEF Allowed, Steps

LEMMA ArriveTypes ==
  ASSUME TypeOK, Stages, NEW c \in Clients, Arrive(c) PROVE TypeOK' /\ Stages'
<1> DEFINE v == Value(0)
<1>1. limiter = "barrier" /\ 0 \in Keys /\ v \in 0 .. MaxValue /\ MaxValue \in Nat
  BY KeyTypes, DbTypes, Constants DEF Arrive
<1>2. v < 2 \/ v - 1 \in 0 .. MaxValue
  BY <1>1
<1>3. /\ Fixed
      /\ \/ Become(c, Arrived("cleared"))
         \/ ~(v < 2) /\ \E pc \in {"blocked", "left"} :
              Put(0, v - 1, c, Arrived(pc)) /\ Granted(FALSE)
  BY DEF Arrive
<1> HIDE DEF v
<1> QED BY <1>1, <1>2, <1>3, ArrivedTypes, BecomeTypes, PutTypes DEF Gone

LEMMA ArriveMemcachedTypes ==
  ASSUME TypeOK, Stages, NEW c \in Clients, ArriveMemcached(c) PROVE TypeOK' /\ Stages'
<1> DEFINE v == IF Value(0) = 0 THEN 0 ELSE Value(0) - 1
           e == [db[0] EXCEPT !.value = v]
           s == Arrived(IF v < 1 THEN "cleared" ELSE "left")
<1>1. limiter = "barrier" /\ 0 \in Keys /\ Value(0) \in 0 .. MaxValue /\ db[0] \in Entry
      /\ MaxValue \in Nat
  BY KeyTypes, DbTypes, Constants DEF ArriveMemcached
<1>2. v \in 0 .. MaxValue
  BY <1>1
<1>3. e \in Entry
  BY <1>1, <1>2 DEF Entry
<1>4. s \in Client /\ Allowed(s)
  BY <1>1, ArrivedTypes DEF Gone
<1>5. /\ Fixed
      /\ Become(c, Arrived("left")) \/ (Write(0, e, c, s) /\ Granted(FALSE))
  BY DEF ArriveMemcached
<1> HIDE DEF v, e, s
<1> QED BY <1>1, <1>3, <1>4, <1>5, ArrivedTypes, BecomeTypes, WriteTypes DEF Gone

(* Those that wait pass, the client that has cleared has opened.           *)
LEMMA NotifyEffect ==
  ASSUME TypeOK, Stages, NEW c \in Clients, Notify(c)
  PROVE  /\ client[c].pc = "cleared" /\ limiter = "barrier"
         /\ client' \in [Clients -> Client] /\ client'[c].pc = "opened"
         /\ \A d \in Clients :
              /\ client'[d].key = client[d].key /\ client'[d].since = client[d].since
              /\ d # c => \/ client'[d].pc = client[d].pc
                          \/ client[d].pc = "waiting" /\ client'[d].pc = "passed"
<1>1. client \in [Clients -> Client] /\ client[c].pc = "cleared" /\ limiter = "barrier"
  BY StepOf DEF TypeOK, Notify
<1>2. client' = [d \in Clients |-> IF d = c THEN [client[d] EXCEPT !.pc = "opened"]
        ELSE IF client[d].pc = "waiting" THEN [client[d] EXCEPT !.pc = "passed"]
        ELSE client[d]]
  BY DEF Notify
<1>3. ASSUME NEW d \in Clients
      PROVE  /\ client'[d] \in Client
             /\ client'[d].key = client[d].key /\ client'[d].since = client[d].since
             /\ IF d = c THEN client'[d].pc = "opened"
                ELSE IF client[d].pc = "waiting" THEN client'[d].pc = "passed"
                ELSE client'[d].pc = client[d].pc
  <2>1. client[d] \in Client
    BY <1>1
  <2> QED BY <1>2, <2>1 DEF Client
<1>4. client' \in [Clients -> Client]
  BY <1>2, <1>3
<1> QED BY <1>1, <1>3, <1>4

LEMMA NotifyTypes ==
  ASSUME TypeOK, Stages, NEW c \in Clients, Notify(c) PROVE TypeOK' /\ Stages'
<1>1. Fixed /\ UNCHANGED <<db, granted>>
      /\ events' = IF backend = "redis" THEN now + Ttl ELSE events
  BY DEF Notify
<1>2. events' \in 0 .. MaxTime + Ttl
  BY <1>1, KeyTypes, Constants DEF TypeOK, Times
<1>3. TypeOK'
  BY <1>1, <1>2, NotifyEffect DEF TypeOK, Fixed
<1>4. Stages'
  BY <1>1, NotifyEffect DEF Stages, Allowed, Steps, Gone, Fixed
<1> QED BY <1>3, <1>4

(* A party that blocked, and now passes, waits or leaves.                  *)
LEMMA WaiterEffect ==
  ASSUME TypeOK, Stages, NEW c \in Clients, client[c].pc \in {"blocked", "waiting"},
         NEW pc \in {"passed", "waiting", "left"}, Become(c, [client[c] EXCEPT !.pc = pc])
  PROVE  /\ limiter = "barrier"
         /\ [client[c] EXCEPT !.pc = pc] \in Client /\ Allowed([client[c] EXCEPT !.pc = pc])
         /\ client'[c].pc = pc /\ \A d \in Clients \ {c} : client'[d] = client[d]
         /\ UNCHANGED <<db, events>>
<1> DEFINE s == [client[c] EXCEPT !.pc = pc]
<1>1. client[c] \in Client /\ limiter = "barrier" /\ Allowed(client[c])
  BY ClientTypes, StepOf DEF Gone, Stages
<1>2. s \in Client /\ s.pc = pc /\ s.key = client[c].key /\ s.since = client[c].since
  BY <1>1 DEF Client
<1>3. Allowed(s)
  BY <1>1, <1>2 DEF Allowed, Steps, Gone
<1> HIDE DEF s
<1>4. client'[c] = s /\ \A d \in Clients \ {c} : client'[d] = client[d]
  BY <1>2, BecomeEffect DEF s
<1> QED BY <1>1, <1>2, <1>3, <1>4, BecomeEffect DEF s

LEMMA WaiterTypes ==
  ASSUME TypeOK, Stages, NEW c \in Clients, Wait(c) \/ TimeOut(c) PROVE TypeOK' /\ Stages'
<1>1. /\ Fixed /\ client[c].pc \in {"blocked", "waiting"}
      /\ \E pc \in {"passed", "waiting", "left"} : Become(c, [client[c] EXCEPT !.pc = pc])
  BY DEF Wait, TimeOut
<1> QED BY <1>1, WaiterEffect, BecomeTypes

LEMMA TickEffect ==
  ASSUME TypeOK, Tick
  PROVE  /\ now' = now + 1 /\ now' \in Times /\ ~slow /\ slow' \in BOOLEAN
         /\ ~slow' => ~TooSlow
         /\ UNCHANGED <<limiter, backend, events, client>>
         /\ db' \in [Keys -> Entry] /\ granted' \in [Times -> Nat]
         /\ \A k \in Keys : db'[k] = IF db[k].expires > now + 1 THEN db[k] ELSE Absent
         /\ \A t \in Times : granted'[t] = IF now + 1 < t + Interval THEN granted[t] ELSE 0
<1>1. /\ db \in [Keys -> Entry] /\ granted \in [Times -> Nat] /\ slow \in BOOLEAN
      /\ now \in Nat /\ MaxTime \in Nat
  BY KeyTypes, Constants DEF TypeOK
<1>2. Absent \in Entry
  BY Constants DEF Absent, Entry
<1>3. slow' <=> slow \/ TooSlow
  BY DEF Tick
<1>4. slow' \in BOOLEAN
  BY DEF Tick
<1>5. now' = now + 1 /\ now < MaxTime /\ ~slow /\ UNCHANGED <<limiter, backend, events, client>>
  BY DEF Tick
<1>6. now' \in Times
  BY <1>1, <1>5 DEF Times
<1>7. /\ db' = [k \in Keys |-> IF db[k].expires > now + 1 THEN db[k] ELSE Absent]
      /\ granted' = [t \in Times |-> IF now + 1 < t + Interval THEN granted[t] ELSE 0]
  BY DEF Tick
<1>8. db' \in [Keys -> Entry] /\ granted' \in [Times -> Nat]
  BY <1>1, <1>2, <1>7
<1> QED BY <1>3, <1>4, <1>5, <1>6, <1>7, <1>8

LEMMA TickTypes ==
  ASSUME TypeOK, Stages, Tick PROVE TypeOK' /\ Stages'
<1>1. TypeOK'
  BY TickEffect DEF TypeOK
<1>2. \A c \in Clients : client[c].since <= now + 1
  <2>1. ASSUME NEW c \in Clients PROVE client[c].since <= now + 1
    BY ClientTypes, StepOf, KeyTypes
  <2> QED BY <2>1
<1>3. Stages'
  BY <1>2, TickEffect DEF Stages, Allowed, Steps
<1> QED BY <1>1, <1>3

LEMMA TypeStep ==
  ASSUME TypeOK, Stages, [Next]_vars
  PROVE  TypeOK' /\ Stages'
<1>1. CASE UNCHANGED vars
  BY <1>1 DEF vars, TypeOK, Stages, Allowed, Steps
<1> QED BY <1>1, TickTypes, BeginTypes, AddTypes, IncrTypes, IncrMemcachedTypes, ReleaseTypes,
        StubSumTypes, ReadTypes, SumTypes, ExecTypes, ArriveTypes, ArriveMemcachedTypes,
        NotifyTypes, WaiterTypes DEF Next

LEMMA InitTypes == Init => TypeOK /\ Stages
<1> SUFFICES ASSUME Init PROVE TypeOK /\ Stages
  OBVIOUS
<1>1. /\ <<limiter, backend>> \in Setups /\ now = 0 /\ events = 0 /\ slow = FALSE
      /\ client = [c \in Clients |-> Idle] /\ granted = [t \in Times |-> 0]
      /\ db = [k \in Keys |-> IF limiter = "barrier" /\ k = 0
                 THEN [value |-> Cardinality(Clients), expires |-> Ttl] ELSE Absent]
  <2>1. PICK setup \in Setups : limiter = setup[1] /\ backend = setup[2]
    BY DEF Init
  <2>2. setup = <<setup[1], setup[2]>>
    BY Constants
  <2> QED BY <2>1, <2>2 DEF Init
<1>2. /\ [value |-> Cardinality(Clients), expires |-> Ttl] \in Entry /\ Absent \in Entry
  BY Constants DEF Entry, Absent
<1>3. db \in [Keys -> Entry]
  BY <1>1, <1>2
<1>4. 0 \in Times /\ 0 \in 0 .. MaxTime + Ttl /\ 0 <= 0
  BY Constants DEF Times
<1>5. TypeOK
  BY <1>1, <1>3, <1>4, IdleTypes DEF TypeOK
<1>6. Stages
  BY <1>1, <1>4, IdleTypes DEF Stages, Allowed, Steps
<1> QED BY <1>5, <1>6

(* Every variable keeps its type.                                          *)
THEOREM TypeAlways == Spec => []TypeOK
<1>1. (TypeOK /\ Stages) /\ [Next]_vars => (TypeOK /\ Stages)'
  BY TypeStep
<1> QED BY InitTypes, <1>1, PTL DEF Spec

-----------------------------------------------------------------------------
(* The steps of a limiter, and what becomes of the values.                 *)

LEMMA FixedStep ==
  ASSUME [Next]_vars
  PROVE  limiter' = limiter /\ backend' = backend /\ (~slow' => ~slow)
<1>1. CASE UNCHANGED vars
  BY <1>1 DEF vars
<1>2. CASE Tick
  BY <1>2 DEF Tick
<1>3. CASE Next /\ ~Tick
  <2>1. Fixed
    BY <1>3 DEF Next, Begin, Add, Incr, IncrMemcached, Release, StubSum, Read, Sum, Exec,
                Arrive, ArriveMemcached, Notify, Wait, TimeOut
  <2> QED BY <2>1 DEF Fixed
<1> QED BY <1>1, <1>2, <1>3

LEMMA StepsOf ==
  ASSUME TypeOK, Stages, Next, ~Tick
  PROVE  \E c \in Clients :
           \/ limiter \in {"concurrent", "bucket"} /\
                (Begin(c) \/ Add(c) \/ Incr(c) \/ IncrMemcached(c) \/ Release(c))
           \/ limiter = "window" /\ (Begin(c) \/ StubSum(c) \/ Read(c) \/ Sum(c) \/ Exec(c))
           \/ limiter = "barrier" /\
                (Arrive(c) \/ ArriveMemcached(c) \/ Notify(c) \/ Wait(c) \/ TimeOut(c))
<1>1. PICK c \in Clients :
        \/ Begin(c) \/ Add(c) \/ Incr(c) \/ IncrMemcached(c) \/ Release(c)
        \/ StubSum(c) \/ Read(c) \/ Sum(c) \/ Exec(c)
        \/ Arrive(c) \/ ArriveMemcached(c) \/ Notify(c) \/ Wait(c) \/ TimeOut(c)
  BY DEF Next
<1>2. CASE Begin(c)
  <2>1. limiter \in {"concurrent", "bucket", "window"}
    BY <1>2, LimiterIs DEF Begin
  <2> QED BY <1>2, <2>1
<1>3. CASE Add(c) \/ Incr(c) \/ IncrMemcached(c) \/ Release(c)
  <2>1. limiter \in {"concurrent", "bucket"}
    BY <1>3, StepOf DEF Add, Incr, IncrMemcached, Release
  <2> QED BY <1>3, <2>1
<1>4. CASE StubSum(c) \/ Read(c) \/ Sum(c) \/ Exec(c)
  <2>1. limiter = "window"
    BY <1>4, StepOf DEF StubSum, Read, Sum, Exec
  <2> QED BY <1>4, <2>1
<1>5. CASE Arrive(c) \/ ArriveMemcached(c) \/ Notify(c) \/ Wait(c) \/ TimeOut(c)
  <2>1. limiter = "barrier"
    BY <1>5, StepOf DEF Arrive, ArriveMemcached, Notify, Wait, TimeOut, Gone
  <2> QED BY <1>5, <2>1
<1> QED BY <1>1, <1>2, <1>3, <1>4, <1>5

LEMMA BecomeValues ==
  ASSUME TypeOK, NEW c \in Clients, NEW s \in Client, Become(c, s), Fixed
  PROVE  \A k \in Keys : Value(k)' = Value(k)
BY BecomeEffect DEF Fixed, Value, Present

LEMMA PutValues ==
  ASSUME TypeOK, NEW c \in Clients, NEW s \in Client, NEW k \in Keys,
         NEW v \in 0 .. MaxValue, Put(k, v, c, s), Fixed
  PROVE  /\ Value(k)' = v /\ db'[k].value = v /\ db'[k].expires = now + Lifetime
         /\ \A j \in Keys \ {k} : db'[j] = db[j] /\ Value(j)' = Value(j)
<1>1. /\ db'[k] = [value |-> v, expires |-> now + Lifetime]
      /\ \A j \in Keys \ {k} : db'[j] = db[j]
      /\ Lifetime \in Nat /\ 1 <= Lifetime
  BY PutEffect
<1>2. db'[k].expires = now + Lifetime /\ db'[k].expires > now /\ db'[k].value = v
  BY <1>1, KeyTypes
<1> QED BY <1>1, <1>2 DEF Fixed, Value, Present

LEMMA WriteValues ==
  ASSUME TypeOK, NEW c \in Clients, NEW s \in Client, NEW k \in Keys, Present(k),
         NEW v \in 0 .. MaxValue, Write(k, [db[k] EXCEPT !.value = v], c, s), Fixed
  PROVE  /\ Value(k)' = v /\ db'[k].value = v /\ db'[k].expires = db[k].expires
         /\ \A j \in Keys \ {k} : db'[j] = db[j] /\ Value(j)' = Value(j)
<1> DEFINE e == [db[k] EXCEPT !.value = v]
<1>1. e \in Entry /\ e.value = v /\ e.expires = db[k].expires
  BY DbTypes DEF Entry
<1> HIDE DEF e
<1>2. db'[k] = e /\ \A j \in Keys \ {k} : db'[j] = db[j]
  BY <1>1, WriteEffect DEF e
<1> QED BY <1>1, <1>2 DEF Fixed, Value, Present

-----------------------------------------------------------------------------
(* Concurrent limiters.                                                    *)

LEMMA HoldersFinite ==
  /\ IsFiniteSet(Holders) /\ Cardinality(Holders) \in Nat /\ Holders \subseteq Clients
<1>1. Holders \subseteq Clients
  BY DEF Holders
<1> QED BY <1>1, Constants, FS_Subset, FS_CardinalityType

LEMMA HeldTick ==
  ASSUME TypeOK, Stages, Held, Tick, limiter = "concurrent", backend # "memcached", ~slow'
  PROVE  Held'
<1>1. /\ now' = now + 1 /\ ~slow /\ ~TooSlow /\ UNCHANGED <<limiter, backend, client>>
      /\ db'[0] = IF db[0].expires > now + 1 THEN db[0] ELSE Absent
      /\ now \in Nat /\ db[0].expires \in Nat /\ 0 \in Keys /\ Value(0) \in Nat
  BY TickEffect, KeyTypes, DbTypes
<1>2. /\ Value(0) = Cardinality(Holders) /\ Value(0) <= Limit
      /\ \A c \in Holders : client[c].since + Ttl <= db[0].expires
  BY <1>1 DEF Held
<1>3. Holders' = Holders
  BY <1>1 DEF Holders
<1>4. CASE Holders = {}
  <2>1. Value(0) = 0
    BY <1>2, <1>4, FS_EmptySet
  <2>2. Value(0)' = 0
    BY <1>1, <2>1 DEF Value, Present, Absent
  <2> QED BY <1>2, <1>3, <1>4, <2>1, <2>2 DEF Held
<1>5. CASE Holders # {}
  <2>1. PICK h \in Holders : TRUE
    BY <1>5
  <2>2. client[h].pc = "held" /\ h \in Clients
    BY DEF Holders
  <2>3. ~(now + 1 >= client[h].since + Ttl) /\ client[h].since \in Nat
    BY <1>1, <2>2, ClientTypes, KeyTypes DEF TooSlow
  <2>4. db[0].expires > now + 1
    BY <1>1, <1>2, <2>3, Constants
  <2>5. db'[0] = db[0] /\ Value(0)' = Value(0)
    BY <1>1, <2>4 DEF Value, Present
  <2> QED BY <1>1, <1>2, <1>3, <2>5 DEF Held
<1> QED BY <1>4, <1>5

(* A client that takes a slot, or gives it back, writes what it counted.   *)
LEMMA HeldTaken ==
  ASSUME TypeOK, Stages, Held, limiter = "concurrent", backend # "memcached", ~slow, Fixed,
         NEW c \in Clients, client[c].pc # "held", Value(0) + 1 <= Limit,
         Put(0, Value(0) + 1, c, Acquired(c))
  PROVE  Held'
<1>1. /\ Value(0) \in Nat /\ 0 \in Keys /\ Value(0) + 1 \in 0 .. MaxValue
      /\ Acquired(c) \in Client /\ Acquired(c).pc = "held" /\ Acquired(c).since = now
      /\ now \in Nat /\ Lifetime = Ttl
  BY KeyTypes, DbTypes, Constants, AcquiredTypes DEF Lifetime
<1>2. /\ client'[c] = Acquired(c) /\ Same(c) /\ Value(0)' = Value(0) + 1
      /\ db'[0].expires = now + Ttl
  <2>1. client'[c] = Acquired(c) /\ Same(c)
    BY <1>1, PutEffect
  <2>2. Value(0)' = Value(0) + 1 /\ db'[0].expires = now + Lifetime
    BY <1>1, PutValues
  <2> QED BY <1>1, <2>1, <2>2
<1>3. Value(0) = Cardinality(Holders)
  BY DEF Held
<1>4. Holders' = Holders \cup {c} /\ c \notin Holders
  BY <1>1, <1>2 DEF Holders, Same
<1>5. Cardinality(Holders') = Cardinality(Holders) + 1
  BY <1>4, HoldersFinite, FS_AddElement
<1>6. ASSUME NEW h \in Holders' PROVE client'[h].since + Ttl <= db'[0].expires
  <2>1. client'[h].since <= now /\ client'[h].since \in Nat
    <3>1. CASE h = c
      BY <1>1, <1>2, <3>1
    <3>2. CASE h # c
      <4>1. h \in Clients \ {c}
        BY <3>2 DEF Holders
      <4> QED BY <1>2, <4>1, StepOf, ClientTypes, KeyTypes DEF Same
    <3> QED BY <3>1, <3>2
  <2> QED BY <1>1, <1>2, <2>1, Constants
<1> QED BY <1>2, <1>3, <1>5, <1>6 DEF Held, Fixed

LEMMA HeldGivenBack ==
  ASSUME TypeOK, Stages, Held, limiter = "concurrent", backend # "memcached", ~slow, Fixed,
         NEW c \in Clients, client[c].pc = "held", Value(0) >= 1,
         Put(0, Value(0) - 1, c, Idle)
  PROVE  Held'
<1>1. /\ Value(0) \in Nat /\ 0 \in Keys /\ Value(0) - 1 \in 0 .. MaxValue
      /\ Idle \in Client /\ Idle.pc = "idle" /\ now \in Nat /\ Lifetime = Ttl
  BY KeyTypes, DbTypes, Constants, IdleTypes DEF Lifetime
<1>2. /\ client'[c] = Idle /\ Same(c) /\ Value(0)' = Value(0) - 1
      /\ db'[0].expires = now + Ttl
  <2>1. client'[c] = Idle /\ Same(c)
    BY <1>1, PutEffect
  <2>2. Value(0)' = Value(0) - 1 /\ db'[0].expires = now + Lifetime
    BY <1>1, PutValues
  <2> QED BY <1>1, <2>1, <2>2
<1>3. Value(0) = Cardinality(Holders) /\ Value(0) <= Limit
  BY DEF Held
<1>4. Holders' = Holders \ {c} /\ c \in Holders
  BY <1>1, <1>2 DEF Holders, Same
<1>5. Cardinality(Holders') = Cardinality(Holders) - 1
  BY <1>4, HoldersFinite, FS_RemoveElement
<1>6. ASSUME NEW h \in Holders' PROVE client'[h].since + Ttl <= db'[0].expires
  <2>1. h \in Clients \ {c}
    BY <1>4 DEF Holders
  <2>2. client'[h].since <= now /\ client'[h].since \in Nat
    BY <1>2, <2>1, StepOf, ClientTypes, KeyTypes DEF Same
  <2> QED BY <1>1, <1>2, <2>2, Constants
<1>7. Value(0)' <= Limit
  BY <1>1, <1>2, <1>3, Constants
<1> QED BY <1>2, <1>3, <1>5, <1>6, <1>7 DEF Held, Fixed

(* A client that holds nothing, before and after, and writes nothing.      *)
LEMMA HeldBecome ==
  ASSUME TypeOK, Stages, Held, limiter = "concurrent", backend # "memcached", ~slow, Fixed,
         NEW c \in Clients, client[c].pc # "held",
         NEW s \in Client, s.pc # "held", Become(c, s)
  PROVE  Held'
<1>1. client'[c] = s /\ (\A d \in Clients \ {c} : client'[d] = client[d]) /\ db' = db
  BY BecomeEffect
<1>2. Holders' = Holders
  BY <1>1 DEF Holders
<1>3. Value(0)' = Value(0)
  BY BecomeValues, KeyTypes
<1>4. \A h \in Holders : client'[h] = client[h]
  BY <1>1 DEF Holders
<1> QED BY <1>1, <1>2, <1>3, <1>4 DEF Held, Fixed

LEMMA HeldStep ==
  ASSUME TypeOK, Stages, Held, [Next]_vars
  PROVE  Held'
<1> SUFFICES ASSUME limiter = "concurrent", backend # "memcached", ~slow'
             PROVE  Held'
  BY FixedStep DEF Held
<1>0. ~slow /\ Counts /\ 0 \in Keys /\ Value(0) \in Nat
  BY FixedStep, LimiterIs, KeyTypes, DbTypes DEF Counts
<1>1. CASE UNCHANGED vars
  BY <1>1 DEF vars, Held, Value, Present, Holders
<1>2. CASE Tick
  BY <1>2, HeldTick
<1>3. CASE Next /\ ~Tick
  <2>1. PICK c \in Clients :
          Begin(c) \/ Add(c) \/ Incr(c) \/ IncrMemcached(c) \/ Release(c)
    BY <1>3, StepsOf
  <2>2. CASE Begin(c)
    <3> DEFINE s == [Idle EXCEPT !.key = Key(now), !.pc = "add"]
    <3>1. Fixed /\ client[c].pc = "idle" /\ Become(c, s)
      BY <2>2 DEF Begin
    <3>2. s \in Client /\ s.pc = "add"
      BY IdleTypes, KeyTypes DEF Client
    <3> HIDE DEF s
    <3> QED BY <1>0, <3>1, <3>2, HeldBecome
  <2>3. CASE Add(c)
    <3> DEFINE s == [client[c] EXCEPT !.pc = "incr"]
    <3>1. Fixed /\ client[c].pc = "add" /\ client[c].key = 0
      BY <2>3, StepOf DEF Add
    <3>2. s \in Client /\ s.pc = "incr"
      BY ClientTypes DEF Client
    <3>3. Become(c, s) \/ (~Present(0) /\ Put(0, 1, c, Acquired(c)))
      BY <2>3, <3>1 DEF Add
    <3> HIDE DEF s
    <3>4. CASE Become(c, s)
      BY <1>0, <3>1, <3>2, <3>4, HeldBecome
    <3>5. CASE ~Present(0) /\ Put(0, 1, c, Acquired(c))
      <4>1. Value(0) + 1 = 1 /\ 1 <= Limit
        BY <3>5, Constants DEF Value
      <4> QED BY <1>0, <3>1, <3>5, <4>1, HeldTaken
    <3> QED BY <3>3, <3>4, <3>5
  <2>4. CASE Incr(c)
    <3>1. Fixed /\ client[c].pc = "incr" /\ client[c].key = 0
      BY <2>4, StepOf DEF Incr
    <3>2. CASE Value(0) + 1 > Limit
      <4>1. Become(c, Idle)
        BY <2>4, <3>1, <3>2 DEF Incr
      <4> QED BY <1>0, <3>1, <4>1, IdleTypes, HeldBecome
    <3>3. CASE ~(Value(0) + 1 > Limit)
      <4>1. Put(0, Value(0) + 1, c, Acquired(c))
        BY <2>4, <3>1, <3>3 DEF Incr
      <4>2. Value(0) + 1 <= Limit
        BY <1>0, <3>3, Constants
      <4> QED BY <1>0, <3>1, <4>1, <4>2, HeldTaken
    <3> QED BY <3>2, <3>3
  <2>5. CASE IncrMemcached(c)
    BY <2>5 DEF IncrMemcached
  <2>6. CASE Release(c)
    <3>1. Fixed /\ client[c].pc = "held"
      BY <2>6 DEF Release
    <3>2. c \in Holders
      BY <3>1 DEF Holders
    <3>3. Value(0) = Cardinality(Holders)
      BY <1>0 DEF Held
    <3>4. Value(0) >= 1
      <4>1. Cardinality(Holders) # 0
        BY <3>2, HoldersFinite, FS_EmptySet
      <4> QED BY <1>0, <3>3, <4>1
    <3>5. ~(Value(0) < 1)
      BY <1>0, <3>4
    <3>6. Put(0, Value(0) - 1, c, Idle)
      BY <1>0, <2>6, <3>4, <3>5 DEF Release
    <3> QED BY <1>0, <3>1, <3>4, <3>6, HeldGivenBack
  <2> QED BY <2>1, <2>2, <2>3, <2>4, <2>5, <2>6
<1> QED BY <1>1, <1>2, <1>3

-----------------------------------------------------------------------------
(* Concurrent limiters on Memcached, while the first key lives.            *)

OnMemcached == limiter = "concurrent" /\ backend = "memcached" /\ now < Ttl

(* What a client leaves: as many holders, or one more or less.             *)
LEMMA FirstKeyWrite ==
  ASSUME TypeOK, Stages, FirstKey, OnMemcached, Fixed, NEW c \in Clients,
         NEW v \in 0 .. MaxValue, NEW s \in Client,
         \/ ~Present(0) /\ Put(0, v, c, s)
         \/ Present(0) /\ Write(0, [db[0] EXCEPT !.value = v], c, s),
         \/ client[c].pc # "held" /\ s.pc = "held" /\ v = Value(0) + 1 /\ v <= Limit
         \/ client[c].pc # "held" /\ s.pc # "held" /\ v >= Value(0)
         \/ client[c].pc = "held" /\ s.pc # "held" /\ v = Value(0) - 1
  PROVE  FirstKey'
<1>1. 0 \in Keys /\ Value(0) \in Nat /\ now \in Nat /\ Lifetime = Ttl /\ v \in Nat
      /\ db[0].expires \in Nat /\ Limit \in Nat /\ Ttl \in Nat
  BY KeyTypes, DbTypes, Constants DEF Lifetime, OnMemcached
<1>2. /\ Cardinality(Holders) <= Value(0) /\ Cardinality(Holders) <= Limit
      /\ db[0].expires = 0 \/ Ttl <= db[0].expires
  BY DEF FirstKey, OnMemcached
<1>3. client'[c] = s /\ Same(c)
  <2>1. [db[0] EXCEPT !.value = v] \in Entry
    BY <1>1, DbTypes DEF Entry
  <2> QED BY <1>1, <2>1, PutEffect, WriteEffect
<1>4. Value(0)' = v /\ Ttl <= db'[0].expires
  <2>1. CASE ~Present(0) /\ Put(0, v, c, s)
    <3>1. Value(0)' = v /\ db'[0].expires = now + Lifetime
      BY <1>1, <2>1, PutValues
    <3> QED BY <1>1, <3>1
  <2>2. CASE Present(0) /\ Write(0, [db[0] EXCEPT !.value = v], c, s)
    <3>1. Value(0)' = v /\ db'[0].expires = db[0].expires
      BY <1>1, <2>2, WriteValues
    <3>2. db[0].expires # 0
      BY <1>1, <2>2 DEF Present
    <3> QED BY <1>2, <3>1, <3>2
  <2> QED BY <2>1, <2>2
<1>5. CASE client[c].pc # "held" /\ s.pc = "held" /\ v = Value(0) + 1 /\ v <= Limit
  <2>1. Holders' = Holders \cup {c} /\ c \notin Holders
    BY <1>3, <1>5 DEF Holders, Same
  <2>2. Cardinality(Holders') = Cardinality(Holders) + 1
    BY <2>1, HoldersFinite, FS_AddElement
  <2>3. Cardinality(Holders') <= v
    BY <1>1, <1>2, <1>5, <2>2, HoldersFinite
  <2> QED BY <1>1, <1>4, <1>5, <2>2, <2>3, HoldersFinite DEF FirstKey
<1>6. CASE client[c].pc # "held" /\ s.pc # "held" /\ v >= Value(0)
  <2>1. Holders' = Holders
    BY <1>3, <1>6 DEF Holders, Same
  <2>2. Cardinality(Holders) <= v
    BY <1>1, <1>2, <1>6, HoldersFinite
  <2> QED BY <1>2, <1>4, <2>1, <2>2 DEF FirstKey
<1>7. CASE client[c].pc = "held" /\ s.pc # "held" /\ v = Value(0) - 1
  <2>1. Holders' = Holders \ {c} /\ c \in Holders
    BY <1>3, <1>7 DEF Holders, Same
  <2>2. Cardinality(Holders') = Cardinality(Holders) - 1
    BY <2>1, HoldersFinite, FS_RemoveElement
  <2>3. Cardinality(Holders') <= v /\ Cardinality(Holders') <= Limit
    BY <1>1, <1>2, <1>7, <2>2, HoldersFinite
  <2> QED BY <1>4, <2>3 DEF FirstKey
<1> QED BY <1>5, <1>6, <1>7

LEMMA FirstKeyBecome ==
  ASSUME TypeOK, Stages, FirstKey, OnMemcached, Fixed, NEW c \in Clients,
         client[c].pc # "held", NEW s \in Client, s.pc # "held", Become(c, s)
  PROVE  FirstKey'
<1>1. client'[c] = s /\ (\A d \in Clients \ {c} : client'[d] = client[d]) /\ db' = db
  BY BecomeEffect
<1>2. Holders' = Holders
  BY <1>1 DEF Holders
<1>3. Value(0)' = Value(0)
  BY BecomeValues, KeyTypes
<1> QED BY <1>1, <1>2, <1>3 DEF FirstKey, Fixed, OnMemcached

LEMMA FirstKeyTick ==
  ASSUME TypeOK, Stages, FirstKey, OnMemcached, Tick, now' < Ttl
  PROVE  FirstKey'
<1>1. /\ now' = now + 1 /\ UNCHANGED <<limiter, backend, client>>
      /\ db'[0] = IF db[0].expires > now + 1 THEN db[0] ELSE Absent
      /\ now \in Nat /\ db[0].expires \in Nat /\ 0 \in Keys /\ Value(0) \in Nat
      /\ Ttl \in Nat
  BY TickEffect, KeyTypes, DbTypes, Constants
<1>2. /\ Cardinality(Holders) <= Value(0) /\ Cardinality(Holders) <= Limit
      /\ db[0].expires = 0 \/ Ttl <= db[0].expires
  BY DEF FirstKey, OnMemcached
<1>3. Holders' = Holders
  BY <1>1 DEF Holders
<1>4. CASE db[0].expires = 0
  <2>1. db'[0] = Absent
    BY <1>1, <1>4
  <2>2. Value(0) = 0 /\ Value(0)' = 0 /\ db'[0].expires = 0
    BY <1>1, <1>4, <2>1 DEF Value, Present, Absent
  <2> QED BY <1>2, <1>3, <2>2 DEF FirstKey
<1>5. CASE Ttl <= db[0].expires
  <2>1. db[0].expires > now + 1
    BY <1>1, <1>5
  <2>2. db'[0] = db[0] /\ Value(0)' = Value(0)
    BY <1>1, <2>1 DEF Value, Present
  <2> QED BY <1>2, <1>3, <2>2 DEF FirstKey
<1> QED BY <1>2, <1>4, <1>5

LEMMA FirstKeyStep ==
  ASSUME TypeOK, Stages, FirstKey, [Next]_vars
  PROVE  FirstKey'
<1> SUFFICES ASSUME OnMemcached' PROVE FirstKey'
  BY DEF FirstKey, OnMemcached
<1>0. OnMemcached /\ ~Counts /\ 0 \in Keys /\ Value(0) \in Nat /\ Value(0) <= MaxValue
  <2>1. now \in Nat /\ (now' = now \/ now' = now + 1)
    <3>1. CASE UNCHANGED vars
      BY <3>1, KeyTypes DEF vars
    <3>2. CASE Tick
      BY <3>2, KeyTypes DEF Tick
    <3>3. CASE Next /\ ~Tick
      <4>1. Fixed
        BY <3>3 DEF Next, Begin, Add, Incr, IncrMemcached, Release, StubSum, Read, Sum, Exec,
                    Arrive, ArriveMemcached, Notify, Wait, TimeOut
      <4> QED BY <4>1, KeyTypes DEF Fixed
    <3> QED BY <3>1, <3>2, <3>3
  <2> QED BY <2>1, FixedStep, KeyTypes, DbTypes, Constants DEF Counts, OnMemcached
<1>1. CASE UNCHANGED vars
  BY <1>1 DEF vars, FirstKey, Value, Present, Holders
<1>2. CASE Tick
  BY <1>0, <1>2, FirstKeyTick DEF OnMemcached
<1>3. CASE Next /\ ~Tick
  <2>1. PICK c \in Clients :
          Begin(c) \/ Add(c) \/ Incr(c) \/ IncrMemcached(c) \/ Release(c)
    BY <1>0, <1>3, StepsOf DEF OnMemcached
  <2>2. CASE Begin(c)
    <3> DEFINE s == [Idle EXCEPT !.key = Key(now), !.pc = "add"]
    <3>1. Fixed /\ client[c].pc = "idle" /\ Become(c, s)
      BY <1>0, <2>2 DEF Begin, OnMemcached
    <3>2. s \in Client /\ s.pc = "add"
      BY IdleTypes, KeyTypes DEF Client
    <3> HIDE DEF s
    <3> QED BY <1>0, <3>1, <3>2, FirstKeyBecome
  <2>3. CASE Add(c)
    <3> DEFINE s == [client[c] EXCEPT !.pc = "incr"]
    <3>1. Fixed /\ client[c].pc = "add" /\ client[c].key = 0
      BY <1>0, <2>3, StepOf DEF Add, OnMemcached
    <3>2. s \in Client /\ s.pc = "incr"
      BY ClientTypes DEF Client
    <3>3. Become(c, s) \/ (~Present(0) /\ Put(0, 1, c, Acquired(c)))
      BY <2>3, <3>1 DEF Add
    <3> HIDE DEF s
    <3>4. CASE Become(c, s)
      BY <1>0, <3>1, <3>2, <3>4, FirstKeyBecome
    <3>5. CASE ~Present(0) /\ Put(0, 1, c, Acquired(c))
      <4>1. 1 = Value(0) + 1 /\ 1 <= Limit /\ 1 \in 0 .. MaxValue
        BY <3>5, Constants DEF Value
      <4>2. Acquired(c) \in Client /\ Acquired(c).pc = "held"
        BY <1>0, AcquiredTypes DEF OnMemcached
      <4> QED BY <1>0, <3>1, <3>5, <4>1, <4>2, FirstKeyWrite
    <3> QED BY <3>3, <3>4, <3>5
  <2>4. CASE Incr(c)
    BY <1>0, <2>4 DEF Incr
  <2>5. CASE IncrMemcached(c)
    <3> DEFINE v == Value(0) + 1
               s == IF v <= Limit THEN Acquired(c) ELSE Idle
    <3>1. Fixed /\ client[c].pc = "incr" /\ client[c].key = 0
      BY <1>0, <2>5, StepOf DEF IncrMemcached, OnMemcached
    <3>2. \/ Become(c, Idle)
          \/ Present(0) /\ v <= MaxValue /\ Write(0, [db[0] EXCEPT !.value = v], c, s)
      BY <2>5, <3>1 DEF IncrMemcached
    <3>3. /\ s \in Client /\ Idle \in Client /\ Idle.pc # "held"
          /\ v <= Limit => s.pc = "held"
          /\ ~(v <= Limit) => s.pc # "held"
      BY <1>0, AcquiredTypes, IdleTypes DEF OnMemcached
    <3>4. v = Value(0) + 1 /\ v >= Value(0) /\ (v <= MaxValue => v \in 0 .. MaxValue)
      BY <1>0, Constants
    <3> HIDE DEF v, s
    <3> QED BY <1>0, <3>1, <3>2, <3>3, <3>4, FirstKeyWrite, FirstKeyBecome
  <2>6. CASE Release(c)
    <3>1. Fixed /\ client[c].pc = "held"
      BY <2>6 DEF Release
    <3>2. c \in Holders
      BY <3>1 DEF Holders
    <3>3. Cardinality(Holders) <= Value(0)
      BY <1>0 DEF FirstKey, OnMemcached
    <3>4. Value(0) >= 1
      <4>1. Cardinality(Holders) # 0
        BY <3>2, HoldersFinite, FS_EmptySet
      <4> QED BY <1>0, <3>3, <4>1, HoldersFinite
    <3>5. Present(0) /\ ~(Value(0) < 1) /\ Value(0) - 1 \in 0 .. MaxValue
      BY <1>0, <3>4, Constants DEF Value
    <3>6. Write(0, [db[0] EXCEPT !.value = Value(0) - 1], c, Idle)
      BY <1>0, <2>6, <3>5 DEF Release
    <3> QED BY <1>0, <3>1, <3>5, <3>6, IdleTypes, FirstKeyWrite
  <2> QED BY <2>1, <2>2, <2>3, <2>4, <2>5, <2>6
<1> QED BY <1>1, <1>2, <1>3

-----------------------------------------------------------------------------
(* Buckets.                                                                *)

LEMMA Windows ==
  ASSUME NEW t \in Nat
  PROVE  /\ Window(t) \in SUBSET Times
         /\ \A s \in Times : s \in Window(t) <=> s <= t /\ t < s + Interval
BY DEF Window, Keys

LEMMA Buckets ==
  ASSUME NEW k \in Nat
  PROVE  /\ Bucket(k) \in SUBSET Times
         /\ \A s \in Times : s \in Bucket(k) <=> k <= s /\ s < k + Interval
<1> DEFINE t == k + Interval - 1
<1>1. t \in Nat /\ t = k + Interval - 1 /\ Interval \in Nat
  BY Constants
<1> HIDE DEF t
<1>2. Bucket(k) = Window(t)
  BY <1>1 DEF Bucket
<1>3. /\ Window(t) \in SUBSET Times
      /\ \A s \in Times : s \in Window(t) <=> s <= t /\ t < s + Interval
  BY <1>1, Windows
<1>4. ASSUME NEW s \in Times
      PROVE  s <= t /\ t < s + Interval <=> k <= s /\ s < k + Interval
  BY <1>1 DEF Times
<1> QED BY <1>2, <1>3, <1>4

(* A step within a second that counts what it lets through.                *)
LEMMA BucketMove ==
  ASSUME TypeOK, TypeOK', Bucketed, BucketLimit, limiter = "bucket", ~slow, Fixed,
         NEW K \in Keys, K = Key(now),
         \/ granted' = granted /\ Value(K)' >= Value(K)
         \/ /\ \A t \in Times : granted'[t] = IF t = now THEN granted[now] + 1 ELSE granted[t]
            /\ Value(K) + 1 <= Limit /\ Value(K)' >= Value(K) + 1,
         \A c \in Clients : client'[c].pc # "idle" => client'[c].key = K,
         \A k \in Keys : db'[k].expires > 0 => k + Interval <= db'[k].expires
  PROVE  Bucketed' /\ BucketLimit'
<1>1. /\ K \in Keys /\ K \in Nat /\ K <= now /\ now < K + Interval /\ K % Interval = 0
      /\ Keys = Times /\ now \in Times /\ Value(K) \in Nat /\ Keys \subseteq Nat
  BY KeyTypes, DbTypes
<1>2. /\ limiter' = limiter /\ now' = now /\ Key(now)' = K
  BY DEF Fixed, Key
<1>4. Value(K)' \in Nat
  <2>1. db'[K] \in Entry
    BY <1>1 DEF TypeOK
  <2> QED BY <2>1, Constants DEF Value, Entry
<1>5. granted \in [Times -> Nat] /\ granted' \in [Times -> Nat]
  BY DEF TypeOK
<1>6. /\ \A t \in Times : now < t => granted[t] = 0
      /\ SumOf(granted, Bucket(K)) <= Value(K)
  BY DEF Bucketed
<1>7. ASSUME NEW k \in Keys, k % Interval = 0
      PROVE  /\ SumOf(granted', Bucket(k)) <= Limit
             /\ k = K => SumOf(granted', Bucket(k)) <= Value(K)'
  <2>1. /\ Bucket(k) \in SUBSET Times /\ k \in Nat
        /\ now \in Bucket(k) <=> k <= now /\ now < k + Interval
    BY <1>1, <1>7, Buckets
  <2>2. SumOf(granted, Bucket(k)) <= Limit
    BY <1>7 DEF BucketLimit, Bucket
  <2>3. SumOf(granted, Bucket(k)) \in Nat
    BY <1>5, <2>1, UnitsFinite
  <2>4. CASE granted' = granted /\ Value(K)' >= Value(K)
    BY <1>1, <1>4, <1>6, <2>2, <2>3, <2>4
  <2>5. CASE /\ \A t \in Times : granted'[t] = IF t = now THEN granted[now] + 1 ELSE granted[t]
             /\ Value(K) + 1 <= Limit /\ Value(K)' >= Value(K) + 1
    <3>1. CASE now \notin Bucket(k)
      <4>1. SumOf(granted', Bucket(k)) = SumOf(granted, Bucket(k))
        BY <1>1, <1>5, <2>1, <2>5, <3>1, SumPlusOne
      <4>2. k # K
        BY <1>1, <2>1, <3>1
      <4> QED BY <2>2, <4>1, <4>2
    <3>2. CASE now \in Bucket(k)
      <4>1. k = K
        <5>1. k = now - (now % Interval)
          BY <1>1, <1>7, <2>1, <3>2, OneBucket
        <5> QED BY <5>1 DEF Key
      <4>2. SumOf(granted', Bucket(k)) = SumOf(granted, Bucket(k)) + 1
        BY <1>1, <1>5, <2>1, <2>5, <3>2, SumPlusOne
      <4> QED BY <1>1, <1>4, <1>6, <2>3, <2>5, <4>1, <4>2, Constants
    <3> QED BY <3>1, <3>2
  <2> QED BY <2>4, <2>5
<1>8. SumOf(granted', Bucket(K)) <= Value(K)'
  BY <1>1, <1>7
<1>9. \A t \in Times : now < t => granted'[t] = 0
  BY <1>1, <1>5, <1>6
<1>10. Bucketed'
  <2>1. Value(Key(now))' = Value(K)' /\ Bucket(Key(now))' = Bucket(K)
    BY <1>2 DEF Bucket, Window, Value, Present
  <2> QED BY <1>2, <1>8, <1>9, <2>1 DEF Bucketed, SumOf, Units
<1>11. BucketLimit'
  <2>1. \A k \in Keys : k % Interval = 0 => SumOf(granted', Bucket(k)) <= Limit
    BY <1>7
  <2> QED BY <2>1 DEF BucketLimit, Bucket, Window
<1> QED BY <1>10, <1>11

LEMMA BucketTick ==
  ASSUME TypeOK, TypeOK', Bucketed, BucketLimit, limiter = "bucket", Tick, ~slow'
  PROVE  Bucketed' /\ BucketLimit'
<1>0. Key(now) \in Keys /\ Key(now') \in Keys
  <2>1. now' \in Times /\ now' \in Nat /\ MaxTime \in Nat
    BY TickEffect, Constants DEF Times
  <2>2. now' - (now' % Interval) \in 0 .. now'
    BY <2>1, BucketOf
  <2>3. now' - (now' % Interval) \in Keys
    BY <2>1, <2>2 DEF Keys, Times
  <2> QED BY <2>3, KeyTypes DEF Key
<1> SUFFICES ASSUME NEW K \in Keys, K = Key(now), NEW L \in Keys, L = Key(now')
             PROVE  Bucketed' /\ BucketLimit'
  BY <1>0
<1>1. /\ now' = now + 1 /\ ~slow /\ ~TooSlow /\ UNCHANGED <<limiter, backend, client>>
      /\ granted' \in [Times -> Nat] /\ granted \in [Times -> Nat]
      /\ \A k \in Keys : db'[k] = IF db[k].expires > now + 1 THEN db[k] ELSE Absent
      /\ \A t \in Times : granted'[t] = IF now + 1 < t + Interval THEN granted[t] ELSE 0
      /\ now' \in Times
  BY TickEffect DEF TypeOK
<1>2. /\ K \in Keys /\ K \in Nat /\ K <= now /\ now < K + Interval /\ K % Interval = 0
      /\ Keys = Times /\ now \in Nat /\ Value(K) \in Nat /\ Keys \subseteq Nat
      /\ db[K].expires \in Nat
  BY KeyTypes, DbTypes
<1>3. /\ \A c \in Clients : client[c].pc # "idle" => client[c].key = K
      /\ \A k \in Keys : db[k].expires > 0 => k + Interval <= db[k].expires
      /\ \A t \in Times : now < t => granted[t] = 0
      /\ SumOf(granted, Bucket(K)) <= Value(K)
  BY <1>1 DEF Bucketed
<1>4. /\ L = now' - (now' % Interval) /\ Key(now)' = L
      /\ L \in Nat /\ L <= now' /\ now' < L + Interval /\ L % Interval = 0
  <2>1. now' \in Nat
    BY <1>1, <1>2
  <2>2. L = now' - (now' % Interval)
    BY DEF Key
  <2>3. /\ now' - (now' % Interval) \in 0 .. now'
        /\ now' < (now' - (now' % Interval)) + Interval
        /\ (now' - (now' % Interval)) % Interval = 0
    BY <2>1, BucketOf
  <2>4. Key(now)' = L
    BY <1>1 DEF Key
  <2> QED BY <2>1, <2>2, <2>3, <2>4
<1>6. \A c \in Clients : client'[c].pc # "idle" => client'[c].key = L
  BY <1>1 DEF TooSlow
<1>7. \A k \in Keys : db'[k].expires > 0 => k + Interval <= db'[k].expires
  BY <1>1, <1>3 DEF Absent
<1>8. \A t \in Times : now' < t => granted'[t] = 0
  <2>1. ASSUME NEW t \in Times, now + 1 < t PROVE granted'[t] = 0
    <3>1. now < t
      BY <1>2, <2>1
    <3> QED BY <1>1, <1>3, <3>1
  <2> QED BY <1>1, <2>1
<1>9. ASSUME NEW k \in Keys
      PROVE  SumOf(granted', Bucket(k)) <= SumOf(granted, Bucket(k))
  <2>1. Bucket(k) \in SUBSET Times
    BY <1>2, Buckets
  <2>2. \A t \in Times : granted'[t] <= granted[t]
    <3>1. \A t \in Times : granted[t] \in Nat
      BY <1>1
    <3>2. \A t \in Times : granted'[t] = granted[t] \/ granted'[t] = 0
      BY <1>1
    <3> QED BY <3>1, <3>2
  <2>3. \A t \in Bucket(k) : granted'[t] > 0 => t \in Bucket(k) /\ granted'[t] <= granted[t]
    BY <2>1, <2>2
  <2>4. granted' \in [Times -> Nat] /\ granted \in [Times -> Nat]
    BY <1>1
  <2> QED BY <2>1, <2>3, <2>4, SumMonotone
<1>10. ASSUME NEW k \in Keys
       PROVE  /\ SumOf(granted', Bucket(k)) \in Nat /\ SumOf(granted, Bucket(k)) \in Nat
  BY <1>1, <1>2, Buckets, UnitsFinite
<1>11. Value(L)' \in Nat
  <2>1. db'[L] \in Entry
    BY DEF TypeOK
  <2> QED BY <2>1, Constants DEF Value, Entry
<1>12. SumOf(granted', Bucket(L)) <= Value(L)'
  <2>1. CASE L <= now
    <3>1. L = K
      <4>1. now < L + Interval
        BY <1>1, <1>2, <1>4, Constants
      <4>2. L = now - (now % Interval)
        BY <1>2, <1>4, <2>1, <4>1, OneBucket
      <4> QED BY <4>2 DEF Key
    <3>2. Value(L)' >= Value(K)
      <4>1. CASE Value(K) = 0
        BY <1>11, <4>1
      <4>2. CASE Value(K) # 0
        <5>1. Present(K) /\ db[K].expires > now
          BY <4>2 DEF Value, Present
        <5>2. K + Interval <= db[K].expires
          BY <1>2, <1>3, <5>1
        <5>3. db[K].expires > now + 1
          BY <1>1, <1>2, <1>4, <3>1, <5>2, Constants
        <5>4. db'[K] = db[K]
          BY <1>1, <1>2, <5>3
        <5>5. Value(K)' = Value(K)
          BY <1>1, <5>1, <5>3, <5>4 DEF Value, Present
        <5> QED BY <1>2, <3>1, <5>5
      <4> QED BY <4>1, <4>2
    <3> QED BY <1>2, <1>3, <1>9, <1>10, <1>11, <3>1, <3>2
  <2>2. CASE ~(L <= now)
    <3>1. \A t \in Bucket(L) : granted'[t] = 0
      <4>1. ASSUME NEW t \in Bucket(L) PROVE granted'[t] = 0
        <5>1. t \in Times /\ L <= t
          BY <1>4, Buckets
        <5>2. now < t
          BY <1>2, <1>4, <2>2, <5>1
        <5> QED BY <1>1, <1>3, <5>1, <5>2
      <4> QED BY <4>1
    <3>2. SumOf(granted', Bucket(L)) = 0
      BY <1>1, <1>4, <3>1, Buckets, SumOfNone
    <3> QED BY <1>11, <3>2
  <2> QED BY <2>1, <2>2
<1>13. Bucketed'
  <2>1. Value(Key(now))' = Value(L)' /\ Bucket(Key(now))' = Bucket(L)
    BY <1>4 DEF Bucket, Window, Value, Present
  <2> QED BY <1>1, <1>4, <1>6, <1>7, <1>8, <1>12, <2>1 DEF Bucketed, SumOf, Units
<1>14. BucketLimit'
  <2>1. ASSUME NEW k \in Keys, k % Interval = 0
        PROVE  SumOf(granted', Bucket(k)) <= Limit
    <3>1. SumOf(granted, Bucket(k)) <= Limit
      BY <1>1, <2>1 DEF BucketLimit, Bucket
    <3> QED BY <1>9, <1>10, <3>1, Constants
  <2> QED BY <2>1 DEF BucketLimit, Bucket, Window
<1> QED BY <1>13, <1>14

LEMMA BucketClients ==
  ASSUME Bucketed, limiter = "bucket", ~slow, NEW K \in Keys, K = Key(now),
         NEW c \in Clients, Same(c), client'[c].pc # "idle" => client'[c].key = K
  PROVE  \A d \in Clients : client'[d].pc # "idle" => client'[d].key = K
<1>1. \A d \in Clients : client[d].pc # "idle" => client[d].key = K
  BY DEF Bucketed
<1> QED BY <1>1 DEF Same

LEMMA BucketBecome ==
  ASSUME TypeOK, TypeOK', Bucketed, BucketLimit, limiter = "bucket", ~slow, Fixed,
         NEW K \in Keys, K = Key(now), NEW c \in Clients, NEW s \in Client,
         s.pc # "idle" => s.key = K, Become(c, s)
  PROVE  Bucketed' /\ BucketLimit'
<1>1. client'[c] = s /\ Same(c) /\ UNCHANGED <<db, granted>> /\ Value(K)' = Value(K)
  BY BecomeEffect, BecomeValues
<1>2. \A d \in Clients : client'[d].pc # "idle" => client'[d].key = K
  BY <1>1, BucketClients
<1>3. \A k \in Keys : db'[k].expires > 0 => k + Interval <= db'[k].expires
  BY <1>1 DEF Bucketed
<1>4. Value(K)' >= Value(K)
  BY <1>1, DbTypes
<1> QED BY <1>1, <1>2, <1>3, <1>4, BucketMove

LEMMA BucketPut ==
  ASSUME TypeOK, TypeOK', Bucketed, BucketLimit, limiter = "bucket", ~slow, Fixed,
         NEW K \in Keys, K = Key(now), NEW c \in Clients, Value(K) + 1 <= Limit,
         Put(K, Value(K) + 1, c, Idle), Granted(TRUE)
  PROVE  Bucketed' /\ BucketLimit'
<1>1. /\ Value(K) \in Nat /\ Value(K) + 1 \in 0 .. MaxValue /\ Idle \in Client
      /\ Idle.pc = "idle" /\ Lifetime = Interval /\ K <= now
      /\ K \in Nat /\ now \in Nat /\ Interval \in Nat
  BY DbTypes, KeyTypes, IdleTypes, Constants DEF Lifetime
<1>2. client'[c] = Idle /\ Same(c)
  BY <1>1, PutEffect
<1>3. /\ Value(K)' = Value(K) + 1 /\ db'[K].expires = now + Lifetime
      /\ \A j \in Keys \ {K} : db'[j] = db[j]
  BY <1>1, PutValues
<1>4. \A t \in Times : granted'[t] = IF t = now THEN granted[now] + 1 ELSE granted[t]
  BY GrantedEffect
<1>5. \A d \in Clients : client'[d].pc # "idle" => client'[d].key = K
  BY <1>1, <1>2, BucketClients
<1>6. \A k \in Keys : db'[k].expires > 0 => k + Interval <= db'[k].expires
  BY <1>1, <1>3 DEF Bucketed
<1>7. Value(K)' >= Value(K) + 1
  BY <1>1, <1>3
<1> QED BY <1>4, <1>5, <1>6, <1>7, BucketMove

LEMMA BucketWrite ==
  ASSUME TypeOK, TypeOK', Bucketed, BucketLimit, limiter = "bucket", ~slow, Fixed,
         NEW K \in Keys, K = Key(now), NEW c \in Clients, Present(K),
         Value(K) + 1 <= MaxValue, Write(K, [db[K] EXCEPT !.value = Value(K) + 1], c, Idle),
         \/ Value(K) + 1 <= Limit /\ Granted(TRUE)
         \/ granted' = granted
  PROVE  Bucketed' /\ BucketLimit'
<1>1. /\ Value(K) \in Nat /\ Value(K) + 1 \in 0 .. MaxValue
      /\ Idle \in Client /\ Idle.pc = "idle"
  BY DbTypes, IdleTypes, Constants
<1>2. /\ Value(K)' = Value(K) + 1 /\ db'[K].expires = db[K].expires
      /\ \A j \in Keys \ {K} : db'[j] = db[j]
  BY <1>1, WriteValues
<1>3. client'[c] = Idle /\ Same(c)
  <2>1. [db[K] EXCEPT !.value = Value(K) + 1] \in Entry
    BY <1>1, DbTypes DEF Entry
  <2> QED BY <1>1, <2>1, WriteEffect
<1>4. \A d \in Clients : client'[d].pc # "idle" => client'[d].key = K
  BY <1>1, <1>3, BucketClients
<1>5. \A k \in Keys : db'[k].expires > 0 => k + Interval <= db'[k].expires
  BY <1>2 DEF Bucketed
<1>6. Value(K)' >= Value(K) + 1 /\ Value(K)' >= Value(K)
  BY <1>1, <1>2
<1>7. CASE Value(K) + 1 <= Limit /\ Granted(TRUE)
  <2>1. \A t \in Times : granted'[t] = IF t = now THEN granted[now] + 1 ELSE granted[t]
    BY <1>7, GrantedEffect
  <2> QED BY <1>4, <1>5, <1>6, <1>7, <2>1, BucketMove
<1>8. CASE granted' = granted
  BY <1>4, <1>5, <1>6, <1>8, BucketMove
<1> QED BY <1>7, <1>8

LEMMA BucketStep ==
  ASSUME TypeOK, Stages, TypeOK', Bucketed, BucketLimit, [Next]_vars
  PROVE  Bucketed' /\ BucketLimit'
<1> SUFFICES ASSUME limiter = "bucket", ~slow'
             PROVE  Bucketed' /\ BucketLimit'
  BY FixedStep DEF Bucketed, BucketLimit
<1>0. ~slow /\ Key(now) \in Keys
  BY FixedStep, KeyTypes
<1>1. CASE UNCHANGED vars
  BY <1>1 DEF vars, Bucketed, BucketLimit, Bucket, Window, Key, Value, Present, SumOf, Units
<1>2. CASE Tick
  BY <1>2, BucketTick
<1>3. CASE Next /\ ~Tick
  <2>1. PICK c \in Clients :
          Begin(c) \/ Add(c) \/ Incr(c) \/ IncrMemcached(c) \/ Release(c)
    BY <1>3, StepsOf
  <2>2. PICK K \in Keys : K = Key(now)
    BY <1>0
  <2>3. client[c].pc # "idle" => client[c].key = K
    BY <1>0, <2>2 DEF Bucketed
  <2>4. Acquired(c) = Idle /\ Idle \in Client /\ Idle.pc = "idle" /\ Value(K) \in Nat
    BY AcquiredTypes, IdleTypes, DbTypes
  <2>5. CASE Begin(c)
    <3> DEFINE s == [Idle EXCEPT !.key = Key(now), !.pc = "add"]
    <3>1. Fixed /\ Become(c, s)
      BY <2>5 DEF Begin
    <3>2. s \in Client /\ s.key = Key(now)
      BY IdleTypes, KeyTypes DEF Client
    <3> HIDE DEF s
    <3> QED BY <1>0, <2>2, <3>1, <3>2, BucketBecome
  <2>6. CASE Add(c)
    <3> DEFINE s == [client[c] EXCEPT !.pc = "incr"]
    <3>1. Fixed /\ client[c].key = K
      BY <2>3, <2>6 DEF Add
    <3>2. s \in Client /\ s.key = K
      BY <3>1, ClientTypes DEF Client
    <3>3. Become(c, s) \/ (~Present(K) /\ Put(K, 1, c, Idle) /\ Granted(TRUE))
      BY <2>4, <2>6, <3>1 DEF Add
    <3> HIDE DEF s
    <3>4. CASE Become(c, s)
      BY <1>0, <2>2, <3>1, <3>2, <3>4, BucketBecome
    <3>5. CASE ~Present(K) /\ Put(K, 1, c, Idle) /\ Granted(TRUE)
      <4>1. Value(K) + 1 = 1 /\ 1 <= Limit
        BY <3>5, Constants DEF Value
      <4> QED BY <1>0, <2>2, <3>1, <3>5, <4>1, BucketPut
    <3> QED BY <3>3, <3>4, <3>5
  <2>7. CASE Incr(c)
    <3>1. Fixed /\ client[c].key = K
      BY <2>3, <2>7 DEF Incr
    <3>2. CASE Value(K) + 1 > Limit
      <4>1. Become(c, Idle)
        BY <2>7, <3>1, <3>2 DEF Incr
      <4> QED BY <1>0, <2>2, <2>4, <3>1, <4>1, BucketBecome
    <3>3. CASE ~(Value(K) + 1 > Limit)
      <4>1. Put(K, Value(K) + 1, c, Idle) /\ Granted(TRUE)
        BY <2>4, <2>7, <3>1, <3>3 DEF Incr
      <4>2. Value(K) + 1 <= Limit
        BY <2>4, <3>3, Constants
      <4> QED BY <1>0, <2>2, <3>1, <4>1, <4>2, BucketPut
    <3> QED BY <3>2, <3>3
  <2>8. CASE IncrMemcached(c)
    <3>1. Fixed /\ client[c].key = K
      BY <2>3, <2>8 DEF IncrMemcached
    <3>2. CASE ~Present(K)
      <4>1. Become(c, Idle)
        BY <2>8, <3>1, <3>2 DEF IncrMemcached
      <4> QED BY <1>0, <2>2, <2>4, <3>1, <4>1, BucketBecome
    <3>3. CASE Present(K)
      <4>1. /\ Value(K) + 1 <= MaxValue
            /\ Write(K, [db[K] EXCEPT !.value = Value(K) + 1], c, Idle)
            /\ Granted(Value(K) + 1 <= Limit)
        BY <2>4, <2>8, <3>1, <3>3 DEF IncrMemcached
      <4>2. (Value(K) + 1 <= Limit /\ Granted(TRUE)) \/ granted' = granted
        BY <4>1 DEF Granted
      <4> QED BY <1>0, <2>2, <3>1, <3>3, <4>1, <4>2, BucketWrite
    <3> QED BY <3>2, <3>3
  <2>9. CASE Release(c)
    BY <2>9, StepOf DEF Release
  <2> QED BY <2>1, <2>5, <2>6, <2>7, <2>8, <2>9
<1> QED BY <1>1, <1>2, <1>3

-----------------------------------------------------------------------------
(* Windows.                                                                *)

LEMMA CountsThere ==
  ASSUME TypeOK, Windowed, limiter = "window", ~slow
  PROVE  /\ granted \in [Times -> Nat]
         /\ \A t \in Times : Value(t) = granted[t]
         /\ \A t \in Times : granted[t] > 0 => t <= now
         /\ Total = 1 + SumOf(granted, Window(now))
<1>1. granted \in [Times -> Nat] /\ Keys = Times
  BY KeyTypes DEF TypeOK
<1>2. \A t \in Times :
        /\ granted[t] = db[t].value
        /\ db[t].value > 0 => t <= now /\ now < db[t].expires
  BY DEF Windowed
<1>3. ASSUME NEW t \in Times PROVE Value(t) = granted[t]
  <2>1. db[t].value \in Nat /\ db[t].expires \in Nat /\ now \in Nat
    BY <1>1, DbTypes
  <2>2. CASE db[t].value > 0
    BY <1>2, <2>1, <2>2 DEF Value, Present
  <2>3. CASE db[t].value = 0
    BY <1>2, <2>1, <2>3 DEF Value
  <2> QED BY <2>1, <2>2, <2>3
<1>4. [k \in Keys |-> Value(k)] = granted
  BY <1>1, <1>3
<1> QED BY <1>1, <1>2, <1>3, <1>4 DEF Total

(* A client that has what the invariant asks of it writes nothing.         *)
LEMMA WindowBecome ==
  ASSUME TypeOK, Windowed, WindowLimit, limiter = "window", ~slow, Fixed,
         NEW n \in Keys, n = now, NEW c \in Clients, NEW s \in Client, Become(c, s),
         s.pc # "idle" => s.key = n,
         s.pc \in {"sum", "exec"} => n \in s.watched,
         s.pc \in {"sum", "exec"} /\ ~s.dirty => s.seen = Value(n),
         s.pc = "exec" /\ ~s.dirty => SumOf(granted, Window(n)) + 1 <= Limit
  PROVE  Windowed' /\ WindowLimit'
<1>1. /\ client'[c] = s /\ UNCHANGED <<db, granted, now, limiter, slow>>
      /\ \A d \in Clients \ {c} : client'[d] = client[d]
      /\ Value(n)' = Value(n)
  BY BecomeEffect, BecomeValues DEF Fixed
<1>2. SumOf(granted, Window(now))' = SumOf(granted, Window(n))
  BY <1>1 DEF SumOf, Units, Window
<1>3. Value(now)' = Value(n)
  BY <1>1
<1>4. ASSUME NEW d \in Clients
      PROVE  /\ client'[d].pc # "idle" => client'[d].key = now'
             /\ client'[d].pc \in {"sum", "exec"} => now' \in client'[d].watched
             /\ client'[d].pc \in {"sum", "exec"} /\ ~client'[d].dirty =>
                  client'[d].seen = Value(now)'
             /\ client'[d].pc = "exec" /\ ~client'[d].dirty =>
                  SumOf(granted, Window(now))' + 1 <= Limit
  <2>1. CASE d = c
    BY <1>1, <1>2, <1>3, <2>1
  <2>2. CASE d # c
    <3>1. client'[d] = client[d]
      BY <1>1, <2>2
    <3>2. /\ client[d].pc # "idle" => client[d].key = now
          /\ client[d].pc \in {"sum", "exec"} => now \in client[d].watched
          /\ client[d].pc \in {"sum", "exec"} /\ ~client[d].dirty => client[d].seen = Value(now)
          /\ client[d].pc = "exec" /\ ~client[d].dirty =>
               SumOf(granted, Window(now)) + 1 <= Limit
      BY DEF Windowed
    <3> QED BY <1>1, <1>2, <1>3, <3>1, <3>2
  <2> QED BY <2>1, <2>2
<1>5. \A t \in Times :
        /\ granted'[t] = db'[t].value
        /\ db'[t].value > 0 => t <= now' /\ now' < db'[t].expires
                               /\ db'[t].expires = t + Interval
  BY <1>1 DEF Windowed
<1>6. Windowed'
  BY <1>4, <1>5 DEF Windowed
<1>7. WindowLimit'
  BY <1>1 DEF WindowLimit, SumOf, Units, Window
<1> QED BY <1>6, <1>7

(* Of those that are about to acquire, none is undisturbed by a write.     *)
LEMMA WindowPut ==
  ASSUME TypeOK, Windowed, limiter = "window", ~slow, Fixed,
         NEW n \in Keys, n = now, NEW c \in Clients, NEW s \in Client,
         s.pc \in {"idle", "read"}, s.pc # "idle" => s.key = n,
         NEW v \in 0 .. MaxValue, Put(n, v, c, s),
         granted' \in [Times -> Nat], granted'[n] = v,
         \A t \in Times \ {n} : granted'[t] = granted[t]
  PROVE  Windowed'
<1>1. /\ client'[c] = s /\ Same(c) /\ UNCHANGED <<now, limiter, slow>>
      /\ \A d \in Clients \ {c} :
           client'[d].dirty <=> client[d].dirty \/ n \in client[d].watched
  BY PutEffect DEF Fixed
<1>2. /\ db'[n].value = v /\ db'[n].expires = now + Interval
      /\ \A j \in Keys \ {n} : db'[j] = db[j]
  BY PutValues DEF Lifetime
<1>3. now \in Nat /\ Interval \in Nat /\ 1 <= Interval /\ Keys = Times
  BY KeyTypes, Constants
<1>4. ASSUME NEW t \in Times
      PROVE  /\ granted'[t] = db'[t].value
             /\ db'[t].value > 0 => t <= now' /\ now' < db'[t].expires
                                    /\ db'[t].expires = t + Interval
  <2>1. CASE t = n
    BY <1>1, <1>2, <1>3, <2>1
  <2>2. CASE t # n
    <3>1. db'[t] = db[t] /\ granted'[t] = granted[t]
      BY <1>2, <1>3, <2>2
    <3> QED BY <1>1, <3>1 DEF Windowed
  <2> QED BY <2>1, <2>2
<1>5. ASSUME NEW d \in Clients
      PROVE  /\ client'[d].pc # "idle" => client'[d].key = now'
             /\ client'[d].pc \in {"sum", "exec"} =>
                  now' \in client'[d].watched /\ client'[d].dirty
  <2>1. CASE d = c
    BY <1>1, <2>1
  <2>2. CASE d # c
    <3>1. /\ client[d].pc # "idle" => client[d].key = now
          /\ client[d].pc \in {"sum", "exec"} => now \in client[d].watched
      BY DEF Windowed
    <3>2. /\ client'[d].pc = client[d].pc /\ client'[d].key = client[d].key
          /\ client'[d].watched = client[d].watched
          /\ n \in client[d].watched => client'[d].dirty
      BY <1>1, <2>2 DEF Same
    <3> QED BY <1>1, <3>1, <3>2
  <2> QED BY <2>1, <2>2
<1> QED BY <1>4, <1>5 DEF Windowed

(* An acquisition that has found room in the window.                       *)
LEMMA WindowAcquire ==
  ASSUME TypeOK, Windowed, WindowLimit, limiter = "window", ~slow, Fixed,
         NEW n \in Keys, n = now, NEW c \in Clients, Value(n) + 1 <= Limit,
         SumOf(granted, Window(n)) + 1 <= Limit,
         Put(n, Value(n) + 1, c, Idle), Granted(TRUE)
  PROVE  Windowed' /\ WindowLimit'
<1>1. /\ Value(n) \in Nat /\ Value(n) + 1 \in 0 .. MaxValue
      /\ Idle \in Client /\ Idle.pc = "idle"
      /\ Keys = Times /\ now \in Nat /\ Keys \subseteq Nat
  BY DbTypes, KeyTypes, IdleTypes, Constants
<1>2. /\ granted \in [Times -> Nat] /\ granted' \in [Times -> Nat]
      /\ Value(n) = granted[n] /\ \A t \in Times : granted[t] > 0 => t <= now
      /\ \A t \in Times : granted'[t] = IF t = n THEN granted[n] + 1 ELSE granted[t]
  BY <1>1, CountsThere, GrantedEffect
<1>3. Windowed'
  <2>1. granted'[n] = Value(n) + 1 /\ \A t \in Times \ {n} : granted'[t] = granted[t]
    BY <1>1, <1>2
  <2> QED BY <1>1, <1>2, <2>1, WindowPut
<1>4. /\ Window(n) \in SUBSET Times /\ SumOf(granted, Window(n)) \in Nat
      /\ SumOf(granted', Window(n)) = SumOf(granted, Window(n)) + 1
  <2>1. Window(n) \in SUBSET Times /\ (n \in Window(n) <=> n <= n /\ n < n + Interval)
    BY <1>1, Windows
  <2>2. n \in Window(n)
    BY <1>1, <2>1, Constants
  <2> QED BY <1>1, <1>2, <2>1, <2>2, SumPlusOne, UnitsFinite
<1>5. ASSUME NEW t \in Times PROVE SumOf(granted', Window(t)) <= Limit
  <2>1. /\ Window(t) \in SUBSET Times
        /\ \A s \in Times : s \in Window(t) <=> s <= t /\ t < s + Interval
        /\ \A s \in Times : s \in Window(n) <=> s <= n /\ n < s + Interval
    BY <1>1, Windows
  <2>2. CASE n \notin Window(t)
    <3>1. SumOf(granted', Window(t)) = SumOf(granted, Window(t))
      BY <1>1, <1>2, <2>1, <2>2, SumPlusOne
    <3> QED BY <3>1 DEF WindowLimit
  <2>3. CASE n \in Window(t)
    <3>1. ASSUME NEW s \in Window(t), granted'[s] > 0
          PROVE  s \in Window(n) /\ granted'[s] <= granted'[s]
      <4>1. s \in Times /\ t < s + Interval /\ n <= t
        BY <1>1, <2>1, <2>3
      <4>2. s <= n
        BY <1>1, <1>2, <3>1, <4>1
      <4>3. n < s + Interval
        BY <1>1, <4>1, Constants
      <4>4. granted'[s] \in Nat
        BY <1>2, <4>1
      <4> QED BY <2>1, <4>1, <4>2, <4>3, <4>4
    <3>2. SumOf(granted', Window(t)) <= SumOf(granted', Window(n))
      BY <1>2, <1>4, <2>1, <3>1, SumMonotone
    <3>3. SumOf(granted', Window(t)) \in Nat
      BY <1>2, <2>1, UnitsFinite
    <3> QED BY <1>4, <3>2, <3>3, Constants
  <2> QED BY <2>2, <2>3
<1>6. WindowLimit'
  BY <1>5 DEF WindowLimit, SumOf, Units, Window
<1> QED BY <1>3, <1>6

LEMMA WindowTick ==
  ASSUME TypeOK, Windowed, WindowLimit, limiter = "window", Tick, ~slow'
  PROVE  Windowed' /\ WindowLimit'
<1>1. /\ now' = now + 1 /\ ~slow /\ ~TooSlow /\ UNCHANGED <<limiter, client>>
      /\ granted' \in [Times -> Nat] /\ granted \in [Times -> Nat]
      /\ \A k \in Keys : db'[k] = IF db[k].expires > now + 1 THEN db[k] ELSE Absent
      /\ \A t \in Times : granted'[t] = IF now + 1 < t + Interval THEN granted[t] ELSE 0
      /\ now \in Nat /\ Keys = Times /\ Keys \subseteq Nat
  BY TickEffect, KeyTypes DEF TypeOK
<1>2. ASSUME NEW t \in Times
      PROVE  /\ granted'[t] = db'[t].value
             /\ db'[t].value > 0 => t <= now' /\ now' < db'[t].expires
                                    /\ db'[t].expires = t + Interval
  <2>1. /\ granted[t] = db[t].value
        /\ db[t].value > 0 => t <= now /\ now < db[t].expires /\ db[t].expires = t + Interval
    BY <1>1 DEF Windowed
  <2>2. db[t].value \in Nat /\ t \in Nat /\ db[t].expires \in Nat
    BY <1>1, DbTypes
  <2>3. CASE db[t].value = 0
    BY <1>1, <2>1, <2>2, <2>3 DEF Absent
  <2>4. CASE db[t].value > 0
    <3>1. db[t].expires > now + 1 <=> now + 1 < t + Interval
      BY <1>1, <2>1, <2>2, <2>4, Constants
    <3>2. CASE now + 1 < t + Interval
      BY <1>1, <2>1, <2>2, <2>4, <3>1, <3>2, Constants
    <3>3. CASE ~(now + 1 < t + Interval)
      BY <1>1, <2>1, <2>2, <2>4, <3>1, <3>3 DEF Absent
    <3> QED BY <3>2, <3>3
  <2> QED BY <2>2, <2>3, <2>4
<1>3. ASSUME NEW c \in Clients PROVE client'[c].pc = "idle"
  <2>1. client[c].pc # "idle" => client[c].key = now
    BY <1>1 DEF Windowed
  <2>2. client[c].pc # "idle" => client[c].key = now + 1
    BY <1>1 DEF TooSlow, Key
  <2>3. now # now + 1
    BY <1>1
  <2> QED BY <1>1, <2>1, <2>2, <2>3
<1>4. Windowed'
  BY <1>2, <1>3 DEF Windowed
<1>5. ASSUME NEW t \in Times PROVE SumOf(granted', Window(t)) <= Limit
  <2>1. Window(t) \in SUBSET Times
    BY <1>1, Windows
  <2>2. \A s \in Times : granted[s] \in Nat /\ (granted'[s] = granted[s] \/ granted'[s] = 0)
    BY <1>1
  <2>3. \A s \in Window(t) : granted'[s] > 0 => s \in Window(t) /\ granted'[s] <= granted[s]
    BY <2>1, <2>2
  <2>4. SumOf(granted', Window(t)) <= SumOf(granted, Window(t))
    BY <1>1, <2>1, <2>3, SumMonotone
  <2>5. SumOf(granted', Window(t)) \in Nat /\ SumOf(granted, Window(t)) \in Nat
    BY <1>1, <2>1, UnitsFinite
  <2>6. SumOf(granted, Window(t)) <= Limit
    BY <1>1 DEF WindowLimit
  <2> QED BY <2>4, <2>5, <2>6, Constants
<1>6. WindowLimit'
  BY <1>5 DEF WindowLimit, SumOf, Units, Window
<1> QED BY <1>4, <1>6

LEMMA WindowStep ==
  ASSUME TypeOK, Stages, Windowed, WindowLimit, [Next]_vars
  PROVE  Windowed' /\ WindowLimit'
<1> SUFFICES ASSUME limiter = "window", ~slow'
             PROVE  Windowed' /\ WindowLimit'
  BY FixedStep DEF Windowed, WindowLimit
<1>0. ~slow /\ now \in Keys /\ Key(now) = now
  BY FixedStep, KeyTypes
<1>1. CASE UNCHANGED vars
  <2>1. UNCHANGED <<limiter, now, db, client, granted, slow>>
    BY <1>1 DEF vars
  <2>2. Value(now)' = Value(now)
    BY <2>1 DEF Value, Present
  <2>3. Window(now)' = Window(now)
    BY <2>1 DEF Window
  <2>4. SumOf(granted, Window(now))' = SumOf(granted, Window(now))
    BY <2>1, <2>3 DEF SumOf, Units
  <2>5. WindowLimit'
    BY <2>1 DEF WindowLimit, SumOf, Units, Window
  <2>6. Windowed'
    BY <2>1, <2>2, <2>4 DEF Windowed
  <2> QED BY <2>5, <2>6
<1>2. CASE Tick
  BY <1>2, WindowTick
<1>3. CASE Next /\ ~Tick
  <2>1. PICK c \in Clients : Begin(c) \/ StubSum(c) \/ Read(c) \/ Sum(c) \/ Exec(c)
    BY <1>3, StepsOf
  <2>2. PICK n \in Keys : n = now
    BY <1>0
  <2>3. client[c].pc # "idle" => client[c].key = n
    BY <1>0, <2>2 DEF Windowed
  <2>4. Idle \in Client /\ Idle.pc = "idle" /\ Value(n) \in Nat /\ 0 \in 0 .. MaxValue
    BY IdleTypes, DbTypes, Constants
  <2>5. /\ granted \in [Times -> Nat] /\ Value(n) = granted[n]
        /\ Total = 1 + SumOf(granted, Window(n)) /\ SumOf(granted, Window(n)) \in Nat
    <3>1. /\ granted \in [Times -> Nat] /\ \A t \in Times : Value(t) = granted[t]
          /\ Total = 1 + SumOf(granted, Window(now))
      BY <1>0, CountsThere
    <3>2. Window(n) \in SUBSET Times /\ n \in Times
      BY Windows, KeyTypes
    <3> QED BY <2>2, <3>1, <3>2, UnitsFinite
  <2>6. CASE Begin(c)
    <3> DEFINE s == [Idle EXCEPT !.key = n, !.pc = "read"]
    <3>1. Fixed /\ (Become(c, s) \/ (~Present(n) /\ Put(n, 0, c, s) /\ Granted(FALSE)))
      BY <1>0, <2>2, <2>6 DEF Begin
    <3>2. s \in Client /\ s.key = n /\ s.pc = "read"
      BY IdleTypes DEF Client
    <3> HIDE DEF s
    <3>3. CASE Become(c, s)
      BY <1>0, <2>2, <3>1, <3>2, <3>3, WindowBecome
    <3>4. CASE ~Present(n) /\ Put(n, 0, c, s) /\ Granted(FALSE)
      <4>1. granted' = granted /\ granted[n] = 0
        BY <2>5, <3>4 DEF Granted, Value
      <4>2. Windowed'
        BY <1>0, <2>2, <2>4, <2>5, <3>1, <3>2, <3>4, <4>1, WindowPut
      <4>3. WindowLimit'
        BY <3>1, <4>1 DEF WindowLimit, SumOf, Units, Window, Fixed
      <4> QED BY <4>2, <4>3
    <3> QED BY <3>1, <3>3, <3>4
  <2>7. CASE StubSum(c)
    <3>1. Fixed /\ client[c].key = n
      BY <2>3, <2>7 DEF StubSum
    <3>2. CASE Value(n) + 1 > Limit \/ Total > Limit
      <4>1. Become(c, Idle)
        BY <2>7, <3>1, <3>2 DEF StubSum
      <4> QED BY <1>0, <2>2, <2>4, <3>1, <4>1, WindowBecome
    <3>3. CASE ~(Value(n) + 1 > Limit \/ Total > Limit)
      <4>1. Put(n, Value(n) + 1, c, Idle) /\ Granted(TRUE)
        BY <2>7, <3>1, <3>3 DEF StubSum
      <4>2. Value(n) + 1 <= Limit /\ SumOf(granted, Window(n)) + 1 <= Limit
        BY <2>4, <2>5, <3>3, Constants
      <4> QED BY <1>0, <2>2, <3>1, <4>1, <4>2, WindowAcquire
    <3> QED BY <3>2, <3>3
  <2>8. CASE Read(c)
    <3> DEFINE w == IF backend = "redis" THEN {n} \cup Window(now) ELSE {n}
               s == [client[c] EXCEPT !.pc = "sum", !.seen = Value(n), !.dirty = FALSE,
                                      !.watched = w]
    <3>1. Fixed /\ client[c].key = n
      BY <2>3, <2>8 DEF Read
    <3>2. Become(c, Idle) \/ (Value(n) + 1 <= Limit /\ Become(c, s))
      <4>1. Value(n) + 1 > Limit \/ Value(n) + 1 <= Limit
        BY <2>4, Constants
      <4> QED BY <2>8, <3>1, <4>1 DEF Read
    <3>3. w \in SUBSET Keys /\ n \in w
      BY DEF Window
    <3> HIDE DEF w
    <3>4. Value(n) + 1 <= Limit =>
            s \in Client /\ s.pc = "sum" /\ s.key = n /\ s.watched = w /\ s.seen = Value(n)
      <4>1. Value(n) + 1 <= Limit => Value(n) \in 0 .. Limit - 1
        BY <2>4, Constants
      <4>2. client[c] \in Client
        BY ClientTypes
      <4> QED BY <3>1, <3>3, <4>1, <4>2 DEF Client
    <3> HIDE DEF s
    <3>5. CASE Become(c, Idle)
      BY <1>0, <2>2, <2>4, <3>1, <3>5, WindowBecome
    <3>6. CASE Value(n) + 1 <= Limit /\ Become(c, s)
      BY <1>0, <2>2, <3>1, <3>3, <3>4, <3>6, WindowBecome
    <3> QED BY <3>2, <3>5, <3>6
  <2>9. CASE Sum(c)
    <3> DEFINE s == [client[c] EXCEPT !.pc = "exec"]
    <3>1. Fixed /\ client[c].key = n /\ client[c].pc = "sum"
      BY <2>3, <2>9 DEF Sum
    <3>2. CASE Total > Limit
      <4>1. Become(c, Idle)
        BY <2>9, <3>2 DEF Sum
      <4> QED BY <1>0, <2>2, <2>4, <3>1, <4>1, WindowBecome
    <3>3. CASE ~(Total > Limit)
      <4>1. Become(c, s)
        BY <2>9, <3>3 DEF Sum
      <4>2. /\ s \in Client /\ s.pc = "exec" /\ s.key = n /\ s.watched = client[c].watched
            /\ s.seen = client[c].seen /\ s.dirty = client[c].dirty
        BY <3>1, ClientTypes DEF Client
      <4>3. n \in client[c].watched /\ (~client[c].dirty => client[c].seen = Value(n))
        BY <1>0, <2>2, <3>1 DEF Windowed
      <4>4. SumOf(granted, Window(n)) + 1 <= Limit
        BY <2>5, <3>3, Constants
      <4> HIDE DEF s
      <4> QED BY <1>0, <2>2, <3>1, <4>1, <4>2, <4>3, <4>4, WindowBecome
    <3> QED BY <3>2, <3>3
  <2>10. CASE Exec(c)
    <3> DEFINE s == [Idle EXCEPT !.pc = "read", !.key = n]
    <3>1. Fixed /\ client[c].key = n /\ client[c].pc = "exec"
      BY <2>3, <2>10 DEF Exec
    <3>2. s \in Client /\ s.pc = "read" /\ s.key = n
      BY IdleTypes DEF Client
    <3>3. \/ Become(c, s)
          \/ ~client[c].dirty /\ Put(n, client[c].seen + 1, c, Idle) /\ Granted(TRUE)
      BY <2>10, <3>1 DEF Exec
    <3> HIDE DEF s
    <3>4. CASE Become(c, s)
      BY <1>0, <2>2, <3>1, <3>2, <3>4, WindowBecome
    <3>5. CASE ~client[c].dirty /\ Put(n, client[c].seen + 1, c, Idle) /\ Granted(TRUE)
      <4>1. client[c].seen = Value(n) /\ SumOf(granted, Window(n)) + 1 <= Limit
        BY <1>0, <2>2, <3>1, <3>5 DEF Windowed
      <4>2. Value(n) + 1 <= Limit
        BY <4>1, ClientTypes, Constants
      <4> QED BY <1>0, <2>2, <3>1, <3>5, <4>1, <4>2, WindowAcquire
    <3> QED BY <3>3, <3>4, <3>5
  <2> QED BY <2>1, <2>6, <2>7, <2>8, <2>9, <2>10
<1> QED BY <1>1, <1>2, <1>3

-----------------------------------------------------------------------------
(* Barriers.                                                               *)

LEMMA SpentFinite ==
  /\ IsFiniteSet(Spent) /\ Cardinality(Spent) \in Nat /\ Spent \subseteq Clients
  /\ Cardinality(Spent) <= Cardinality(Clients)
  /\ Cardinality(Spent) = Cardinality(Clients) => Spent = Clients
<1>1. Spent \subseteq Clients
  BY DEF Spent
<1> QED BY <1>1, Constants, FS_Subset, FS_CardinalityType

(* All but one of the parties are as many as there are, less one.          *)
LEMMA AllButOne ==
  ASSUME NEW c \in Clients, NEW S \in SUBSET Clients, c \notin S
  PROVE  /\ Cardinality(S) < Cardinality(Clients)
         /\ Cardinality(S) + 1 = Cardinality(Clients) => S = Clients \ {c}
<1>1. IsFiniteSet(Clients) /\ Cardinality(Clients) \in Nat
  BY Constants
<1>2. /\ IsFiniteSet(Clients \ {c}) /\ Cardinality(Clients \ {c}) = Cardinality(Clients) - 1
  BY <1>1, FS_RemoveElement
<1>3. S \in SUBSET (Clients \ {c})
  OBVIOUS
<1>4. /\ IsFiniteSet(S) /\ Cardinality(S) <= Cardinality(Clients \ {c})
      /\ Cardinality(Clients \ {c}) = Cardinality(S) => Clients \ {c} = S
  BY <1>2, <1>3, FS_Subset
<1>5. Cardinality(S) \in Nat
  BY <1>4, FS_CardinalityType
<1> QED BY <1>1, <1>2, <1>4, <1>5

(* In the time of the key the value is what is stored.                     *)
LEMMA InTime ==
  ASSUME TypeOK, Parties, limiter = "barrier", ~slow
  PROVE  /\ Present(0) /\ Value(0) = db[0].value /\ Value(0) \in Nat /\ now < Ttl
         /\ Value(0) + Cardinality(Spent) = Cardinality(Clients)
         /\ \A c \in Clients : client[c].pc = "idle" => Value(0) >= 1 /\ Clearing = {}
<1>1. now < Ttl /\ Ttl <= db[0].expires /\ now \in Nat /\ db[0].expires \in Nat /\ 0 \in Keys
  BY KeyTypes, DbTypes DEF Parties
<1>2. Present(0) /\ Value(0) = db[0].value /\ Value(0) \in Nat
  BY <1>1, DbTypes, Constants DEF Present, Value
<1>3. Value(0) + Cardinality(Spent) = Cardinality(Clients)
  BY DEF Parties
<1>4. ASSUME NEW c \in Clients, client[c].pc = "idle"
      PROVE  Value(0) >= 1 /\ Clearing = {}
  <2>1. c \notin Spent /\ Spent \in SUBSET Clients
    BY <1>4 DEF Spent, Gone
  <2>2. Cardinality(Spent) < Cardinality(Clients) /\ Cardinality(Spent) \in Nat
    BY <2>1, AllButOne, SpentFinite
  <2>3. ASSUME NEW d \in Clearing PROVE FALSE
    <3>1. d \in Clients /\ c # d
      BY <1>4 DEF Clearing
    <3>2. client[c].pc \in Gone
      BY <3>1 DEF Parties
    <3> QED BY <1>4, <3>2 DEF Gone
  <2> QED BY <1>2, <1>3, <2>2, <2>3, Constants
<1> QED BY <1>1, <1>2, <1>3, <1>4

(* The party that clears: those that have yet to come are none.            *)
LEMMA PartyClears ==
  ASSUME TypeOK, Parties, limiter = "barrier", ~slow, Fixed, events' = events,
         NEW c \in Clients, client[c].pc = "idle", Same(c), client'[c].pc = "cleared",
         \A d \in Clients \ {c} : client[d].pc \in Gone,
         Value(0)' + Cardinality(Spent') = Cardinality(Clients),
         Counts => 1 <= Value(0)', Ttl <= db'[0].expires
  PROVE  Parties'
<1>1. now < Ttl /\ now' = now /\ backend' = backend
  BY InTime DEF Fixed
<1>2. Clearing' = {c}
  <2>1. c \in Clearing'
    BY DEF Clearing
  <2>2. \A d \in Clients \ {c} : d \notin Clearing'
    BY DEF Clearing, Same, Gone
  <2> QED BY <2>1, <2>2 DEF Clearing
<1>3. \A d \in Clients : d # c => client'[d].pc \in Gone
  BY DEF Same
<1> QED BY <1>1, <1>2, <1>3 DEF Parties, Counts

(* A party that comes and does not clear leaves a place for another one.   *)
LEMMA PartyArrives ==
  ASSUME TypeOK, Stages', Parties, limiter = "barrier", ~slow, Fixed, events' = events,
         NEW c \in Clients, client[c].pc = "idle", Same(c),
         client'[c].pc \in {"blocked", "left"},
         NEW v \in Nat, Value(0) = v + 1, Value(0)' = v, v >= 1, Ttl <= db'[0].expires
  PROVE  Parties'
<1>1. /\ now < Ttl /\ now' = now /\ backend' = backend /\ Counts' = Counts
      /\ limiter' = limiter /\ v + 1 + Cardinality(Spent) = Cardinality(Clients)
      /\ Clearing = {}
  BY InTime DEF Fixed, Counts
<1>2. Spent' = Spent \cup {c} /\ c \notin Spent
  BY <1>1 DEF Spent, Same, Gone, Counts
<1>3. Cardinality(Spent') = Cardinality(Spent) + 1
  BY <1>2, SpentFinite, FS_AddElement
<1>4. v + Cardinality(Spent') = Cardinality(Clients)
  BY <1>1, <1>3, SpentFinite, Constants
<1>5. Clearing' = {}
  BY <1>1 DEF Clearing, Same
<1>6. ASSUME \A d \in Clients : client'[d].pc # "idle" PROVE FALSE
  <2>1. \A d \in Clients : client'[d].pc \in Gone
    <3>1. ASSUME NEW d \in Clients PROVE client'[d].pc \in Gone
      <4>1. client'[d].pc \in {"idle", "cleared", "opened"} \cup Gone
        BY <1>1 DEF Stages, Allowed, Steps
      <4>2. client'[d].pc \notin {"cleared", "opened"}
        BY <1>5 DEF Clearing
      <4> QED BY <1>6, <4>1, <4>2
    <3> QED BY <3>1
  <2>2. Spent' = Clients
    BY <2>1 DEF Spent
  <2> QED BY <1>4, <2>2, Constants
<1>7. ~(events > 0 \/ \E d \in Clients : client[d].pc = "passed")
  BY <1>1 DEF Parties
<1>8. ~(events' > 0 \/ \E d \in Clients : client'[d].pc = "passed")
  BY <1>7 DEF Same
<1> QED BY <1>1, <1>4, <1>5, <1>6, <1>8 DEF Parties

(* Steps of parties that have come: one that clears opens, others pass,
   wait or leave.                                                          *)
LEMMA PartiesGoOn ==
  ASSUME TypeOK, Parties, limiter = "barrier", ~slow, Fixed, db' = db,
         \A d \in Clients :
           \/ client'[d].pc = client[d].pc
           \/ client[d].pc \in Gone /\ client'[d].pc \in Gone
           \/ client[d].pc = "cleared" /\ client'[d].pc = "opened",
         (events' > 0 \/ \E d \in Clients : client'[d].pc = "passed") => Clearing # {}
  PROVE  Parties'
<1>1. /\ now < Ttl /\ now' = now /\ backend' = backend /\ Counts' = Counts
  BY InTime DEF Fixed, Counts
<1>2. Clearing' = Clearing /\ Spent' = Spent
  BY <1>1 DEF Clearing, Spent, Gone
<1>3. Value(0)' = Value(0)
  BY <1>1 DEF Value, Present
<1>4. (\A d \in Clients : client'[d].pc # "idle") => \A d \in Clients : client[d].pc # "idle"
  BY DEF Gone
<1>5. \A e \in Clearing, d \in Clients : d # e => client'[d].pc \in Gone
  <2>1. ASSUME NEW e \in Clearing, NEW d \in Clients, d # e PROVE client'[d].pc \in Gone
    <3>1. client[d].pc \in Gone
      BY <2>1 DEF Parties
    <3> QED BY <3>1 DEF Gone
  <2> QED BY <2>1
<1> QED BY <1>1, <1>2, <1>3, <1>4, <1>5 DEF Parties

LEMMA PartiesTick ==
  ASSUME TypeOK, Parties, limiter = "barrier", Tick, ~slow'
  PROVE  Parties'
<1>1. /\ now' = now + 1 /\ ~slow /\ ~TooSlow
      /\ UNCHANGED <<limiter, backend, events, client>>
      /\ db'[0] = IF db[0].expires > now + 1 THEN db[0] ELSE Absent
      /\ now \in Nat /\ db[0].expires \in Nat
  BY TickEffect, KeyTypes, DbTypes
<1>2. ~(now + 1 >= Ttl)
  BY <1>1 DEF TooSlow
<1>3. Ttl <= db[0].expires
  BY <1>1 DEF Parties
<1>4. now' < Ttl /\ db[0].expires > now + 1
  BY <1>1, <1>2, <1>3, Constants
<1>5. db'[0] = db[0] /\ Value(0)' = Value(0)
  BY <1>1, <1>4 DEF Value, Present
<1>6. Clearing' = Clearing /\ Spent' = Spent /\ Counts' = Counts
  BY <1>1 DEF Clearing, Spent, Counts
<1> QED BY <1>1, <1>4, <1>5, <1>6 DEF Parties

LEMMA PartiesArrive ==
  ASSUME TypeOK, Stages', Parties, limiter = "barrier", ~slow, NEW c \in Clients, Arrive(c)
  PROVE  Parties'
<1>1. /\ Fixed /\ client[c].pc = "idle" /\ Counts
      /\ IF Value(0) < 2 THEN Become(c, Arrived("cleared"))
         ELSE \E pc \in {"blocked", "left"} :
                Put(0, Value(0) - 1, c, Arrived(pc)) /\ Granted(FALSE)
  BY DEF Arrive
<1>2. /\ Value(0) \in Nat /\ Value(0) \in 0 .. MaxValue /\ Value(0) >= 1 /\ Clearing = {}
      /\ Value(0) + Cardinality(Spent) = Cardinality(Clients)
      /\ 0 \in Keys /\ now \in Nat /\ Ttl <= db[0].expires
  BY <1>1, InTime, KeyTypes, DbTypes DEF Parties
<1>3. CASE Value(0) < 2
  <2>1. Value(0) = 1 /\ Become(c, Arrived("cleared"))
    BY <1>1, <1>2, <1>3
  <2>2. Arrived("cleared") \in Client /\ Arrived("cleared").pc = "cleared"
    BY ArrivedTypes
  <2>3. client'[c].pc = "cleared" /\ Same(c) /\ db' = db /\ events' = events
    BY <2>1, <2>2, BecomeEffect
  <2>4. Value(0)' = Value(0)
    BY <1>1, <2>3 DEF Value, Present, Fixed
  <2>5. Spent \in SUBSET Clients /\ c \notin Spent
    BY <1>1 DEF Spent, Gone
  <2>6. Spent = Clients \ {c}
    BY <1>2, <2>1, <2>5, AllButOne, SpentFinite
  <2>7. \A d \in Clients \ {c} : client[d].pc \in Gone
    BY <1>1, <2>6 DEF Spent
  <2>8. Spent' = Spent
    BY <1>1, <2>3 DEF Spent, Same, Counts, Fixed, Gone
  <2> QED BY <1>1, <1>2, <2>1, <2>3, <2>4, <2>7, <2>8, PartyClears
<1>4. CASE ~(Value(0) < 2)
  <2>1. PICK pc \in {"blocked", "left"} :
          Put(0, Value(0) - 1, c, Arrived(pc)) /\ Granted(FALSE)
    BY <1>1, <1>4
  <2>2. PICK v \in Nat : Value(0) = v + 1
    <3>1. Value(0) - 1 \in Nat /\ Value(0) = (Value(0) - 1) + 1
      BY <1>2
    <3> QED BY <3>1
  <2>3. v \in 0 .. MaxValue /\ v >= 1 /\ Value(0) - 1 = v
    BY <1>2, <1>4, <2>2, Constants
  <2>4. Arrived(pc) \in Client /\ Arrived(pc).pc = pc /\ Put(0, v, c, Arrived(pc))
    BY <2>1, <2>3, ArrivedTypes DEF Gone
  <2>5. client'[c].pc \in {"blocked", "left"} /\ Same(c) /\ events' = events
    BY <1>2, <2>3, <2>4, PutEffect
  <2>6. Value(0)' = v /\ db'[0].expires = now + Ttl
    <3>1. Lifetime = Ttl
      BY DEF Lifetime
    <3> QED BY <1>1, <1>2, <2>3, <2>4, <3>1, PutValues
  <2>7. Ttl <= db'[0].expires
    BY <1>2, <2>6, Constants
  <2> QED BY <1>1, <2>2, <2>3, <2>5, <2>6, <2>7, PartyArrives
<1> QED BY <1>3, <1>4

LEMMA PartiesArriveMemcached ==
  ASSUME TypeOK, Stages', Parties, limiter = "barrier", ~slow, NEW c \in Clients,
         ArriveMemcached(c)
  PROVE  Parties'
<1>1. Fixed /\ client[c].pc = "idle" /\ backend = "memcached" /\ ~Counts
  BY DEF ArriveMemcached, Counts
<1>2. /\ Value(0) \in Nat /\ Value(0) \in 0 .. MaxValue /\ Value(0) >= 1 /\ Clearing = {}
      /\ Value(0) + Cardinality(Spent) = Cardinality(Clients) /\ Present(0)
      /\ 0 \in Keys /\ now \in Nat /\ Ttl <= db[0].expires /\ db[0] \in Entry
  BY <1>1, InTime, KeyTypes, DbTypes DEF Parties
<1>3. PICK v \in Nat : Value(0) = v + 1
  <2>1. Value(0) - 1 \in Nat /\ Value(0) = (Value(0) - 1) + 1
    BY <1>2
  <2> QED BY <2>1
<1>4. v \in 0 .. MaxValue /\ Value(0) - 1 = v /\ Value(0) # 0
  BY <1>2, <1>3, Constants
<1>5. /\ Write(0, [db[0] EXCEPT !.value = v], c,
               Arrived(IF v < 1 THEN "cleared" ELSE "left"))
      /\ Granted(FALSE)
  BY <1>2, <1>4 DEF ArriveMemcached
<1>6. [db[0] EXCEPT !.value = v] \in Entry
  BY <1>2, <1>4 DEF Entry
<1>7. CASE v < 1
  <2>1. v = 0 /\ Write(0, [db[0] EXCEPT !.value = v], c, Arrived("cleared"))
    BY <1>5, <1>7
  <2>2. Arrived("cleared") \in Client /\ Arrived("cleared").pc = "cleared"
    BY ArrivedTypes
  <2>3. client'[c].pc = "cleared" /\ Same(c) /\ events' = events
    BY <1>2, <1>6, <2>1, <2>2, WriteEffect
  <2>4. Value(0)' = v /\ db'[0].expires = db[0].expires
    BY <1>1, <1>2, <1>4, <2>1, <2>2, WriteValues
  <2>5. Spent \in SUBSET Clients /\ c \notin Spent
    BY <1>1 DEF Spent, Gone
  <2>6. Spent = Clients \ {c}
    BY <1>2, <1>3, <2>1, <2>5, AllButOne, SpentFinite
  <2>7. \A d \in Clients \ {c} : client[d].pc \in Gone
    BY <1>2, <2>6 DEF Spent, Clearing
  <2>8. Spent' = Spent \cup {c}
    BY <1>1, <2>3 DEF Spent, Same, Counts, Fixed
  <2>9. Cardinality(Spent') = Cardinality(Spent) + 1
    BY <2>5, <2>8, SpentFinite, FS_AddElement
  <2>10. Value(0)' + Cardinality(Spent') = Cardinality(Clients)
    BY <1>2, <1>3, <2>4, <2>9, SpentFinite, Constants
  <2> QED BY <1>1, <1>2, <2>3, <2>4, <2>7, <2>10, PartyClears
<1>8. CASE ~(v < 1)
  <2>1. v >= 1 /\ Write(0, [db[0] EXCEPT !.value = v], c, Arrived("left"))
    BY <1>5, <1>8
  <2>2. Arrived("left") \in Client /\ Arrived("left").pc = "left"
    BY ArrivedTypes DEF Gone
  <2>3. client'[c].pc = "left" /\ Same(c) /\ events' = events
    BY <1>2, <1>6, <2>1, <2>2, WriteEffect
  <2>4. Value(0)' = v /\ db'[0].expires = db[0].expires
    BY <1>1, <1>2, <1>4, <2>1, <2>2, WriteValues
  <2> QED BY <1>1, <1>2, <1>3, <2>1, <2>3, <2>4, PartyArrives
<1> QED BY <1>7, <1>8

LEMMA PartiesStep ==
  ASSUME TypeOK, Stages, Stages', Parties, [Next]_vars
  PROVE  Parties'
<1> SUFFICES ASSUME limiter = "barrier", ~slow'
             PROVE  Parties'
  BY FixedStep DEF Parties
<1>0. ~slow /\ now \in Nat
  BY FixedStep, KeyTypes
<1>1. CASE UNCHANGED vars
  BY <1>1 DEF vars, Parties, Clearing, Spent, Counts, Value, Present
<1>2. CASE Tick
  BY <1>2, PartiesTick
<1>3. CASE Next /\ ~Tick
  <2>1. PICK c \in Clients :
          Arrive(c) \/ ArriveMemcached(c) \/ Notify(c) \/ Wait(c) \/ TimeOut(c)
    BY <1>3, StepsOf
  <2>2. CASE Arrive(c)
    BY <1>0, <2>2, PartiesArrive
  <2>3. CASE ArriveMemcached(c)
    BY <1>0, <2>3, PartiesArriveMemcached
  <2>4. CASE Notify(c)
    <3>1. Fixed /\ db' = db
      BY <2>4 DEF Notify
    <3>2. /\ client[c].pc = "cleared" /\ client'[c].pc = "opened"
          /\ \A d \in Clients : d # c =>
               \/ client'[d].pc = client[d].pc
               \/ client[d].pc = "waiting" /\ client'[d].pc = "passed"
      BY <2>4, NotifyEffect
    <3>3. Clearing # {}
      BY <3>2 DEF Clearing
    <3>4. ASSUME NEW d \in Clients
          PROVE  \/ client'[d].pc = client[d].pc
                 \/ client[d].pc \in Gone /\ client'[d].pc \in Gone
                 \/ client[d].pc = "cleared" /\ client'[d].pc = "opened"
      BY <3>2 DEF Gone
    <3> QED BY <1>0, <3>1, <3>3, <3>4, PartiesGoOn
  <2>5. CASE Wait(c) \/ TimeOut(c)
    <3>1. PICK pc \in {"passed", "waiting", "left"} :
            /\ client[c].pc \in {"blocked", "waiting"}
            /\ Become(c, [client[c] EXCEPT !.pc = pc])
            /\ pc = "passed" => events > now
      BY <2>5 DEF Wait, TimeOut
    <3>2. Fixed
      BY <2>5 DEF Wait, TimeOut
    <3>3. /\ client'[c].pc = pc /\ \A d \in Clients \ {c} : client'[d] = client[d]
          /\ UNCHANGED <<db, events>>
      BY <3>1, WaiterEffect
    <3>4. ASSUME NEW d \in Clients
          PROVE  \/ client'[d].pc = client[d].pc
                 \/ client[d].pc \in Gone /\ client'[d].pc \in Gone
                 \/ client[d].pc = "cleared" /\ client'[d].pc = "opened"
      BY <3>1, <3>3 DEF Gone
    <3>5. (events > 0 \/ \E d \in Clients : client[d].pc = "passed") => Clearing # {}
      BY <1>0 DEF Parties
    <3>6. events \in Nat
      BY Constants DEF TypeOK
    <3>7. (events' > 0 \/ \E d \in Clients : client'[d].pc = "passed") => Clearing # {}
      BY <1>0, <3>1, <3>3, <3>5, <3>6
    <3> QED BY <1>0, <3>2, <3>3, <3>4, <3>7, PartiesGoOn
  <2> QED BY <2>1, <2>2, <2>3, <2>4, <2>5
<1> QED BY <1>1, <1>2, <1>3

-----------------------------------------------------------------------------
(* The invariant.                                                          *)

LEMMA Initially == Init => IInv
<1> SUFFICES ASSUME Init PROVE IInv
  OBVIOUS
<1>1. TypeOK /\ Stages
  BY InitTypes
<1>2. /\ now = 0 /\ events = 0 /\ slow = FALSE
      /\ client = [c \in Clients |-> Idle] /\ granted = [t \in Times |-> 0]
      /\ db = [k \in Keys |-> IF limiter = "barrier" /\ k = 0
                 THEN [value |-> Cardinality(Clients), expires |-> Ttl] ELSE Absent]
  BY DEF Init
<1>3. \A c \in Clients : client[c].pc = "idle"
  BY <1>2, IdleTypes
<1>4. Holders = {} /\ Clearing = {} /\ Spent = {}
  BY <1>3 DEF Holders, Clearing, Spent, Gone
<1>5. 0 \in Keys /\ Keys = Times /\ Key(now) \in Keys /\ Keys \subseteq Nat
  BY <1>1, KeyTypes
<1>6. limiter # "barrier" => \A k \in Keys : db[k] = Absent /\ Value(k) = 0
  BY <1>2 DEF Absent, Value
<1>7. granted \in [Times -> Nat] /\ \A t \in Times : granted[t] = 0
  BY <1>2
<1>8. ASSUME NEW S \in SUBSET Times PROVE SumOf(granted, S) = 0
  BY <1>7, SumOfNone
<1>9. \A t \in Nat : SumOf(granted, Window(t)) = 0 /\ SumOf(granted, Bucket(t)) = 0
  BY <1>8, Windows, Buckets
<1>10. Held
  BY <1>4, <1>5, <1>6, FS_EmptySet, Constants DEF Held
<1>15. FirstKey
  BY <1>4, <1>5, <1>6, FS_EmptySet, Constants DEF FirstKey, Absent
<1>11. Bucketed
  <2>1. SumOf(granted, Bucket(Key(now))) = 0
    BY <1>5, <1>9
  <2>2. CASE limiter = "bucket"
    <3>1. Value(Key(now)) = 0
      BY <1>5, <1>6, <2>2
    <3>2. \A k \in Keys : ~(db[k].expires > 0)
      <4>1. ~(Absent.expires > 0)
        BY DEF Absent
      <4> QED BY <1>6, <2>2, <4>1
    <3>3. SumOf(granted, Bucket(Key(now))) <= Value(Key(now))
      BY <2>1, <3>1
    <3> QED BY <1>3, <1>7, <3>2, <3>3 DEF Bucketed
  <2>3. CASE limiter # "bucket"
    BY <2>3 DEF Bucketed
  <2> QED BY <2>2, <2>3
<1>12. Windowed
  BY <1>3, <1>5, <1>6, <1>7 DEF Windowed, Absent
<1>13. Parties
  <2>1. CASE limiter = "barrier"
    <3>1. db[0] = [value |-> Cardinality(Clients), expires |-> Ttl]
      BY <1>2, <1>5, <2>1
    <3>2. Value(0) = Cardinality(Clients)
      BY <1>2, <3>1, Constants DEF Value, Present
    <3>3. Cardinality(Spent) = 0
      BY <1>4, FS_EmptySet
    <3>4. \E c \in Clients : client[c].pc = "idle"
      BY <1>3, RateLimitsAssumption
    <3>5. Cardinality(Clients) >= 1
      <4>1. Cardinality(Clients) # 0
        BY Constants, RateLimitsAssumption, FS_EmptySet
      <4> QED BY <4>1, Constants
    <3>6. ~(events > 0 \/ \E c \in Clients : client[c].pc = "passed")
      BY <1>2, <1>3
    <3> QED BY <1>2, <1>4, <3>1, <3>2, <3>3, <3>4, <3>5, <3>6, Constants DEF Parties
  <2>2. CASE limiter # "barrier"
    BY <2>2 DEF Parties
  <2> QED BY <2>1, <2>2
<1>14. BucketLimit /\ WindowLimit
  <2>1. 0 <= Limit
    BY Constants
  <2>2. \A k \in Keys : SumOf(granted, Window(k + Interval - 1)) = 0
    BY <1>5, <1>9 DEF Bucket
  <2> QED BY <1>5, <1>9, <2>1, <2>2 DEF BucketLimit, WindowLimit
<1> QED BY <1>1, <1>10, <1>11, <1>12, <1>13, <1>14, <1>15 DEF IInv

LEMMA Inductive == IInv /\ [Next]_vars => IInv'
<1> SUFFICES ASSUME IInv, [Next]_vars PROVE IInv'
  OBVIOUS
<1>1. TypeOK' /\ Stages'
  BY TypeStep DEF IInv
<1>2. Held'
  BY HeldStep DEF IInv
<1>3. Bucketed' /\ BucketLimit'
  BY <1>1, BucketStep DEF IInv
<1>4. Windowed' /\ WindowLimit'
  BY WindowStep DEF IInv
<1>5. Parties'
  BY <1>1, PartiesStep DEF IInv
<1>6. FirstKey'
  BY FirstKeyStep DEF IInv
<1> QED BY <1>1, <1>2, <1>3, <1>4, <1>5, <1>6 DEF IInv

(* Each limiter keeps its limit on each backend, the concurrent one on
   Memcached only while its first key lives, and the counter of a concurrent
   limiter is the number of its holders, or on Memcached at least that.    *)
THEOREM LimitsAlwaysHold == Spec => []LimitsHold
<1>1. IInv => LimitsHold
  <2> SUFFICES ASSUME IInv PROVE LimitsHold
    OBVIOUS
  <2>1. CountsHolders
    BY DEF IInv, Held, FirstKey, CountsHolders
  <2>2. WithinLimit
    <3>1. CASE limiter = "concurrent"
      <4>1. backend # "memcached" /\ ~slow =>
              Value(0) = Cardinality(Holders) /\ Value(0) <= Limit
        BY <3>1 DEF IInv, Held
      <4>2. backend = "memcached" /\ now < Ttl => Cardinality(Holders) <= Limit
        BY <3>1 DEF IInv, FirstKey
      <4> QED BY <4>1, <4>2 DEF WithinLimit
    <3>2. CASE limiter # "concurrent"
      <4>1. Holders = {}
        BY <3>2, StepOf DEF IInv, Holders
      <4> QED BY <4>1, FS_EmptySet, Constants DEF WithinLimit
    <3> QED BY <3>1, <3>2
  <2> QED BY <2>1, <2>2 DEF IInv, LimitsHold
<1> QED BY Initially, Inductive, <1>1, PTL DEF Spec

(* No party gets through a barrier before the last one has arrived, and of
   all the parties exactly one clears it.                                  *)
THEOREM BarrierAlwaysHolds == Spec => []BarrierHolds
<1>1. IInv => BarrierHolds
  <2> SUFFICES ASSUME IInv, limiter = "barrier", ~slow
               PROVE  /\ Through # {} => \A c \in Clients : client[c].pc # "idle"
                      /\ (\A c \in Clients : client[c].pc # "idle") =>
                           Cardinality(Clearing) = 1
    BY DEF BarrierHolds, Clearing
  <2>1. Parties
    BY DEF IInv
  <2>2. ASSUME Through # {}, NEW c \in Clients PROVE client[c].pc # "idle"
    <3>1. PICK p \in Through : TRUE
      BY <2>2
    <3>2. Clearing # {}
      <4>1. CASE client[p].pc = "passed"
        BY <2>1, <4>1 DEF Parties, Through
      <4>2. CASE client[p].pc # "passed"
        BY <4>2 DEF Through, Clearing
      <4> QED BY <4>1, <4>2
    <3>3. PICK e \in Clearing : TRUE
      BY <3>2
    <3>4. CASE c = e
      BY <3>4 DEF Clearing
    <3>5. CASE c # e
      BY <2>1, <3>5 DEF Parties, Gone
    <3> QED BY <3>4, <3>5
  <2>3. ASSUME \A c \in Clients : client[c].pc # "idle" PROVE Cardinality(Clearing) = 1
    <3>1. PICK e \in Clearing : TRUE
      BY <2>1, <2>3 DEF Parties
    <3>2. Clearing = {e}
      BY <2>1 DEF Parties, Clearing, Gone
    <3> QED BY <3>2, FS_Singleton
  <2> QED BY <2>2, <2>3
<1> QED BY Initially, Inductive, <1>1, PTL DEF Spec
=============================================================================
