------------------------------ MODULE Results ------------------------------
(***************************************************************************)
(* Results of messages: when a worker stores them, how long each backend   *)
(* keeps them, and how a caller waits for those of a group of messages,    *)
(* pipelines and groups (results/, message.py:130, composition.py).  The   *)
(* broker matters in when an ack or a nack takes effect: for RabbitMQ it   *)
(* is first queued as a callback (brokers/rabbitmq.py:537).                *)
(*                                                                         *)
(* The clock counts ticks of half a second, so that durations in ms and in *)
(* whole seconds differ.                                                   *)
(***************************************************************************)
EXTENDS Naturals, FiniteSets, SequencesExt, Bags

CONSTANTS
  Ids,             \* messages
  Children,        \* the children of the group: kinds and ids of their messages
  Setups,          \* brokers, result backends, values of result_ttl and bounds
  Timeouts,        \* values of timeout
  DEFAULT_TIMEOUT, \* the timeout if none is given
  Delays,          \* delays between two polls (compute_backoff)
  MaxRetries,      \* max_retries of each message
  MaxTroubles,     \* most troubles of a setup: failures, crashes, lost connections
  MaxTime          \* most time of a setup

Second == 2
None == MaxTime + MaxTime

ASSUME ResultsAssumption ==
  /\ Children \in Seq([kind : {"message", "pipeline", "group"}, ids : Seq(Ids)])
  /\ \A k \in DOMAIN Children :
       /\ Children[k].ids # <<>>
       /\ Children[k].kind = "pipeline" => Len(Children[k].ids) <= 2
  /\ Setups \subseteq [broker  : {"redis", "rabbitmq"},
                       backend : {"redis", "memcached", "stub"}, ttl : Nat \ {0},
                       troubles : 0 .. MaxTroubles, time : 0 .. MaxTime] \* bounds
  /\ {DEFAULT_TIMEOUT, MaxTroubles, MaxTime} \subseteq Nat /\ MaxRetries \in [Ids -> Nat]
  /\ Timeouts \cup Delays \subseteq Nat \ {0}

VARIABLES
  setup,    \* the broker, the backend of Results, the result_ttl of the actors
  clock,
  stored,   \* the result of each message: value, when stored, when it expires
  jobs,     \* the bag of the copies of messages that are enqueued or being processed
  troubles, \* failures, crashes and lost connections so far
  again,    \* messages delivered again after one, and those that follow them
  reader    \* the caller

vars == <<setup, clock, stored, jobs, troubles, again, reader>>

Value == {"ok", "error"}
Job == [id      : Ids,
        state   : {"queued", "acking", "nacking", "nacked", "settled"},
        server  : {"keeps", "told", "done"}, \* told: the callback is still queued
        retries : Nat]
Reader == [pc    : {"idle", "next", "look", "missing", "sleep", "blocked", "count",
                    "returned", "failed", "timedout", "completed", "incomplete"},
           i     : Nat,                           \* what it is at
           count : Nat,                           \* completed children
           deadline : 0 .. None,                  \* of all it waits for, or None
           until : 0 .. None,                     \* of the message it waits for
           wake  : 0 .. None,                     \* the end of its sleep
           got   : SUBSET Ids]                    \* messages whose value it has

TypeOK ==
  /\ setup \in Setups /\ clock \in 0 .. MaxTime
  /\ stored \in [Ids -> [value : Value \cup {"none"}, at : 0 .. MaxTime, until : 0 .. None]]
  /\ IsABag(jobs) /\ BagToSet(jobs) \subseteq Job
  /\ troubles \in 0 .. MaxTroubles
  /\ again \subseteq Ids
  /\ reader \in Reader

(* In a pipeline (of at most two messages here) each is enqueued when the
   one before succeeded.                                                   *)
Follows(id, next) ==
  \E k \in DOMAIN Children :
    Children[k].kind = "pipeline" /\ Children[k].ids = <<id, next>>

Enqueued(id, retries) ==
  [id |-> id, state |-> "queued", server |-> "keeps", retries |-> retries]

Init ==
  /\ setup \in Setups /\ clock = 0
  /\ stored = [id \in Ids |-> [value |-> "none", at |-> 0, until |-> 0]]
  /\ jobs = SetToBag({Enqueued(id, 0) : id \in {i \in Ids : ~\E b \in Ids : Follows(b, i)}})
  /\ troubles = 0 /\ again = {}
  /\ reader = [pc |-> "idle", i |-> 1, count |-> 0, deadline |-> None,
               until |-> 0, wake |-> 0, got |-> {}]

-----------------------------------------------------------------------------
(* The backends.                                                           *)

Seconds(ticks) == (ticks \div Second) * Second

(* Mutant: Memcached is told of the ttl in ms as if it were in seconds.    *)
ExpiryInMs ==
  CASE setup.backend = "redis" -> clock + setup.ttl
    [] setup.backend = "stub" -> clock + Seconds(setup.ttl)
    [] OTHER -> clock + setup.ttl * Second

(* Redis expires keys by the millisecond.  The others are given whole
   seconds, and no seconds are no expiry for Memcached.                    *)
Expiry ==
  CASE setup.backend = "redis" -> clock + setup.ttl
    [] setup.backend = "stub" -> clock + Seconds(setup.ttl)
    [] OTHER -> IF Seconds(setup.ttl) = 0 THEN None ELSE clock + Seconds(setup.ttl)

Present(id) == stored[id].value # "none" /\ clock < stored[id].until

(* The messages whose results get_results reads, one after the other: all
   of those of a child that is a group, the last one of a pipeline.        *)
Parts(child) == IF child.kind = "pipeline" THEN <<Last(child.ids)>> ELSE child.ids
Wanted == FlattenSeq([k \in DOMAIN Children |-> Parts(Children[k])])

(* The value of a result, or its exception, as get_result gives it.        *)
Given(value) ==
  IF value = "error" THEN [reader EXCEPT !.pc = "failed"]
  ELSE [reader EXCEPT !.pc = "next", !.i = @ + 1, !.got = @ \cup {Wanted[reader.i]}]

(* A result replaces the one before it.  Redis serves a client that is
   blocked on the key with the command that stores.                        *)
Store(id, value) ==
  /\ stored' = [stored EXCEPT ![id] = [value |-> value, at |-> clock, until |-> Expiry]]
  /\ reader' = IF reader.pc = "blocked" /\ Wanted[reader.i] = id
               THEN Given(value) ELSE reader

-----------------------------------------------------------------------------
(* Workers.                                                                *)

(* Bound: nothing more happens once the caller has its answer, and only so
   many things go wrong.                                                   *)
Watched == reader.pc \in {"idle", "next", "look", "missing", "sleep", "blocked", "count"}

Become(job, new) == jobs' = (jobs (-) SetToBag({job})) (+) SetToBag(new)
Goto(job, state) == Become(job, {[job EXCEPT !.state = state]})
JobOnly == Watched /\ UNCHANGED <<setup, clock, troubles, again>>
Trouble == Watched /\ troubles < setup.troubles /\ troubles' = troubles + 1

(* The actor returns, or a middleware skips the message: the hooks store
   the value, or None, and enqueue the next message of a pipeline.         *)
Succeed(job) ==
  /\ job.state = "queued"
  /\ Store(job.id, "ok")
  /\ Become(job, {[job EXCEPT !.state = "acking"]} \cup
                 {Enqueued(next, 0) : next \in {i \in Ids : Follows(job.id, i)}})
  /\ JobOnly

(* A message that failed is enqueued again under its id, or failed for
   good: nothing is stored yet.                                            *)
Fail(job) ==
  /\ Trouble
  /\ job.state = "queued"
  /\ IF job.retries < MaxRetries[job.id]
     THEN Become(job, {[job EXCEPT !.state = "acking"],
                       Enqueued(job.id, job.retries + 1)})
     ELSE Goto(job, "nacking")
  /\ UNCHANGED <<setup, clock, stored, again, reader>>

(* The rest of a job that has come to a state: nothing, once its worker and
   the server have both done with it.                                      *)
Rest(job) == IF job.state = "settled" /\ job.server = "done" THEN {} ELSE {job}

(* What the consumer's ack or nack does: for RabbitMQ it queues a callback,
   if the tag is known.                                                    *)
Told(job) == IF setup.broker = "rabbitmq" /\ job.server = "keeps" THEN "told" ELSE "done"

(* Mutant: the exception is stored before the message is rejected.         *)
StoreThenNack(job) ==
  /\ JobOnly
  /\ \/ /\ job.state = "nacking" /\ stored[job.id].value # "error"
        /\ Store(job.id, "error") /\ UNCHANGED jobs
     \/ /\ \/ job.state = "acking"
           \/ job.state = "nacking" /\ stored[job.id].value = "error"
        /\ Become(job, Rest([job EXCEPT !.state = "settled", !.server = Told(job)]))
        /\ UNCHANGED <<stored, reader>>

(* A message is acked or rejected; after_nack stores the exception at once. *)
Settle(job) ==
  /\ JobOnly
  /\ \/ /\ job.state = "acking"
        /\ Become(job, Rest([job EXCEPT !.state = "settled", !.server = Told(job)]))
        /\ UNCHANGED <<stored, reader>>
     \/ /\ job.state = "nacking"
        /\ Become(job, {[job EXCEPT !.state = "nacked", !.server = Told(job)]})
        /\ UNCHANGED <<stored, reader>>
     \/ /\ job.state = "nacked"
        /\ Become(job, Rest([job EXCEPT !.state = "settled"]))
        /\ Store(job.id, "error")

(* The callback runs: only now has RabbitMQ settled the message.           *)
Callback(job) ==
  /\ job.server = "told"
  /\ Become(job, Rest([job EXCEPT !.server = "done"]))
  /\ JobOnly /\ UNCHANGED <<stored, reader>>

(* The server delivers a message again.                                    *)
Redelivers(job, left) ==
  /\ Become(job, left \cup {Enqueued(job.id, job.retries)})
  /\ again' = again \cup {job.id} \cup {id \in Ids : Follows(job.id, id)}

(* A worker crashes: what the server has not settled is delivered again.   *)
Crash(job) ==
  /\ Trouble
  /\ job # Enqueued(job.id, job.retries)
  /\ IF job.server = "done" THEN Become(job, {}) /\ UNCHANGED again
     ELSE Redelivers(job, {})
  /\ UNCHANGED <<setup, clock, stored, reader>>

(* The consumer's connection is lost, with the callbacks it had queued; the
   worker goes on with a message whose tag is no longer known.             *)
Lose(job) ==
  /\ Trouble
  /\ setup.broker = "rabbitmq" /\ job.server # "done"
  /\ Redelivers(job, Rest([job EXCEPT !.server = "done"]))
  /\ UNCHANGED <<setup, clock, stored, reader>>

-----------------------------------------------------------------------------
(* The caller.                                                             *)

ReaderOnly == UNCHANGED <<setup, clock, stored, jobs, troubles, again>>

(* group.wait(timeout) and group.get_results(block=True): one deadline for
   all, if a timeout was given.                                            *)
Wait(timeout) ==
  /\ reader.pc = "idle" /\ clock + timeout <= setup.time
  /\ reader' = [reader EXCEPT !.pc = "next", !.deadline = clock + timeout]
  /\ ReaderOnly

(* Without a timeout, each message is waited for as long as the default.   *)
WaitDefault ==
  /\ reader.pc = "idle" /\ clock + DEFAULT_TIMEOUT * Len(Wanted) <= setup.time
  /\ reader' = [reader EXCEPT !.pc = "next"]
  /\ ReaderOnly

(* Mutant: the whole timeout is given to every message.                    *)
RemainingAll == IF reader.deadline = None THEN DEFAULT_TIMEOUT
                ELSE CHOOSE timeout \in Timeouts : \A t \in Timeouts : t <= timeout

Remaining ==
  IF reader.deadline = None THEN DEFAULT_TIMEOUT
  ELSE IF reader.deadline > clock THEN reader.deadline - clock ELSE 0

(* Redis blocks for whole seconds.                                         *)
NextResult ==
  /\ reader.pc = "next"
  /\ reader' = IF reader.i > Len(Wanted) THEN [reader EXCEPT !.pc = "returned"]
               ELSE [reader EXCEPT !.pc = "look",
                       !.until = clock + IF setup.backend = "redis" THEN Seconds(Remaining)
                                         ELSE Remaining]
  /\ ReaderOnly

(* Mutant: once the time is over, a poll does not look any more.           *)
LookInTime ==
  /\ reader.pc = "look"
  /\ LET id == Wanted[reader.i] IN
     \/ clock >= reader.until /\ reader' = [reader EXCEPT !.pc = "timedout"]
     \/ clock < reader.until /\ Present(id) /\ reader' = Given(stored[id].value)
     \/ clock < reader.until /\ ~Present(id)
        /\ reader' = [reader EXCEPT
             !.pc = IF setup.backend = "redis" THEN "blocked" ELSE "missing"]
  /\ ReaderOnly

(* The result is there; or Redis blocks, unless there is no time to.       *)
Look ==
  /\ reader.pc = "look"
  /\ LET id == Wanted[reader.i] IN
     \/ Present(id) /\ reader' = Given(stored[id].value)
     \/ /\ ~Present(id) /\ setup.backend = "redis"
        /\ reader' = [reader EXCEPT !.pc = IF reader.until > clock
                                           THEN "blocked" ELSE "timedout"]
     \/ /\ ~Present(id) /\ setup.backend # "redis"
        /\ reader' = [reader EXCEPT !.pc = "missing"]
  /\ ReaderOnly

(* The other backends sleep, unless that takes longer than there is time.  *)
Backoff ==
  /\ reader.pc = "missing"
  /\ \E delay \in Delays :
       reader' = IF clock + delay > reader.until
                 THEN [reader EXCEPT !.pc = "timedout"]
                 ELSE [reader EXCEPT !.pc = "sleep", !.wake = clock + delay]
  /\ ReaderOnly

Wake ==
  /\ reader.pc = "sleep" /\ clock >= reader.wake
  /\ reader' = [reader EXCEPT !.pc = "look"]
  /\ ReaderOnly

BlockTimesOut ==
  /\ reader.pc = "blocked" /\ clock >= reader.until
  /\ reader' = [reader EXCEPT !.pc = "timedout"]
  /\ ReaderOnly

Completed ==
  /\ reader.pc = "idle" /\ reader' = [reader EXCEPT !.pc = "count"]
  /\ ReaderOnly

(* completed_count, child by child.  get_results of a child that is a group
   is a generator, which nobody runs, and an exception that was stored is
   raised.                                                                 *)
CountNext ==
  /\ reader.pc = "count"
  /\ IF reader.i > Len(Children)
     THEN reader' = [reader EXCEPT
            !.pc = IF reader.count = Len(Children) THEN "completed" ELSE "incomplete"]
     ELSE LET child == Children[reader.i]
              id == Last(child.ids)
              counted == [reader EXCEPT !.i = @ + 1, !.count = @ + 1]
          IN  reader' = IF child.kind = "group" THEN counted
                        ELSE IF ~Present(id) THEN [reader EXCEPT !.i = @ + 1]
                        ELSE IF stored[id].value = "error"
                        THEN [reader EXCEPT !.pc = "failed"]
                        ELSE counted
  /\ ReaderOnly

(* Time passes, but not while the caller has something to do.              *)
Waiting == \/ reader.pc = "idle"
           \/ reader.pc = "sleep" /\ clock < reader.wake
           \/ reader.pc = "blocked" /\ clock < reader.until
Tick ==
  /\ clock < setup.time /\ Waiting
  /\ clock' = clock + 1
  /\ UNCHANGED <<setup, stored, jobs, troubles, again, reader>>

ReaderStep == NextResult \/ Look \/ Backoff \/ Wake \/ BlockTimesOut \/ CountNext
Next == \/ \E job \in BagToSet(jobs) : \/ Succeed(job) \/ Fail(job) \/ Settle(job)
                                       \/ Callback(job) \/ Crash(job) \/ Lose(job)
        \/ \E timeout \in Timeouts : Wait(timeout)
        \/ WaitDefault \/ Completed \/ ReaderStep \/ Tick

Spec == Init /\ [][Next]_vars

-----------------------------------------------------------------------------
(* Properties.                                                             *)

(* A caller is told that a message failed only when it has no run left: not
   for a failure that is retried, nor before the rejection of its message,
   which has taken effect with Redis, while for RabbitMQ it is at least
   queued: a crash or a lost connection undoes it although the caller was
   told (results/middleware.py:113, brokers/rabbitmq.py:569).  Excused are
   messages that a crash or a lost connection, of theirs or of the one before
   in their pipeline, makes run again.                                     *)
FailureIsFinal ==
  /\ TypeOK
  /\ \A job \in BagToSet(jobs) :
       stored[job.id].value = "error" /\ job.id \notin again =>
         \/ job.state = "acking"
         \/ job.state = "settled" /\ setup.broker = "rabbitmq"

(* What a caller gets was stored less than result_ttl ago ("the maximum
   amount of time the result may be stored", results/backend.py:134), except
   from Memcached with a ttl of less than a second.                        *)
ResultsExpire ==
  [][\A id \in reader'.got \ reader.got :
       \/ clock < stored'[id].at + setup.ttl
       \/ setup.backend = "memcached" /\ setup.ttl < Second]_vars

(* A caller that gave a timeout waits no longer, for however many messages
   and with whatever delays between two polls (composition.py:345).        *)
WaitsInTime ==
  reader.deadline # None /\ reader.pc \in {"next", "look", "missing", "sleep", "blocked"} =>
    clock <= reader.deadline

(* When a caller times out on a message, its result is not there, unless it
   came as a backend that polls had just looked (results/backend.py:111); when wait() returns, it has seen that every message that
   counts succeeded; and when a group is completed, all its children have had
   a result, but for those that are groups (composition.py:253).           *)
NoResultMissed ==
  [][/\ reader'.pc = "timedout" /\ reader.pc # "timedout" =>
          \/ ~Present(Wanted[reader.i])
          \/ setup.backend # "redis" /\ stored[Wanted[reader.i]].at = clock
     /\ reader'.pc = "returned" => reader.got = ToSet(Wanted)
     /\ reader'.pc = "completed" =>
          \A k \in DOMAIN Children : Children[k].kind # "group" =>
            stored[Last(Children[k].ids)].value # "none"]_vars
=============================================================================
