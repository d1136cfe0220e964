# A TLA+ model of dramatiq

dramatiq runs functions ("actors") in the background: a process *sends* a
message to a *broker* (Redis, RabbitMQ, or a stub for tests), and *worker*
processes fetch messages, run the actor and acknowledge. Messages are
delivered at least once: what a worker had when it died is delivered again.
These modules model the parts in which that promise, and those built on it
(retries, pipelines, groups with callbacks, results, rate limits), could break
when processes, threads, signals, failing calls and crashes interleave.

Paths are relative to the repository; `dramatiq/worker.py:400` means a line.

## 1. The system

| Component | State it keeps | Operations | Talks to |
|---|---|---|---|
| Redis script, `brokers/redis/dispatch.lua` | per queue a list of ids and a hash of messages; per worker and queue a set of acks; heartbeats; dead letters | enqueue, fetch, requeue, ack, nack, purge, qsize; before each a heartbeat and, now and then, maintenance | called by Redis brokers, atomically |
| Redis broker and consumer, `brokers/redis.py` | broker id, cache of fetched messages, ids handed on | enqueue, `__next__`, ack, nack, requeue, flush, join | the script; the worker's threads |
| RabbitMQ broker and consumer, `brokers/rabbitmq.py` | pending queues; a connection and a channel per thread; in a consumer known delivery tags, callbacks to run | enqueue with retries, declare, flush, join, close; `__next__`, ack, nack | the server; worker threads call `ack` while the consumer thread owns the connection |
| Stub broker, `brokers/stub.py` | standard-library queues with unfinished counts, a semaphore per consumer, dead letters | enqueue, `__next__`, ack, nack, flush, join | tests and a worker in one process |
| Worker, `worker.py` | work queue, per queue a delay queue, flags `running`, `paused`, events | the loops of consumer and worker threads; start, pause, resume, stop, join | the broker's consumers; middleware hooks |
| Middleware, `broker.py`, `middleware/` | little of their own | before/after hooks, run one after the other, exceptions swallowed | enqueue (Retries, Pipelines, GroupCallbacks), interrupts (TimeLimit, Shutdown) |
| Composition, `composition.py` | messages linked by `pipe_target`; a barrier per run of a group | `pipeline.run`, `group.run`, results | broker, rate limiter backend, results |
| Rate limiters and barriers, `rate_limits/` | counters with an expiry on Redis, Memcached or in memory | acquire, release; create, wait | commands to the server |
| Results, `results/` | a value or an exception per message, with an expiry | store, get (blocking or polling) | a hook stores, any process reads |
| Interrupts, `middleware/time_limit.py`, `shutdown.py`, `threading.py`, `asyncio.py` | deadlines per thread, threads to notify, an event loop thread | raise an exception in another thread | worker threads, anywhere in their code |
| Command line, `cli.py`, `canteen.py`, `watcher.py` | child processes, a shared list of forks, flags set by signals | start, supervise, stop, reload | worker processes |

What is hard in each, and the properties that make it correct:

* **Redis queues.** Many workers on one store, some of them dead, late or cut
  off from the replies to their commands. A message must stay reachable, be in
  one place, belong to one live worker, and once settled never return.
* **Worker.** Consumer threads, worker threads and the main thread share
  queues and flags. A message must be settled exactly when its job is done or
  handed over to a copy, whatever call fails and whenever the worker is paused
  or stopped.
* **RabbitMQ.** Acknowledgements are made by worker threads, carried out later
  by the thread that owns the connection, and name a delivery only by a number
  that starts again on every channel.
* **Stub broker.** `join()` must neither return early nor wait for ever.
* **Rate limits.** Read-modify-write over several commands with expiring keys.
* **Composition.** A chain of hooks that a crash or an interrupt cuts anywhere,
  after which part of them runs again.
* **Results.** A caller that polls, or blocks, for values that are stored,
  overwritten by a retry and expire meanwhile, with one deadline for many.
* **Interrupts.** Exceptions that another thread raises at any instruction: in
  an actor, in a hook, in an exception handler, between two messages, or while
  waiting for a coroutine.
* **Command line.** Signals at any moment of start-up and shutdown, to one
  process or to all; children that die; memory, a lock and pipes they share.

`PROJECT.json` lists the hazards by line, each with the properties aimed at it.

## 2. The modules

| Module | Models | Composes |
|---|---|---|
| `MessageQueue` | abstract: what a broker with acks promises of each message | - |
| `RedisStore` | the state of the Redis server and each command as an operator from store to store | - |
| `RedisQueue` | several brokers calling the script, with crashes, lost replies, time | `RedisStore`; refines `MessageQueue` |
| `Worker` | one worker process: its threads, over the Redis consumer | `RedisStore` |
| `RabbitmqPublisher` | threads that call a RabbitMQ broker: enqueue, flush, join, and the server | - |
| `RabbitmqBroker` | a worker of that broker: consumer thread, worker threads | extends `RabbitmqPublisher` |
| `StubBroker` | the test broker with a worker and a test that joins | - |
| `RateLimits` | three limiters and the barrier on three backends | - |
| `Composition` | a group of pipelines with a callback and the hooks that carry it | takes the queue and the barrier at the level of what they promise |
| `Results` | workers that store results, and a caller that waits for them | takes the queue at the level of what it promises |
| `Interrupts` | worker threads, the two monitors, the event loop, a shutdown | - |
| `CommandLine` | the main process, workers, forks, what they share, signals | takes a worker's threads as one step |
| `RedisStoreProofs` | lemmas: what each command of `RedisStore` changes | `RedisStore`, TLAPS |
| `RedisQueueProofs` | theorems about `RedisQueue`; that it implements `MessageQueue` | `RedisQueue`, `RedisStoreProofs` |
| `WorkerProofs` | theorems about `Worker` | `Worker`, `RedisStoreProofs` |
| `RabbitmqBrokerProofs` | theorems about `RabbitmqBroker` and the threads that publish | `RabbitmqBroker`, TLAPS |
| `InterruptsProofs` | theorems about `Interrupts` | `Interrupts`, TLAPS |
| `StubBrokerProofs` | theorems about `StubBroker` | `StubBroker`, TLAPS |
| `CompositionProofs` | theorems about `Composition` | `Composition`, TLAPS |
| `RateLimitsProofs` | theorems about `RateLimits` | `RateLimits`, TLAPS |
| `MC...` | constants for TLC | one module each |

### RedisStore and RedisQueue

A store is a record with one field per kind of key. The commands are operators
(`Enqueued`, `Fetched`, `Requeued`, `Acknowledged`, `Nacked`, `Purged`), and
`Prologue` is what happens before a command: the caller's heartbeat, and, if
`_should_do_maintenance` drew it, maintenance of that queue. Redis runs a
script as one step, so each command is one action. Where the script iterates
over a set (`smembers`), every order is possible.

`RedisQueue` adds the clients: a broker in `alive` may send any command its
consumer can; `held` is what it believes it holds; if `Lossy`, a command may run
on the server without its reply arriving (`Replies`), after which the client
tries again or forgets (`Forget`). Heartbeats and the age of dead letters are
kept as ages that stop growing at the bound past which the code treats them
alike. A crash (`Crash`) ends a broker without a word to the server.

`MessageQueue` is the promise: a message is held by at most one consumer, stays
stored until its holder settles it, and is taken from a holder only when that
one gave it back or lapsed. `KeepsPromise` is the refinement, under the mapping
`Status`, `Holder` and `Dead`.

### Worker

A job is what a caller of `send()` asked for; a delayed message is moved to its
queue as a copy and a retry is a delayed copy, so several messages carry a job
one after the other. Each consumer thread is a record with a program counter
for the points of `ConsumerThread.run` between which others can act; calls to the
server are one action, which may fail before or after the server ran them
(`Works`, `Breaks`). `main` follows `pause`, `resume` and `stop` statement by
statement where threads can interleave: it tells one child after another
(`TellChild`, `ClearEvent`, `StopChild`), so that one may see its flag while the next
does not yet, and `stop()` takes the messages off the work queue one by one
(`DrainWork`) before it gives them back queue by queue (`RequeueWork`). Every thread
has its own `running` and `paused` flags, as in the code: `run()` sets the first and
`stop()` clears it. A worker thread looks at them in one step and gets a message in
the next, which may come after a pause or a stop (`ThreadTop`, `ThreadGet`). `queued`
is `queued_message_ids`: it has the `message_id`, that is the job, which a delayed copy
and a retry share with the message they replace. A *setup*, fixed at the
start, says which messages do not decode or name no actor, how often the worker
may be paused and calls may fail, whether `stop()` gives up waiting
(`impatient`) and whether it may come before the threads run (`early`). Actors
either succeed or fail; failures lead through Retries. A retry whose enqueue fails
is lost, since `emit_after` swallows the exception and the message is acked: its
job is then in `unretried`.

### RabbitmqPublisher and RabbitmqBroker

The server is modelled from its use in `brokers/rabbitmq.py` and marked as
external: queue contents, unacked deliveries by tag, return of the unacked on a
closed channel. `link` has each thread's connection and channel as the facts that
the code can tell apart: which exist, whether they were recorded, whether the
channel is open. An error can come between any two of the steps that make them
so. `pending` is `queues_pending`, which all threads share, and
`CloseBroker` may close every connection under their feet.

`ack` and `nack` only append a callback; `RunCallback` runs them in order on the
connection. `Post` uses the consumer there is at that moment, as
`process_message` does, which is where tags of an earlier channel meet a new one.

### StubBroker

`unfinished` is the count the standard library keeps for `join`; `moved`
records that a delayed message was moved back while `join()` was between its two
looks, the one known way it can return early. A flush takes the messages off one
at a time, so that threads and consumers get some of them meanwhile.

### RateLimits

A behaviour has one limiter on one backend. Commands are single actions:
`Begin`, `Add`, `Incr` for counters, `Read`, `Sum`, `Exec` for the window, whose
optimistic lock is `dirty`. Single-key WATCH/MULTI loops are one action, because
EXEC fails if the key changed and the loop starts over. The clock counts
seconds; `slow` records that some client took longer than the limiter allows
for.

### Composition

`todo` is what a worker has yet to go through of the hooks of `emit_after`, in the
order of the middleware (`Rank`), without those that return at once for a message
(`Acts`). Each middleware is there at most once: `add_middleware` warns that a second
one of the same class "may have unexpected results" (`broker.py:158`), and with two
`GroupCallbacks` every child would count the barrier down twice. Between any two of them
a crash or an interrupt may come. The queue is taken as `RedisQueue` and
`MessageQueue` show it to be (what a dead worker had comes back), the barrier as
`RateLimits` does.

### Results

Workers take, finish, settle and, after a crash, take again the messages of a
group whose children are a pipeline and a group (`Succeed`, `Fail`, `Settle`,
`Crash`). A caller follows `get_results` of the group, result by result, or
`completed_count`, child by child. An ack or a nack takes effect at once with Redis;
for RabbitMQ it queues a callback (`Settle`, `Callback`), which is lost with the
connection (`Lose`): the worker then goes on with a message that the server delivers
again. A backend that polls looks and then compares the time (`Look`, `Backoff`). Time is in half seconds (`Second` is 2), because
Memcached keeps whole seconds; it passes only while the caller waits.

### Interrupts

A thread goes through the hooks of `emit_before`, the actor, and those of
`emit_after`, in the order of the middleware. A monitor sets an exception for a
thread (`pending`), which `Deliver` raises wherever the thread then is; what
catches it there is what catches it in the code. With gevent, the exception of a
time limit is raised in the greenlet itself, by a timer (`Expire`) that goes on to drop
what the manager has for the greenlet only when that waits for something (`Drop`):
until then nothing else runs (`Runs`), and what is dropped may be the timer of the next
message (`stray`). A coroutine is queued one step before the `try` that cancels it is
entered (`Call`, `Await`). The iteration of `shutdown()` is
step by step (`NotifyNext`) while threads change the set. The hooks that a thread
has yet to call are `todo`, places in the order of the middleware, in which each
middleware occurs once.

### CommandLine

`main` is a program counter over `main()` and the signals it has not handled;
each worker process goes from its fork to its exit, with its flags, its exit
code, and the pipe that its log goes through. `canteen` is the shared memory
with its lock. After a reload `main` starts again with the same pid; the forks
it told to stop stay in `forks`, marked `old`.

## 3. What is checked

Every property has a mutant in `PROJECT.json`: a change to one definition, of
the kind a bug in that code would be, which makes TLC find the property
violated. The mutated forms stand next to the definitions, marked "Mutant".

| Run | Question | Bounds |
|---|---|---|
| `redis_safety` | does the store stay consistent, and keep the promise, through any interleaving of two brokers that may both crash or be cut off? | 2 messages, a queue and its delay queue, prefetch 2, heartbeat age up to 2 |
| `redis_liveness` | is every message settled if one worker survives? | one broker of two may crash, prefetch 1 |
| `worker` | is a job ever lost, held twice or forgotten by a worker that is paused, stopped, or has failing calls? | 1 thread, 2 jobs, 4 messages, prefetch 2 (1 on the delay queue), 1 stop; in turn 1 pause; 1 job, 2 pauses; 1 job, a pause and 2 failing calls; an unknown actor and a failing call; 2 failing calls, a poison message and an impatient stop; 1 retry |
| `worker_liveness` | does every job finish, is none lost through a retry, and does `stop()` end? | 1 job, 1 retry, prefetch 1, 1 stop; in turn 1 pause; 1 failing call and a stop that may come before the threads run |
| `rabbitmq` | are jobs kept, tags valid, queues restored, and do calls do what they say? | any 2 of fault, pause, crash, close, deletion; 5 messages; a sender and a worker, or two senders with 2 calls of flush or join |
| `rate_limits` | do the limits hold on each backend, and do barriers open once? | 3 clients, limit 2, ttl and interval of 2 seconds |
| `stub_broker` | does `join()` wait for what it should, and end? | 2 jobs, 2 retries, 2 threads, 1 replaced consumer per queue |
| `composition` | do callbacks, pipelines and results come in order, once, and at all? | a pipeline of 2 and a message, 1 retry, any 2 of crash, interrupt, failing enqueue, failing store |
| `results` | is a caller told what is so, in time? | a pipeline of 2 and a group of 1, 1 retry, 3 backends, 4 half seconds, a `result_ttl` of 3 of them, or 1 with Memcached; 2 troubles, with RabbitMQ 1, or 2 while time stands still |
| `interrupts` | is everything in order after an exception anywhere? | 2 threads, 2 messages, 4 setups |
| `command_line` | do forks start, workers end and main end or reload as they should? | 2 workers, 1 fork, 2 signals, 1 trouble |
| `rabbitmq_stale_tag` | *violated*: a stale tag acks another message | as the worker of `rabbitmq` |

Why the bounds are enough for the cases they are about: two brokers suffice for
a live and a dead one, or for a late one and its successor, with two messages for
order and for batches in requeue and maintenance; a job goes through at most four
messages with one retry (delayed copy, copy, and again), and two jobs let one
meet the other's tag or slot; three clients on a limit of two give one refused
client and two racing for the last slot, and a barrier with one arrival before
and one after any given one; two faults let a recovery be interrupted once, and with two threads one of them
may take what the other needs. Three attempts to enqueue, where the code has six,
differ from the two of a declaration as those do. A second signal is the one that
kills; a third finds what the second does. Two messages on a thread are enough
for what one leaves behind for the next; two threads, for a set that changes
under an iteration. Four half seconds let a result expire on each backend if its ttl
is a second or more, and a caller's timeout end before and after. The clock of
`RateLimits` stops after the first second in which a client was slow (each property
excuses those), and `MaxTime` gives each key time to live, expire and live again.

Deadlock is checked in `RedisQueue` and `StubBroker`, whose actors can always
go on. The others really stop: a worker that was stopped, jobs that are all
finished with no events left, a main process that ended, a caller that got its
results, a limiter at the end of its clock.

### What the properties say

* `RedisQueue`. `Safety` is the consistency of the store: a stored message is on
  the list or in the acks of one worker, what is on a list is stored, acks imply
  a heartbeat, dead letters are apart, everything is at home. `SettledForGood`: no
  late command brings a settled message back. `OnlyTheDeadLoseAcks`: nobody's
  message is taken before its heartbeat is too old, and a late worker's own command
  does not give its messages away. `InOrder`: every list is first in, first out: what
  is new, given back or recovered goes behind what waits. `KeepsPromise`: the
  refinement of `MessageQueue`. `EventuallySettled`: at-least-once delivery.
* `Worker`. `NoJobLost`: a job is finished or a message in the store carries it,
  unless its retry could not be enqueued; `worker` checks it with two failing calls or
  a retry, `worker_liveness` with a retry and a failing call or a pause.
  `HeldOnce`: a message the process holds is in one place and not on the server's
  list. `NoneForgotten`: as long as no call failed, the server never counts as fetched
  what no thread has, and after `stop()` only a consumer's cache is still held. `PausedIsQuiet`: after
  `pause()` nothing runs. `WithinPrefetch`: also across the hand-over to the work
  queue, for messages that are no retries on their queue. `JobsFinish`, `StopEnds`: liveness.
* `RabbitmqBroker`. `TagsAreValid`: the tags a consumer knows, with those of the acks
  under way, are exactly the channel's unacked deliveries. `NoJobLost`: a job is
  finished or on the server; once a consumer was replaced, whose tags the next one
  may mistake for its own, at least in the memory of a process that goes on.
  `JobsFinish`: every job is finished but for such a loss. `CallsHold`: `enqueue`
  raises only after as many failures as it has attempts, whatever the other
  threads do to what they share, and `flush` drops what there was.
* `RateLimits`. `LimitsHold`: concurrent, bucket and window limiters let no more
  through than their limit, and the concurrent counter is the number of holders; on
  Memcached, whose increments leave a key its old ttl, the concurrent limiter only for
  its first ttl, and the counter at least the holders, since refusals stay counted.
  `BarrierHolds`: nobody passes before the last party arrives, and exactly one
  clears it. `BarrierOpens`: those that block get through.
* `StubBroker`. `Counts`: what `join()` waits for is what is not done, and prefetch
  slots are neither lost nor made. `JoinWaits`: it does not return before, and
  raises if a message failed. `JoinEnds`: it returns.
* `Composition`. `CallbackOnce`: the callback of a group comes after its jobs, once
  but for redeliveries. `ResultsBeforeNext`: a pipeline's next message finds the
  result before it, unless storing that raised. `GroupGoesOn`: the callback runs, the
  pipeline goes on, every message ends.
* `Results`. `FailureIsFinal`: a caller learns only of failures that are final, with
  RabbitMQ of those whose rejection is queued.
  `WaitsInTime`: it waits no longer than its timeout over all results together.
  `ResultsExpire`: it gets nothing older than `result_ttl`, if that is a second or
  more with Memcached. `NoResultMissed`: it times out only if the result is not there
  even then, or came after a poll's last look, and counts what is there.
* `Interrupts`. `NothingLeftBehind`: no deadline that its manager knows, registration
  or gauge survives its message; only gevent leaves timers that nobody knows.
  `AckedIsDone`: an interrupt never makes a message look done. `CoroutinesEnd`: a
  message is settled after its coroutine, unless waiting for it was given up or not
  begun. `HungActorsEnd`, `StopEnds`: actors that hang are interrupted, and a shutdown ends.
* `CommandLine`. `ForksAreRight`: forks start when the workers have booted, each
  once. `EndsWell`: nobody is killed who was not asked twice, nothing outlives
  main, and its exit code says what it saw. `Stops`: after a signal, or the exit of
  a worker, everything ends or reloads.

### Fairness

* `RedisQueue`: brokers that run poll at least every `worker_timeout` and settle
  what they hold (weak fairness). A worker that never crashes also draws
  maintenance again and again (the chance is one in a thousand per command) and
  is not always beaten to the same message or always closed in between: strong
  fairness on its fetches that maintain or return something, and on its acks.
  `Punctual` assumes that a running broker's commands come within the heartbeat
  timeout (a minute by default).
* `Worker`: threads keep running and actors return (weak); a delayed message's
  eta passes and the loop notices it (strong, since the loop looks between other
  steps).
* `RabbitmqBroker`, `StubBroker`, `Composition`: threads, publishers and `join`
  keep running (weak). No fault is ever assumed to happen.
* `Interrupts`: threads, the manager or its timers, and the event loop keep running, a
  deadline that passed is noticed, an exception that was set is raised, a coroutine that
  is cancelled cleans up (weak). Actors need never end.
* `CommandLine`: main, each worker, and forks keep running, and main handles a
  signal (weak): Python runs handlers between instructions. Signals, deaths and
  reading of logs that are full are not assumed.
* `Results` needs none: its properties are about what may not happen.
* `RateLimits`: a party that has begun to wait or to notify goes on (weak).
  Clients need never arrive, and need never release.

### Disagreements found

One has a run of its own, `rabbitmq_stale_tag`: **an ack can hit another message**.
After a pause or a connection error, the tag of an old delivery is looked up in
the new consumer's `known_tags` and may match; the other message is acked while it
waits in the work queue, against `docs/source/advanced.rst:174`.

The others were met while modelling. Each is an explicit excuse in a property,
without which TLC finds it violated, or a choice that an action offers.

* *Redis, worker.* A consumer's cache is not returned at a graceful shutdown
  (`brokers/redis.py:298`, against `advanced.rst:171`). A consumer thread dies when
  `close()` meets a connection error (`redis.py:332`, `worker.py:339`), although
  `worker.py:335` says it is restarted. Delayed messages dropped on a connection
  error (`worker.py:327`), and a message that does not decode with its neighbours in
  the cache, come back only when the process dies. After a pause the prefetch
  does not count what the earlier consumer handed out. A retry that is fetched before
  its original is acked shares its `message_id`: the two count as one, and the ack of
  the original ends the count of both (`redis.py:315`, `324`, `353`), so that more than
  the prefetch may be in progress (against `docs/source/reference.rst:287`). A `stop()` before a thread's
  `run()` has set `running` is not heard (`worker.py:298`).
* *Retries.* If the connection fails while Retries enqueues the retry, the hook's
  exception is logged and dropped and the message is acked: a retry is lost
  (`middleware/retries.py:148`, against `advanced.rst:174`).
* *RabbitMQ.* `enqueue` raises a `KeyError`, where its documentation says
  `ConnectionClosed`, if an error comes between making a channel and recording it
  (`rabbitmq.py:193`). `flush` and `join` do not recover from a closed connection.
  A deleted queue can cost each calling thread an attempt.
* *Rate limits.* The window limiter watches one set of keys on Redis and sums
  another, worked out later (`rate_limits/backends/redis.py:86`): a second that
  begins in between can let one more through. A refused increment on Memcached
  uses up a slot until the key expires, and one that succeeds leaves the key the ttl
  it was added with (`backends/memcached.py:53`; Redis renews it, `backends/redis.py:59`):
  a concurrent limiter whose first holder came a ttl ago starts to count anew, beside
  those who came later and still hold, against "ensures that only `limit` concurrent
  operations may happen" (`concurrent.py:24`). The stub backend's barrier loses a
  wake-up (`rate_limits/backends/stub.py:73`).
* *Composition, results.* The callback of a group may come early, or twice, when a
  message that counted it down is delivered again (`composition.py:204`).
  If storing a result raises, `emit_after` logs that and goes on (`broker.py:126`): the
  next message of a pipeline is enqueued, and the result before it is never there.
  `completed_count` counts every child that is a group as completed
  (`composition.py:253`), and raises for a failed message. Memcached keeps a result
  with a ttl of less than a second for ever. `get_results` of a group without a
  timeout waits the default for each child. A crash between nack and
  `after_nack` leaves a caller without the failure. With RabbitMQ `after_nack` stores
  the exception when the nack is only queued (`rabbitmq.py:569`): a crash before it is
  sent, or a tag that is no longer known (`rabbitmq.py:564`), makes the message run
  again after its caller was told that it failed. A poll misses a result that comes
  between its last look and its check of the time (`results/backend.py:111`).
* *Interrupts.* One that arrives while `process_message` handles an exception
  (`worker.py:600`) acks the message without a retry and ends the thread. One
  that comes while a coroutine is being cancelled, or between queueing it and the
  `try` (`asyncio.py:142`), leaves it running. With gevent, a timer that expired drops
  what the manager has for its greenlet when that first waits, which may be the timer
  of the next message: nobody closes that one (`time_limit.py:184`). The
  iteration of `shutdown()` ends early if the set changes (`shutdown.py:128`), and
  messages that start after it are not notified.
* *Command line.* Forks start early if the last worker dies at boot
  (`cli.py:587`). A worker that exits while main is at another one may leave
  main with exit code 0 (`cli.py:674`). A `TERM` to the group is a worker's
  first signal and main's its second, which kills it. A `HUP` after a `TERM`
  reloads. A signal before the worker has a logger is a `NameError` in its
  handler. A worker that dies with the lock of the canteen, or waits with it
  for its log to be read, keeps all from ending.

## 4. What is proved

The theorems hold for any value of the constants that meets the named assumptions
of the modules; a run shows the same property on one instance. Every theorem
follows one pattern: an invariant `IInv` (or its parts) that contains the property,
`Init => IInv`, and one lemma per action and part that the action can disturb.

### RedisQueue

For any finite set of ids, any workers and queues with their canonical names,
prefetch, timeouts, lossy connections and punctual brokers (`IdsAssumption`,
`CanonicalAssumption`, `TimesAssumption`, `ClientAssumption`):

| Theorem | Property |
|---|---|
| `StoreSafe` | `Safety`: the type invariant, `NothingStranded`, `NoneFetched`, `OnePlace`, `AcksHaveHeartbeat`, `DeadLettersApart`, `AtHome` |
| `NoMessageStranded` | its part `NothingStranded`: a stored message is on the list or in some worker's acks |
| `OnePlaceOnly` | its part `OnePlace`: and only in one of these places, once |
| `StaysSettled` | `SettledForGood`: no late command brings a settled message back |
| `AcksAreSafe` | `OnlyTheDeadLoseAcks` |
| `ListsInOrder` | `InOrder`: what leaves a list leaves its head, what joins it goes behind what stays |
| `RefinesPromise` | `KeepsPromise`: the store implements `MessageQueue` |

The inductive invariant is `IInv == TypeOK /\ Consistent(store, home)`. None of
the six invariants is inductive alone: a fetch strands nothing only if what is on
the list is stored (`NoneFetched`); maintenance keeps ids in one place only if no
two workers have the same id; an ack that succeeds removes the only reference to
a message because of `OnePlace`; a new id is in no place because everything is
`AtHome`. The proof goes command by command: one lemma per operator of
`RedisStore` states that it preserves `Consistent` under the guard its callers
have, with two frame lemmas for what a command leaves alone on the other queues;
`Inductive` combines them over `Next`. The action properties follow from the
invariant and the same case split; `InOrder` needs `OnePlace` and `AtHome` for what
joins a list not to be on it. TLC checks `IInv`'s parts in `redis_safety`.
What a command does to lists, sequences and sets is proved once, in
`RedisStoreProofs` (`Joined`, `Taken`, `Returned`, `Settled`), for `Worker` too.

The refinement is proved message by message: `Mapping` gives the status and the
holder of a message by the queue it is at home on, `SameWhen` says when a step is a
stutter of the promise, and one lemma per action says which step it is for the
messages it touches. The mapping needs the invariant twice: a holder is unique because
of `OnePlace`, and a message given back by maintenance belongs to a lapsed worker.

### Worker

For any finite sets of ids and of jobs, any threads, queues of which each has a delay
queue, prefetch, stops and setups, so any number of pauses, retries and failing calls (`WorkerAssumption` and those of `RedisStore`):

| Theorem | Property |
|---|---|
| `HeldInOnePlace` | `HeldOnce` |
| `PausedQuiet` | `PausedIsQuiet` |
| `JobsKept` | `NoJobLost` |
| `NothingForgotten` | `NoneForgotten` |
| `PrefetchKept` | `WithinPrefetch` |

`In(n, p, id)` says that a message of queue `n` is in place `p`: the consumer's
cache, its hand, the delay queue, the work queue or a thread. The invariant is in
layers, each proved from those above it:

* `Placed`: types, `Stages` (a message is in hand exactly at the points of the code
  that have one; what is delayed is counted in `pending`), `Known` (what is
  somewhere carries a job, so that a fresh id is nowhere), `Custody` and `Distinct`
  (one place at most, not on the list as well, each once). `HeldOnce` is not
  inductive: a message moves from one place to the next only if it was in no third.
* `Alive`, for `NoJobLost`: a job that is not over is carried by a message in the
  store that no thread is about to ack. A message about to be acked is `Doomed`: the
  ack may have run on the server although the call failed and is made again. The
  copy, or the retry, is in the store before that; with `Custody`, no other thread
  acks the copy.
* `Kept` and `Ends`, for `NoneForgotten`: every ack of the server is in some place;
  a consumer that starts anew had an empty cache; and stage by stage of `stop()`,
  which threads have ended and which places are empty.
* `Quiet`, for `PausedIsQuiet`: a child whose flag is set and whose event has been
  cleared since signals only when it is at the top of its loop or at rest; which flags
  and events these are follows from how far `main` has got (`toTell`, `toClear`).
* `Counted`, for `WithinPrefetch`: the job of each message in progress that is no retry
  on its queue is in `queued`, and `queued` and the cache together are within the
  prefetch; nothing of a queue is held when its consumer starts. Since `queued` has jobs
  and not messages, this rests on three more parts: `Sorted` (threads have messages of
  the queues proper, delay queues hold delayed ones), `Single` (of the messages of a job,
  held or on a list, at most one has not been replaced by a copy or a retry) and
  `AckAlone` (a consumer that acks what it copied holds no other message of the job).
  So the ack of one message does not take another that counts out of `queued`, and there
  are no more such messages than entries.

Two things came out of the attempt. A retry that cannot be enqueued loses its job
also in `Worker` (`unretried`); and `NoneForgotten` holds during the whole of `stop()`,
not only before it.

### RabbitmqBroker

For any finite set of senders, threads, finite sets of jobs and of ids with one id
left for each job and event, attempts of at least one, prefetch and setups (`PublisherAssumption`,
`RabbitmqAssumption`):

| Theorem | Property |
|---|---|
| `TagsValid` | `TagsAreValid` |
| `JobsKept` | `NoJobLost` |
| `AckedUntilReplaced` | `~Replaced => AckedWhenDone`: what the documentation promises holds, through faults, pauses and crashes, until a consumer that delivered messages is succeeded by another in the same process |
| `CallsAlwaysHold` | `CallsHold` |

The invariant has four parts: `PublisherInv` (each copy was published for a job of
which there is one caller, and ids do not run out), `WorkerType`, `ChannelInv` (tags
are unique, below the next one, and each is either known or in one callback) and
`JobsInv` (every copy that was published is ready, unacked or safe; what is unacked
is in the memory of the process or finished). `Replaced` is a history field of the
consumer, set when `consume()` succeeds after a consumer of the same process that had
delivered a message; a crash does not unset it. As long as it is not set, a tag means
the same message on both sides (`d.tag = u.tag => d = u`) and what the process holds
has a tag below the consumer's next one, so that a consumer without predecessors
begins with an empty memory: exactly what `rabbitmq_stale_tag` shows to be lost
afterwards. `AckedUntilReplaced` says that the replaced consumer is the only way to
it: what fails among the publishers, a pause, a broken connection or a crash without
a successor is not. `SparesWorker` states what the threads
that publish may do to the worker's part, so that each of their actions is proved
once.

`CallsAlwaysHold` needs a second invariant, `CallsInv`, which was first checked by TLC
on the instance of the run. Its heart is `Budget(t)`: the attempts a thread has spent,
one more if its connection was closed behind its back, and `Risk(t)` are at most the
errors and closes so far plus one per thread and deletion. `Risk` counts, while the
queue does not exist, the *other* threads that have declared it and are about to take
it off `queues_pending` (each can make this thread publish to nothing once), and the
thread's own belief that it exists. No step of a thread raises the risk of another
(`Cautious`, `RisksFall`): who discards the queue stops being stale as the others
begin to trust. A deletion raises each risk to at most the number of threads, which
is what the bound grants it. `HalfMade` (a channel not yet recorded comes after an
error) accounts for the `KeyError`, and `Dropping` says, without a worker, that what a
flush found does not come back to the queue it has purged. `Right(t)` is what each
action of a thread is proved to do.

### Interrupts

For any finite sets of threads and messages, any setups with any order of the
middleware, each at most once (`InterruptsAssumption`):

| Theorem | Property |
|---|---|
| `NothingLeft` | `NothingLeftBehind` |
| `AckedDone` | `AckedIsDone` |
| `CoroutinesDone` | `CoroutinesEnd` |

`Entered(r, hook)` says of a thread in state `r` that it went through the first half
of a hook and maybe not through the second. The invariant ties each deadline and each
registration to a thread that entered the hook, bounds the gauge by the number of
those from above and, because the second half can run twice for a message that an
interrupt turns from a success into a failure, by what was spent from below; ties
each thread to its message and coroutine (`Task`); and keeps messages of different
threads apart (`Apart`). `Strays` says that only gevent has timers nobody knows.

### StubBroker

For any finite sets of jobs and threads, prefetch of at least one, retries and pauses
(`StubAssumption`):

| Theorem | Property |
|---|---|
| `CountsKept` | `Counts` |
| `JoinReturnsLate` | `JoinWaits` |

The counts are numbers, the property of `join()` is about jobs; what ties the two is
where messages are. `In(p)` are the jobs with a message that is still to be processed
or settled in place `p`: either queue, the work queue, the held messages, a thread. A
job is in one place at most, once (`Apart`), so that a message taken out of one is in
none; and a job that was sent is in one of them or done or dead (`Sent`). A message
that is about to be acked is in no place: another one carries its job, or none. `Seen`
says what `join()` may rely on after its looks at the queues: that the first is still
empty at the second look, unless a delayed message was `moved`. It is inductive
because messages come to the queue only by `enqueue`, which the test does not call
then, or by a move, and to the delay queue only by a retry, whose thread still counts
as unfinished in the first.

### Composition

For any finite group of pipelines of any lengths, any workers, any order of the four
hooks, each at most once, any retries and any number of faults
(`CompositionAssumption`):

| Theorem | Property |
|---|---|
| `CallbackIsOnce` | `CallbackOnce` |
| `ResultsAreThere` | `ResultsBeforeNext`, if Results runs before Pipelines (`ResultsFirst`) |

The number of crashes and interrupts bounds the number of callbacks, which no step
shows by itself: the barrier and the messages that will wait on it have to be counted
together. A unit of `Work` is what may still bring a child of the group to its
`wait()`: its first message while the group has yet to enqueue it, each queued copy of
one of its messages, and each worker that has a copy and not yet come to the hook that
gives it up for the next message, a retry or `wait()`. Steps exchange a unit for another of
the same child (`Exchanged`), give it up (`Fewer`) or spend it on the barrier or the
callback (`Waited`); only a crash or an interrupt makes one (`Repeated`). So the units
and the callbacks, those that were enqueued and those about to be, are never more than
what the barrier has left plus the faults (`Counted`). As long as nothing was processed
again, a child has one unit at most and the bound holds for the children that are still
`Open` instead (`Exact`): when the barrier is at its last, and somebody has called
back, no child is.

`Stored`, for the results: a worker that still has Pipelines to run either has Results
to run before it, or the result of its message was given to the backend (`Handed`), which
has it or raised. `ResultsFirst` is
the order that comes of adding Results to the default middleware, which `emit_after`
goes through from the end; with Results put before Pipelines in that list, the next
message could start before the result is stored.

### RateLimits

For any finite set of clients, any limit, interval and lifetime of at least one second,
and any setups (`RateLimitsAssumption`; the clock stops at `MaxTime`, whatever it is):

| Theorem | Property |
|---|---|
| `LimitsAlwaysHold` | `LimitsHold` |
| `BarrierAlwaysHolds` | `BarrierHolds` |

None of the limits is inductive, because what a client decides by was read a command
earlier, and because keys expire. `IInv` adds, for each kind of limiter:

* `Held`: the key of a concurrent limiter outlives the holders it counts. Each
  acquisition renews it, so a holder that is not slow returns its slot to the counter
  that it took it from. On Memcached, where none renews it, `FirstKey` says the same of
  the first ttl, in which no key can have expired.
* `Bucketed`: a bucket's key outlives the bucket, its count is at least what was
  acquired in the bucket, and nobody counts on the key of another. `OneBucket` is the
  arithmetic: the multiples of the interval are at least an interval apart, so a second is
  in the bucket of one key.
* `Windowed`: each second's key has the count of what was acquired in it, and expires at
  the second in which it leaves the window. A client that has summed, with no key it
  watches changed since (`dirty`), still has room in the window as it is now. This is where
  the optimistic lock is needed, and what a slow client breaks: it sums other keys than
  it watches.
* `Parties`: the value of a barrier and the parties that have spent theirs add up to the
  number of parties; if one has cleared, all others are gone or wait; and nobody
  has passed, nor is there an event, unless one has.

What was acquired in several seconds is a sum, and a sum over a set by recursion cannot be
reasoned about here. `SumOf` is therefore the cardinality of a set of `Units`, a pair of a
second and a number for each acquisition, whose facts (`SumMonotone`, `SumPlusOne`) follow
from those of finite sets.

### Only model-checked

* Liveness and fairness (`EventuallySettled`, `JobsFinish`, `StopEnds`, `JoinEnds`,
  `GroupGoesOn`, `HungActorsEnd`, `BarrierOpens`, `Stops`): out of this prover's reach.
* The properties of `Results` and `CommandLine`: not attempted.

## 5. What is not modelled

* Serialization, actor registration, logging, argument parsing, Prometheus' server
  and its other metrics: no state that several steps could break.
* Callbacks, CurrentMessage: one enqueue, one thread local.
* Gevent, whose greenlets switch only at I/O: the threads of the modules allow
  more. Only its time limits, which differ, are in `Interrupts`.
* Exact times: backoff, eta and most timeouts are choices of when, within
  fairness; `Results`, `RateLimits` and `RedisQueue` have clocks. `dispatch.lua` is
  given the time that the client read before the call; the model reads it when the
  script runs, as if no command were under way for long, and clocks of clients agree.
* RabbitMQ's delay queue (after a pause a delayed message may run twice),
  priorities, and several queues.
* Queues declared while a worker runs (`after_declare_queue` adds a consumer).
* `Worker.join`, the `forget` option of results, starting and stopping the event
  loop, a main process killed by SIGKILL, a canteen that is full.

## 6. Plan

Done, in this order: `RedisStore`, `RedisQueue` and `MessageQueue`; `Worker`;
`RedisQueueProofs`; `RabbitmqBroker`; `RateLimits`; `StubBroker`; `Composition`;
`Interrupts`; `Results`; `CommandLine`; the threads that publish
(`RabbitmqPublisher`); the start of `Worker`'s threads; `RabbitmqBrokerProofs`,
`InterruptsProofs`, the refinement in `RedisQueueProofs`, `WorkerProofs`,
`StubBrokerProofs`, `CompositionProofs`, `RateLimitsProofs`.

Next, in order of what they can break:

1. *RabbitMQ*: the delay queue over a pause, to state which jobs run twice.
2. *Worker*: a queue declared during a start, a pause or a stop.
3. Proofs: `CommandLine` (`EndsWell`), `Results` (`FailureIsFinal`).

## 7. Running

    tlc -workers 2 -config RedisQueue_safety.cfg MCRedisQueue
    tlapm RedisQueueProofs.tla
    tlapm WorkerProofs.tla

Runs take up to three minutes on two cores; the proofs of `WorkerProofs`, which take
the longest, eleven.
