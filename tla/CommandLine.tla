---------------------------- MODULE CommandLine ----------------------------
(***************************************************************************)
(* The dramatiq command: a main process that starts worker processes,      *)
(* waits for them to boot, starts the fork processes they ask for, passes  *)
(* signals on and ends or reloads when the workers have exited (cli.py,    *)
(* canteen.py, watcher.py).                                                *)
(***************************************************************************)
EXTENDS Naturals, FiniteSets, SequencesExt

CONSTANTS
  N,            \* worker processes
  ArgForks,     \* fork functions given on the command line
  Paths,        \* fork functions of the broker's middleware
  Chatty,       \* workers whose log may fill its pipe
  PidFiles,     \* what the pid file may be at first
  Sent,         \* signals an operator sends to the main process
  SentToGroup,  \* signals a terminal or a supervisor sends to all processes
  MaxSignals,   \* bound: signals sent from outside
  MaxTroubles   \* bound: workers that fail to boot or are killed by SIGKILL

ASSUME CommandLineAssumption ==
  /\ {N, MaxSignals, MaxTroubles} \subseteq Nat /\ N > 0
  /\ IsInjective(ArgForks \o Paths)
  /\ Chatty \subseteq 1 .. N
  /\ Sent \cup SentToGroup \subseteq {"HUP", "INT", "TERM"}
  /\ PidFiles \subseteq {"none", "other", "stale", "garbage"}

VARIABLES
  main,     \* the main process
  worker,   \* the worker processes
  canteen,  \* memory the main process and the workers share, with its lock
  forks,    \* the fork processes, those started before a reload first
  pidfile,  \* "none", "own", or that of an "other" process, "stale" or "garbage"
  env       \* signals and troubles so far, and whether a group was signalled

vars == <<main, worker, canteen, forks, pidfile, env>>

Workers == 1 .. N
Signals == {"HUP", "INT", "TERM"}
Number == [HUP |-> 1, INT |-> 2, TERM |-> 15]
RET_OK == 0  RET_KILLED == 1  RET_IMPORT == 2  RET_CONNECT == 3  RET_PIDFILE == 4
SIGKILLED == 9     \* the exit code -9
Running == 99      \* no exit code yet

Main == [pc      : {"starting", "boot", "await", "canteen", "prepare", "look", "any",
                    "closing", "exiting", "ended"},
         i       : 1 .. N + 1,      \* the worker it is at
         early   : BOOLEAN,         \* it did not wait for every worker to boot
         running : BOOLEAN, reload : BOOLEAN, retcode : Nat,
         seen    : SUBSET Workers,  \* workers it saw exit
         pending : SUBSET Signals]
Worker == [pc      : {"spawned", "unblocked", "load", "fill", "added", "start",
                      "run", "stopping", "dead"},
           event   : BOOLEAN,       \* it says that it has booted
           running : BOOLEAN, exitcode : Nat,
           killed  : BOOLEAN,       \* by its second signal
           full    : BOOLEAN,       \* it is blocked by the pipe of its log
           pending : SUBSET Signals]
Fork == [path : ToSet(ArgForks \o Paths), old : BOOLEAN,
         pc : {"importing", "running", "dead"}, signalled : BOOLEAN]

TypeOK ==
  /\ main \in Main
  /\ worker \in [Workers -> Worker]
  /\ canteen \in [initialized : BOOLEAN, paths : Seq(ToSet(Paths)),
                  lock : 0 .. N, interrupted : BOOLEAN]
  /\ forks \in Seq(Fork)
  /\ pidfile \in PidFiles \cup {"none", "own", "stale"}
  /\ env \in [signals : 0 .. MaxSignals, troubles : 0 .. MaxTroubles, group : BOOLEAN]

(* A main process that starts, or is started again by execvp, which keeps
   its pid; no worker is left then.                                        *)
Started == [pc |-> "starting", i |-> 1, early |-> FALSE, running |-> TRUE,
            reload |-> FALSE, retcode |-> RET_OK, seen |-> {}, pending |-> {}]
NoWorker == [pc |-> "dead", event |-> FALSE, running |-> TRUE, exitcode |-> Running,
             killed |-> FALSE, full |-> FALSE, pending |-> {}]
EmptyCanteen == [initialized |-> FALSE, paths |-> <<>>, lock |-> 0, interrupted |-> FALSE]

Init ==
  /\ main = Started
  /\ worker = [w \in Workers |-> NoWorker]
  /\ canteen = EmptyCanteen
  /\ forks = <<>>
  /\ pidfile \in PidFiles
  /\ env = [signals |-> 0, troubles |-> 0, group |-> FALSE]

Alive(w) == worker[w].pc # "dead"
Set(w, fields) == worker' = [worker EXCEPT ![w] = fields @@ @]

-----------------------------------------------------------------------------
(* The main process until it waits for the workers.  It blocks signals.    *)

(* setup_pidfile, then the workers are spawned with signals blocked.       *)
Start ==
  /\ main.pc = "starting"
  /\ IF pidfile \in {"other", "garbage"}
     THEN /\ main' = [main EXCEPT !.pc = "ended", !.retcode = RET_PIDFILE]
          /\ UNCHANGED <<worker, pidfile>>
     ELSE /\ main' = [main EXCEPT !.pc = "boot"]
          /\ worker' = [w \in Workers |-> [NoWorker EXCEPT !.pc = "spawned"]]
          /\ pidfile' = "own"
  /\ UNCHANGED <<canteen, forks, env>>

(* Before it waits for a worker's event it looks whether the worker spawned
   last is alive.                                                          *)
Boot ==
  /\ main.pc = "boot"
  /\ main' = IF main.i > N THEN [main EXCEPT !.pc = "canteen"]
             ELSE IF Alive(N) THEN [main EXCEPT !.pc = "await"]
             ELSE [main EXCEPT !.i = @ + 1, !.early = TRUE]
  /\ UNCHANGED <<worker, canteen, forks, pidfile, env>>

(* The event is set, or worker_fork_timeout passes and ends the loop.      *)
Await ==
  /\ main.pc = "await"
  /\ \/ worker[main.i].event /\ main' = [main EXCEPT !.pc = "boot", !.i = @ + 1]
     \/ main' = [main EXCEPT !.pc = "canteen", !.early = TRUE]
  /\ UNCHANGED <<worker, canteen, forks, pidfile, env>>

(* canteen_get: each look at the canteen takes its lock.  The paths are
   read when it is initialized, and none when a second passes before.      *)
StartForks ==
  /\ main.pc = "canteen" /\ canteen.lock = 0
  /\ main' = [main EXCEPT !.pc = "prepare"]
  /\ \E paths \in IF canteen.initialized THEN {canteen.paths} ELSE {<<>>} :
       LET started == ArgForks \o paths IN
       forks' = forks \o [k \in DOMAIN started |->
         [path |-> started[k], old |-> FALSE, pc |-> "importing", signalled |-> FALSE]]
  /\ UNCHANGED <<worker, canteen, pidfile, env>>

(* The threads that watch files and logs are started, the handlers are
   installed, and signals are unblocked.                                   *)
Prepare ==
  /\ main.pc = "prepare"
  /\ main' = [main EXCEPT !.pc = "look", !.i = 1, !.early = FALSE]
  /\ UNCHANGED <<worker, canteen, forks, pidfile, env>>

WatchesLogs == main.pc \in {"look", "any"}

-----------------------------------------------------------------------------
(* The main process while it waits for the workers.                        *)

Receive(process, sig) ==
  IF process.pc = "dead" THEN process ELSE [process EXCEPT !.pending = @ \cup {sig}]

(* INT is ignored by fork processes, any other signal ends them.           *)
ForkReceives(fork, sig) ==
  IF fork.pc = "dead" \/ sig = "INT" THEN fork ELSE [fork EXCEPT !.signalled = TRUE]

SignalForks(sig) ==
  forks' = [k \in DOMAIN forks |->
              IF forks[k].old THEN forks[k] ELSE ForkReceives(forks[k], sig)]

(* Mutant: main still runs after it has sent a signal to its subprocesses. *)
SignalSubprocesses(m, sig) ==
  /\ main' = m
  /\ worker' = [w \in Workers |-> Receive(worker[w], sig)]
  /\ SignalForks(sig)

stop_subprocesses(m, sig) ==
  /\ main' = [m EXCEPT !.running = FALSE]
  /\ worker' = [w \in Workers |-> Receive(worker[w], sig)]
  /\ SignalForks(sig)

(* Python runs the handlers of pending signals by number.  HUP reloads and
   any other signal does not, whichever came before; INT is sent on as TERM. *)
sighandler(sig) ==
  /\ main.pc \in {"look", "any", "closing"}
  /\ sig \in main.pending /\ \A s \in main.pending : Number[sig] <= Number[s]
  /\ stop_subprocesses([main EXCEPT !.pending = @ \ {sig}, !.reload = (sig = "HUP")],
                       IF sig = "INT" THEN "TERM" ELSE sig)
  /\ UNCHANGED <<canteen, pidfile, env>>

(* Mutant: a worker that exited does not stop the others.                  *)
LookOnly ==
  /\ main.pc = "look"
  /\ main' = IF main.i > N THEN [main EXCEPT !.pc = "any"]
             ELSE IF Alive(main.i) THEN [main EXCEPT !.i = @ + 1]
             ELSE [main EXCEPT !.i = @ + 1, !.seen = @ \cup {main.i},
                     !.retcode = IF @ = RET_OK THEN worker[main.i].exitcode ELSE @]
  /\ UNCHANGED <<worker, canteen, forks, pidfile, env>>

(* It joins the workers in turn, each for a second.  One that exited while
   it should run stops all the others.                                     *)
Look ==
  /\ main.pc = "look"
  /\ IF main.i > N \/ Alive(main.i)
     THEN /\ main' = IF main.i > N THEN [main EXCEPT !.pc = "any"]
                     ELSE [main EXCEPT !.i = @ + 1]
          /\ UNCHANGED <<worker, forks>>
     ELSE LET exitcode == worker[main.i].exitcode
              seen == [main EXCEPT !.i = @ + 1, !.seen = @ \cup {main.i}]
          IN  IF main.running
              THEN stop_subprocesses([seen EXCEPT !.pc = "any", !.retcode = exitcode], "TERM")
              ELSE /\ main' = [seen EXCEPT !.retcode = IF @ = RET_OK THEN exitcode ELSE @]
                   /\ UNCHANGED <<worker, forks>>
  /\ UNCHANGED <<canteen, pidfile, env>>

(* It goes on while any worker has no exit code.                           *)
AnyLeft ==
  /\ main.pc = "any"
  /\ main' = IF \E w \in Workers : Alive(w) THEN [main EXCEPT !.pc = "look", !.i = 1]
             ELSE [main EXCEPT !.pc = "closing"]
  /\ UNCHANGED <<worker, canteen, forks, pidfile, env>>

(* The watchers are stopped; then the process executes the command again,
   with its pid file, or exits, without it.                                *)
Close ==
  /\ main.pc = "closing"
  /\ IF main.reload
     THEN /\ main' = Started
          /\ worker' = [w \in Workers |-> NoWorker]
          /\ canteen' = EmptyCanteen
          /\ forks' = [k \in DOMAIN forks |-> [forks[k] EXCEPT !.old = TRUE]]
          /\ UNCHANGED pidfile
     ELSE /\ main' = [main EXCEPT !.pc = "exiting",
                        !.retcode = IF @ = SIGKILLED THEN RET_KILLED ELSE @]
          /\ pidfile' = "none"
          /\ SignalForks("TERM")
          /\ UNCHANGED <<worker, canteen>>
  /\ UNCHANGED env

(* Daemon processes are terminated and joined when Python exits.           *)
Exit ==
  /\ main.pc = "exiting"
  /\ \A k \in DOMAIN forks : forks[k].old \/ forks[k].pc = "dead"
  /\ main' = [main EXCEPT !.pc = "ended"]
  /\ UNCHANGED <<worker, canteen, forks, pidfile, env>>

MainStep == Start \/ Boot \/ Await \/ StartForks \/ Prepare \/ Look \/ AnyLeft \/ Close \/ Exit
HandleSignal == \E sig \in Signals : sighandler(sig)

-----------------------------------------------------------------------------
(* Worker processes.                                                       *)

WorkerOnly == UNCHANGED <<main, forks, pidfile>>

(* A worker can write its log if the pipe has room or is read.             *)
Writes(w) == worker[w].full => WatchesLogs

Dies(w, exitcode, event) ==
  Set(w, [pc |-> "dead", exitcode |-> exitcode, pending |-> {}, full |-> FALSE,
          event |-> worker[w].event \/ event])

(* A pending signal is handled when signals are unblocked: the handler fails
   without a logger, and nothing catches that nor sets the event.          *)
Unblock(w) ==
  /\ worker[w].pc = "spawned"
  /\ IF worker[w].pending \ {"INT"} # {} THEN Dies(w, 1, FALSE)
     ELSE Set(w, [pc |-> "unblocked"])
  /\ WorkerOnly /\ UNCHANGED <<canteen, env>>

SetUpLogging(w) ==
  /\ worker[w].pc = "unblocked" /\ Set(w, [pc |-> "load"])
  /\ WorkerOnly /\ UNCHANGED <<canteen, env>>

FillPipe(w) ==
  /\ w \in Chatty /\ worker[w].pc \in {"load", "fill"} /\ ~worker[w].full /\ ~WatchesLogs
  /\ Set(w, [full |-> TRUE])
  /\ WorkerOnly /\ UNCHANGED <<canteen, env>>

(* A boot that fails sets the event, too.                                  *)
FailToBoot(w) ==
  /\ env.troubles < MaxTroubles /\ env' = [env EXCEPT !.troubles = @ + 1]
  /\ Writes(w)
  /\ \/ worker[w].pc = "load"  /\ Dies(w, RET_IMPORT, TRUE)
     \/ worker[w].pc = "start" /\ Dies(w, RET_CONNECT, TRUE)
  /\ WorkerOnly /\ UNCHANGED canteen

(* Mutant: the canteen is filled without its lock.                         *)
try_init_unlocked(w) ==
  /\ worker[w].pc = "load" /\ Writes(w)
  /\ Set(w, [pc |-> IF canteen.initialized THEN "start" ELSE "fill"])
  /\ WorkerOnly /\ UNCHANGED <<canteen, env>>

(* The modules are loaded; the first worker to take the lock fills the
   canteen, the others find it initialized.                                *)
canteen_try_init(w) ==
  /\ worker[w].pc = "load" /\ Writes(w) /\ canteen.lock = 0
  /\ IF canteen.initialized THEN Set(w, [pc |-> "start"]) /\ UNCHANGED canteen
     ELSE Set(w, [pc |-> "fill"]) /\ canteen' = [canteen EXCEPT !.lock = w]
  /\ WorkerOnly /\ UNCHANGED env

canteen_add(w) ==
  /\ worker[w].pc = "fill" /\ Writes(w) /\ Set(w, [pc |-> "added"])
  /\ canteen' = [canteen EXCEPT !.paths = @ \o Paths]
  /\ WorkerOnly /\ UNCHANGED env

Initialized(w) ==
  /\ worker[w].pc = "added" /\ Set(w, [pc |-> "start"])
  /\ canteen' = [canteen EXCEPT !.initialized = TRUE, !.lock = 0]
  /\ WorkerOnly /\ UNCHANGED env

StartWorker(w) ==
  /\ worker[w].pc = "start" /\ Writes(w) /\ Set(w, [pc |-> "run", event |-> TRUE, full |-> FALSE])
  /\ WorkerOnly /\ UNCHANGED <<canteen, env>>

(* The first signal makes it stop once it runs; the second exits, wherever
   it is: out of the canteen, too, which is left as it is.                 *)
termhandler(w, sig) ==
  /\ worker[w].pc \notin {"dead", "spawned"} /\ Writes(w)
  /\ sig \in worker[w].pending /\ \A s \in worker[w].pending : Number[sig] <= Number[s]
  /\ LET left == [pending |-> worker[w].pending \ {sig}] IN
     IF sig = "INT" THEN Set(w, left) /\ UNCHANGED canteen
     ELSE IF worker[w].pc = "unblocked" THEN Dies(w, 1, TRUE) /\ UNCHANGED canteen
     ELSE IF worker[w].running
     THEN Set(w, left @@ [running |-> FALSE]) /\ UNCHANGED canteen
     ELSE /\ worker' = [worker EXCEPT ![w] = [@ EXCEPT !.pc = "dead", !.killed = TRUE,
                          !.exitcode = RET_KILLED, !.event = TRUE, !.full = FALSE, !.pending = {}]]
          /\ canteen' = IF canteen.lock = w
                        THEN [canteen EXCEPT !.lock = 0,
                                !.interrupted = @ \/ worker[w].pc = "added"]
                        ELSE canteen
  /\ WorkerOnly /\ UNCHANGED env

Stop(w) ==
  /\ \/ worker[w].pc = "run" /\ ~worker[w].running /\ Set(w, [pc |-> "stopping"])
     \/ worker[w].pc = "stopping" /\ Dies(w, RET_OK, FALSE)
  /\ WorkerOnly /\ UNCHANGED <<canteen, env>>

WorkerStep(w) ==
  \/ Unblock(w) \/ SetUpLogging(w) \/ canteen_try_init(w) \/ canteen_add(w)
  \/ Initialized(w) \/ StartWorker(w) \/ Stop(w)
  \/ \E sig \in Signals : termhandler(w, sig)

(* Out of memory, or an operator: SIGKILL.  A lock it holds stays taken.   *)
Kill(w) ==
  /\ Alive(w) /\ env.troubles < MaxTroubles /\ env' = [env EXCEPT !.troubles = @ + 1]
  /\ Dies(w, SIGKILLED, FALSE)
  /\ WorkerOnly /\ UNCHANGED canteen

-----------------------------------------------------------------------------
(* Fork processes, which nobody watches.                                   *)

ForkOnly == UNCHANGED <<main, worker, canteen, pidfile, env>>

(* Signals are blocked until its function is loaded.                       *)
ForkBoots(k) ==
  /\ forks[k].pc = "importing" /\ forks' = [forks EXCEPT ![k].pc = "running"] /\ ForkOnly

ForkStops(k) ==
  /\ forks[k].pc = "running" /\ forks[k].signalled
  /\ forks' = [forks EXCEPT ![k].pc = "dead", ![k].signalled = FALSE] /\ ForkOnly

(* It cannot be loaded, or its function returns.                           *)
ForkEnds(k) ==
  /\ forks[k].pc # "dead"
  /\ forks' = [forks EXCEPT ![k].pc = "dead", ![k].signalled = FALSE] /\ ForkOnly

-----------------------------------------------------------------------------
(* Signals from outside.                                                   *)

(* A signal kills a main process that has not blocked it yet.              *)
ReceivedByMain(sig) ==
  /\ main.pc \notin {"exiting", "ended"}
  /\ IF main.pc = "starting"
     THEN /\ main' = [main EXCEPT !.pc = "ended", !.retcode = SIGKILLED]
          /\ pidfile' = IF pidfile = "own" THEN "stale" ELSE pidfile
     ELSE main' = Receive(main, sig) /\ UNCHANGED pidfile

Signalled == /\ env.signals < MaxSignals
             /\ env' = [env EXCEPT !.signals = @ + 1]

(* An operator signals the main process.                                   *)
Signal(sig) ==
  /\ Signalled /\ ReceivedByMain(sig) /\ UNCHANGED <<worker, canteen, forks>>

(* A file that is watched changes.                                         *)
on_any_event ==
  /\ WatchesLogs
  /\ Signalled /\ ReceivedByMain("HUP") /\ UNCHANGED <<worker, canteen, forks>>

(* A terminal or a supervisor signals all the processes.                   *)
SignalGroup(sig) ==
  /\ env.signals < MaxSignals
  /\ env' = [env EXCEPT !.signals = @ + 1, !.group = TRUE]
  /\ ReceivedByMain(sig)
  /\ worker' = [w \in Workers |-> Receive(worker[w], sig)]
  /\ forks' = [k \in DOMAIN forks |-> ForkReceives(forks[k], sig)]
  /\ UNCHANGED canteen

Next ==
  \/ MainStep \/ HandleSignal
  \/ \E w \in Workers : WorkerStep(w) \/ FillPipe(w) \/ FailToBoot(w) \/ Kill(w)
  \/ \E k \in DOMAIN forks : ForkBoots(k) \/ ForkStops(k) \/ ForkEnds(k)
  \/ \E sig \in Sent : Signal(sig)
  \/ \E sig \in SentToGroup : SignalGroup(sig)
  \/ on_any_event

(* Processes that can go on do; Python runs the handler of a signal between
   any two instructions of main, however often main loops.                 *)
Spec ==
  /\ Init /\ [][Next]_vars /\ WF_vars(MainStep) /\ WF_vars(HandleSignal)
  /\ \A w \in Workers : WF_vars(WorkerStep(w))
  /\ WF_vars(\E k \in DOMAIN forks : ForkBoots(k) \/ ForkStops(k))

-----------------------------------------------------------------------------
(* Properties.                                                             *)

(* Forks start when all workers have booted, "to avoid race conditions like
   in #297, #701" (cli.py:582), unless a timeout passes or the last worker
   dies; they are those of the middleware, each once, if any worker booted
   and no signal cut the one that filled the canteen short.                *)
New(k) == ~forks[k].old
Opened == {k \in DOMAIN forks : New(k)}
ForksAreRight ==
  /\ TypeOK
  /\ main.pc = "prepare" /\ ~main.early =>
       /\ \A w \in Workers : worker[w].event
       /\ (\E w \in Workers : worker[w].pc = "run") =>
            ToSet(ArgForks \o Paths) = {forks[k].path : k \in Opened}
  /\ ~canteen.interrupted =>
       \A k, l \in Opened : forks[k].path = forks[l].path => k = l

(* A worker is killed by its second signal only if two were sent, of which
   one may be for a worker that exited: its own stop and that of the others
   never add up.  Main ends or reloads when no worker and no fork is left
   running for good, with the failures it saw in its exit code; and it never
   refuses to start for its own pid file.                                  *)
EndsWell ==
  /\ \A w \in Workers : worker[w].killed =>
       env.group \/ env.signals + (IF main.retcode # RET_OK THEN 1 ELSE 0) >= 2
  /\ main.pc \in {"closing", "exiting", "ended", "starting"} =>
       \A w \in Workers : ~Alive(w)
  /\ \A k \in DOMAIN forks : forks[k].old =>
       forks[k].pc = "dead" \/ forks[k].signalled
  /\ main.pc = "ended" =>
       \A w \in main.seen : worker[w].exitcode # RET_OK => main.retcode # RET_OK
  /\ main.pc = "ended" /\ main.retcode = RET_PIDFILE =>
       pidfile \in {"other", "garbage"} /\ Len(forks) = 0

(* Once main has a signal, or a worker exits, all ends or is reloaded, unless
   a worker died with the lock of the canteen, or waits with it for its log
   to be read.                                                             *)
Stuck == /\ canteen.lock # 0
         /\ \/ ~Alive(canteen.lock)
            \/ worker[canteen.lock].full /\ ~WatchesLogs
Stops ==
  (\/ main.pc # "ended" /\ main.pending # {}
   \/ main.pc = "look" /\ \E w \in Workers : ~Alive(w))
    ~> main.pc \in {"starting", "ended"} \/ Stuck
=============================================================================
