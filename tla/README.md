# TLA+ models of mod-gearman-worker

This directory holds TLA+ specifications of the check worker in `src/pkg/modgearman`, the TLC
configurations that model-check them, and proofs for the TLA+ proof system (TLAPS). Line numbers
refer to the sources at this commit. `PROJECT.json` maps every definition to the lines it models.

    tlc -workers 2 -config job_stop.cfg MC_JobExecution
    tlapm JobExecution_proofs.tla

## The system

mod-gearman-worker fetches checks from one or more gearmands, executes them, and sends every result
to a result queue of a gearmand and, as a copy, to any number of dup servers.

| component | state | operations | touches |
|---|---|---|---|
| check worker (`worker.go`) | `activeJobs`, `jobs`, the libworker connection; `request.Cancel`, `Canceled`, `ballooning` | `doWork`, `startballooning`, `executeJob`, `Shutdown`, `Cancel`, `addJob`, `removeJob`, `errorHandler` | `mainWorker.curBallooningWorker`, `resultServerQueue`, the pool |
| worker pool (`mainWorker.go`) | `workerMap`, `serverStatus`, `activeWorkers`, `idleSince`, `statusWorker`, `running` | `manageWorkers`, `registerWorker`, `unregisterWorker`, `RetryFailedConnections`, `StopAllWorker`, `applyConfigChanges` | the workers, gearmands |
| result delivery (`resultserver.go`, `client.go`) | `resultServerQueue` (1000), `resultServerConsumers`, retries per result | `enqueueServerResult`, `runResultServerConsumer`, `sendResult`, `sendAnswer`, termination | gearmands |
| dup servers (`dupserver.go`) | per dup server a backlog and a consumer, table `dupServerConsumers` | `enqueueDupServerResult`, `runDupServerConsumer`, termination | dup servers |
| main loop (`mod_gearman_worker.go`, `_unix.go`) | `cfg`, `newCfg`, `config`, `exit`, `aIsRunning`, the tickers, the signal channel | `Worker`, `mainLoop`, `mainSignalHandler`, reload, `mainWorker.Shutdown` in a goroutine | all of the above |
| check execution (`readAndExecute.go`, `internal_checks.go`, `internal_negate.go`) | the `answer` under construction, the plugin's process group | `readAndExecute`, `executeCommandLine`, `execCmd`, `execInternal`, `execEPN`, `processTimeoutKill`, negate | processes, the perl daemon |
| embedded perl (`epn.go`, `mod_gearman_worker_epn.pl`) | `ePNServer`, `ePNStarted`, `ePNServerStopQueue`; in the daemon its socket and children | `startEmbeddedPerl`, `checkRestartEPNServer`, `Stop`, `ePNConnect`, `executeWithEmbeddedPerl`; accept, fork, exit | main loop and checks |
| status worker (`statusworker.go`) | one worker per gearmand list | created, disconnected and stopped with the pool | the pool |
| configuration (`configuration_parser.go`, `loader.go`) | the `config` object, shared by `Worker`, `mainLoop` and `mainWorker` | `initConfiguration`, `parseConfigItem`, `readSettingsPath`, `cleanListAttributes`, `getKey`, the clamp to the open files | files, main loop |
| `send_gearman` (`send_gearman.go`, `client.go`) | `resultsChan` (100), the client connection, three counters | `readResults`, `trySendAnswerWithRetries`, `sendgearmanLoop` | stdin, gearmands |
| `check_gearman` (`check_gearman.go`, `statusAdmin.go`) | the verdict, `statusChan` | `checkServer`, `processServerData`, `checkWorker`, the timeout | a gearmand, a worker |
| `gearman_top` (`gearman_top.go`, `statusAdmin.go`) | `connectionMap`, `printMap` | `generateQueueTable` per host, `queryGermanInstance` | gearmands |
| encryption, metrics, entry points, test command, Windows files | | | |

What is hard here: everything is shared between goroutines, and much of it without a lock.
`activeJobs` and `curBallooningWorker` are plain ints; `ePNServer`, `ePNStarted` and the consumer
tables are plain globals; `workerMapLock` guards single accesses only; a job that is "backgrounded"
outlives its handler; the main loop listens to signals while a goroutine tears down what it uses; a
result stays shared memory until it is encoded; gearmands fail, accept what they seem to have refused,
and come back; plugins ignore signals or leave children behind that keep the pipes open. The client
tools keep connections that go stale, and take a read that ends in a newline for a whole answer.

What makes each component correct:

- check worker: no job ends quietly, no result is queued twice, every job is answered, counters count;
- pool: bounded, never forgets a connected worker, recovers to its minimum, never hangs the main loop;
- delivery: results are neither lost nor doubled inside the program, a dup server holds nobody up and
  gets its results in order, termination gets through;
- main loop: what it serves with is complete and its own, reloads and terminations complete;
- configuration: the last good one governs, workers listen to what its lines say;
- check execution: OK means OK, timeouts are reported as configured, and a worker is not held for ever,
  unless by a process that left its process group or by a perl daemon that does not answer;
- embedded perl: no daemon is left behind, a dead one is replaced;
- `send_gearman`: success means that every result it read was acknowledged, and it always ends;
- `check_gearman`: a verdict is borne out by gearmand's status;
- `gearman_top`: what it shows becomes true again after a failure.

`PROJECT.json` lists the hazards at the lines where they bite, with the properties that watch them.

## Modules

| module | models | composed with |
|---|---|---|
| `JobExecution` | `doWork`, ballooning, `executeJob`, `Shutdown`, `Cancel`, `worker.jobs`, the two counters | |
| `JobExecution_proofs` | theorems about it | extends `JobExecution` |
| `WorkerPool` | `manageWorkers`, registration, disconnects, server status, `StopAllWorker`, reload of the workers | |
| `WorkerPool_proofs` | theorems about it | extends `WorkerPool` |
| `ResultService` | abstract: what delivery promises for one result | |
| `ResultDelivery` | result queue, consumers, dup servers, termination | implements `ResultService` |
| `ResultDelivery_proofs` | theorems about it | extends `ResultDelivery` |
| `Configuration` | lines and included files to options, checks, key, clamp to the open files, what needs a restart | |
| `MainLoop` | signals, reload, `Shutdown` goroutines, the tables across runs of `mainLoop` | extends `Configuration` |
| `MainLoop_proofs` | theorems about it | extends `MainLoop` |
| `EmbeddedPerl` | the perl daemon, its life, connections to it | |
| `CheckExecution` | one check from `readAndExecute` to the encoded result | extends `EmbeddedPerl` |
| `CheckExecution_proofs` | theorems about it and the daemon | extends `CheckExecution` |
| `SendGearman` | reader, channel, sender, retries over servers that fail, exit code | |
| `SendGearman_proofs` | theorems about it | extends `SendGearman` |
| `CheckGearman` | query in pieces, thresholds, worker jobs, verdict, timeout | |
| `CheckGearman_proofs` | a theorem about it | extends `CheckGearman` |
| `GearmanTop` | host goroutines, their shared connections, a gearmand that hangs, ends, changes | |
| `ClientTools` | one of the three tools at a time | extends the three |
| `MC_*` | instances for TLC | |

Definitions introduced by a comment "Mutant:" are variants of the definition that follows with a
plausible bug. No specification uses them; they document which mistake each property notices.

### JobExecution

The state is that of `worker` and `request`. `pc[w]` is the place of the handler of worker `w` in
`doWork`, `exec[j]` that of `executeJob` (and of the goroutine around it, if `j \in async`). Every
`x++` and `x--` on a counter is a load and a store with everybody else's steps in between;
`racedActive` and `racedBallooning` remember that an update got lost, so that a property can say what
holds apart from that. The answer to gearmand is `status[j]`: "ok", "fail", or "lost" when the
connection was closed first.

A process that `cmd.Start` has created ("started") gets its `Cancel` function a step later ("running",
`readAndExecute.go:208` and `:215`). `Cancel` looks at `activeJobs`, takes `worker.lock`, for which
`addJob` and `removeJob` then wait, goes through the listed jobs, with one step to test `j.Cancel` and
another to call it, and at last tests `worker.worker` and closes it, in two steps as well. What was
tested may be nil by then: the panic ends the program (`crashed`, `logPanicExit`). `due` remembers what
ran, with a `Cancel`, when the lock was taken.

### WorkerPool

One action per access to `workerMap` or `serverStatus`, because the lock covers no more than that.
`mgr` is the place of the main loop in `manageWorkers` (with the rounds left of its loop), `retry`
that of the retry goroutine in `RetryFailedConnections` or `StopAllWorker`. A worker object is used
again once it is closed and nobody refers to it. The load and memory limits may say no at any time;
jobs come and end by themselves. To sink the pool the main loop looks for a worker without a job and
shuts it down in a later step: it may have got one meanwhile, and then the main loop waits for it.
`initialStart`, the number of workers a reload starts again, is an argument of the first call of
`manageWorkers` alone, even if that finds no active server (`NoActiveServer`). A reload counts
`len(workerMap)`, then sets `running` to false, then stops all workers, three steps between which workers
come and go (`ReloadBegin`, `ReloadShutdown`, `ReloadStopAll`). When it replaces the main worker the old
retry goroutine is gone with it: it exits at its next tick, which the model takes to be before the new
one starts work.

### ResultService and ResultDelivery

`ResultService` keeps, for every result, its fate ("new", "held", "delivered", "dropped") and its
rounds: a held result is delivered, or dropped after enough failed rounds, or when the consumers are
terminated. `ResultDelivery` has the queue, the consumers, and what they hold. Its instance of the
abstract module computes the fate from these, and `ServiceSpec` is checked as a property.
A gearmand accepts, refuses, or accepts while the client sees an error. `dupAccepted` and `dupSent`
are histories: what got into a backlog and what was acknowledged, in order. One terminator runs.

### Configuration and MainLoop

A configuration file is a sequence of items `[key, value]`, a disk a function from file names to files.
`Included` puts the items of an included file in the place of the one that names it, `ParseConfigItem`
folds them into a record of options as `parseConfigItem` does (lists grow, the rest is overwritten),
and `InitConfiguration` returns the cleaned options with or without an error, or nil. `ClampToOpenFiles`
and `NumResultServer` are the integer arithmetic of `mod_gearman_worker.go:181` and `resultserver.go:25`;
`ExceedsOpenFiles` compares as `uint64` does, where a negative number of files is a huge one.

In `MainLoop` every reload reads one of the `Disks` and goes on with what `InitConfiguration` makes of
it: refused (nil, or not reasonable), without a readable key, in place, or with a restart, which
`RestartRequired` decides by the comparison the code makes. `run` numbers the runs of `mainLoop`. The
tables are global: `resTable` and `dupTable` say whose consumers they hold, `resAlive` and `dupAlive`
whose still live. Every signal that stops the loop starts a goroutine with a `pc` of its own, which
goes on whatever the loop does. All result consumers are one. A worker is the set of queues it listens
to. `cfg`, `newCfg`, `config` and `wcfg` are the four places of the configuration; the code lets three
of them share an object, so the clamp at the start of a run changes all three.

Signals arrive at any time. The channel has room for one: what does not fit is lost, and so is what
arrives between two runs, after the old channel was left and before the new run listens. Two histories
tell how far signals got in each other's way: `late`, one was taken from the channel while a `Shutdown`
goroutine was at work, and `racing`, it started a second one. Then anything goes: a reload can replace the
`newCfg` of the one before, the slower goroutine may find a table emptied by the other and panic, both may
wait for the same dup consumer for ever, or terminate the consumers of the next run. The properties
below `Serving` say what holds as long as that did not happen, and what can end the program if it did.

`ListensToConfig` does not trust the parser: `HostgroupsAsked` says which hostgroups the lines of the
files name, without order, clean-up or folding, and the workers must listen to exactly these.

### EmbeddedPerl and CheckExecution

`EmbeddedPerl` has the steps of the daemon, of the main loop that starts and stops it, and of
`ePNConnect` and `executeWithEmbeddedPerl` up to the read; it has no specification of its own.
`CheckExecution` adds processes, internal checks, the timeout, negate, and the result. `process[j]` is
the process group of a plugin: running, ended with children that hold its pipes ("held"), the same
but out of the group ("escaped"), or gone. `EpnStep(A)` is a step of `EmbeddedPerl` that leaves the
jobs alone. `ePNStarted` is compared as a pointer, so it is a stamp; its age is a flag.

`EPNDaemon.Stop` asks for a grace period of 60 seconds which is never granted (`epn.go:151`: the
`ProcessState` of a process that was not waited for is nil): the model stops at once, as the code does.

A perl check is recognized by the configuration its worker was made with, which a reload in place does
not change: `perlWorkers` says that some worker of this run has one with embedded perl, `enabled` what
the main loop has. A request may fail in four ways, each an action of its own: the write fails
(`WriteFails`), the read fails because the daemon closed with the request unread (`Reset`, `ReadError`),
the connection ends without an answer (`Eof`, `ReadNothing`) or in the middle of one (`Torn`, `ReadTorn`).
The first two leave `received.Cancel` set (`cancelSet`). A plugin that is interrupted may still answer:
its signal handler exits with 2 (`Interrupted`).

`OkMeansOk` compares the result with what the check ended with. Without negate it says OK if and only if
the check itself ended with 0. With negate a check that did not end by itself has a code as well, which
`EndCode` names: UNKNOWN if it never got one (a failed start, a lost connection) or got one outside 0 to
3 (`fixReturnCodes` makes it UNKNOWN before negate sees it), CRITICAL for an interrupted perl plugin. So
`negate -u OK` makes OK of a check that could not be started, and the default negate of a perl check
that the restart of the daemon interrupted. `OkCodes` says which codes the options give as OK, in names
or in numbers (`ConvertStatusNumber`), without reference to how the code applies them.

### The client tools

Each tool has a module with its own variables and specification; `ClientTools` runs one at a time
(`tool`), so that a single run checks all three and their theorems speak of each alone.

`SendGearman`: stdin is a sequence of lines, of which only good, bad and blank matter, and its end: end of
file, an error, or silence. The reader stops at a blank line and at an error of the scanner as at the end
of file, and the exit code is 0 all the same: the error branch of `send_gearman.go:187-190` is never
reached with an error. `ExitZeroMeansSent` therefore speaks only of what was read. The sender keeps the
connection `clt` from one result to the next; `intact` says that it has not been lost. Servers go down and
come up. `accepted` (what was acknowledged) and `steady` (servers up since a result was taken) are
histories.

`CheckGearman`: a status is a sequence of rows. Each `Read` returns a piece; one that ends in a newline
ends the answer (`ReadLastPiece`), and when the connection is closed whatever part of a row has come is
parsed (`CutRow`: skipped, whole, or with the last digit of the workers missing). `ProcessServerData`
is a set of codes: `sort.Sort` is not stable, so among rows with one name any may come last.

`GearmanTop`: the names of one gearmand, which share an entry of `connectionMap`. A query is written, then
read until a segment ends in a newline, so that answers to different queries mix on one connection: a
table that is cut at a newline, or mixed with an older answer, is displayed as any other, and
`LatestStatusShown` takes it for the status. A version number stands for the status. A gearmand hangs,
ends (its connections are closed, then reset by the next write), starts again, and changes its status.

## Runs

Each configuration passes unless marked. Sizes are distinct states.

| run | question | bounds |
|---|---|---|
| `job_stop` | is a job ever ended quietly, doubled, miscounted or left hanging when its worker backs off, backgrounds, and is shut down and canceled? | 1 worker, 2 jobs, queue of 1 |
| `job_gauge` (violated) | does the gauge of ballooning workers fall to zero? | 1 worker, 1 job |
| `pool_safety` | bounds of the pool, forgotten workers, dead entries | 3 worker objects, a failure, a reload |
| `pool_recovery` | does the pool recover, does the main loop respond? | 2 objects, one failure |
| `pool_reload` (violated) | is the pool at its minimum after a reload? | 2 objects, one reload |
| `result_delivery` | conservation, order, abstract service, no blocking, termination | 2 results, 2 consumers, 1 dup server, full queues |
| `result_crash` (violated) | is shutdown free of crashes? | 1 dup server |
| `main_loop` | does every signal do what it should, and what can go wrong when signals overlap? | 3 signals at any time, 8 contents of the files, 4 limits of open files, 2 dup servers |
| `main_reload` (violated) | does the loop have its consumers when reloads overlap, too? | 2 signals |
| `client_tools` | does success mean sent, does a verdict fit the status, is the latest status shown? | `send_gearman`: 5 inputs, 2 servers, 1 retry, channel of 1, 2 outages; `gearman_top`: 2 names, 3 connections, 1 failure, 1 change; `check_gearman`: 7 argument sets, 38 statuses, 9 responses |
| `check_execution` | are results right, is nobody left behind or held? | 1 check of any kind, 2 daemons, 1 daemon fault, 1 reload or shutdown |
| `max_age` (violated) | is a job older than max-age discarded? | 1 check |

Why the bounds are enough. The hazards of `JobExecution` are between handler and goroutine of one job, two
jobs of one worker, and whoever stops it; a queue of one is full and empty within two results. What
several workers do to `curBallooningWorker` is proved for any number (`BallooningLimited`). The pool's
races are between one worker being created, one being stopped and one in the map. The result queue and the
backlog are filled by two results; retries are cut from 120 to a few, and the limit is still reached and
passed. Two results and one dup server show reordering. Three signals at any time are two that overlap, in
either order of reload and termination, with a third before or after them, or all three at once; the
channel drops some. The contents of the files differ by what each branch of a reload looks at: a line
without "=", a missing key, an unreadable key file with and without a restart, changes in place, of groups
and of dup servers; the limits leave -1, 0, 2 and 160 workers. `send_gearman` with two servers, one retry
and two outages has stale connections, failed attempts on both servers, and a server that comes back in
time or not; with a channel of one and three lines a result can be sent, another queued and a third in the
reader's hand. Two names share a connection of `gearman_top`, while a third connection is the one being
dialed. The statuses have queues of all severities in both orders of names and numbers of workers with one
digit and two. Checks share nothing but `ePNStarted`, and a restart pattern in the daemon's log resets it
at any time as another check would: one check suffices. `MaxRetries` 3 lets a check ask for a restart
(third retry) and connect afterwards; two daemons are the old and the new one. The one set of options of
negate (`Inverted`, `-o 2 -c OK -u 0 -T CRITICAL`) turns OK into CRITICAL, leaves WARNING alone, turns the
rest into OK, gives states by name and by number, and has a timeout state of its own; all others, no
option at all included, are covered by the theorem `OkIsMeant`. `CHECK_DEADLOCK FALSE` is there because
jobs, signals or faults are bounded and the program may exit: then nothing is left to do.

What the violated runs show (details under "findings" in `PROJECT.json`):

- `BallooningGaugeFalls`: a job that ends between the ticker and its mark is counted for ever, and its
  slot is lost.
- `MinWorkersAfterReload` (the same formula as `MinWorkersRunning`, with a reload): stopped workers
  stay in the map that the next main worker takes over, which then starts too few.
- `ShutdownNeverCrashes`: a goroutine that outlives `StopAllWorker` finds the dup table nil and panics.
- `ServingAcrossReloads`: of two overlapping reloads the slower `Shutdown` terminates the next run's
  consumers; the loop then serves without.
- `TooOldDiscarded`: a job too old is not discarded; a result with return code 0 and no service is sent.

### Fairness

- `JobExecution`, while the program lives: weak fairness of every handler that can run, of the goroutine
  of every job (a plugin has a timeout, so it ends: `ExecutionEnds` of `CheckExecution` says with which
  exceptions), of `Cancel` once begun, and of the consumers. The ticker need not fire,
  gearmand need not assign jobs.
- `WorkerPool`: weak fairness of the main loop (its ticker) and of the steps of a reload, of the retry
  goroutine, of shutdowns and disconnect handlers, of the end of a job, and of the return of a gearmand.
  Strong fairness of `ReloadRestart` only: the old main loop is stopped, so the one thing that disables it
  again and again is a worker that has just got a job, and that ends.
- `ResultDelivery`: weak fairness of producers and consumers (network calls have timeouts of ten
  seconds). Strong fairness of the terminator: its request is one of several cases of a `select`,
  which Go chooses at random, and a retrying consumer looks for it once a second.
- `MainLoop`: weak fairness of the loop and of every `Shutdown` goroutine.
- `ClientTools`: weak fairness of the reader, the timer and the sender of `send_gearman`. gearmand
  answers `gearman_top` unless it hangs. Strong fairness of every host goroutine: Go's lock for reads of
  one connection has a queue, so that none of them waits while others read for ever. `SendGearmanEnds`
  holds although a gearmand may stay down: retries are bounded. `LatestStatusShown` needs a gearmand
  that stays up, and is stated for one of the names: of two names that share a connection one may read
  the middle of every answer.
- `CheckExecution`: goroutines, clocks, the signals of `processTimeoutKill`, the main loop and the
  daemon run: it listens, and exits when told to. Nothing says that a daemon takes a request or answers
  it: it compiles a plugin without an alarm, and `epn.go:309` reads without a deadline, so `ExecutionEnds`
  excuses a check that waits for an answer. A plugin process and an internal check need not end by
  themselves: this is what the timeout is for.

## Proofs

`JobExecution_proofs` proves for all workers, jobs, sizes of the result queue and thresholds that
satisfy `JobExecutionAssumption`:

| theorem | statement |
|---|---|
| `TypeCorrect` | `Spec => []TypeOK` |
| `NoSilentOk` | `Spec => []OkIsNeverSilent` |
| `AtMostOneResult` | `Spec => []ResultAtMostOnce` |
| `CancelComplete` | `Spec => CancelReachesListed` |
| `ActiveJobsCorrect` | `Spec => []ActiveJobsCounts` |

They rest on `Invariance`, `Spec => []IInv`. `OkIsNeverSilent` is not inductive: that an "OK" leaves a
result behind depends on where handler and goroutine are. `IInv` adds that a busy handler has a job of
its own that gearmand waits for (`Handling`), that a job executes only after a handler took it
(`Started`), how far `executeJob` is at each place of the handler (`Stages`), between which places the
result is queued (`ResultCount`), that an answered job was executed or is in the background
(`Answered`), that a handler lists its job before executing it (`Listed`), that a process has its
`Cancel` from `SetCancel` on, not from its start (`Killable`), and that a call of `Cancel` has a job
(`Targeting`). There is one lemma per group of actions, one step per action, and under
it one step per conjunct the action can disturb. `CancelComplete` needs `Reaching`: a job that ran when
the lock was taken was killed, ended by itself, or is still before `Cancel` in its list, and it cannot
leave the list before `worker.lock` is free. A process between `cmd.Start` and `SetCancel` is not among
them, and goes on. `ActiveJobsCorrect` needs a second layer: an update in
progress holds the value it loaded, unless it was overtaken, which is what `racedActive` records; sets
of counted jobs grow and shrink by one (`CountUp`, `CountDown`, `CountSame`).

`ResultDelivery_proofs` proves for all results, consumers, dup servers, capacities and numbers of
retries that satisfy `ResultDeliveryAssumption`:

| theorem | statement |
|---|---|
| `TypeCorrect` | `Spec => []TypeOK` |
| `NothingLostOrDoubled` | `Spec => []Conservation` |
| `DupInOrder` | `Spec => []DupOrder` |
| `Implements` | `Spec => ServiceSpec`, the refinement of `ResultService` |

They rest on `Invariance`, `Spec => [](QueueInv /\ DupHolding)`. That no two places hold the same result
(`Once`) survives an enqueue only because a new result is nowhere yet (`Kept`), and the refinement needs
that whatever waits in the queue is undecided and whatever a consumer holds is not dropped
(`Undecided`): else a result given up could be reported as dropped twice, or dropped after it was
settled. `Holding` ties a consumer's place to its item, and says that a retried result failed before,
which is why the termination may drop it; `StopPlace` says that the receiver of a termination request
exists. `AppendElements` and `TailElements` are the two facts about sequences. `Implements` shows for
every action that it is a step of `ResultService` or leaves `fate`, `retries` and `stopping` alone; a
gearmand that accepts while the client sees an error is `Deliver` and a failed round in one step. Safety
only: that a result is settled in the end is `EveryResultSettled`, checked by TLC.

`BallooningLimited` of `JobExecution_proofs` proves `BallooningBounded`: as long as no two updates of
`curBallooningWorker` overlapped, the jobs in the background are counted, and exceed the slots by at
most one for every other worker that had passed the check of `startballooning`. It needs to know who is
between check and count.

`WorkerPool_proofs` proves for all workers, servers, limits, rates and numbers of failures and reloads
that satisfy `WorkerPoolAssumption`:

| theorem | statement |
|---|---|
| `TypeCorrect` | `Spec => []TypeOK` |
| `PoolStaysBounded` | `Spec => []PoolBounded` |
| `NoWorkerForgotten` | `Spec => []NoOrphan` |
| `MapIsAlive` | `Spec => []NoDeadEntry` |

They rest on `Invariance`, `Spec => []IInv`. `PoolBounded` is not inductive: `manageWorkers` creates a
worker some steps after it has counted, and registers it some steps later. `RoomLeft` says that what is
still to come fits: the rounds left of its first loop (`mgrLeft`) count against the larger of `minWorker`
and `maxWorker`, its second loop has found less than `maxWorker`, and the number of workers that a reload
starts again is one the old map had. `NoOrphan` needs `HoldsWorker` and `SinkingStopped`: between creation
and registration it is `manageWorkers` that knows a worker, and one that it stops because it idles is not
connected any more. `NoDeadEntry` needs `CanceledLive`, only `Cancel` leaves a worker canceled; the two
races that put a dead worker into the map are recorded in `closedLive` and `deadEntry`, and the theorem
says that there is no third. `FiniteMap` is needed as soon as `Ids` may be infinite.

`MainLoop_proofs` proves for all disks, limits and numbers of signals (`MainLoopAssumption`,
`ReadingsAssumption`: `InitConfiguration` returns a configuration with all its fields, two of which
are integers):

| theorem | statement |
|---|---|
| `TypeCorrect` | `Spec => []TypeOK` |
| `ConsumersServe` | `Spec => []Serving` |
| `LastGoodConfigKept` | `Spec => []LastGoodConfig` |
| `NoShutdownPanics` | `Spec => []CrashNeedsBrokenReload` |
| `WorkersFollowReload` | `Spec => [](Managing /\ ~late => SameQueues)` |
| `WorkersListen` | hostgroups parsed right: `Spec => []ListensToConfig` |

Signals come at any time in all of them. `TypeCorrect` rests on `TypeInv` and says more than it seems to:
a configuration is clamped once per run, and one that was clamped before stays as it is (`ClampKeeps`),
so that only what was read, or clamped once, occurs (`Reached`); a signal taken from the channel finds a
goroutine that never ran (`StartingType`: goroutines are numbered in the order of their start, and there
are at least as many signals); and a new run of `mainLoop` needs a goroutine that has gone, so that runs
do not exceed `MaxSignals + 1` (`RunsSuffice`).

The other theorems rest on `MainInvariance`, with one part per question. `HistoryInv`: who starts a second
goroutine has taken a signal too early (`racing => late`), and neither is ever taken back. `ServingInv`:
as long as no second goroutine was started while one was active, there is at most one, it belongs to the
present run, whose loop has stopped its tickers, and the table it indexes is not nil (`OneShutdown`), and
from "initDup" on a run has its consumers, which later runs do not have yet (`Consumers`). `ConfigInv`:
until a signal was taken too early, a reload that is under way hands over what it has read last.
`CrashInv` adds that `cfg` is nil only after a file could not be read. That `racing` cannot be left out of
`Serving` is what the run `main_reload` shows.

`ListensToConfig` has two halves. That no reload leaves a worker with queues of before is
`WorkersFollowReload`, by `QueuesInv`: a reload in place keeps all queues (`InPlaceKeepsQueues`), as the
clamp does, and every other one stops all workers before the next run starts any. `SameQueues` leaves out
the queues of hosts and services: `applyConfigChanges` does not compare these options, and workers of
before a reload in place go on with them as they were. That the hostgroups
of one reading are those its files name is a fact about `InitConfiguration` alone, a fold over the lines;
proving it needs an induction over data. It is the second hypothesis of `WorkersListen`, and what TLC
checks when the run `main_loop` evaluates `ListensToConfig` for every content of `MCDisks` that is
accepted.

`CheckExecution_proofs` proves for all finite sets of checks, all daemons, kinds of checks, options of
negate, return codes and limits that satisfy `EmbeddedPerlAssumption` and `CheckExecutionAssumption`:

| theorem | statement |
|---|---|
| `TypeCorrect` | `Spec => []TypeOK` |
| `DaemonsKept` | `Spec => []NoDaemonLeftBehind` |
| `OkIsMeant` | `Spec => []OkMeansOk` |
| `TimeoutIsReported` | `Spec => []TimeoutReported` |

They rest on `Invariance`, `Spec => []IInv`, in two halves. `EpnInv` is about the daemons:
`NoDaemonLeftBehind` is preserved by the start of a daemon because the main loop gets there only after it
has stopped all others (`NoneAtStart`); `RetriesLeft` says that `ePNConnect` gives up in time, and
`AnswerRead` that an answer is a code. That there is always a new stamp for `ePNStarted` (`FreeStamp`) is
a pigeonhole argument: the checks and the variable hold at most one each, and there is one stamp more.
`JobInv` follows the result of a job: it says UNKNOWN while its check runs, or what an internal check
wrote (`Running`); nothing writes to it once the check is over, but for an internal check that timed out
(`Stopped`); it has the code of the check before negate and what negate makes of it afterwards, or the
code of a timeout (`Coded`), which no check misses (`Noticed`); and since a result is encoded late, it
must not change between encoding and the end (`SentAsIs`). Of negate
only `ApplyOk` is used, that it makes OK of the codes in `OkCodes` and of no other, and `TimeoutCodeIs`.

`SendGearman_proofs` proves for all inputs, servers, retries, channels and outages:

| theorem | statement |
|---|---|
| `ExitZeroSound` | `SendGearmanSpec => []ExitZeroMeansSent` |
| `GiveUpSound` | `SendGearmanSpec => []GiveUpNeedsOutage` |

`FlowInv`: the channel holds a run of consecutive results between the one the sender took last and the
one the reader has, and all before the sender's are acknowledged. `TryInv`: only the first try uses a
connection of before; in later ones every server passed over has been down since the result was taken.

`CheckGearman_proofs` proves `VerdictSound`, `CheckGearmanSpec => []VerdictFitsStatus`, for all
arguments and statuses. `CutRowMilder` is the reason: a cut row has fewer workers, but at least one if
the whole has one, and is therefore never graver; `VerdictOfRows` says what `ProcessServerData` returns
for any set of rows.

Only model-checked: all liveness (fairness and ENABLED are out of the prover's reach: `EveryJobAnswered`,
`MinWorkersRunning`, `EveryResultSettled`, `TerminationEnds`, `ExecutionEnds` and their like), everything
about `GearmanTop`, whose one property is liveness, and what `InitConfiguration` makes of a disk: the
options are folded from the lines, and what a fold computes for every input needs an induction over data.

## What is left out

- Logging, metrics, text of results, parsing of command lines, encryption, the test command, the
  Windows files, start-up (daemonizing, pid file, SIGUSR1, SIGUSR2).
- Of the configuration: the options nothing modelled depends on, directories of files, white space,
  quotes, and files that include each other in a circle.
- Of `gearman_top`: layout, keyboard, batch mode and several gearmands, whose goroutines share nothing
  but the map. Of `check_gearman`: text and performance data.
- `check_gearman` is lenient where no doc of the repository says what is right: a queue that does not
  exist is OK, so is an empty response with a text to expect, a later WARNING hides a CRITICAL, and wrong
  usage exits with 0. The model does what the code does; the hazards name the lines.
- `mainWorker.tasks`, `workerUtilization` and the load and memory limits: a statistic and inputs that
  may be anything.
- Go's aborts on concurrent map access (`workerMap` ranged over without its lock, `fileUsesEPNCache`,
  `connectionMap` of `gearman_top`):
  not a state of the program. They are listed as hazards.
- Two overlapping `Shutdown` calls of one worker, which may dereference nil (`worker.go:282`): a hazard
  without a property. That `Shutdown` and `Cancel` of one worker overlap is modelled.
- `errorHandler` shuts down and unregisters; what happens between the two is merged.
- A check of `CheckExecution` begins while the loop serves. `cmd.Wait` failing without a
  `ProcessState` is a start that failed. Compiling a plugin in the daemon and forking are one step: that a
  plugin that blocks in a BEGIN block holds up all others is outside the model, and so is a worker that
  runs as process 1, whose daemon would exit at once.

## Plan

The order is that of importance: what loses or forges results first.

1. Done: `JobExecution`, `ResultDelivery` with `ResultService`, `WorkerPool`, `Configuration` with
   `MainLoop`, `CheckExecution` with `EmbeddedPerl`, the client tools, their runs, and the proofs above.
2. Extend: two overlapping `Shutdown` calls of a worker and the fields they share; two gearmands and a
   list of servers that changes, with a worker created meanwhile (hazard at `mainWorker.go:488`);
   `fileUsesEPNCache`, which keeps an entry while the file is the same or newer (`epn.go:214`).
3. Prove: a safety property of `GearmanTop`, once a run checks one; an abstract specification of a
   reload (one configuration in force, replaced by the last good one) that `MainLoop` implements; the
   facts about `Configuration` that need no induction (`FixAddress`, `RaiseMaxWorker`, `Included` of a
   disk whose files include nothing).
