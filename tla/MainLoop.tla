------------------------------ MODULE MainLoop ------------------------------
(***************************************************************************)
(* Worker and mainLoop of mod_gearman_worker.go with what a signal sets in *)
(* motion: applyConfigChanges, the goroutine that runs mainWorker.Shutdown *)
(* while the loop goes on listening to signals, and the next run of        *)
(* mainLoop with its new consumers.                                        *)
(*                                                                         *)
(* The tables of result and dup consumers are global variables: every run  *)
(* of mainLoop fills them, every Shutdown goroutine empties them, also one *)
(* that an earlier run started.                                            *)
(*                                                                         *)
(* Data left out: how many workers there are (WorkerPool; here they are    *)
(* the sets of queues that some worker listens to), results and retries    *)
(* (ResultDelivery), all result consumers but one, the EPN and prometheus  *)
(* servers.  What a configuration says, and what follows from it, is       *)
(* Configuration.                                                          *)
(***************************************************************************)
EXTENDS Configuration

CONSTANTS
    Disks,          \* contents the configuration files may have, a function of their names
    OpenFilesLimits,\* values of the open files limit
    Signals,        \* the signals that are sent
    MaxSignals      \* bound: signals sent to the program

ASSUME MainLoopAssumption ==
    /\ MaxSignals \in Nat /\ OpenFilesLimits \subseteq Nat
    /\ Signals \subseteq {"SIGHUP", "SIGINT", "SIGTERM"}

Goroutines == 1..MaxSignals     \* one per signal that starts a Shutdown
Runs == 1..(MaxSignals + 1)     \* runs of mainLoop

\* what a reload may find, and make of it
Readings ==
    {LET read == InitConfiguration(disk) IN [disk |-> disk, config |-> read.config, ok |-> read.ok] :
       disk \in Disks}

Configs == {read.config : read \in Readings} \ {NoConfig}

\* what InitConfiguration returns, whatever the files contain
ASSUME ReadingsAssumption ==
    /\ \A read \in Readings : read.ok => read.config # NoConfig /\ Reasonable(read.config)
    /\ \A c \in Configs, limit \in OpenFilesLimits : ClampToOpenFiles(c, limit) # NoConfig
    /\ \A c \in Configs : /\ DOMAIN c = DOMAIN Defaults
                        /\ c.maxWorker \in Int /\ c.numResultWorker \in Int

VARIABLES
    run,            \* the present run of mainLoop
    loop,           \* "init", "initDup", "select", or "exited" once Worker returned
    sigChan,        \* osSignalChan, a buffer of one
    sent,           \* signals sent so far
    exit,           \* mainLoop's result exit
    openFiles,      \* what getMaxOpenFiles returns
    cfg,            \* mainLoop's variable cfg,
    newCfg,         \*   its result newCfg,
    config,         \*   Worker's variable config
    wcfg,           \*   and mainWorker.cfg
    lastGood,       \* history: what the last accepted reload has read
    workers,        \* sets of queues that some worker listens to
    ticking,        \* the tickers have not been stopped
    aIsRunning,     \* the global flag
    resTable,       \* run whose consumer resultServerConsumers holds, 0 if nil
    resAlive,       \* runs whose result consumer has not been terminated
    dupTable,       \* run whose consumers dupServerConsumers holds, 0 if nil,
    dupKeys,        \*   and its keys
    dupAlive,       \* per run: dup servers whose consumer has not been terminated
    pc,             \* per Shutdown goroutine: where it is,
    startedBy,      \*   the run that started it,
    target,         \*   the run whose consumers it terminates,
    dupTodo,        \*   the dup servers left of its loop
    dupAt,          \*   and the one it sends the request to
    crashed,        \* what made a panic or log.Fatalf end the program, or "no"
    late,           \* history: a signal was taken while a Shutdown goroutine was active,
    racing          \*   and started a second one

sigVars == <<sigChan, sent>>
cfgVars == <<openFiles, cfg, newCfg, config, wcfg, lastGood>>
tables == <<resTable, resAlive, dupTable, dupKeys, dupAlive>>
goVars == <<pc, startedBy, target, dupTodo, dupAt>>
history == <<late, racing>>
vars == <<run, loop, sigVars, exit, cfgVars, workers, ticking, aIsRunning, tables, goVars,
          crashed, history>>

Init ==
    /\ run = 1 /\ loop = "init"
    /\ sigChan = <<>> /\ sent = 0
    /\ exit = "Reload"                      \* zero value of MainStateType
    /\ openFiles \in OpenFilesLimits
    /\ lastGood \in {read \in Readings : read.ok}
    /\ config = lastGood.config
    /\ cfg = config /\ newCfg = NoConfig /\ wcfg = NoConfig
    /\ workers = {}
    /\ ticking = FALSE /\ aIsRunning = FALSE
    /\ resTable = 0 /\ resAlive = {}
    /\ dupTable = 0 /\ dupKeys = {} /\ dupAlive = [n \in Runs |-> {}]
    /\ pc = [g \in Goroutines |-> "none"]
    /\ startedBy = [g \in Goroutines |-> 0]
    /\ target = [g \in Goroutines |-> 0]
    /\ dupTodo = [g \in Goroutines |-> {}]
    /\ dupAt = [g \in Goroutines |-> {}]
    /\ crashed = "no" /\ late = FALSE /\ racing = FALSE

Alive == loop # "exited" /\ crashed = "no"
ShutdownRuns == \E g \in Goroutines : pc[g] \notin {"none", "gone"}

-----------------------------------------------------------------------------
\* Mutant: a channel that takes any number of signals.
SendUnbounded(sig) ==
    /\ Alive /\ sent < MaxSignals
    /\ sent' = sent + 1
    /\ sigChan' = Append(sigChan, sig)
    /\ UNCHANGED <<run, loop, exit, cfgVars, workers, ticking, aIsRunning, tables, goVars,
                   crashed, history>>

(***************************************************************************)
(* Signals.  osSignalChan drops what does not fit, and what arrives before *)
(* a new run listens goes to the channel of the run that has ended.        *)
(***************************************************************************)
Send(sig) ==
    /\ Alive /\ sent < MaxSignals
    /\ sent' = sent + 1
    /\ \/ sigChan = <<>> /\ sigChan' = <<sig>>
       \/ (sigChan # <<>> \/ (loop = "init" /\ run > 1)) /\ UNCHANGED sigChan
    /\ UNCHANGED <<run, loop, exit, cfgVars, workers, ticking, aIsRunning, tables, goVars,
                   crashed, history>>

\* mainLoop up to newMainWorker: the key is read, the configuration of the run (one object
\* for Worker, mainLoop and the new mainWorker) is clamped, result consumers start
InitResultServerConsumers ==
    LET clamped == ClampToOpenFiles(cfg, openFiles) IN
      /\ Alive /\ loop = "init" /\ HasKey(cfg)
      /\ NumResultServer(clamped) >= 0
      /\ loop' = "initDup"
      /\ cfg' = clamped /\ config' = clamped /\ wcfg' = clamped
      /\ aIsRunning' = TRUE
      /\ IF NumResultServer(clamped) = 0
         THEN resTable' = 0 /\ UNCHANGED resAlive
         ELSE resTable' = run /\ resAlive' = resAlive \cup {run}
      /\ UNCHANGED <<run, sigVars, exit, openFiles, newCfg, lastGood, workers, ticking,
                     dupTable, dupKeys, dupAlive, goVars,
                   crashed, history>>

\* no key, or a negative number of result consumers
StartFails ==
    /\ Alive /\ loop = "init"
    /\ \/ ~HasKey(cfg) /\ crashed' = "key"
       \/ /\ HasKey(cfg) /\ NumResultServer(ClampToOpenFiles(cfg, openFiles)) < 0
          /\ crashed' = "open files"
    /\ UNCHANGED <<run, loop, sigVars, exit, cfgVars, workers, ticking, aIsRunning, tables,
                   goVars, history>>

InitDupServerConsumers ==
    /\ Alive /\ loop = "initDup"
    /\ loop' = "select"
    /\ ticking' = TRUE
    /\ IF wcfg.dupserver = <<>>
       THEN UNCHANGED <<dupTable, dupKeys, dupAlive>>
       ELSE /\ dupTable' = run
            /\ dupKeys' = ToSet(wcfg.dupserver)
            /\ dupAlive' = [dupAlive EXCEPT ![run] = dupKeys']
    /\ UNCHANGED <<run, sigVars, exit, cfgVars, workers, aIsRunning, resTable, resAlive,
                   goVars,
                   crashed, history>>

\* a tick: manageWorkers may start a worker with the configuration of mainWorker
StartWorker ==
    /\ Alive /\ loop = "select" /\ ticking
    /\ cfg # NoConfig
    /\ wcfg.minWorker > 0 \/ wcfg.maxWorker > 0
    /\ workers' = workers \cup {Queues(wcfg)}
    /\ UNCHANGED <<run, loop, sigVars, exit, cfgVars, ticking, aIsRunning, tables, goVars,
                   crashed, history>>

\* a worker is stopped (idle, or a change of the servers), or loses its connection
WorkerEnds(queues) ==
    /\ Alive /\ queues \in workers
    /\ workers' = workers \ {queues}
    /\ UNCHANGED <<run, loop, sigVars, exit, cfgVars, ticking, aIsRunning, tables, goVars,
                   crashed, history>>

\* after the workers a tick checks the EPN server of cfg, which may be nil
TickWithoutConfig ==
    /\ Alive /\ loop = "select" /\ ticking
    /\ cfg = NoConfig
    /\ crashed' = "nil configuration"
    /\ UNCHANGED <<run, loop, sigVars, exit, cfgVars, workers, ticking, aIsRunning, tables,
                   goVars, history>>

\* Mutant: the tickers are not stopped.
StartShutdownTicking ==
    LET g == Cardinality({h \in Goroutines : pc[h] # "none"}) + 1 IN
      /\ UNCHANGED ticking
      /\ aIsRunning' = FALSE
      /\ pc' = [pc EXCEPT ![g] = "workers"]
      /\ startedBy' = [startedBy EXCEPT ![g] = run]
      /\ late' = (late \/ ShutdownRuns)
      /\ racing' = (racing \/ ShutdownRuns)
      /\ UNCHANGED <<target, dupTodo, dupAt>>

\* the loop stops its tickers and starts a goroutine that runs mainWorker.Shutdown
StartShutdown ==
    LET g == Cardinality({h \in Goroutines : pc[h] # "none"}) + 1 IN
      /\ ticking' = FALSE
      /\ aIsRunning' = FALSE
      /\ pc' = [pc EXCEPT ![g] = "workers"]
      /\ startedBy' = [startedBy EXCEPT ![g] = run]
      /\ late' = (late \/ ShutdownRuns)
      /\ racing' = (racing \/ ShutdownRuns)
      /\ UNCHANGED <<target, dupTodo, dupAt>>

HandleTermination ==
    /\ Alive /\ loop = "select"
    /\ sigChan # <<>> /\ Head(sigChan) \in {"SIGINT", "SIGTERM"}
    /\ sigChan' = <<>>
    /\ exit' = IF Head(sigChan) = "SIGINT" THEN "Shutdown" ELSE "ShutdownGraceFully"
    /\ StartShutdown
    /\ UNCHANGED <<run, loop, sent, cfgVars, workers, tables, crashed>>

(***************************************************************************)
(* applyConfigChanges reads what the files contain by now; what it returns *)
(* becomes cfg and newCfg whether or not it is any good.                   *)
(***************************************************************************)
Reloading == Alive /\ loop = "select" /\ sigChan = <<"SIGHUP">>

ApplyConfigChanges(read) ==
    /\ sigChan' = <<>>
    /\ exit' = "Reload"
    /\ cfg' = read.config /\ newCfg' = read.config
    /\ UNCHANGED <<run, loop, sent, openFiles, config, workers, tables, crashed>>

ReloadRefused(read) ==
    /\ Reloading /\ ~read.ok
    /\ ApplyConfigChanges(read)
    /\ late' = (late \/ ShutdownRuns)
    /\ UNCHANGED <<wcfg, lastGood, ticking, aIsRunning, goVars, racing>>

ReloadInPlace(read) ==
    /\ Reloading /\ read.ok /\ ~RestartRequired(read.config, wcfg)
    /\ HasKey(read.config)
    /\ ApplyConfigChanges(read)
    /\ wcfg' = read.config
    /\ lastGood' = read
    /\ late' = (late \/ ShutdownRuns)
    /\ UNCHANGED <<ticking, aIsRunning, goVars, racing>>

\* the cipher is recreated before anything is assigned
ReloadWithoutKey(read) ==
    /\ Reloading /\ read.ok /\ ~RestartRequired(read.config, wcfg)
    /\ ~HasKey(read.config)
    /\ crashed' = "key"
    /\ late' = (late \/ ShutdownRuns)
    /\ UNCHANGED <<run, loop, sigVars, exit, cfgVars, workers, ticking, aIsRunning, tables,
                   goVars, racing>>

ReloadWithRestart(read) ==
    /\ Reloading /\ read.ok /\ RestartRequired(read.config, wcfg)
    /\ ApplyConfigChanges(read)
    /\ lastGood' = read
    /\ StartShutdown
    /\ UNCHANGED wcfg

\* Mutant: Worker goes on with the configuration it has.
MainLoopExitedOldConfig(g) ==
    /\ Alive /\ loop = "select"
    /\ pc[g] = "report" /\ startedBy[g] = run
    /\ pc' = [pc EXCEPT ![g] = "gone"]
    /\ IF exit # "Reload"
       THEN /\ loop' = "exited"
            /\ UNCHANGED <<run, sigChan, exit, cfg, newCfg, config>>
       ELSE /\ loop' = "init"
            /\ run' = run + 1
            /\ sigChan' = <<>>              \* the next run makes a channel of its own
            /\ config' = config
            /\ cfg' = config' /\ newCfg' = NoConfig
            /\ UNCHANGED exit
    /\ UNCHANGED <<sent, openFiles, wcfg, lastGood, workers, ticking, aIsRunning,
                   tables, startedBy, target, dupTodo, dupAt, crashed, history>>

\* Mutant: only SIGINT is taken for a reason to return.
MainLoopExitedOnSigint(g) ==
    /\ Alive /\ loop = "select"
    /\ pc[g] = "report" /\ startedBy[g] = run
    /\ pc' = [pc EXCEPT ![g] = "gone"]
    /\ IF exit = "Shutdown"
       THEN /\ loop' = "exited"
            /\ UNCHANGED <<run, sigChan, exit, cfg, newCfg, config>>
       ELSE /\ loop' = "init"
            /\ run' = run + 1
            /\ sigChan' = <<>>              \* the next run makes a channel of its own
            /\ config' = IF newCfg # NoConfig THEN newCfg ELSE config
            /\ cfg' = config' /\ newCfg' = NoConfig
            /\ UNCHANGED exit
    /\ UNCHANGED <<sent, openFiles, wcfg, lastGood, workers, ticking, aIsRunning,
                   tables, startedBy, target, dupTodo, dupAt, crashed, history>>

\* <-mainLoopExited: mainLoop returns, and Worker runs it again or returns as well
MainLoopExited(g) ==
    /\ Alive /\ loop = "select"
    /\ pc[g] = "report" /\ startedBy[g] = run
    /\ pc' = [pc EXCEPT ![g] = "gone"]
    /\ IF exit # "Reload"
       THEN /\ loop' = "exited"
            /\ UNCHANGED <<run, sigChan, exit, cfg, newCfg, config>>
       ELSE /\ loop' = "init"
            /\ run' = run + 1
            /\ sigChan' = <<>>              \* the next run makes a channel of its own
            /\ config' = IF newCfg # NoConfig THEN newCfg ELSE config
            /\ cfg' = config' /\ newCfg' = NoConfig
            /\ UNCHANGED exit
    /\ UNCHANGED <<sent, openFiles, wcfg, lastGood, workers, ticking, aIsRunning,
                   tables, startedBy, target, dupTodo, dupAt, crashed, history>>

-----------------------------------------------------------------------------
(***************************************************************************)
(* A goroutine that runs mainWorker.Shutdown.                              *)
(***************************************************************************)

\* StopAllWorker and the wait for the queue are over: no worker takes a job any more;
\* dupServerConsumers is read
WorkersStopped(g) ==
    /\ Alive /\ pc[g] = "workers"
    /\ pc' = [pc EXCEPT ![g] = "dup"]
    /\ workers' = {}
    /\ target' = [target EXCEPT ![g] = dupTable]
    /\ dupTodo' = [dupTodo EXCEPT ![g] = dupKeys]
    /\ UNCHANGED <<run, loop, sigVars, exit, cfgVars, ticking, aIsRunning, tables,
                   startedBy, dupAt, crashed, history>>

\* Mutant: a dup consumer may be asked to terminate twice.
NextDupAgain(g, d) ==
    /\ Alive /\ pc[g] = "dup" /\ d \in dupTodo[g]
    /\ pc' = [pc EXCEPT ![g] = "dupSend"]
    /\ dupAt' = [dupAt EXCEPT ![g] = {d}]
    /\ UNCHANGED <<run, loop, sigVars, exit, cfgVars, workers, ticking, aIsRunning, tables,
                   startedBy, target, dupTodo, crashed, history>>

\* ranging over a map: any order
NextDup(g, d) ==
    /\ Alive /\ pc[g] = "dup" /\ d \in dupTodo[g]
    /\ pc' = [pc EXCEPT ![g] = "dupSend"]
    /\ dupAt' = [dupAt EXCEPT ![g] = {d}]
    /\ dupTodo' = [dupTodo EXCEPT ![g] = @ \ {d}]
    /\ UNCHANGED <<run, loop, sigVars, exit, cfgVars, workers, ticking, aIsRunning, tables,
                   startedBy, target, crashed, history>>

\* the request can be sent only to a consumer that still runs
TerminateDup(g) ==
    /\ Alive /\ pc[g] = "dupSend" /\ dupAt[g] \subseteq dupAlive[target[g]]
    /\ dupAlive' = [dupAlive EXCEPT ![target[g]] = @ \ dupAt[g]]
    /\ pc' = [pc EXCEPT ![g] = "dup"]
    /\ dupAt' = [dupAt EXCEPT ![g] = {}]
    /\ UNCHANGED <<run, loop, sigVars, exit, cfgVars, workers, ticking, aIsRunning, resTable,
                   resAlive, dupTable, dupKeys, startedBy, target, dupTodo, crashed, history>>

DupTerminated(g) ==
    /\ Alive /\ pc[g] = "dup" /\ dupTodo[g] = {}
    /\ dupTable' = 0 /\ dupKeys' = {}
    /\ pc' = [pc EXCEPT ![g] = "res"]
    /\ UNCHANGED <<run, loop, sigVars, exit, cfgVars, workers, ticking, aIsRunning, resTable,
                   resAlive, dupAlive, startedBy, target, dupTodo, dupAt, crashed, history>>

\* Mutant: resultServerConsumers is set to nil before the loop.
RangeResultResetFirst(g) ==
    /\ Alive /\ pc[g] = "res"
    /\ pc' = [pc EXCEPT ![g] = IF resTable = 0 THEN "report" ELSE "resIndex"]
    /\ resTable' = 0
    /\ UNCHANGED <<run, loop, sigVars, exit, cfgVars, workers, ticking, aIsRunning, resAlive, dupTable,
                   dupKeys, dupAlive,
                   startedBy, target, dupTodo, dupAt, crashed, history>>

\* for i := range resultServerConsumers
RangeResult(g) ==
    /\ Alive /\ pc[g] = "res"
    /\ pc' = [pc EXCEPT ![g] = IF resTable = 0 THEN "report" ELSE "resIndex"]
    /\ UNCHANGED <<run, loop, sigVars, exit, cfgVars, workers, ticking, aIsRunning, tables,
                   startedBy, target, dupTodo, dupAt, crashed, history>>

\* resultServerConsumers[i] reads the variable again: it may be nil by now
IndexResult(g) ==
    /\ Alive /\ pc[g] = "resIndex"
    /\ target' = [target EXCEPT ![g] = resTable]
    /\ pc' = [pc EXCEPT ![g] = "resSend"]
    /\ crashed' = IF resTable = 0 THEN "nil consumers" ELSE crashed
    /\ UNCHANGED <<run, loop, sigVars, exit, cfgVars, workers, ticking, aIsRunning, tables,
                   startedBy, dupTodo, dupAt, history>>

TerminateResult(g) ==
    /\ Alive /\ pc[g] = "resSend" /\ target[g] \in resAlive
    /\ resAlive' = resAlive \ {target[g]}
    /\ resTable' = 0
    /\ pc' = [pc EXCEPT ![g] = "report"]
    /\ UNCHANGED <<run, loop, sigVars, exit, cfgVars, workers, ticking, aIsRunning, dupTable,
                   dupKeys, dupAlive, startedBy, target, dupTodo, dupAt, crashed, history>>

-----------------------------------------------------------------------------
Loop ==
    \/ InitResultServerConsumers \/ InitDupServerConsumers \/ StartFails
    \/ TickWithoutConfig \/ HandleTermination
    \/ \E read \in Readings :
         \/ ReloadRefused(read) \/ ReloadInPlace(read)
         \/ ReloadWithRestart(read) \/ ReloadWithoutKey(read)
    \/ \E g \in Goroutines : MainLoopExited(g)

Workers ==
    \/ StartWorker
    \/ \E queues \in workers : WorkerEnds(queues)

Shutdown(g) ==
    \/ WorkersStopped(g) \/ TerminateDup(g) \/ DupTerminated(g)
    \/ RangeResult(g) \/ IndexResult(g) \/ TerminateResult(g)
    \/ \E d \in dupTodo[g] : NextDup(g, d)

Next ==
    \/ \E sig \in Signals : Send(sig)
    \/ Loop \/ Workers
    \/ \E g \in Goroutines : Shutdown(g)

\* goroutines run; a consumer takes its termination request (ResultDelivery)
Fairness ==
    /\ WF_vars(Loop)
    /\ \A g \in Goroutines : WF_vars(Shutdown(g))

Spec == Init /\ [][Next]_vars
FairSpec == Spec /\ Fairness

-----------------------------------------------------------------------------
Clamped == {ClampToOpenFiles(c, limit) : c \in Configs, limit \in OpenFilesLimits}
DupServers == UNION {ToSet(c.dupserver) : c \in Configs}

\* Every variable keeps its type (mod_gearman_worker.go).
TypeOK ==
    /\ run \in Runs /\ loop \in {"init", "initDup", "select", "exited"}
    /\ sigChan \in Seq(Signals) /\ Len(sigChan) <= 1 /\ sent \in 0..MaxSignals
    /\ exit \in {"Reload", "Shutdown", "ShutdownGraceFully"}
    /\ openFiles \in OpenFilesLimits /\ lastGood \in Readings
    /\ config \in Configs \cup Clamped
    /\ {cfg, newCfg, wcfg} \subseteq Configs \cup Clamped \cup {NoConfig}
    /\ workers \subseteq {Queues(c) : c \in Configs}
    /\ {ticking, aIsRunning, late, racing} \subseteq BOOLEAN
    /\ crashed \in {"no", "key", "open files", "nil configuration", "nil consumers"}
    /\ resTable \in {0} \cup Runs /\ dupTable \in {0} \cup Runs
    /\ dupKeys \in SUBSET DupServers
    /\ resAlive \in SUBSET Runs /\ dupAlive \in [Runs -> SUBSET DupServers]
    /\ pc \in [Goroutines -> {"none", "workers", "dup", "dupSend", "res", "resIndex",
                              "resSend", "report", "gone"}]
    /\ startedBy \in [Goroutines -> {0} \cup Runs]
    /\ target \in [Goroutines -> {0} \cup Runs]
    /\ dupTodo \in [Goroutines -> SUBSET DupServers]
    /\ dupAt \in [Goroutines -> SUBSET DupServers]

Managing == loop = "select" /\ ticking

WorkersAllowed == MaxPossibleWorker(openFiles) > 0 /\ \A c \in Configs : c.maxWorker > 0

HasConsumers ==
    /\ WorkersAllowed => resTable = run /\ run \in resAlive
    /\ dupAlive[run] = ToSet(wcfg.dupserver)
    /\ dupAlive[run] # {} => dupTable = run /\ dupKeys = dupAlive[run]
    /\ aIsRunning

\* A main loop that manages workers has the consumers their results need: those of its
\* own run, all of them alive, one for every dup server of its configuration, and it counts
\* as running (epn.go:353 gives up otherwise), unless two Shutdown goroutines have run side
\* by side.  Result consumers may be missing where max-worker, or the open files limit that
\* lowers it, is not above zero (resultserver.go:25-36): min-worker workers run all the same.
Serving == Managing /\ ~racing => HasConsumers

InForce == wcfg \in {lastGood.config, ClampToOpenFiles(lastGood.config, openFiles)}

\* The workers are managed by the configuration of the last reload that was accepted,
\* in place or by a restart, and not by one that could not be read or verified, although
\* mainLoop takes that one for its cfg (mod_gearman_worker.go:256); unless a reload was
\* taken while a Shutdown goroutine was active, whose newCfg it replaces.
LastGoodConfig == Managing /\ ~late => InForce

\* The files of the disk that are read, directly or by way of others.
ReadFiles(disk) ==
    LET named(items) == {items[i].value : i \in {k \in DOMAIN items : items[k].key = "config"}}
        closed(S) == named(Arguments) \subseteq S /\ \A f \in S : named(disk[f]) \subseteq S
    IN  {f \in DOMAIN disk : \A S \in SUBSET DOMAIN disk : closed(S) => f \in S}

\* worker.cfg:56-58: a comma separated list of hostgroups, or several lines of them.
HostgroupsAsked(disk) ==
    LET groups(items) == UNION {ToSet(items[i].value) :
                                  i \in {k \in DOMAIN items : items[k].key = "hostgroups"}}
    IN  (groups(Arguments) \cup UNION {groups(disk[f]) : f \in ReadFiles(disk)}) \ {""}

HostgroupsOf(queues) == {q[2] : q \in {p \in queues : p[1] = "hostgroup"}}

\* Every worker that takes jobs listens to exactly those hostgroups that some line of the
\* configuration in force names (worker.go:98-102), workers of before the last reload
\* included, in whatever file and however often the lines say it; unless a signal was taken
\* while a Shutdown goroutine was active.
ListensToConfig ==
    Managing /\ ~late =>
      \A queues \in workers : HostgroupsOf(queues) = HostgroupsAsked(lastGood.disk)

\* Only a second Shutdown goroutine empties a table under one that indexes it.  Apart from
\* that the program panics, or gives up, only because the files could not be read, because
\* a configuration that was accepted names a key file that cannot be read (one that was
\* refused does no harm, unless a signal was taken while a Shutdown goroutine was active),
\* or because a max-worker or the open files limit leaves a negative number of workers.
CrashNeedsBrokenReload ==
    /\ crashed = "nil consumers" => racing
    /\ crashed = "nil configuration" => \E read \in Readings : read.config = NoConfig
    /\ crashed = "key" => late \/ \E read \in Readings : /\ read.ok /\ ~HasKey(read.config)
                                                       /\ read.config.keyfile # ""
    /\ crashed = "open files" => \/ openFiles < OpenFilesNeeded(0)
                                \/ \E c \in Configs : c.maxWorker < 0

Terminating == exit # "Reload" /\ ~ticking

\* SIGTERM and SIGINT end the program, unless a second signal is taken before it is over.
TerminationEnds == Terminating /\ ~late ~> loop = "exited" \/ late

\* Whatever is reloaded and however often the workers are restarted for it, the loop comes
\* back to managing workers with the last accepted configuration, or the program ends,
\* unless a signal was taken while a Shutdown goroutine was active.
ReloadTakesEffect ==
    []<>((Managing /\ InForce) \/ loop = "exited" \/ crashed # "no" \/ late)

\* Violated when signals overlap.  Changes:130 "fix potential race condition during
\* reload while long running plugins are active": of two reloads the slower Shutdown
\* goroutine terminates the consumers of the run that follows.
ServingAcrossReloads == Managing => HasConsumers
=============================================================================
