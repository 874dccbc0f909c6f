----------------------------- MODULE WorkerPool -----------------------------
(***************************************************************************)
(* mainWorker.workerMap, and the four that change it: the main loop        *)
(* (manageWorkers every second, and a reload), the retry goroutine         *)
(* (RetryFailedConnections and StopAllWorker), the goroutines of a         *)
(* worker's Shutdown, and libworker's disconnect handler (errorHandler).   *)
(* workerMapLock guards single accesses only, so every action here is one  *)
(* access and the others run in between.                                   *)
(*                                                                         *)
(* Data left out: workerUtilization (computed here, read by ballooning     *)
(* only: JobExecution lets it be anything), the reason for not starting    *)
(* workers, gauges and logging.  The status worker is present or not.      *)
(***************************************************************************)
EXTENDS Integers, FiniteSets

CONSTANTS
    Ids,                    \* worker objects (pointers) in use at a time
    Servers,                \* config.server
    None,                   \* no worker, no server
    MinWorker, MaxWorker,   \* config.minWorker, config.maxWorker
    SpawnRate, SinkRate,    \* config.spawnRate, config.sinkRate
    MaxFailures,            \* bound: how often a gearmand goes away
    MaxReloads              \* bound: reloads that restart the worker routines

ASSUME WorkerPoolAssumption ==
    /\ None \notin Ids \cup Servers
    /\ MinWorker \in Nat /\ MaxWorker \in Nat
    /\ SpawnRate \in Nat /\ SinkRate \in Nat
    /\ MaxFailures \in Nat /\ MaxReloads \in Nat

VARIABLES
    up,             \* environment: gearmands that accept connections
    failures,       \* how often one went away
    failed,         \* servers with serverStatus # ""
    workerMap,      \* ids in mainWorker.workerMap
    obj,            \* per id: "closed", "up", "stopping" (Shutdown runs) or "canceled"
    conn,           \* per id: servers its libworker is connected to
    broken,         \* per id: connections that were lost and not yet reported
    busy,           \* ids with activeJobs > 0
    current,        \* ids whose mainWorker pointer is the present mainWorker
    statusWorker,   \* mainWorker.statusWorker # nil
    mgr,            \* where manageWorkers is
    mgrLeft,        \* rounds left of its present loop
    mgrWorker,      \* the worker it has just created or is stopping
    activeWorkers,  \* mainWorker.activeWorkers
    idle,           \* idleSince is more than idleTimeout ago
    initialStart,   \* argument of the first manageWorkers of a main loop
    retry,          \* where the retry goroutine is
    retryTodo,      \* servers RetryFailedConnections has not looked at yet
    retryServer,    \* the one it looks at
    previous,       \* its local variables previous,
    dialed,         \*   con != nil
    changed,        \*   and changed
    stopSet,        \* workers StopAllWorker waits for
    phase,          \* main loop: "run", or the progress of a reload
    numWorker, reloads,
    closedLive,     \* history: Cancel closed a worker that nobody was shutting down
    deadEntry       \* history: a worker was registered after it had shut down

envVars == <<up, failures>>
workerVars == <<obj, conn, broken, busy, current>>
mgrVars == <<mgr, mgrLeft, mgrWorker, activeWorkers, idle, initialStart>>
retryVars == <<retry, retryTodo, retryServer, previous, dialed, changed, stopSet>>
lifeVars == <<phase, numWorker, reloads>>
history == <<closedLive, deadEntry>>
vars == <<envVars, failed, workerMap, workerVars, statusWorker, mgrVars, retryVars,
          lifeVars, history>>

\* newMainWorker has run RetryFailedConnections: every server has a status
Init ==
    /\ up \in SUBSET Servers
    /\ failures = 0
    /\ failed = Servers \ up
    /\ workerMap = {}
    /\ obj = [w \in Ids |-> "closed"]
    /\ conn = [w \in Ids |-> {}]
    /\ broken = [w \in Ids |-> {}]
    /\ busy = {}
    /\ current = {}
    /\ statusWorker = FALSE
    /\ mgr = "idle" /\ mgrLeft = 0 /\ mgrWorker = None
    /\ activeWorkers = 0
    /\ idle = FALSE
    /\ initialStart = 0
    /\ retry = "sleep" /\ retryTodo = {} /\ retryServer = None
    /\ previous = FALSE /\ dialed = FALSE /\ changed = FALSE
    /\ stopSet = {}
    /\ phase = "run" /\ numWorker = 0 /\ reloads = 0
    /\ closedLive = FALSE /\ deadEntry = FALSE

\* mainWorker.running; a reload has stopped the tickers before it drops it
running == phase \in {"run", "reload"}

Larger(a, b) == IF a > b THEN a ELSE b

ActiveServerList == Servers \ failed

Busy == workerMap \cap busy

\* Shutdown of the workers W begins, in goroutines of its own or in the caller's
Stopping(W) == [w \in Ids |-> IF w \in W THEN "stopping" ELSE obj[w]]

-----------------------------------------------------------------------------
(***************************************************************************)
(* Environment: gearmands come and go, jobs come and end.                  *)
(***************************************************************************)
ServerFails(s) ==
    /\ s \in up /\ failures < MaxFailures
    /\ up' = up \ {s}
    /\ failures' = failures + 1
    /\ broken' = [w \in Ids |-> IF s \in conn[w] THEN broken[w] \cup {s} ELSE broken[w]]
    /\ UNCHANGED <<failed, workerMap, obj, conn, busy, current, statusWorker, mgrVars,
                   retryVars, lifeVars, history>>

ServerRecovers(s) ==
    /\ s \notin up
    /\ up' = up \cup {s}
    /\ UNCHANGED <<failures, failed, workerMap, workerVars, statusWorker, mgrVars,
                   retryVars, lifeVars, history>>

JobStart(w) ==
    /\ obj[w] = "up" /\ w \notin busy /\ conn[w] \ broken[w] # {}
    /\ busy' = busy \cup {w}
    /\ UNCHANGED <<envVars, failed, workerMap, obj, conn, broken, current, statusWorker,
                   mgrVars, retryVars, lifeVars, history>>

JobEnd(w) ==
    /\ w \in busy
    /\ busy' = busy \ {w}
    /\ UNCHANGED <<envVars, failed, workerMap, obj, conn, broken, current, statusWorker,
                   mgrVars, retryVars, lifeVars, history>>

\* idleTimeout passes since idleSince
IdleTimeout ==
    /\ ~idle
    /\ idle' = TRUE
    /\ UNCHANGED <<envVars, failed, workerMap, workerVars, statusWorker, mgr, mgrLeft,
                   mgrWorker, activeWorkers, initialStart, retryVars, lifeVars, history>>

-----------------------------------------------------------------------------
(***************************************************************************)
(* A worker's errorHandler and the end of its Shutdown.                    *)
(***************************************************************************)

\* errorHandler: SetServerStatus, then Shutdown (which removes the handler)
Disconnect(w, s) ==
    /\ obj[w] = "up" /\ s \in broken[w]
    /\ failed' = failed \cup {s}
    /\ obj' = Stopping({w})
    /\ UNCHANGED <<envVars, workerMap, conn, broken, busy, current, statusWorker, mgrVars,
                   retryVars, lifeVars, history>>

\* the same for the status worker, which has no jobs to wait for
StatusDisconnect(s) ==
    /\ statusWorker /\ s \notin up
    /\ failed' = failed \cup {s}
    /\ statusWorker' = FALSE
    /\ UNCHANGED <<envVars, workerMap, workerVars, mgrVars, retryVars, lifeVars, history>>

\* Mutant: the deferred unregisterWorker is missing.
FinishShutdownRegistered(w) ==
    /\ obj[w] = "stopping" /\ w \notin busy
    /\ obj' = [obj EXCEPT ![w] = "closed"]
    /\ conn' = [conn EXCEPT ![w] = {}]
    /\ broken' = [broken EXCEPT ![w] = {}]
    /\ UNCHANGED workerMap
    /\ UNCHANGED <<envVars, failed, busy, current, statusWorker, mgrVars, retryVars,
                   lifeVars, history>>

(***************************************************************************)
(* Shutdown waits for the current job, closes, and unregisters the worker  *)
(* if its mainWorker is (still) running.                                   *)
(***************************************************************************)
FinishShutdown(w) ==
    /\ obj[w] = "stopping" /\ w \notin busy
    /\ obj' = [obj EXCEPT ![w] = "closed"]
    /\ conn' = [conn EXCEPT ![w] = {}]
    /\ broken' = [broken EXCEPT ![w] = {}]
    /\ workerMap' = IF running /\ w \in current THEN workerMap \ {w} ELSE workerMap
    /\ UNCHANGED <<envVars, failed, busy, current, statusWorker, mgrVars, retryVars,
                   lifeVars, history>>

-----------------------------------------------------------------------------
(***************************************************************************)
(* manageWorkers, in the main loop.                                        *)
(***************************************************************************)

\* status worker, the counts, and how many workers are missing
ManageWorkers ==
    /\ phase = "run" /\ mgr = "idle"
    /\ ActiveServerList # {}
    /\ \/ /\ statusWorker \/ ActiveServerList \subseteq up
          /\ statusWorker' = TRUE
          /\ UNCHANGED failed
       \/ /\ ~statusWorker
          /\ \E s \in ActiveServerList \ up : failed' \in {failed, failed \cup {s}}
          /\ UNCHANGED statusWorker
    /\ activeWorkers' = Cardinality(Busy)
    /\ mgrLeft' = Larger(0, (IF initialStart > 0 THEN initialStart ELSE MinWorker)
                               - Cardinality(workerMap))
    /\ initialStart' = 0
    /\ mgr' = "min"
    /\ UNCHANGED <<envVars, workerMap, workerVars, mgrWorker, idle, retryVars, lifeVars,
                   history>>

\* it returns at once, and the next call is not the first one of this main loop
NoActiveServer ==
    /\ phase = "run" /\ mgr = "idle"
    /\ ActiveServerList = {}
    /\ initialStart' = 0
    /\ UNCHANGED <<envVars, failed, workerMap, workerVars, statusWorker, mgr, mgrLeft,
                   mgrWorker, activeWorkers, idle, retryVars, lifeVars, history>>

(***************************************************************************)
(* newWorker connects to every active server.  One that cannot be reached  *)
(* makes it return nil, and may get a server status.                       *)
(***************************************************************************)
NewWorker(w) ==
    /\ obj[w] = "closed" /\ w \notin workerMap
    /\ ActiveServerList # {} /\ ActiveServerList \subseteq up
    /\ obj' = [obj EXCEPT ![w] = "up"]
    /\ conn' = [conn EXCEPT ![w] = ActiveServerList]
    /\ current' = current \cup {w}
    /\ mgrWorker' = w
    /\ UNCHANGED <<failed, mgrLeft, idle, broken>>

NewWorkerFails ==
    /\ \/ ActiveServerList = {} /\ UNCHANGED failed
       \/ ~(ActiveServerList \subseteq up) /\ UNCHANGED failed
       \/ \E s \in ActiveServerList \ up : failed' = failed \cup {s}
    /\ mgrLeft' = mgrLeft - 1
    /\ idle' = FALSE
    /\ UNCHANGED <<obj, conn, broken, current, mgrWorker>>

\* Mutant: the loop of adjustWorkerTopLevel does not look at maxWorker.
SpawnBeyondMax(l) ==
    /\ mgr = l /\ mgrLeft > 0
    /\ \/ (\E w \in Ids : NewWorker(w)) /\ mgr' = (IF l = "min" THEN "regMin" ELSE "regTop")
       \/ NewWorkerFails /\ mgr' = l
    /\ UNCHANGED <<envVars, workerMap, busy, statusWorker, activeWorkers, initialStart,
                   retryVars, lifeVars, history>>

\* one round of the loop for minWorker (l = "min") or for spawnRate (l = "top")
Spawn(l) ==
    /\ mgr = l /\ mgrLeft > 0
    /\ l = "top" => Cardinality(workerMap) < MaxWorker
    /\ \/ (\E w \in Ids : NewWorker(w)) /\ mgr' = (IF l = "min" THEN "regMin" ELSE "regTop")
       \/ NewWorkerFails /\ mgr' = l
    /\ UNCHANGED <<envVars, workerMap, busy, statusWorker, activeWorkers, initialStart,
                   retryVars, lifeVars, history>>

\* Mutant: no worker is registered while all workers are being stopped.
RegisterUnlessStopping(l) ==
    /\ mgr = (IF l = "min" THEN "regMin" ELSE "regTop")
    /\ workerMap' = IF retry = "wait" THEN workerMap ELSE workerMap \cup {mgrWorker}
    /\ deadEntry' = (deadEntry \/ obj[mgrWorker] = "closed")
    /\ mgr' = l
    /\ mgrLeft' = mgrLeft - 1
    /\ mgrWorker' = None
    /\ idle' = FALSE
    /\ UNCHANGED <<envVars, failed, workerVars, statusWorker, activeWorkers, initialStart,
                   retryVars, lifeVars, closedLive>>

\* registerWorker, and idleSince = now
Register(l) ==
    /\ mgr = (IF l = "min" THEN "regMin" ELSE "regTop")
    /\ workerMap' = workerMap \cup {mgrWorker}
    /\ deadEntry' = (deadEntry \/ obj[mgrWorker] = "closed")
    /\ mgr' = l
    /\ mgrLeft' = mgrLeft - 1
    /\ mgrWorker' = None
    /\ idle' = FALSE
    /\ UNCHANGED <<envVars, failed, workerVars, statusWorker, activeWorkers, initialStart,
                   retryVars, lifeVars, closedLive>>

\* the code's integer arithmetic: active / total * 100
AboveWatermark == (activeWorkers \div Cardinality(workerMap)) * 100 >= 90

AdjustWorkerBottomLevel ==
    /\ mgr = "min" /\ mgrLeft = 0
    /\ IF \/ workerMap = {}
          \/ Cardinality(workerMap) <= MinWorker
          \/ AboveWatermark
          \/ ~idle
       THEN mgr' = "topCheck" /\ UNCHANGED mgrLeft
       ELSE mgr' = "sink" /\ mgrLeft' = (IF SinkRate > 0 THEN SinkRate ELSE SpawnRate)
    /\ UNCHANGED <<envVars, failed, workerMap, workerVars, statusWorker, mgrWorker,
                   activeWorkers, idle, initialStart, retryVars, lifeVars, history>>

\* Mutant: the rounds are not limited by sinkRate.
SinkUnbounded ==
    /\ mgr = "sink" /\ Cardinality(workerMap) > MinWorker
    /\ \/ \E w \in workerMap \ busy :
             mgrWorker' = w /\ mgr' = "sinkOne" /\ UNCHANGED mgrLeft
       \/ /\ workerMap \subseteq busy
          /\ mgrLeft' = mgrLeft - 1
          /\ UNCHANGED <<mgrWorker, mgr>>
    /\ UNCHANGED <<envVars, failed, workerMap, workerVars, statusWorker, activeWorkers,
                   idle, initialStart, retryVars, lifeVars, history>>

\* one round: find an idle worker
Sink ==
    /\ mgr = "sink" /\ mgrLeft > 0 /\ Cardinality(workerMap) > MinWorker
    /\ \/ \E w \in workerMap \ busy :
             mgrWorker' = w /\ mgr' = "sinkOne" /\ UNCHANGED mgrLeft
       \/ /\ workerMap \subseteq busy
          /\ mgrLeft' = mgrLeft - 1
          /\ UNCHANGED <<mgrWorker, mgr>>
    /\ UNCHANGED <<envVars, failed, workerMap, workerVars, statusWorker, activeWorkers,
                   idle, initialStart, retryVars, lifeVars, history>>

\* Mutant: a worker that got a job meanwhile is waited for as it is, still taking jobs.
SinkWaits ==
    /\ mgr = "sinkOne"
    /\ mgrWorker \notin busy
    /\ obj' = Stopping({mgrWorker})
    /\ mgr' = "sinking"
    /\ UNCHANGED <<envVars, failed, workerMap, conn, broken, busy, current, statusWorker,
                   mgrLeft, mgrWorker, activeWorkers, idle, initialStart, retryVars,
                   lifeVars, history>>

\* and shut it down, with the job it may have got since, if any
SinkShutdown ==
    /\ mgr = "sinkOne"
    /\ obj' = Stopping({mgrWorker})
    /\ mgr' = "sinking"
    /\ UNCHANGED <<envVars, failed, workerMap, conn, broken, busy, current, statusWorker,
                   mgrLeft, mgrWorker, activeWorkers, idle, initialStart, retryVars,
                   lifeVars, history>>

Sunk ==
    /\ mgr = "sinking" /\ obj[mgrWorker] # "stopping"
    /\ mgr' = "sink"
    /\ mgrLeft' = mgrLeft - 1
    /\ mgrWorker' = None
    /\ UNCHANGED <<envVars, failed, workerMap, workerVars, statusWorker, activeWorkers,
                   idle, initialStart, retryVars, lifeVars, history>>

SinkDone ==
    /\ mgr = "sink" /\ (mgrLeft = 0 \/ Cardinality(workerMap) <= MinWorker)
    /\ mgr' = "topCheck"
    /\ mgrLeft' = 0
    /\ UNCHANGED <<envVars, failed, workerMap, workerVars, statusWorker, mgrWorker,
                   activeWorkers, idle, initialStart, retryVars, lifeVars, history>>

\* load and memory limits may forbid new workers
AdjustWorkerTopLevel ==
    /\ mgr = "topCheck"
    /\ \/ /\ mgr' = "idle"
          /\ UNCHANGED mgrLeft
       \/ /\ activeWorkers >= Cardinality(workerMap)
          /\ Cardinality(workerMap) < MaxWorker
          /\ mgr' = "top"
          /\ mgrLeft' = SpawnRate
    /\ UNCHANGED <<envVars, failed, workerMap, workerVars, statusWorker, mgrWorker,
                   activeWorkers, idle, initialStart, retryVars, lifeVars, history>>

TopDone ==
    /\ mgr = "top" /\ (mgrLeft = 0 \/ Cardinality(workerMap) >= MaxWorker)
    /\ mgr' = "idle"
    /\ mgrLeft' = 0
    /\ UNCHANGED <<envVars, failed, workerMap, workerVars, statusWorker, mgrWorker,
                   activeWorkers, idle, initialStart, retryVars, lifeVars, history>>

-----------------------------------------------------------------------------
(***************************************************************************)
(* The retry goroutine: RetryFailedConnections reads a status, dials       *)
(* without the lock, writes the status; if it saw a change all workers are *)
(* stopped, for manageWorkers to start new ones.                           *)
(***************************************************************************)
RetryStart ==
    /\ running /\ retry = "sleep"
    /\ retry' = "read"
    /\ retryTodo' = Servers
    /\ changed' = FALSE
    /\ UNCHANGED <<envVars, failed, workerMap, workerVars, statusWorker, mgrVars,
                   retryServer, previous, dialed, stopSet, lifeVars, history>>

RetryRead(s) ==
    /\ retry = "read" /\ s \in retryTodo
    /\ retryServer' = s
    /\ previous' = (s \notin failed)
    /\ retry' = "dial"
    /\ UNCHANGED <<envVars, failed, workerMap, workerVars, statusWorker, mgrVars,
                   retryTodo, dialed, changed, stopSet, lifeVars, history>>

RetryDial ==
    /\ retry = "dial"
    /\ dialed' = (retryServer \in up)
    /\ retry' = "write"
    /\ UNCHANGED <<envVars, failed, workerMap, workerVars, statusWorker, mgrVars,
                   retryTodo, retryServer, previous, changed, stopSet, lifeVars, history>>

\* Mutant: the error of a server that answers again is kept.
RetryWriteSticky ==
    /\ retry = "write"
    /\ failed' = IF dialed THEN failed ELSE failed \cup {retryServer}
    /\ changed' = (changed \/ dialed # previous)
    /\ retryTodo' = retryTodo \ {retryServer}
    /\ retry' = IF retryTodo' # {} THEN "read" ELSE IF changed' THEN "stop" ELSE "sleep"
    /\ retryServer' = None /\ previous' = FALSE /\ dialed' = FALSE
    /\ UNCHANGED <<envVars, workerMap, workerVars, statusWorker, mgrVars,
                   stopSet, lifeVars, history>>

RetryWrite ==
    /\ retry = "write"
    /\ failed' = IF dialed THEN failed \ {retryServer} ELSE failed \cup {retryServer}
    /\ changed' = (changed \/ dialed # previous)
    /\ retryTodo' = retryTodo \ {retryServer}
    /\ retry' = IF retryTodo' # {} THEN "read" ELSE IF changed' THEN "stop" ELSE "sleep"
    /\ retryServer' = None /\ previous' = FALSE /\ dialed' = FALSE
    /\ UNCHANGED <<envVars, workerMap, workerVars, statusWorker, mgrVars,
                   stopSet, lifeVars, history>>

\* StopAllWorker: Shutdown of every worker in the map, in goroutines
StopAllWorker ==
    /\ retry = "stop"
    /\ IF workerMap = {}
       THEN retry' = "sleep" /\ UNCHANGED <<obj, stopSet>>
       ELSE retry' = "wait" /\ obj' = Stopping(workerMap) /\ stopSet' = workerMap
    /\ changed' = FALSE
    /\ UNCHANGED <<envVars, failed, workerMap, conn, broken, busy, current, statusWorker,
                   mgrVars, retryTodo, retryServer, previous, dialed, lifeVars, history>>

(***************************************************************************)
(* After the grace period StopAllWorker calls Cancel on whatever is in the *)
(* map by then: the connection of a busy worker is closed, its job killed. *)
(***************************************************************************)
CancelAll ==
    /\ obj' = [w \in Ids |-> IF w \in Busy /\ obj[w] = "up" THEN "canceled" ELSE obj[w]]
    /\ closedLive' = (closedLive \/ \E w \in Busy : obj[w] = "up")

AllStopped ==
    /\ retry = "wait"
    /\ \/ (\A w \in stopSet : obj[w] # "stopping") /\ UNCHANGED <<obj, closedLive>>
       \/ (\E w \in stopSet : obj[w] = "stopping") /\ CancelAll
    /\ statusWorker' = FALSE
    /\ retry' = "sleep"
    /\ stopSet' = {}
    /\ UNCHANGED <<envVars, failed, workerMap, conn, broken, busy, current, mgrVars,
                   retryTodo, retryServer, previous, dialed, changed, lifeVars,
                   deadEntry>>

-----------------------------------------------------------------------------
(***************************************************************************)
(* A reload that restarts the worker routines: mainWorker.Shutdown, then a *)
(* new mainWorker on the same map.  The old retry goroutine is through     *)
(* with its round by then (one that is not is left out).                   *)
(***************************************************************************)
ReloadBegin ==
    /\ phase = "run" /\ mgr = "idle" /\ reloads < MaxReloads
    /\ reloads' = reloads + 1
    /\ numWorker' = Cardinality(workerMap)
    /\ phase' = "reload"
    /\ UNCHANGED <<envVars, failed, workerMap, workerVars, statusWorker, mgrVars,
                   retryVars, history>>

\* running = false; a worker that ends before it has unregistered itself
ReloadShutdown ==
    /\ phase = "reload"
    /\ phase' = "shutdown"
    /\ UNCHANGED <<envVars, failed, workerMap, workerVars, statusWorker, mgrVars,
                   retryVars, numWorker, reloads, history>>

ReloadStopAll ==
    /\ phase = "shutdown"
    /\ obj' = Stopping(workerMap)
    /\ phase' = "wait"
    /\ UNCHANGED <<envVars, failed, workerMap, conn, broken, busy, current, statusWorker,
                   mgrVars, retryVars, numWorker, reloads, history>>

ReloadRestart ==
    /\ phase = "wait" /\ retry = "sleep"
    /\ phase' = "run"
    /\ initialStart' = numWorker - Cardinality(workerMap)
    /\ current' = {}
    /\ failed' = Servers \ up
    /\ statusWorker' = FALSE
    /\ activeWorkers' = 0
    /\ idle' = FALSE
    /\ IF \A w \in workerMap : obj[w] # "stopping"
       THEN UNCHANGED <<obj, closedLive>>
       ELSE CancelAll
    /\ UNCHANGED <<envVars, workerMap, conn, broken, busy, mgr, mgrLeft, mgrWorker,
                   retryVars, numWorker, reloads, deadEntry>>

-----------------------------------------------------------------------------
Manager ==
    \/ ManageWorkers \/ NoActiveServer \/ Spawn("min") \/ Register("min")
    \/ AdjustWorkerBottomLevel \/ Sink \/ SinkShutdown \/ Sunk \/ SinkDone
    \/ AdjustWorkerTopLevel \/ Spawn("top") \/ Register("top") \/ TopDone

Retry ==
    \/ RetryStart \/ (\E s \in Servers : RetryRead(s)) \/ RetryDial \/ RetryWrite
    \/ StopAllWorker \/ AllStopped

Reload == ReloadBegin \/ ReloadShutdown \/ ReloadStopAll \/ ReloadRestart

Environment ==
    \/ \E s \in Servers : ServerFails(s) \/ ServerRecovers(s) \/ StatusDisconnect(s)
    \/ \E w \in Ids : JobStart(w) \/ JobEnd(w)
    \/ IdleTimeout

Workers ==
    \E w \in Ids : FinishShutdown(w) \/ \E s \in Servers : Disconnect(w, s)

Next == Manager \/ Retry \/ Reload \/ Environment \/ Workers

(***************************************************************************)
(* The goroutines run, tickers fire, jobs end (they have a timeout), lost  *)
(* connections are noticed, and a gearmand comes back.                     *)
(***************************************************************************)
Fairness ==
    /\ WF_vars(Manager) /\ WF_vars(Retry)
    /\ WF_vars(ReloadShutdown) /\ WF_vars(ReloadStopAll) /\ SF_vars(ReloadRestart)
    /\ \A w \in Ids :
          WF_vars(JobEnd(w)) /\ WF_vars(FinishShutdown(w))
             /\ WF_vars(\E s \in Servers : Disconnect(w, s))
    /\ \A s \in Servers : WF_vars(ServerRecovers(s))

Spec == Init /\ [][Next]_vars
FairSpec == Spec /\ Fairness

-----------------------------------------------------------------------------
(***************************************************************************)
(* Every variable keeps its type (mainWorker.go): the loops of             *)
(* manageWorkers never run past their last round.                          *)
(***************************************************************************)
TypeOK ==
    /\ up \subseteq Servers /\ failed \subseteq Servers
    /\ failures \in 0..MaxFailures
    /\ workerMap \subseteq Ids /\ busy \subseteq Ids /\ current \subseteq Ids
    /\ obj \in [Ids -> {"closed", "up", "stopping", "canceled"}]
    /\ conn \in [Ids -> SUBSET Servers]
    /\ broken \in [Ids -> SUBSET Servers]
    /\ statusWorker \in BOOLEAN
    /\ mgr \in {"idle", "min", "regMin", "sink", "sinkOne", "sinking",
               "topCheck", "top", "regTop"}
    /\ mgrLeft \in Nat
    /\ mgrWorker \in Ids \cup {None}
    /\ activeWorkers \in Nat
    /\ idle \in BOOLEAN
    /\ initialStart \in Int
    /\ retry \in {"sleep", "read", "dial", "write", "stop", "wait"}
    /\ retryTodo \subseteq Servers
    /\ retryServer \in Servers \cup {None}
    /\ previous \in BOOLEAN /\ dialed \in BOOLEAN /\ changed \in BOOLEAN
    /\ stopSet \subseteq Ids
    /\ phase \in {"run", "reload", "shutdown", "wait"}
    /\ numWorker \in Nat /\ reloads \in 0..MaxReloads
    /\ closedLive \in BOOLEAN /\ deadEntry \in BOOLEAN

Live == {w \in workerMap : obj[w] = "up"}

(***************************************************************************)
(* The map never holds more workers than configured, whatever disappears   *)
(* and is registered while manageWorkers counts down its loops.            *)
(***************************************************************************)
PoolBounded == Cardinality(workerMap) <= Larger(MinWorker, MaxWorker)

(***************************************************************************)
(* A connected worker is never forgotten: it is in the map or about to be  *)
(* put there, so that StopAllWorker and Shutdown can reach it.             *)
(***************************************************************************)
NoOrphan == \A w \in Ids : obj[w] = "up" => w \in workerMap \/ w = mgrWorker

(***************************************************************************)
(* A worker the present mainWorker started is alive or on its way out as   *)
(* long as it is in the map, unless one of two races happened: Shutdown of *)
(* a new worker overtook registerWorker, or the Cancel of StopAllWorker    *)
(* hit a worker started after it began.                                    *)
(***************************************************************************)
NoDeadEntry ==
    running /\ ~deadEntry /\ ~closedLive =>
        \A w \in workerMap \cap current : obj[w] \in {"up", "stopping"}

(***************************************************************************)
(* worker.cfg:101, "Minimum number of worker processes which should run at *)
(* any time": once the servers stay up, the pool stays at its minimum,     *)
(* unless one of the two races above happened.                             *)
(***************************************************************************)
MinWorkersRunning ==
    <>[](Cardinality(Live) >= MinWorker) \/ <>(deadEntry \/ closedLive)

(***************************************************************************)
(* The server status settles on the truth, in spite of stale writes.       *)
(***************************************************************************)
StatusConverges == <>[](failed = Servers \ up)

(***************************************************************************)
(* The main loop comes back from manageWorkers, though the worker it saw   *)
(* idle may have a job when it shuts it down, which it then waits for:     *)
(* signals are handled again (mainWorker.go:239-240).                      *)
(***************************************************************************)
MainLoopResponds == mgr # "idle" ~> mgr = "idle"

(***************************************************************************)
(* The pool is at its minimum again some time after a reload (worker.cfg:  *)
(* 101, mod_gearman_worker.go:278).  The code violates it.                 *)
(***************************************************************************)
MinWorkersAfterReload ==
    <>[](Cardinality(Live) >= MinWorker) \/ <>(deadEntry \/ closedLive)
=============================================================================
