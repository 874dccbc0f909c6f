---------------------------- MODULE JobExecution ----------------------------
(***************************************************************************)
(* The check workers of worker.go handling jobs.  libworker calls doWork   *)
(* of a worker for one job at a time (libworker.OneByOne).  The handler    *)
(* decrypts the job, lists it in worker.jobs and runs it: in line, or, if  *)
(* ballooning is considered, in a goroutine of its own which the handler   *)
(* may leave behind ("ballooning", backgrounding) when a ticker fires.     *)
(* Executing a job ends with its result in resultServerQueue.              *)
(*                                                                         *)
(* Shutdown and Cancel run in other goroutines, at any time, and a pointer *)
(* that one of them tests another one may set to nil before it is used:    *)
(* the panic ends the program, jobs and all (crashed).  activeJobs         *)
(* and curBallooningWorker are plain ints: x++ and x-- are a load and a    *)
(* store, with the steps of other goroutines in between.                   *)
(*                                                                         *)
(* Data left out: mainWorker.tasks (a statistic), the answer's content,    *)
(* logging, the prometheus mirror of curBallooningWorker, the order of     *)
(* worker.jobs (nothing depends on it).                                    *)
(***************************************************************************)
EXTENDS Integers, FiniteSets

CONSTANTS
    Workers,                \* check workers of mainWorker.workerMap
    Jobs,                   \* jobs gearmand will assign
    NoJob, NoWorker,        \* "nothing yet"
    ResultJobs,             \* jobs that carry a result queue
    BackgroundingThreshold, \* config.backgroundingThreshold
    BallooningSlots,        \* mainWorker.maxPossibleWorker - config.maxWorker
    QueueSize,              \* capacity of resultServerQueue
    Stoppable               \* bound: workers that may be shut down and canceled, once each

ASSUME JobExecutionAssumption ==
    /\ NoJob \notin Jobs
    /\ NoWorker \notin Workers
    /\ ResultJobs \subseteq Jobs
    /\ BackgroundingThreshold \in Int
    /\ BallooningSlots \in Int
    /\ QueueSize \in Nat \ {0}
    /\ Stoppable \subseteq Workers

\* mainWorker.workerMap is a map in memory
ASSUME FinitelyManyWorkers == IsFiniteSet(Workers)

VARIABLES
    pc,             \* per worker: where doWork is
    cur,            \* per worker: the job doWork handles
    reg,            \* per worker: value doWork loaded from a counter
    activeJobs,     \* per worker: worker.activeJobs
    jobs,           \* per worker: the members of worker.jobs
    shutdownPC,     \* per worker: progress of worker.Shutdown
    cancelPC,       \* per worker: progress of worker.Cancel (it holds worker.lock)
    victims,        \* per worker: the listed jobs that Cancel has not looked at yet
    target,         \* per worker: the job whose Cancel function it is about to call
    open,           \* per worker: connection to gearmand
    status,         \* per job: what gearmand knows of it
    owner,          \* per job: the worker that handles it
    exec,           \* per job: progress of executeJob and of its goroutine
    execReg,        \* per job: value its goroutine loaded from a counter
    async,          \* jobs executed in a goroutine of their own
    hasCancel,      \* jobs with received.Cancel # nil
    canceled,       \* jobs with received.Canceled set
    ballooning,     \* jobs with received.ballooning set
    curBallooningWorker,
    results,        \* per job: how often its result was put into resultServerQueue
    queueLen,       \* len(resultServerQueue)
    crashed,        \* a nil pointer has ended the program
    racedActive,    \* history: workers that lost an update of activeJobs
    racedBallooning,\* history: an update of curBallooningWorker was lost
    due             \* history, per worker: jobs whose process ran, and could be canceled,
                    \*   when Cancel took the lock

handlerVars == <<pc, cur, reg, activeJobs, jobs>>
stopVars == <<shutdownPC, cancelPC, victims, target, open, crashed, due>>
cancelVars == <<cancelPC, victims, target, crashed, due>>
jobVars == <<status, owner, exec, execReg, async, hasCancel, canceled, ballooning>>
resultVars == <<results, queueLen>>
raceVars == <<racedActive, racedBallooning>>
vars == <<handlerVars, stopVars, jobVars, curBallooningWorker, resultVars, raceVars>>

CancelPC == {"none", "lock", "kill", "call", "close", "done"}
HandlerPC == {"idle", "count", "decrypt", "reject", "inline", "uncount",
              "select", "balloon", "balloonAdd", "balloonMark", "return", "fail"}
ExecPC == {"none", "start", "started", "running", "executed", "enqueue",
           "returned", "uncount", "flag", "unballoon", "done"}

Init ==
    /\ pc = [w \in Workers |-> "idle"]
    /\ cur = [w \in Workers |-> NoJob]
    /\ reg = [w \in Workers |-> 0]
    /\ activeJobs = [w \in Workers |-> 0]
    /\ jobs = [w \in Workers |-> {}]
    /\ shutdownPC = [w \in Workers |-> "up"]
    /\ cancelPC = [w \in Workers |-> "none"]
    /\ victims = [w \in Workers |-> {}]
    /\ target = [w \in Workers |-> NoJob]
    /\ open = [w \in Workers |-> TRUE]
    /\ status = [j \in Jobs |-> "waiting"]
    /\ owner = [j \in Jobs |-> NoWorker]
    /\ exec = [j \in Jobs |-> "none"]
    /\ execReg = [j \in Jobs |-> 0]
    /\ async = {} /\ hasCancel = {} /\ canceled = {} /\ ballooning = {}
    /\ curBallooningWorker = 0
    /\ results = [j \in Jobs |-> 0]
    /\ queueLen = 0
    /\ crashed = FALSE
    /\ racedActive = {}
    /\ racedBallooning = FALSE
    /\ due = [w \in Workers |-> {}]

(***************************************************************************)
(* worker.lock: Cancel holds it while it goes through worker.jobs.         *)
(***************************************************************************)
LockFree(w) == cancelPC[w] \notin {"kill", "call", "close"}

\* the store of activeJobs++ (d = 1) or activeJobs-- (d = -1) after its load of v
StoreActive(w, v, d) ==
    /\ activeJobs' = [activeJobs EXCEPT ![w] = v + d]
    /\ racedActive' = IF activeJobs[w] = v THEN racedActive ELSE racedActive \cup {w}

\* the same for curBallooningWorker
StoreBallooning(v, d) ==
    /\ curBallooningWorker' = v + d
    /\ racedBallooning' = (racedBallooning \/ curBallooningWorker # v)

Goto(w, l) == pc' = [pc EXCEPT ![w] = l]
ExecGoto(j, l) == exec' = [exec EXCEPT ![j] = l]

\* the handler's step to l with the value it loaded from a counter, 0 if none
GotoWith(w, l, v) == Goto(w, l) /\ reg' = [reg EXCEPT ![w] = v]
ExecGotoWith(j, l, v) == ExecGoto(j, l) /\ execReg' = [execReg EXCEPT ![j] = v]

\* doWork is over: libworker reports the outcome on the worker's connection
Answer(w, outcome) ==
    /\ status' = [status EXCEPT ![cur[w]] = IF open[w] THEN outcome ELSE "lost"]
    /\ cur' = [cur EXCEPT ![w] = NoJob]

\* the deferred removeJob, then libworker's WORK_COMPLETE or WORK_FAIL
RemoveJobAndAnswer(w, outcome) ==
    /\ LockFree(w)
    /\ jobs' = [jobs EXCEPT ![w] = @ \ {cur[w]}]
    /\ Answer(w, outcome)
    /\ Goto(w, "idle")

-----------------------------------------------------------------------------
(***************************************************************************)
(* doWork, the handler.                                                    *)
(***************************************************************************)

\* libworker assigns a job; doWork loads activeJobs for activeJobs++
TakeJob(w, j) ==
    /\ pc[w] = "idle" /\ open[w] /\ shutdownPC[w] \in {"up", "closing"}
    /\ status[j] = "waiting"
    /\ status' = [status EXCEPT ![j] = "assigned"]
    /\ owner' = [owner EXCEPT ![j] = w]
    /\ cur' = [cur EXCEPT ![w] = j]
    /\ GotoWith(w, "count", activeJobs[w])
    /\ UNCHANGED <<activeJobs, jobs, stopVars, exec, execReg, async, hasCancel, canceled,
                   ballooning, curBallooningWorker, resultVars, raceVars>>

Count(w) ==
    /\ pc[w] = "count"
    /\ StoreActive(w, reg[w], 1)
    /\ GotoWith(w, "decrypt", 0)
    /\ UNCHANGED <<cur, jobs, stopVars, jobVars, curBallooningWorker, resultVars,
                   racedBallooning>>

\* decryptJobData fails on this payload: activeJobs--, the job was never listed
RejectJob(w) ==
    /\ pc[w] = "decrypt"
    /\ GotoWith(w, "reject", activeJobs[w])
    /\ UNCHANGED <<cur, activeJobs, jobs, stopVars, jobVars, curBallooningWorker,
                   resultVars, raceVars>>

RejectReturn(w) ==
    /\ pc[w] = "reject"
    /\ StoreActive(w, reg[w], -1)
    /\ Answer(w, "fail")
    /\ GotoWith(w, "idle", 0)
    /\ UNCHANGED <<jobs, stopVars, owner, exec, execReg, async, hasCancel, canceled,
                   ballooning, curBallooningWorker, resultVars, racedBallooning>>

(***************************************************************************)
(* The payload decrypts: addJob, then considerballooning.  Its answer      *)
(* rests on workerUtilization, a value manageWorkers left behind, so       *)
(* either is possible.                                                     *)
(***************************************************************************)
AcceptJob(w) ==
    /\ pc[w] = "decrypt"
    /\ LockFree(w)
    /\ jobs' = [jobs EXCEPT ![w] = @ \cup {cur[w]}]
    /\ ExecGoto(cur[w], "start")
    /\ \/ /\ Goto(w, "inline")
          /\ UNCHANGED async
       \/ /\ BackgroundingThreshold > 0
          /\ Goto(w, "select")
          /\ async' = async \cup {cur[w]}
    /\ UNCHANGED <<cur, reg, activeJobs, stopVars, status, owner, execReg, hasCancel,
                   canceled, ballooning, curBallooningWorker, resultVars, raceVars>>

\* executeJob returned in line: activeJobs--
InlineExecuted(w) ==
    /\ pc[w] = "inline" /\ exec[cur[w]] = "returned"
    /\ GotoWith(w, "uncount", activeJobs[w])
    /\ UNCHANGED <<cur, activeJobs, jobs, stopVars, jobVars, curBallooningWorker,
                   resultVars, raceVars>>

\* ... and a canceled job will be answered with an error
InlineUncount(w) ==
    /\ pc[w] = "uncount"
    /\ StoreActive(w, reg[w], -1)
    /\ ExecGoto(cur[w], "done")
    /\ GotoWith(w, IF cur[w] \in canceled THEN "fail" ELSE "return", 0)
    /\ UNCHANGED <<cur, jobs, stopVars, status, owner, execReg, async, hasCancel,
                   canceled, ballooning, curBallooningWorker, resultVars, racedBallooning>>

\* <-finChan: the goroutine is through
SelectFinished(w) ==
    /\ pc[w] = "select" /\ exec[cur[w]] = "done"
    /\ RemoveJobAndAnswer(w, "ok")
    /\ UNCHANGED <<reg, activeJobs, stopVars, owner, exec, execReg, async, hasCancel,
                   canceled, ballooning, curBallooningWorker, resultVars, raceVars>>

\* Mutant: the limit is taken to be reached one job too late.
StartBallooningOffByOne(w) ==
    /\ pc[w] = "select"
    /\ curBallooningWorker <= BallooningSlots
    /\ Goto(w, "balloon")
    /\ UNCHANGED <<cur, reg, activeJobs, jobs, stopVars, jobVars, curBallooningWorker,
                   resultVars, raceVars>>

(***************************************************************************)
(* <-ticker.C: startballooning.  The goroutine may be through by now, the  *)
(* select then picks either case.  Loads, memory and utilization are the   *)
(* environment's: they may forbid ballooning (no step) or allow it.        *)
(***************************************************************************)
StartBallooning(w) ==
    /\ pc[w] = "select"
    /\ curBallooningWorker < BallooningSlots
    /\ Goto(w, "balloon")
    /\ UNCHANGED <<cur, reg, activeJobs, jobs, stopVars, jobVars, curBallooningWorker,
                   resultVars, raceVars>>

\* curBallooningWorker++
BalloonLoad(w) ==
    /\ pc[w] = "balloon"
    /\ GotoWith(w, "balloonAdd", curBallooningWorker)
    /\ UNCHANGED <<cur, activeJobs, jobs, stopVars, jobVars, curBallooningWorker,
                   resultVars, raceVars>>

BalloonAdd(w) ==
    /\ pc[w] = "balloonAdd"
    /\ StoreBallooning(reg[w], 1)
    /\ GotoWith(w, "balloonMark", 0)
    /\ UNCHANGED <<cur, activeJobs, jobs, stopVars, jobVars, resultVars, racedActive>>

BalloonMark(w) ==
    /\ pc[w] = "balloonMark"
    /\ ballooning' = ballooning \cup {cur[w]}
    /\ Goto(w, "return")
    /\ UNCHANGED <<cur, reg, activeJobs, jobs, stopVars, status, owner, exec, execReg,
                   async, hasCancel, canceled, curBallooningWorker, resultVars, raceVars>>

Return(w) ==
    /\ \/ pc[w] = "return" /\ RemoveJobAndAnswer(w, "ok")
       \/ pc[w] = "fail" /\ RemoveJobAndAnswer(w, "fail")
    /\ UNCHANGED <<reg, activeJobs, stopVars, owner, exec, execReg, async, hasCancel,
                   canceled, ballooning, curBallooningWorker, resultVars, raceVars>>

-----------------------------------------------------------------------------
(***************************************************************************)
(* executeJob of job j, in line or in the goroutine, up to "returned".     *)
(***************************************************************************)

\* readAndExecute without a process: too old, bad path, internal check, no start
ExecuteDirectly(j) ==
    /\ exec[j] = "start"
    /\ ExecGoto(j, "executed")
    /\ UNCHANGED <<handlerVars, stopVars, status, owner, execReg, async, hasCancel,
                   canceled, ballooning, curBallooningWorker, resultVars, raceVars>>

\* cmd.Start, or the connection of an epn request: received.Cancel is nil as yet
StartProcess(j) ==
    /\ exec[j] = "start"
    /\ ExecGoto(j, "started")
    /\ UNCHANGED <<handlerVars, stopVars, status, owner, execReg, async, hasCancel, canceled,
                   ballooning, curBallooningWorker, resultVars, raceVars>>

\* Mutant: received.Cancel is not set.
SetCancelForgotten(j) ==
    /\ exec[j] = "started"
    /\ ExecGoto(j, "running")
    /\ UNCHANGED <<handlerVars, stopVars, status, owner, execReg, async, hasCancel, canceled,
                   ballooning, curBallooningWorker, resultVars, raceVars>>

\* received.Cancel = func ...; from here on the process or the daemon is waited for
SetCancel(j) ==
    /\ exec[j] = "started"
    /\ ExecGoto(j, "running")
    /\ hasCancel' = hasCancel \cup {j}
    /\ UNCHANGED <<handlerVars, stopVars, status, owner, execReg, async, canceled,
                   ballooning, curBallooningWorker, resultVars, raceVars>>

(***************************************************************************)
(* The process ends: by itself, by its timeout or by Cancel.  An error on  *)
(* the way leaves received.Cancel set, and an epn answer that asks for a   *)
(* restart of the epn server sets received.Canceled.                       *)
(***************************************************************************)
FinishProcess(j) ==
    /\ exec[j] = "running"
    /\ ExecGoto(j, "executed")
    /\ \/ hasCancel' = hasCancel \ {j} /\ UNCHANGED canceled
       \/ UNCHANGED <<hasCancel, canceled>>
       \/ hasCancel' = hasCancel \ {j} /\ canceled' = canceled \cup {j}
    /\ UNCHANGED <<handlerVars, stopVars, status, owner, execReg, async, ballooning,
                   curBallooningWorker, resultVars, raceVars>>

\* Mutant: the result of a backgrounded job is not sent.
DecideResultOfBackgrounded(j) ==
    /\ exec[j] = "executed"
    /\ ExecGoto(j, IF j \in ResultJobs /\ j \notin canceled \cup ballooning THEN "enqueue" ELSE "returned")
    /\ UNCHANGED <<handlerVars, stopVars, status, owner, execReg, async, hasCancel,
                   canceled, ballooning, curBallooningWorker, resultVars, raceVars>>

\* Mutant: with the queue full the result is dropped instead of waiting.
DecideResultIfRoom(j) ==
    /\ exec[j] = "executed"
    /\ ExecGoto(j, IF j \in ResultJobs /\ j \notin canceled /\ queueLen < QueueSize THEN "enqueue" ELSE "returned")
    /\ UNCHANGED <<handlerVars, stopVars, status, owner, execReg, async, hasCancel,
                   canceled, ballooning, curBallooningWorker, resultVars, raceVars>>

\* the condition of executeJob, read once
DecideResult(j) ==
    /\ exec[j] = "executed"
    /\ ExecGoto(j, IF j \in ResultJobs /\ j \notin canceled THEN "enqueue" ELSE "returned")
    /\ UNCHANGED <<handlerVars, stopVars, status, owner, execReg, async, hasCancel,
                   canceled, ballooning, curBallooningWorker, resultVars, raceVars>>

\* Mutant: the result may be enqueued once more.
EnqueueResultTwice(j) ==
    /\ exec[j] = "enqueue"
    /\ queueLen < QueueSize
    /\ queueLen' = queueLen + 1
    /\ results' = [results EXCEPT ![j] = @ + 1]
    /\ ExecGoto(j, "returned") \/ UNCHANGED exec
    /\ UNCHANGED <<handlerVars, stopVars, status, owner, execReg, async, hasCancel,
                   canceled, ballooning, curBallooningWorker, raceVars>>

(***************************************************************************)
(* enqueueServerResult blocks while the queue is full.  What follows it,   *)
(* enqueueDupServerResult, never blocks (ResultDelivery has it).     *)
(***************************************************************************)
EnqueueResult(j) ==
    /\ exec[j] = "enqueue"
    /\ queueLen < QueueSize
    /\ queueLen' = queueLen + 1
    /\ results' = [results EXCEPT ![j] = @ + 1]
    /\ ExecGoto(j, "returned")
    /\ UNCHANGED <<handlerVars, stopVars, status, owner, execReg, async, hasCancel,
                   canceled, ballooning, curBallooningWorker, raceVars>>

-----------------------------------------------------------------------------
(***************************************************************************)
(* The deferred function of the goroutine: activeJobs--, and               *)
(* curBallooningWorker-- if the handler marked the job by now.             *)
(***************************************************************************)
GoUncountLoad(j) ==
    /\ exec[j] = "returned" /\ j \in async
    /\ ExecGotoWith(j, "uncount", activeJobs[owner[j]])
    /\ UNCHANGED <<handlerVars, stopVars, status, owner, async, hasCancel, canceled,
                   ballooning, curBallooningWorker, resultVars, raceVars>>

\* Mutant: only the job that was handled in line is subtracted from activeJobs.
GoUncountForgotten(j) ==
    /\ exec[j] = "uncount"
    /\ ExecGotoWith(j, "flag", 0)
    /\ UNCHANGED <<handlerVars, stopVars, status, owner, async, hasCancel,
                   canceled, ballooning, curBallooningWorker, resultVars, raceVars>>

GoUncount(j) ==
    /\ exec[j] = "uncount"
    /\ StoreActive(owner[j], execReg[j], -1)
    /\ ExecGotoWith(j, "flag", 0)
    /\ UNCHANGED <<pc, cur, reg, jobs, stopVars, status, owner, async, hasCancel,
                   canceled, ballooning, curBallooningWorker, resultVars, racedBallooning>>

GoCheckFlag(j) ==
    /\ exec[j] = "flag"
    /\ IF j \in ballooning THEN ExecGotoWith(j, "unballoon", curBallooningWorker)
                           ELSE ExecGotoWith(j, "done", 0)
    /\ UNCHANGED <<handlerVars, stopVars, status, owner, async, hasCancel, canceled,
                   ballooning, curBallooningWorker, resultVars, raceVars>>

GoUnballoon(j) ==
    /\ exec[j] = "unballoon"
    /\ StoreBallooning(execReg[j], -1)
    /\ ExecGotoWith(j, "done", 0)
    /\ UNCHANGED <<handlerVars, stopVars, status, owner, async, hasCancel, canceled,
                   ballooning, resultVars, racedActive>>

-----------------------------------------------------------------------------
(***************************************************************************)
(* Shutdown and Cancel of a worker, and the consumers of the results.      *)
(***************************************************************************)

\* worker.Shutdown stops gracefully if it sees a job, else it closes at once
ShutdownWorker(w) ==
    /\ w \in Stoppable /\ shutdownPC[w] = "up"
    /\ shutdownPC' = [shutdownPC EXCEPT ![w] = IF activeJobs[w] > 0 THEN "draining"
                                                                   ELSE "closing"]
    /\ UNCHANGED <<handlerVars, cancelVars, open, jobVars, curBallooningWorker, resultVars,
                   raceVars>>

\* external: libworker's Shutdown waits for the handler; then the worker closes
Drained(w) ==
    /\ shutdownPC[w] = "draining" /\ pc[w] = "idle"
    /\ shutdownPC' = [shutdownPC EXCEPT ![w] = "down"]
    /\ open' = [open EXCEPT ![w] = FALSE]
    /\ UNCHANGED <<handlerVars, cancelVars, jobVars, curBallooningWorker, resultVars, raceVars>>

CloseWorker(w) ==
    /\ shutdownPC[w] = "closing"
    /\ shutdownPC' = [shutdownPC EXCEPT ![w] = "down"]
    /\ open' = [open EXCEPT ![w] = FALSE]
    /\ UNCHANGED <<handlerVars, cancelVars, jobVars, curBallooningWorker, resultVars, raceVars>>

CancelGoto(w, l) == cancelPC' = [cancelPC EXCEPT ![w] = l]

\* Cancel has something to do if it sees a job
CancelBegin(w) ==
    /\ w \in Stoppable /\ cancelPC[w] = "none" /\ activeJobs[w] # 0
    /\ CancelGoto(w, "lock")
    /\ UNCHANGED <<handlerVars, shutdownPC, victims, target, open, crashed, due, jobVars,
                   curBallooningWorker, resultVars, raceVars>>

\* worker.lock.Lock(): nobody adds to or removes from worker.jobs until it is unlocked
CancelLock(w) ==
    /\ cancelPC[w] = "lock"
    /\ CancelGoto(w, "kill")
    /\ victims' = [victims EXCEPT ![w] = jobs[w]]
    /\ due' = [due EXCEPT ![w] =
                  {j \in Jobs : owner[j] = w /\ status[j] = "assigned" /\ exec[j] = "running"}]
    /\ UNCHANGED <<handlerVars, shutdownPC, target, open, crashed, jobVars,
                   curBallooningWorker, resultVars, raceVars>>

\* a job whose Cancel is nil at this moment is left out
CancelTest(w, j) ==
    /\ cancelPC[w] = "kill" /\ j \in victims[w]
    /\ victims' = [victims EXCEPT ![w] = @ \ {j}]
    /\ IF j \in hasCancel
       THEN CancelGoto(w, "call") /\ target' = [target EXCEPT ![w] = j]
       ELSE UNCHANGED <<cancelPC, target>>
    /\ UNCHANGED <<handlerVars, shutdownPC, open, crashed, due, jobVars,
                   curBallooningWorker, resultVars, raceVars>>

(***************************************************************************)
(* j.Cancel().  readAndExecute.go:249 may have set it to nil since it was  *)
(* tested: then the program panics, or, if the compiler has kept the value *)
(* that was tested, the function is called all the same.                   *)
(***************************************************************************)
CancelKill(w) ==
    /\ cancelPC[w] = "call"
    /\ \/ canceled' = canceled \cup {target[w]} /\ UNCHANGED crashed
       \/ target[w] \notin hasCancel /\ crashed' = TRUE /\ UNCHANGED canceled
    /\ target' = [target EXCEPT ![w] = NoJob]
    /\ CancelGoto(w, "kill")
    /\ UNCHANGED <<handlerVars, shutdownPC, victims, open, due, status, owner, exec, execReg,
                   async, hasCancel, ballooning, curBallooningWorker, resultVars, raceVars>>

\* worker.worker # nil is tested: Shutdown sets it to nil when it is through
CancelListed(w) ==
    /\ cancelPC[w] = "kill" /\ victims[w] = {}
    /\ CancelGoto(w, IF shutdownPC[w] = "down" THEN "done" ELSE "close")
    /\ due' = [due EXCEPT ![w] = {}]
    /\ UNCHANGED <<handlerVars, shutdownPC, victims, target, open, crashed, jobVars,
                   curBallooningWorker, resultVars, raceVars>>

\* Mutant: Cancel does not unlock.
CancelCloseKeepsLock(w) ==
    /\ cancelPC[w] = "close"
    /\ open' = [open EXCEPT ![w] = FALSE]
    /\ UNCHANGED <<handlerVars, shutdownPC, cancelVars, jobVars, curBallooningWorker,
                   resultVars, raceVars>>

\* worker.worker.Close(), of a pointer that may have become nil like the function above
CancelClose(w) ==
    /\ cancelPC[w] = "close"
    /\ \/ open' = [open EXCEPT ![w] = FALSE] /\ UNCHANGED crashed
       \/ shutdownPC[w] = "down" /\ crashed' = TRUE /\ UNCHANGED open
    /\ CancelGoto(w, "done")
    /\ UNCHANGED <<handlerVars, shutdownPC, victims, target, due, jobVars,
                   curBallooningWorker, resultVars, raceVars>>

\* a result consumer takes a result (ResultDelivery)
ConsumeResult ==
    /\ queueLen > 0
    /\ queueLen' = queueLen - 1
    /\ UNCHANGED <<handlerVars, stopVars, jobVars, curBallooningWorker, results, raceVars>>

-----------------------------------------------------------------------------
\* the steps the handler takes by itself once it has a job
HandlerRuns(w) ==
    \/ Count(w) \/ RejectJob(w) \/ RejectReturn(w) \/ AcceptJob(w)
    \/ InlineExecuted(w) \/ InlineUncount(w)
    \/ SelectFinished(w) \/ BalloonLoad(w) \/ BalloonAdd(w) \/ BalloonMark(w) \/ Return(w)

Handler(w) == (\E j \in Jobs : TakeJob(w, j)) \/ StartBallooning(w) \/ HandlerRuns(w)

Execution(j) ==
    \/ ExecuteDirectly(j) \/ StartProcess(j) \/ SetCancel(j) \/ FinishProcess(j)
    \/ DecideResult(j) \/ EnqueueResult(j)
    \/ GoUncountLoad(j) \/ GoUncount(j) \/ GoCheckFlag(j) \/ GoUnballoon(j)

CancelRuns(w) ==
    \/ CancelLock(w) \/ (\E j \in victims[w] : CancelTest(w, j)) \/ CancelKill(w)
    \/ CancelListed(w) \/ CancelClose(w)

Cancel(w) == CancelBegin(w) \/ CancelRuns(w)

Next ==
    /\ ~crashed
    /\ \/ \E w \in Workers : Handler(w) \/ ShutdownWorker(w) \/ Drained(w)
                               \/ CloseWorker(w) \/ Cancel(w)
       \/ \E j \in Jobs : Execution(j)
       \/ ConsumeResult

(***************************************************************************)
(* Goroutines that can run do run while the program lives; a plugin        *)
(* process ends (it has a timeout); consumers take results.  Nobody has to *)
(* stop or cancel a worker, gearmand need not assign a job, and the ticker *)
(* need not fire.                                                          *)
(***************************************************************************)
Fairness ==
    /\ \A w \in Workers : /\ WF_vars(~crashed /\ HandlerRuns(w))
                          /\ WF_vars(~crashed /\ CancelRuns(w))
    /\ \A j \in Jobs : WF_vars(~crashed /\ Execution(j))
    /\ WF_vars(~crashed /\ ConsumeResult)

Spec == Init /\ [][Next]_vars
FairSpec == Spec /\ Fairness

-----------------------------------------------------------------------------
(***************************************************************************)
(* Every variable keeps its type (the fields of worker.go's worker and     *)
(* request, and the places of the goroutines); the result queue keeps      *)
(* within its capacity.                                                    *)
(***************************************************************************)
TypeOK ==
    /\ pc \in [Workers -> HandlerPC]
    /\ cur \in [Workers -> Jobs \cup {NoJob}]
    /\ reg \in [Workers -> Int]
    /\ activeJobs \in [Workers -> Int]
    /\ jobs \in [Workers -> SUBSET Jobs]
    /\ shutdownPC \in [Workers -> {"up", "draining", "closing", "down"}]
    /\ cancelPC \in [Workers -> CancelPC]
    /\ victims \in [Workers -> SUBSET Jobs] /\ due \in [Workers -> SUBSET Jobs]
    /\ target \in [Workers -> Jobs \cup {NoJob}]
    /\ open \in [Workers -> BOOLEAN]
    /\ status \in [Jobs -> {"waiting", "assigned", "ok", "fail", "lost"}]
    /\ owner \in [Jobs -> Workers \cup {NoWorker}]
    /\ exec \in [Jobs -> ExecPC]
    /\ execReg \in [Jobs -> Int]
    /\ async \subseteq Jobs /\ hasCancel \subseteq Jobs
    /\ canceled \subseteq Jobs /\ ballooning \subseteq Jobs
    /\ curBallooningWorker \in Int
    /\ results \in [Jobs -> Nat]
    /\ queueLen \in 0..QueueSize
    /\ racedActive \subseteq Workers
    /\ racedBallooning \in BOOLEAN /\ crashed \in BOOLEAN

\* The goroutine of a job has not finished executeJob.
Executing(j) == exec[j] \in {"start", "started", "running", "executed", "enqueue"}

(***************************************************************************)
(* doWork answers "OK" for a job whose result is wanted only if the result *)
(* is in the queue exactly once, or the job was canceled, or it was        *)
(* backgrounded and still executes.  Nothing else may end a job quietly.   *)
(***************************************************************************)
OkIsNeverSilent ==
    \A j \in ResultJobs :
        status[j] = "ok" =>
            \/ results[j] = 1
            \/ j \in canceled
            \/ j \in ballooning /\ Executing(j) /\ results[j] = 0

(***************************************************************************)
(* A job gearmand sees failed or lost, or still assigned, has at most one  *)
(* result as well, and only a job that decrypts and wants one has any.     *)
(***************************************************************************)
ResultAtMostOnce ==
    \A j \in Jobs :
        /\ results[j] <= 1
        /\ results[j] = 1 => j \in ResultJobs /\ status[j] # "waiting"

\* Jobs worker.activeJobs should be counting.
Counted(w) ==
    {j \in Jobs : /\ owner[j] = w
                  /\ \/ cur[w] = j /\ pc[w] \in {"decrypt", "reject", "inline", "uncount"}
                     \/ j \in async /\ (Executing(j) \/ exec[j] \in {"returned", "uncount"})}

(***************************************************************************)
(* As long as no two updates of activeJobs overlapped, it is the number of *)
(* jobs the worker works on, backgrounded ones included: Shutdown, Cancel  *)
(* and adjustWorkerBottomLevel rely on it.                                 *)
(***************************************************************************)
ActiveJobsCounts ==
    \A w \in Workers : w \notin racedActive => activeJobs[w] = Cardinality(Counted(w))

\* Jobs that were backgrounded and still execute.
Backgrounded == {j \in ballooning : Executing(j)}

(***************************************************************************)
(* Barring lost updates, curBallooningWorker never falls below the number  *)
(* of backgrounded jobs that still execute, and backgrounding exceeds its  *)
(* limit by less than the number of workers that can pass the check of     *)
(* startballooning together.                                               *)
(***************************************************************************)
BallooningBounded ==
    ~racedBallooning =>
        /\ Cardinality(Backgrounded) <= curBallooningWorker
        /\ Cardinality(Backgrounded) <=
              IF BallooningSlots > 0 THEN BallooningSlots + Cardinality(Workers) - 1 ELSE 0

(***************************************************************************)
(* Cancel kills what it can know of.  Once it has gone through worker.jobs *)
(* every process that ran when it took the lock has been killed or has     *)
(* ended by itself, except those of backgrounded jobs, which removeJob has *)
(* taken off the list, and those that cmd.Start had created but whose      *)
(* Cancel function was still nil (readAndExecute.go:208-215): these go on. *)
(***************************************************************************)
CancelReachesListed ==
    [][\A w \in Workers :
         cancelPC[w] = "kill" /\ cancelPC'[w] # "kill" /\ victims[w] = {} =>
            \A j \in due[w] : exec[j] = "running" => j \in canceled]_vars

(***************************************************************************)
(* Every assigned job is answered, so that the handler becomes free again, *)
(* whoever stops or cancels the worker; or a nil pointer ends the program. *)
(* (Of the finitely many jobs each is assigned once: that again and again  *)
(* none is unanswered says it of every single one.)                        *)
(***************************************************************************)
EveryJobAnswered == []<>(crashed \/ \A j \in Jobs : status[j] # "assigned")

(***************************************************************************)
(* Every executed job that wants a result gets one or was canceled, even   *)
(* if its worker was shut down or left it behind, unless the program ends. *)
(***************************************************************************)
EveryResultEnqueued ==
    []<>(crashed \/ \A j \in ResultJobs :
                       exec[j] # "none" => results[j] = 1 \/ j \in canceled)

(***************************************************************************)
(* What prometheus.go:37-40 says of the gauge that mirrors                 *)
(* curBallooningWorker ("Total number of extra ballooning Workers          *)
(* running"): with no job left to execute, it is zero.  Overlapping        *)
(* updates are excused.  The code violates it.                             *)
(***************************************************************************)
BallooningGaugeFalls ==
    (~racedBallooning /\ \A w \in Workers : pc[w] = "idle")
        /\ (\A j \in Jobs : exec[j] \in {"none", "done"})
            => curBallooningWorker = 0
=============================================================================
