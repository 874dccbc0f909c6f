------------------------ MODULE JobExecution_proofs ------------------------
(***************************************************************************)
(* Theorems about JobExecution, for all workers, jobs and limits: its type *)
(* invariant, that no job is ended quietly, that no result is sent twice,  *)
(* that Cancel kills the processes it can know of, and                     *)
(* that activeJobs counts jobs as long as its updates do not overlap.      *)
(***************************************************************************)
EXTENDS JobExecution, FiniteSetTheorems, TLAPS

-----------------------------------------------------------------------------
(***************************************************************************)
(* The inductive invariant.  OkIsNeverSilent alone is not inductive: that  *)
(* the handler answers OK with the result enqueued depends on where doWork *)
(* and executeJob are, and on each handler having a job of its own.        *)
(***************************************************************************)

\* a busy handler has a job of its own that gearmand waits for
Handling ==
  \A w \in Workers :
    IF pc[w] = "idle"
    THEN cur[w] = NoJob
    ELSE cur[w] \in Jobs /\ status[cur[w]] = "assigned" /\ owner[cur[w]] = w

\* a job executes only once a handler took it; a goroutine is for an executed job,
\* and only a goroutine has the deferred function
Started ==
  \A j \in Jobs :
    /\ exec[j] \in {"uncount", "flag", "unballoon"} => j \in async
    /\ exec[j] # "none" => owner[j] \in Workers /\ status[j] # "waiting"
    /\ exec[j] = "none" => j \notin async

\* how far executeJob is, given where the handler of the job is
Stages ==
  \A w \in Workers :
    /\ pc[w] \in {"count", "decrypt", "reject"} => exec[cur[w]] = "none"
    /\ pc[w] = "inline" =>
         /\ cur[w] \notin async
         /\ exec[cur[w]] \in {"start", "started", "running", "executed", "enqueue", "returned"}
    /\ pc[w] = "uncount" => cur[w] \notin async /\ exec[cur[w]] = "returned"
    /\ pc[w] \in {"select", "balloon", "balloonAdd", "balloonMark"} => exec[cur[w]] # "none"
    /\ pc[w] = "return" => \/ exec[cur[w]] = "done"
                           \/ exec[cur[w]] # "none" /\ cur[w] \in ballooning

\* the result is enqueued between "enqueue" and "returned", and only there
ResultCount ==
  \A j \in Jobs :
    /\ exec[j] \in {"none", "start", "started", "running", "executed"} => results[j] = 0
    /\ exec[j] = "enqueue" => results[j] = 0 /\ j \in ResultJobs
    /\ exec[j] \in {"returned", "uncount", "flag", "unballoon", "done"} =>
         \/ results[j] = 1 /\ j \in ResultJobs
         \/ results[j] = 0 /\ (j \in ResultJobs => j \in canceled)

\* a job answered OK was executed, or is backgrounded
Answered ==
  \A j \in Jobs : status[j] = "ok" => exec[j] # "none" /\ (Executing(j) => j \in ballooning)

\* an assigned job is in the hands of its owner, who lists it before it executes
Listed ==
  /\ \A j \in Jobs : status[j] = "assigned" => owner[j] \in Workers /\ cur[owner[j]] = j
  /\ \A w \in Workers : pc[w] \notin {"idle", "count", "decrypt", "reject"} => cur[w] \in jobs[w]

\* from the assignment of received.Cancel on, and until the process has ended, it is set
Killable == \A j \in Jobs : exec[j] = "running" => j \in hasCancel

\* Cancel calls the function of a job
Targeting == \A w \in Workers : cancelPC[w] = "call" => target[w] \in Jobs

IInv ==
  /\ TypeOK /\ Handling /\ Started /\ Stages /\ ResultCount /\ Answered /\ Listed
  /\ Killable /\ Targeting

-----------------------------------------------------------------------------
(***************************************************************************)
(* The invariant holds initially, and every step preserves it.             *)
(***************************************************************************)
LEMMA InitInvariant == Init => IInv
  <1> SUFFICES ASSUME Init PROVE IInv
    OBVIOUS
  <1>1. TypeOK
    <2> USE JobExecutionAssumption DEF Init, HandlerPC, ExecPC, CancelPC
    <2>1. /\ pc \in [Workers -> HandlerPC] /\ cur \in [Workers -> Jobs \cup {NoJob}]
          /\ reg \in [Workers -> Int] /\ activeJobs \in [Workers -> Int]
          /\ jobs \in [Workers -> SUBSET Jobs]
      OBVIOUS
    <2>2. /\ shutdownPC \in [Workers -> {"up", "draining", "closing", "down"}]
          /\ cancelPC \in [Workers -> CancelPC]
          /\ victims \in [Workers -> SUBSET Jobs] /\ due \in [Workers -> SUBSET Jobs]
          /\ target \in [Workers -> Jobs \cup {NoJob}]
          /\ open \in [Workers -> BOOLEAN]
      OBVIOUS
    <2>3. /\ status \in [Jobs -> {"waiting", "assigned", "ok", "fail", "lost"}]
          /\ owner \in [Jobs -> Workers \cup {NoWorker}]
          /\ exec \in [Jobs -> ExecPC] /\ execReg \in [Jobs -> Int]
      OBVIOUS
    <2>4. /\ async \subseteq Jobs /\ hasCancel \subseteq Jobs
          /\ canceled \subseteq Jobs /\ ballooning \subseteq Jobs
          /\ curBallooningWorker \in Int
          /\ results \in [Jobs -> Nat] /\ queueLen \in 0..QueueSize
          /\ racedActive \subseteq Workers
      OBVIOUS
    <2>5. racedBallooning \in BOOLEAN /\ crashed \in BOOLEAN
      OBVIOUS
    <2> QED
      BY <2>1, <2>2, <2>3, <2>4, <2>5 DEF TypeOK
  <1>2. Handling /\ Started /\ Stages /\ ResultCount
    BY DEF Init, Handling, Started, Stages, ResultCount
  <1>3. Answered /\ Listed /\ Killable /\ Targeting
    BY DEF Init, Answered, Listed, Killable, Targeting
  <1> QED
    BY <1>1, <1>2, <1>3 DEF IInv

\* doWork, and the answer it gives
LEMMA HandlerStep ==
  ASSUME IInv, NEW w \in Workers, Handler(w)
  PROVE  IInv'
  <1> USE JobExecutionAssumption
          DEF IInv, TypeOK, Handling, Started, Stages, ResultCount, Answered, Listed,
              Killable, Targeting, Executing, HandlerPC, ExecPC, CancelPC,
              handlerVars, stopVars, cancelVars, jobVars, resultVars, raceVars,
              Goto, GotoWith, ExecGoto, StoreActive, StoreBallooning, Answer,
              RemoveJobAndAnswer
  <1>1. ASSUME NEW j \in Jobs, TakeJob(w, j) PROVE IInv'
    BY <1>1 DEF TakeJob
  <1>2. CASE Count(w)
    BY <1>2 DEF Count
  <1>3. CASE RejectJob(w)
    BY <1>3 DEF RejectJob
  <1>4. CASE RejectReturn(w)
    BY <1>4 DEF RejectReturn
  <1>5. CASE AcceptJob(w)
    <2>1. TypeOK'
      BY <1>5 DEF AcceptJob
    <2>2. (Handling /\ Started /\ Answered /\ Killable /\ Targeting)'
      BY <1>5 DEF AcceptJob
    <2>3. (Stages /\ ResultCount /\ Listed)'
      BY <1>5 DEF AcceptJob
    <2> QED
      BY <2>1, <2>2, <2>3
  <1>6. CASE InlineExecuted(w)
    BY <1>6 DEF InlineExecuted
  <1>7. CASE InlineUncount(w)
    BY <1>7 DEF InlineUncount
  <1>8. CASE SelectFinished(w)
    BY <1>8 DEF SelectFinished
  <1>9. CASE StartBallooning(w)
    BY <1>9 DEF StartBallooning
  <1>10. CASE BalloonLoad(w)
    BY <1>10 DEF BalloonLoad
  <1>11. CASE BalloonAdd(w)
    BY <1>11 DEF BalloonAdd
  <1>12. CASE BalloonMark(w)
    BY <1>12 DEF BalloonMark
  <1>13. CASE Return(w)
    <2>1. CASE pc[w] = "return" /\ RemoveJobAndAnswer(w, "ok")
      BY <1>13, <2>1 DEF Return
    <2>2. CASE pc[w] = "fail" /\ RemoveJobAndAnswer(w, "fail")
      BY <1>13, <2>2 DEF Return
    <2> QED
      BY <1>13, <2>1, <2>2 DEF Return
  <1> HIDE DEF IInv, Goto, GotoWith, ExecGoto, ExecGotoWith
  <1> QED
    BY <1>1, <1>2, <1>3, <1>4, <1>5, <1>6, <1>7, <1>8, <1>9, <1>10, <1>11, <1>12,
       <1>13 DEF Handler, HandlerRuns

\* executeJob, and the goroutine around it
LEMMA ExecutionStep ==
  ASSUME IInv, NEW j \in Jobs, Execution(j)
  PROVE  IInv'
  <1> USE JobExecutionAssumption
          DEF IInv, TypeOK, Handling, Started, Stages, ResultCount, Answered, Listed,
              Killable, Targeting, Executing, HandlerPC, ExecPC, CancelPC,
              handlerVars, stopVars, cancelVars, jobVars, resultVars, raceVars,
              ExecGoto, ExecGotoWith, StoreActive, StoreBallooning
  <1>1. CASE ExecuteDirectly(j)
    BY <1>1 DEF ExecuteDirectly
  <1>2. CASE StartProcess(j)
    BY <1>2 DEF StartProcess
  <1>10. CASE SetCancel(j)
    BY <1>10 DEF SetCancel
  <1>3. CASE FinishProcess(j)
    BY <1>3 DEF FinishProcess
  <1>4. CASE DecideResult(j)
    BY <1>4 DEF DecideResult
  <1>5. CASE EnqueueResult(j)
    BY <1>5 DEF EnqueueResult
  <1>6. CASE GoUncountLoad(j)
    BY <1>6 DEF GoUncountLoad
  <1>7. CASE GoUncount(j)
    BY <1>7 DEF GoUncount
  <1>8. CASE GoCheckFlag(j)
    BY <1>8 DEF GoCheckFlag
  <1>9. CASE GoUnballoon(j)
    BY <1>9 DEF GoUnballoon
  <1> HIDE DEF IInv, Goto, GotoWith, ExecGoto, ExecGotoWith
  <1> QED
    BY <1>1, <1>2, <1>3, <1>4, <1>5, <1>6, <1>7, <1>8, <1>9, <1>10 DEF Execution

\* A connection that is closed remains a truth value.
LEMMA CloseTyped ==
  ASSUME open \in [Workers -> BOOLEAN], NEW w \in Workers,
         open' = open \/ open' = [open EXCEPT ![w] = FALSE]
  PROVE  open' \in [Workers -> BOOLEAN]
  OBVIOUS

\* Shutdown and Cancel
LEMMA StopStep ==
  ASSUME IInv, NEW w \in Workers,
         ShutdownWorker(w) \/ Drained(w) \/ CloseWorker(w) \/ Cancel(w)
  PROVE  IInv'
  <1> USE JobExecutionAssumption
          DEF IInv, TypeOK, Handling, Started, Stages, ResultCount, Answered, Listed,
              Killable, Targeting, Executing, HandlerPC, ExecPC, CancelPC,
              handlerVars, stopVars, cancelVars, jobVars, resultVars, raceVars
  <1>1. CASE ShutdownWorker(w)
    BY <1>1 DEF ShutdownWorker
  <1>2. CASE Drained(w)
    BY <1>2 DEF Drained
  <1>3. CASE CloseWorker(w)
    BY <1>3 DEF CloseWorker
  <1>4. CASE CancelBegin(w)
    BY <1>4 DEF CancelBegin, CancelGoto
  <1>5. CASE CancelLock(w)
    BY <1>5 DEF CancelLock, CancelGoto
  <1>6. ASSUME NEW j \in victims[w], CancelTest(w, j) PROVE IInv'
    BY <1>6 DEF CancelTest, CancelGoto
  <1>7. CASE CancelKill(w)
    <2>1. TypeOK'
      <3>3. crashed' = crashed \/ crashed' = TRUE
        BY <1>7, Zenon DEF CancelKill
      <3>4. canceled' \subseteq Jobs
        BY <1>7 DEF CancelKill
      <3>1. crashed' \in BOOLEAN /\ canceled' \subseteq Jobs
        <4> HIDE DEF IInv
        <4>1. crashed \in BOOLEAN
          BY DEF IInv
        <4> QED
          BY <3>3, <3>4, <4>1, Zenon
      <3>2. open' \in [Workers -> BOOLEAN]
        BY <1>7 DEF CancelKill
      <3> QED
        BY <1>7, <3>1, <3>2 DEF CancelKill, CancelGoto
    <2>2. (Handling /\ Started /\ Stages /\ ResultCount /\ Answered /\ Listed)'
      BY <1>7 DEF CancelKill
    <2>3. (Killable /\ Targeting)'
      BY <1>7 DEF CancelKill, CancelGoto
    <2> QED
      BY <2>1, <2>2, <2>3
  <1>8. CASE CancelListed(w)
    BY <1>8 DEF CancelListed, CancelGoto
  <1>9. CASE CancelClose(w)
    <2>1. TypeOK'
      <3>3. crashed' = crashed \/ crashed' = TRUE
        BY <1>9, Zenon DEF CancelClose
      <3>4. open' = open \/ open' = [open EXCEPT ![w] = FALSE]
        BY <1>9, Zenon DEF CancelClose
      <3>1. crashed' \in BOOLEAN /\ canceled' \subseteq Jobs
        <4>1. crashed \in BOOLEAN /\ canceled' \subseteq Jobs
          BY <1>9 DEF CancelClose
        <4> QED
          BY <3>3, <4>1, Zenon
      <3>2. open' \in [Workers -> BOOLEAN]
        <4>1. open \in [Workers -> BOOLEAN]
          BY DEF IInv
        <4> QED
          BY <3>4, <4>1, CloseTyped
      <3> QED
        BY <1>9, <3>1, <3>2 DEF CancelClose, CancelGoto
    <2>2. (Handling /\ Started /\ Stages /\ ResultCount /\ Answered /\ Listed)'
      BY <1>9 DEF CancelClose
    <2>3. (Killable /\ Targeting)'
      BY <1>9 DEF CancelClose, CancelGoto
    <2> QED
      BY <2>1, <2>2, <2>3
  <1> HIDE DEF IInv, Goto, GotoWith, ExecGoto, ExecGotoWith
  <1> QED
    BY <1>1, <1>2, <1>3, <1>4, <1>5, <1>6, <1>7, <1>8, <1>9 DEF Cancel, CancelRuns

\* A consumer that takes a result disturbs nothing but the length of the queue.
LEMMA ConsumeStep == IInv /\ ConsumeResult => IInv'
  BY JobExecutionAssumption
     DEF IInv, TypeOK, Handling, Started, Stages, ResultCount, Answered, Listed, Killable,
         Targeting, Executing, HandlerPC, ExecPC, CancelPC, ConsumeResult, handlerVars, stopVars, cancelVars, jobVars, raceVars

\* A stuttering step preserves the invariant.
LEMMA StutterStep == IInv /\ UNCHANGED vars => IInv'
  BY DEF IInv, TypeOK, Handling, Started, Stages, ResultCount, Answered, Listed, Killable,
         Targeting, Executing, CancelPC, vars, handlerVars, stopVars, cancelVars, jobVars, resultVars, raceVars

\* IInv is an invariant of the specification.
THEOREM Invariance == Spec => []IInv
  <1>1. Init => IInv
    BY InitInvariant
  <1>2. IInv /\ [Next]_vars => IInv'
    <2> SUFFICES ASSUME IInv, [Next]_vars
                 PROVE  IInv'
      OBVIOUS
    <2>1. ASSUME NEW w \in Workers,
                 Handler(w) \/ ShutdownWorker(w) \/ Drained(w) \/ CloseWorker(w) \/ Cancel(w)
          PROVE  IInv'
      BY <2>1, HandlerStep, StopStep
    <2>2. ASSUME NEW j \in Jobs, Execution(j)
          PROVE  IInv'
      BY <2>2, ExecutionStep
    <2>3. CASE ConsumeResult
      BY <2>3, ConsumeStep
    <2>4. CASE UNCHANGED vars
      BY <2>4, StutterStep
    <2> QED
      BY <2>1, <2>2, <2>3, <2>4 DEF Next
  <1> QED
    BY <1>1, <1>2, PTL DEF Spec

-----------------------------------------------------------------------------
(***************************************************************************)
(* What follows from it.                                                   *)
(***************************************************************************)

\* Every variable of the worker model keeps its type.
THEOREM TypeCorrect == Spec => []TypeOK
  <1>1. IInv => TypeOK
    BY DEF IInv
  <1> QED
    BY <1>1, Invariance, PTL

\* doWork (worker.go:118-192) answers OK without a result in the queue only for a job
\* that was canceled, or was backgrounded and still executes.
THEOREM NoSilentOk == Spec => []OkIsNeverSilent
  <1>1. IInv => OkIsNeverSilent
    BY JobExecutionAssumption
       DEF IInv, TypeOK, ResultCount, Answered, OkIsNeverSilent, Executing, ExecPC
  <1> QED
    BY <1>1, Invariance, PTL

\* executeJob (worker.go:242-252) enqueues the result of a job at most once, whatever
\* becomes of the job, and only if the job wants one.
THEOREM AtMostOneResult == Spec => []ResultAtMostOnce
  <1>1. IInv => ResultAtMostOnce
    BY JobExecutionAssumption
       DEF IInv, TypeOK, Started, ResultCount, ResultAtMostOnce, ExecPC
  <1> QED
    BY <1>1, Invariance, PTL

(***************************************************************************)
(* Cancel.  What it found running, with a Cancel function, it has killed   *)
(* or has still before it, for as long as it runs.                         *)
(***************************************************************************)
Reaching ==
  \A w \in Workers : \A j \in due[w] :
    /\ exec[j] \notin {"none", "start", "started"}
    /\ \/ exec[j] # "running"
       \/ j \in canceled
       \/ cancelPC[w] \in {"kill", "call"} /\ j \in victims[w]
       \/ cancelPC[w] = "call" /\ j = target[w]

\* worker.lock.Lock() (worker.go:295): the jobs that are due are on the list.
LEMMA ReachingLock ==
  ASSUME IInv, Reaching, NEW w \in Workers, CancelLock(w)
  PROVE  Reaching'
  <1>1. ASSUME NEW j \in Jobs, owner[j] = w, status[j] = "assigned", exec[j] = "running"
        PROVE  j \in jobs[w]
    <2>1. cur[w] = j
      BY <1>1 DEF IInv, Listed
    <2>2. pc[w] \notin {"idle", "count", "decrypt", "reject"}
      <3>1. pc[w] # "idle"
        BY <2>1, JobExecutionAssumption DEF IInv, Handling
      <3> QED
        BY <1>1, <2>1, <3>1 DEF IInv, Stages
    <2> QED
      BY <2>1, <2>2 DEF IInv, Listed
  <1>2. \A j \in due'[w] : exec[j] = "running" /\ j \in victims'[w]
    BY <1>1 DEF CancelLock, IInv, TypeOK
  <1>3. cancelPC'[w] = "kill" /\ UNCHANGED <<exec, canceled, target>>
    BY DEF CancelLock, CancelGoto, IInv, TypeOK, jobVars
  <1>4. \A v \in Workers \ {w} : /\ due'[v] = due[v] /\ victims'[v] = victims[v]
                                /\ cancelPC'[v] = cancelPC[v]
    BY DEF CancelLock, CancelGoto, IInv, TypeOK
  <1> QED
    BY <1>2, <1>3, <1>4 DEF Reaching

\* The steps of Cancel after that: a job that is due and runs has its Cancel function set.
LEMMA ReachingCancel ==
  ASSUME IInv, Reaching, NEW w \in Workers, Cancel(w)
  PROVE  Reaching'
  <1> USE DEF IInv, TypeOK, CancelPC, CancelGoto, Killable, Reaching, jobVars
  <1>1. CASE CancelBegin(w)
    BY <1>1 DEF CancelBegin
  <1>2. ASSUME NEW j \in victims[w], CancelTest(w, j) PROVE Reaching'
    BY <1>2 DEF CancelTest
  <1>3. CASE CancelKill(w)
    BY <1>3 DEF CancelKill
  <1>4. CASE CancelListed(w)
    BY <1>4 DEF CancelListed
  <1>5. CASE CancelClose(w)
    BY <1>5 DEF CancelClose
  <1> QED
    BY <1>1, <1>2, <1>3, <1>4, <1>5, ReachingLock DEF Cancel, CancelRuns

\* No process runs that was due before it was started, and nobody else calls Cancel off.
LEMMA ReachingOther ==
  ASSUME IInv, Reaching, UNCHANGED <<cancelPC, victims, target, due>>,
         canceled \subseteq canceled',
         \A j \in Jobs : \/ exec'[j] = exec[j]
                        \/ exec[j] \in {"none", "start", "started"}
                        \/ exec'[j] \notin {"none", "start", "started", "running"}
  PROVE  Reaching'
  BY DEF Reaching, IInv, TypeOK

\* Every step that is not one of Cancel is of this kind.
LEMMA ReachingStep ==
  ASSUME IInv, Reaching, [Next]_vars
  PROVE  Reaching'
  <1> USE DEF stopVars, cancelVars, jobVars
  <1>1. ASSUME NEW w \in Workers, Handler(w) PROVE Reaching'
    <2>1. UNCHANGED <<cancelPC, victims, target, due, canceled>>
      BY <1>1 DEF Handler, HandlerRuns, TakeJob, Count, RejectJob, RejectReturn, AcceptJob,
            InlineExecuted, InlineUncount, SelectFinished, StartBallooning, BalloonLoad,
            BalloonAdd, BalloonMark, Return
    <2>2. \/ UNCHANGED exec
          \/ AcceptJob(w)
          \/ InlineUncount(w)
      BY <1>1 DEF Handler, HandlerRuns, TakeJob, Count, RejectJob, RejectReturn,
            InlineExecuted, SelectFinished, StartBallooning, BalloonLoad,
            BalloonAdd, BalloonMark, Return
    <2>3. CASE AcceptJob(w)
      <3>1. exec[cur[w]] = "none" /\ exec' = [exec EXCEPT ![cur[w]] = "start"]
        BY <2>3 DEF AcceptJob, ExecGoto, IInv, Stages
      <3> QED
        BY <2>1, <3>1, ReachingOther DEF IInv, TypeOK
    <2>4. CASE InlineUncount(w)
      <3>1. exec' = [exec EXCEPT ![cur[w]] = "done"]
        BY <2>4 DEF InlineUncount, ExecGoto
      <3> QED
        BY <2>1, <3>1, ReachingOther DEF IInv, TypeOK
    <2> QED
      BY <2>1, <2>2, <2>3, <2>4, ReachingOther
  <1>2. ASSUME NEW j \in Jobs, Execution(j) PROVE Reaching'
    <2>1. UNCHANGED <<cancelPC, victims, target, due>> /\ canceled \subseteq canceled'
      BY <1>2 DEF Execution, ExecuteDirectly, StartProcess, SetCancel, FinishProcess,
            DecideResult, EnqueueResult, GoUncountLoad, GoUncount, GoCheckFlag, GoUnballoon
    <2>2. PICK l \in ExecPC : /\ exec' = [exec EXCEPT ![j] = l]
                              /\ \/ exec[j] \in {"start", "started"}
                                 \/ l \notin {"none", "start", "started", "running"}
      BY <1>2 DEF Execution, ExecuteDirectly, StartProcess, SetCancel, FinishProcess,
            DecideResult, EnqueueResult, GoUncountLoad, GoUncount, GoCheckFlag, GoUnballoon,
            ExecGoto, ExecGotoWith, ExecPC
    <2> QED
      BY <2>1, <2>2, ReachingOther DEF IInv, TypeOK
  <1>3. ASSUME \/ \E w \in Workers : ShutdownWorker(w) \/ Drained(w) \/ CloseWorker(w)
               \/ ConsumeResult
               \/ UNCHANGED vars
        PROVE  Reaching'
    <2>1. UNCHANGED <<cancelPC, victims, target, due, canceled, exec>>
      BY <1>3 DEF ShutdownWorker, Drained, CloseWorker, ConsumeResult, vars
    <2> QED
      BY <2>1, ReachingOther
  <1> QED
    BY <1>1, <1>2, <1>3, ReachingCancel DEF Next

\* When Cancel (worker.go:290-306) has gone through the list, every process that ran, with
\* its Cancel function set, when it took the lock has been killed or has ended: while Cancel
\* holds the lock no job leaves the list, and none of these loses its Cancel function
\* without having ended.
THEOREM CancelComplete == Spec => CancelReachesListed
  <1>1. Init => Reaching
    BY DEF Init, Reaching
  <1>2. IInv /\ Reaching /\ [Next]_vars => Reaching'
    BY ReachingStep
  <1>3. Reaching => [\A w \in Workers :
                       cancelPC[w] = "kill" /\ cancelPC'[w] # "kill" /\ victims[w] = {} =>
                         \A j \in due[w] : exec[j] = "running" => j \in canceled]_vars
    BY DEF Reaching
  <1> QED
    BY <1>1, <1>2, <1>3, Invariance, PTL DEF Spec, CancelReachesListed
-----------------------------------------------------------------------------
(***************************************************************************)
(* activeJobs.  A step either leaves the jobs that count alone, or adds or *)
(* removes the one whose counter it stores.                                *)
(***************************************************************************)

\* ActiveJobsCounts with what its induction needs: the jobs that count are finitely many
CountInv ==
  \A w \in Workers :
    /\ IsFiniteSet(Counted(w))
    /\ w \notin racedActive => activeJobs[w] = Cardinality(Counted(w))

\* activeJobs++ goes with one more job: the one its handler has taken.
LEMMA CountUp ==
  ASSUME CountInv, TypeOK, NEW w \in Workers, NEW v, NEW j \in Jobs,
         StoreActive(w, v, 1), j \notin Counted(w), Counted(w)' = Counted(w) \cup {j},
         \A u \in Workers \ {w} : Counted(u)' = Counted(u)
  PROVE  CountInv'
  <1>1. IsFiniteSet(Counted(w)') /\ Cardinality(Counted(w)') = Cardinality(Counted(w)) + 1
    BY FS_AddElement DEF CountInv
  <1>2. w \notin racedActive' => w \notin racedActive /\ activeJobs'[w] = activeJobs[w] + 1
    BY DEF StoreActive, TypeOK
  <1>3. \A u \in Workers \ {w} : /\ u \notin racedActive' => u \notin racedActive
                                /\ activeJobs'[u] = activeJobs[u]
    BY DEF StoreActive, TypeOK
  <1> QED
    BY <1>1, <1>2, <1>3 DEF CountInv

\* activeJobs-- goes with one job less: the one whose handler or goroutine stores it.
LEMMA CountDown ==
  ASSUME CountInv, TypeOK, NEW w \in Workers, NEW v, NEW j \in Jobs,
         StoreActive(w, v, -1), j \in Counted(w), Counted(w)' = Counted(w) \ {j},
         \A u \in Workers \ {w} : Counted(u)' = Counted(u)
  PROVE  CountInv'
  <1>1. IsFiniteSet(Counted(w)') /\ Cardinality(Counted(w)') = Cardinality(Counted(w)) - 1
    BY FS_RemoveElement DEF CountInv
  <1>2. w \notin racedActive' => w \notin racedActive /\ activeJobs'[w] = activeJobs[w] - 1
    BY DEF StoreActive, TypeOK
  <1>3. \A u \in Workers \ {w} : /\ u \notin racedActive' => u \notin racedActive
                                /\ activeJobs'[u] = activeJobs[u]
    BY DEF StoreActive, TypeOK
  <1> QED
    BY <1>1, <1>2, <1>3 DEF CountInv

\* A step that touches neither activeJobs nor the counted jobs preserves the count.
LEMMA CountSame ==
  ASSUME CountInv, UNCHANGED <<activeJobs, racedActive>>,
         \A u \in Workers : Counted(u)' = Counted(u)
  PROVE  CountInv'
  BY DEF CountInv

\* The count through the steps of doWork (worker.go:118-192).
LEMMA CountHandlerStep ==
  ASSUME IInv, CountInv, NEW w \in Workers, Handler(w)
  PROVE  CountInv'
  <1> USE JobExecutionAssumption
          DEF IInv, TypeOK, Handling, Started, Stages, HandlerPC, ExecPC, Executing, Counted,
              Goto, GotoWith, ExecGoto, ExecGotoWith, StoreBallooning, Answer,
              RemoveJobAndAnswer, handlerVars, jobVars, stopVars, resultVars, raceVars
  <1>1. ASSUME NEW j \in Jobs, TakeJob(w, j) PROVE CountInv'
    <2>1. \A u \in Workers : Counted(u)' = Counted(u)
      BY <1>1 DEF TakeJob
    <2>2. UNCHANGED <<activeJobs, racedActive>>
      BY <1>1 DEF TakeJob
    <2> QED
      BY <2>1, <2>2, CountSame
  <1>2. CASE Count(w)
    <2>1. cur[w] \in Jobs /\ cur[w] \notin Counted(w)
      BY <1>2 DEF Count
    <2>2. Counted(w)' = Counted(w) \cup {cur[w]}
      BY <1>2 DEF Count
    <2>3. \A u \in Workers \ {w} : Counted(u)' = Counted(u)
      BY <1>2 DEF Count
    <2>4. StoreActive(w, reg[w], 1)
      BY <1>2 DEF Count
    <2> HIDE DEF Counted
    <2> QED
      BY <2>1, <2>2, <2>3, <2>4, CountUp
  <1>3. CASE RejectJob(w)
    <2>1. \A u \in Workers : Counted(u)' = Counted(u)
      BY <1>3 DEF RejectJob
    <2>2. UNCHANGED <<activeJobs, racedActive>>
      BY <1>3 DEF RejectJob
    <2> QED
      BY <2>1, <2>2, CountSame
  <1>4. CASE RejectReturn(w)
    <2>1. cur[w] \in Jobs /\ cur[w] \in Counted(w)
      BY <1>4 DEF RejectReturn
    <2>2. Counted(w)' = Counted(w) \ {cur[w]}
      BY <1>4 DEF RejectReturn
    <2>3. \A u \in Workers \ {w} : Counted(u)' = Counted(u)
      BY <1>4 DEF RejectReturn
    <2>4. StoreActive(w, reg[w], -1)
      BY <1>4 DEF RejectReturn
    <2> HIDE DEF Counted
    <2> QED
      BY <2>1, <2>2, <2>3, <2>4, CountDown
  <1>5. CASE AcceptJob(w)
    <2>1. \A u \in Workers : Counted(u)' = Counted(u)
      BY <1>5 DEF AcceptJob
    <2>2. UNCHANGED <<activeJobs, racedActive>>
      BY <1>5 DEF AcceptJob
    <2> QED
      BY <2>1, <2>2, CountSame
  <1>6. CASE InlineExecuted(w)
    <2>1. \A u \in Workers : Counted(u)' = Counted(u)
      BY <1>6 DEF InlineExecuted
    <2>2. UNCHANGED <<activeJobs, racedActive>>
      BY <1>6 DEF InlineExecuted
    <2> QED
      BY <2>1, <2>2, CountSame
  <1>7. CASE InlineUncount(w)
    <2>1. cur[w] \in Jobs /\ cur[w] \in Counted(w)
      BY <1>7 DEF InlineUncount
    <2>2. Counted(w)' = Counted(w) \ {cur[w]}
      BY <1>7 DEF InlineUncount
    <2>3. \A u \in Workers \ {w} : Counted(u)' = Counted(u)
      BY <1>7 DEF InlineUncount
    <2>4. StoreActive(w, reg[w], -1)
      BY <1>7 DEF InlineUncount
    <2> HIDE DEF Counted
    <2> QED
      BY <2>1, <2>2, <2>3, <2>4, CountDown
  <1>8. CASE SelectFinished(w)
    <2>1. \A u \in Workers : Counted(u)' = Counted(u)
      BY <1>8 DEF SelectFinished
    <2>2. UNCHANGED <<activeJobs, racedActive>>
      BY <1>8 DEF SelectFinished
    <2> QED
      BY <2>1, <2>2, CountSame
  <1>9. CASE StartBallooning(w)
    <2>1. \A u \in Workers : Counted(u)' = Counted(u)
      BY <1>9 DEF StartBallooning
    <2>2. UNCHANGED <<activeJobs, racedActive>>
      BY <1>9 DEF StartBallooning
    <2> QED
      BY <2>1, <2>2, CountSame
  <1>10. CASE BalloonLoad(w)
    <2>1. \A u \in Workers : Counted(u)' = Counted(u)
      BY <1>10 DEF BalloonLoad
    <2>2. UNCHANGED <<activeJobs, racedActive>>
      BY <1>10 DEF BalloonLoad
    <2> QED
      BY <2>1, <2>2, CountSame
  <1>11. CASE BalloonAdd(w)
    <2>1. \A u \in Workers : Counted(u)' = Counted(u)
      BY <1>11 DEF BalloonAdd
    <2>2. UNCHANGED <<activeJobs, racedActive>>
      BY <1>11 DEF BalloonAdd
    <2> QED
      BY <2>1, <2>2, CountSame
  <1>12. CASE BalloonMark(w)
    <2>1. \A u \in Workers : Counted(u)' = Counted(u)
      BY <1>12 DEF BalloonMark
    <2>2. UNCHANGED <<activeJobs, racedActive>>
      BY <1>12 DEF BalloonMark
    <2> QED
      BY <2>1, <2>2, CountSame
  <1>13. CASE Return(w)
    <2>1. \A u \in Workers : Counted(u)' = Counted(u)
      BY <1>13 DEF Return
    <2>2. UNCHANGED <<activeJobs, racedActive>>
      BY <1>13 DEF Return
    <2> QED
      BY <2>1, <2>2, CountSame
  <1> HIDE DEF IInv, Goto, GotoWith
  <1> QED
    BY <1>1, <1>2, <1>3, <1>4, <1>5, <1>6, <1>7,
       <1>8, <1>9, <1>10, <1>11, <1>12, <1>13 DEF Handler, HandlerRuns

\* The count through executeJob and the goroutine's deferred function (worker.go:154-171).
LEMMA CountExecutionStep ==
  ASSUME IInv, CountInv, NEW j \in Jobs, Execution(j)
  PROVE  CountInv'
  <1> USE JobExecutionAssumption
          DEF IInv, TypeOK, Handling, Started, Stages, HandlerPC, ExecPC, Executing, Counted,
              Goto, GotoWith, ExecGoto, ExecGotoWith, StoreBallooning, Answer,
              RemoveJobAndAnswer, handlerVars, jobVars, stopVars, resultVars, raceVars
  <1>1. CASE ExecuteDirectly(j)
    <2>1. \A u \in Workers : Counted(u)' = Counted(u)
      BY <1>1 DEF ExecuteDirectly
    <2>2. UNCHANGED <<activeJobs, racedActive>>
      BY <1>1 DEF ExecuteDirectly
    <2> QED
      BY <2>1, <2>2, CountSame
  <1>2. CASE StartProcess(j)
    <2>1. \A u \in Workers : Counted(u)' = Counted(u)
      BY <1>2 DEF StartProcess
    <2>2. UNCHANGED <<activeJobs, racedActive>>
      BY <1>2 DEF StartProcess
    <2> QED
      BY <2>1, <2>2, CountSame
  <1>10. CASE SetCancel(j)
    <2>1. \A u \in Workers : Counted(u)' = Counted(u)
      BY <1>10 DEF SetCancel
    <2>2. UNCHANGED <<activeJobs, racedActive>>
      BY <1>10 DEF SetCancel
    <2> QED
      BY <2>1, <2>2, CountSame
  <1>3. CASE FinishProcess(j)
    <2>1. \A u \in Workers : Counted(u)' = Counted(u)
      BY <1>3 DEF FinishProcess
    <2>2. UNCHANGED <<activeJobs, racedActive>>
      BY <1>3 DEF FinishProcess
    <2> QED
      BY <2>1, <2>2, CountSame
  <1>4. CASE DecideResult(j)
    <2>1. \A u \in Workers : Counted(u)' = Counted(u)
      BY <1>4 DEF DecideResult
    <2>2. UNCHANGED <<activeJobs, racedActive>>
      BY <1>4 DEF DecideResult
    <2> QED
      BY <2>1, <2>2, CountSame
  <1>5. CASE EnqueueResult(j)
    <2>1. \A u \in Workers : Counted(u)' = Counted(u)
      BY <1>5 DEF EnqueueResult
    <2>2. UNCHANGED <<activeJobs, racedActive>>
      BY <1>5 DEF EnqueueResult
    <2> QED
      BY <2>1, <2>2, CountSame
  <1>6. CASE GoUncountLoad(j)
    <2>1. \A u \in Workers : Counted(u)' = Counted(u)
      BY <1>6 DEF GoUncountLoad
    <2>2. UNCHANGED <<activeJobs, racedActive>>
      BY <1>6 DEF GoUncountLoad
    <2> QED
      BY <2>1, <2>2, CountSame
  <1>7. CASE GoUncount(j)
    <2>1. PICK w \in Workers : w = owner[j] /\ j \in Counted(w)
      BY <1>7 DEF GoUncount
    <2>2. Counted(w)' = Counted(w) \ {j}
      BY <1>7, <2>1 DEF GoUncount
    <2>3. \A u \in Workers \ {w} : Counted(u)' = Counted(u)
      BY <1>7, <2>1 DEF GoUncount
    <2>4. StoreActive(w, execReg[j], -1)
      BY <1>7, <2>1 DEF GoUncount
    <2> HIDE DEF Counted
    <2> QED
      BY <2>1, <2>2, <2>3, <2>4, CountDown
  <1>8. CASE GoCheckFlag(j)
    <2>1. \A u \in Workers : Counted(u)' = Counted(u)
      BY <1>8 DEF GoCheckFlag
    <2>2. UNCHANGED <<activeJobs, racedActive>>
      BY <1>8 DEF GoCheckFlag
    <2> QED
      BY <2>1, <2>2, CountSame
  <1>9. CASE GoUnballoon(j)
    <2>1. \A u \in Workers : Counted(u)' = Counted(u)
      BY <1>9 DEF GoUnballoon
    <2>2. UNCHANGED <<activeJobs, racedActive>>
      BY <1>9 DEF GoUnballoon
    <2> QED
      BY <2>1, <2>2, CountSame
  <1> HIDE DEF IInv, ExecGoto, ExecGotoWith
  <1> QED
    BY <1>1, <1>2, <1>3, <1>4, <1>5, <1>6, <1>7, <1>8, <1>9, <1>10 DEF Execution

\* Shutdown, Cancel, consumers and stuttering leave activeJobs alone.
LEMMA CountOtherStep ==
  ASSUME CountInv,
         \/ \E w \in Workers : ShutdownWorker(w) \/ Drained(w) \/ CloseWorker(w) \/ Cancel(w)
         \/ ConsumeResult
         \/ UNCHANGED vars
  PROVE  CountInv'
  <1>1. UNCHANGED <<activeJobs, racedActive, pc, cur, owner, async, exec>>
    BY DEF ShutdownWorker, Drained, CloseWorker, Cancel, CancelRuns, CancelBegin, CancelLock,
           CancelTest, CancelKill, CancelListed, CancelClose,
           ConsumeResult, vars, handlerVars, jobVars, raceVars
  <1>2. \A u \in Workers : Counted(u)' = Counted(u)
    BY <1>1 DEF Counted, Executing
  <1> QED
    BY <1>1, <1>2, CountSame

\* worker.activeJobs (worker.go:124-128, 142, 158) is the number of jobs the worker works
\* on, in line, in the select or left behind, as long as no two updates of it overlapped.
THEOREM ActiveJobsCorrect == Spec => []ActiveJobsCounts
  <1>1. Init => CountInv
    <2> SUFFICES ASSUME Init, NEW w \in Workers
                 PROVE  IsFiniteSet(Counted(w)) /\ activeJobs[w] = Cardinality(Counted(w))
      BY DEF CountInv
    <2>1. Counted(w) = {}
      BY JobExecutionAssumption DEF Init, Counted
    <2> QED
      BY <2>1, FS_EmptySet DEF Init
  <1>2. IInv /\ CountInv /\ [Next]_vars => CountInv'
    BY CountHandlerStep, CountExecutionStep, CountOtherStep DEF Next
  <1>3. CountInv => ActiveJobsCounts
    BY DEF CountInv, ActiveJobsCounts
  <1> QED
    BY <1>1, <1>2, <1>3, Invariance, PTL DEF Spec
-----------------------------------------------------------------------------
(***************************************************************************)
(* Backgrounding.  A job owes one of curBallooningWorker from the handler's *)
(* curBallooningWorker++ until its goroutine subtracts it; a handler that  *)
(* passed the check of startballooning holds a permit until it adds.       *)
(***************************************************************************)
Owing(j) ==
  \/ /\ j \in ballooning
     /\ Executing(j) \/ exec[j] \in {"returned", "uncount", "flag", "unballoon"}
  \/ \E w \in Workers : pc[w] = "balloonMark" /\ cur[w] = j

Owed == {j \in Jobs : Owing(j)}

Permits == {w \in Workers : pc[w] \in {"balloon", "balloonAdd"}}

\* a job is marked once, by its handler, after it began to execute
Marked ==
  /\ \A w \in Workers :
       pc[w] \in {"select", "balloon", "balloonAdd", "balloonMark"} => cur[w] \notin ballooning
  /\ \A j \in Jobs : /\ exec[j] = "none" => j \notin ballooning
                     /\ exec[j] = "unballoon" => j \in ballooning

\* the counter covers what is owed; permits and counter together keep the limit
Covered ==
  ~racedBallooning =>
    /\ IsFiniteSet(Owed) /\ Cardinality(Owed) <= curBallooningWorker
    /\ IF BallooningSlots > 0
       THEN curBallooningWorker + Cardinality(Permits)
              <= BallooningSlots + Cardinality(Workers) - 1
       ELSE Permits = {} /\ Owed = {}

\* Marks survive the steps of doWork and of executeJob (worker.go:118-192).
LEMMA MarkedStep ==
  ASSUME IInv, Marked, [Next]_vars
  PROVE  Marked'
  <1> USE JobExecutionAssumption
          DEF IInv, TypeOK, Handling, Started, Stages, HandlerPC, ExecPC, Marked,
              Goto, GotoWith, ExecGoto, ExecGotoWith, Answer, RemoveJobAndAnswer,
              handlerVars, jobVars, stopVars, resultVars, raceVars
  <1>1. ASSUME NEW w \in Workers, Handler(w) PROVE Marked'
    <2>1. ASSUME NEW j \in Jobs, TakeJob(w, j) PROVE Marked'
      BY <2>1 DEF TakeJob
    <2>2. CASE Count(w) \/ RejectJob(w) \/ RejectReturn(w)
      BY <2>2 DEF Count, RejectJob, RejectReturn
    <2>3. CASE AcceptJob(w)
      BY <2>3 DEF AcceptJob
    <2>4. CASE InlineExecuted(w) \/ InlineUncount(w)
      BY <2>4 DEF InlineExecuted, InlineUncount
    <2>5. CASE SelectFinished(w) \/ Return(w)
      BY <2>5 DEF SelectFinished, Return
    <2>6. CASE StartBallooning(w) \/ BalloonLoad(w) \/ BalloonAdd(w)
      BY <2>6 DEF StartBallooning, BalloonLoad, BalloonAdd
    <2>7. CASE BalloonMark(w)
      BY <2>7 DEF BalloonMark
    <2> HIDE DEF Marked
    <2> QED
      BY <1>1, <2>1, <2>2, <2>3, <2>4, <2>5, <2>6, <2>7 DEF Handler, HandlerRuns
  <1>2. ASSUME NEW j \in Jobs, Execution(j) PROVE Marked'
    <2>1. CASE ExecuteDirectly(j) \/ StartProcess(j) \/ SetCancel(j) \/ FinishProcess(j)
      BY <2>1 DEF ExecuteDirectly, StartProcess, SetCancel, FinishProcess
    <2>2. CASE DecideResult(j) \/ EnqueueResult(j)
      BY <2>2 DEF DecideResult, EnqueueResult
    <2>3. CASE GoUncountLoad(j) \/ GoUncount(j) \/ GoCheckFlag(j) \/ GoUnballoon(j)
      BY <2>3 DEF GoUncountLoad, GoUncount, GoCheckFlag, GoUnballoon
    <2> HIDE DEF Marked
    <2> QED
      BY <1>2, <2>1, <2>2, <2>3 DEF Execution
  <1>3. ASSUME \/ \E w \in Workers : ShutdownWorker(w) \/ Drained(w) \/ CloseWorker(w) \/ Cancel(w)
               \/ ConsumeResult
               \/ UNCHANGED vars
        PROVE  Marked'
    <2>1. UNCHANGED <<pc, cur, exec, ballooning>>
      BY <1>3 DEF ShutdownWorker, Drained, CloseWorker, Cancel, CancelRuns, CancelBegin, CancelLock,
                  CancelTest, CancelKill, CancelListed, CancelClose, ConsumeResult, vars
    <2> QED
      BY <2>1
  <1> HIDE DEF Marked
  <1> QED
    BY <1>1, <1>2, <1>3 DEF Next

\* A step after which nothing more is owed and nobody has a new permit.
LEMMA CoveredSame ==
  ASSUME Covered, Owed' \subseteq Owed, Permits' = Permits,
         UNCHANGED <<curBallooningWorker, racedBallooning>>, TypeOK
  PROVE  Covered'
  <1> SUFFICES ASSUME ~racedBallooning PROVE Covered'
    BY DEF Covered
  <1>1. IsFiniteSet(Owed) /\ Cardinality(Owed) <= curBallooningWorker
    BY DEF Covered
  <1>2. IsFiniteSet(Owed') /\ Cardinality(Owed') <= Cardinality(Owed)
    BY <1>1, FS_Subset
  <1>3. Cardinality(Owed) \in Nat /\ Cardinality(Owed') \in Nat /\ curBallooningWorker \in Int
    BY <1>1, <1>2, FS_CardinalityType DEF TypeOK
  <1>4. Cardinality(Owed') <= curBallooningWorker
    BY <1>1, <1>2, <1>3
  <1> QED
    BY <1>2, <1>4 DEF Covered

\* Permits are a set of workers.
LEMMA PermitsFinite ==
  /\ IsFiniteSet(Permits) /\ Cardinality(Permits) \in Nat /\ Cardinality(Workers) \in Nat
  /\ Cardinality(Permits) <= Cardinality(Workers)
  <1>1. Permits \in SUBSET Workers
    BY DEF Permits
  <1> QED
    BY <1>1, FinitelyManyWorkers, FS_Subset, FS_CardinalityType

\* startballooning (worker.go:220-240): a permit is given while the counter is below the limit.
LEMMA CoveredPermit ==
  ASSUME IInv, Covered, NEW w \in Workers, StartBallooning(w)
  PROVE  Covered'
  <1> SUFFICES ASSUME ~racedBallooning PROVE Covered'
    BY DEF Covered, StartBallooning, raceVars
  <1>1. /\ UNCHANGED <<curBallooningWorker, racedBallooning>>
        /\ curBallooningWorker < BallooningSlots
    BY DEF StartBallooning, raceVars
  <1>2. Owed' = Owed
    BY DEF StartBallooning, Owed, Owing, Executing, Goto, handlerVars, jobVars, IInv, TypeOK, HandlerPC
  <1>3. IsFiniteSet(Owed) /\ Cardinality(Owed) <= curBallooningWorker /\ Cardinality(Owed) \in Nat
    BY FS_CardinalityType DEF Covered
  <1>4. BallooningSlots > 0
    BY <1>1, <1>3, JobExecutionAssumption DEF IInv, TypeOK
  <1>5. Cardinality(Permits') \in Nat /\ Cardinality(Permits') <= Cardinality(Workers)
    <2>1. Permits' \in SUBSET Workers
      BY DEF Permits
    <2> QED
      BY <2>1, FinitelyManyWorkers, FS_Subset, FS_CardinalityType
  <1>6. curBallooningWorker + Cardinality(Permits') <= BallooningSlots + Cardinality(Workers) - 1
    BY <1>1, <1>5, PermitsFinite, JobExecutionAssumption DEF IInv, TypeOK
  <1> QED
    BY <1>1, <1>2, <1>3, <1>4, <1>6 DEF Covered

\* curBallooningWorker++ (worker.go:184) turns a permit into one that is owed.
LEMMA CoveredAdd ==
  ASSUME IInv, Covered, NEW w \in Workers, BalloonAdd(w)
  PROVE  Covered'
  <1> SUFFICES ASSUME ~racedBallooning' PROVE Covered'
    BY DEF Covered
  <1>1. ~racedBallooning /\ curBallooningWorker' = curBallooningWorker + 1
    BY DEF BalloonAdd, StoreBallooning, IInv, TypeOK
  <1>2. w \in Permits /\ Permits' = Permits \ {w}
    BY DEF BalloonAdd, GotoWith, Goto, Permits, IInv, TypeOK, HandlerPC
  <1>3. Owed' = Owed \cup {cur[w]}
    BY DEF BalloonAdd, GotoWith, Goto, Owed, Owing, Executing, jobVars, IInv, TypeOK, HandlerPC, Handling
  <1>4. IsFiniteSet(Owed) /\ Cardinality(Owed) <= curBallooningWorker /\ Cardinality(Owed) \in Nat
    BY <1>1, FS_CardinalityType DEF Covered
  <1>5. IsFiniteSet(Owed') /\ Cardinality(Owed') <= curBallooningWorker'
    <2> DEFINE Added == Owed \cup {cur[w]}
    <2>3. /\ IsFiniteSet(Added)
          /\ Cardinality(Added) = Cardinality(Owed) \/ Cardinality(Added) = Cardinality(Owed) + 1
      BY <1>4, FS_AddElement
    <2>1. IsFiniteSet(Owed') /\ Cardinality(Owed') <= Cardinality(Owed) + 1
      <3> HIDE DEF Added
      <3> QED
        BY <1>3, <1>4, <2>3 DEF Added
    <2>2. Cardinality(Owed') \in Nat
      BY <2>1, FS_CardinalityType
    <2> QED
      BY <1>1, <1>4, <2>1, <2>2 DEF IInv, TypeOK
  <1>6. /\ BallooningSlots > 0
        /\ curBallooningWorker + Cardinality(Permits) <= BallooningSlots + Cardinality(Workers) - 1
    BY <1>1, <1>2 DEF Covered
  <1>7. Cardinality(Permits') = Cardinality(Permits) - 1
    BY <1>2, PermitsFinite, FS_RemoveElement
  <1>8. curBallooningWorker' + Cardinality(Permits') <= BallooningSlots + Cardinality(Workers) - 1
    BY <1>1, <1>6, <1>7, PermitsFinite, JobExecutionAssumption DEF IInv, TypeOK
  <1> QED
    BY <1>5, <1>6, <1>8 DEF Covered

\* curBallooningWorker-- (worker.go:160) is done for a marked job, which owes nothing afterwards.
LEMMA CoveredSubtract ==
  ASSUME IInv, Marked, Covered, NEW j \in Jobs, GoUnballoon(j)
  PROVE  Covered'
  <1> SUFFICES ASSUME ~racedBallooning' PROVE Covered'
    BY DEF Covered
  <1>1. ~racedBallooning /\ curBallooningWorker' = curBallooningWorker - 1
    BY DEF GoUnballoon, StoreBallooning, IInv, TypeOK
  <1>2. Permits' = Permits
    BY DEF GoUnballoon, Permits, handlerVars
  <1>3. j \in Owed /\ Owed' = Owed \ {j}
    BY DEF GoUnballoon, ExecGotoWith, ExecGoto, Owed, Owing, Executing, Marked, handlerVars,
           IInv, TypeOK, ExecPC
  <1>4. IsFiniteSet(Owed) /\ Cardinality(Owed) <= curBallooningWorker /\ Cardinality(Owed) \in Nat
    BY <1>1, FS_CardinalityType DEF Covered
  <1>5. IsFiniteSet(Owed') /\ Cardinality(Owed') = Cardinality(Owed) - 1
    BY <1>3, <1>4, FS_RemoveElement
  <1>6. /\ BallooningSlots > 0
        /\ curBallooningWorker + Cardinality(Permits) <= BallooningSlots + Cardinality(Workers) - 1
    BY <1>1, <1>3 DEF Covered
  <1>7. /\ Cardinality(Owed') <= curBallooningWorker'
        /\ curBallooningWorker' + Cardinality(Permits') <= BallooningSlots + Cardinality(Workers) - 1
    BY <1>1, <1>2, <1>4, <1>5, <1>6, PermitsFinite, JobExecutionAssumption DEF IInv, TypeOK
  <1> QED
    BY <1>5, <1>6, <1>7 DEF Covered

\* The counter and the limit through the steps of doWork (worker.go:118-192).
LEMMA CoveredHandlerStep ==
  ASSUME IInv, Marked, Covered, NEW w \in Workers, Handler(w)
  PROVE  Covered'
  <1> USE DEF IInv, TypeOK, Handling, Stages, HandlerPC, ExecPC, Executing, Owed, Owing, Permits,
              Goto, GotoWith, ExecGoto, Answer, RemoveJobAndAnswer,
              handlerVars, jobVars, stopVars, resultVars, raceVars
  <1>1. ASSUME NEW j \in Jobs, TakeJob(w, j) PROVE Covered'
    <2>1. Owed' \subseteq Owed /\ Permits' = Permits
      BY <1>1 DEF TakeJob
    <2>2. UNCHANGED <<curBallooningWorker, racedBallooning>>
      BY <1>1 DEF TakeJob
    <2> QED
      BY <2>1, <2>2, CoveredSame
  <1>2. CASE Count(w) \/ RejectJob(w) \/ RejectReturn(w)
    <2>1. Owed' \subseteq Owed /\ Permits' = Permits
      BY <1>2 DEF Count, RejectJob, RejectReturn
    <2>2. UNCHANGED <<curBallooningWorker, racedBallooning>>
      BY <1>2 DEF Count, RejectJob, RejectReturn
    <2> QED
      BY <2>1, <2>2, CoveredSame
  <1>3. CASE AcceptJob(w)
    <2>1. Owed' \subseteq Owed /\ Permits' = Permits
      BY <1>3 DEF AcceptJob, Marked
    <2>2. UNCHANGED <<curBallooningWorker, racedBallooning>>
      BY <1>3 DEF AcceptJob
    <2> QED
      BY <2>1, <2>2, CoveredSame
  <1>4. CASE InlineExecuted(w) \/ InlineUncount(w)
    <2>1. Owed' \subseteq Owed /\ Permits' = Permits
      BY <1>4 DEF InlineExecuted, InlineUncount
    <2>2. UNCHANGED <<curBallooningWorker, racedBallooning>>
      BY <1>4 DEF InlineExecuted, InlineUncount
    <2> QED
      BY <2>1, <2>2, CoveredSame
  <1>5. CASE SelectFinished(w) \/ Return(w)
    <2>1. Owed' \subseteq Owed /\ Permits' = Permits
      BY <1>5 DEF SelectFinished, Return
    <2>2. UNCHANGED <<curBallooningWorker, racedBallooning>>
      BY <1>5 DEF SelectFinished, Return
    <2> QED
      BY <2>1, <2>2, CoveredSame
  <1>6. CASE BalloonLoad(w)
    <2>1. Owed' \subseteq Owed /\ Permits' = Permits
      BY <1>6 DEF BalloonLoad
    <2>2. UNCHANGED <<curBallooningWorker, racedBallooning>>
      BY <1>6 DEF BalloonLoad
    <2> QED
      BY <2>1, <2>2, CoveredSame
  <1>7. CASE BalloonMark(w)
    <2>1. Owed' \subseteq Owed /\ Permits' = Permits
      BY <1>7 DEF BalloonMark
    <2>2. UNCHANGED <<curBallooningWorker, racedBallooning>>
      BY <1>7 DEF BalloonMark
    <2> QED
      BY <2>1, <2>2, CoveredSame
  <1> HIDE DEF IInv, Goto, GotoWith
  <1> QED
    BY <1>1, <1>2, <1>3, <1>4, <1>5, <1>6, <1>7, CoveredPermit, CoveredAdd
    DEF Handler, HandlerRuns

\* ... and through those of executeJob and of the goroutine's deferred function.
LEMMA CoveredExecutionStep ==
  ASSUME IInv, Marked, Covered, NEW j \in Jobs, Execution(j)
  PROVE  Covered'
  <1> USE DEF IInv, TypeOK, Started, HandlerPC, ExecPC, Executing, Owed, Owing, Permits,
              ExecGoto, ExecGotoWith, handlerVars, raceVars
  <1>1. CASE ExecuteDirectly(j) \/ StartProcess(j) \/ SetCancel(j) \/ FinishProcess(j) \/ DecideResult(j)
               \/ EnqueueResult(j)
    <2>1. Owed' \subseteq Owed /\ Permits' = Permits
      BY <1>1 DEF ExecuteDirectly, StartProcess, SetCancel, FinishProcess, DecideResult, EnqueueResult
    <2>2. UNCHANGED <<curBallooningWorker, racedBallooning>>
      BY <1>1 DEF ExecuteDirectly, StartProcess, SetCancel, FinishProcess, DecideResult, EnqueueResult
    <2> QED
      BY <2>1, <2>2, CoveredSame
  <1>2. CASE GoUncountLoad(j) \/ GoUncount(j) \/ GoCheckFlag(j)
    <2>1. Owed' \subseteq Owed /\ Permits' = Permits
      BY <1>2 DEF GoUncountLoad, GoUncount, GoCheckFlag
    <2>2. UNCHANGED <<curBallooningWorker, racedBallooning>>
      BY <1>2 DEF GoUncountLoad, GoUncount, GoCheckFlag, StoreActive
    <2> QED
      BY <2>1, <2>2, CoveredSame
  <1> HIDE DEF IInv, ExecGoto, ExecGotoWith
  <1> QED
    BY <1>1, <1>2, CoveredSubtract DEF Execution

\* Shutdown, Cancel, consumers and stuttering have nothing to do with backgrounding.
LEMMA CoveredOtherStep ==
  ASSUME IInv, Covered,
         \/ \E w \in Workers : ShutdownWorker(w) \/ Drained(w) \/ CloseWorker(w) \/ Cancel(w)
         \/ ConsumeResult
         \/ UNCHANGED vars
  PROVE  Covered'
  <1>1. UNCHANGED <<curBallooningWorker, racedBallooning, pc, cur, exec, ballooning>>
    BY DEF ShutdownWorker, Drained, CloseWorker, Cancel, CancelRuns, CancelBegin, CancelLock,
           CancelTest, CancelKill, CancelListed, CancelClose,
           ConsumeResult, vars, handlerVars, jobVars, raceVars
  <1>2. Owed' \subseteq Owed /\ Permits' = Permits
    BY <1>1 DEF Owed, Owing, Executing, Permits
  <1> QED
    BY <1>1, <1>2, CoveredSame DEF IInv

\* As long as no two updates of curBallooningWorker overlapped, it covers the jobs that
\* were backgrounded and still execute, and however many workers pass the check of
\* startballooning together (worker.go:231), backgrounding keeps to its limit plus all
\* other workers.
THEOREM BallooningLimited == Spec => []BallooningBounded
  <1>1. Init => Marked /\ Covered
    <2> SUFFICES ASSUME Init PROVE Marked /\ Covered
      OBVIOUS
    <2>1. Marked
      BY DEF Init, Marked
    <2>2. Owed = {} /\ Permits = {}
      BY DEF Init, Owed, Owing, Permits
    <2>3. Cardinality(Workers) \in Nat \ {0} \/ Cardinality(Workers) = 0
      BY PermitsFinite
    <2>4. IsFiniteSet(Owed) /\ Cardinality(Owed) = 0 /\ Cardinality(Permits) = 0
      BY <2>2, FS_EmptySet
    <2>5. curBallooningWorker = 0
      BY DEF Init
    <2>6. Covered
      BY <2>2, <2>3, <2>4, <2>5, JobExecutionAssumption DEF Covered
    <2> QED
      BY <2>1, <2>6
  <1>2. IInv /\ Marked /\ Covered /\ [Next]_vars => Marked' /\ Covered'
    BY MarkedStep, CoveredHandlerStep, CoveredExecutionStep, CoveredOtherStep DEF Next
  <1>3. IInv /\ Covered => BallooningBounded
    <2> SUFFICES ASSUME IInv, Covered, ~racedBallooning
                 PROVE  /\ Cardinality(Backgrounded) <= curBallooningWorker
                        /\ Cardinality(Backgrounded) <=
                             IF BallooningSlots > 0
                             THEN BallooningSlots + Cardinality(Workers) - 1 ELSE 0
      BY DEF BallooningBounded
    <2>1. Backgrounded \in SUBSET Owed
      BY DEF Backgrounded, Owed, Owing, IInv, TypeOK
    <2>2. IsFiniteSet(Owed) /\ Cardinality(Owed) <= curBallooningWorker /\ Cardinality(Owed) \in Nat
      BY FS_CardinalityType DEF Covered
    <2>3. Cardinality(Backgrounded) \in Nat /\ Cardinality(Backgrounded) <= Cardinality(Owed)
      BY <2>1, <2>2, FS_Subset, FS_CardinalityType
    <2>4. Cardinality(Backgrounded) <= curBallooningWorker
      BY <2>2, <2>3 DEF IInv, TypeOK
    <2>5. ASSUME BallooningSlots > 0
          PROVE  Cardinality(Backgrounded) <= BallooningSlots + Cardinality(Workers) - 1
      BY <2>4, <2>3, <2>5, PermitsFinite, JobExecutionAssumption DEF Covered, IInv, TypeOK
    <2>6. ASSUME ~(BallooningSlots > 0) PROVE Cardinality(Backgrounded) <= 0
      BY <2>2, <2>3, <2>6, FS_EmptySet DEF Covered
    <2> QED
      BY <2>4, <2>5, <2>6
  <1> QED
    BY <1>1, <1>2, <1>3, Invariance, PTL DEF Spec
=============================================================================
