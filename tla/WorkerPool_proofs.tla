------------------------- MODULE WorkerPool_proofs -------------------------
(***************************************************************************)
(* Theorems about WorkerPool, for all sets of workers and servers and for  *)
(* all limits: the type invariant, that the map of workers never holds     *)
(* more than are configured, that no connected worker is forgotten, and    *)
(* that the map holds no worker that has ended.                            *)
(***************************************************************************)
EXTENDS WorkerPool, FiniteSetTheorems, TLAPS

-----------------------------------------------------------------------------
(***************************************************************************)
(* The inductive invariant.  PoolBounded alone is not inductive: a worker  *)
(* is registered some time after manageWorkers saw that one is missing, so *)
(* the rounds that are left, the workers a reload is to start again and    *)
(* the worker that waits to be registered count against the limit.         *)
(***************************************************************************)

\* the map grows by one worker at a time
FiniteMap == IsFiniteSet(workerMap)

\* manageWorkers holds a worker while it registers or stops one, and has a round left
HoldsWorker ==
  IF mgr \in {"regMin", "regTop", "sinkOne", "sinking"}
  THEN mgrLeft > 0 /\ mgrWorker \in Ids
  ELSE mgrWorker = None

\* the worker it stops is not connected
SinkingStopped == mgr = "sinking" => obj[mgrWorker] # "up"

Limit == Larger(MinWorker, MaxWorker)

\* the workers that are still to come fit into the map
RoomLeft ==
  /\ mgr \in {"min", "regMin"} => Cardinality(workerMap) + mgrLeft <= Limit
  /\ mgr = "regTop" => Cardinality(workerMap) < MaxWorker
  /\ numWorker <= Limit /\ initialStart <= Limit

\* only Cancel leaves a worker canceled
CanceledLive == ~closedLive => \A w \in Ids : obj[w] # "canceled"

\* the retry goroutine looks at a server
LooksAtServer == retry \in {"dial", "write"} => retryServer \in Servers

IInv ==
  /\ TypeOK /\ FiniteMap /\ HoldsWorker /\ SinkingStopped /\ LooksAtServer
  /\ PoolBounded /\ RoomLeft /\ NoOrphan /\ CanceledLive /\ NoDeadEntry

-----------------------------------------------------------------------------
(***************************************************************************)
(* What registering and unregistering a worker does to the size of a map.  *)
(***************************************************************************)
LEMMA OneMore ==
  ASSUME NEW S, IsFiniteSet(S), NEW x
  PROVE  /\ IsFiniteSet(S \cup {x})
         /\ Cardinality(S) \in Nat /\ Cardinality(S \cup {x}) \in Nat
         /\ Cardinality(S \cup {x}) <= Cardinality(S) + 1
  BY FS_AddElement, FS_CardinalityType

LEMMA NotMore ==
  ASSUME NEW S, IsFiniteSet(S), NEW T, T \subseteq S
  PROVE  /\ IsFiniteSet(T)
         /\ Cardinality(S) \in Nat /\ Cardinality(T) \in Nat
         /\ Cardinality(T) <= Cardinality(S)
  BY FS_Subset, FS_CardinalityType

-----------------------------------------------------------------------------
(***************************************************************************)
(* The invariant holds initially, and every step preserves it.             *)
(***************************************************************************)
LEMMA InitInvariant == Init => IInv
  <1> SUFFICES ASSUME Init PROVE IInv
    OBVIOUS
  <1> USE WorkerPoolAssumption DEF Init
  <1>1. Cardinality(workerMap) = 0 /\ FiniteMap
    BY FS_EmptySet DEF FiniteMap
  <1>2. TypeOK
    <2>1. /\ up \subseteq Servers /\ failed \subseteq Servers
          /\ failures \in 0..MaxFailures
          /\ workerMap \subseteq Ids /\ busy \subseteq Ids /\ current \subseteq Ids
      OBVIOUS
    <2>2. /\ obj \in [Ids -> {"closed", "up", "stopping", "canceled"}]
          /\ conn \in [Ids -> SUBSET Servers] /\ broken \in [Ids -> SUBSET Servers]
      OBVIOUS
    <2>3. /\ statusWorker \in BOOLEAN /\ idle \in BOOLEAN /\ previous \in BOOLEAN
          /\ dialed \in BOOLEAN /\ changed \in BOOLEAN
          /\ closedLive \in BOOLEAN /\ deadEntry \in BOOLEAN
      OBVIOUS
    <2>4. /\ mgr = "idle" /\ mgrLeft \in Nat /\ mgrWorker = None
          /\ activeWorkers \in Nat /\ initialStart \in Int
          /\ retry = "sleep" /\ retryTodo \subseteq Servers /\ retryServer = None
          /\ stopSet \subseteq Ids
          /\ phase = "run" /\ numWorker \in Nat /\ reloads \in 0..MaxReloads
      OBVIOUS
    <2> QED
      BY <2>1, <2>2, <2>3, <2>4 DEF TypeOK
  <1>3. HoldsWorker /\ SinkingStopped /\ LooksAtServer /\ NoOrphan /\ CanceledLive
          /\ NoDeadEntry
    BY DEF HoldsWorker, SinkingStopped, LooksAtServer, NoOrphan, CanceledLive, NoDeadEntry
  <1>4. PoolBounded /\ RoomLeft
    BY <1>1 DEF PoolBounded, RoomLeft, Limit, Larger
  <1> QED
    BY <1>1, <1>2, <1>3, <1>4 DEF IInv

(***************************************************************************)
(* Steps that leave the map alone, and workers connected that were.        *)
(***************************************************************************)

\* gearmands come and go, jobs come and end
LEMMA EnvironmentStep ==
  ASSUME IInv, Environment
  PROVE  IInv'
  <1> USE WorkerPoolAssumption
          DEF IInv, TypeOK, FiniteMap, HoldsWorker, SinkingStopped, LooksAtServer, PoolBounded,
              RoomLeft, Limit, Larger, NoOrphan, CanceledLive, NoDeadEntry, running,
              envVars, workerVars, mgrVars, retryVars, lifeVars, history
  <1>1. ASSUME NEW s \in Servers, ServerFails(s) PROVE IInv'
    <2>1. TypeOK'
      BY <1>1 DEF ServerFails
    <2>2. (FiniteMap /\ HoldsWorker /\ SinkingStopped /\ LooksAtServer)'
      BY <1>1 DEF ServerFails
    <2>3. (PoolBounded /\ RoomLeft /\ NoOrphan /\ CanceledLive /\ NoDeadEntry)'
      BY <1>1 DEF ServerFails
    <2> QED
      BY <2>1, <2>2, <2>3 DEF IInv
  <1>2. ASSUME NEW s \in Servers, ServerRecovers(s) PROVE IInv'
    BY <1>2 DEF ServerRecovers
  <1>3. ASSUME NEW s \in Servers, StatusDisconnect(s) PROVE IInv'
    <2>1. TypeOK'
      <3>1. failed' \subseteq Servers /\ statusWorker' \in BOOLEAN
        BY <1>3 DEF StatusDisconnect
      <3> QED
        BY <1>3, <3>1 DEF StatusDisconnect
    <2>2. (FiniteMap /\ HoldsWorker /\ SinkingStopped /\ LooksAtServer)'
      BY <1>3 DEF StatusDisconnect
    <2>3. (PoolBounded /\ RoomLeft /\ NoOrphan /\ CanceledLive /\ NoDeadEntry)'
      BY <1>3 DEF StatusDisconnect
    <2> QED
      BY <2>1, <2>2, <2>3 DEF IInv
  <1>4. ASSUME NEW w \in Ids, JobStart(w) PROVE IInv'
    BY <1>4 DEF JobStart
  <1>5. ASSUME NEW w \in Ids, JobEnd(w) PROVE IInv'
    BY <1>5 DEF JobEnd
  <1>6. CASE IdleTimeout
    BY <1>6 DEF IdleTimeout
  <1> HIDE DEF IInv
  <1> QED
    BY <1>1, <1>2, <1>3, <1>4, <1>5, <1>6 DEF Environment

\* the retry goroutine
LEMMA RetryStep ==
  ASSUME IInv, Retry
  PROVE  IInv'
  <1> USE WorkerPoolAssumption
          DEF IInv, TypeOK, FiniteMap, HoldsWorker, SinkingStopped, LooksAtServer, PoolBounded,
              RoomLeft, Limit, Larger, NoOrphan, CanceledLive, NoDeadEntry, running,
              envVars, workerVars, mgrVars, retryVars, lifeVars, history
  <1>1. CASE RetryStart
    <2>1. TypeOK'
      <3>1. changed' \in BOOLEAN
        BY <1>1 DEF RetryStart
      <3>2. retry' = "read" /\ retryTodo' \subseteq Servers
        BY <1>1 DEF RetryStart
      <3> QED
        BY <1>1, <3>1, <3>2 DEF RetryStart
    <2>2. (FiniteMap /\ HoldsWorker /\ SinkingStopped /\ LooksAtServer)'
      BY <1>1 DEF RetryStart
    <2>3. (PoolBounded /\ RoomLeft /\ NoOrphan /\ CanceledLive /\ NoDeadEntry)'
      BY <1>1 DEF RetryStart
    <2> QED
      BY <2>1, <2>2, <2>3 DEF IInv
  <1>2. ASSUME NEW s \in Servers, RetryRead(s) PROVE IInv'
    BY <1>2 DEF RetryRead
  <1>3. CASE RetryDial
    BY <1>3 DEF RetryDial
  <1>4. CASE RetryWrite
    <2>1. TypeOK'
      <3>1. failed' \subseteq Servers /\ retryTodo' \subseteq Servers
        BY <1>4 DEF RetryWrite
      <3>2. changed' \in BOOLEAN
        BY <1>4, Zenon DEF RetryWrite
      <3>3. retry' \in {"read", "stop", "sleep"} /\ retryServer' = None
        BY <1>4 DEF RetryWrite
      <3>4. previous' \in BOOLEAN /\ dialed' \in BOOLEAN
        BY <1>4 DEF RetryWrite
      <3>5. UNCHANGED <<envVars, workerMap, workerVars, statusWorker, mgrVars, stopSet,
                        lifeVars, history>>
        BY <1>4 DEF RetryWrite
      <3> QED
        BY <3>1, <3>2, <3>3, <3>4, <3>5
    <2>2. (FiniteMap /\ HoldsWorker /\ SinkingStopped /\ LooksAtServer)'
      BY <1>4 DEF RetryWrite
    <2>3. (PoolBounded /\ RoomLeft /\ NoOrphan /\ CanceledLive /\ NoDeadEntry)'
      BY <1>4 DEF RetryWrite
    <2> QED
      BY <2>1, <2>2, <2>3 DEF IInv
  <1>5. CASE StopAllWorker
    <2>1. TypeOK'
      <3>1. obj' \in [Ids -> {"closed", "up", "stopping", "canceled"}]
        BY <1>5 DEF StopAllWorker, Stopping
      <3>2. /\ stopSet' \subseteq Ids /\ retry' \in {"sleep", "wait"}
            /\ changed' \in BOOLEAN
        BY <1>5 DEF StopAllWorker
      <3> QED
        BY <1>5, <3>1, <3>2 DEF StopAllWorker
    <2>2. (FiniteMap /\ HoldsWorker /\ SinkingStopped /\ LooksAtServer)'
      BY <1>5 DEF StopAllWorker, Stopping
    <2>3. (PoolBounded /\ RoomLeft /\ NoOrphan /\ CanceledLive /\ NoDeadEntry)'
      BY <1>5 DEF StopAllWorker, Stopping
    <2> QED
      BY <2>1, <2>2, <2>3 DEF IInv
  <1>6. CASE AllStopped
    <2>1. TypeOK'
      <3>1. obj' \in [Ids -> {"closed", "up", "stopping", "canceled"}]
        BY <1>6 DEF AllStopped, CancelAll
      <3>2. closedLive' \in BOOLEAN
        BY <1>6, Zenon DEF AllStopped, CancelAll
      <3>3. statusWorker' \in BOOLEAN /\ stopSet' \subseteq Ids /\ retry' = "sleep"
        BY <1>6 DEF AllStopped
      <3> QED
        BY <1>6, <3>1, <3>2, <3>3 DEF AllStopped
    <2>2. (FiniteMap /\ HoldsWorker /\ SinkingStopped /\ LooksAtServer)'
      BY <1>6 DEF AllStopped, CancelAll, Busy
    <2>3. (PoolBounded /\ RoomLeft /\ NoOrphan /\ CanceledLive /\ NoDeadEntry)'
      BY <1>6 DEF AllStopped, CancelAll, Busy
    <2> QED
      BY <2>1, <2>2, <2>3 DEF IInv
  <1> HIDE DEF IInv
  <1> QED
    BY <1>1, <1>2, <1>3, <1>4, <1>5, <1>6 DEF Retry

\* a reload
LEMMA ReloadStep ==
  ASSUME IInv, Reload
  PROVE  IInv'
  <1> USE WorkerPoolAssumption
          DEF IInv, TypeOK, FiniteMap, HoldsWorker, SinkingStopped, LooksAtServer, PoolBounded,
              RoomLeft, Limit, Larger, NoOrphan, CanceledLive, NoDeadEntry, running,
              envVars, workerVars, mgrVars, retryVars, lifeVars, history
  <1>1. Cardinality(workerMap) \in Nat
    BY FS_CardinalityType
  <1>2. CASE ReloadBegin
    BY <1>1, <1>2 DEF ReloadBegin
  <1>5. CASE ReloadShutdown
    BY <1>5 DEF ReloadShutdown
  <1>3. CASE ReloadStopAll
    BY <1>3 DEF ReloadStopAll, Stopping
  <1>4. CASE ReloadRestart
    <2>1. TypeOK'
      <3>1. obj' \in [Ids -> {"closed", "up", "stopping", "canceled"}]
        BY <1>4 DEF ReloadRestart, CancelAll
      <3>2. closedLive' \in BOOLEAN
        BY <1>4, Zenon DEF ReloadRestart, CancelAll
      <3>3. initialStart' \in Int
        BY <1>1, <1>4 DEF ReloadRestart
      <3>4. /\ failed' \subseteq Servers /\ activeWorkers' \in Nat
            /\ current' \subseteq Ids /\ phase' = "run"
        BY <1>4 DEF ReloadRestart
      <3>5. statusWorker' \in BOOLEAN /\ idle' \in BOOLEAN
        BY <1>4 DEF ReloadRestart
      <3> QED
        BY <1>4, <3>1, <3>2, <3>3, <3>4, <3>5 DEF ReloadRestart
    <2>2. (FiniteMap /\ HoldsWorker /\ LooksAtServer /\ PoolBounded /\ RoomLeft)'
      BY <1>1, <1>4 DEF ReloadRestart
    <2>3. (SinkingStopped /\ NoOrphan /\ CanceledLive /\ NoDeadEntry)'
      BY <1>4 DEF ReloadRestart, CancelAll, Busy
    <2> QED
      BY <2>1, <2>2, <2>3 DEF IInv
  <1> HIDE DEF IInv
  <1> QED
    BY <1>2, <1>3, <1>4, <1>5 DEF Reload

\* what a worker does when its connection is lost
LEMMA WorkersStep ==
  ASSUME IInv, Workers
  PROVE  IInv'
  <1> USE WorkerPoolAssumption
          DEF IInv, TypeOK, FiniteMap, HoldsWorker, SinkingStopped, LooksAtServer, PoolBounded,
              RoomLeft, Limit, Larger, NoOrphan, CanceledLive, NoDeadEntry, running,
              envVars, workerVars, mgrVars, retryVars, lifeVars, history
  <1>1. ASSUME NEW w \in Ids, FinishShutdown(w) PROVE IInv'
    <2>1. workerMap' \subseteq workerMap
      BY <1>1 DEF FinishShutdown
    <2>2. /\ FiniteMap' /\ Cardinality(workerMap) \in Nat /\ Cardinality(workerMap') \in Nat
          /\ Cardinality(workerMap') <= Cardinality(workerMap)
      BY <2>1, NotMore
    <2>3. (TypeOK /\ HoldsWorker /\ SinkingStopped /\ LooksAtServer)'
      BY <1>1 DEF FinishShutdown
    <2>4. (PoolBounded /\ RoomLeft)'
      BY <1>1, <2>2 DEF FinishShutdown
    <2>5. (NoOrphan /\ CanceledLive /\ NoDeadEntry)'
      BY <1>1 DEF FinishShutdown
    <2> QED
      BY <2>2, <2>3, <2>4, <2>5 DEF IInv
  <1>2. ASSUME NEW w \in Ids, NEW s \in Servers, Disconnect(w, s) PROVE IInv'
    BY <1>2 DEF Disconnect, Stopping
  <1> HIDE DEF IInv
  <1> QED
    BY <1>1, <1>2 DEF Workers

(***************************************************************************)
(* manageWorkers: a worker is created, and registered one step later.      *)
(***************************************************************************)
LEMMA SpawnStep ==
  ASSUME IInv, NEW l \in {"min", "top"}, Spawn(l)
  PROVE  IInv'
  <1> USE WorkerPoolAssumption
          DEF IInv, TypeOK, FiniteMap, HoldsWorker, SinkingStopped, LooksAtServer, PoolBounded,
              RoomLeft, Limit, Larger, NoOrphan, CanceledLive, NoDeadEntry, running,
              envVars, workerVars, mgrVars, retryVars, lifeVars, history
  <1>1. Cardinality(workerMap) \in Nat
    BY FS_CardinalityType
  <1>2. ASSUME NEW w \in Ids, NewWorker(w), mgr' = (IF l = "min" THEN "regMin" ELSE "regTop")
        PROVE  IInv'
    <2>1. TypeOK'
      <3>1. /\ obj' \in [Ids -> {"closed", "up", "stopping", "canceled"}]
            /\ conn' \in [Ids -> SUBSET Servers]
            /\ current' \subseteq Ids /\ mgrWorker' \in Ids
            /\ mgr' \in {"regMin", "regTop"}
        BY <1>2 DEF NewWorker, ActiveServerList
      <3> QED
        BY <1>2, <3>1 DEF Spawn, NewWorker
    <2>2. (FiniteMap /\ HoldsWorker /\ SinkingStopped /\ LooksAtServer)'
      BY <1>2 DEF Spawn, NewWorker
    <2>3. (PoolBounded /\ RoomLeft)'
      BY <1>1, <1>2 DEF Spawn, NewWorker
    <2>4. (NoOrphan /\ CanceledLive /\ NoDeadEntry)'
      BY <1>2 DEF Spawn, NewWorker
    <2> QED
      BY <2>1, <2>2, <2>3, <2>4 DEF IInv
  <1>3. CASE NewWorkerFails /\ mgr' = l
    <2>1. TypeOK'
      <3>1. failed' \subseteq Servers
        BY <1>3 DEF NewWorkerFails, ActiveServerList
      <3>2. mgrLeft' \in Nat /\ mgr' \in {"min", "top"}
        BY <1>3 DEF Spawn, NewWorkerFails
      <3>3. idle' \in BOOLEAN
        BY <1>3 DEF NewWorkerFails
      <3> QED
        BY <1>3, <3>1, <3>2, <3>3 DEF Spawn, NewWorkerFails
    <2>2. (FiniteMap /\ HoldsWorker /\ SinkingStopped /\ LooksAtServer)'
      BY <1>3 DEF Spawn, NewWorkerFails
    <2>3. (PoolBounded /\ RoomLeft)'
      BY <1>1, <1>3 DEF Spawn, NewWorkerFails
    <2>4. (NoOrphan /\ CanceledLive /\ NoDeadEntry)'
      BY <1>3 DEF Spawn, NewWorkerFails
    <2> QED
      BY <2>1, <2>2, <2>3, <2>4 DEF IInv
  <1> HIDE DEF IInv
  <1> QED
    BY <1>2, <1>3 DEF Spawn

LEMMA RegisterStep ==
  ASSUME IInv, NEW l \in {"min", "top"}, Register(l)
  PROVE  IInv'
  <1> USE WorkerPoolAssumption
          DEF IInv, TypeOK, FiniteMap, HoldsWorker, SinkingStopped, LooksAtServer, PoolBounded,
              RoomLeft, Limit, Larger, NoOrphan, CanceledLive, NoDeadEntry, running,
              envVars, workerVars, mgrVars, retryVars, lifeVars, history
  <1>1. /\ FiniteMap'
        /\ Cardinality(workerMap) \in Nat /\ Cardinality(workerMap') \in Nat
        /\ Cardinality(workerMap') <= Cardinality(workerMap) + 1
    BY OneMore DEF Register
  <1>2. mgrWorker \in Ids /\ mgrLeft > 0
    BY DEF Register
  <1>3. TypeOK'
    <2>1. deadEntry' \in BOOLEAN
      BY Zenon DEF Register
    <2>2. /\ workerMap' \subseteq Ids /\ mgr' \in {"min", "top"} /\ mgrLeft' \in Nat
          /\ mgrWorker' = None
      BY <1>2 DEF Register
    <2>3. idle' \in BOOLEAN
      BY DEF Register
    <2> QED
      BY <2>1, <2>2, <2>3 DEF Register
  <1>4. (HoldsWorker /\ SinkingStopped /\ LooksAtServer)'
    BY DEF Register
  <1>5. (PoolBounded /\ RoomLeft)'
    BY <1>1, <1>2 DEF Register
  <1>6. (NoOrphan /\ CanceledLive /\ NoDeadEntry)'
    BY <1>2 DEF Register
  <1> QED
    BY <1>1, <1>3, <1>4, <1>5, <1>6 DEF IInv

LEMMA ManagerStep ==
  ASSUME IInv, Manager
  PROVE  IInv'
  <1> USE WorkerPoolAssumption
          DEF IInv, TypeOK, FiniteMap, HoldsWorker, SinkingStopped, LooksAtServer, PoolBounded,
              RoomLeft, Limit, Larger, NoOrphan, CanceledLive, NoDeadEntry, running,
              envVars, workerVars, mgrVars, retryVars, lifeVars, history
  <1>1. Cardinality(workerMap) \in Nat /\ Cardinality(Busy) \in Nat
    BY NotMore, FS_CardinalityType DEF Busy
  <1>2. CASE ManageWorkers
    <2>1. TypeOK'
      <3>1. failed' \subseteq Servers
        BY <1>2 DEF ManageWorkers, ActiveServerList
      <3>2. statusWorker' \in BOOLEAN
        BY <1>2 DEF ManageWorkers
      <3>3. /\ activeWorkers' \in Nat /\ mgrLeft' \in Nat /\ initialStart' \in Int
            /\ mgr' = "min"
        BY <1>1, <1>2 DEF ManageWorkers
      <3> QED
        BY <1>2, <3>1, <3>2, <3>3 DEF ManageWorkers
    <2>2. (FiniteMap /\ HoldsWorker /\ SinkingStopped /\ LooksAtServer)'
      BY <1>2 DEF ManageWorkers
    <2>3. (PoolBounded /\ RoomLeft)'
      BY <1>1, <1>2 DEF ManageWorkers
    <2>4. (NoOrphan /\ CanceledLive /\ NoDeadEntry)'
      BY <1>2 DEF ManageWorkers
    <2> QED
      BY <2>1, <2>2, <2>3, <2>4 DEF IInv
  <1>3. CASE AdjustWorkerBottomLevel
    BY <1>1, <1>3 DEF AdjustWorkerBottomLevel
  <1>4. CASE Sink
    BY <1>1, <1>4 DEF Sink
  <1>11. CASE SinkShutdown
    BY <1>1, <1>11 DEF SinkShutdown, Stopping
  <1>12. CASE NoActiveServer
    BY <1>1, <1>12 DEF NoActiveServer
  <1>5. CASE Sunk
    BY <1>1, <1>5 DEF Sunk
  <1>6. CASE SinkDone
    BY <1>1, <1>6 DEF SinkDone
  <1>7. CASE AdjustWorkerTopLevel
    BY <1>1, <1>7 DEF AdjustWorkerTopLevel
  <1>8. CASE TopDone
    BY <1>1, <1>8 DEF TopDone
  <1>9. CASE Spawn("min") \/ Spawn("top")
    BY <1>9, SpawnStep
  <1>10. CASE Register("min") \/ Register("top")
    BY <1>10, RegisterStep
  <1> HIDE DEF IInv
  <1> QED
    BY <1>2, <1>3, <1>4, <1>5, <1>6, <1>7, <1>8, <1>9, <1>10, <1>11, <1>12
       DEF Manager

LEMMA StutterStep ==
  ASSUME IInv, UNCHANGED vars
  PROVE  IInv'
  BY DEF vars, IInv, TypeOK, FiniteMap, HoldsWorker, SinkingStopped, LooksAtServer,
         PoolBounded, RoomLeft, NoOrphan, CanceledLive, NoDeadEntry, running,
         envVars, workerVars, mgrVars, retryVars, lifeVars, history

(***************************************************************************)
(* IInv holds in every reachable state.                                    *)
(***************************************************************************)
THEOREM Invariance == Spec => []IInv
  <1>1. IInv /\ [Next]_vars => IInv'
    BY ManagerStep, RetryStep, ReloadStep, EnvironmentStep, WorkersStep, StutterStep DEF Next
  <1> QED
    BY InitInvariant, <1>1, PTL DEF Spec

(***************************************************************************)
(* Every variable keeps its type: the loops of manageWorkers never run     *)
(* past their last round (mainWorker.go).                                  *)
(***************************************************************************)
THEOREM TypeCorrect == Spec => []TypeOK
  <1>1. IInv => TypeOK
    BY DEF IInv
  <1> QED
    BY Invariance, <1>1, PTL

(***************************************************************************)
(* The map never holds more workers than minWorker and maxWorker allow,    *)
(* whatever servers, disconnects, the retry goroutine and reloads do while *)
(* manageWorkers counts down its loops.                                    *)
(***************************************************************************)
THEOREM PoolStaysBounded == Spec => []PoolBounded
  <1>1. IInv => PoolBounded
    BY DEF IInv
  <1> QED
    BY Invariance, <1>1, PTL

(***************************************************************************)
(* A connected worker is in the map or in the hands of manageWorkers, who  *)
(* registers it next: Shutdown and StopAllWorker can reach it.             *)
(***************************************************************************)
THEOREM NoWorkerForgotten == Spec => []NoOrphan
  <1>1. IInv => NoOrphan
    BY DEF IInv
  <1> QED
    BY Invariance, <1>1, PTL

(***************************************************************************)
(* Without the two races it names, the map holds no worker of the present  *)
(* mainWorker that has ended: manageWorkers counts workers that are there. *)
(***************************************************************************)
THEOREM MapIsAlive == Spec => []NoDeadEntry
  <1>1. IInv => NoDeadEntry
    BY DEF IInv
  <1> QED
    BY Invariance, <1>1, PTL
=============================================================================
