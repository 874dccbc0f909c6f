----------------------- MODULE CheckExecution_proofs -----------------------
(***************************************************************************)
(* Theorems about CheckExecution and the perl daemon of EmbeddedPerl, for  *)
(* all sets of checks, commands and daemons: the type invariant, that no   *)
(* daemon is left behind, that a result says OK exactly when its check     *)
(* does, and that a timeout is reported as one.                            *)
(***************************************************************************)
EXTENDS CheckExecution, FiniteSetTheorems, TLAPS

-----------------------------------------------------------------------------
(***************************************************************************)
(* The inductive invariant, in two halves: EpnInv for what the main loop,  *)
(* the daemons and the connections share, JobInv for what executeJob keeps *)
(* about its job.  The second needs the first only where an answer of a    *)
(* daemon becomes a return code.                                           *)
(***************************************************************************)
EpnTypeOK ==
  /\ main \in {"serve", "start", "wait", "down", "exited"}
  /\ enabled \in BOOLEAN /\ perlWorkers \in BOOLEAN
  /\ aIsRunning \in BOOLEAN /\ aged \in BOOLEAN
  /\ reloads \in 0..MaxReloads /\ trouble \in 0..MaxTrouble
  /\ ePNServer \in Daemons \cup {None} /\ ePNStarted \in Stamps
  /\ proc \in [Daemons -> {"none", "started", "up", "stopping", "dead"}]
  /\ ePNServerStopQueue \subseteq Daemons
  /\ epc \in [Jobs -> {"out", "check", "dial", "sleep", "ask", "connected",
                       "reading", "answered", "empty", "failed"}]
  /\ retries \in [Jobs -> 0..(MaxRetries + 1)]
  /\ time1 \in [Jobs -> Stamps]
  /\ server \in [Jobs -> Daemons \cup {None}]
  /\ reply \in [Jobs -> {Nothing} \cup Lost \cup Answers]
  /\ forked \subseteq Jobs /\ cancelSet \subseteq Jobs /\ canceled \subseteq Jobs

\* the main loop starts a daemon only after it has stopped every other one
NoneAtStart == main = "start" => \A d \in Daemons : ~Alive_(d)

\* ePNConnect gives up at its limit, and the counter is new for every check
RetriesLeft ==
  \A j \in Jobs :
    /\ epc[j] \in {"check", "dial", "sleep", "ask"} => retries[j] <= MaxRetries
    /\ epc[j] = "out" => retries[j] = 0

\* an answer that was read is one, and nothing of the plugin goes on
AnswerRead == \A j \in Jobs : epc[j] = "answered" => reply[j] \in Answers /\ j \notin forked

EpnInv == EpnTypeOK /\ NoDaemonLeftBehind /\ NoneAtStart /\ RetriesLeft /\ AnswerRead

JobTypeOK ==
  /\ deadline \subseteq Jobs /\ tooOld \subseteq Jobs /\ badPath \subseteq Jobs
  /\ lateWrite \subseteq Jobs
  /\ kind \in Kinds /\ negate \in Negates
  /\ pc \in [Jobs -> {"new", "wait", "post", "decide", "queued", "sent", "dropped"}]
  /\ process \in [Jobs -> ProcessStates]
  /\ killer \in [Jobs -> 0..3]
  /\ inner \in [Jobs -> {"none", "runs", "wrote", "over"}]
  /\ returnCode \in [Jobs -> 0..4] /\ outcome \in [Jobs -> {Nothing} \cup Answers]
  /\ timedOut \in [Jobs -> BOOLEAN] /\ serviceDescription \in [Jobs -> BOOLEAN]
  /\ sent \in [Jobs -> [rc : {Nothing} \cup 0..4, timedOut : BOOLEAN, service : BOOLEAN]]

\* nothing has happened to a job that is not executed yet
Fresh ==
  \A j \in Jobs : pc[j] = "new" =>
    /\ j \notin deadline /\ process[j] = "none" /\ inner[j] = "none"
    /\ outcome[j] = Nothing /\ ~timedOut[j]

\* while a check runs, its result says UNKNOWN, until an internal check writes its code
Running ==
  \A j \in Jobs : pc[j] = "wait" =>
    /\ ~timedOut[j]
    /\ kind[j] = "exec" => inner[j] = "none" /\ outcome[j] # Interrupted
    /\ kind[j] # "exec" => process[j] = "none"
    /\ kind[j] = "epn" => returnCode[j] = 3 /\ outcome[j] = Nothing /\ inner[j] = "none"
    /\ kind[j] = "internal" =>
         /\ inner[j] = "runs" => returnCode[j] = 3 /\ outcome[j] = Nothing
         /\ inner[j] # "runs" => returnCode[j] = outcome[j]

\* nothing of a check goes on after it, but for an internal check that timed out
Stopped ==
  \A j \in Jobs : pc[j] \notin {"new", "wait"} =>
    /\ process[j] \in {"none", "gone"}
    /\ ~timedOut[j] => inner[j] # "runs"

\* the code of a check before negate, and the code it is reported with
Coded ==
  \A j \in Jobs :
    /\ pc[j] = "post" /\ ~timedOut[j] => returnCode[j] = EndCode(j)
    /\ pc[j] \in {"decide", "queued", "sent"} /\ ~timedOut[j] /\ j \notin tooOld \cup badPath =>
         returnCode[j] = Apply(negate[j], EndCode(j))
    /\ pc[j] \in {"decide", "queued", "sent"} /\ timedOut[j] /\ j \notin lateWrite =>
         returnCode[j] = TimeoutCode(negate[j])

\* a timeout is noticed where the check ends
Noticed ==
  \A j \in deadline :
    pc[j] \notin {"new", "wait"} /\ kind[j] # "epn" => timedOut[j]

\* a result was sent as it still is
SentAsIs ==
  \A j \in Jobs : sent[j] # NoResult =>
    pc[j] = "sent" /\ sent[j].rc = returnCode[j] /\ (sent[j].timedOut <=> timedOut[j])

JobInv == JobTypeOK /\ Fresh /\ Running /\ Stopped /\ Coded /\ Noticed /\ SentAsIs

IInv == EpnInv /\ JobInv

-----------------------------------------------------------------------------
(***************************************************************************)
(* Operators.  There is always a stamp for a new time.Time: the checks and *)
(* ePNStarted hold at most Cardinality(Jobs) + 1 of them, and 0 is none.   *)
(***************************************************************************)
LEMMA OneMore ==
  ASSUME NEW S, IsFiniteSet(S), NEW x, NEW k \in Nat, Cardinality(S) <= k
  PROVE  IsFiniteSet(S \cup {x}) /\ Cardinality(S \cup {x}) <= k + 1
  <1>1. Cardinality(S) \in Nat
    BY FS_CardinalityType
  <1>2. /\ IsFiniteSet(S \cup {x})
        /\ Cardinality(S \cup {x}) = IF x \in S THEN Cardinality(S) ELSE Cardinality(S) + 1
    BY FS_AddElement
  <1> QED
    BY <1>1, <1>2

LEMMA FreeStamp ==
  ASSUME EpnTypeOK
  PROVE  NewStamp \in Stamps /\ NewStamp # 0
  <1> DEFINE n == Cardinality(Jobs)
             R == {time1[j] : j \in Jobs}
             U == (R \cup {0}) \cup {ePNStarted}
  <1>1. n \in Nat
    BY EmbeddedPerlAssumption, FS_CardinalityType
  <1>2. IsFiniteSet(R) /\ Cardinality(R) <= n
    <2>1. time1 \in Surjection(Jobs, R)
      BY DEF EpnTypeOK, Surjection
    <2> QED
      BY <2>1, FS_Surjection, EmbeddedPerlAssumption
  <1>3. IsFiniteSet(R \cup {0}) /\ Cardinality(R \cup {0}) <= n + 1
    BY <1>1, <1>2, OneMore
  <1>4. IsFiniteSet(U) /\ Cardinality(U) <= n + 2
    <2>1. n + 1 \in Nat /\ n + 1 + 1 = n + 2
      BY <1>1
    <2> HIDE DEF n, R
    <2> QED
      BY <2>1, <1>3, OneMore
  <1>5. IsFiniteSet(Stamps) /\ Cardinality(Stamps) = n + 3
    BY <1>1, FS_Interval DEF Stamps
  <1>6. PICK s \in Stamps : s \notin U
    BY <1>1, <1>4, <1>5, FS_Subset, FS_CardinalityType
  <1>7. s \in Stamps \ {0, ePNStarted} /\ \A j \in Jobs : time1[j] # s
    BY <1>6
  <1> QED
    BY <1>7 DEF NewStamp

\* a daemon that Stop was called for does not go on, and no other changes
LEMMA StopStops ==
  ASSUME EpnTypeOK, NEW D, Stop(D)
  PROVE  /\ proc' \in [Daemons -> {"none", "started", "up", "stopping", "dead"}]
         /\ \A d \in D \cap Daemons : ~Alive_(d)'
         /\ \A d \in Daemons : Alive_(d)' => Alive_(d)
         /\ ePNServerStopQueue' = ePNServerStopQueue \ D
  BY DEF EpnTypeOK, Stop, Alive_

\* a job that is cut off has an answer or none, and the others keep theirs
LEMMA CutType ==
  ASSUME EpnTypeOK, NEW J \in SUBSET Jobs, Cut(J)
  PROVE  /\ reply' \in [Jobs -> {Nothing} \cup Lost \cup Answers]
         /\ \A j \in Jobs \ J : reply'[j] = reply[j]
  <1>1. PICK answer \in [J -> {Interrupted} \cup Lost] :
           reply' = [j \in Jobs |-> IF j \in J THEN answer[j] ELSE reply[j]]
    BY DEF Cut
  <1>2. reply \in [Jobs -> {Nothing} \cup Lost \cup Answers]
    BY DEF EpnTypeOK
  <1> QED
    BY <1>1, <1>2 DEF Answers

\* no job that has read its answer waits for one
LEMMA WaitingHasNone ==
  ASSUME NEW d, NEW j \in Waiting(d)
  PROVE  j \in Jobs /\ reply[j] \notin Answers
  BY DEF Waiting, Nothing, Answers, Interrupted

-----------------------------------------------------------------------------
(***************************************************************************)
(* The half of the daemon.  The main loop stops the current daemon before  *)
(* it gives it up, and by NoDaemonLeftBehind there is no other.            *)
(***************************************************************************)
LEMMA InitEpn == Init => EpnInv
  <1> SUFFICES ASSUME Init PROVE EpnInv
    OBVIOUS
  <1> USE EmbeddedPerlAssumption DEF Init, EpnInit
  <1>1. 0 \in Stamps
    BY FS_CardinalityType DEF Stamps
  <1>2. EpnTypeOK
    <2>1. /\ enabled \in BOOLEAN /\ perlWorkers \in BOOLEAN
          /\ aIsRunning \in BOOLEAN /\ aged \in BOOLEAN
      BY Zenon
    <2>2. /\ main = "start" /\ reloads \in 0..MaxReloads /\ trouble \in 0..MaxTrouble
          /\ ePNServer = None /\ ePNStarted \in Stamps
          /\ proc \in [Daemons -> {"none", "started", "up", "stopping", "dead"}]
          /\ ePNServerStopQueue \subseteq Daemons
      BY <1>1
    <2>3. /\ epc \in [Jobs -> {"out", "check", "dial", "sleep", "ask", "connected",
                               "reading", "answered", "empty", "failed"}]
          /\ retries \in [Jobs -> 0..(MaxRetries + 1)]
          /\ time1 \in [Jobs -> Stamps]
          /\ server \in [Jobs -> Daemons \cup {None}]
          /\ reply \in [Jobs -> {Nothing} \cup Lost \cup Answers]
          /\ forked \subseteq Jobs /\ cancelSet \subseteq Jobs /\ canceled \subseteq Jobs
      BY <1>1
    <2> QED
      BY <2>1, <2>2, <2>3 DEF EpnTypeOK
  <1>3. NoDaemonLeftBehind /\ NoneAtStart
    BY DEF NoDaemonLeftBehind, NoneAtStart, Alive_
  <1>4. RetriesLeft /\ AnswerRead
    BY DEF RetriesLeft, AnswerRead
  <1> QED
    BY <1>2, <1>3, <1>4 DEF EpnInv

\* restarts, reloads, and the end of the main loop
LEMMA MainLoopStep ==
  ASSUME EpnInv, MainLoop \/ Signal \/ Age
  PROVE  EpnInv'
  <1> USE EmbeddedPerlAssumption
          DEF EpnInv, EpnTypeOK, NoDaemonLeftBehind, NoneAtStart, RetriesLeft, AnswerRead,
              Alive, Alive_, mainVars, serverVars, daemonVars, conVars, epnVars
  <1>1. NewStamp \in Stamps
    BY FreeStamp
  <1>2. CASE CheckRestart
    <2>1. EpnTypeOK'
      <3>1. aged' \in BOOLEAN
        BY <1>2 DEF CheckRestart
      <3>2. /\ main' = "start" /\ ePNServer' = None /\ ePNServerStopQueue' \subseteq Daemons
            /\ proc' \in [Daemons -> {"none", "started", "up", "stopping", "dead"}]
        BY <1>2, StopStops DEF CheckRestart
      <3>3. ePNStarted' \in Stamps
        BY <1>1, <1>2 DEF CheckRestart
      <3> QED
        BY <1>2, <3>1, <3>2, <3>3 DEF CheckRestart
    <2>2. (NoDaemonLeftBehind /\ NoneAtStart)'
      BY <1>2, StopStops DEF CheckRestart, Current
    <2>3. (RetriesLeft /\ AnswerRead)'
      BY <1>2 DEF CheckRestart
    <2> QED
      BY <2>1, <2>2, <2>3 DEF EpnInv
  <1>3. CASE StartNothing
    BY <1>3 DEF StartNothing
  <1>4. CASE SocketFound
    BY <1>4 DEF SocketFound
  <1>5. CASE SocketTimeout
    BY <1>5, StopStops DEF SocketTimeout, CleanExit
  <1>6. CASE RunEnds
    BY <1>6, StopStops DEF RunEnds
  <1>7. ASSUME NEW d \in Daemons, StartDaemon(d) PROVE EpnInv'
    BY <1>1, <1>7 DEF StartDaemon
  <1>8. CASE ReloadDaemon
    BY <1>8, StopStops DEF ReloadDaemon, Current
  <1>9. CASE ShutdownBegin
    <2>1. EpnTypeOK'
      <3>1. aIsRunning' \in BOOLEAN
        BY <1>9 DEF ShutdownBegin
      <3>2. main' = "down" /\ reloads' \in 0..MaxReloads
        BY <1>9 DEF ShutdownBegin
      <3> QED
        BY <1>9, <3>1, <3>2 DEF ShutdownBegin
    <2>2. (NoDaemonLeftBehind /\ NoneAtStart /\ RetriesLeft /\ AnswerRead)'
      BY <1>9 DEF ShutdownBegin
    <2> QED
      BY <2>1, <2>2 DEF EpnInv
  <1>10. CASE Age
    BY <1>10 DEF Age
  <1> HIDE DEF EpnInv
  <1> QED
    BY <1>2, <1>3, <1>4, <1>5, <1>6, <1>7, <1>8, <1>9, <1>10 DEF MainLoop, Signal

\* the process of the daemon
LEMMA DaemonStep ==
  ASSUME EpnInv, NEW d \in Daemons, Daemon(d) \/ Trouble(d)
  PROVE  EpnInv'
  <1> USE EmbeddedPerlAssumption
          DEF EpnInv, EpnTypeOK, NoDaemonLeftBehind, NoneAtStart, RetriesLeft, AnswerRead,
              Alive, Alive_, mainVars, serverVars, daemonVars, conVars, epnVars
  <1>1. CASE Listen(d)
    BY <1>1 DEF Listen
  <1>2. CASE ParentGone(d)
    BY <1>2 DEF ParentGone
  <1>3. CASE DaemonExits(d)
    <2>1. Waiting(d) \in SUBSET Jobs /\ Cut(Waiting(d))
      BY <1>3 DEF DaemonExits, Waiting
    <2>2. /\ proc' \in [Daemons -> {"none", "started", "up", "stopping", "dead"}]
          /\ forked' \subseteq Jobs /\ forked' \subseteq forked
          /\ \A e \in Daemons : Alive_(e)' => Alive_(e)
      BY <1>3 DEF DaemonExits
    <2>3. /\ reply' \in [Jobs -> {Nothing} \cup Lost \cup Answers]
          /\ \A j \in Jobs : reply[j] \in Answers => reply'[j] \in Answers
      BY <2>1, CutType, WaitingHasNone
    <2>4. UNCHANGED <<main, enabled, perlWorkers, aIsRunning, reloads, ePNServer, ePNStarted,
                      aged, ePNServerStopQueue, trouble, epc, retries, time1, server,
                      cancelSet, canceled>>
      BY <1>3 DEF DaemonExits
    <2> QED
      BY <2>2, <2>3, <2>4
  <1>4. CASE Reap(d)
    BY <1>4 DEF Reap
  <1>5. CASE DaemonCrash(d)
    <2>1. /\ proc' \in [Daemons -> {"none", "started", "up", "stopping", "dead"}]
          /\ trouble' \in 0..MaxTrouble
          /\ \A e \in Daemons : Alive_(e)' => Alive_(e)
      BY <1>5 DEF DaemonCrash
    <2>2. /\ reply' \in [Jobs -> {Nothing} \cup Lost \cup Answers]
          /\ \A j \in Jobs : reply[j] \in Answers => reply'[j] \in Answers
      <3>1. Waiting(d) \ forked \in SUBSET Jobs /\ Cut(Waiting(d) \ forked)
        BY <1>5 DEF DaemonCrash, Waiting
      <3> QED
        BY <3>1, CutType, WaitingHasNone
    <2>3. UNCHANGED <<main, enabled, perlWorkers, aIsRunning, reloads, ePNServer, ePNStarted,
                      aged, ePNServerStopQueue, epc, retries, time1, server, forked,
                      cancelSet, canceled>>
      BY <1>5 DEF DaemonCrash
    <2> QED
      BY <2>1, <2>2, <2>3
  <1>6. CASE LogPattern(d)
    <2>1. 0 \in Stamps
      BY FS_CardinalityType DEF Stamps
    <2> QED
      BY <1>6, <2>1 DEF LogPattern
  <1> HIDE DEF EpnInv
  <1> QED
    BY <1>1, <1>2, <1>3, <1>4, <1>5, <1>6 DEF Daemon, Trouble

\* a plugin in a child of the daemon
LEMMA PluginStep ==
  ASSUME EpnInv, NEW j \in Jobs, Plugin(j)
  PROVE  EpnInv'
  <1> USE EmbeddedPerlAssumption
          DEF EpnInv, EpnTypeOK, NoDaemonLeftBehind, NoneAtStart, RetriesLeft, AnswerRead,
              Alive, Alive_, mainVars, serverVars, daemonVars, conVars, epnVars
  <1>1. CASE Accept(j)
    BY <1>1 DEF Accept, At, Answers
  <1>2. ASSUME NEW c \in Codes, PluginEnds(j, c) PROVE EpnInv'
    BY <1>2 DEF PluginEnds, Answers
  <1>3. CASE PluginStopped(j)
    <2>1. j \in forked /\ Cut({j}) /\ {j} \in SUBSET Jobs
      BY <1>3 DEF PluginStopped
    <2>2. /\ reply' \in [Jobs -> {Nothing} \cup Lost \cup Answers]
          /\ \A i \in Jobs \ {j} : reply'[i] = reply[i]
      BY <2>1, CutType
    <2>3. forked' = forked \ {j}
      BY <1>3 DEF PluginStopped
    <2>4. UNCHANGED <<main, enabled, perlWorkers, aIsRunning, reloads, ePNServer, ePNStarted,
                      aged, proc, ePNServerStopQueue, trouble, epc, retries, time1, server,
                      cancelSet, canceled>>
      BY <1>3 DEF PluginStopped
    <2> QED
      BY <2>1, <2>2, <2>3, <2>4
  <1> HIDE DEF EpnInv
  <1> QED
    BY <1>1, <1>2, <1>3 DEF Plugin

\* ePNConnect
LEMMA ConnectStep ==
  ASSUME EpnInv, NEW j \in Jobs, Connect(j)
  PROVE  EpnInv'
  <1> USE EmbeddedPerlAssumption
          DEF EpnInv, EpnTypeOK, NoDaemonLeftBehind, NoneAtStart, RetriesLeft, AnswerRead,
              Alive, Alive_, mainVars, serverVars, daemonVars, conVars, epnVars
  <1> USE DEF At, EpnGoto, EpnUnchanged
  <1>1. 0 \in Stamps
    BY FS_CardinalityType DEF Stamps
  <1>2. CASE CheckServer(j)
    BY <1>2 DEF CheckServer
  <1>3. CASE NotRunning(j)
    BY <1>3 DEF NotRunning
  <1>4. CASE Dial(j)
    BY <1>1, <1>4 DEF Dial
  <1>5. CASE DialFails(j)
    BY <1>5 DEF DialFails
  <1>6. CASE DialCrash(j)
    BY <1>6, StopStops DEF DialCrash, CleanExit
  <1>7. CASE Compare(j)
    BY <1>1, <1>7 DEF Compare
  <1>8. CASE AskForRestart(j)
    BY <1>1, <1>8 DEF AskForRestart
  <1>9. CASE WriteRequest(j)
    BY <1>9 DEF WriteRequest
  <1>10. CASE WriteFails(j)
    BY <1>10 DEF WriteFails, Close
  <1> HIDE DEF EpnInv
  <1> QED
    BY <1>2, <1>3, <1>4, <1>5, <1>6, <1>7, <1>8, <1>9, <1>10 DEF Connect

\* the request, its answer, and its end
LEMMA RequestStep ==
  ASSUME EpnInv, NEW j \in Jobs,
         EpnEnter(j) \/ EpnCancel(j) \/ Read(j) \/ ReadPattern(j)
  PROVE  EpnInv'
  <1> USE EmbeddedPerlAssumption
          DEF EpnInv, EpnTypeOK, NoDaemonLeftBehind, NoneAtStart, RetriesLeft, AnswerRead,
              Alive, Alive_, mainVars, serverVars, daemonVars, conVars, epnVars
  <1> USE DEF At, EpnGoto, EpnUnchanged, Close
  <1>1. 0 \in Stamps
    BY FS_CardinalityType DEF Stamps
  <1>2. CASE EpnEnter(j)
    BY <1>2 DEF EpnEnter
  <1>3. CASE EpnCancel(j)
    BY <1>3 DEF EpnCancel
  <1>4. CASE ReadReply(j)
    BY <1>4 DEF ReadReply
  <1>5. CASE ReadPattern(j)
    BY <1>1, <1>5 DEF ReadPattern
  <1>6. CASE ReadNothing(j)
    BY <1>6 DEF ReadNothing
  <1>7. CASE ReadError(j)
    BY <1>7 DEF ReadError
  <1>8. CASE ReadTorn(j)
    BY <1>8 DEF ReadTorn
  <1> HIDE DEF EpnInv
  <1> QED
    BY <1>2, <1>3, <1>4, <1>5, <1>6, <1>7, <1>8 DEF Read

-----------------------------------------------------------------------------
(***************************************************************************)
(* negate.  Options name states; one that is not set names none.           *)
(***************************************************************************)
LEMMA UnsetIsNoState ==
  /\ Unset \notin {"0", "1", "2", "3"}
  /\ Unset \notin {"OK", "WARNING", "CRITICAL", "UNKNOWN"}
  BY DEF Unset

\* a number names a state as its name does, and nothing names none
LEMMA ConvertOk ==
  ASSUME NEW t
  PROVE  /\ ConvertStatusNumber(t) = Unset <=> t = Unset
         /\ ConvertStatusNumber(t) = "OK" <=> t \in NamesOk
  BY UnsetIsNoState DEF ConvertStatusNumber, NamesOk

\* only OK has the number 0
LEMMA StatusOk ==
  ASSUME NEW t
  PROVE  Status2Int(t) \in 0..3 /\ (Status2Int(t) = 0 <=> t = "OK")
  BY DEF Status2Int

\* what negate and timeout_return make of a code
LEMMA ApplyType ==
  ASSUME NEW n, NEW c \in 0..4
  PROVE  Apply(n, c) \in 0..4
  <1>1. \A t : Status2Int(t) \in 0..4
    BY StatusOk
  <1> QED
    BY <1>1 DEF Apply

LEMMA TimeoutCodeType ==
  ASSUME NEW n
  PROVE  TimeoutCode(n) \in 0..3
  BY StatusOk, CheckExecutionAssumption DEF TimeoutCode

LEMMA TimeoutCodeIs ==
  ASSUME NEW n
  PROVE  TimeoutCode(n) = IF n # NoNegate /\ n.timeout # Unset
                          THEN Status2Int(ConvertStatusNumber(n.timeout)) ELSE TimeoutReturn
  BY ConvertOk DEF TimeoutCode, Parsed

\* Apply makes OK of the codes its options say so of, and of OK itself where they say nothing
LEMMA ApplyOk ==
  ASSUME NEW n \in Negate, n # NoNegate, NEW c \in 0..4
  PROVE  Apply(n, c) = 0 <=> c \in OkCodes(n)
  <1> DEFINE status == IF \A x \in 0..3 : n.status[x] = Unset THEN Swapped ELSE n.status
  <1>1. CASE c \notin 0..3
    <2>1. Apply(n, c) # 0
      BY <1>1 DEF Apply
    <2>2. c \notin OkCodes(n)
      BY <1>1 DEF OkCodes
    <2> QED
      BY <2>1, <2>2
  <1>2. CASE c \in 0..3
    <2>1. Parsed(n).status[c] = ConvertStatusNumber(status[c])
      BY <1>2 DEF Parsed
    <2>2. Apply(n, c) = IF ConvertStatusNumber(status[c]) = Unset THEN c
                        ELSE Status2Int(ConvertStatusNumber(status[c]))
      BY <1>2, <2>1 DEF Apply
    <2>3. Apply(n, c) = 0 <=> status[c] \in NamesOk \/ (c = 0 /\ status[c] = Unset)
      <3> HIDE DEF status
      <3>1. CASE status[c] = Unset
        BY <2>2, <3>1, ConvertOk, UnsetIsNoState DEF NamesOk
      <3>2. CASE status[c] # Unset
        BY <2>2, <3>2, ConvertOk, StatusOk
      <3> QED
        BY <3>1, <3>2
    <2>4. CASE \A x \in 0..3 : n.status[x] = Unset
      <3>1. status[c] = Swapped[c] /\ OkCodes(n) = {2}
        BY <2>4 DEF OkCodes
      <3>2. Swapped[c] = IF c = 0 THEN "CRITICAL" ELSE IF c = 2 THEN "OK" ELSE Unset
        BY <1>2 DEF Swapped
      <3>3. status[c] \in NamesOk \/ (c = 0 /\ status[c] = Unset) <=> c = 2
        <4> HIDE DEF status
        <4> QED
          BY <3>1, <3>2, UnsetIsNoState DEF NamesOk
      <3> QED
        BY <2>3, <3>1, <3>3
    <2>5. CASE ~(\A x \in 0..3 : n.status[x] = Unset)
      <3>1. status[c] = n.status[c]
        BY <2>5
      <3>2. c \in OkCodes(n) <=> n.status[c] \in NamesOk \/ (c = 0 /\ n.status[c] = Unset)
        BY <1>2, <2>5 DEF OkCodes
      <3> HIDE DEF status
      <3> QED
        BY <2>3, <3>1, <3>2
    <2> QED
      BY <2>4, <2>5
  <1> QED
    BY <1>1, <1>2

-----------------------------------------------------------------------------
(***************************************************************************)
(* The half of the jobs.                                                   *)
(***************************************************************************)
LEMMA InitJob == Init => JobInv
  <1> SUFFICES ASSUME Init PROVE JobInv
    OBVIOUS
  <1> USE CheckExecutionAssumption DEF Init
  <1>1. JobTypeOK
    <2>1. /\ deadline \subseteq Jobs /\ tooOld \subseteq Jobs /\ badPath \subseteq Jobs
          /\ lateWrite \subseteq Jobs /\ kind \in Kinds /\ negate \in Negates
          /\ pc \in [Jobs -> {"new", "wait", "post", "decide", "queued", "sent", "dropped"}]
          /\ process \in [Jobs -> ProcessStates]
          /\ killer \in [Jobs -> 0..3]
          /\ inner \in [Jobs -> {"none", "runs", "wrote", "over"}]
      BY DEF ProcessStates
    <2>2. returnCode \in [Jobs -> 0..4] /\ outcome \in [Jobs -> {Nothing} \cup Answers]
      OBVIOUS
    <2>3. timedOut \in [Jobs -> BOOLEAN] /\ serviceDescription \in [Jobs -> BOOLEAN]
      OBVIOUS
    <2>4. sent \in [Jobs -> [rc : {Nothing} \cup 0..4, timedOut : BOOLEAN, service : BOOLEAN]]
      BY DEF NoResult
    <2> QED
      BY <2>1, <2>2, <2>3, <2>4 DEF JobTypeOK
  <1>2. Fresh /\ Running /\ Stopped /\ Coded /\ Noticed /\ SentAsIs
    BY DEF Fresh, Running, Stopped, Coded, Noticed, SentAsIs
  <1> QED
    BY <1>1, <1>2 DEF JobInv

\* what the main loop, the daemons and the connections do
LEMMA OtherStep ==
  ASSUME JobInv, UNCHANGED <<jobVars, timeVars, resultVars, history>>
  PROVE  JobInv'
  BY DEF JobInv, JobTypeOK, Fresh, Running, Stopped, Coded, Noticed, SentAsIs, EndCode,
         jobVars, timeVars, resultVars, history

\* the start of a check, or the reason for not executing it
LEMMA StartStep ==
  ASSUME JobInv, NEW j \in Jobs, Start(j)
  PROVE  JobInv'
  <1> USE CheckExecutionAssumption
          DEF JobInv, JobTypeOK, ProcessStates, NoResult, Nothing, Interrupted, Answers, JobGoto, SetCode, JobAt, Begin,
              jobVars, timeVars, resultVars, history
  <1>1. CASE TooOld(j)
    <2>1. JobTypeOK'
      BY <1>1 DEF TooOld
    <2>2. (Fresh /\ Running /\ Stopped)'
      BY <1>1 DEF TooOld, Fresh, Running, Stopped
    <2>3. (Coded /\ Noticed /\ SentAsIs)'
      BY <1>1 DEF TooOld,
             Fresh, Running, Stopped, Coded, Noticed, SentAsIs, EndCode
    <2> QED
      BY <2>1, <2>2, <2>3 DEF JobInv
  <1>2. CASE BadPath(j)
    <2>1. JobTypeOK'
      BY <1>2 DEF BadPath
    <2>2. (Fresh /\ Running /\ Stopped)'
      BY <1>2 DEF BadPath, Fresh, Running, Stopped
    <2>3. (Coded /\ Noticed /\ SentAsIs)'
      BY <1>2 DEF BadPath,
             Fresh, Running, Stopped, Coded, Noticed, SentAsIs, EndCode
    <2> QED
      BY <2>1, <2>2, <2>3 DEF JobInv
  <1>3. CASE StartInternal(j)
    <2>1. JobTypeOK'
      BY <1>3 DEF StartInternal
    <2>2. (Fresh /\ Running /\ Stopped)'
      BY <1>3 DEF StartInternal, Fresh, Running, Stopped
    <2>3. (Coded /\ Noticed /\ SentAsIs)'
      BY <1>3 DEF StartInternal,
             Fresh, Running, Stopped, Coded, Noticed, SentAsIs, EndCode
    <2> QED
      BY <2>1, <2>2, <2>3 DEF JobInv
  <1>4. CASE StartEpn(j)
    <2>1. JobTypeOK'
      BY <1>4 DEF StartEpn
    <2>2. (Fresh /\ Running /\ Stopped)'
      BY <1>4 DEF StartEpn, Fresh, Running, Stopped
    <2>3. (Coded /\ Noticed /\ SentAsIs)'
      BY <1>4 DEF StartEpn,
             Fresh, Running, Stopped, Coded, Noticed, SentAsIs, EndCode
    <2> QED
      BY <2>1, <2>2, <2>3 DEF JobInv
  <1>5. CASE StartProcess(j)
    <2>1. JobTypeOK'
      BY <1>5 DEF StartProcess
    <2>2. (Fresh /\ Running /\ Stopped)'
      BY <1>5 DEF StartProcess, Fresh, Running, Stopped
    <2>3. (Coded /\ Noticed /\ SentAsIs)'
      BY <1>5 DEF StartProcess,
             Fresh, Running, Stopped, Coded, Noticed, SentAsIs, EndCode
    <2> QED
      BY <2>1, <2>2, <2>3 DEF JobInv
  <1>6. CASE StartFails(j)
    <2>1. JobTypeOK'
      BY <1>6 DEF StartFails
    <2>2. (Fresh /\ Running /\ Stopped)'
      BY <1>6 DEF StartFails, Fresh, Running, Stopped
    <2>3. (Coded /\ Noticed /\ SentAsIs)'
      BY <1>6 DEF StartFails,
             Fresh, Running, Stopped, Coded, Noticed, SentAsIs, EndCode
    <2> QED
      BY <2>1, <2>2, <2>3 DEF JobInv
  <1>7. CASE StartFatal(j)
    BY <1>7, OtherStep DEF StartFatal
  <1> HIDE DEF JobInv
  <1> QED
    BY <1>1, <1>2, <1>3, <1>4, <1>5, <1>6, <1>7 DEF Start

\* the signals of processTimeoutKill touch nothing but the process and their number
LEMMA GroupSignalType ==
  ASSUME JobTypeOK, NEW j \in Jobs, GroupSignal(j)
  PROVE  JobTypeOK'
  <1>1. killer' \in [Jobs -> 0..3]
    <2>1. killer' = [killer EXCEPT ![j] = @ + 1] /\ killer[j] < 3
      BY DEF GroupSignal
    <2>2. killer \in [Jobs -> 0..3]
      BY DEF JobTypeOK
    <2> QED
      BY <2>1, <2>2
  <1>2. process' \in [Jobs -> ProcessStates]
    <2>1. process' = [process EXCEPT ![j] = "gone"] \/ UNCHANGED process
      BY DEF GroupSignal
    <2>2. process \in [Jobs -> ProcessStates] /\ "gone" \in ProcessStates
      BY DEF JobTypeOK, ProcessStates
    <2> QED
      BY <2>1, <2>2
  <1>3. UNCHANGED <<kind, negate, pc, deadline, inner, returnCode, timedOut,
                    serviceDescription, sent, outcome, tooOld, badPath, lateWrite>>
    BY DEF GroupSignal, jobVars, resultVars, history
  <1>4. /\ deadline' \subseteq Jobs /\ tooOld' \subseteq Jobs /\ badPath' \subseteq Jobs
        /\ lateWrite' \subseteq Jobs
        /\ kind' \in Kinds /\ negate' \in Negates
        /\ pc' \in [Jobs -> {"new", "wait", "post", "decide", "queued", "sent", "dropped"}]
        /\ inner' \in [Jobs -> {"none", "runs", "wrote", "over"}]
    BY <1>3 DEF JobTypeOK
  <1>5. /\ returnCode' \in [Jobs -> 0..4] /\ outcome' \in [Jobs -> {Nothing} \cup Answers]
        /\ timedOut' \in [Jobs -> BOOLEAN] /\ serviceDescription' \in [Jobs -> BOOLEAN]
        /\ sent' \in [Jobs -> [rc : {Nothing} \cup 0..4, timedOut : BOOLEAN, service : BOOLEAN]]
    BY <1>3 DEF JobTypeOK
  <1> QED
    BY <1>1, <1>2, <1>4, <1>5, Zenon DEF JobTypeOK

\* the timeout, the process of a check, and the goroutine of an internal one
LEMMA CheckStep ==
  ASSUME JobInv, NEW j \in Jobs,
         Deadline(j) \/ Check(j) \/ ContextKill(j) \/ CancelProcess(j) \/ GroupSignal(j)
           \/ InternalOver(j)
  PROVE  JobInv'
  <1> USE CheckExecutionAssumption
          DEF JobInv, JobTypeOK, ProcessStates, NoResult, Nothing, Interrupted, Answers, JobGoto, SetCode, JobAt, Begin,
              jobVars, timeVars, resultVars, history
  <1>1. CASE Deadline(j)
    <2>1. JobTypeOK'
      BY <1>1 DEF Deadline
    <2>2. (Fresh /\ Running /\ Stopped)'
      BY <1>1 DEF Deadline, Fresh, Running, Stopped
    <2>3. (Coded /\ Noticed /\ SentAsIs)'
      BY <1>1 DEF Deadline,
             Fresh, Running, Stopped, Coded, Noticed, SentAsIs, EndCode
    <2> QED
      BY <2>1, <2>2, <2>3 DEF JobInv
  <1>2. ASSUME NEW rc \in Codes, ProcessEnds(j, rc) PROVE JobInv'
    <2>1. JobTypeOK'
      BY <1>2, EmbeddedPerlAssumption DEF ProcessEnds
    <2>2. (Fresh /\ Running /\ Stopped)'
      BY <1>2, EmbeddedPerlAssumption DEF ProcessEnds, Fresh, Running, Stopped
    <2>3. (Coded /\ Noticed /\ SentAsIs)'
      BY <1>2 DEF ProcessEnds,
             Fresh, Running, Stopped, Coded, Noticed, SentAsIs, EndCode
    <2> QED
      BY <2>1, <2>2, <2>3 DEF JobInv
  <1>3. CASE ChildrenEnd(j)
    <2>1. JobTypeOK'
      BY <1>3 DEF ChildrenEnd
    <2>2. (Fresh /\ Running /\ Stopped)'
      BY <1>3 DEF ChildrenEnd, Fresh, Running, Stopped
    <2>3. (Coded /\ Noticed /\ SentAsIs)'
      BY <1>3 DEF ChildrenEnd,
             Fresh, Running, Stopped, Coded, Noticed, SentAsIs, EndCode
    <2> QED
      BY <2>1, <2>2, <2>3 DEF JobInv
  <1>4. CASE ContextKill(j)
    <2>1. JobTypeOK'
      BY <1>4 DEF ContextKill, Kill
    <2>2. (Fresh /\ Running /\ Stopped)'
      BY <1>4 DEF ContextKill, Kill, Fresh, Running, Stopped
    <2>3. (Coded /\ Noticed /\ SentAsIs)'
      BY <1>4 DEF ContextKill, Kill,
             Fresh, Running, Stopped, Coded, Noticed, SentAsIs, EndCode
    <2> QED
      BY <2>1, <2>2, <2>3 DEF JobInv
  <1>5. CASE CancelProcess(j)
    <2>1. JobTypeOK'
      BY <1>5 DEF CancelProcess, Kill
    <2>2. (Fresh /\ Running /\ Stopped)'
      BY <1>5 DEF CancelProcess, Kill, Fresh, Running, Stopped
    <2>3. (Coded /\ Noticed /\ SentAsIs)'
      BY <1>5 DEF CancelProcess, Kill,
             Fresh, Running, Stopped, Coded, Noticed, SentAsIs, EndCode
    <2> QED
      BY <2>1, <2>2, <2>3 DEF JobInv
  <1>6. CASE GroupSignal(j)
    <2>1. JobTypeOK'
      BY <1>6, GroupSignalType
    <2>2. (Fresh /\ Running /\ Stopped)'
      <3>1. /\ kind[j] = "exec" /\ j \in deadline
            /\ process' = [process EXCEPT ![j] = "gone"] \/ UNCHANGED process
            /\ UNCHANGED <<kind, pc, deadline, inner, returnCode, timedOut, outcome>>
        BY <1>6 DEF GroupSignal
      <3>2. Fresh'
        BY <3>1 DEF Fresh
      <3>3. Running'
        BY <3>1 DEF Running
      <3>4. Stopped'
        BY <3>1 DEF Stopped
      <3> QED
        BY <3>2, <3>3, <3>4
    <2>3. (Coded /\ Noticed /\ SentAsIs)'
      BY <1>6 DEF GroupSignal,
             Fresh, Running, Stopped, Coded, Noticed, SentAsIs, EndCode
    <2> QED
      BY <2>1, <2>2, <2>3 DEF JobInv
  <1>7. ASSUME NEW rc \in Codes \cap 0..3, InternalWrites(j, rc) PROVE JobInv'
    <2>1. JobTypeOK'
      BY <1>7 DEF InternalWrites
    <2>2. (Fresh /\ Running /\ Stopped)'
      BY <1>7 DEF InternalWrites, Fresh, Running, Stopped
    <2>3. (Coded /\ Noticed /\ SentAsIs)'
      BY <1>7 DEF InternalWrites,
             Fresh, Running, Stopped, Coded, Noticed, SentAsIs, EndCode
    <2> QED
      BY <2>1, <2>2, <2>3 DEF JobInv
  <1>8. CASE InternalOver(j)
    <2>1. JobTypeOK'
      BY <1>8 DEF InternalOver
    <2>2. (Fresh /\ Running /\ Stopped)'
      BY <1>8 DEF InternalOver, Fresh, Running, Stopped
    <2>3. (Coded /\ Noticed /\ SentAsIs)'
      BY <1>8 DEF InternalOver,
             Fresh, Running, Stopped, Coded, Noticed, SentAsIs, EndCode
    <2> QED
      BY <2>1, <2>2, <2>3 DEF JobInv
  <1> HIDE DEF JobInv
  <1> QED
    BY <1>1, <1>2, <1>3, <1>4, <1>5, <1>6, <1>7, <1>8 DEF Check

\* a flag of a job is set or cleared
LEMMA SetFlag ==
  ASSUME NEW f \in [Jobs -> BOOLEAN], NEW j \in Jobs, NEW b \in BOOLEAN, NEW g,
         g = [f EXCEPT ![j] = b]
  PROVE  /\ g \in [Jobs -> BOOLEAN]
         /\ g[j] <=> b
         /\ \A i \in Jobs \ {j} : g[i] = f[i]
  <1>1. CASE b = TRUE
    BY <1>1
  <1>2. CASE b = FALSE
    BY <1>2
  <1> QED
    BY <1>1, <1>2

\* the end of a check
LEMMA ReturnStep ==
  ASSUME JobInv, EpnInv, NEW j \in Jobs, WaitReturns(j) \/ InternalReturns(j) \/ EpnReturns(j)
  PROVE  JobInv'
  <1> USE CheckExecutionAssumption
          DEF JobInv, JobTypeOK, ProcessStates, NoResult, Nothing, Interrupted, Answers, JobGoto, SetCode, JobAt, Begin,
              jobVars, timeVars, resultVars, history
  <1>1. CASE WaitReturns(j)
    <2>1. JobTypeOK'
      <3>1. returnCode' \in [Jobs -> 0..4]
        BY <1>1 DEF WaitReturns, FixReturnCodes
      <3>2. timedOut' \in [Jobs -> BOOLEAN]
        BY <1>1 DEF WaitReturns
      <3>3. pc' \in [Jobs -> {"new", "wait", "post", "decide", "queued", "sent", "dropped"}]
        BY <1>1 DEF WaitReturns
      <3> QED
        BY <1>1, <3>1, <3>2, <3>3 DEF WaitReturns
    <2>2. (Fresh /\ Running /\ Stopped)'
      BY <1>1 DEF WaitReturns, FixReturnCodes, Fresh, Running, Stopped
    <2>3. (Coded /\ Noticed /\ SentAsIs)'
      BY <1>1 DEF WaitReturns, FixReturnCodes,
             Fresh, Running, Stopped, Coded, Noticed, SentAsIs, EndCode
    <2> QED
      BY <2>1, <2>2, <2>3 DEF JobInv
  <1>2. CASE InternalReturns(j)
    <2>1. JobTypeOK'
      BY <1>2 DEF InternalReturns
    <2>2. /\ timedOut'[j] <=> j \in deadline
          /\ \A i \in Jobs \ {j} : timedOut'[i] = timedOut[i]
      <3>1. timedOut' = [timedOut EXCEPT ![j] = j \in deadline]
        BY <1>2 DEF InternalReturns
      <3>2. timedOut \in [Jobs -> BOOLEAN]
        OBVIOUS
      <3>3. CASE j \in deadline
        <4>1. timedOut' = [timedOut EXCEPT ![j] = TRUE]
          BY <3>1, <3>3, Zenon
        <4> QED
          BY <3>2, <3>3, <4>1, SetFlag
      <3>4. CASE j \notin deadline
        <4>1. (j \in deadline) = FALSE
          BY <3>4
        <4>2. timedOut' = [timedOut EXCEPT ![j] = FALSE]
          BY <3>1, <4>1, Zenon
        <4> QED
          BY <3>2, <3>4, <4>2, SetFlag
      <3> QED
        BY <3>3, <3>4
    <2>3. pc'[j] = "post" /\ \A i \in Jobs \ {j} : pc'[i] = pc[i]
      BY <1>2 DEF InternalReturns
    <2>4. UNCHANGED <<kind, negate, deadline, process, killer, inner, returnCode,
                      serviceDescription, sent, outcome, tooOld, badPath, lateWrite>>
      BY <1>2 DEF InternalReturns
    <2>5. /\ pc[j] = "wait" /\ kind[j] = "internal"
          /\ j \in deadline \/ inner[j] = "over"
      BY <1>2 DEF InternalReturns
    <2>6. (Fresh /\ Running /\ Stopped)'
      <3>1. Fresh'
        BY <2>2, <2>3, <2>4 DEF Fresh
      <3>2. Running'
        BY <2>2, <2>3, <2>4 DEF Running
      <3>3. process[j] = "none" /\ (~timedOut'[j] => inner[j] # "runs")
        BY <2>2, <2>5 DEF Running
      <3>4. Stopped'
        BY <2>2, <2>3, <2>4, <3>3 DEF Stopped
      <3> QED
        BY <3>1, <3>2, <3>4
    <2>7. (Coded /\ Noticed)'
      <3>1. ~timedOut'[j] => returnCode[j] = EndCode(j)'
        <4>1. ~timedOut'[j] => returnCode[j] = outcome[j]
          BY <2>2, <2>5 DEF Running
        <4>2. returnCode[j] # Nothing /\ kind'[j] = "internal" /\ outcome'[j] = outcome[j]
          BY <2>4, <2>5
        <4> QED
          BY <4>1, <4>2 DEF EndCode
      <3>2. \A i \in Jobs : EndCode(i)' = EndCode(i)
        BY <2>4 DEF EndCode
      <3>3. Coded'
        BY <2>2, <2>3, <2>4, <3>1, <3>2 DEF Coded
      <3>4. Noticed'
        BY <2>2, <2>3, <2>4 DEF Noticed
      <3> QED
        BY <3>3, <3>4
    <2>8. SentAsIs'
      BY <2>2, <2>3, <2>4, <2>5 DEF SentAsIs
    <2> QED
      BY <2>1, <2>6, <2>7, <2>8 DEF JobInv
  <1>3. CASE EpnReturns(j)
    <2>1. JobTypeOK'
      <3>1. epc[j] = "answered" => reply[j] \in Answers
        BY DEF EpnInv, AnswerRead
      <3>2. outcome' \in [Jobs -> {Nothing} \cup Answers]
        BY <1>3, <3>1 DEF EpnReturns
      <3>3. returnCode' \in [Jobs -> 0..4]
        BY <1>3, <3>1 DEF EpnReturns, AnswerCode
      <3>4. pc' \in [Jobs -> {"new", "wait", "post", "decide", "queued", "sent", "dropped"}]
        BY <1>3 DEF EpnReturns
      <3>5. timedOut' \in [Jobs -> BOOLEAN]
        BY <1>3 DEF EpnReturns
      <3> QED
        BY <1>3, <3>2, <3>3, <3>4, <3>5 DEF EpnReturns
    <2>2. (Fresh /\ Running /\ Stopped)'
      BY <1>3 DEF EpnReturns, Fresh, Running, Stopped
    <2>3. Coded'
      <3>1. epc[j] = "answered" => reply[j] \in Answers
        BY DEF EpnInv, AnswerRead
      <3>2. pc[j] = "wait" /\ kind[j] = "epn" /\ pc'[j] = "post"
        BY <1>3 DEF EpnReturns
      <3>3. returnCode[j] = 3 /\ outcome[j] = Nothing
        BY <3>2 DEF Running
      <3>4. /\ returnCode'[j] = IF epc[j] = "answered" THEN AnswerCode(reply[j]) ELSE 3
            /\ outcome'[j] = IF epc[j] = "answered" THEN reply[j] ELSE Nothing
        BY <1>3, <3>3 DEF EpnReturns
      <3>5. returnCode'[j] = EndCode(j)'
        BY <1>3, <3>1, <3>4, <3>2 DEF EpnReturns, EndCode, AnswerCode, Answers, Interrupted
      <3>6. \A i \in Jobs \ {j} :
               /\ pc'[i] = pc[i] /\ timedOut'[i] = timedOut[i] /\ outcome'[i] = outcome[i]
               /\ returnCode'[i] = returnCode[i]
        BY <1>3 DEF EpnReturns
      <3>7. UNCHANGED <<kind, negate, tooOld, badPath, lateWrite>>
        BY <1>3 DEF EpnReturns
      <3> QED
        BY <3>5, <3>6, <3>7, <3>2 DEF Coded, EndCode
    <2>4. (Noticed /\ SentAsIs)'
      BY <1>3 DEF EpnReturns, Noticed, SentAsIs
    <2> QED
      BY <2>1, <2>2, <2>3, <2>4 DEF JobInv
  <1> HIDE DEF JobInv
  <1> QED
    BY <1>1, <1>2, <1>3

\* negate, and the result
LEMMA FinishStep ==
  ASSUME JobInv, NEW j \in Jobs, Post(j) \/ Decide(j) \/ Send(j)
  PROVE  JobInv'
  <1> USE CheckExecutionAssumption
          DEF JobInv, JobTypeOK, ProcessStates, NoResult, Nothing, Interrupted, Answers, JobGoto, SetCode, JobAt, Begin,
              jobVars, timeVars, resultVars, history
  <1>1. CASE Post(j)
    <2>1. JobTypeOK'
      <3>1. returnCode' \in [Jobs -> 0..4]
        <4>1. Apply(negate[j], returnCode[j]) \in 0..4
          BY ApplyType
        <4>2. TimeoutCode(negate[j]) \in 0..4
          BY TimeoutCodeType
        <4> QED
          BY <1>1, <4>1, <4>2 DEF Post
      <3>2. serviceDescription' \in [Jobs -> BOOLEAN]
        BY <1>1 DEF Post
      <3>3. pc' \in [Jobs -> {"new", "wait", "post", "decide", "queued", "sent", "dropped"}]
        BY <1>1 DEF Post
      <3> QED
        BY <1>1, <3>1, <3>2, <3>3 DEF Post
    <2>2. (Fresh /\ Running /\ Stopped)'
      BY <1>1 DEF Post, Fresh, Running, Stopped
    <2>3. (Coded /\ Noticed /\ SentAsIs)'
      BY <1>1 DEF Post,
             Fresh, Running, Stopped, Coded, Noticed, SentAsIs, EndCode
    <2> QED
      BY <2>1, <2>2, <2>3 DEF JobInv
  <1>2. CASE Decide(j)
    <2>1. JobTypeOK'
      BY <1>2 DEF Decide
    <2>2. (Fresh /\ Running /\ Stopped)'
      BY <1>2 DEF Decide, Fresh, Running, Stopped
    <2>3. (Coded /\ Noticed /\ SentAsIs)'
      BY <1>2 DEF Decide,
             Fresh, Running, Stopped, Coded, Noticed, SentAsIs, EndCode
    <2> QED
      BY <2>1, <2>2, <2>3 DEF JobInv
  <1>3. CASE Send(j)
    <2>1. JobTypeOK'
      BY <1>3 DEF Send
    <2>2. (Fresh /\ Running /\ Stopped)'
      BY <1>3 DEF Send, Fresh, Running, Stopped
    <2>3. (Coded /\ Noticed)'
      BY <1>3 DEF Send, Coded, Noticed, EndCode
    <2>4. SentAsIs'
      <3>1. /\ sent'[j].rc = returnCode[j] /\ (sent'[j].timedOut <=> timedOut[j])
            /\ \A i \in Jobs \ {j} : sent'[i] = sent[i] /\ pc'[i] = pc[i]
            /\ pc'[j] = "sent"
        BY <1>3 DEF Send
      <3>2. returnCode' = returnCode /\ timedOut' = timedOut
        BY <1>3 DEF Send
      <3>3. \A i \in Jobs \ {j} : sent[i] # NoResult =>
               pc[i] = "sent" /\ sent[i].rc = returnCode[i] /\ (sent[i].timedOut <=> timedOut[i])
        BY DEF SentAsIs
      <3> HIDE DEF JobInv, JobTypeOK, NoResult
      <3> QED
        BY <3>1, <3>2, <3>3 DEF SentAsIs
    <2> QED
      BY <2>1, <2>2, <2>3, <2>4 DEF JobInv
  <1> HIDE DEF JobInv
  <1> QED
    BY <1>1, <1>2, <1>3
-----------------------------------------------------------------------------
(***************************************************************************)
(* Both halves together.                                                   *)
(***************************************************************************)
LEMMA InitInvariant == Init => IInv
  BY InitEpn, InitJob DEF IInv

\* steps of EmbeddedPerl
LEMMA EpnStepInvariant ==
  ASSUME IInv, UNCHANGED <<jobVars, timeVars, resultVars, history>>, EpnInv'
  PROVE  IInv'
  BY OtherStep DEF IInv

\* steps that only the variables of a job take part in
LEMMA EpnUnchangedStep ==
  ASSUME EpnInv, UNCHANGED <<mainVars, serverVars, daemonVars, conVars>>, canceled' \subseteq Jobs
  PROVE  EpnInv'
  BY DEF EpnInv, EpnTypeOK, NoDaemonLeftBehind, NoneAtStart, RetriesLeft, AnswerRead,
         Alive, Alive_, mainVars, serverVars, daemonVars, conVars

\* the steps of a job that touch what it shares with the daemon
LEMMA JobKeepsEpn ==
  ASSUME EpnInv, NEW j \in Jobs,
         Start(j) \/ JobRuns(j) \/ Deadline(j) \/ GroupSignal(j) \/ Check(j)
           \/ CancelProcess(j)
  PROVE  EpnInv'
  <1>1. canceled \subseteq Jobs
    BY DEF EpnInv, EpnTypeOK
  <1>2. CASE UNCHANGED epnVars
    BY <1>1, <1>2, EpnUnchangedStep DEF epnVars
  <1>3. CASE StartEpn(j)
    BY <1>3, RequestStep DEF StartEpn
  <1>4. CASE StartFatal(j)
    BY <1>4 DEF StartFatal, EpnInv, EpnTypeOK, NoDaemonLeftBehind, NoneAtStart, RetriesLeft,
                AnswerRead, Alive, Alive_, serverVars, daemonVars, conVars
  <1>5. CASE CancelProcess(j)
    BY <1>1, <1>5, EpnUnchangedStep DEF CancelProcess
  <1>6. CASE EpnReturns(j)
    BY <1>6, EmbeddedPerlAssumption
       DEF EpnReturns, EpnGoto, EpnInv, EpnTypeOK, NoDaemonLeftBehind, NoneAtStart,
                RetriesLeft, AnswerRead, Alive, Alive_, mainVars, serverVars, daemonVars
  <1>7. CASE EpnStep(Read(j)) \/ EpnStep(Connect(j))
    BY <1>7, RequestStep, ConnectStep DEF EpnStep
  <1>8. ASSUME Start(j), ~StartEpn(j), ~StartFatal(j) PROVE UNCHANGED epnVars
    BY <1>8 DEF Start, TooOld, BadPath, StartInternal, StartProcess, StartFails
  <1>9. ASSUME Deadline(j) \/ GroupSignal(j) \/ Check(j) PROVE UNCHANGED epnVars
    BY <1>9 DEF Deadline, GroupSignal, Check, ChildrenEnd, ProcessEnds, InternalWrites
  <1>10. ASSUME \/ ContextKill(j) \/ WaitReturns(j) \/ InternalReturns(j)
                \/ InternalOver(j) \/ Post(j) \/ Decide(j) \/ Send(j)
         PROVE  UNCHANGED epnVars
    BY <1>10 DEF ContextKill, WaitReturns, InternalReturns, InternalOver, Post, Decide, Send
  <1> QED
    BY <1>2, <1>3, <1>4, <1>5, <1>6, <1>7, <1>8, <1>9, <1>10 DEF JobRuns

\* the steps of a job, for the half of the jobs
LEMMA JobKeepsJob ==
  ASSUME IInv, NEW j \in Jobs,
         Start(j) \/ JobRuns(j) \/ Deadline(j) \/ GroupSignal(j) \/ Check(j)
           \/ CancelProcess(j)
  PROVE  JobInv'
  <1>1. EpnInv /\ JobInv
    BY DEF IInv
  <1>2. CASE Start(j)
    BY <1>1, <1>2, StartStep
  <1>3. CASE Deadline(j) \/ GroupSignal(j) \/ Check(j) \/ CancelProcess(j)
    BY <1>1, <1>3, CheckStep
  <1>4. CASE JobRuns(j)
    <2>1. CASE ContextKill(j) \/ InternalOver(j)
      BY <1>1, <2>1, CheckStep
    <2>2. CASE WaitReturns(j) \/ InternalReturns(j) \/ EpnReturns(j)
      BY <1>1, <2>2, ReturnStep
    <2>3. CASE Post(j) \/ Decide(j) \/ Send(j)
      BY <1>1, <2>3, FinishStep
    <2>4. CASE EpnStep(Read(j)) \/ EpnStep(Connect(j))
      BY <1>1, <2>4, OtherStep DEF EpnStep
    <2> QED
      BY <1>4, <2>1, <2>2, <2>3, <2>4 DEF JobRuns
  <1> QED
    BY <1>2, <1>3, <1>4

\* a step takes part in one half or the other, or in both
LEMMA NextInvariant ==
  ASSUME IInv, [Next]_vars
  PROVE  IInv'
  <1>1. EpnInv /\ JobInv
    BY DEF IInv
  <1>2. ASSUME NEW j \in Jobs,
               Start(j) \/ JobRuns(j) \/ Deadline(j) \/ GroupSignal(j) \/ Check(j)
                 \/ CancelProcess(j)
        PROVE  IInv'
    BY <1>1, <1>2, JobKeepsEpn, JobKeepsJob DEF IInv
  <1>3. ASSUME NEW j \in Jobs,
               CancelEpn(j) \/ EpnStep(ReadPattern(j)) \/ EpnStep(Plugin(j))
        PROVE  IInv'
    BY <1>1, <1>3, RequestStep, PluginStep, EpnStepInvariant DEF EpnStep, CancelEpn
  <1>4. CASE EpnStep(MainLoop) \/ EpnStep(Signal) \/ EpnStep(Age)
    BY <1>1, <1>4, MainLoopStep, EpnStepInvariant DEF EpnStep
  <1>5. ASSUME NEW d \in Daemons, EpnStep(Daemon(d)) \/ EpnStep(Trouble(d))
        PROVE  IInv'
    BY <1>1, <1>5, DaemonStep, EpnStepInvariant DEF EpnStep
  <1>6. CASE UNCHANGED vars
    <2>1. canceled' \subseteq Jobs
      BY <1>1, <1>6 DEF EpnInv, EpnTypeOK, vars, epnVars
    <2>2. EpnInv'
      BY <1>1, <1>6, <2>1, EpnUnchangedStep DEF vars, epnVars
    <2> QED
      BY <1>6, <2>2, EpnStepInvariant DEF vars
  <1> QED
    BY <1>2, <1>3, <1>4, <1>5, <1>6 DEF Next

(***************************************************************************)
(* IInv holds in every reachable state.                                    *)
(***************************************************************************)
THEOREM Invariance == Spec => []IInv
  BY InitInvariant, NextInvariant, PTL DEF Spec

(***************************************************************************)
(* Every variable keeps its type: codes are 0 to 4, retries stay below     *)
(* their limit, and there is always a free stamp (epn.go,                  *)
(* readAndExecute.go).                                                     *)
(***************************************************************************)
THEOREM TypeCorrect == Spec => []TypeOK
  <1>1. IInv => TypeOK
    <2> SUFFICES ASSUME IInv PROVE TypeOK
      OBVIOUS
    <2>1. /\ forked \cup cancelSet \cup canceled \subseteq Jobs
          /\ deadline \cup tooOld \cup badPath \cup lateWrite \subseteq Jobs
      BY DEF IInv, EpnInv, EpnTypeOK, JobInv, JobTypeOK
    <2>2. \A j \in Jobs : sent[j] = NoResult \/ sent[j].rc \in 0..4
      BY DEF IInv, JobInv, JobTypeOK, SentAsIs
    <2> QED
      BY <2>1, <2>2 DEF IInv, EpnInv, EpnTypeOK, JobInv, JobTypeOK, TypeOK
  <1> QED
    BY Invariance, <1>1, PTL

(***************************************************************************)
(* No restart, reload or new run of the main loop leaves a daemon behind:  *)
(* one that was not told to stop is the current one, and listed for        *)
(* stopAllEmbeddedPerl (epn.go).                                           *)
(***************************************************************************)
THEOREM DaemonsKept == Spec => []NoDaemonLeftBehind
  <1>1. IInv => NoDaemonLeftBehind
    BY DEF IInv, EpnInv
  <1> QED
    BY Invariance, <1>1, PTL

(***************************************************************************)
(* Without negate, a result that was not timed out says OK if and only if  *)
(* the check ended with code 0 by itself; with negate, if and only if its  *)
(* options say OK of the code it counts with, which is UNKNOWN for a check *)
(* that did not end by itself, or CRITICAL for an interrupted perl plugin. *)
(***************************************************************************)
THEOREM OkIsMeant == Spec => []OkMeansOk
  <1>1. ASSUME IInv PROVE OkMeansOk
    <2> SUFFICES ASSUME NEW j \in Executed, ~sent[j].timedOut
                 PROVE  /\ negate[j] = NoNegate => (sent[j].rc = 0 <=> outcome[j] = 0)
                        /\ negate[j] # NoNegate =>
                             (sent[j].rc = 0 <=> EndCode(j) \in OkCodes(negate[j]))
      BY DEF OkMeansOk
    <2>1. j \in Jobs /\ sent[j] # NoResult /\ j \notin tooOld \cup badPath
      BY DEF Executed
    <2>2. pc[j] = "sent" /\ sent[j].rc = returnCode[j] /\ ~timedOut[j]
      BY <1>1, <2>1 DEF IInv, JobInv, SentAsIs
    <2>3. returnCode[j] = Apply(negate[j], EndCode(j))
      BY <1>1, <2>1, <2>2 DEF IInv, JobInv, Coded
    <2>4. EndCode(j) \in 0..4 /\ (EndCode(j) = 0 <=> outcome[j] = 0)
      BY <1>1, <2>1 DEF IInv, JobInv, JobTypeOK, EndCode, Answers, Interrupted, Nothing
    <2>5. negate[j] \in Negate \cup {NoNegate}
      BY <1>1, <2>1, CheckExecutionAssumption DEF IInv, JobInv, JobTypeOK
    <2>6. CASE negate[j] = NoNegate
      <3>1. returnCode[j] = EndCode(j)
        BY <2>3, <2>6 DEF Apply
      <3> QED
        BY <2>2, <2>4, <2>6, <3>1
    <2>7. CASE negate[j] # NoNegate
      BY <2>2, <2>3, <2>4, <2>5, <2>7, ApplyOk
    <2> QED
      BY <2>6, <2>7
  <1> QED
    BY Invariance, <1>1, PTL

(***************************************************************************)
(* A check that ran into its timeout is reported as timed out, with the    *)
(* code of timeout_return or of negate, whatever its processes do, unless  *)
(* an internal check overwrote it late (readAndExecute.go).  Perl checks   *)
(* need not notice, but are reported like that if they do.                 *)
(***************************************************************************)
THEOREM TimeoutIsReported == Spec => []TimeoutReported
  <1>1. ASSUME IInv PROVE TimeoutReported
    <2> SUFFICES ASSUME NEW j \in Executed \ lateWrite
                 PROVE  /\ j \in deadline /\ kind[j] # "epn" => sent[j].timedOut
                        /\ sent[j].timedOut => sent[j].rc = TimeoutCode(negate[j])
      BY TimeoutCodeIs DEF TimeoutReported
    <2>1. j \in Jobs /\ sent[j] # NoResult
      BY DEF Executed
    <2>2. pc[j] = "sent" /\ sent[j].rc = returnCode[j] /\ (sent[j].timedOut <=> timedOut[j])
      BY <1>1, <2>1 DEF IInv, JobInv, SentAsIs
    <2>3. timedOut[j] => returnCode[j] = TimeoutCode(negate[j])
      BY <1>1, <2>1, <2>2 DEF IInv, JobInv, Coded
    <2>4. j \in deadline /\ kind[j] # "epn" => timedOut[j]
      BY <1>1, <2>2 DEF IInv, JobInv, Noticed
    <2> QED
      BY <2>2, <2>3, <2>4
  <1> QED
    BY Invariance, <1>1, PTL
=============================================================================
