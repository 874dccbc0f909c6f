--------------------------- MODULE CheckExecution ---------------------------
(***************************************************************************)
(* readAndExecute: from a job that was received to the result that is sent *)
(* for it.  A check is a plugin process (exec or shell), a function of the *)
(* worker (internal) or a request to the perl daemon (EmbeddedPerl); it    *)
(* may be wrapped by negate, and every one has a timeout.                  *)
(*                                                                         *)
(* Data left out: output and durations, parsing the command line, all that *)
(* a result copies from its job but the service description.  A result is  *)
(* encoded when a consumer sends it: until then it is shared memory.       *)
(***************************************************************************)
EXTENDS EmbeddedPerl

CONSTANTS
    Kinds,          \* possible assignments of "exec", "internal" and "epn" to jobs
    Negates,        \* possible assignments of command.Negate to jobs
    NoNegate,       \* command.Negate = nil
    TimeoutReturn   \* config.timeoutReturn

Unset == ""     \* no value for an option

\* a Negate: a state or Unset for every code (OKStatus to UnknownStatus), and one for timeouts
Negate == [status : [0..3 -> STRING], timeout : STRING]

ASSUME CheckExecutionAssumption ==
    /\ Kinds \subseteq [Jobs -> {"exec", "internal", "epn"}]
    /\ Negates \subseteq [Jobs -> Negate \cup {NoNegate}]
    /\ TimeoutReturn \in 0..3

VARIABLES
    kind, negate,   \* per job: what its command line says
    pc,             \* per job: "new", "wait", "post", "decide", "queued", "sent" or "dropped"
    deadline,       \* jobs whose timeout is over
    process,        \* per exec job: its process group, see ProcessStates
    killer,         \* per exec job: signals processTimeoutKill has sent
    inner,          \* per internal job: "none", "runs", "wrote" or "over"
    returnCode, timedOut, serviceDescription,   \* per job: fields of its result
    sent,           \* per job: the result as it was sent, NoResult before
    outcome,        \* history, per job: the code its check ended with, Interrupted for one that
                    \* was made to, Nothing if it ended without one
    tooOld, badPath,    \* history: jobs that were not executed for these reasons
    lateWrite       \* history: internal checks that ended after their timeout

jobVars == <<kind, negate, pc>>
timeVars == <<deadline, process, killer, inner>>
resultVars == <<returnCode, timedOut, serviceDescription, sent>>
history == <<outcome, tooOld, badPath, lateWrite>>
vars == <<epnVars, jobVars, timeVars, resultVars, history>>

NoResult == [rc |-> Nothing, timedOut |-> FALSE, service |-> FALSE]

\* "held": the plugin has ended, children of it hold its output pipes; "escaped": such
\* children that left the process group
ProcessStates == {"none", "running", "held", "escaped", "gone"}

\* a configuration without embedded perl has no perl checks
Init ==
    /\ EpnInit
    /\ kind \in Kinds
    /\ enabled = (\E j \in Jobs : kind[j] = "epn")
    /\ negate \in Negates
    /\ pc = [j \in Jobs |-> "new"]
    /\ deadline = {}
    /\ process = [j \in Jobs |-> "none"]
    /\ killer = [j \in Jobs |-> 0]
    /\ inner = [j \in Jobs |-> "none"]
    /\ returnCode = [j \in Jobs |-> 0]
    /\ timedOut = [j \in Jobs |-> FALSE]
    /\ serviceDescription = [j \in Jobs |-> FALSE]
    /\ sent = [j \in Jobs |-> NoResult]
    /\ outcome = [j \in Jobs |-> Nothing]
    /\ tooOld = {} /\ badPath = {} /\ lateWrite = {}

-----------------------------------------------------------------------------
(***************************************************************************)
(* negate and return codes.                                                *)
(***************************************************************************)
Status2Int(status) ==
    CASE status = "OK" -> 0
      [] status = "WARNING" -> 1
      [] status \in {"CRITICAL", "UNKNOWN"} -> 2
      [] OTHER -> 3

\* a state may be given by its number
ConvertStatusNumber(arg) ==
    CASE arg = "0" -> "OK"
      [] arg = "1" -> "WARNING"
      [] arg = "2" -> "CRITICAL"
      [] arg = "3" -> "UNKNOWN"
      [] OTHER -> arg

\* with nothing specified, OK and CRITICAL are swapped
Swapped == [c \in 0..3 |-> CASE c = 0 -> "CRITICAL" [] c = 2 -> "OK" [] OTHER -> Unset]

Parsed(n) ==
    LET status == IF \A c \in 0..3 : n.status[c] = Unset THEN Swapped ELSE n.status
    IN [status |-> [c \in 0..3 |-> ConvertStatusNumber(status[c])],
        timeout |-> ConvertStatusNumber(n.timeout)]

Apply(n, rc) ==
    IF n = NoNegate \/ rc \notin 0..3 THEN rc
    ELSE LET target == Parsed(n).status[rc]
         IN IF target = Unset THEN rc ELSE Status2Int(target)

\* setTimeoutResult and SetTimeoutReturnCode
TimeoutCode(n) ==
    IF n = NoNegate THEN TimeoutReturn
    ELSE LET target == Parsed(n).timeout
         IN IF target = Unset THEN TimeoutReturn ELSE Status2Int(target)

\* Mutant: every code is reported as it is.
FixReturnCodesNot(rc) == rc

\* the codes of a process: anything but 0 to 3, a signal too, becomes UNKNOWN
FixReturnCodes(rc) == IF rc \in 0..3 THEN rc ELSE 3

-----------------------------------------------------------------------------
JobAt(j, k, l) == kind[j] = k /\ pc[j] = l /\ Alive
JobGoto(j, l) == pc' = [pc EXCEPT ![j] = l] /\ UNCHANGED <<kind, negate>>
SetCode(j, rc) == returnCode' = [returnCode EXCEPT ![j] = rc]

\* workers get jobs once the main loop serves
Begin(j) == pc[j] = "new" /\ aIsRunning /\ Alive

\* the job is older than config.maxAge: readAndExecute returns a bare result
TooOld(j) ==
    /\ Begin(j)
    /\ JobGoto(j, "decide")
    /\ tooOld' = tooOld \cup {j}
    /\ UNCHANGED <<epnVars, timeVars, resultVars, outcome, badPath, lateWrite>>

\* restrictPath: executeCommandLine returns before negate is considered
BadPath(j) ==
    /\ Begin(j)
    /\ JobGoto(j, "decide")
    /\ SetCode(j, 3)
    /\ serviceDescription' = [serviceDescription EXCEPT ![j] = TRUE]
    /\ badPath' = badPath \cup {j}
    /\ UNCHANGED <<epnVars, timeVars, timedOut, sent, outcome, tooOld, lateWrite>>

StartInternal(j) ==
    /\ Begin(j) /\ kind[j] = "internal"
    /\ JobGoto(j, "wait") /\ SetCode(j, 3)
    /\ inner' = [inner EXCEPT ![j] = "runs"]
    /\ UNCHANGED <<epnVars, deadline, process, killer, timedOut, serviceDescription, sent,
                   history>>

\* Mutant: the result is not UNKNOWN to begin with.
StartEpnAsOk(j) ==
    /\ Begin(j) /\ kind[j] = "epn"
    /\ EpnEnter(j)
    /\ JobGoto(j, "wait") /\ SetCode(j, 0)
    /\ UNCHANGED <<timeVars, timedOut, serviceDescription, sent, history>>

StartEpn(j) ==
    /\ Begin(j) /\ kind[j] = "epn"
    /\ EpnEnter(j)
    /\ JobGoto(j, "wait") /\ SetCode(j, 3)
    /\ UNCHANGED <<timeVars, timedOut, serviceDescription, sent, history>>

StartProcess(j) ==
    /\ Begin(j) /\ kind[j] = "exec"
    /\ JobGoto(j, "wait") /\ SetCode(j, 3)
    /\ process' = [process EXCEPT ![j] = "running"]
    /\ UNCHANGED <<epnVars, deadline, killer, inner, timedOut, serviceDescription, sent,
                   history>>

\* setProcessErrorResult: no such file, no permission, some other error
StartFails(j) ==
    /\ Begin(j) /\ kind[j] = "exec"
    /\ JobGoto(j, "post") /\ SetCode(j, 3)
    /\ UNCHANGED <<epnVars, timeVars, timedOut, serviceDescription, sent, history>>

\* ... but out of files or memory the program exits, without stopping the daemon
StartFatal(j) ==
    /\ Begin(j) /\ kind[j] = "exec"
    /\ main' = "exited"
    /\ UNCHANGED <<enabled, perlWorkers, aIsRunning, reloads, serverVars, daemonVars, conVars, canceled,
                   jobVars, timeVars, resultVars, history>>

-----------------------------------------------------------------------------
(***************************************************************************)
(* The timeout, and what it does to a process.                             *)
(***************************************************************************)

\* an internal check that is over has canceled its context before; a perl check counts
\* its seconds from the request on
Deadline(j) ==
    /\ pc[j] = "wait" /\ j \notin deadline /\ inner[j] # "over" /\ Alive
    /\ kind[j] = "epn" => epc[j] = "reading"
    /\ deadline' = deadline \cup {j}
    /\ UNCHANGED <<epnVars, jobVars, process, killer, inner, resultVars, history>>

\* the plugin ends; its children may hold the pipes cmd.Wait reads from
ProcessEnds(j, rc) ==
    /\ process[j] = "running" /\ Alive
    /\ \E p \in {"held", "escaped", "gone"} : process' = [process EXCEPT ![j] = p]
    /\ outcome' = [outcome EXCEPT ![j] = rc]
    /\ UNCHANGED <<epnVars, jobVars, deadline, killer, inner, resultVars, tooOld, badPath, lateWrite>>

ChildrenEnd(j) ==
    /\ process[j] \in {"held", "escaped"} /\ Alive
    /\ process' = [process EXCEPT ![j] = "gone"]
    /\ UNCHANGED <<epnVars, jobVars, deadline, killer, inner, resultVars, history>>

\* Process.Kill, by exec.CommandContext at the deadline or by received.Cancel: the plugin
\* alone, not its children
Kill(j) ==
    \E p \in {"held", "escaped", "gone"} :
       process' = [process EXCEPT ![j] = IF @ = "running" THEN p ELSE @]

ContextKill(j) ==
    /\ j \in deadline /\ process[j] = "running" /\ Alive
    /\ Kill(j)
    /\ UNCHANGED <<epnVars, jobVars, deadline, killer, inner, resultVars, history>>

CancelProcess(j) ==
    /\ JobAt(j, "exec", "wait") /\ j \notin canceled
    /\ canceled' = canceled \cup {j}
    /\ Kill(j)
    /\ UNCHANGED <<mainVars, serverVars, daemonVars, conVars, jobVars, deadline, killer,
                   inner, resultVars, history>>

\* Mutant: SIGKILL goes to the plugin alone.
GroupSignalNotToChildren(j) ==
    /\ kind[j] = "exec" /\ j \in deadline /\ killer[j] < 3 /\ Alive
    /\ killer' = [killer EXCEPT ![j] = @ + 1]
    /\ \/ /\ process[j] = "running" \/ (process[j] = "held" /\ killer[j] < 2)
          /\ process' = [process EXCEPT ![j] = "gone"]
       \/ UNCHANGED process
    /\ UNCHANGED <<epnVars, jobVars, deadline, inner, resultVars, history>>

\* processTimeoutKill, in a goroutine that goes on after the result was sent: SIGTERM and
\* SIGINT, which a process may ignore, then SIGKILL to the process group
GroupSignal(j) ==
    /\ kind[j] = "exec" /\ j \in deadline /\ killer[j] < 3 /\ Alive
    /\ killer' = [killer EXCEPT ![j] = @ + 1]
    /\ \/ /\ process[j] \in {"running", "held"}
          /\ process' = [process EXCEPT ![j] = "gone"]
       \/ /\ process[j] \in {"running", "held"} => killer[j] < 2
          /\ UNCHANGED process
    /\ UNCHANGED <<epnVars, jobVars, deadline, inner, resultVars, history>>

\* Mutant: the code is taken over although the timeout killed the process.
WaitReturnsWithoutTimeout(j) ==
    /\ JobAt(j, "exec", "wait") /\ process[j] = "gone"
    /\ SetCode(j, FixReturnCodes(outcome[j]))
    /\ JobGoto(j, "post")
    /\ UNCHANGED <<epnVars, timeVars, timedOut, serviceDescription, sent, history>>

\* cmd.Wait returns once the process is gone and its pipes are closed
WaitReturns(j) ==
    /\ JobAt(j, "exec", "wait") /\ process[j] = "gone"
    /\ IF j \in deadline
       THEN timedOut' = [timedOut EXCEPT ![j] = TRUE] /\ UNCHANGED returnCode
       ELSE SetCode(j, FixReturnCodes(outcome[j])) /\ UNCHANGED timedOut
    /\ JobGoto(j, "post")
    /\ UNCHANGED <<epnVars, timeVars, serviceDescription, sent, history>>

-----------------------------------------------------------------------------
(***************************************************************************)
(* Internal checks.  The goroutine of the check writes into the result,    *)
(* also when execInternal did not wait for it.                             *)
(***************************************************************************)
InternalWrites(j, rc) ==
    /\ inner[j] = "runs" /\ pc[j] \in {"wait", "post", "decide", "queued"} /\ Alive
    /\ inner' = [inner EXCEPT ![j] = "wrote"]
    /\ SetCode(j, rc)
    /\ outcome' = [outcome EXCEPT ![j] = rc]
    /\ lateWrite' = IF pc[j] = "wait" THEN lateWrite ELSE lateWrite \cup {j}
    /\ UNCHANGED <<epnVars, jobVars, deadline, process, killer, timedOut,
                   serviceDescription, sent, tooOld, badPath>>

\* its deferred cancel
InternalOver(j) ==
    /\ inner[j] = "wrote" /\ Alive
    /\ inner' = [inner EXCEPT ![j] = "over"]
    /\ UNCHANGED <<epnVars, jobVars, deadline, process, killer, resultVars, history>>

\* <-ctx.Done(): the timeout, or the end of the check if that was first
InternalReturns(j) ==
    /\ JobAt(j, "internal", "wait")
    /\ j \in deadline \/ inner[j] = "over"
    /\ timedOut' = [timedOut EXCEPT ![j] = j \in deadline]
    /\ JobGoto(j, "post")
    /\ UNCHANGED <<epnVars, timeVars, returnCode, serviceDescription, sent, history>>

-----------------------------------------------------------------------------
(***************************************************************************)
(* Perl checks.                                                            *)
(***************************************************************************)

AnswerCode(r) == IF r = Interrupted THEN 2 ELSE r

\* executeWithEmbeddedPerl returns; an answer that was read counts as timed out if the
\* time is over, without one the result keeps its initial UNKNOWN
EpnReturns(j) ==
    /\ JobAt(j, "epn", "wait") /\ epc[j] \in {"answered", "empty", "failed"}
    /\ IF epc[j] = "answered"
       THEN SetCode(j, AnswerCode(reply[j])) /\ outcome' = [outcome EXCEPT ![j] = reply[j]]
       ELSE UNCHANGED <<returnCode, outcome>>
    /\ timedOut' = [timedOut EXCEPT ![j] = epc[j] # "failed" /\ j \in deadline]
    /\ JobGoto(j, "post")
    /\ EpnGoto(j, "out")
    /\ reply' = [reply EXCEPT ![j] = Nothing]
    /\ retries' = [retries EXCEPT ![j] = 0]
    /\ UNCHANGED <<mainVars, serverVars, daemonVars, time1, server, forked, cancelSet, canceled,
                   timeVars, serviceDescription, sent, tooOld, badPath, lateWrite>>

\* the steps of EmbeddedPerl that change nothing of a job here
EpnStep(A) == A /\ UNCHANGED <<jobVars, timeVars, resultVars, history>>

\* a Cancel function that executeWithEmbeddedPerl left behind is there until the result is
CancelEpn(j) == pc[j] \in {"wait", "post", "decide"} /\ EpnStep(EpnCancel(j))

-----------------------------------------------------------------------------
(***************************************************************************)
(* The end of executeCommandLine and readAndExecute, and the result.       *)
(***************************************************************************)

\* the deferred function of executeCommandLine, then the service description
Post(j) ==
    /\ pc[j] = "post" /\ Alive
    /\ SetCode(j, IF timedOut[j] THEN TimeoutCode(negate[j]) ELSE Apply(negate[j], returnCode[j]))
    /\ serviceDescription' = [serviceDescription EXCEPT ![j] = TRUE]
    /\ JobGoto(j, "decide")
    /\ UNCHANGED <<epnVars, timeVars, timedOut, sent, history>>

\* executeJob: a canceled job has no result
Decide(j) ==
    /\ pc[j] = "decide" /\ Alive
    /\ JobGoto(j, IF j \in canceled THEN "dropped" ELSE "queued")
    /\ UNCHANGED <<epnVars, timeVars, resultVars, history>>

\* sendAnswer encodes what the result is by then
Send(j) ==
    /\ pc[j] = "queued" /\ Alive
    /\ sent' = [sent EXCEPT ![j] = [rc |-> returnCode[j], timedOut |-> timedOut[j],
                                    service |-> serviceDescription[j]]]
    /\ JobGoto(j, "sent")
    /\ UNCHANGED <<epnVars, timeVars, returnCode, timedOut, serviceDescription, history>>

-----------------------------------------------------------------------------
\* what goroutine and process of a job do by themselves
JobRuns(j) ==
    \/ ContextKill(j) \/ WaitReturns(j) \/ InternalReturns(j) \/ EpnReturns(j)
    \/ EpnStep(Connect(j)) \/ EpnStep(Read(j))
    \/ InternalOver(j) \/ Post(j) \/ Decide(j) \/ Send(j)

Start(j) ==
    \/ TooOld(j) \/ BadPath(j)
    \/ StartInternal(j) \/ StartEpn(j) \/ StartProcess(j) \/ StartFails(j) \/ StartFatal(j)

Check(j) ==
    \/ ChildrenEnd(j)
    \/ \E rc \in Codes : ProcessEnds(j, rc)
    \/ \E rc \in Codes \cap 0..3 : InternalWrites(j, rc)

Next ==
    \/ \E j \in Jobs :
          \/ Start(j) \/ JobRuns(j) \/ Deadline(j) \/ GroupSignal(j) \/ Check(j)
          \/ CancelProcess(j) \/ CancelEpn(j) \/ EpnStep(ReadPattern(j))
          \/ EpnStep(Plugin(j))
    \/ EpnStep(MainLoop) \/ EpnStep(Signal) \/ EpnStep(Age)
    \/ \E d \in Daemons : EpnStep(Daemon(d)) \/ EpnStep(Trouble(d))

(***************************************************************************)
(* Goroutines and the main loop run, clocks go on, the daemon listens and  *)
(* exits when told to.  Nothing says that it answers, and a plugin or an   *)
(* internal check need not end.                                            *)
(***************************************************************************)
Fairness ==
    /\ \A j \in Jobs :
          WF_vars(JobRuns(j)) /\ WF_vars(Deadline(j)) /\ WF_vars(GroupSignal(j))
    /\ WF_vars(EpnStep(MainLoop)) /\ WF_vars(EpnStep(Age))
    /\ \A d \in Daemons : WF_vars(EpnStep(Daemon(d)))

Spec == Init /\ [][Next]_vars
FairSpec == Spec /\ Fairness

-----------------------------------------------------------------------------
(***************************************************************************)
(* Every variable keeps its type (epn.go, readAndExecute.go).              *)
(***************************************************************************)
TypeOK ==
    /\ main \in {"serve", "start", "wait", "down", "exited"}
    /\ enabled \in BOOLEAN /\ perlWorkers \in BOOLEAN
    /\ aIsRunning \in BOOLEAN /\ aged \in BOOLEAN
    /\ reloads \in 0..MaxReloads /\ trouble \in 0..MaxTrouble
    /\ ePNServer \in Daemons \cup {None} /\ ePNStarted \in Stamps
    /\ proc \in [Daemons -> {"none", "started", "up", "stopping", "dead"}]
    /\ ePNServerStopQueue \subseteq Daemons
    /\ epc \in [Jobs -> {"out", "check", "dial", "sleep", "ask", "connected",
                         "reading", "answered", "empty", "failed"}]
    /\ retries \in [Jobs -> 0..(MaxRetries + 1)]
    /\ time1 \in [Jobs -> Stamps]
    /\ server \in [Jobs -> Daemons \cup {None}]
    /\ reply \in [Jobs -> {Nothing} \cup Lost \cup Answers]
    /\ forked \cup cancelSet \cup canceled \subseteq Jobs
    /\ deadline \cup tooOld \cup badPath \cup lateWrite \subseteq Jobs
    /\ kind \in Kinds /\ negate \in Negates
    /\ pc \in [Jobs -> {"new", "wait", "post", "decide", "queued", "sent", "dropped"}]
    /\ process \in [Jobs -> ProcessStates]
    /\ killer \in [Jobs -> 0..3]
    /\ inner \in [Jobs -> {"none", "runs", "wrote", "over"}]
    /\ returnCode \in [Jobs -> 0..4] /\ outcome \in [Jobs -> {Nothing} \cup Answers]
    /\ timedOut \in [Jobs -> BOOLEAN] /\ serviceDescription \in [Jobs -> BOOLEAN]
    /\ \A j \in Jobs : sent[j] = NoResult \/ sent[j].rc \in 0..4

\* Jobs with a result that was executed.
Executed == {j \in Jobs : sent[j] # NoResult /\ j \notin tooOld \cup badPath}

\* The code a check counts with: UNKNOWN if it ended without one, or if its process ended
\* with one that negate does not know; CRITICAL if its plugin was interrupted.
EndCode(j) ==
    IF outcome[j] = Interrupted THEN 2
    ELSE IF outcome[j] = Nothing \/ (kind[j] = "exec" /\ outcome[j] \notin 0..3) THEN 3
    ELSE outcome[j]

\* The numbers and names negate takes for OK.
NamesOk == {"0", "OK"}

\* The codes negate reports as OK: those an option says so of, and OK itself without one;
\* with no option at all, CRITICAL.
OkCodes(n) ==
    IF \A c \in 0..3 : n.status[c] = Unset THEN {2}
    ELSE {c \in 0..3 : n.status[c] \in NamesOk \/ (c = 0 /\ n.status[c] = Unset)}

(***************************************************************************)
(* Without negate, a result that is no timeout says OK if and only if the  *)
(* check ended with code 0 by itself: no kill, signal, lost connection,    *)
(* failed start or restart of the daemon turns into OK, and no OK gets     *)
(* lost on the way.  negate may make OK of a check that did not end        *)
(* by itself, and it does so exactly where its options say OK of UNKNOWN   *)
(* or, for an interrupted perl check, of CRITICAL.                         *)
(***************************************************************************)
OkMeansOk ==
    \A j \in Executed : ~sent[j].timedOut =>
        IF negate[j] = NoNegate THEN sent[j].rc = 0 <=> outcome[j] = 0
        ELSE sent[j].rc = 0 <=> EndCode(j) \in OkCodes(negate[j])

(***************************************************************************)
(* A check that ran into its timeout is reported with the code configured  *)
(* for it, by timeout_return or by negate (worker.cfg:169-172), whatever   *)
(* its process said last.  An internal check that ends after its timeout   *)
(* and before its result is encoded overwrites the code: it is excused.    *)
(***************************************************************************)
TimeoutReported ==
    \A j \in Executed \ lateWrite :
        /\ j \in deadline /\ kind[j] # "epn" => sent[j].timedOut
        /\ sent[j].timedOut =>
              sent[j].rc = IF negate[j] # NoNegate /\ negate[j].timeout # Unset
                           THEN Status2Int(ConvertStatusNumber(negate[j].timeout))
                           ELSE TimeoutReturn

(***************************************************************************)
(* A daemon that was not told to stop is the current one, and it is listed *)
(* for stopAllEmbeddedPerl: no restart, reload or new run of the main loop *)
(* leaves one behind.                                                      *)
(***************************************************************************)
NoDaemonLeftBehind ==
    Alive => \A d \in Daemons : Alive_(d) => d = ePNServer /\ d \in ePNServerStopQueue

(***************************************************************************)
(* Once the program has exited, by whatever way, no daemon remains.        *)
(***************************************************************************)
DaemonsStopped ==
    main = "exited" ~> \A d \in Daemons : proc[d] \in {"none", "dead"}

(***************************************************************************)
(* A check ends, if only by its timeout: children that ignore signals and  *)
(* keep the pipes open, an internal check that goes on, a daemon that is   *)
(* gone, restarts or never comes up do not hold a worker for ever.  Two    *)
(* things do: a process that left the process group, and a daemon that     *)
(* took the connection and does not answer, as epn.go reads from it        *)
(* without a deadline.                                                     *)
(***************************************************************************)
ExecutionEnds ==
    \A j \in Jobs :
        []<>(\/ pc[j] \in {"new", "sent", "dropped"} \/ ~Alive
             \/ process[j] = "escaped"
             \/ epc[j] = "reading" /\ reply[j] = Nothing)

(***************************************************************************)
(* A daemon that died is replaced if a check wants it: the check's retries *)
(* suffice to get the main loop to restart it.                             *)
(***************************************************************************)
EpnHeals ==
    \A d \in Daemons, j \in Jobs :
        /\ main = "serve" /\ aged /\ ePNServer = d /\ ~Alive_(d)
        /\ epc[j] = "dial" /\ retries[j] = 0
        ~> ePNServer # d \/ ~aIsRunning \/ ~Alive

(***************************************************************************)
(* worker.cfg:120, "will not be executed and just discarded": a job that   *)
(* is too old has no result.  The code violates it: it sends one that says *)
(* OK and does not name the service.                                       *)
(***************************************************************************)
TooOldDiscarded == \A j \in tooOld : sent[j] = NoResult
=============================================================================
