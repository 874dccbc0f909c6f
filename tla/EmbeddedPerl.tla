---------------------------- MODULE EmbeddedPerl ----------------------------
(***************************************************************************)
(* epn.go and mod_gearman_worker_epn.pl: the perl daemon that executes     *)
(* perl plugins, the main loop that starts, restarts and stops it, and the *)
(* checks that connect to it.  ePNServer and ePNStarted are globals that   *)
(* both sides read and write without a lock.                               *)
(*                                                                         *)
(* ePNStarted is a pointer, compared as one: it is a stamp, 0 for nil.     *)
(* Its age matters only as "older than ePNStartTimeout" (aged).            *)
(*                                                                         *)
(* Data left out: the request but for its timeout, durations, the plugin   *)
(* cache of the daemon, logging.  A daemon compiles and forks in one step. *)
(***************************************************************************)
EXTENDS Integers, FiniteSets

CONSTANTS
    Jobs,           \* checks; every one has a goroutine of its own
    Daemons,        \* EPNDaemon objects; one is used again once it is reaped
    None,           \* nil
    Codes,          \* return codes of plugins, 4 for any code above 3
    MaxRetries,     \* ePNMaxRetries (15)
    RestartEvery,   \* ePNConnect asks for a restart at every third retry
    MaxTrouble,     \* bound: daemons that die or log a restart pattern
    MaxReloads      \* bound: reloads that concern the daemon or the main loop

ASSUME EmbeddedPerlAssumption ==
    /\ IsFiniteSet(Jobs)
    /\ None \notin Daemons
    /\ Codes \subseteq 0..4
    /\ RestartEvery \in Nat \ {0} /\ MaxRetries \in Nat
    /\ MaxRetries >= RestartEvery
    /\ MaxTrouble \in Nat /\ MaxReloads \in Nat

VARIABLES
    main,           \* main loop: "serve", "start", "wait", "down" or "exited"
    enabled,        \* config.enableEmbeddedPerl of the main loop
    perlWorkers,    \* it is set in the configuration some worker of this run was made with
    aIsRunning,     \* the global flag
    ePNServer,      \* the current daemon
    ePNStarted,     \* stamp of its start, 0 asks for a restart
    aged,           \* ePNStarted is more than ePNStartTimeout ago
    proc,           \* per daemon: "none", "started", "up", "stopping" or "dead"
    ePNServerStopQueue,
    trouble, reloads,
    epc,            \* per job: where executeWithEmbeddedPerl is
    retries, time1, \* per job: the variables of ePNConnect
    server,         \* per job: the daemon at the other end of its connection
    forked,         \* jobs whose plugin runs in a child of the daemon
    reply,          \* per job: what the connection holds, a code or one of the below
    cancelSet,      \* jobs with received.Cancel set
    canceled        \* jobs with received.Canceled set

mainVars == <<main, enabled, perlWorkers, aIsRunning, reloads>>
serverVars == <<ePNServer, ePNStarted, aged>>
daemonVars == <<proc, ePNServerStopQueue, trouble>>
conVars == <<epc, retries, time1, server, forked, reply, cancelSet>>
epnVars == <<mainVars, serverVars, daemonVars, conVars, canceled>>

Nothing == -2       \* no answer so far
Interrupted == -5   \* the answer of a plugin that was interrupted: its signal handler exits with 2
Eof == -1           \* closed without an answer
Torn == -3          \* closed in the middle of one
Reset == -4         \* closed with the request unread
Lost == {Eof, Torn, Reset}
Answers == 0..4 \cup {Interrupted}

Stamps == 0..(Cardinality(Jobs) + 2)

EpnInit ==
    /\ main = "start" /\ enabled \in BOOLEAN /\ perlWorkers = enabled
    /\ aIsRunning = FALSE /\ reloads = 0
    /\ ePNServer = None /\ ePNStarted = 0 /\ aged = FALSE
    /\ proc = [d \in Daemons |-> "none"]
    /\ ePNServerStopQueue = {} /\ trouble = 0
    /\ epc = [j \in Jobs |-> "out"]
    /\ retries = [j \in Jobs |-> 0]
    /\ time1 = [j \in Jobs |-> 0]
    /\ server = [j \in Jobs |-> None]
    /\ forked = {}
    /\ reply = [j \in Jobs |-> Nothing]
    /\ cancelSet = {} /\ canceled = {}

Alive == main # "exited"
Alive_(d) == proc[d] \in {"started", "up"}

At(j, l) == epc[j] = l /\ Alive
EpnGoto(j, l) == epc' = [epc EXCEPT ![j] = l]
EpnUnchanged == UNCHANGED <<mainVars, daemonVars, server, forked, reply, cancelSet,
                          canceled>>

\* a new time.Time: no pointer that somebody still holds equals it
NewStamp == CHOOSE s \in Stamps \ {0, ePNStarted} : \A j \in Jobs : time1[j] # s

(***************************************************************************)
(* EPNDaemon.Stop of the daemons D.  The grace period is never granted:    *)
(* ProcessState is nil until the process was reaped.  The socket is        *)
(* removed and the process interrupted, or it is gone already.             *)
(***************************************************************************)
Stop(D) ==
    /\ proc' = [d \in Daemons |-> IF d \in D /\ Alive_(d) THEN "stopping" ELSE proc[d]]
    /\ ePNServerStopQueue' = ePNServerStopQueue \ D

Current == {ePNServer} \ {None}

-----------------------------------------------------------------------------
(***************************************************************************)
(* The main loop.                                                          *)
(***************************************************************************)

\* Mutant: the old daemon is not stopped.
CheckRestartWithoutStop ==
    /\ main = "serve" /\ enabled /\ ePNStarted = 0
    /\ ePNStarted' = NewStamp /\ aged' = FALSE
    /\ ePNServer' = None
    /\ main' = "start"
    /\ UNCHANGED <<enabled, perlWorkers, aIsRunning, reloads, daemonVars, conVars, canceled>>

\* checkRestartEPNServer, at every tick, up to the call of startEmbeddedPerl
CheckRestart ==
    /\ main = "serve" /\ enabled /\ ePNStarted = 0
    /\ ePNStarted' = NewStamp /\ aged' = FALSE
    /\ Stop(Current)
    /\ ePNServer' = None
    /\ main' = "start"
    /\ UNCHANGED <<enabled, perlWorkers, aIsRunning, reloads, trouble, conVars, canceled>>

\* startEmbeddedPerl: a process is started and becomes the server
StartDaemon(d) ==
    /\ main = "start" /\ enabled
    /\ proc[d] = "none" /\ \A j \in Jobs : server[j] # d
    /\ ePNStarted' = NewStamp /\ aged' = FALSE
    /\ proc' = [proc EXCEPT ![d] = "started"]
    /\ ePNServerStopQueue' = ePNServerStopQueue \cup {d}
    /\ ePNServer' = d
    /\ main' = "wait"
    /\ UNCHANGED <<enabled, perlWorkers, aIsRunning, reloads, trouble, conVars, canceled>>

\* ... or there is nothing to start
StartNothing ==
    /\ main = "start" /\ ~enabled
    /\ main' = "serve" /\ aIsRunning' = TRUE
    /\ UNCHANGED <<enabled, perlWorkers, reloads, serverVars, daemonVars, conVars, canceled>>

\* the socket is there: the main loop goes on, after newMainWorker if it is a new one
SocketFound ==
    /\ main = "wait" /\ proc[ePNServer] = "up"
    /\ main' = "serve" /\ aIsRunning' = TRUE
    /\ UNCHANGED <<enabled, perlWorkers, reloads, serverVars, daemonVars, conVars, canceled>>

\* cleanExit: stopAllEmbeddedPerl, then the program exits
CleanExit ==
    /\ main' = "exited"
    /\ Stop(ePNServerStopQueue)

\* the socket does not appear in time
SocketTimeout ==
    /\ main = "wait" /\ proc[ePNServer] # "up"
    /\ CleanExit
    /\ UNCHANGED <<enabled, perlWorkers, aIsRunning, reloads, serverVars, trouble, conVars, canceled>>

\* applyConfigChanges: the daemon is turned on or off, or restarted for its options.
\* Workers that exist keep the configuration they were made with.
ReloadDaemon ==
    /\ main = "serve" /\ reloads < MaxReloads
    /\ reloads' = reloads + 1
    /\ enabled' \in BOOLEAN
    /\ enabled' \/ enabled
    /\ perlWorkers' = (perlWorkers \/ enabled')
    /\ Stop(Current)
    /\ ePNServer' = None
    /\ main' = "start"
    /\ UNCHANGED <<aIsRunning, ePNStarted, aged, trouble, conVars, canceled>>

\* a signal that ends this run of mainLoop: the tickers stop, mainWorker shuts down
ShutdownBegin ==
    /\ main = "serve" /\ reloads < MaxReloads
    /\ reloads' = reloads + 1
    /\ aIsRunning' = FALSE
    /\ main' = "down"
    /\ UNCHANGED <<enabled, perlWorkers, serverVars, daemonVars, conVars, canceled>>

\* mainLoop returns, its deferred stopAllEmbeddedPerl runs; a reload starts the next one
RunEnds ==
    /\ main = "down"
    /\ Stop(ePNServerStopQueue)
    /\ \/ main' = "exited" /\ UNCHANGED ePNServer
       \/ main' = "start" /\ ePNServer' = None
    /\ perlWorkers' = enabled
    /\ UNCHANGED <<enabled, aIsRunning, reloads, ePNStarted, aged, trouble, conVars, canceled>>

\* more than ePNStartTimeout has passed
Age ==
    /\ ePNStarted # 0 /\ ~aged /\ Alive
    /\ aged' = TRUE
    /\ UNCHANGED <<mainVars, ePNServer, ePNStarted, daemonVars, conVars, canceled>>

-----------------------------------------------------------------------------
(***************************************************************************)
(* The daemon, a process of its own, and the goroutine that waits for it.  *)
(***************************************************************************)

\* jobs connected to d that wait for an answer
Waiting(d) == {j \in Jobs : server[j] = d /\ reply[j] = Nothing}

Listen(d) ==
    /\ proc[d] = "started"
    /\ proc' = [proc EXCEPT ![d] = "up"]
    /\ UNCHANGED <<mainVars, serverVars, ePNServerStopQueue, trouble, conVars, canceled>>

\* Mutant: a daemon does not look for its parent.
ParentGoneIgnored(d) ==
    /\ main = "exited" /\ proc[d] = "up"
    /\ UNCHANGED epnVars

\* _timeout_handler: the worker has gone away
ParentGone(d) ==
    /\ main = "exited" /\ proc[d] = "up"
    /\ proc' = [proc EXCEPT ![d] = "stopping"]
    /\ UNCHANGED <<mainVars, serverVars, ePNServerStopQueue, trouble, conVars, canceled>>

\* what the jobs J, whose plugins or daemon are stopped, get to read
Cut(J) ==
    \E answer \in [J -> {Interrupted} \cup Lost] :
       /\ \A j \in J : answer[j] \in IF j \in forked THEN {Interrupted, Torn, Eof} ELSE {Reset, Eof}
       /\ reply' = [j \in Jobs |-> IF j \in J THEN answer[j] ELSE reply[j]]

\* _clean_exit: the children are interrupted, which a plugin may answer, and
\* killed at once; who has not answered by then never will
DaemonExits(d) ==
    /\ proc[d] = "stopping"
    /\ proc' = [proc EXCEPT ![d] = "dead"]
    /\ Cut(Waiting(d))
    /\ forked' = forked \ Waiting(d)
    /\ UNCHANGED <<mainVars, serverVars, ePNServerStopQueue, trouble, epc, retries, time1,
                   server, cancelSet, canceled>>

\* a daemon that dies leaves its children behind, which answer all the same
DaemonCrash(d) ==
    /\ Alive_(d) /\ trouble < MaxTrouble
    /\ trouble' = trouble + 1
    /\ proc' = [proc EXCEPT ![d] = "dead"]
    /\ Cut(Waiting(d) \ forked)
    /\ UNCHANGED <<mainVars, serverVars, ePNServerStopQueue, epc, retries, time1, server,
                   forked, cancelSet, canceled>>

\* passthroughLogs finds a restart pattern in what the daemon prints
LogPattern(d) ==
    /\ proc[d] = "up" /\ Alive /\ trouble < MaxTrouble
    /\ trouble' = trouble + 1
    /\ ePNStarted' = 0
    /\ UNCHANGED <<mainVars, ePNServer, aged, proc, ePNServerStopQueue, conVars, canceled>>

\* cmd.Wait returns, daemon.Stop(0) follows
Reap(d) ==
    /\ proc[d] = "dead" /\ Alive
    /\ proc' = [proc EXCEPT ![d] = "none"]
    /\ ePNServerStopQueue' = ePNServerStopQueue \ {d}
    /\ UNCHANGED <<mainVars, serverVars, trouble, conVars, canceled>>

\* the daemon takes a request: it forks, or answers a plugin that does not compile.  It
\* compiles without a timeout of its own.
Accept(j) ==
    /\ At(j, "reading") /\ j \notin forked /\ reply[j] = Nothing
    /\ proc[server[j]] = "up"
    /\ \/ forked' = forked \cup {j} /\ UNCHANGED reply
       \/ reply' = [reply EXCEPT ![j] = 3] /\ UNCHANGED forked
    /\ UNCHANGED <<mainVars, serverVars, daemonVars, epc, retries, time1, server, cancelSet,
                   canceled>>

\* the plugin ends in its child, by itself
PluginEnds(j, c) ==
    /\ j \in forked /\ Alive
    /\ forked' = forked \ {j}
    /\ reply' = [reply EXCEPT ![j] = c]
    /\ UNCHANGED <<mainVars, serverVars, daemonVars, epc, retries, time1, server, cancelSet,
                   canceled>>

\* its alarm or the daemon's _check_chld_timeouts interrupts it, or it is killed
PluginStopped(j) ==
    /\ j \in forked /\ Alive
    /\ forked' = forked \ {j}
    /\ Cut({j})
    /\ UNCHANGED <<mainVars, serverVars, daemonVars, epc, retries, time1, server, cancelSet,
                   canceled>>

-----------------------------------------------------------------------------
(***************************************************************************)
(* executeWithEmbeddedPerl of job j: ePNConnect, then one request.         *)
(***************************************************************************)
\* parseCommand found a perl check, by the configuration of the job's worker
EpnEnter(j) ==
    /\ At(j, "out") /\ perlWorkers /\ aIsRunning
    /\ EpnGoto(j, "check")
    /\ UNCHANGED <<retries, time1, serverVars>> /\ EpnUnchanged

\* isRunning, then the test of ePNServer: a nil server is a retry after a second
CheckServer(j) ==
    /\ At(j, "check") /\ aIsRunning
    /\ IF ePNServer # None
       THEN EpnGoto(j, "dial") /\ UNCHANGED retries
       ELSE /\ retries' = [retries EXCEPT ![j] = @ + 1]
            /\ IF retries[j] >= MaxRetries THEN EpnGoto(j, "failed") ELSE UNCHANGED epc
    /\ UNCHANGED <<time1, serverVars>> /\ EpnUnchanged

NotRunning(j) ==
    /\ At(j, "check") /\ ~aIsRunning
    /\ EpnGoto(j, "failed")
    /\ UNCHANGED <<retries, time1, serverVars>> /\ EpnUnchanged

\* net.Dial reaches a daemon that listens; received.Cancel is set
Dial(j) ==
    /\ At(j, "dial") /\ ePNServer # None /\ proc[ePNServer] = "up"
    /\ EpnGoto(j, "connected")
    /\ server' = [server EXCEPT ![j] = ePNServer]
    /\ time1' = [time1 EXCEPT ![j] = 0]
    /\ cancelSet' = cancelSet \cup {j}
    /\ UNCHANGED <<mainVars, serverVars, daemonVars, retries, forked, reply, canceled>>

DialFails(j) ==
    /\ At(j, "dial") /\ ePNServer # None /\ proc[ePNServer] # "up"
    /\ retries' = [retries EXCEPT ![j] = @ + 1]
    /\ IF retries[j] >= MaxRetries
       THEN EpnGoto(j, "failed") /\ UNCHANGED time1
       ELSE EpnGoto(j, "sleep") /\ time1' = [time1 EXCEPT ![j] = ePNStarted]
    /\ UNCHANGED serverVars /\ EpnUnchanged

\* the main loop has set ePNServer to nil since the test: a nil dereference
DialCrash(j) ==
    /\ At(j, "dial") /\ ePNServer = None
    /\ CleanExit
    /\ UNCHANGED <<enabled, perlWorkers, aIsRunning, reloads, serverVars, trouble, conVars, canceled>>

\* Mutant: the age of ePNStarted is compared the wrong way round.
CompareBefore(j) ==
    /\ At(j, "sleep")
    /\ EpnGoto(j, IF /\ retries[j] % RestartEvery = 0
                     /\ time1[j] = ePNStarted /\ ePNStarted # 0 /\ ~aged
                  THEN "ask" ELSE "check")
    /\ time1' = [time1 EXCEPT ![j] = 0]
    /\ UNCHANGED <<retries, serverVars>> /\ EpnUnchanged

\* a second later: is it time to ask for a restart?
Compare(j) ==
    /\ At(j, "sleep")
    /\ EpnGoto(j, IF /\ retries[j] % RestartEvery = 0
                     /\ time1[j] = ePNStarted /\ ePNStarted # 0 /\ aged
                  THEN "ask" ELSE "check")
    /\ time1' = [time1 EXCEPT ![j] = 0]
    /\ UNCHANGED <<retries, serverVars>> /\ EpnUnchanged

\* ePNStarted may belong to a new daemon by now
AskForRestart(j) ==
    /\ At(j, "ask")
    /\ EpnGoto(j, "check")
    /\ ePNStarted' = 0
    /\ UNCHANGED <<retries, time1, ePNServer, aged>> /\ EpnUnchanged

\* con.Write sends the request
WriteRequest(j) ==
    /\ At(j, "connected") /\ reply[j] \notin Lost
    /\ EpnGoto(j, "reading")
    /\ UNCHANGED <<retries, time1, serverVars>> /\ EpnUnchanged

\* the connection is closed: the daemon's side of it is of no interest any more
Close(j, l) ==
    /\ EpnGoto(j, l)
    /\ server' = [server EXCEPT ![j] = None]
    /\ reply' = IF l = "answered" THEN reply ELSE [reply EXCEPT ![j] = Nothing]
    /\ forked' = forked \ {j}

\* ... or fails: executeWithEmbeddedPerl returns and leaves received.Cancel set
WriteFails(j) ==
    /\ At(j, "connected") /\ reply[j] \in Lost
    /\ Close(j, "failed")
    /\ UNCHANGED <<mainVars, serverVars, daemonVars, retries, time1, cancelSet, canceled>>

\* received.Cancel: the connection is closed, a read of it fails
EpnCancel(j) ==
    /\ j \in cancelSet /\ Alive
    /\ canceled' = canceled \cup {j}
    /\ IF epc[j] \in {"connected", "reading"}
       THEN Close(j, "failed")
       ELSE UNCHANGED <<epc, server, reply, forked>>
    /\ UNCHANGED <<mainVars, serverVars, daemonVars, retries, time1, cancelSet>>

\* ePNReadResponse fails: the time is not looked at, received.Cancel is still set
ReadError(j) ==
    /\ At(j, "reading") /\ reply[j] = Reset
    /\ Close(j, "failed")
    /\ UNCHANGED <<mainVars, serverVars, daemonVars, retries, time1, cancelSet, canceled>>

\* the answer is read
ReadReply(j) ==
    /\ At(j, "reading") /\ reply[j] \in Answers
    /\ Close(j, "answered")
    /\ cancelSet' = cancelSet \ {j}
    /\ UNCHANGED <<mainVars, serverVars, daemonVars, retries, time1, canceled>>

\* ... with a restart pattern in it: the job counts as canceled
ReadPattern(j) ==
    /\ At(j, "reading") /\ reply[j] \in Answers /\ trouble < MaxTrouble
    /\ trouble' = trouble + 1
    /\ Close(j, "empty")
    /\ ePNStarted' = 0
    /\ canceled' = canceled \cup {j} /\ cancelSet' = cancelSet \ {j}
    /\ UNCHANGED <<mainVars, ePNServer, aged, proc, ePNServerStopQueue, retries, time1>>

\* zero sized result
ReadNothing(j) ==
    /\ At(j, "reading") /\ reply[j] = Eof
    /\ Close(j, "empty")
    /\ cancelSet' = cancelSet \ {j}
    /\ UNCHANGED <<mainVars, serverVars, daemonVars, retries, time1, canceled>>

\* json unpacking failed
ReadTorn(j) ==
    /\ At(j, "reading") /\ reply[j] = Torn
    /\ Close(j, "empty")
    /\ cancelSet' = cancelSet \ {j}
    /\ UNCHANGED <<mainVars, serverVars, daemonVars, retries, time1, canceled>>

-----------------------------------------------------------------------------
MainLoop ==
    \/ CheckRestart \/ StartNothing \/ SocketFound \/ SocketTimeout \/ RunEnds
    \/ \E d \in Daemons : StartDaemon(d)

Signal == ReloadDaemon \/ ShutdownBegin

Daemon(d) == Listen(d) \/ ParentGone(d) \/ DaemonExits(d) \/ Reap(d)

Trouble(d) == DaemonCrash(d) \/ LogPattern(d)

Plugin(j) == Accept(j) \/ PluginStopped(j) \/ \E c \in Codes : PluginEnds(j, c)

\* the steps of job j inside executeWithEmbeddedPerl
Connect(j) ==
    \/ CheckServer(j) \/ NotRunning(j) \/ Dial(j) \/ DialFails(j) \/ DialCrash(j)
    \/ Compare(j) \/ AskForRestart(j) \/ WriteRequest(j) \/ WriteFails(j)

Read(j) == ReadError(j) \/ ReadReply(j) \/ ReadNothing(j) \/ ReadTorn(j)
=============================================================================
