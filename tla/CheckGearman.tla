---------------------------- MODULE CheckGearman ----------------------------
(***************************************************************************)
(* check_gearman, a plugin: it checks the queues of a gearmand against     *)
(* thresholds, or sends a job to a worker and judges the answer.  A        *)
(* goroutine does so while the main goroutine waits for its verdict or for *)
(* the timeout (check_gearman.go, statusAdmin.go, client.go).              *)
(*                                                                         *)
(* gearmand answers with a row per queue, which may arrive in pieces, cut  *)
(* anywhere; no queue here has more than 99 workers.  Names of queues are  *)
(* numbers in the order of the names.                                      *)
(***************************************************************************)
EXTENDS Integers, Sequences

CONSTANTS
    ArgSets,        \* command lines: records of the fields of checkGmArgs below
    Statuses,       \* answers to "status": sequences of rows
    Responses       \* answers of a worker: see Response

AnyQueue == 0       \* no queue in the arguments
Dummy == 1          \* the queue "dummy"
NoCode == -1        \* the second byte of a response is no colon

Row == [name : Nat \ {AnyQueue}, total : Nat, running : Nat, workers : 0..99]

\* code is the first byte if the second is a colon; expected: it contains the text to expect
Response == [empty : BOOLEAN, code : {NoCode} \cup 0..255, expected : BOOLEAN]

ASSUME CheckGearmanAssumption ==
    /\ \A args \in ArgSets :
         /\ args.send \in {"no", "job", "background"}
         /\ {args.host, args.expect} \subseteq BOOLEAN
         /\ {args.queue, args.critZeroWorker} \subseteq Nat
         /\ {args.jobWarning, args.jobCritical, args.workerWarning, args.workerCritical}
              \subseteq Int
    /\ Statuses \subseteq Seq(Row)
    /\ Responses \subseteq Response

stateOk == 0
stateWarning == 1
stateCritical == 2

VARIABLES
    cgArgs,
    status,         \* what gearmand answers,
    lines,          \*   the number of its rows that have been read,
    cut,            \*   and whether a part of the next one has
    checker,        \* "start", "read", "wait" for the worker, "judged" or "failed"
    statusChan,     \* its verdict, -1 before
    cgExit          \* -1 while the program runs

checkGearmanVars == <<cgArgs, status, lines, cut, checker, statusChan, cgExit>>

CheckGearmanStart(args, rows) ==
    /\ cgArgs = args /\ status = rows
    /\ lines = 0 /\ cut = FALSE
    /\ checker = "start" /\ statusChan = -1
    /\ cgExit = -1

CheckGearmanInit == \E args \in ArgSets, rows \in Statuses : CheckGearmanStart(args, rows)

\* a text without a queue, or no host, ends the program before the goroutine starts
Usable(args) == args.host /\ (args.send # "no" => args.queue # AnyQueue)

Checking == cgExit = -1 /\ Usable(cgArgs) /\ statusChan = -1

Verdict(code) ==
    /\ statusChan' = code /\ checker' = "judged"
    /\ UNCHANGED <<cgArgs, status, lines, cut, cgExit>>

Failed ==
    /\ statusChan' = stateCritical /\ checker' = "failed"
    /\ UNCHANGED <<cgArgs, status, lines, cut, cgExit>>

-----------------------------------------------------------------------------
(***************************************************************************)
(* The check of a gearmand.                                                *)
(***************************************************************************)
Waiting(row) == row.total - row.running

IsCritical(args, row) ==
    \/ Waiting(row) > 0 /\ row.workers = 0
    \/ args.jobCritical > 0 /\ Waiting(row) >= args.jobCritical
    \/ args.workerCritical > 0 /\ row.workers >= args.workerCritical
    \/ args.critZeroWorker = 1 /\ row.workers = 0

IsWarning(args, row) ==
    \/ args.jobWarning > 0 /\ Waiting(row) >= args.jobWarning
    \/ args.workerWarning > 0 /\ row.workers >= args.workerWarning

Severity(args, row) ==
    IF IsCritical(args, row) THEN stateCritical
    ELSE IF IsWarning(args, row) THEN stateWarning ELSE stateOk

Asked(args, row) == args.queue \in {AnyQueue, row.name}

\* of the queues that are not OK the last one in the order of names decides, any of several
\* with one name (the sort is not stable); "not found" is for an empty name
ProcessServerData(args, rows) ==
    LET checked == {row \in rows : Asked(args, row)}
        bad == {row \in checked : Severity(args, row) # stateOk}
    IN  IF args.queue = AnyQueue /\ checked = {} THEN {stateWarning}
        ELSE IF bad = {} THEN {stateOk}
        ELSE {Severity(args, row) :
                row \in {last \in bad : \A other \in bad : other.name <= last.name}}

\* Mutant: a row without its last column is taken.
ColumnMissing(row) ==
    {{}, {row}, {[row EXCEPT !.workers = 0]}}
      \cup (IF row.workers >= 10 THEN {{[row EXCEPT !.workers = @ \div 10]}} ELSE {})

\* what becomes of a row whose end is missing: fewer than four columns are skipped, and the
\* number of workers may lack its last digit
CutRow(row) ==
    {{}, {row}}
      \cup (IF row.workers >= 10 THEN {{[row EXCEPT !.workers = @ \div 10]}} ELSE {})

Queues(rows) == {row \in rows : ~(row.name = Dummy /\ row.total = 0)}

WholeRows == {status[i] : i \in 1..lines}

Query ==
    /\ Checking /\ cgArgs.send = "no" /\ checker = "start"
    /\ checker' = "read"
    /\ UNCHANGED <<cgArgs, status, lines, cut, statusChan, cgExit>>

\* a piece that does not end with a line: reading goes on
ReadPiece ==
    /\ Checking /\ checker = "read"
    /\ \E n \in lines..Len(status) :
         /\ n > lines \/ ~cut
         /\ lines' = n /\ cut' = TRUE
    /\ UNCHANGED <<cgArgs, status, checker, statusChan, cgExit>>

\* one that does is taken for the end of the answer
ReadLastPiece ==
    /\ Checking /\ checker = "read"
    /\ \E n \in lines..Len(status) :
         /\ n > lines \/ n = Len(status)
         /\ lines' = n /\ cut' = FALSE
         /\ statusChan' \in ProcessServerData(cgArgs, Queues({status[i] : i \in 1..n}))
    /\ checker' = "judged"
    /\ UNCHANGED <<cgArgs, status, cgExit>>

Rest == IF cut /\ lines < Len(status) THEN CutRow(status[lines + 1]) ELSE {{}}

\* gearmand closes the connection: what has come so far is the answer
ReadEnd ==
    /\ Checking /\ checker = "read"
    /\ \E rest \in Rest :
         \E code \in ProcessServerData(cgArgs, Queues(WholeRows \cup rest)) : Verdict(code)

\* it cannot be reached, written to or read from, or is silent for ten seconds
QueryFails == Checking /\ cgArgs.send = "no" /\ Failed

-----------------------------------------------------------------------------
(***************************************************************************)
(* The check of a worker.                                                  *)
(***************************************************************************)
SendWorkerJob ==
    /\ Checking /\ cgArgs.send = "job" /\ checker = "start"
    /\ checker' = "wait"
    /\ UNCHANGED <<cgArgs, status, lines, cut, statusChan, cgExit>>

SendWorkerJobBg ==
    /\ Checking /\ cgArgs.send = "background"
    /\ Verdict(stateOk)

\* no client, or the job is not created; not after that
JobFails ==
    /\ Checking /\ cgArgs.send \in {"job", "background"} /\ checker = "start"
    /\ Failed

\* the response of a job that failed is empty
Judge(args, response) ==
    IF args.expect /\ ~response.empty
    THEN IF response.expected THEN stateOk ELSE stateCritical
    ELSE IF ~response.empty /\ response.code # NoCode
    THEN (response.code - 48) % 256
    ELSE stateOk

WorkerAnswers ==
    /\ Checking /\ checker = "wait"
    /\ \E response \in Responses : Verdict(Judge(cgArgs, response))

-----------------------------------------------------------------------------
(***************************************************************************)
(* The main goroutine.                                                     *)
(***************************************************************************)
Exit(code) ==
    /\ cgExit = -1 /\ cgExit' = code
    /\ UNCHANGED <<cgArgs, status, lines, cut, checker, statusChan>>

Refuse == ~Usable(cgArgs) /\ Exit(stateOk)

TakeVerdict == statusChan # -1 /\ Exit(statusChan)

TimedOut == Usable(cgArgs) /\ Exit(stateCritical)

CheckGearmanNext ==
    \/ Query \/ ReadPiece \/ ReadLastPiece \/ ReadEnd \/ QueryFails
    \/ SendWorkerJob \/ SendWorkerJobBg \/ JobFails \/ WorkerAnswers
    \/ Refuse \/ TakeVerdict \/ TimedOut

CheckGearmanSpec == CheckGearmanInit /\ [][CheckGearmanNext]_checkGearmanVars

-----------------------------------------------------------------------------
\* However the answer is cut into pieces, gearmand's status bears the verdict out: no alarm
\* is graver than the state of a queue that was asked for, unless no queue was received at
\* all, and OK means that none of the queues received in whole is in trouble
\* (statusAdmin.go:77-139, check_gearman.go:269-327).
VerdictFitsStatus ==
    cgArgs.send = "no" /\ checker = "judged" =>
      /\ statusChan # stateOk =>
           \/ \E i \in DOMAIN status :
                Asked(cgArgs, status[i]) /\ Severity(cgArgs, status[i]) >= statusChan
           \/ cgArgs.queue = AnyQueue /\ Queues(WholeRows) = {} /\ statusChan = stateWarning
      /\ statusChan = stateOk =>
           \A row \in Queues(WholeRows) :
             Asked(cgArgs, row) => Severity(cgArgs, row) = stateOk
=============================================================================
