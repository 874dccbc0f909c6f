------------------------- MODULE CheckGearman_proofs -------------------------
(***************************************************************************)
(* The verdict of check_gearman fits the status of gearmand, for any       *)
(* arguments and statuses, and wherever the answer is cut.                 *)
(***************************************************************************)
EXTENDS CheckGearman, SequenceTheorems, TLAPS

Thresholds(args) ==
    {args.jobWarning, args.jobCritical, args.workerWarning, args.workerCritical} \subseteq Int

LEMMA Severities ==
    \A args, row : Severity(args, row) \in {stateOk, stateWarning, stateCritical}
  BY DEF Severity

-----------------------------------------------------------------------------
\* A row that lacks its last digit is not in a graver state than the whole row: the missing
\* digit makes workers fewer, but not none.
LEMMA CutRowMilder ==
    ASSUME NEW args, Thresholds(args), NEW row \in Row, NEW rest \in CutRow(row),
           NEW part \in rest
    PROVE  part.name = row.name /\ Severity(args, row) >= Severity(args, part)
<1>1. CASE part = row
  <2>1. Severity(args, row) \in Int
    BY Severities DEF stateOk, stateWarning, stateCritical
  <2> QED BY <1>1, <2>1
<1>2. CASE part # row
  <2>1. row.workers >= 10 /\ part = [row EXCEPT !.workers = row.workers \div 10]
    BY <1>2 DEF CutRow
  <2>2. /\ part.name = row.name /\ part.total = row.total /\ part.running = row.running
        /\ part.workers = row.workers \div 10
    BY <2>1 DEF Row
  <2>3. row.workers \in 0..99 /\ row.total \in Nat /\ row.running \in Nat
    BY DEF Row
  <2> DEFINE many == row.workers
             few == row.workers \div 10
  <2>4. many \in Int /\ few \in Int /\ 0 < few /\ few <= many
    BY <2>1, <2>3
  <2> HIDE DEF many, few
  <2>5. /\ args.jobWarning \in Int /\ args.jobCritical \in Int
        /\ args.workerWarning \in Int /\ args.workerCritical \in Int
    BY DEF Thresholds
  <2>6. part.workers = few /\ row.workers = many /\ Waiting(part) = Waiting(row)
    BY <2>2 DEF many, few, Waiting
  <2>7. IsCritical(args, part) => IsCritical(args, row)
    BY <2>4, <2>5, <2>6 DEF IsCritical
  <2>8. IsWarning(args, part) => IsWarning(args, row)
    BY <2>4, <2>5, <2>6 DEF IsWarning
  <2> QED BY <2>2, <2>7, <2>8 DEF Severity, stateOk, stateWarning, stateCritical
<1> QED BY <1>1, <1>2

\* What the verdict says of the rows it is computed from.
LEMMA VerdictOfRows ==
    ASSUME NEW args, NEW rows, NEW code \in ProcessServerData(args, rows)
    PROVE  /\ code \in {stateOk, stateWarning, stateCritical}
           /\ code # stateOk =>
                \/ \E row \in rows : Asked(args, row) /\ Severity(args, row) = code
                \/ args.queue = AnyQueue /\ rows = {} /\ code = stateWarning
           /\ code = stateOk =>
                \A row \in rows : Asked(args, row) => Severity(args, row) = stateOk
<1> DEFINE checked == {row \in rows : Asked(args, row)}
           bad == {row \in checked : Severity(args, row) # stateOk}
<1>1. CASE args.queue = AnyQueue /\ checked = {}
  <2>1. code = stateWarning
    BY <1>1 DEF ProcessServerData
  <2>2. rows = {}
    BY <1>1 DEF Asked
  <2> QED BY <1>1, <2>1, <2>2 DEF stateOk, stateWarning
<1>2. CASE ~(args.queue = AnyQueue /\ checked = {}) /\ bad = {}
  <2>1. code = stateOk
    BY <1>2 DEF ProcessServerData
  <2> QED BY <1>2, <2>1
<1>3. CASE ~(args.queue = AnyQueue /\ checked = {}) /\ bad # {}
  <2>1. PICK row \in bad : code = Severity(args, row)
    BY <1>3 DEF ProcessServerData
  <2>2. code # stateOk
    BY <2>1
  <2> QED BY <2>1, <2>2, Severities
<1> QED BY <1>1, <1>2, <1>3

-----------------------------------------------------------------------------
(***************************************************************************)
(* The inductive invariant.                                                *)
(***************************************************************************)
CheckTypes ==
    /\ Thresholds(cgArgs) /\ status \in Seq(Row)
    /\ lines \in 0..Len(status)
    /\ checker = "wait" => cgArgs.send # "no"

CheckInv == CheckTypes /\ VerdictFitsStatus

\* Rows that gearmand's status makes as grave or graver, among them those read in whole, lead
\* to a verdict that fits.
LEMMA Fits ==
    ASSUME NEW rows, NEW code \in ProcessServerData(cgArgs, Queues(rows)),
           Thresholds(cgArgs), WholeRows' \subseteq rows,
           \A row \in rows :
             \E i \in DOMAIN status :
               /\ status[i].name = row.name
               /\ Severity(cgArgs, status[i]) >= Severity(cgArgs, row),
           statusChan' = code, UNCHANGED <<cgArgs, status>>
    PROVE  VerdictFitsStatus'
<1>1. \A row : row \in Queues(rows) => row \in rows
  BY DEF Queues
<1>2. \A row : row \in Queues(WholeRows)' => row \in Queues(rows)
  BY DEF Queues
<1>4. ASSUME statusChan' # stateOk
      PROVE  \/ \E i \in DOMAIN status :
                  Asked(cgArgs, status[i]) /\ Severity(cgArgs, status[i]) >= statusChan'
             \/ /\ cgArgs.queue = AnyQueue /\ Queues(WholeRows)' = {}
                /\ statusChan' = stateWarning
  <2>1. CASE \E row \in Queues(rows) : Asked(cgArgs, row) /\ Severity(cgArgs, row) = code
    <3>1. PICK row \in Queues(rows) : Asked(cgArgs, row) /\ Severity(cgArgs, row) = code
      BY <2>1
    <3>2. PICK i \in DOMAIN status : /\ status[i].name = row.name
                                     /\ Severity(cgArgs, status[i]) >= Severity(cgArgs, row)
      BY <1>1
    <3>3. Asked(cgArgs, status[i])
      BY <3>1, <3>2 DEF Asked
    <3> QED BY <3>1, <3>2, <3>3
  <2>2. CASE cgArgs.queue = AnyQueue /\ Queues(rows) = {} /\ code = stateWarning
    BY <1>2, <2>2
  <2> QED BY <1>4, <2>1, <2>2, VerdictOfRows
<1>5. ASSUME statusChan' = stateOk
      PROVE  \A row \in Queues(WholeRows)' :
               Asked(cgArgs, row) => Severity(cgArgs, row) = stateOk
  BY <1>2, <1>5, VerdictOfRows
<1> QED BY <1>4, <1>5 DEF VerdictFitsStatus, Queues, WholeRows

\* A row of the status is as grave as itself.
LEMMA OwnRow ==
    ASSUME NEW args, NEW row
    PROVE  Severity(args, row) >= Severity(args, row)
  BY Severities DEF stateOk, stateWarning, stateCritical

LEMMA ReadLastPieceFits == CheckInv /\ ReadLastPiece => CheckInv'
<1> SUFFICES ASSUME CheckInv, ReadLastPiece PROVE CheckInv'
  OBVIOUS
<1>1. PICK n \in lines..Len(status) :
        /\ lines' = n
        /\ statusChan' \in ProcessServerData(cgArgs, Queues({status[i] : i \in 1..n}))
  BY DEF ReadLastPiece
<1>2. UNCHANGED <<cgArgs, status>>
  BY DEF ReadLastPiece
<1>3. /\ Thresholds(cgArgs) /\ status \in Seq(Row) /\ Len(status) \in Nat
      /\ n \in 0..Len(status) /\ DOMAIN status = 1..Len(status)
  BY LenProperties DEF CheckInv, CheckTypes
<1> DEFINE rows == {status[i] : i \in 1..n}
<1>4. WholeRows' \subseteq rows
  BY <1>1, <1>2 DEF WholeRows
<1>5. ASSUME NEW row \in rows
      PROVE  \E i \in DOMAIN status :
               /\ status[i].name = row.name
               /\ Severity(cgArgs, status[i]) >= Severity(cgArgs, row)
  BY <1>3, OwnRow
<1>6. VerdictFitsStatus'
  <2> HIDE DEF rows
  <2>1. statusChan' \in ProcessServerData(cgArgs, Queues(rows))
    BY <1>1 DEF rows
  <2> QED BY <2>1, <1>2, <1>3, <1>4, <1>5, Fits
<1>7. CheckTypes'
  <2>1. checker' = "judged"
    BY DEF ReadLastPiece
  <2> QED BY <1>1, <1>2, <1>3, <2>1 DEF CheckTypes
<1> QED BY <1>6, <1>7 DEF CheckInv

LEMMA ReadEndFits == CheckInv /\ cgArgs.send = "no" /\ ReadEnd => CheckInv'
<1> SUFFICES ASSUME CheckInv, cgArgs.send = "no", ReadEnd PROVE CheckInv'
  OBVIOUS
<1>1. PICK rest \in Rest :
        statusChan' \in ProcessServerData(cgArgs, Queues(WholeRows \cup rest))
  BY DEF ReadEnd, Verdict
<1>2. UNCHANGED <<cgArgs, status, lines>>
  BY DEF ReadEnd, Verdict
<1>3. /\ Thresholds(cgArgs) /\ status \in Seq(Row) /\ Len(status) \in Nat
      /\ lines \in 0..Len(status) /\ DOMAIN status = 1..Len(status)
      /\ \A i \in 1..Len(status) : status[i] \in Row
  BY LenProperties DEF CheckInv, CheckTypes
<1> DEFINE rows == WholeRows \cup rest
<1>4. WholeRows' \subseteq rows
  BY <1>2 DEF WholeRows
<1>5. ASSUME NEW row \in rows
      PROVE  \E i \in DOMAIN status :
               /\ status[i].name = row.name
               /\ Severity(cgArgs, status[i]) >= Severity(cgArgs, row)
  <2>1. CASE row \in WholeRows
    BY <1>3, <2>1, OwnRow DEF WholeRows
  <2>2. CASE row \in rest
    <3>1. lines < Len(status) /\ rest \in CutRow(status[lines + 1])
      BY <2>2 DEF Rest
    <3>2. lines + 1 \in 1..Len(status)
      BY <1>3, <3>1
    <3> QED BY <1>3, <2>2, <3>1, <3>2, CutRowMilder
  <2> QED BY <2>1, <2>2
<1>6. VerdictFitsStatus'
  <2> HIDE DEF rows
  <2>1. statusChan' \in ProcessServerData(cgArgs, Queues(rows))
    BY <1>1 DEF rows
  <2> QED BY <2>1, <1>2, <1>3, <1>4, <1>5, Fits
<1>7. CheckTypes'
  <2>1. checker' = "judged"
    BY DEF ReadEnd, Verdict
  <2> QED BY <1>2, <1>3, <2>1 DEF CheckTypes
<1> QED BY <1>6, <1>7 DEF CheckInv

LEMMA CheckStep == CheckInv /\ [CheckGearmanNext]_checkGearmanVars => CheckInv'
<1> SUFFICES ASSUME CheckInv, [CheckGearmanNext]_checkGearmanVars PROVE CheckInv'
  OBVIOUS
<1>1. CASE ReadLastPiece
  BY <1>1, ReadLastPieceFits
<1>2. CASE ReadEnd
  <2>1. CASE cgArgs.send = "no"
    BY <1>2, <2>1, ReadEndFits
  <2>2. CASE cgArgs.send # "no"
    <3>1. checker' = "judged" /\ UNCHANGED <<cgArgs, status, lines>>
      BY <1>2 DEF ReadEnd, Verdict
    <3> QED BY <2>2, <3>1 DEF CheckInv, CheckTypes, VerdictFitsStatus
  <2> QED BY <2>1, <2>2
<1>3. CASE ReadPiece
  <2>1. PICK n \in lines..Len(status) : lines' = n
    BY <1>3 DEF ReadPiece
  <2>2. checker = "read" /\ UNCHANGED <<cgArgs, status, checker, statusChan>>
    BY <1>3 DEF ReadPiece
  <2>3. lines' \in 0..Len(status)
    BY <2>1, LenProperties DEF CheckInv, CheckTypes
  <2> QED BY <2>2, <2>3 DEF CheckInv, CheckTypes, VerdictFitsStatus
<1>4. CASE Query \/ SendWorkerJob \/ QueryFails \/ JobFails
  <2>1. /\ checker' # "judged" /\ (checker' = "wait" => cgArgs.send # "no")
        /\ UNCHANGED <<cgArgs, status, lines>>
    BY <1>4 DEF Query, SendWorkerJob, QueryFails, JobFails, Failed
  <2> QED BY <2>1 DEF CheckInv, CheckTypes, VerdictFitsStatus
<1>5. CASE SendWorkerJobBg
  <2>1. cgArgs.send # "no" /\ UNCHANGED <<cgArgs, status, lines>>
    BY <1>5 DEF SendWorkerJobBg, Verdict
  <2> QED BY <2>1 DEF CheckInv, CheckTypes, VerdictFitsStatus
<1>6. CASE WorkerAnswers
  <2>1. checker = "wait" /\ UNCHANGED <<cgArgs, status, lines>>
    BY <1>6 DEF WorkerAnswers, Verdict
  <2> QED BY <2>1 DEF CheckInv, CheckTypes, VerdictFitsStatus
<1>7. CASE Refuse \/ TakeVerdict \/ TimedOut \/ UNCHANGED checkGearmanVars
  <2>1. UNCHANGED <<cgArgs, status, lines, cut, checker, statusChan>>
    BY <1>7 DEF Refuse, TakeVerdict, TimedOut, Exit, checkGearmanVars
  <2> QED BY <2>1 DEF CheckInv, CheckTypes, VerdictFitsStatus, WholeRows
<1> QED BY <1>1, <1>2, <1>3, <1>4, <1>5, <1>6, <1>7 DEF CheckGearmanNext

LEMMA CheckStart == CheckGearmanInit => CheckInv
<1> SUFFICES ASSUME NEW args \in ArgSets, NEW rows \in Statuses, CheckGearmanStart(args, rows)
             PROVE  CheckInv
  BY DEF CheckGearmanInit
<1>1. Thresholds(cgArgs) /\ status \in Seq(Row)
  BY CheckGearmanAssumption DEF CheckGearmanStart, Thresholds
<1>2. lines \in 0..Len(status) /\ checker = "start"
  BY <1>1, LenProperties DEF CheckGearmanStart
<1> QED BY <1>1, <1>2 DEF CheckInv, CheckTypes, VerdictFitsStatus

\* However gearmand's answer is cut into pieces, the verdict fits its status: no alarm is
\* graver than the state of a queue that was asked for, and OK means that no queue received in
\* whole is in trouble (statusAdmin.go:77-139, check_gearman.go:269-327).
THEOREM VerdictSound == CheckGearmanSpec => []VerdictFitsStatus
<1>1. CheckInv => VerdictFitsStatus
  BY DEF CheckInv
<1> QED BY CheckStart, CheckStep, <1>1, PTL DEF CheckGearmanSpec
=============================================================================
