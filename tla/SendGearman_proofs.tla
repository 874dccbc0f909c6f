------------------------- MODULE SendGearman_proofs -------------------------
(***************************************************************************)
(* What send_gearman exits with and when it gives a result up, for any     *)
(* input, servers, retries, channel and outages.                           *)
(***************************************************************************)
EXTENDS SendGearman, SequenceTheorems, TLAPS

-----------------------------------------------------------------------------
(***************************************************************************)
(* Results flow in order: 1 .. cur have been received (and acknowledged,   *)
(* but for the current one), the channel has those that follow, and the    *)
(* reader may have one more in its hand.                                   *)
(***************************************************************************)
FlowTypes ==
    /\ reader \in {"scan", "put", "closed"} /\ results \in Nat
    /\ resultsChan \in Seq(Nat)
    /\ sender \in {"receive", "connect", "request", "gaveUp", "received all"} /\ cur \in Nat

InHand == IF reader = "put" THEN 1 ELSE 0

Channel ==
    /\ Len(resultsChan) = results - InHand - cur
    /\ \A i \in 1..Len(resultsChan) : resultsChan[i] = cur + i

Acknowledged ==
    /\ sender \in {"receive", "received all"} => accepted = 1..cur
    /\ sender \in {"connect", "request", "gaveUp"} => accepted = 1..(cur - 1) /\ cur > 0

Finished ==
    /\ sender = "received all" => reader = "closed" /\ resultsChan = <<>>
    /\ exitCode = 0 => sender = "received all"

FlowInv == FlowTypes /\ Channel /\ Acknowledged /\ Finished

-----------------------------------------------------------------------------
\* The reader takes a line, reads on, closes the channel or ends the program.
LEMMA ReaderFlow ==
    ASSUME FlowInv,
           EndOfInput \/ ReadLine \/ BadLine \/ ReadData \/ PutResult \/ ReadTimeout
    PROVE  FlowInv'
<1>1. CASE EndOfInput \/ BadLine \/ ReadTimeout
  <2>1. /\ reader \in {"scan", "put"} \/ UNCHANGED reader
        /\ reader' = reader \/ (reader = "scan" /\ reader' = "closed")
        /\ exitCode' \in {exitCode, 2}
        /\ UNCHANGED <<results, resultsChan, sender, cur, accepted>>
    BY <1>1 DEF EndOfInput, BadLine, ReadTimeout, sendVars, readVars
  <2>2. InHand' = InHand /\ (exitCode' = 0 => exitCode = 0)
    BY <2>1 DEF InHand
  <2> QED BY <2>1, <2>2 DEF FlowInv, FlowTypes, Channel, Acknowledged, Finished
<1>2. CASE ReadLine \/ ReadData
  <2>1. /\ reader = "scan"
        /\ \/ reader' = "put" /\ results' = results + 1
           \/ reader' = reader /\ results' = results
        /\ UNCHANGED <<resultsChan, sender, cur, accepted, exitCode>>
    BY <1>2 DEF ReadLine, ReadData, Hand, sendVars
  <2>2. results \in Nat /\ cur \in Nat /\ sender # "received all"
    BY <2>1 DEF FlowInv, FlowTypes, Finished
  <2>3. InHand = 0 /\ (reader' = "put" => InHand' = 1) /\ (reader' = reader => InHand' = 0)
    BY <2>1 DEF InHand
  <2>4. results' \in Nat /\ results' - InHand' = results - InHand
    <3>1. CASE reader' = "put" /\ results' = results + 1
      <4>1. InHand' = 1
        BY <2>3, <3>1
      <4>2. results' = results + 1 /\ results \in Nat /\ InHand = 0
        BY <2>2, <2>3, <3>1
      <4>3. results' \in Nat
        BY <4>2
      <4>4. results' - InHand' = (results + 1) - 1
        BY <4>1, <4>2
      <4> QED BY <4>2, <4>3, <4>4
    <3>2. CASE reader' = reader /\ results' = results
      BY <2>2, <2>3, <3>2
    <3> QED BY <2>1, <3>1, <3>2
  <2> QED BY <2>1, <2>2, <2>4 DEF FlowInv, FlowTypes, Channel, Acknowledged, Finished
<1>3. CASE PutResult
  <2>1. /\ reader = "put" /\ reader' \in {"scan", "closed"}
        /\ resultsChan' = Append(resultsChan, results)
        /\ UNCHANGED <<results, sender, cur, accepted, exitCode>>
    BY <1>3 DEF PutResult, sendVars
  <2>2. sender # "received all"
    BY <2>1 DEF FlowInv, Finished
  <2> DEFINE n == Len(resultsChan)
  <2>3. /\ results \in Nat /\ cur \in Nat /\ resultsChan \in Seq(Nat) /\ n \in Nat
        /\ n = results - InHand - cur /\ \A i \in 1..n : resultsChan[i] = cur + i
    BY LenProperties DEF FlowInv, FlowTypes, Channel
  <2>4. InHand = 1 /\ InHand' = 0
    BY <2>1 DEF InHand
  <2>5. /\ resultsChan' \in Seq(Nat) /\ Len(resultsChan') = n + 1
        /\ \A i \in 1..n : resultsChan'[i] = resultsChan[i]
        /\ resultsChan'[n + 1] = results
    BY <2>1, <2>3, AppendProperties
  <2>6. FlowTypes'
    BY <2>1, <2>5 DEF FlowInv, FlowTypes
  <2>7. results = cur + (n + 1) /\ Len(resultsChan') = results - InHand' - cur
    BY <2>3, <2>4, <2>5
  <2>8. \A i \in 1..(n + 1) : resultsChan'[i] = cur + i
    <3> SUFFICES ASSUME NEW i \in 1..(n + 1) PROVE resultsChan'[i] = cur + i
      OBVIOUS
    <3>1. CASE i \in 1..n
      BY <2>3, <2>5, <3>1
    <3>2. CASE i = n + 1
      BY <2>5, <2>7, <3>2
    <3> QED BY <2>3, <3>1, <3>2
  <2>9. Channel'
    BY <2>1, <2>5, <2>7, <2>8 DEF Channel
  <2>10. Acknowledged' /\ Finished'
    BY <2>1, <2>2 DEF FlowInv, Acknowledged, Finished
  <2> QED BY <2>6, <2>9, <2>10 DEF FlowInv
<1> QED BY <1>1, <1>2, <1>3

\* The main goroutine receives the next result, sends it or gives it up.
LEMMA SenderFlow ==
    ASSUME FlowInv, Sender
    PROVE  FlowInv'
<1>1. CASE Receive
  <2>1. /\ sender = "receive" /\ resultsChan # <<>>
        /\ cur' = Head(resultsChan) /\ resultsChan' = Tail(resultsChan)
        /\ sender' \in {"connect", "request"}
        /\ UNCHANGED <<reader, results, accepted, exitCode>>
    BY <1>1 DEF Receive, readVars
  <2> DEFINE n == Len(resultsChan)
  <2>2. /\ results \in Nat /\ cur \in Nat /\ resultsChan \in Seq(Nat)
        /\ n = results - InHand - cur /\ \A i \in 1..n : resultsChan[i] = cur + i
    BY DEF FlowInv, FlowTypes, Channel
  <2>3. /\ n \in Nat /\ n > 0 /\ InHand' = InHand /\ InHand \in 0..1
        /\ cur' = resultsChan[1]
        /\ resultsChan' \in Seq(Nat) /\ Len(resultsChan') = n - 1
        /\ \A i \in 1..(n - 1) : resultsChan'[i] = resultsChan[i + 1]
    BY <2>1, <2>2, LenProperties, EmptySeq, HeadTailProperties DEF InHand
  <2>4. cur' = cur + 1
    BY <2>2, <2>3
  <2>5. FlowTypes'
    <3>1. cur' \in Nat
      BY <2>2, <2>4
    <3> QED BY <2>1, <2>3, <3>1 DEF FlowInv, FlowTypes
  <2>6. \A i \in 1..(n - 1) : resultsChan'[i] = cur' + i
    BY <2>2, <2>3, <2>4
  <2>7. Len(resultsChan') = results - InHand' - cur'
    BY <2>2, <2>3, <2>4
  <2>8. Channel'
    BY <2>1, <2>3, <2>6, <2>7 DEF Channel
  <2>9. accepted = 1..cur /\ exitCode # 0
    BY <2>1 DEF FlowInv, Acknowledged, Finished
  <2>10. Acknowledged' /\ Finished'
    <3>1. cur' - 1 = cur /\ cur' > 0
      BY <2>2, <2>4
    <3> QED BY <2>1, <2>9, <3>1 DEF Acknowledged, Finished
  <2> QED BY <2>5, <2>8, <2>10 DEF FlowInv
<1>2. CASE AllReceived
  <2>1. /\ sender = "receive" /\ sender' = "received all" /\ reader = "closed"
        /\ resultsChan = <<>>
        /\ UNCHANGED <<reader, results, resultsChan, cur, accepted, exitCode>>
    BY <1>2 DEF AllReceived, readVars
  <2> QED BY <2>1 DEF FlowInv, FlowTypes, InHand, Channel, Acknowledged, Finished
<1>3. CASE Request
  <2>1. /\ sender = "request" /\ sender' = "receive" /\ accepted' = accepted \cup {cur}
        /\ UNCHANGED <<reader, results, resultsChan, cur, exitCode>>
    BY <1>3 DEF Request, readVars
  <2>2. accepted' = 1..cur
    BY <2>1, SMT DEF FlowInv, FlowTypes, Acknowledged
  <2> QED BY <2>1, <2>2 DEF FlowInv, FlowTypes, InHand, Channel, Acknowledged, Finished
<1>4. CASE Connect \/ ConnectFails \/ RequestFails
  <2>1. /\ sender \in {"connect", "request"} /\ sender' \in {"connect", "request", "gaveUp"}
        /\ UNCHANGED <<reader, results, resultsChan, cur, accepted, exitCode>>
    BY <1>4 DEF Connect, ConnectFails, RequestFails, TryNext, readVars
  <2> QED BY <2>1 DEF FlowInv, FlowTypes, InHand, Channel, Acknowledged, Finished
<1>5. CASE Sendgearman
  <2>1. /\ sender \in {"gaveUp", "received all"}
        /\ UNCHANGED <<reader, results, resultsChan, sender, cur, accepted>>
    BY <1>5 DEF Sendgearman, readVars, sendVars
  <2>2. sender = "gaveUp" => exitCode' = 2
    BY <1>5 DEF Sendgearman
  <2>3. exitCode' = 0 => sender # "gaveUp"
    BY <2>2
  <2> QED BY <2>1, <2>3 DEF FlowInv, FlowTypes, InHand, Channel, Acknowledged, Finished
<1> QED BY <1>1, <1>2, <1>3, <1>4, <1>5 DEF Sender

LEMMA FlowStep == FlowInv /\ [SendGearmanNext]_sendGearmanVars => FlowInv'
<1> SUFFICES ASSUME FlowInv, [SendGearmanNext]_sendGearmanVars PROVE FlowInv'
  OBVIOUS
<1>1. CASE Reader \/ ReadTimeout
  BY <1>1, ReaderFlow DEF Reader
<1>2. CASE Sender
  BY <1>2, SenderFlow
<1>3. CASE \/ \E s \in Servers : GearmandFails(s) \/ GearmandStarts(s)
           \/ UNCHANGED sendGearmanVars
  <2>1. UNCHANGED <<reader, results, resultsChan, sender, cur, accepted, exitCode>>
    BY <1>3 DEF GearmandFails, GearmandStarts, sendGearmanVars, readVars, sendVars
  <2> QED BY <2>1 DEF FlowInv, FlowTypes, InHand, Channel, Acknowledged, Finished
<1> QED BY <1>1, <1>2, <1>3 DEF SendGearmanNext

LEMMA FlowStart == SendGearmanInit => FlowInv
<1> SUFFICES ASSUME SendGearmanInit PROVE FlowInv
  OBVIOUS
<1>1. /\ reader \in {"put", "scan"} /\ results = InHand /\ resultsChan = <<>>
      /\ sender = "receive" /\ cur = 0 /\ accepted = {} /\ exitCode = -1
  BY DEF SendGearmanInit, SendGearmanStart, InHand
<1>2. InHand \in Nat /\ 1..0 = {}
  BY DEF InHand
<1> QED BY <1>1, <1>2 DEF FlowInv, FlowTypes, Channel, Acknowledged, Finished

\* Whatever stdin, the gearmands and the timers do, exit code 0 means that the reader has
\* stopped, at the end of stdin, an empty line or an error of the scanner, and that every
\* result it read before has been acknowledged by a gearmand (send_gearman.go:26-39,
\* 175-194).  What comes after an empty line or an error is not read.
THEOREM ExitZeroSound == SendGearmanSpec => []ExitZeroMeansSent
<1>1. FlowInv => ExitZeroMeansSent
  <2> SUFFICES ASSUME FlowInv, exitCode = 0
               PROVE  accepted = 1..results /\ reader = "closed" /\ resultsChan = <<>>
    BY DEF ExitZeroMeansSent
  <2>1. sender = "received all" /\ reader = "closed" /\ resultsChan = <<>> /\ accepted = 1..cur
    BY DEF FlowInv, Finished, Acknowledged
  <2>2. InHand = 0 /\ Len(resultsChan) = 0
    BY <2>1 DEF InHand
  <2>3. results \in Nat /\ cur \in Nat /\ Len(resultsChan) = results - InHand - cur
    BY DEF FlowInv, FlowTypes, Channel
  <2>4. results = cur
    BY <2>2, <2>3
  <2> QED BY <2>1, <2>4
<1> QED BY FlowStart, FlowStep, <1>1, PTL DEF SendGearmanSpec

-----------------------------------------------------------------------------
(***************************************************************************)
(* From the second attempt on, a server is tried with a new connection, so *)
(* that the servers the attempt is past have not been up all the time.     *)
(***************************************************************************)
TryTypes ==
    /\ at \in Servers /\ attempt \in 0..SendRetries /\ intact \in BOOLEAN
    /\ steady \subseteq up /\ up \subseteq Servers
    /\ sender \in {"receive", "connect", "request", "gaveUp", "received all"}

LaterAttempts ==
    sender \in {"connect", "request"} /\ attempt > 0 =>
      /\ \A s \in steady : s >= at
      /\ sender = "request" => clt = at /\ (intact \/ at \notin steady)

TryInv == TryTypes /\ LaterAttempts /\ GiveUpNeedsOutage

LEMMA Counts == NumServers \in Nat /\ NumServers >= 1 /\ SendRetries \in Nat
  BY SendGearmanAssumption

LEMMA TryNextInv ==
    ASSUME TryInv, sender \in {"connect", "request"}, TryNext,
           attempt > 0 => at \notin steady,
           UNCHANGED <<steady, up>>
    PROVE  TryInv'
<1> USE Counts DEF Servers
<1>1. CASE at < NumServers
  <2>1. at' = at + 1 /\ sender' = "connect" /\ attempt' = attempt /\ intact' = FALSE
    BY <1>1 DEF TryNext
  <2>2. at \in 1..NumServers /\ attempt \in 0..SendRetries
    BY DEF TryInv, TryTypes
  <2>3. at' \in 1..NumServers /\ \A s \in 1..NumServers : s >= at /\ s # at => s >= at'
    BY <1>1, <2>1, <2>2
  <2>4. TryTypes' /\ GiveUpNeedsOutage'
    BY <2>1, <2>2, <2>3 DEF TryInv, TryTypes, GiveUpNeedsOutage
  <2>5. LaterAttempts'
    BY <2>1, <2>3 DEF TryInv, TryTypes, LaterAttempts
  <2> QED BY <2>4, <2>5 DEF TryInv
<1>2. CASE ~(at < NumServers) /\ attempt < SendRetries
  <2>1. at' = 1 /\ sender' = "connect" /\ attempt' = attempt + 1 /\ intact' = FALSE
    BY <1>2 DEF TryNext
  <2>2. at \in 1..NumServers /\ attempt \in 0..SendRetries
    BY DEF TryInv, TryTypes
  <2>3. at' \in 1..NumServers /\ attempt' \in 0..SendRetries
    BY <1>2, <2>1, <2>2
  <2>4. TryTypes' /\ GiveUpNeedsOutage'
    BY <2>1, <2>3 DEF TryInv, TryTypes, GiveUpNeedsOutage
  <2>5. \A s \in 1..NumServers : s >= at'
    BY <2>1
  <2>6. LaterAttempts'
    BY <2>1, <2>5 DEF TryInv, TryTypes, LaterAttempts
  <2> QED BY <2>4, <2>6 DEF TryInv
<1>3. CASE ~(at < NumServers) /\ ~(attempt < SendRetries)
  <2>1. at' = at /\ sender' = "gaveUp" /\ attempt' = attempt /\ intact' = FALSE
    BY <1>3 DEF TryNext
  <2>2. SendRetries > 0 => steady = {}
    <3> SUFFICES ASSUME SendRetries > 0, NEW s \in steady PROVE FALSE
      OBVIOUS
    <3>0. SendRetries > 0
      OBVIOUS
    <3>1. at \in 1..NumServers /\ attempt \in 0..SendRetries /\ s \in 1..NumServers
      BY DEF TryInv, TryTypes
    <3>2. attempt > 0 /\ at = NumServers
      BY <1>3, <3>0, <3>1
    <3>3. s >= at
      BY <3>2 DEF TryInv, LaterAttempts
    <3>4. s = at
      BY <3>1, <3>2, <3>3
    <3> QED BY <3>2, <3>4
  <2> QED BY <2>1, <2>2 DEF TryInv, TryTypes, LaterAttempts, GiveUpNeedsOutage
<1> QED BY <1>1, <1>2, <1>3

LEMMA TryStep == TryInv /\ [SendGearmanNext]_sendGearmanVars => TryInv'
<1> SUFFICES ASSUME TryInv, [SendGearmanNext]_sendGearmanVars PROVE TryInv'
  OBVIOUS
<1> USE Counts DEF Servers
<1>1. CASE Reader \/ ReadTimeout \/ UNCHANGED sendGearmanVars
  <2>1. UNCHANGED <<sendVars, up>>
    BY <1>1 DEF Reader, EndOfInput, ReadLine, BadLine, ReadData, PutResult, ReadTimeout,
                sendGearmanVars
  <2> QED BY <2>1 DEF TryInv, TryTypes, LaterAttempts, GiveUpNeedsOutage, sendVars
<1>2. CASE Receive
  <2>1. /\ attempt' = 0 /\ at' = 1 /\ steady' = up /\ sender' \in {"connect", "request"}
        /\ UNCHANGED <<intact, up>>
    BY <1>2 DEF Receive
  <2>2. 1 \in 1..NumServers /\ 0 \in 0..SendRetries /\ ~(0 > 0)
    OBVIOUS
  <2> QED BY <2>1, <2>2 DEF TryInv, TryTypes, LaterAttempts, GiveUpNeedsOutage
<1>3. CASE AllReceived \/ Request
  <2>1. /\ sender' \in {"receive", "received all"}
        /\ UNCHANGED <<at, attempt, intact, steady, up>>
    BY <1>3 DEF AllReceived, Request
  <2> QED BY <2>1 DEF TryInv, TryTypes, LaterAttempts, GiveUpNeedsOutage
<1>4. CASE Connect
  <2>1. /\ sender = "connect" /\ sender' = "request" /\ clt' = at /\ intact' = TRUE
        /\ UNCHANGED <<at, attempt, steady, up>>
    BY <1>4 DEF Connect
  <2> QED BY <2>1 DEF TryInv, TryTypes, LaterAttempts, GiveUpNeedsOutage
<1>5. CASE ConnectFails
  <2>1. sender = "connect" /\ at \notin steady /\ TryNext /\ UNCHANGED <<steady, up>>
    BY <1>5 DEF ConnectFails, TryInv, TryTypes
  <2> QED BY <2>1, TryNextInv
<1>6. CASE RequestFails
  <2>1. sender = "request" /\ ~intact /\ TryNext /\ UNCHANGED <<steady, up>>
    BY <1>6 DEF RequestFails
  <2>2. attempt > 0 => at \notin steady
    BY <2>1 DEF TryInv, LaterAttempts
  <2> QED BY <2>1, <2>2, TryNextInv
<1>7. CASE Sendgearman
  BY <1>7 DEF Sendgearman, sendVars, TryInv, TryTypes, LaterAttempts, GiveUpNeedsOutage
<1>8. ASSUME NEW s \in Servers, GearmandFails(s) PROVE TryInv'
  <2>1. /\ up' = up \ {s} /\ steady' = steady \ {s} /\ intact' = (intact /\ clt # s)
        /\ UNCHANGED <<sender, at, attempt, clt>>
    BY <1>8 DEF GearmandFails
  <2>2. TryTypes'
    BY <2>1 DEF TryInv, TryTypes
  <2>3. LaterAttempts' /\ GiveUpNeedsOutage'
    BY <2>1 DEF TryInv, LaterAttempts, GiveUpNeedsOutage
  <2> QED BY <2>2, <2>3 DEF TryInv
<1>9. ASSUME NEW s \in Servers, GearmandStarts(s) PROVE TryInv'
  <2>1. up' = up \cup {s} /\ UNCHANGED sendVars
    BY <1>9 DEF GearmandStarts
  <2> QED BY <2>1 DEF TryInv, TryTypes, LaterAttempts, GiveUpNeedsOutage, sendVars
<1> QED BY <1>1, <1>2, <1>3, <1>4, <1>5, <1>6, <1>7, <1>8, <1>9 DEF SendGearmanNext, Sender

LEMMA TryStart == SendGearmanInit => TryInv
<1> SUFFICES ASSUME SendGearmanInit PROVE TryInv
  OBVIOUS
<1>1. /\ sender = "receive" /\ attempt = 0 /\ at = 1 /\ intact = FALSE
      /\ steady = {} /\ up \subseteq Servers
  BY DEF SendGearmanInit, SendGearmanStart
<1>2. 1 \in 1..NumServers /\ 0 \in 0..SendRetries
  BY Counts
<1> QED BY <1>1, <1>2 DEF Servers, TryInv, TryTypes, LaterAttempts, GiveUpNeedsOutage

\* With at least one retry, whatever the number of servers, a result is given up only if none
\* of them has been up since it was received (send_gearman.go:93-131).
THEOREM GiveUpSound == SendGearmanSpec => []GiveUpNeedsOutage
<1>1. TryInv => GiveUpNeedsOutage
  BY DEF TryInv
<1> QED BY TryStart, TryStep, <1>1, PTL DEF SendGearmanSpec
=============================================================================
