---------------------------- MODULE SendGearman ----------------------------
(***************************************************************************)
(* send_gearman: a goroutine reads results from stdin, one per line, or    *)
(* all of stdin as the output of a single result, and hands them over a    *)
(* channel to the main goroutine, which sends them with retries over the   *)
(* configured servers and keeps its connection from one result to the      *)
(* next (send_gearman.go, sendAnswer of client.go).                        *)
(*                                                                         *)
(* A line of stdin is "good", "bad" (no host name in it) or "blank".       *)
(* After the last one stdin is closed ("eof"), cannot be read ("error") or *)
(* stays open ("silence").  Results are numbered in the order of reading.  *)
(***************************************************************************)
EXTENDS Integers, Sequences

CONSTANTS
    Inputs,         \* sequences of lines with one of these ends
    NumServers,     \* configured servers, tried in their order
    SendRetries,    \* --retries
    ChanSize,       \* capacity of resultsChan (100)
    MaxOutages      \* bound: outages of gearmands

ASSUME SendGearmanAssumption ==
    /\ NumServers \in Nat \ {0} /\ ChanSize \in Nat \ {0}
    /\ SendRetries \in Nat /\ MaxOutages \in Nat
    /\ \A input \in Inputs :
         input \in Seq({"good", "bad", "blank", "eof", "error", "silence"}) /\ input # <<>>

Servers == 1..NumServers

VARIABLES
    mode,           \* "lines", "data" (--host) or "message" (--host and --message)
    stdin,          \* what has not been read
    reader,         \* "scan" with its timer running, "put" a result, or "closed" the channel
    results,        \* results read
    resultsChan,
    sender,         \* "receive", "connect", "request", "gaveUp" or "received all"
    cur,            \* the result it sends, 0 before the first one,
    attempt,        \*   its attempt
    at,             \*   and the server it is at
    clt,            \* the server of its connection, 0 if nil,
    intact,         \*   which has not been lost
    exitCode,       \* -1 while the program runs
    up,             \* gearmands that answer
    outages,
    accepted,       \* history: results that a gearmand has acknowledged,
    steady          \*   servers that have been up since the sender took cur

readVars == <<stdin, reader, results>>
sendVars == <<sender, cur, attempt, at, clt, intact, accepted, steady>>
sendGearmanVars ==
    <<mode, readVars, resultsChan, sendVars, exitCode, up, outages>>

SendGearmanStart(options, input, servers) ==
    /\ mode = options
    /\ stdin = input
    /\ reader = IF mode = "message" THEN "put" ELSE "scan"
    /\ results = IF mode = "message" THEN 1 ELSE 0
    /\ resultsChan = <<>>
    /\ sender = "receive" /\ cur = 0 /\ attempt = 0 /\ at = 1
    /\ clt = 0 /\ intact = FALSE
    /\ exitCode = -1
    /\ up = servers /\ outages = 0
    /\ accepted = {} /\ steady = {}

SendGearmanInit ==
    \E options \in {"lines", "data", "message"}, input \in Inputs, servers \in SUBSET Servers :
      SendGearmanStart(options, input, servers)

Sending == exitCode = -1

-----------------------------------------------------------------------------
(***************************************************************************)
(* The reader.  It ends the program over a line it cannot parse, and when  *)
(* its timer fires.                                                        *)
(***************************************************************************)
Hand == reader' = "put" /\ results' = results + 1

\* Mutant: the channel stays open when stdin ends.
EndOfInputOpen ==
    /\ Sending /\ reader = "scan" /\ mode = "lines"
    /\ Head(stdin) \in {"eof", "error", "blank"}
    /\ stdin' = Tail(stdin)
    /\ reader' = "returned"
    /\ UNCHANGED <<mode, results, resultsChan, sendVars, exitCode, up, outages>>

\* readStdinLine returns false: at the end, at an error of the scanner (Scan is false for it
\* too, the test of Err is never reached with one), and at an empty line
EndOfInput ==
    /\ Sending /\ reader = "scan" /\ mode = "lines"
    /\ Head(stdin) \in {"eof", "error", "blank"}
    /\ stdin' = Tail(stdin)
    /\ reader' = "closed"
    /\ UNCHANGED <<mode, results, resultsChan, sendVars, exitCode, up, outages>>

ReadLine ==
    /\ Sending /\ reader = "scan" /\ mode = "lines" /\ Head(stdin) = "good"
    /\ stdin' = Tail(stdin)
    /\ Hand
    /\ UNCHANGED <<mode, resultsChan, sendVars, exitCode, up, outages>>

BadLine ==
    /\ Sending /\ reader = "scan" /\ mode = "lines" /\ Head(stdin) = "bad"
    /\ exitCode' = 2
    /\ UNCHANGED <<mode, readVars, resultsChan, sendVars, up, outages>>

\* readStdinData: every line, whatever it is
ReadData ==
    /\ Sending /\ reader = "scan" /\ mode = "data" /\ Head(stdin) # "silence"
    /\ stdin' = Tail(stdin)
    /\ IF Head(stdin) \in {"eof", "error"} THEN Hand ELSE UNCHANGED <<reader, results>>
    /\ UNCHANGED <<mode, resultsChan, sendVars, exitCode, up, outages>>

\* the timer may also fire before Stop, with the line read
ReadTimeout ==
    /\ Sending /\ reader = "scan"
    /\ exitCode' = 2
    /\ UNCHANGED <<mode, readVars, resultsChan, sendVars, up, outages>>

PutResult ==
    /\ Sending /\ reader = "put" /\ Len(resultsChan) < ChanSize
    /\ resultsChan' = Append(resultsChan, results)
    /\ reader' = IF mode = "lines" THEN "scan" ELSE "closed"
    /\ UNCHANGED <<mode, stdin, results, sendVars, exitCode, up, outages>>

-----------------------------------------------------------------------------
(***************************************************************************)
(* The main goroutine.                                                     *)
(***************************************************************************)
Receive ==
    /\ Sending /\ sender = "receive" /\ resultsChan # <<>>
    /\ cur' = Head(resultsChan)
    /\ resultsChan' = Tail(resultsChan)
    /\ attempt' = 0 /\ at' = 1
    /\ sender' = IF clt = 0 THEN "connect" ELSE "request"
    /\ steady' = up
    /\ UNCHANGED <<mode, readVars, clt, intact, accepted, exitCode, up, outages>>

AllReceived ==
    /\ Sending /\ sender = "receive" /\ resultsChan = <<>> /\ reader = "closed"
    /\ sender' = "received all"
    /\ UNCHANGED <<mode, readVars, resultsChan, cur, attempt, at, clt, intact, accepted, steady,
                   exitCode, up, outages>>

\* Mutant: the connection that failed is used again.
TryNextKeepsClient ==
    /\ UNCHANGED <<clt, intact>>
    /\ IF at < NumServers
       THEN at' = at + 1 /\ sender' = "request" /\ UNCHANGED attempt
       ELSE IF attempt < SendRetries
       THEN at' = 1 /\ sender' = "request" /\ attempt' = attempt + 1
       ELSE sender' = "gaveUp" /\ UNCHANGED <<at, attempt>>

\* the connection is closed; the next server, the next attempt after a pause, or neither
TryNext ==
    /\ clt' = 0 /\ intact' = FALSE
    /\ IF at < NumServers
       THEN at' = at + 1 /\ sender' = "connect" /\ UNCHANGED attempt
       ELSE IF attempt < SendRetries
       THEN at' = 1 /\ sender' = "connect" /\ attempt' = attempt + 1
       ELSE sender' = "gaveUp" /\ UNCHANGED <<at, attempt>>

Connect ==
    /\ Sending /\ sender = "connect" /\ at \in up
    /\ clt' = at /\ intact' = TRUE
    /\ sender' = "request"
    /\ UNCHANGED <<mode, readVars, resultsChan, cur, attempt, at, accepted, steady, exitCode,
                   up, outages>>

ConnectFails ==
    /\ Sending /\ sender = "connect" /\ at \notin up
    /\ TryNext
    /\ UNCHANGED <<mode, readVars, resultsChan, cur, accepted, steady, exitCode, up, outages>>

\* DoBg, to the server of the connection, whichever sendAnswer was given
Request ==
    /\ Sending /\ sender = "request" /\ intact
    /\ accepted' = accepted \cup {cur}
    /\ sender' = "receive"
    /\ UNCHANGED <<mode, readVars, resultsChan, cur, attempt, at, clt, intact, steady, exitCode,
                   up, outages>>

\* the connection is lost, or the response does not come in time
RequestFails ==
    /\ Sending /\ sender = "request" /\ ~intact
    /\ TryNext
    /\ UNCHANGED <<mode, readVars, resultsChan, cur, accepted, steady, exitCode, up, outages>>

\* Mutant: a result that could not be sent is no error.
SendgearmanForgetsErrors ==
    /\ Sending /\ sender \in {"gaveUp", "received all"}
    /\ exitCode' = IF resultsChan # <<>> THEN 2 ELSE 0
    /\ UNCHANGED <<mode, readVars, resultsChan, sendVars, up, outages>>

\* the summary: the result that failed and those left in the channel are errors
Sendgearman ==
    /\ Sending /\ sender \in {"gaveUp", "received all"}
    /\ exitCode' = IF sender = "gaveUp" \/ resultsChan # <<>> THEN 2 ELSE 0
    /\ UNCHANGED <<mode, readVars, resultsChan, sendVars, up, outages>>

-----------------------------------------------------------------------------
\* a gearmand that is down refuses connections and has lost those it had
GearmandFails(s) ==
    /\ Sending /\ s \in up /\ outages < MaxOutages
    /\ outages' = outages + 1
    /\ up' = up \ {s}
    /\ steady' = steady \ {s}
    /\ intact' = (intact /\ clt # s)
    /\ UNCHANGED <<mode, readVars, resultsChan, sender, cur, attempt, at, clt, accepted, exitCode>>

GearmandStarts(s) ==
    /\ Sending /\ s \in Servers \ up
    /\ up' = up \cup {s}
    /\ UNCHANGED <<mode, readVars, resultsChan, sendVars, exitCode, outages>>

Reader == EndOfInput \/ ReadLine \/ BadLine \/ ReadData \/ PutResult
Sender == Receive \/ AllReceived \/ Connect \/ ConnectFails \/ Request \/ RequestFails
          \/ Sendgearman

SendGearmanNext ==
    \/ Reader \/ ReadTimeout \/ Sender
    \/ \E s \in Servers : GearmandFails(s) \/ GearmandStarts(s)

SendGearmanSpec == SendGearmanInit /\ [][SendGearmanNext]_sendGearmanVars

-----------------------------------------------------------------------------
\* With exit code 0 a gearmand has acknowledged every result that the reader handed over:
\* none was given up, none is left in the channel, and the reader has stopped.  It stops at
\* the end of stdin, but also at an empty line and at an error of the scanner: results that
\* come after these are not read, and an exit code of 0 says nothing of them
\* (send_gearman.go:26-39, 66-90, 175-194).
ExitZeroMeansSent ==
    exitCode = 0 =>
      /\ accepted = 1..results
      /\ reader = "closed" /\ resultsChan = <<>>

\* With a retry a result is given up only if no server has been up all the time: a
\* connection that went stale between two results costs one try, not the result
\* (send_gearman.go:93-131).
GiveUpNeedsOutage ==
    SendRetries > 0 /\ sender = "gaveUp" => steady = {}
=============================================================================
