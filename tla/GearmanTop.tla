----------------------------- MODULE GearmanTop -----------------------------
(***************************************************************************)
(* gearman_top: a goroutine per host name asks its gearmand for the status *)
(* once every interval, over a connection that it keeps in a map           *)
(* (gearman_top.go, statusAdmin.go).  Host names with the same address     *)
(* have one entry in this map; goroutines of different gearmands share     *)
(* nothing else, so the hosts here are the names of one gearmand.          *)
(*                                                                         *)
(* A status is a version number, and every answer to a query comes in one  *)
(* or two segments; the first of two may or may not end at the end of a    *)
(* line.  A query reads until a segment does.  Rows, how they are laid     *)
(* out, and the keyboard are left out.  Map accesses are atomic: Go may    *)
(* end the program over two at a time, as connectionMap has no lock.       *)
(***************************************************************************)
EXTENDS Integers, Sequences, FiniteSets

CONSTANTS
    Hosts,          \* names of the gearmand
    Conns,          \* connections; one that nobody uses any more is used again
    MaxFailures,    \* bound: failures of the gearmand
    MaxChanges,     \* bound: changes of its status
    MaxAsked        \* bound: queries that wait on one connection while the gearmand hangs

None == 0
Error == -1     \* an error, or no queues found
NoData == -2    \* "Not data yet..."

ASSUME GearmanTopAssumption ==
    /\ Conns \subseteq Nat \ {None} /\ Cardinality(Conns) > Cardinality(Hosts)
    /\ {MaxFailures, MaxChanges} \subseteq Nat /\ MaxAsked \in Nat \ {0}

VARIABLES
    connectionMap,  \* the connection the map has for the address, or None
    pc,             \* per host goroutine: "lookup", "dial", "write" or "read",
    conn,           \*   the connection it uses,
    payload,        \*   and the versions in what it has read so far
    printMap,       \* per host the table that is shown: its newest version, or Error
    net,            \* per connection its state
    server,         \* "up", "hangs" or "down"
    version,        \* its status
    failures

hostVars == <<pc, conn, payload, printMap>>
serverVars == <<server, version, failures>>
gearmanTopVars == <<connectionMap, hostVars, net, serverVars>>

\* a connection: "open", "closed" by the peer or "reset"; queries that have not been
\* answered; the version of an answer half sent; segments that can be read
Connection(state) == [state |-> state, asked |-> 0, rest |-> None, received |-> <<>>]

GearmanTopStart(state) ==
    /\ connectionMap = None
    /\ pc = [h \in Hosts |-> "lookup"]
    /\ conn = [h \in Hosts |-> None]
    /\ payload = [h \in Hosts |-> {}]
    /\ printMap = [h \in Hosts |-> NoData]
    /\ net = [c \in Conns |-> Connection("closed")]
    /\ server = state /\ version = 1 /\ failures = 0

GearmanTopInit == \E state \in {"up", "down"} : GearmanTopStart(state)

-----------------------------------------------------------------------------
(***************************************************************************)
(* The goroutine of a host: generateQueueTable, then the main goroutine,   *)
(* which does nothing else for long, takes the table from tableChan, and   *)
(* the goroutine of the host sleeps.                                       *)
(***************************************************************************)
Post(h, table) ==
    /\ pc' = [pc EXCEPT ![h] = "lookup"]
    /\ printMap' = [printMap EXCEPT ![h] = table]
    /\ payload' = [payload EXCEPT ![h] = {}]
    /\ conn' = [conn EXCEPT ![h] = None]

Idle(c) == net[c].asked = 0 /\ net[c].rest = None

\* an interval is longer than a gearmand that answers at all takes for its answers
Slept ==
    connectionMap # None =>
      Idle(connectionMap) \/ (server = "hangs" /\ net[connectionMap].asked < MaxAsked)

Unused == Conns \ ({connectionMap} \cup {conn[h] : h \in Hosts})

\* meanwhile connections that nobody refers to have been collected
Lookup(h) ==
    /\ pc[h] = "lookup" /\ Slept
    /\ conn' = [conn EXCEPT ![h] = connectionMap]
    /\ pc' = [pc EXCEPT ![h] = IF connectionMap = None THEN "dial" ELSE "write"]
    /\ net' = [c \in Conns |-> IF c \in Unused THEN Connection("closed") ELSE net[c]]
    /\ UNCHANGED <<connectionMap, payload, printMap, serverVars>>

\* a gearmand that hangs is still connected to; the map may have a connection by now
Dial(h) ==
    LET c == CHOOSE c \in Unused : TRUE IN
      /\ pc[h] = "dial" /\ server # "down"
      /\ net' = [net EXCEPT ![c] = Connection("open")]
      /\ connectionMap' = c
      /\ conn' = [conn EXCEPT ![h] = c]
      /\ pc' = [pc EXCEPT ![h] = "write"]
      /\ UNCHANGED <<payload, printMap, serverVars>>

DialFails(h) ==
    /\ pc[h] = "dial" /\ server = "down"
    /\ Post(h, Error)
    /\ UNCHANGED <<connectionMap, net, serverVars>>

\* the first write after the peer has closed succeeds, and makes it reset the connection
Write(h) ==
    /\ pc[h] = "write" /\ net[conn[h]].state # "reset"
    /\ net' = IF net[conn[h]].state = "open"
              THEN [net EXCEPT ![conn[h]].asked = @ + 1]
              ELSE [net EXCEPT ![conn[h]].state = "reset"]
    /\ pc' = [pc EXCEPT ![h] = "read"]
    /\ UNCHANGED <<connectionMap, conn, payload, printMap, serverVars>>

\* Mutant: the connection stays in the map.
WriteFailsKeepsConnection(h) ==
    /\ pc[h] = "write" /\ net[conn[h]].state = "reset"
    /\ UNCHANGED connectionMap
    /\ Post(h, Error)
    /\ UNCHANGED <<net, serverVars>>

\* what the map has for the address is deleted, be it another connection by now
WriteFails(h) ==
    /\ pc[h] = "write" /\ net[conn[h]].state = "reset"
    /\ connectionMap' = None
    /\ Post(h, Error)
    /\ UNCHANGED <<net, serverVars>>

Newest(versions) == CHOOSE v \in versions : \A w \in versions : v >= w

\* all that has been received, whichever query it answers
Read(h) ==
    LET segments == net[conn[h]].received
        got == payload[h] \cup {segments[i].version : i \in DOMAIN segments}
    IN  /\ pc[h] = "read" /\ net[conn[h]].state # "reset" /\ segments # <<>>
        /\ net' = [net EXCEPT ![conn[h]].received = <<>>]
        /\ IF segments[Len(segments)].newline
           THEN Post(h, Newest(got))
           ELSE payload' = [payload EXCEPT ![h] = got] /\ UNCHANGED <<pc, conn, printMap>>
        /\ UNCHANGED <<connectionMap, serverVars>>

\* io.EOF ends the payload, whatever there is of it; the connection stays in the map
ReadEnds(h) ==
    /\ pc[h] = "read" /\ net[conn[h]].state = "closed" /\ net[conn[h]].received = <<>>
    /\ Post(h, IF payload[h] = {} THEN Error ELSE Newest(payload[h]))
    /\ UNCHANGED <<connectionMap, net, serverVars>>

\* nothing will come before the deadline, which is ten seconds from the last query that any
\* goroutine started on this connection
DeadlinePasses(c) ==
    /\ net[c].state = "open" /\ net[c].received = <<>>
    /\ server = "hangs" \/ (Idle(c) /\ \A h \in Hosts : pc[h] = "read")

\* an error; the connection stays as well
ReadFails(h) ==
    /\ pc[h] = "read"
    /\ net[conn[h]].state = "reset" \/ DeadlinePasses(conn[h])
    /\ Post(h, Error)
    /\ UNCHANGED <<connectionMap, net, serverVars>>

-----------------------------------------------------------------------------
(***************************************************************************)
(* gearmand.                                                               *)
(***************************************************************************)
Arrives(c, v, newline) ==
    Append(net[c].received, [version |-> v, newline |-> newline])

Answer(c) ==
    /\ net[c].state = "open" /\ server = "up" /\ net[c].asked > 0 /\ net[c].rest = None
    /\ c \notin Unused
    /\ \E newline, whole \in BOOLEAN :
         /\ whole => newline
         /\ net' = [net EXCEPT ![c].asked = @ - 1,
                               ![c].received = Arrives(c, version, newline),
                               ![c].rest = IF whole THEN None ELSE version]
    /\ UNCHANGED <<connectionMap, hostVars, serverVars>>

AnswerRest(c) ==
    /\ net[c].state = "open" /\ server = "up" /\ net[c].rest # None /\ c \notin Unused
    /\ net' = [net EXCEPT ![c].received = Arrives(c, net[c].rest, TRUE), ![c].rest = None]
    /\ UNCHANGED <<connectionMap, hostVars, serverVars>>

StatusChanges ==
    /\ version <= MaxChanges
    /\ version' = version + 1
    /\ UNCHANGED <<connectionMap, hostVars, net, server, failures>>

StatusServerHangs ==
    /\ server = "up" /\ failures < MaxFailures
    /\ server' = "hangs" /\ failures' = failures + 1
    /\ UNCHANGED <<connectionMap, hostVars, net, version>>

\* the kernel closes its connections; what it had sent arrives
StatusServerEnds ==
    /\ server = "up" /\ failures < MaxFailures
    /\ server' = "down" /\ failures' = failures + 1
    /\ net' = [c \in Conns |->
                 IF net[c].state = "open"
                 THEN [Connection("closed") EXCEPT !.received = net[c].received]
                 ELSE net[c]]
    /\ UNCHANGED <<connectionMap, hostVars, version>>

StatusServerStarts ==
    /\ server # "up"
    /\ server' = "up"
    /\ UNCHANGED <<connectionMap, hostVars, net, version, failures>>

HostGoroutine(h) ==
    \/ Lookup(h) \/ Dial(h) \/ DialFails(h) \/ Write(h) \/ WriteFails(h)
    \/ Read(h) \/ ReadEnds(h) \/ ReadFails(h)

GearmanTopNext ==
    \/ \E h \in Hosts : HostGoroutine(h)
    \/ \E c \in Conns : Answer(c) \/ AnswerRest(c)
    \/ StatusChanges \/ StatusServerHangs \/ StatusServerEnds \/ StatusServerStarts
=============================================================================
