--------------------------- MODULE ResultDelivery ---------------------------
(***************************************************************************)
(* resultserver.go, dupserver.go and sendAnswer of client.go: the shared   *)
(* queue of results with its consumers, the queue and consumer of every    *)
(* dup server, and their termination by mainWorker.Shutdown.               *)
(*                                                                         *)
(* Each result has its own executing goroutine: executeJob calls           *)
(* enqueueServerResult (which may block) and enqueueDupServerResult (which *)
(* may not).  A gearmand accepts a job, or refuses it, or accepts it while *)
(* the client sees an error: networks do.                                  *)
(*                                                                         *)
(* Data left out: what a result says, which client object is in use, and   *)
(* how often a gearmand got the same result.  One goroutine runs Shutdown: *)
(* two of them are the subject of MainLoop.                                *)
(***************************************************************************)
EXTENDS Naturals, Sequences, FiniteSets

CONSTANTS
    Results,        \* results to be delivered
    NumConsumers,   \* result consumers
    DupServers,     \* config.dupserver
    QueueSize,      \* ResultServerQueueSize (1000)
    Backlog,        \* config.dupServerBacklogQueueSize
    MaxRetries,     \* retries a consumer makes for a result (120)
    None

ASSUME ResultDeliveryAssumption ==
    /\ NumConsumers \in Nat /\ QueueSize \in Nat /\ Backlog \in Nat
    /\ MaxRetries \in Nat
    /\ None \notin Results \cup DupServers

Consumers == 1..NumConsumers

VARIABLES
    queue,          \* resultServerQueue
    producer,       \* per result: "new", "dup" (offering to dup servers), "done"
    dupTodo,        \* per result: dup servers it has not been offered to
    consumer,       \* per consumer: "select", "send", "check" or "exited"
    item,           \* per consumer: the result it holds
    retries,        \* per result: sendResult's retries
    delivered,      \* results a gearmand accepted
    dropped,        \* results a consumer dropped
    dupQueue,       \* per dup server: its consumer's queue,
    dupConsumer,    \*   where its consumer is,
    dupItem,        \*   what the consumer holds,
    dupAccepted,    \*   history: results put into the queue, in order,
    dupSent,        \*   history: results it has acknowledged, in order
    dupTable,       \* dupServerConsumers # nil
    stopper,        \* Shutdown: "idle", "drain", "dup", "dupSend", "res" or "done"
    stopTodo,       \* dup servers left of its loop
    stopAt,         \* dup server or consumer it sends the termination request to
    crashed         \* a nil dereference ended the program

producerVars == <<producer, dupTodo>>
consumerVars == <<consumer, item, retries, delivered, dropped>>
dupVars == <<dupQueue, dupConsumer, dupItem, dupAccepted, dupSent>>
stopVars == <<dupTable, stopper, stopTodo, stopAt>>
vars == <<queue, producerVars, consumerVars, dupVars, stopVars, crashed>>

Init ==
    /\ queue = <<>>
    /\ producer = [r \in Results |-> "new"]
    /\ dupTodo = [r \in Results |-> {}]
    /\ consumer = [c \in Consumers |-> "select"]
    /\ item = [c \in Consumers |-> None]
    /\ retries = [r \in Results |-> 0]
    /\ delivered = {} /\ dropped = {}
    /\ dupQueue = [d \in DupServers |-> <<>>]
    /\ dupConsumer = [d \in DupServers |-> "select"]
    /\ dupItem = [d \in DupServers |-> <<>>]
    /\ dupAccepted = [d \in DupServers |-> <<>>]
    /\ dupSent = [d \in DupServers |-> <<>>]
    /\ dupTable = (DupServers # {})
    /\ stopper = "idle" /\ stopTodo = {} /\ stopAt = None
    /\ crashed = FALSE

-----------------------------------------------------------------------------
(***************************************************************************)
(* The executing goroutine of a result.                                    *)
(***************************************************************************)
EnqueueServerResult(r) ==
    /\ producer[r] = "new" /\ ~crashed
    /\ Len(queue) < QueueSize
    /\ queue' = Append(queue, r)
    /\ producer' = [producer EXCEPT ![r] = "dup"]
    /\ dupTodo' = [dupTodo EXCEPT ![r] = DupServers]
    /\ UNCHANGED <<consumerVars, dupVars, stopVars, crashed>>

\* Mutant: the goroutine waits until the dup consumer is ready to receive, as a send on a
\* channel without a buffer would.
EnqueueDupBlocking(r, d) ==
    /\ producer[r] = "dup" /\ d \in dupTodo[r] /\ ~crashed
    /\ dupTable /\ dupConsumer[d] = "select"
    /\ IF Len(dupQueue[d]) < Backlog
       THEN /\ dupQueue' = [dupQueue EXCEPT ![d] = Append(@, r)]
            /\ dupAccepted' = [dupAccepted EXCEPT ![d] = Append(@, r)]
       ELSE UNCHANGED <<dupQueue, dupAccepted>>
    /\ dupTodo' = [dupTodo EXCEPT ![r] = @ \ {d}]
    /\ UNCHANGED <<queue, producer, consumerVars, dupConsumer, dupItem, dupSent, stopVars,
                   crashed>>

\* one round of enqueueDupServerResult: at capacity the result is dropped
EnqueueDupServerResult(r, d) ==
    /\ producer[r] = "dup" /\ d \in dupTodo[r] /\ ~crashed
    /\ dupTable
    /\ IF Len(dupQueue[d]) < Backlog
       THEN /\ dupQueue' = [dupQueue EXCEPT ![d] = Append(@, r)]
            /\ dupAccepted' = [dupAccepted EXCEPT ![d] = Append(@, r)]
       ELSE UNCHANGED <<dupQueue, dupAccepted>>
    /\ dupTodo' = [dupTodo EXCEPT ![r] = @ \ {d}]
    /\ UNCHANGED <<queue, producer, consumerVars, dupConsumer, dupItem, dupSent, stopVars,
                   crashed>>

\* dupServerConsumers is nil: so is the consumer it yields, and the program ends
EnqueueDupCrash(r) ==
    /\ producer[r] = "dup" /\ dupTodo[r] # {} /\ ~crashed
    /\ ~dupTable
    /\ crashed' = TRUE
    /\ UNCHANGED <<queue, producerVars, consumerVars, dupVars, stopVars>>

EnqueueDone(r) ==
    /\ producer[r] = "dup" /\ dupTodo[r] = {} /\ ~crashed
    /\ producer' = [producer EXCEPT ![r] = "done"]
    /\ UNCHANGED <<queue, dupTodo, consumerVars, dupVars, stopVars, crashed>>

-----------------------------------------------------------------------------
(***************************************************************************)
(* A result consumer.  Its retries belong to the result it holds.          *)
(***************************************************************************)

\* Shutdown is blocked sending the termination request to x
Requested(x) == stopper \in {"dupSend", "res"} /\ stopAt = x

TakeResult(c) ==
    /\ consumer[c] = "select" /\ queue # <<>> /\ ~crashed
    /\ item' = [item EXCEPT ![c] = Head(queue)]
    /\ queue' = Tail(queue)
    /\ consumer' = [consumer EXCEPT ![c] = "send"]
    /\ UNCHANGED <<producerVars, retries, delivered, dropped, dupVars, stopVars, crashed>>

\* one round over config.server: one of them acknowledges
SendResult(c) ==
    /\ consumer[c] = "send" /\ ~crashed
    /\ delivered' = delivered \cup {item[c]}
    /\ consumer' = [consumer EXCEPT ![c] = "select"]
    /\ item' = [item EXCEPT ![c] = None]
    /\ UNCHANGED <<queue, producerVars, retries, dropped, dupVars, stopVars, crashed>>

\* Mutant: the consumer takes the next result instead of retrying.
SendFailsForgets(c) ==
    /\ consumer[c] = "send" /\ ~crashed
    /\ \E got \in SUBSET {item[c]} : delivered' = delivered \cup got
    /\ IF retries[item[c]] > MaxRetries
       THEN /\ consumer' = [consumer EXCEPT ![c] = "select"]
            /\ item' = [item EXCEPT ![c] = None]
            /\ dropped' = dropped \cup {item[c]}
            /\ UNCHANGED retries
       ELSE /\ consumer' = [consumer EXCEPT ![c] = "select"]
            /\ retries' = [retries EXCEPT ![item[c]] = @ + 1]
            /\ item' = [item EXCEPT ![c] = None]
            /\ UNCHANGED dropped
    /\ UNCHANGED <<queue, producerVars, dupVars, stopVars, crashed>>

\* Mutant: the limit of retries is reached one retry too early.
SendFailsGivesUpEarly(c) ==
    /\ consumer[c] = "send" /\ ~crashed
    /\ \E got \in SUBSET {item[c]} : delivered' = delivered \cup got
    /\ IF retries[item[c]] >= MaxRetries
       THEN /\ consumer' = [consumer EXCEPT ![c] = "select"]
            /\ item' = [item EXCEPT ![c] = None]
            /\ dropped' = dropped \cup {item[c]}
            /\ UNCHANGED retries
       ELSE /\ consumer' = [consumer EXCEPT ![c] = "check"]
            /\ retries' = [retries EXCEPT ![item[c]] = @ + 1]
            /\ UNCHANGED <<item, dropped>>
    /\ UNCHANGED <<queue, producerVars, dupVars, stopVars, crashed>>

\* Mutant: the retries are not counted.
SendFailsForEver(c) ==
    /\ consumer[c] = "send" /\ ~crashed
    /\ \E got \in SUBSET {item[c]} : delivered' = delivered \cup got
    /\ IF retries[item[c]] > MaxRetries
       THEN /\ consumer' = [consumer EXCEPT ![c] = "select"]
            /\ item' = [item EXCEPT ![c] = None]
            /\ dropped' = dropped \cup {item[c]}
            /\ UNCHANGED retries
       ELSE /\ consumer' = [consumer EXCEPT ![c] = "check"]
            /\ UNCHANGED retries
            /\ UNCHANGED <<item, dropped>>
    /\ UNCHANGED <<queue, producerVars, dupVars, stopVars, crashed>>

\* none acknowledges (one may have it all the same): retry, or give up after
\* more than MaxRetries retries
SendFails(c) ==
    /\ consumer[c] = "send" /\ ~crashed
    /\ \E got \in SUBSET {item[c]} : delivered' = delivered \cup got
    /\ IF retries[item[c]] > MaxRetries
       THEN /\ consumer' = [consumer EXCEPT ![c] = "select"]
            /\ item' = [item EXCEPT ![c] = None]
            /\ dropped' = dropped \cup {item[c]}
            /\ UNCHANGED retries
       ELSE /\ consumer' = [consumer EXCEPT ![c] = "check"]
            /\ retries' = [retries EXCEPT ![item[c]] = @ + 1]
            /\ UNCHANGED <<item, dropped>>
    /\ UNCHANGED <<queue, producerVars, dupVars, stopVars, crashed>>

\* no termination request is pending: sleep a second and try again
Retry(c) ==
    /\ consumer[c] = "check" /\ ~Requested(c) /\ ~crashed
    /\ consumer' = [consumer EXCEPT ![c] = "send"]
    /\ UNCHANGED <<queue, producerVars, item, retries, delivered, dropped, dupVars, stopVars,
                   crashed>>

-----------------------------------------------------------------------------
(***************************************************************************)
(* The consumer of a dup server: retries the same result until it is taken *)
(* or until it is terminated.                                              *)
(***************************************************************************)
DupTake(d) ==
    /\ dupConsumer[d] = "select" /\ dupQueue[d] # <<>> /\ ~crashed
    /\ dupItem' = [dupItem EXCEPT ![d] = <<Head(dupQueue[d])>>]
    /\ dupQueue' = [dupQueue EXCEPT ![d] = Tail(@)]
    /\ dupConsumer' = [dupConsumer EXCEPT ![d] = "send"]
    /\ UNCHANGED <<queue, producerVars, consumerVars, dupAccepted, dupSent, stopVars,
                   crashed>>

SendResultDup(d) ==
    /\ dupConsumer[d] = "send" /\ ~crashed
    /\ dupSent' = [dupSent EXCEPT ![d] = @ \o dupItem[d]]
    /\ dupItem' = [dupItem EXCEPT ![d] = <<>>]
    /\ dupConsumer' = [dupConsumer EXCEPT ![d] = "select"]
    /\ UNCHANGED <<queue, producerVars, consumerVars, dupQueue, dupAccepted, stopVars,
                   crashed>>

\* Mutant: a result that failed goes to the end of the queue.
SendResultDupRequeued(d) ==
    /\ dupConsumer[d] = "send" /\ ~crashed
    /\ dupConsumer' = [dupConsumer EXCEPT ![d] = "select"]
    /\ dupQueue' = [dupQueue EXCEPT ![d] = @ \o dupItem[d]]
    /\ dupItem' = [dupItem EXCEPT ![d] = <<>>]
    /\ UNCHANGED <<queue, producerVars, consumerVars, dupAccepted,
                   dupSent, stopVars, crashed>>

SendResultDupFails(d) ==
    /\ dupConsumer[d] = "send" /\ ~crashed
    /\ dupConsumer' = [dupConsumer EXCEPT ![d] = "check"]
    /\ UNCHANGED <<queue, producerVars, consumerVars, dupQueue, dupItem, dupAccepted,
                   dupSent, stopVars, crashed>>

DupRetry(d) ==
    /\ dupConsumer[d] = "check" /\ ~Requested(d) /\ ~crashed
    /\ dupConsumer' = [dupConsumer EXCEPT ![d] = "send"]
    /\ UNCHANGED <<queue, producerVars, consumerVars, dupQueue, dupItem, dupAccepted,
                   dupSent, stopVars, crashed>>

-----------------------------------------------------------------------------
(***************************************************************************)
(* mainWorker.Shutdown after the workers: wait a while for the queue,      *)
(* terminateDupServerConsumers, terminateResultServerConsumers.  Sending   *)
(* on the unbuffered terminationRequest is a step of both sides.           *)
(***************************************************************************)
ShutdownBegin ==
    /\ stopper = "idle" /\ ~crashed
    /\ stopper' = "drain"
    /\ UNCHANGED <<queue, producerVars, consumerVars, dupVars, dupTable, stopTodo, stopAt,
                   crashed>>

\* the queue is empty, or 5 seconds are over
ShutdownDrained ==
    /\ stopper = "drain" /\ ~crashed
    /\ stopper' = "dup"
    /\ stopTodo' = DupServers
    /\ UNCHANGED <<queue, producerVars, consumerVars, dupVars, dupTable, stopAt, crashed>>

\* ranging over a map: any order
TerminateDupNext(d) ==
    /\ stopper = "dup" /\ d \in stopTodo /\ ~crashed
    /\ stopper' = "dupSend"
    /\ stopAt' = d
    /\ stopTodo' = stopTodo \ {d}
    /\ UNCHANGED <<queue, producerVars, consumerVars, dupVars, dupTable, crashed>>

\* Mutant: a dup consumer that retries does not look for the request.
TerminateDupIdle ==
    /\ stopper = "dupSend" /\ ~crashed
    /\ dupConsumer[stopAt] = "select"
    /\ dupConsumer' = [dupConsumer EXCEPT ![stopAt] = "exited"]
    /\ stopper' = "dup"
    /\ stopAt' = None
    /\ UNCHANGED <<queue, producerVars, consumerVars, dupQueue, dupItem, dupAccepted,
                   dupSent, dupTable, stopTodo, crashed>>

\* the dup consumer exits; a result it could not send is lost
TerminateDup ==
    /\ stopper = "dupSend" /\ ~crashed
    /\ dupConsumer[stopAt] \in {"select", "check"}
    /\ dupConsumer' = [dupConsumer EXCEPT ![stopAt] = "exited"]
    /\ stopper' = "dup"
    /\ stopAt' = None
    /\ UNCHANGED <<queue, producerVars, consumerVars, dupQueue, dupItem, dupAccepted,
                   dupSent, dupTable, stopTodo, crashed>>

TerminateDupDone ==
    /\ stopper = "dup" /\ stopTodo = {} /\ ~crashed
    /\ dupTable' = FALSE
    /\ IF NumConsumers > 0
       THEN stopper' = "res" /\ stopAt' = 1
       ELSE stopper' = "done" /\ UNCHANGED stopAt
    /\ UNCHANGED <<queue, producerVars, consumerVars, dupVars, stopTodo, crashed>>

\* the consumers one after the other; one that was retrying drops its result
TerminateResult ==
    /\ stopper = "res" /\ ~crashed
    /\ consumer[stopAt] \in {"select", "check"}
    /\ consumer' = [consumer EXCEPT ![stopAt] = "exited"]
    /\ item' = [item EXCEPT ![stopAt] = None]
    /\ dropped' = dropped \cup ({item[stopAt]} \ {None})
    /\ IF stopAt < NumConsumers
       THEN stopAt' = stopAt + 1 /\ UNCHANGED stopper
       ELSE stopper' = "done" /\ stopAt' = None
    /\ UNCHANGED <<queue, producerVars, retries, delivered, dupVars, dupTable, stopTodo,
                   crashed>>

-----------------------------------------------------------------------------
Producer(r) ==
    \/ EnqueueServerResult(r) \/ EnqueueDone(r) \/ EnqueueDupCrash(r)
    \/ \E d \in DupServers : EnqueueDupServerResult(r, d)

Consumer(c) == TakeResult(c) \/ SendResult(c) \/ SendFails(c) \/ Retry(c)

DupConsumer(d) == DupTake(d) \/ SendResultDup(d) \/ SendResultDupFails(d) \/ DupRetry(d)

Terminator ==
    \/ ShutdownDrained \/ TerminateDup \/ TerminateDupDone \/ TerminateResult
    \/ \E d \in DupServers : TerminateDupNext(d)

Next ==
    \/ \E r \in Results : Producer(r)
    \/ \E c \in Consumers : Consumer(c)
    \/ \E d \in DupServers : DupConsumer(d)
    \/ ShutdownBegin
    \/ Terminator

(***************************************************************************)
(* Goroutines run, and network calls return (10 s timeout) with whatever   *)
(* outcome.  A termination request is taken by one of several cases of a   *)
(* select, which Go chooses at random, and a consumer that retries looks   *)
(* for the request once a second: it is possible again and again, so the   *)
(* terminator is strongly fair.                                            *)
(***************************************************************************)
Fairness ==
    /\ \A r \in Results : WF_vars(Producer(r))
    /\ \A c \in Consumers : WF_vars(Consumer(c))
    /\ \A d \in DupServers : WF_vars(DupConsumer(d))
    /\ SF_vars(Terminator)

Spec == Init /\ [][Next]_vars
FairSpec == Spec /\ Fairness

-----------------------------------------------------------------------------
ResultTypes ==
    /\ queue \in Seq(Results) /\ Len(queue) <= QueueSize
    /\ producer \in [Results -> {"new", "dup", "done"}]
    /\ dupTodo \in [Results -> SUBSET DupServers]
    /\ consumer \in [Consumers -> {"select", "send", "check", "exited"}]
    /\ item \in [Consumers -> Results \cup {None}]
    /\ retries \in [Results -> 0..(MaxRetries + 1)]
    /\ delivered \in SUBSET Results /\ dropped \in SUBSET Results

DupTypes ==
    /\ dupQueue \in [DupServers -> Seq(Results)]
    /\ \A d \in DupServers : Len(dupQueue[d]) <= Backlog
    /\ dupConsumer \in [DupServers -> {"select", "send", "check", "exited"}]
    /\ dupItem \in [DupServers -> Seq(Results)]
    /\ \A d \in DupServers : Len(dupItem[d]) <= 1
    /\ dupAccepted \in [DupServers -> Seq(Results)]
    /\ dupSent \in [DupServers -> Seq(Results)]

StopTypes ==
    /\ dupTable \in BOOLEAN /\ crashed \in BOOLEAN
    /\ stopper \in {"idle", "drain", "dup", "dupSend", "res", "done"}
    /\ stopTodo \in SUBSET DupServers
    /\ stopAt \in {None} \cup DupServers \cup Consumers

(***************************************************************************)
(* Every variable keeps its type (resultserver.go, dupserver.go); no queue *)
(* outgrows its capacity, no retry its limit.                              *)
(***************************************************************************)
TypeOK == ResultTypes /\ DupTypes /\ StopTypes

\* the places a result is in: positions of the queue and hands of consumers
Places(r) == Cardinality({i \in DOMAIN queue : queue[i] = r})
             + Cardinality({c \in Consumers : item[c] = r})

\* Conservation: between the queue, the consumers, their retries and their
\* termination a result is never duplicated and never lost sight of: an enqueued
\* result is in one place, or a gearmand has it, or a consumer dropped it.
Conservation ==
    \A r \in Results :
      /\ Places(r) <= 1
      /\ producer[r] = "new" => Places(r) = 0
      /\ producer[r] # "new" /\ Places(r) = 0 => r \in delivered \cup dropped

\* A dup server acknowledges exactly the results its backlog accepted, each once
\* and in their order, whatever fails in between: results are left out only when the
\* backlog is full, never while retrying.
DupOrder ==
    \A d \in DupServers : dupAccepted[d] = dupSent[d] \o dupItem[d] \o dupQueue[d]

fate == [r \in Results |-> CASE producer[r] = "new" -> "new"
                             [] r \in delivered -> "delivered"
                             [] r \in dropped \ delivered -> "dropped"
                             [] OTHER -> "held"]

\* The queue and its consumers implement ResultService: what was enqueued is delivered,
\* or dropped after MaxRetries + 2 failed rounds or because of the termination.
Service == INSTANCE ResultService WITH
    fate <- fate, rounds <- retries, stopping <- (stopper # "idle")
ServiceSpec == Service!Spec

\* No check hangs on a dup server: whatever the dup servers and the backlogs do, the
\* executing goroutine gets through enqueueDupServerResult, or the program ends.
DupNeverBlocks ==
    \A r \in Results : producer[r] = "dup" ~> (producer[r] = "done" \/ crashed)

\* Every result is enqueued and then delivered or dropped, however long the gearmands
\* refuse it, as long as the consumers are not being terminated.
EveryResultSettled ==
    \A r \in Results :
      (producer[r] # "done") ~> (r \in delivered \cup dropped \/ stopper # "idle")

\* Shutdown gets its termination requests through to every consumer, even to those
\* that are retrying, so the program can end.
TerminationCompletes == (stopper = "drain") ~> (stopper = "done" \/ crashed)

\* Violated.  Changes:9 "fix crash on shutdown": the executing goroutines that outlive
\* StopAllWorker's grace period find dupServerConsumers = nil (dupserver.go:99).
ShutdownNeverCrashes == ~crashed
=============================================================================
