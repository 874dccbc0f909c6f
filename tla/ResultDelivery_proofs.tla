----------------------- MODULE ResultDelivery_proofs -----------------------
(***************************************************************************)
(* Theorems about ResultDelivery, for any results, consumers, dup servers, *)
(* capacities and retries: its type invariant, that results are neither    *)
(* lost nor doubled, that dup servers get theirs in order, and that the    *)
(* queue with its consumers implements ResultService.                      *)
(***************************************************************************)
EXTENDS ResultDelivery, SequenceTheorems, FiniteSetTheorems, TLAPS

-----------------------------------------------------------------------------
(***************************************************************************)
(* The inductive invariant.  That a result is in at most one place can     *)
(* only be kept up if a new one is nowhere yet (Kept), and that a consumer *)
(* drops what is still undecided only if no other one holds the same.      *)
(***************************************************************************)

Queued(r) == \E i \in DOMAIN queue : queue[i] = r
Held(r) == \E c \in Consumers : item[c] = r

\* the receiver of a termination request exists
StopPlace ==
  /\ stopper = "dupSend" => stopAt \in DupServers
  /\ stopper = "res" => stopAt \in Consumers

\* a consumer that is sending or retrying has something to send, the others have not;
\* the result it retries has failed before
Holding ==
  \A c \in Consumers :
    /\ consumer[c] \in {"send", "check"} <=> item[c] # None
    /\ consumer[c] = "check" => retries[item[c]] > 0

DupHolding ==
  \A d \in DupServers :
    /\ dupConsumer[d] \in {"send", "check"} => Len(dupItem[d]) = 1
    /\ dupConsumer[d] = "select" => dupItem[d] = <<>>

\* no two places hold the same result
Once ==
  /\ \A i, k \in DOMAIN queue : queue[i] = queue[k] => i = k
  /\ \A c, e \in Consumers : item[c] = item[e] /\ item[c] # None => c = e
  /\ \A i \in DOMAIN queue, c \in Consumers : queue[i] # item[c]

\* a new result is nowhere, any other one is somewhere
Kept ==
  \A r \in Results :
    producer[r] # "new" <=> Queued(r) \/ Held(r) \/ r \in delivered \cup dropped

\* what waits in the queue is undecided, what a consumer holds is not dropped
Undecided ==
  /\ \A i \in DOMAIN queue : queue[i] \notin delivered \cup dropped
  /\ \A c \in Consumers : item[c] \notin dropped

QueueInv == TypeOK /\ StopPlace /\ Holding /\ Once /\ Kept /\ Undecided

DupInv == DupHolding /\ DupOrder

-----------------------------------------------------------------------------
LEMMA InitInvariant == Init => QueueInv /\ DupInv
  <1> SUFFICES ASSUME Init PROVE QueueInv /\ DupInv
    OBVIOUS
  <1> USE ResultDeliveryAssumption DEF Init
  <1>1. TypeOK
    <2>1. ResultTypes
      BY EmptySeq DEF ResultTypes
    <2>2. DupTypes
      BY EmptySeq DEF DupTypes
    <2>3. StopTypes
      BY DEF StopTypes
    <2> QED
      BY <2>1, <2>2, <2>3 DEF TypeOK
  <1>2. StopPlace /\ Holding
    BY DEF StopPlace, Holding
  <1>3. Once /\ Kept /\ Undecided
    BY DEF Once, Kept, Undecided, Queued, Held
  <1>4. DupHolding /\ DupOrder
    BY DEF DupHolding, DupOrder
  <1> QED
    BY <1>1, <1>2, <1>3, <1>4 DEF QueueInv, DupInv

-----------------------------------------------------------------------------
(***************************************************************************)
(* Sequences: what Append and Tail make of a queue.                        *)
(***************************************************************************)
LEMMA AppendElements ==
  ASSUME NEW S, NEW s \in Seq(S), NEW e \in S
  PROVE  /\ Append(s, e) \in Seq(S)
         /\ Len(Append(s, e)) = Len(s) + 1
         /\ DOMAIN s = 1..Len(s) /\ Len(s) \in Nat
         /\ DOMAIN Append(s, e) = 1..(Len(s) + 1)
         /\ \A i \in 1..Len(s) : Append(s, e)[i] = s[i]
         /\ Append(s, e)[Len(s) + 1] = e
  BY AppendProperties, LenProperties

LEMMA TailElements ==
  ASSUME NEW S, NEW s \in Seq(S), s # <<>>
  PROVE  /\ Head(s) \in S /\ Tail(s) \in Seq(S)
         /\ Head(s) = s[1] /\ 1 \in DOMAIN s
         /\ DOMAIN s = 1..Len(s) /\ Len(s) \in Nat \ {0}
         /\ Len(Tail(s)) = Len(s) - 1
         /\ DOMAIN Tail(s) = 1..(Len(s) - 1)
         /\ \A i \in 1..(Len(s) - 1) : Tail(s)[i] = s[i + 1]
  BY HeadTailProperties, LenProperties, EmptySeq

-----------------------------------------------------------------------------
(***************************************************************************)
(* The result queue and its consumers.                                     *)
(***************************************************************************)
LEMMA ProducerStep ==
  ASSUME QueueInv, NEW r \in Results, Producer(r)
  PROVE  QueueInv'
  <1> USE ResultDeliveryAssumption DEF QueueInv, TypeOK
  <1>1. CASE EnqueueServerResult(r)
    <2> USE <1>1 DEF EnqueueServerResult
    <2>1. /\ queue' = Append(queue, r) /\ producer[r] = "new" /\ Len(queue) < QueueSize
          /\ producer' = [producer EXCEPT ![r] = "dup"]
          /\ UNCHANGED <<consumer, item, retries, delivered, dropped, stopper, stopAt>>
      BY DEF consumerVars, stopVars
    <2>2. /\ queue' \in Seq(Results) /\ Len(queue') = Len(queue) + 1
          /\ DOMAIN queue = 1..Len(queue) /\ Len(queue) \in Nat
          /\ DOMAIN queue' = 1..(Len(queue) + 1)
          /\ \A i \in 1..Len(queue) : queue'[i] = queue[i]
          /\ queue'[Len(queue) + 1] = r
      BY <2>1, AppendElements DEF ResultTypes
    <2>3. TypeOK'
      <3>1. ResultTypes'
        BY <2>1, <2>2 DEF ResultTypes
      <3>2. DupTypes' /\ StopTypes'
        BY DEF DupTypes, StopTypes, dupVars, stopVars
      <3> QED
        BY <3>1, <3>2
    <2>4. StopPlace' /\ Holding'
      BY <2>1 DEF StopPlace, Holding
    <2>5. ~Queued(r) /\ ~Held(r) /\ r \notin delivered \cup dropped
      BY <2>1 DEF Kept
    <2>6. Once'
      BY <2>1, <2>2, <2>5 DEF Once, Queued, Held
    <2>7. Kept'
      <3>1. ASSUME NEW x \in Results
            PROVE  Queued(x)' <=> Queued(x) \/ x = r
        BY <2>2 DEF Queued
      <3> QED
        BY <2>1, <2>5, <3>1 DEF Kept, Held, ResultTypes
    <2>8. Undecided'
      BY <2>1, <2>2, <2>5 DEF Undecided
    <2> QED
      BY <2>3, <2>4, <2>6, <2>7, <2>8
  <1>2. ASSUME /\ EnqueueDone(r) \/ EnqueueDupCrash(r)
                    \/ \E d \in DupServers : EnqueueDupServerResult(r, d)
               /\ TypeOK'
        PROVE  QueueInv'
    <2>1. /\ UNCHANGED <<queue, consumer, item, retries, delivered, dropped, stopper, stopAt>>
          /\ producer[r] = "dup" /\ producer' \in {producer, [producer EXCEPT ![r] = "done"]}
      BY <1>2 DEF EnqueueDone, EnqueueDupCrash, EnqueueDupServerResult, producerVars,
                  consumerVars, stopVars
    <2>2. StopPlace' /\ Holding' /\ Once' /\ Undecided'
      BY <2>1 DEF StopPlace, Holding, Once, Undecided
    <2>3. Kept'
      BY <2>1 DEF Kept, Queued, Held, ResultTypes
    <2> QED
      BY <1>2, <2>2, <2>3
  <1>3. ASSUME EnqueueDone(r) \/ EnqueueDupCrash(r) PROVE TypeOK'
    <2>1. ResultTypes'
      BY <1>3 DEF EnqueueDone, EnqueueDupCrash, ResultTypes, producerVars, consumerVars
    <2>2. DupTypes'
      BY <1>3 DEF EnqueueDone, EnqueueDupCrash, DupTypes, dupVars
    <2>3. StopTypes'
      BY <1>3 DEF EnqueueDone, EnqueueDupCrash, StopTypes, stopVars
    <2> QED
      BY <2>1, <2>2, <2>3
  <1>4. ASSUME NEW d \in DupServers, EnqueueDupServerResult(r, d) PROVE TypeOK'
    <2>1. ResultTypes' /\ StopTypes'
      BY <1>4 DEF EnqueueDupServerResult, ResultTypes, StopTypes, consumerVars, stopVars
    <2>2. DupTypes'
      <3>1. CASE Len(dupQueue[d]) < Backlog
        <4>1. /\ Append(dupQueue[d], r) \in Seq(Results) /\ Len(dupQueue[d]) \in Nat
              /\ Len(Append(dupQueue[d], r)) = Len(dupQueue[d]) + 1
              /\ Append(dupAccepted[d], r) \in Seq(Results)
          BY AppendElements DEF DupTypes
        <4>2. PICK q \in Seq(Results), a \in Seq(Results) :
                 /\ q = Append(dupQueue[d], r) /\ a = Append(dupAccepted[d], r)
                 /\ Len(q) <= Backlog
          <5>1. Len(Append(dupQueue[d], r)) <= Backlog
            BY <3>1, <4>1
          <5> QED
            BY <4>1, <5>1, Zenon
        <4>3. /\ dupQueue' = [dupQueue EXCEPT ![d] = q]
              /\ dupAccepted' = [dupAccepted EXCEPT ![d] = a]
              /\ UNCHANGED <<dupConsumer, dupItem, dupSent>>
          BY <1>4, <3>1, <4>2 DEF EnqueueDupServerResult
        <4>4. \A e \in DupServers : Len(dupQueue'[e]) <= Backlog
          BY <4>2, <4>3 DEF DupTypes
        <4> QED
          BY <4>3, <4>4 DEF DupTypes
      <3>2. CASE ~(Len(dupQueue[d]) < Backlog)
        BY <1>4, <3>2 DEF EnqueueDupServerResult, DupTypes
      <3> QED
        BY <3>1, <3>2
    <2> QED
      BY <2>1, <2>2
  <1> QED
    BY <1>1, <1>2, <1>3, <1>4 DEF Producer

LEMMA ConsumerStep ==
  ASSUME QueueInv, NEW c \in Consumers, Consumer(c)
  PROVE  QueueInv'
  <1> USE ResultDeliveryAssumption DEF QueueInv, TypeOK
  <1>1. CASE TakeResult(c)
    <2> USE <1>1 DEF TakeResult
    <2>1. /\ consumer[c] = "select" /\ queue # <<>>
          /\ item' = [item EXCEPT ![c] = Head(queue)]
          /\ queue' = Tail(queue)
          /\ consumer' = [consumer EXCEPT ![c] = "send"]
          /\ UNCHANGED <<producer, dupTodo, retries, delivered, dropped, stopper, stopAt>>
      BY DEF producerVars, stopVars
    <2>2. /\ Head(queue) \in Results /\ queue' \in Seq(Results)
          /\ Head(queue) = queue[1] /\ 1 \in DOMAIN queue
          /\ DOMAIN queue = 1..Len(queue) /\ Len(queue) \in Nat \ {0}
          /\ Len(queue') = Len(queue) - 1
          /\ DOMAIN queue' = 1..(Len(queue) - 1)
          /\ \A i \in 1..(Len(queue) - 1) : queue'[i] = queue[i + 1]
      BY <2>1, TailElements DEF ResultTypes
    <2>3. TypeOK'
      <3>1. ResultTypes'
        BY <2>1, <2>2 DEF ResultTypes
      <3>2. DupTypes' /\ StopTypes'
        BY DEF DupTypes, StopTypes, dupVars, stopVars
      <3> QED
        BY <3>1, <3>2
    <2>4. item[c] = None /\ Head(queue) # None
      BY <2>1, <2>2 DEF Holding, ResultTypes
    <2>5. StopPlace' /\ Holding'
      BY <2>1, <2>2, <2>4 DEF StopPlace, Holding, ResultTypes
    <2>6. Once'
      <3>1. \A i, k \in DOMAIN queue' : queue'[i] = queue'[k] => i = k
        BY <2>2 DEF Once
      <3>0. /\ \A a \in Consumers : item'[a] = IF a = c THEN queue[1] ELSE item[a]
            /\ \A a \in Consumers : item[a] # queue[1]
        BY <2>1, <2>2 DEF Once, ResultTypes
      <3>2. \A a, b \in Consumers : item'[a] = item'[b] /\ item'[a] # None => a = b
        BY <3>0 DEF Once
      <3>3. \A i \in DOMAIN queue', a \in Consumers : queue'[i] # item'[a]
        <4> SUFFICES ASSUME NEW i \in DOMAIN queue', NEW a \in Consumers
                     PROVE  queue'[i] # item'[a]
          OBVIOUS
        <4>1. queue'[i] = queue[i + 1] /\ i + 1 \in DOMAIN queue /\ i + 1 # 1
          BY <2>2
        <4>2. queue[i + 1] # queue[1] /\ queue[i + 1] # item[a]
          BY <2>2, <4>1 DEF Once
        <4> QED
          BY <3>0, <4>1, <4>2
      <3> QED
        BY <3>1, <3>2, <3>3 DEF Once
    <2>7. Kept'
      <3> SUFFICES ASSUME NEW x \in Results
                   PROVE  Queued(x)' \/ Held(x)' <=> Queued(x) \/ Held(x)
        BY <2>1 DEF Kept
      <3>1. Queued(x) => Queued(x)' \/ x = Head(queue)
        <4> SUFFICES ASSUME NEW i \in DOMAIN queue, queue[i] = x, i # 1
                     PROVE  Queued(x)'
          BY <2>2 DEF Queued
        <4>1. i - 1 \in DOMAIN queue' /\ queue'[i - 1] = queue[i]
          BY <2>2
        <4> QED
          BY <4>1 DEF Queued
      <3>2. Queued(x)' => Queued(x)
        BY <2>2 DEF Queued
      <3>3. x = Head(queue) => Queued(x)
        BY <2>2 DEF Queued
      <3>4. Held(x)' <=> Held(x) \/ x = Head(queue)
        BY <2>1, <2>4 DEF Held, ResultTypes
      <3> QED
        BY <3>1, <3>2, <3>3, <3>4
    <2>8. Undecided'
      <3>1. \A a \in Consumers : item'[a] = IF a = c THEN queue[1] ELSE item[a]
        BY <2>1, <2>2 DEF ResultTypes
      <3>2. \A i \in DOMAIN queue' : \E k \in DOMAIN queue : queue'[i] = queue[k]
        BY <2>2
      <3> QED
        BY <2>1, <2>2, <3>1, <3>2 DEF Undecided
    <2> QED
      BY <2>3, <2>5, <2>6, <2>7, <2>8
  <1>2. CASE SendResult(c)
    <2> USE <1>2 DEF SendResult
    <2>1. item[c] \in Results
      BY DEF Holding, ResultTypes
    <2>2. TypeOK'
      <3>1. ResultTypes'
        BY <2>1 DEF ResultTypes, producerVars
      <3>2. DupTypes' /\ StopTypes'
        BY DEF DupTypes, StopTypes, dupVars, stopVars
      <3> QED
        BY <3>1, <3>2
    <2>3. StopPlace' /\ Holding'
      BY DEF StopPlace, Holding, ResultTypes, stopVars
    <2>4. Once' /\ Undecided'
      BY <2>1 DEF Once, Undecided, ResultTypes
    <2>5. Kept'
      BY <2>1 DEF Kept, Queued, Held, ResultTypes, producerVars
    <2> QED
      BY <2>2, <2>3, <2>4, <2>5
  <1>3. CASE SendFails(c)
    <2>1. /\ consumer[c] = "send" /\ item[c] \in Results
          /\ UNCHANGED <<queue, producerVars, dupVars, stopVars, crashed>>
      BY <1>3 DEF SendFails, Holding, ResultTypes
    <2>2. PICK got \in SUBSET {item[c]} : delivered' = delivered \cup got
      BY <1>3 DEF SendFails
    <2>3. DupTypes' /\ StopTypes' /\ StopPlace'
      BY <2>1 DEF DupTypes, StopTypes, StopPlace, dupVars, stopVars
    <2>4. CASE retries[item[c]] > MaxRetries
      <3>1. /\ consumer' = [consumer EXCEPT ![c] = "select"]
            /\ item' = [item EXCEPT ![c] = None]
            /\ dropped' = dropped \cup {item[c]} /\ retries' = retries
        BY <1>3, <2>4 DEF SendFails
      <3>2. ResultTypes'
        BY <2>1, <2>2, <3>1 DEF ResultTypes, producerVars
      <3>3. Holding'
        BY <2>1, <3>1 DEF Holding, ResultTypes
      <3>4. Once' /\ Undecided'
        BY <2>1, <2>2, <3>1 DEF Once, Undecided, ResultTypes
      <3>5. Kept'
        BY <2>1, <2>2, <3>1 DEF Kept, Queued, Held, ResultTypes, producerVars
      <3> QED
        BY <2>3, <3>2, <3>3, <3>4, <3>5
    <2>5. CASE ~(retries[item[c]] > MaxRetries)
      <3>1. /\ consumer' = [consumer EXCEPT ![c] = "check"]
            /\ retries' = [retries EXCEPT ![item[c]] = @ + 1]
            /\ item' = item /\ dropped' = dropped
        BY <1>3, <2>5 DEF SendFails
      <3>2. ResultTypes'
        BY <2>1, <2>2, <2>5, <3>1 DEF ResultTypes, producerVars
      <3>3. Holding'
        BY <2>1, <3>1 DEF Holding, Once, ResultTypes
      <3>4. Once' /\ Undecided'
        BY <2>1, <2>2, <3>1 DEF Once, Undecided, ResultTypes
      <3>5. Kept'
        BY <2>1, <2>2, <3>1 DEF Kept, Queued, Held, ResultTypes, producerVars
      <3> QED
        BY <2>3, <3>2, <3>3, <3>4, <3>5
    <2> QED
      BY <2>4, <2>5
  <1>4. CASE Retry(c)
    <2>1. /\ consumer[c] = "check" /\ consumer' = [consumer EXCEPT ![c] = "send"]
          /\ UNCHANGED <<queue, producer, dupTodo, item, retries, delivered, dropped, dupVars,
                         stopVars, crashed>>
      BY <1>4 DEF Retry, producerVars
    <2>2. ResultTypes'
      BY <2>1 DEF ResultTypes
    <2>3. DupTypes' /\ StopTypes' /\ StopPlace'
      BY <2>1 DEF DupTypes, StopTypes, StopPlace, dupVars, stopVars
    <2>4. Holding'
      BY <2>1 DEF Holding, ResultTypes
    <2>5. Once' /\ Kept' /\ Undecided'
      BY <2>1 DEF Once, Kept, Undecided, Queued, Held
    <2> QED
      BY <2>2, <2>3, <2>4, <2>5
  <1> QED
    BY <1>1, <1>2, <1>3, <1>4 DEF Consumer

-----------------------------------------------------------------------------
(***************************************************************************)
(* The dup consumers, and the termination of all consumers.                *)
(***************************************************************************)
LEMMA DupConsumerStep ==
  ASSUME QueueInv, DupHolding, NEW d \in DupServers, DupConsumer(d)
  PROVE  QueueInv' /\ DupHolding'
  <1> USE ResultDeliveryAssumption DEF QueueInv, TypeOK
  <1>1. UNCHANGED <<queue, producerVars, consumerVars, stopVars, crashed>>
    BY DEF DupConsumer, DupTake, SendResultDup, SendResultDupFails, DupRetry
  <1>2. ResultTypes' /\ StopTypes' /\ StopPlace' /\ Holding' /\ Once' /\ Kept' /\ Undecided'
    BY <1>1 DEF ResultTypes, StopTypes, StopPlace, Holding, Once, Kept, Undecided, Queued,
                Held, producerVars, consumerVars, stopVars
  <1>3. CASE DupTake(d)
    <2>1. PICK h \in Seq(Results), t \in Seq(Results) :
             /\ h = <<Head(dupQueue[d])>> /\ t = Tail(dupQueue[d])
             /\ Len(h) = 1 /\ Len(t) <= Backlog
      <3>1. /\ Head(dupQueue[d]) \in Results /\ Tail(dupQueue[d]) \in Seq(Results)
            /\ Len(Tail(dupQueue[d])) = Len(dupQueue[d]) - 1 /\ Len(dupQueue[d]) \in Nat
            /\ Len(dupQueue[d]) <= Backlog
        BY <1>3, TailElements DEF DupTake, DupTypes
      <3>2. <<Head(dupQueue[d])>> \in Seq(Results) /\ Len(<<Head(dupQueue[d])>>) = 1
        BY <3>1
      <3>3. Len(Tail(dupQueue[d])) <= Backlog
        BY <3>1
      <3> QED
        BY <3>1, <3>2, <3>3, Zenon
    <2>2. /\ dupItem' = [dupItem EXCEPT ![d] = h] /\ dupQueue' = [dupQueue EXCEPT ![d] = t]
          /\ dupConsumer' = [dupConsumer EXCEPT ![d] = "send"]
          /\ UNCHANGED <<dupAccepted, dupSent>>
      BY <1>3, <2>1 DEF DupTake
    <2>3. DupTypes'
      BY <2>1, <2>2 DEF DupTypes
    <2>4. DupHolding'
      BY <2>1, <2>2 DEF DupHolding, DupTypes
    <2> QED
      BY <1>2, <2>3, <2>4
  <1>4. CASE SendResultDup(d)
    <2>1. PICK s \in Seq(Results) : s = dupSent[d] \o dupItem[d]
      BY ConcatProperties DEF DupTypes
    <2>2. /\ dupSent' = [dupSent EXCEPT ![d] = s]
          /\ dupItem' = [dupItem EXCEPT ![d] = <<>>]
          /\ dupConsumer' = [dupConsumer EXCEPT ![d] = "select"]
          /\ UNCHANGED <<dupQueue, dupAccepted>>
      BY <1>4, <2>1 DEF SendResultDup
    <2>3. <<>> \in Seq(Results) /\ Len(<<>>) = 0
      BY EmptySeq
    <2>4. DupTypes'
      BY <2>1, <2>2, <2>3 DEF DupTypes
    <2>5. DupHolding'
      BY <2>2 DEF DupHolding, DupTypes
    <2> QED
      BY <1>2, <2>4, <2>5
  <1>5. CASE SendResultDupFails(d) \/ DupRetry(d)
    <2>1. /\ UNCHANGED <<dupQueue, dupItem, dupAccepted, dupSent>>
          /\ dupConsumer[d] \in {"send", "check"}
          /\ \E l \in {"send", "check"} : dupConsumer' = [dupConsumer EXCEPT ![d] = l]
      BY <1>5 DEF SendResultDupFails, DupRetry
    <2>2. DupTypes'
      BY <2>1 DEF DupTypes
    <2>3. DupHolding'
      BY <2>1 DEF DupHolding, DupTypes
    <2> QED
      BY <1>2, <2>2, <2>3
  <1> QED
    BY <1>3, <1>4, <1>5 DEF DupConsumer

LEMMA TerminateResultStep ==
  ASSUME QueueInv, TerminateResult
  PROVE  QueueInv'
  <1> USE ResultDeliveryAssumption DEF QueueInv, TypeOK
  <1>1. stopAt \in Consumers
    BY DEF TerminateResult, StopPlace
  <1>2. /\ consumer[stopAt] \in {"select", "check"}
        /\ consumer' = [consumer EXCEPT ![stopAt] = "exited"]
        /\ item' = [item EXCEPT ![stopAt] = None]
        /\ dropped' = dropped \cup ({item[stopAt]} \ {None})
        /\ UNCHANGED <<queue, producerVars, retries, delivered, dupVars, dupTable, stopTodo,
                       crashed>>
    BY DEF TerminateResult
  <1>3. /\ stopAt' \in {None} \cup Consumers /\ stopper' \in {stopper, "done"}
        /\ stopper = "res" /\ (stopper' = "res" => stopAt' \in Consumers)
    BY <1>1 DEF TerminateResult, Consumers
  <1>4. StopTypes' /\ StopPlace' /\ DupTypes'
    BY <1>2, <1>3 DEF StopTypes, StopPlace, DupTypes, dupVars
  <1>5. ResultTypes'
    BY <1>1, <1>2 DEF ResultTypes, producerVars
  <1>6. Holding'
    BY <1>1, <1>2 DEF Holding, ResultTypes
  <1>7. Once' /\ Undecided'
    BY <1>1, <1>2 DEF Once, Undecided, ResultTypes
  <1>8. Kept'
    BY <1>1, <1>2 DEF Kept, Queued, Held, ResultTypes, producerVars
  <1> QED
    BY <1>4, <1>5, <1>6, <1>7, <1>8

LEMMA StopStep ==
  ASSUME QueueInv, DupHolding, ShutdownBegin \/ Terminator
  PROVE  QueueInv' /\ DupHolding'
  <1> USE ResultDeliveryAssumption DEF QueueInv, TypeOK
  <1>1. CASE TerminateResult
    <2>1. DupHolding'
      BY <1>1 DEF TerminateResult, DupHolding, dupVars
    <2> QED
      BY <1>1, <2>1, TerminateResultStep
  <1>2. ASSUME ~TerminateResult
        PROVE  /\ UNCHANGED <<queue, producerVars, consumerVars, crashed>>
               /\ StopTypes' /\ StopPlace'
    <2>1. CASE ShutdownBegin \/ ShutdownDrained
      BY <2>1 DEF ShutdownBegin, ShutdownDrained, StopTypes, StopPlace
    <2>2. CASE TerminateDup
      BY <2>2 DEF TerminateDup, StopTypes, StopPlace
    <2>3. CASE TerminateDupDone
      <3>1. /\ UNCHANGED <<queue, producerVars, consumerVars, crashed>>
            /\ dupTable' = FALSE /\ stopTodo' = stopTodo
            /\ \/ NumConsumers > 0 /\ stopper' = "res" /\ stopAt' = 1
               \/ stopper' = "done" /\ stopAt' = stopAt
        BY <2>3 DEF TerminateDupDone
      <3>2. NumConsumers > 0 => 1 \in Consumers
        BY DEF Consumers
      <3> QED
        BY <3>1, <3>2 DEF StopTypes, StopPlace
    <2>4. CASE \E d \in DupServers : TerminateDupNext(d)
      BY <2>4 DEF TerminateDupNext, StopTypes, StopPlace
    <2> QED
      BY <1>2, <2>1, <2>2, <2>3, <2>4 DEF Terminator
  <1>3. ASSUME ~TerminateResult PROVE DupTypes' /\ DupHolding'
    <2>1. CASE TerminateDup
      <3>1. /\ stopAt \in DupServers
            /\ dupConsumer' = [dupConsumer EXCEPT ![stopAt] = "exited"]
            /\ UNCHANGED <<dupQueue, dupItem, dupAccepted, dupSent>>
        BY <2>1 DEF TerminateDup, StopPlace
      <3> QED
        BY <3>1 DEF DupTypes, DupHolding
    <2>2. CASE ~TerminateDup
      <3>1. UNCHANGED dupVars
        BY <1>3, <2>2 DEF Terminator, ShutdownBegin, ShutdownDrained, TerminateDupDone,
                          TerminateDupNext
      <3> QED
        BY <3>1 DEF DupTypes, DupHolding, dupVars
    <2> QED
      BY <2>1, <2>2
  <1>4. ASSUME ~TerminateResult PROVE ResultTypes' /\ Holding' /\ Once' /\ Kept' /\ Undecided'
    BY <1>2, <1>4 DEF ResultTypes, Holding, Once, Kept, Undecided, Queued, Held, producerVars,
                      consumerVars
  <1> QED
    BY <1>1, <1>2, <1>3, <1>4

LEMMA QueueStep ==
  ASSUME QueueInv, DupHolding, [Next]_vars
  PROVE  QueueInv' /\ DupHolding'
  <1>1. ASSUME NEW r \in Results, Producer(r) PROVE QueueInv' /\ DupHolding'
    <2>1. UNCHANGED <<dupConsumer, dupItem>>
      BY <1>1 DEF Producer, EnqueueServerResult, EnqueueDone, EnqueueDupCrash,
                  EnqueueDupServerResult, dupVars
    <2> QED
      BY <1>1, <2>1, ProducerStep DEF DupHolding
  <1>2. ASSUME NEW c \in Consumers, Consumer(c) PROVE QueueInv' /\ DupHolding'
    <2>1. UNCHANGED <<dupConsumer, dupItem>>
      BY <1>2 DEF Consumer, TakeResult, SendResult, SendFails, Retry, dupVars
    <2> QED
      BY <1>2, <2>1, ConsumerStep DEF DupHolding
  <1>3. CASE UNCHANGED vars
    BY <1>3 DEF vars, producerVars, consumerVars, dupVars, stopVars, QueueInv, TypeOK,
                ResultTypes, DupTypes, StopTypes, StopPlace, Holding, Once, Kept, Undecided,
                Queued, Held, DupHolding
  <1> QED
    BY <1>1, <1>2, <1>3, DupConsumerStep, StopStep DEF Next

(***************************************************************************)
(* The invariant holds throughout.                                         *)
(***************************************************************************)
THEOREM Invariance == Spec => [](QueueInv /\ DupHolding)
  <1>1. Init => QueueInv /\ DupHolding
    BY InitInvariant DEF DupInv
  <1>2. (QueueInv /\ DupHolding) /\ [Next]_vars => (QueueInv /\ DupHolding)'
    BY QueueStep
  <1> QED
    BY <1>1, <1>2, PTL DEF Spec

(***************************************************************************)
(* Every variable keeps its type, no queue outgrows its capacity and no    *)
(* retry its limit (resultserver.go:108, dupserver.go:100).                *)
(***************************************************************************)
THEOREM TypeCorrect == Spec => []TypeOK
  <1>1. QueueInv => TypeOK
    BY DEF QueueInv
  <1> QED
    BY <1>1, Invariance, PTL

-----------------------------------------------------------------------------
(***************************************************************************)
(* The order of dup results: what was accepted is at any time what was     *)
(* sent, then what the consumer holds, then the backlog.                   *)
(***************************************************************************)
LEMMA AppendToBacklog ==
  ASSUME NEW r \in Results
  PROVE  \A s, t, q \in Seq(Results) : Append((s \o t) \o q, r) = (s \o t) \o Append(q, r)
  <1> SUFFICES ASSUME NEW s \in Seq(Results), NEW t \in Seq(Results), NEW q \in Seq(Results)
               PROVE  Append((s \o t) \o q, r) = (s \o t) \o Append(q, r)
    OBVIOUS
  <1>1. s \o t \in Seq(Results) /\ (s \o t) \o q \in Seq(Results) /\ <<r>> \in Seq(Results)
    BY ConcatProperties
  <1>2. Append((s \o t) \o q, r) = ((s \o t) \o q) \o <<r>>
    BY <1>1, AppendIsConcat
  <1>3. Append(q, r) = q \o <<r>>
    BY AppendIsConcat
  <1>4. ((s \o t) \o q) \o <<r>> = (s \o t) \o (q \o <<r>>)
    BY <1>1, ConcatAssociative
  <1> QED
    BY <1>2, <1>3, <1>4, Zenon

LEMMA TakeFromBacklog ==
  ASSUME NEW S, NEW s \in Seq(S), NEW q \in Seq(S), q # <<>>
  PROVE  (s \o <<>>) \o q = (s \o <<Head(q)>>) \o Tail(q)
  <1>1. Head(q) \in S /\ Tail(q) \in Seq(S) /\ <<Head(q)>> \in Seq(S)
    BY HeadTailProperties
  <1>2. <<Head(q)>> \o Tail(q) = q
    <2>1. /\ <<Head(q)>> \o Tail(q) \in Seq(S)
          /\ Len(<<Head(q)>>) = 1 /\ Len(Tail(q)) = Len(q) - 1 /\ Len(q) \in Nat \ {0}
          /\ Len(<<Head(q)>> \o Tail(q)) = Len(<<Head(q)>>) + Len(Tail(q))
      BY <1>1, ConcatProperties, TailElements
    <2>2. ASSUME NEW i \in 1..Len(q) PROVE (<<Head(q)>> \o Tail(q))[i] = q[i]
      <3>1. (<<Head(q)>> \o Tail(q))[i] = IF i <= 1 THEN <<Head(q)>>[i] ELSE Tail(q)[i - 1]
        BY <1>1, <2>1, ConcatProperties
      <3>2. CASE i = 1
        BY <3>1, <3>2, TailElements
      <3>3. CASE i # 1
        <4>1. i - 1 \in 1..(Len(q) - 1) /\ ~(i <= 1) /\ (i - 1) + 1 = i
          BY <2>1, <3>3
        <4> QED
          BY <3>1, <4>1, TailElements
      <3> QED
        BY <3>2, <3>3
    <2> QED
      BY <2>1, <2>2, SeqEqual
  <1>3. s \o <<>> = s
    BY ConcatEmptySeq
  <1> QED
    BY <1>1, <1>2, <1>3, ConcatAssociative

LEMMA DupOrderStep ==
  ASSUME QueueInv, DupHolding, DupOrder, [Next]_vars
  PROVE  DupOrder'
  <1> USE DEF QueueInv, TypeOK
  <1>1. ASSUME NEW r \in Results, NEW d \in DupServers, EnqueueDupServerResult(r, d)
        PROVE  DupOrder'
    <2>1. CASE Len(dupQueue[d]) < Backlog
      <3>1. /\ dupQueue' = [dupQueue EXCEPT ![d] = Append(dupQueue[d], r)]
            /\ dupAccepted' = [dupAccepted EXCEPT ![d] = Append(dupAccepted[d], r)]
            /\ UNCHANGED <<dupItem, dupSent>>
        BY <1>1, <2>1 DEF EnqueueDupServerResult
      <3>2. /\ dupSent[d] \in Seq(Results) /\ dupItem[d] \in Seq(Results)
            /\ dupQueue[d] \in Seq(Results)
            /\ dupAccepted[d] = (dupSent[d] \o dupItem[d]) \o dupQueue[d]
        BY DEF DupTypes, DupOrder
      <3>3. Append((dupSent[d] \o dupItem[d]) \o dupQueue[d], r)
              = (dupSent[d] \o dupItem[d]) \o Append(dupQueue[d], r)
        <4> HIDE DEF QueueInv, TypeOK
        <4>1. \A s, t, q \in Seq(Results) :
                 Append((s \o t) \o q, r) = (s \o t) \o Append(q, r)
          BY AppendToBacklog, Zenon
        <4> QED
          BY <3>2, <4>1, Zenon
      <3>4. Append(dupAccepted[d], r) = (dupSent[d] \o dupItem[d]) \o Append(dupQueue[d], r)
        BY <3>2, <3>3, Zenon
      <3> QED
        BY <3>1, <3>4, Zenon DEF DupTypes, DupOrder
    <2>2. CASE ~(Len(dupQueue[d]) < Backlog)
      BY <1>1, <2>2 DEF EnqueueDupServerResult, DupOrder
    <2> QED
      BY <2>1, <2>2
  <1>2. ASSUME NEW d \in DupServers, DupTake(d) PROVE DupOrder'
    <2>1. /\ dupItem[d] = <<>> /\ dupQueue[d] # <<>>
          /\ dupItem' = [dupItem EXCEPT ![d] = <<Head(dupQueue[d])>>]
          /\ dupQueue' = [dupQueue EXCEPT ![d] = Tail(dupQueue[d])]
          /\ UNCHANGED <<dupAccepted, dupSent>>
      BY <1>2 DEF DupTake, DupHolding
    <2>2. /\ dupSent[d] \in Seq(Results) /\ dupQueue[d] \in Seq(Results)
          /\ dupAccepted[d] = (dupSent[d] \o <<>>) \o dupQueue[d]
      BY <2>1 DEF DupTypes, DupOrder
    <2>3. (dupSent[d] \o <<>>) \o dupQueue[d]
            = (dupSent[d] \o <<Head(dupQueue[d])>>) \o Tail(dupQueue[d])
      BY <2>1, <2>2, TakeFromBacklog, Zenon
    <2>4. dupAccepted[d] = (dupSent[d] \o <<Head(dupQueue[d])>>) \o Tail(dupQueue[d])
      BY <2>2, <2>3, Zenon
    <2> QED
      BY <2>1, <2>4, Zenon DEF DupTypes, DupOrder
  <1>3. ASSUME NEW d \in DupServers, SendResultDup(d) PROVE DupOrder'
    <2>1. /\ dupSent' = [dupSent EXCEPT ![d] = dupSent[d] \o dupItem[d]]
          /\ dupItem' = [dupItem EXCEPT ![d] = <<>>]
          /\ UNCHANGED <<dupQueue, dupAccepted>>
      BY <1>3 DEF SendResultDup
    <2>2. (dupSent[d] \o dupItem[d]) \o <<>> = dupSent[d] \o dupItem[d]
      BY ConcatProperties, ConcatEmptySeq DEF DupTypes
    <2>3. dupAccepted[d] = ((dupSent[d] \o dupItem[d]) \o <<>>) \o dupQueue[d]
      BY <2>2 DEF DupOrder
    <2> QED
      BY <2>1, <2>3, Zenon DEF DupTypes, DupOrder
  <1>4. ASSUME UNCHANGED <<dupQueue, dupItem, dupAccepted, dupSent>> PROVE DupOrder'
    BY <1>4 DEF DupOrder
  <1>5. CASE \E r \in Results : Producer(r)
    <2>1. ASSUME NEW r \in Results,
                 EnqueueServerResult(r) \/ EnqueueDone(r) \/ EnqueueDupCrash(r)
          PROVE  UNCHANGED <<dupQueue, dupItem, dupAccepted, dupSent>>
      BY <2>1 DEF EnqueueServerResult, EnqueueDone, EnqueueDupCrash, dupVars
    <2> QED
      BY <1>1, <1>4, <1>5, <2>1 DEF Producer
  <1>6. CASE \E d \in DupServers : DupConsumer(d)
    <2>1. ASSUME NEW d \in DupServers, SendResultDupFails(d) \/ DupRetry(d)
          PROVE  UNCHANGED <<dupQueue, dupItem, dupAccepted, dupSent>>
      BY <2>1 DEF SendResultDupFails, DupRetry
    <2> QED
      BY <1>2, <1>3, <1>4, <1>6, <2>1 DEF DupConsumer
  <1>7. CASE (\E c \in Consumers : Consumer(c)) \/ ShutdownBegin \/ Terminator \/ UNCHANGED vars
    <2>1. CASE \E c \in Consumers : Consumer(c)
      BY <1>4, <2>1 DEF Consumer, TakeResult, SendResult, SendFails, Retry, dupVars
    <2>2. CASE ShutdownBegin \/ Terminator
      BY <1>4, <2>2 DEF ShutdownBegin, Terminator, ShutdownDrained, TerminateDup,
                        TerminateDupDone, TerminateDupNext, TerminateResult, dupVars
    <2>3. CASE UNCHANGED vars
      BY <1>4, <2>3 DEF vars, dupVars
    <2> QED
      BY <1>7, <2>1, <2>2, <2>3
  <1> QED
    BY <1>5, <1>6, <1>7 DEF Next

(***************************************************************************)
(* Dup servers acknowledge what their backlog accepted, each result once   *)
(* and in order, whatever fails and whatever is terminated (dupserver.go). *)
(***************************************************************************)
THEOREM DupInOrder == Spec => []DupOrder
  <1>1. Init => DupOrder
    BY InitInvariant DEF DupInv
  <1>2. (QueueInv /\ DupHolding) /\ DupOrder /\ [Next]_vars => DupOrder'
    BY DupOrderStep
  <1> QED
    BY <1>1, <1>2, Invariance, PTL DEF Spec

-----------------------------------------------------------------------------
(***************************************************************************)
(* Conservation: results are neither lost nor doubled inside the program   *)
(* (resultserver.go:62-136), for any number of results and consumers.      *)
(***************************************************************************)
THEOREM NothingLostOrDoubled == Spec => []Conservation
  <1>1. QueueInv => Conservation
    <2> SUFFICES ASSUME QueueInv, NEW r \in Results
                 PROVE  /\ Places(r) <= 1
                        /\ producer[r] = "new" => Places(r) = 0
                        /\ producer[r] # "new" /\ Places(r) = 0 => r \in delivered \cup dropped
      BY DEF Conservation
    <2> DEFINE Q == {i \in DOMAIN queue : queue[i] = r}
               H == {c \in Consumers : item[c] = r}
    <2>1. r # None
      BY ResultDeliveryAssumption
    <2>2. Q = {} \/ \E i : Q = {i}
      BY DEF QueueInv, Once
    <2>3. H = {} \/ \E c : H = {c}
      BY <2>1 DEF QueueInv, Once
    <2>4. Q = {} \/ H = {}
      BY DEF QueueInv, Once
    <2>5. Cardinality(Q) = IF Q = {} THEN 0 ELSE 1
      BY <2>2, FS_EmptySet, FS_Singleton
    <2>6. Cardinality(H) = IF H = {} THEN 0 ELSE 1
      BY <2>3, FS_EmptySet, FS_Singleton
    <2>7. Places(r) = Cardinality(Q) + Cardinality(H)
      BY DEF Places
    <2>8. Places(r) = 0 <=> ~Queued(r) /\ ~Held(r)
      BY <2>5, <2>6, <2>7 DEF Queued, Held
    <2>9. Places(r) <= 1
      BY <2>4, <2>5, <2>6, <2>7
    <2> QED
      BY <2>8, <2>9 DEF QueueInv, Kept
  <1> QED
    BY <1>1, Invariance, PTL

-----------------------------------------------------------------------------
(***************************************************************************)
(* The queue with its consumers implements ResultService.                  *)
(***************************************************************************)

\* the fate of a result, its cases in an order
FateOf(r) ==
  IF producer[r] = "new" THEN "new"
  ELSE IF r \in delivered THEN "delivered"
  ELSE IF r \in dropped THEN "dropped" ELSE "held"

\* a step that changes the fate of r at most
LEMMA FateChange ==
  ASSUME QueueInv, QueueInv', NEW r \in Results,
         \A x \in Results \ {r} : FateOf(x)' = FateOf(x)
  PROVE  /\ fate[r] = FateOf(r)
         /\ fate' = [fate EXCEPT ![r] = FateOf(r)']
         /\ FateOf(r)' = FateOf(r) => fate' = fate
  <1>1. \A x \in Results : fate[x] = FateOf(x)
    BY DEF fate, FateOf, QueueInv, Kept
  <1>2. \A x \in Results : fate'[x] = FateOf(x)'
    BY DEF fate, FateOf, QueueInv, Kept
  <1>3. DOMAIN fate = Results /\ DOMAIN fate' = Results
    BY DEF fate
  <1>4. fate = [x \in Results |-> fate[x]] /\ fate' = [x \in Results |-> fate'[x]]
    BY DEF fate
  <1>5. fate' = [x \in Results |-> IF x = r THEN FateOf(r)' ELSE fate[x]]
    BY <1>1, <1>2, <1>4
  <1> QED
    BY <1>1, <1>3, <1>4, <1>5

LEMMA ServiceStep ==
  ASSUME QueueInv, QueueInv', Next
  PROVE  [Service!Next]_(Service!vars)
  <1> DEFINE stopping == stopper # "idle"
  <1>1. SUFFICES \/ UNCHANGED <<fate, retries, stopping>>
                 \/ \E r \in Results : \/ Service!Accept(r) \/ Service!Deliver(r)
                                       \/ Service!FailRound(r) \/ Service!GiveUp(r)
                 \/ Service!Stop
    BY DEF Service!Next, Service!vars
  <1>2. ASSUME NEW r \in Results, \A x \in Results \ {r} : FateOf(x)' = FateOf(x),
               FateOf(r)' = FateOf(r)
        PROVE  fate' = fate
    BY <1>2, FateChange
  <1>3. ASSUME NEW r \in Results, EnqueueServerResult(r) PROVE Service!Accept(r)
    <2>1. /\ producer[r] = "new" /\ producer' = [producer EXCEPT ![r] = "dup"]
          /\ UNCHANGED <<retries, delivered, dropped, stopper>>
      BY <1>3 DEF EnqueueServerResult, consumerVars, stopVars
    <2>2. FateOf(r) = "new" /\ FateOf(r)' = "held"
      BY <2>1 DEF FateOf, QueueInv, Kept, TypeOK, ResultTypes
    <2>3. \A x \in Results \ {r} : FateOf(x)' = FateOf(x)
      BY <2>1 DEF FateOf, QueueInv, TypeOK, ResultTypes
    <2> QED
      BY <2>1, <2>2, <2>3, FateChange DEF Service!Accept
  <1>4. ASSUME NEW r \in Results,
               /\ UNCHANGED <<delivered, dropped, retries>> /\ stopping' = stopping
               /\ producer[r] = "dup"
               /\ producer' \in {producer, [producer EXCEPT ![r] = "done"]}
        PROVE  UNCHANGED <<fate, retries, stopping>>
    <2>1. \A x \in Results : FateOf(x)' = FateOf(x)
      BY <1>4 DEF FateOf, QueueInv, TypeOK, ResultTypes
    <2> QED
      BY <1>2, <1>4, <2>1
  <1>5. CASE \E r \in Results : Producer(r)
    <2>1. PICK r \in Results : Producer(r)
      BY <1>5
    <2>2. CASE ~EnqueueServerResult(r)
      BY <1>4, <2>1, <2>2 DEF Producer, EnqueueDone, EnqueueDupCrash, EnqueueDupServerResult,
                              producerVars, consumerVars, stopVars
    <2> QED
      BY <1>1, <1>3, <2>1, <2>2
  <1>6. ASSUME UNCHANGED <<producer, delivered, dropped>> PROVE fate' = fate
    BY <1>6 DEF fate
  <1>7. ASSUME NEW r \in Results, FateOf(r) \in {"held", "delivered"},
               \A x \in Results \ {r} : FateOf(x)' = FateOf(x),
               stopping' = stopping,
               \/ FateOf(r)' = "delivered" /\ retries' = retries
               \/ /\ FateOf(r)' \in {"delivered", FateOf(r)}
                  /\ retries[r] <= MaxRetries
                  /\ retries' = [retries EXCEPT ![r] = @ + 1]
               \/ /\ FateOf(r)' = FateOf(r) \/ (FateOf(r) = "held" /\ FateOf(r)' = "dropped")
                  /\ retries' = retries
                  /\ retries[r] = MaxRetries + 1 \/ (stopping /\ retries[r] > 0)
        PROVE  \/ UNCHANGED <<fate, retries, stopping>>
               \/ Service!Deliver(r) \/ Service!FailRound(r) \/ Service!GiveUp(r)
    <2>1. /\ fate[r] = FateOf(r) /\ fate' = [fate EXCEPT ![r] = FateOf(r)']
          /\ FateOf(r)' = FateOf(r) => fate' = fate
      BY <1>7, FateChange
    <2>2. CASE FateOf(r)' = FateOf(r) /\ retries' = retries
      BY <1>7, <2>1, <2>2
    <2>3. CASE FateOf(r)' # FateOf(r) /\ FateOf(r)' = "delivered"
      BY <1>7, <2>1, <2>3 DEF Service!Deliver
    <2>4. CASE FateOf(r)' = FateOf(r) /\ retries' # retries
      BY <1>7, <2>1, <2>4 DEF Service!FailRound
    <2>5. CASE FateOf(r)' # FateOf(r) /\ FateOf(r)' # "delivered"
      BY <1>7, <2>1, <2>5 DEF Service!GiveUp
    <2> QED
      BY <2>2, <2>3, <2>4, <2>5
  <1>8. ASSUME NEW c \in Consumers, item[c] # None
        PROVE  /\ item[c] \in Results /\ producer[item[c]] # "new" /\ item[c] \notin dropped
               /\ FateOf(item[c]) \in {"held", "delivered"}
    <2>1. item[c] \in Results /\ Held(item[c])
      BY <1>8 DEF QueueInv, TypeOK, ResultTypes, Held
    <2>2. producer[item[c]] # "new" /\ item[c] \notin dropped
      BY <2>1 DEF QueueInv, Kept, Undecided
    <2> QED
      BY <2>1, <2>2 DEF FateOf
  <1>9. CASE \E c \in Consumers : Consumer(c)
    <2>1. PICK c \in Consumers : Consumer(c)
      BY <1>9
    <2>2. CASE TakeResult(c) \/ Retry(c)
      <3>1. UNCHANGED <<producer, delivered, dropped, retries, stopper>>
        BY <2>2 DEF TakeResult, Retry, producerVars, stopVars
      <3> QED
        BY <1>1, <1>6, <3>1
    <2>3. CASE SendResult(c) \/ SendFails(c)
      <3>1. consumer[c] = "send" /\ producer' = producer /\ stopping' = stopping
        BY <2>3 DEF SendResult, SendFails, producerVars, stopVars
      <3>2. PICK r \in Results : /\ r = item[c] /\ producer[r] # "new" /\ r \notin dropped
                                 /\ FateOf(r) \in {"held", "delivered"}
        BY <3>1, <1>8 DEF QueueInv, Holding
      <3>3. CASE SendResult(c)
        <4>1. delivered' = delivered \cup {r} /\ UNCHANGED <<dropped, retries>>
          BY <3>2, <3>3 DEF SendResult
        <4>2. FateOf(r)' = "delivered" /\ \A x \in Results \ {r} : FateOf(x)' = FateOf(x)
          BY <3>1, <3>2, <4>1 DEF FateOf
        <4> QED
          BY <1>1, <1>7, <3>1, <3>2, <4>1, <4>2
      <3>4. CASE SendFails(c) /\ retries[r] <= MaxRetries
        <4>1. PICK got \in SUBSET {r} : delivered' = delivered \cup got
          BY <3>2, <3>4 DEF SendFails
        <4>2. dropped' = dropped /\ retries' = [retries EXCEPT ![r] = @ + 1]
          BY <3>2, <3>4, ResultDeliveryAssumption
          DEF SendFails, QueueInv, TypeOK, ResultTypes
        <4>3. /\ FateOf(r)' \in {"delivered", FateOf(r)}
              /\ \A x \in Results \ {r} : FateOf(x)' = FateOf(x)
          BY <3>1, <3>2, <4>1, <4>2 DEF FateOf
        <4> QED
          BY <1>1, <1>7, <3>1, <3>2, <3>4, <4>2, <4>3
      <3>5. CASE SendFails(c) /\ ~(retries[r] <= MaxRetries)
        <4>1. PICK got \in SUBSET {r} : delivered' = delivered \cup got
          BY <3>2, <3>5 DEF SendFails
        <4>2. /\ retries[r] = MaxRetries + 1 /\ retries' = retries
              /\ dropped' = dropped \cup {r}
          BY <3>2, <3>5, ResultDeliveryAssumption
          DEF SendFails, QueueInv, TypeOK, ResultTypes
        <4>3. /\ \/ FateOf(r)' = "delivered"
                 \/ FateOf(r) = "held" /\ FateOf(r)' = "dropped"
              /\ \A x \in Results \ {r} : FateOf(x)' = FateOf(x)
          BY <3>1, <3>2, <4>1, <4>2 DEF FateOf
        <4> QED
          BY <1>1, <1>7, <3>1, <3>2, <4>2, <4>3
      <3> QED
        BY <2>3, <3>3, <3>4, <3>5
    <2> QED
      BY <2>1, <2>2, <2>3 DEF Consumer
  <1>10. CASE \E d \in DupServers : DupConsumer(d)
    <2>1. UNCHANGED <<producer, delivered, dropped, retries, stopper>>
      BY <1>10 DEF DupConsumer, DupTake, SendResultDup, SendResultDupFails, DupRetry,
                   producerVars, consumerVars, stopVars
    <2> QED
      BY <1>1, <1>6, <2>1
  <1>11. CASE ShutdownBegin
    <2>1. stopping' = TRUE /\ UNCHANGED <<producer, delivered, dropped, retries>>
      BY <1>11 DEF ShutdownBegin, producerVars, consumerVars
    <2> QED
      BY <1>1, <1>6, <2>1 DEF Service!Stop
  <1>12. CASE TerminateResult
    <2>1. /\ stopping /\ stopping' /\ UNCHANGED <<producer, delivered, retries>>
          /\ stopAt \in Consumers /\ consumer[stopAt] \in {"select", "check"}
          /\ dropped' = dropped \cup ({item[stopAt]} \ {None})
      BY <1>12 DEF TerminateResult, QueueInv, StopPlace, producerVars
    <2>2. CASE item[stopAt] = None
      BY <1>1, <1>6, <2>1, <2>2
    <2>3. CASE item[stopAt] # None
      <3>1. PICK r \in Results : /\ r = item[stopAt] /\ producer[r] # "new" /\ r \notin dropped
                                 /\ FateOf(r) \in {"held", "delivered"}
        BY <1>8, <2>1, <2>3
      <3>2. retries[r] > 0 /\ dropped' = dropped \cup {r}
        BY <2>1, <2>3, <3>1 DEF QueueInv, Holding
      <3>3. /\ FateOf(r)' = FateOf(r) \/ (FateOf(r) = "held" /\ FateOf(r)' = "dropped")
            /\ \A x \in Results \ {r} : FateOf(x)' = FateOf(x)
        BY <2>1, <3>1, <3>2 DEF FateOf
      <3> QED
        BY <1>1, <1>7, <2>1, <3>1, <3>2, <3>3
    <2> QED
      BY <2>2, <2>3
  <1>13. CASE Terminator /\ ~TerminateResult
    <2>1. stopping' = stopping /\ UNCHANGED <<producer, delivered, dropped, retries>>
      BY <1>13 DEF Terminator, ShutdownDrained, TerminateDup, TerminateDupDone,
                   TerminateDupNext, producerVars, consumerVars
    <2> QED
      BY <1>1, <1>6, <2>1
  <1> QED
    BY <1>5, <1>9, <1>10, <1>11, <1>12, <1>13 DEF Next

\* What resultserver.go promises the executing goroutines holds of its queue, its
\* consumers and their termination: a result that was enqueued reaches a gearmand, or is
\* dropped after MaxRetries + 2 failed rounds or because the program is stopping.
THEOREM Implements == Spec => ServiceSpec
  <1>1. Init => Service!Init
    BY DEF Init, Service!Init, fate
  <1>2. QueueInv /\ QueueInv' /\ [Next]_vars => [Service!Next]_(Service!vars)
    <2> SUFFICES ASSUME QueueInv, QueueInv', [Next]_vars
                 PROVE  [Service!Next]_(Service!vars)
      OBVIOUS
    <2>1. CASE Next
      BY <2>1, ServiceStep
    <2>2. CASE UNCHANGED vars
      BY <2>2 DEF vars, producerVars, consumerVars, stopVars, Service!vars, fate
    <2> QED
      BY <2>1, <2>2
  <1> QED
    BY <1>1, <1>2, Invariance, PTL DEF Spec, ServiceSpec, Service!Spec
=============================================================================
