---------------------------- MODULE ResultService ----------------------------
(***************************************************************************)
(* What resultserver.go promises the executing goroutines about a result   *)
(* they hand over: it reaches a gearmand, at least once, or it is dropped, *)
(* and it is dropped only because every gearmand refused it MaxRetries + 2 *)
(* times in a row or because the program is stopping.                      *)
(***************************************************************************)
EXTENDS Naturals

CONSTANTS Results, MaxRetries

VARIABLES
    fate,       \* per result: "new", "held", "delivered" or "dropped"
    rounds,     \* per result: failed rounds over all servers
    stopping    \* the consumers are being terminated

vars == <<fate, rounds, stopping>>

Init ==
    /\ fate = [r \in Results |-> "new"]
    /\ rounds = [r \in Results |-> 0]
    /\ stopping = FALSE

Accept(r) ==
    /\ fate[r] = "new"
    /\ fate' = [fate EXCEPT ![r] = "held"]
    /\ UNCHANGED <<rounds, stopping>>

\* a gearmand takes the result; the round may count as failed all the same
Deliver(r) ==
    /\ fate[r] = "held"
    /\ fate' = [fate EXCEPT ![r] = "delivered"]
    /\ \/ UNCHANGED rounds
       \/ rounds[r] <= MaxRetries /\ rounds' = [rounds EXCEPT ![r] = @ + 1]
    /\ UNCHANGED stopping

\* no gearmand took it, or none said so
FailRound(r) ==
    /\ fate[r] \in {"held", "delivered"} /\ rounds[r] <= MaxRetries
    /\ rounds' = [rounds EXCEPT ![r] = @ + 1]
    /\ UNCHANGED <<fate, stopping>>

GiveUp(r) ==
    /\ fate[r] = "held"
    /\ rounds[r] = MaxRetries + 1 \/ (stopping /\ rounds[r] > 0)
    /\ fate' = [fate EXCEPT ![r] = "dropped"]
    /\ UNCHANGED <<rounds, stopping>>

Stop ==
    /\ stopping' = TRUE
    /\ UNCHANGED <<fate, rounds>>

Next ==
    \/ \E r \in Results : Accept(r) \/ Deliver(r) \/ FailRound(r) \/ GiveUp(r)
    \/ Stop

Spec == Init /\ [][Next]_vars
=============================================================================
