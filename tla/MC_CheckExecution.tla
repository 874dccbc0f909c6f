------------------------- MODULE MC_CheckExecution -------------------------
(* CheckExecution for model checking: a check of any kind, plain, or negated with
   "-o 2 -c OK -u 0 -T CRITICAL".  Checks share ePNStarted only, and a restart
   pattern in the daemon's log resets it like another check would. *)
EXTENDS CheckExecution

MCKinds == [Jobs -> {"exec", "internal", "epn"}]
Inverted == [status |-> [c \in 0..3 |-> CASE c = 0 -> "2" [] c = 1 -> Unset [] c = 2 -> "OK" [] c = 3 -> "0"],
             timeout |-> "CRITICAL"]
MCNegates == [Jobs -> {NoNegate, Inverted}]
=============================================================================
