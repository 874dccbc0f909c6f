---------------------------- MODULE ClientTools ----------------------------
(***************************************************************************)
(* The client tools, one of which is run: send_gearman, gearman_top or     *)
(* check_gearman.  The others stay in a state that they start in.          *)
(***************************************************************************)
EXTENDS SendGearman, GearmanTop, CheckGearman

VARIABLE tool

vars == <<tool, sendGearmanVars, gearmanTopVars, checkGearmanVars>>

SendGearmanIdle == SendGearmanStart("lines", CHOOSE input \in Inputs : TRUE, {})

GearmanTopIdle == GearmanTopStart("down")

CheckGearmanIdle ==
    CheckGearmanStart(CHOOSE args \in ArgSets : TRUE, CHOOSE rows \in Statuses : TRUE)

Init ==
    \/ tool = "send_gearman" /\ SendGearmanInit /\ GearmanTopIdle /\ CheckGearmanIdle
    \/ tool = "gearman_top" /\ SendGearmanIdle /\ GearmanTopInit /\ CheckGearmanIdle
    \/ tool = "check_gearman" /\ SendGearmanIdle /\ GearmanTopIdle /\ CheckGearmanInit

Next ==
    \/ /\ tool = "send_gearman" /\ SendGearmanNext
       /\ UNCHANGED <<tool, gearmanTopVars, checkGearmanVars>>
    \/ /\ tool = "gearman_top" /\ GearmanTopNext
       /\ UNCHANGED <<tool, sendGearmanVars, checkGearmanVars>>
    \/ /\ tool = "check_gearman" /\ CheckGearmanNext
       /\ UNCHANGED <<tool, sendGearmanVars, gearmanTopVars>>

\* The goroutines of send_gearman run, the timer of a read fires, and a request fails at
\* ResponseTimeout.  A gearmand that does not hang answers gearman_top.  Go lets goroutines
\* that read from one connection take turns (a lock with a queue), so that none of them
\* waits for ever while others read.
Fairness ==
    /\ WF_sendGearmanVars(tool = "send_gearman" /\ Reader)
    /\ WF_sendGearmanVars(tool = "send_gearman" /\ ReadTimeout)
    /\ WF_sendGearmanVars(tool = "send_gearman" /\ Sender)
    /\ \A h \in Hosts : SF_gearmanTopVars(tool = "gearman_top" /\ HostGoroutine(h))
    /\ \A c \in Conns :
         WF_gearmanTopVars(tool = "gearman_top" /\ (Answer(c) \/ AnswerRest(c)))

Spec == Init /\ [][Next]_vars /\ Fairness

-----------------------------------------------------------------------------
\* send_gearman ends, whatever stdin and the gearmands do (send_gearman.go:22-40, 133-230).
SendGearmanEnds == <>(tool = "send_gearman" => exitCode # -1)

\* Once gearmand stays up gearman_top shows its latest status again and again, under one of
\* the names it was given at least (gearman_top.go:190-200, statusAdmin.go:141-165), and
\* does not go on with answers to earlier queries.  The status is shown if rows of it are: a
\* table that is cut at the end of a line, or that begins with rows of an older answer, is
\* taken for it.
LatestStatusShown ==
    tool = "gearman_top" /\ <>[](server = "up") =>
      []<>(\E h \in Hosts : printMap[h] = version)
=============================================================================
