----------------------------- MODULE StateCycle -----------------------------
(* The state machine that the heading of task1/src/shared_mem/condvar.c    *)
(* promises: 0 -> 1, then 1 -> 2 on even and 1 -> 3 on odd passes, and     *)
(* back to 0 from 2 and from 3; it never stops.                            *)
EXTENDS Naturals

VARIABLES
  at,      (* the current state                                   *)
  even     (* the next pass through state 1 is an even one        *)

cycleVars == <<at, even>>

CycleInit == at = 0 /\ even = TRUE

Leave0 == at = 0 /\ at' = 1 /\ UNCHANGED even
Leave1 == at = 1 /\ at' = (IF even THEN 2 ELSE 3) /\ even' = ~even
Return == at \in {2, 3} /\ at' = 0 /\ UNCHANGED even

CycleNext == Leave0 \/ Leave1 \/ Return

CycleSafety == CycleInit /\ [][CycleNext]_cycleVars
CycleSpec == CycleSafety /\ WF_cycleVars(CycleNext)
=============================================================================
