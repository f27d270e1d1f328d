----------------------------- MODULE MCTimedWait -----------------------------
(* Model checking of the timed waits by themselves. *)
EXTENDS TimedWait
=============================================================================
