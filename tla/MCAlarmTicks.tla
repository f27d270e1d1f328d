---------------------------- MODULE MCAlarmTicks ----------------------------
(* Model checking of int.c with a message every EVENTS signals. *)
EXTENDS AlarmTicks
=============================================================================
