---------------------------- MODULE MCCondvarFsm ----------------------------
(* Model checking of condvar.c. *)
EXTENDS CondvarFsm
=============================================================================
