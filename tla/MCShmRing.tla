----------------------------- MODULE MCShmRing -----------------------------
(* Model checking of the shared-memory ring; the instances are the .cfg    *)
(* files MCShmRing_*.cfg.                                                  *)
EXTENDS ShmRing
=============================================================================
