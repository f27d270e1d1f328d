-------------------------------- MODULE MCLab --------------------------------
(* Model checking of the programs, one at a time. *)
EXTENDS Lab

\* The calls of busy_ms, 5, 200 and 1 in the code.
Sleeps == [t \in {"server", "t1", "t2"} |->
             IF t = "server" THEN 2 ELSE IF t = "t1" THEN 3 ELSE 1]
=============================================================================
