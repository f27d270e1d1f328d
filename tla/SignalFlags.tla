---------------------------- MODULE SignalFlags ----------------------------
(***************************************************************************)
(* task1/src/interrupt/intsimple.c: signal handlers set flags; the main    *)
(* loop looks at each flag in turn, reports it and polls the keyboard. A   *)
(* handler may run between any two steps.                                  *)
(***************************************************************************)
EXTENDS Naturals

CONSTANT SIGNALS   (* the signals with a handler, four in the code         *)

Signals == 1 .. SIGNALS

VARIABLES
  got,       (* the flags got_sigint, got_sigterm, ...                     *)
  due,       (* history: signals that came after their last report         *)
  at, pc,    (* the signal and the step that main is at                    *)
  raw        (* the terminal is in raw mode                                *)

vars == <<got, due, at, pc, raw>>

Init ==
  /\ got = [s \in Signals |-> FALSE] /\ due = [s \in Signals |-> FALSE]
  /\ at = 1 /\ pc = "start" /\ raw = FALSE

(* Without a terminal the program gives up. *)
EnableRawMode ==
  /\ pc = "start"
  /\ \/ pc' = "install" /\ raw' = TRUE
     \/ pc' = "done" /\ UNCHANGED raw
  /\ UNCHANGED <<got, due, at>>

(* sigaction for one signal. *)
Install ==
  /\ pc = "install"
  /\ IF at = SIGNALS THEN at' = 1 /\ pc' = "test" ELSE at' = at + 1 /\ UNCHANGED pc
  /\ UNCHANGED <<got, due, raw>>

ToNextFlag ==
  IF at = SIGNALS THEN at' = 1 /\ pc' = "key" ELSE at' = at + 1 /\ pc' = "test"

Test ==
  /\ pc = "test"
  /\ IF got[at] THEN pc' = "reset" /\ UNCHANGED at ELSE ToNextFlag
  /\ UNCHANGED <<got, due, raw>>

(* Mutant: the flag is reset after the report, not before it. *)
ResetLate ==
  \/ /\ pc = "reset"
     /\ due' = [due EXCEPT ![at] = FALSE]
     /\ pc' = "late"
     /\ UNCHANGED <<got, at, raw>>
  \/ /\ pc = "late"
     /\ got' = [got EXCEPT ![at] = FALSE]
     /\ ToNextFlag
     /\ UNCHANGED <<due, raw>>

Reset ==
  /\ pc = "reset"
  /\ got' = [got EXCEPT ![at] = FALSE]
  /\ pc' = "report"
  /\ UNCHANGED <<due, at, raw>>

Report ==
  /\ pc = "report"
  /\ due' = [due EXCEPT ![at] = FALSE]
  /\ ToNextFlag
  /\ UNCHANGED <<got, raw>>

(* No key, a key that is echoed, or `q' or an error; atexit restores the   *)
(* terminal.                                                               *)
Key ==
  /\ pc = "key"
  /\ \/ pc' = "test" /\ UNCHANGED raw
     \/ pc' = "done" /\ raw' = FALSE
  /\ UNCHANGED <<got, due, at>>

HasHandler(s) ==
  IF pc = "install" THEN s < at ELSE pc \notin {"start", "done"}

Signal(s) ==
  /\ HasHandler(s)
  /\ got' = [got EXCEPT ![s] = TRUE]
  /\ due' = [due EXCEPT ![s] = TRUE]
  /\ UNCHANGED <<at, pc, raw>>

(* A signal that has no handler yet ends the process as it is. *)
EarlySignal(s) ==
  /\ pc # "done" /\ ~HasHandler(s)
  /\ pc' = "done"
  /\ UNCHANGED <<got, due, at, raw>>

Step == EnableRawMode \/ Install \/ Test \/ Reset \/ Report \/ Key

Next == Step \/ \E s \in Signals : Signal(s) \/ EarlySignal(s)

Spec == Init /\ [][Next]_vars
-----------------------------------------------------------------------------
TypeOK ==
  /\ got \in [Signals -> BOOLEAN] /\ due \in [Signals -> BOOLEAN]
  /\ at \in Signals
  /\ pc \in {"start", "install", "test", "reset", "report", "key", "done"}
  /\ raw \in BOOLEAN

(* A signal that comes between the test of its flag and the report of an   *)
(* earlier one is not forgotten: it is reported later, or its report is    *)
(* the next step (intsimple.c:37-40, 64-67).                               *)
NoSignalLost == \A s \in Signals : due[s] => got[s] \/ (pc = "report" /\ at = s)
=============================================================================
