----------------------------- MODULE AlarmTicks -----------------------------
(***************************************************************************)
(* task1/src/interrupt/int.c: a periodic timer whose handler counts and    *)
(* prints a message every EVENTS signals, and a main that waits in pause.  *)
(***************************************************************************)
EXTENDS Naturals

CONSTANTS
  EVENTS,      (* signals for a message, 100 in the code                   *)
  MESSAGES,    (* rounds of the loop in main, 10 in the code               *)
  MaxLate      (* bound: signals that come while main is not in pause      *)

VARIABLES
  counter, messages,  (* of the handler; the messages it has printed       *)
  i, pc,              (* main: the round, its next step                    *)
  late                (* used up part of MaxLate                           *)

vars == <<counter, messages, i, pc, late>>

Init == counter = 0 /\ messages = 0 /\ i = 0 /\ pc = "loop" /\ late = 0

(* on_alarm; SIGALRM is blocked meanwhile. *)
OnAlarm ==
  IF counter + 1 = EVENTS
    THEN counter' = 0 /\ messages' = messages + 1
    ELSE counter' = counter + 1 /\ UNCHANGED messages

(* pause returns after any signal that was handled. *)
Tick ==
  /\ pc = "pause"
  /\ OnAlarm
  /\ i' = i + 1 /\ pc' = "loop"
  /\ UNCHANGED late

(* main is between two calls of pause. *)
LateTick ==
  /\ pc = "loop" /\ late < MaxLate
  /\ OnAlarm
  /\ late' = late + 1
  /\ UNCHANGED <<i, pc>>

Pause ==
  /\ pc = "loop" /\ i < MESSAGES
  /\ pc' = "pause"
  /\ UNCHANGED <<counter, messages, i, late>>

(* The timer is stopped. *)
Stop ==
  /\ pc = "loop" /\ i = MESSAGES
  /\ pc' = "done"
  /\ UNCHANGED <<counter, messages, i, late>>

Next == Tick \/ LateTick \/ Pause \/ Stop

Spec == Init /\ [][Next]_vars

(* main runs, and the timer goes on. *)
FairSpec == Spec /\ WF_vars(Pause \/ Stop) /\ WF_vars(Tick)
-----------------------------------------------------------------------------
TypeOK ==
  /\ counter \in 0 .. EVENTS - 1
  /\ messages * EVENTS + counter = i + late
  /\ i \in 0 .. MESSAGES /\ late \in 0 .. MaxLate
  /\ pc \in {"loop", "pause", "done"}

MainEnds == <>[](pc = "done")

(* "We wait for 10 messages of 100 events => 1000 ticks" (int.c:35). *)
WaitsForMessages == pc = "done" => messages = MESSAGES
=============================================================================
