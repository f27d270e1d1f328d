---------------------------- MODULE TrafficLight ----------------------------
(***************************************************************************)
(* task7/src/traffic_controller.c: the thread of the controller and the    *)
(* POSIX timer whose signal sets a flag. The input thread is commented out *)
(* in main, so that nobody else uses the mutex or sets a request.          *)
(***************************************************************************)
VARIABLES
  current, nextState,  (* shared_data.current_state and next_state         *)
  expired,             (* timer_expired                                    *)
  nsec,                (* its.it_value.tv_nsec is one that timer_settime takes *)
  armed,               (* the timer runs                                   *)
  pc

vars == <<current, nextState, expired, nsec, armed, pc>>

States == {"STATE_INIT", "STATE_NS_GREEN", "STATE_NS_YELLOW", "STATE_ALL_RED"}

Init ==
  /\ current = "STATE_INIT" /\ nextState = "STATE_ALL_RED"
  /\ expired = FALSE /\ nsec = FALSE /\ armed = FALSE
  /\ pc = "print"

(* print_lights shows the state, under the mutex. *)
Show ==
  /\ pc = "print"
  /\ current' = nextState
  /\ pc' = "switch"
  /\ UNCHANGED <<nextState, expired, nsec, armed>>

Successor(s) == IF s = "STATE_NS_GREEN" THEN "STATE_NS_YELLOW" ELSE "STATE_ALL_RED"

(* Only the case of STATE_NS_GREEN sets tv_nsec. In the default branch it  *)
(* is what happens to be on the stack.                                     *)
Switch ==
  /\ pc = "switch"
  /\ expired' = FALSE
  /\ nextState' = Successor(current)
  /\ nsec' \in IF current = "STATE_NS_GREEN" THEN {TRUE} ELSE BOOLEAN
  /\ pc' = "arm"
  /\ UNCHANGED <<current, armed>>

(* Mutant: the flag is reset when the timer already runs. *)
ArmAndReset ==
  \/ /\ pc = "arm"
     /\ armed' = nsec
     /\ pc' = "reset"
     /\ UNCHANGED <<current, nextState, expired, nsec>>
  \/ /\ pc = "reset"
     /\ expired' = FALSE
     /\ pc' = "wait"
     /\ UNCHANGED <<current, nextState, nsec, armed>>

(* timer_settime refuses a tv_nsec that is none (EINVAL), which nobody     *)
(* looks at: the one-shot timer stays off.                                 *)
Arm ==
  /\ pc = "arm"
  /\ armed' = nsec
  /\ pc' = "wait"
  /\ UNCHANGED <<current, nextState, expired, nsec>>

(* SIGRTMIN and its handler. *)
Tick ==
  /\ armed
  /\ armed' = FALSE
  /\ expired' = TRUE
  /\ UNCHANGED <<current, nextState, nsec, pc>>

Waited ==
  /\ pc = "wait" /\ expired
  /\ pc' = "print"
  /\ UNCHANGED <<current, nextState, expired, nsec, armed>>

Step == Show \/ Switch \/ Arm \/ Waited

Next == Step \/ Tick

Spec == Init /\ [][Next]_vars

(* The thread runs, and a timer that runs expires. *)
FairSpec == Spec /\ WF_vars(Step) /\ WF_vars(Tick)
-----------------------------------------------------------------------------
TypeOK ==
  /\ {current, nextState} \subseteq States
  /\ {expired, nsec, armed} \subseteq BOOLEAN
  /\ pc \in {"print", "switch", "arm", "wait"}

(* The lights go on for ever, unless timer_settime was called with an      *)
(* uninitialised tv_nsec that it refuses (traffic_controller.c:61-76).     *)
StandsOnlyUnarmed == []<>(pc = "print" \/ (pc = "wait" /\ ~nsec))
=============================================================================
