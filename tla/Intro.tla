------------------------------- MODULE Intro -------------------------------
(***************************************************************************)
(* task1/src/intro/intro.c: sense reads characters and tells stateOutput   *)
(* of each change of the state through a flag and a condition variable.    *)
(* userInterface only reads `state', and main waits for a signal.          *)
(*                                                                         *)
(* What a thread does with the mutex held is one step: apart from the      *)
(* first statement of stateOutput nothing is written without it.           *)
(***************************************************************************)
EXTENDS Naturals

CONSTANT MaxSpuriousWakes   (* bound: wakeups without a signal             *)

VARIABLES
  state,     (* a character                                                *)
  prevState, (* of sense                                                   *)
  changed,
  pc,        (* stateOutput: its next step                                 *)
  shown,     (* the state that stateOutput printed last                    *)
  wakes      (* used up part of MaxSpuriousWakes                           *)

vars == <<state, prevState, changed, pc, shown, wakes>>

(* Two of the three states, one of them in both cases, and what is none.   *)
RealStates == {"N", "n", "R"}
Chars == RealStates \cup {"x"}
Blank == " "

(* `state ^ ' '' toggles the case of a letter. *)
SameState(a, b) == a = b \/ {a, b} = {"N", "n"}

Init ==
  /\ state = "N" /\ prevState = Blank
  /\ changed = FALSE
  /\ pc = "start" /\ shown = Blank /\ wakes = 0

(* A character comes. Even one that is no state is followed by a notice    *)
(* when it is the first, as prevState is still blank. At the end of the    *)
(* input scanf leaves in tempState what happens to be on the stack.        *)
Sense(tempState) ==
  /\ state' = IF tempState \in RealStates THEN tempState ELSE state
  /\ prevState' = state'
  /\ IF SameState(prevState, state') THEN UNCHANGED <<changed, pc>>
     ELSE changed' = TRUE /\ pc' = IF pc = "waiting" THEN "lock" ELSE pc
  /\ UNCHANGED <<shown, wakes>>

(* `changed = FALSE' without the mutex. *)
Start ==
  /\ pc = "start"
  /\ changed' = FALSE
  /\ pc' = "lock"
  /\ UNCHANGED <<state, prevState, shown, wakes>>

(* pthread_mutex_lock or the return of pthread_cond_wait, and the test. *)
Wait ==
  /\ pc = "lock" /\ ~changed
  /\ pc' = "waiting"
  /\ UNCHANGED <<state, prevState, changed, shown, wakes>>

(* Mutant: the flag is reset after the mutex has been released. *)
OutputResetLate ==
  /\ \/ /\ pc = "lock" /\ changed
        /\ shown' = state /\ pc' = "reset" /\ UNCHANGED changed
     \/ /\ pc = "reset"
        /\ changed' = FALSE /\ pc' = "lock" /\ UNCHANGED shown
  /\ UNCHANGED <<state, prevState, wakes>>

Output ==
  /\ pc = "lock" /\ changed
  /\ shown' = state
  /\ changed' = FALSE
  /\ UNCHANGED <<state, prevState, pc, wakes>>

SpuriousWakeup ==
  /\ pc = "waiting" /\ wakes < MaxSpuriousWakes
  /\ pc' = "lock"
  /\ wakes' = wakes + 1
  /\ UNCHANGED <<state, prevState, changed, shown>>

OutputStep == Start \/ Wait \/ Output

Next == OutputStep \/ SpuriousWakeup \/ \E c \in Chars : Sense(c)

Spec == Init /\ [][Next]_vars

(* stateOutput runs when it can; nobody has to type. *)
FairSpec == Spec /\ WF_vars(OutputStep)
-----------------------------------------------------------------------------
TypeOK ==
  /\ state \in RealStates /\ prevState \in RealStates \cup {Blank}
  /\ changed \in BOOLEAN
  /\ pc \in {"start", "lock", "waiting"}
  /\ shown \in RealStates \cup {Blank}
  /\ wakes \in 0 .. MaxSpuriousWakes

(* What is shown is the state that sense saw last, or the flag is up. Only *)
(* the changes before stateOutput has begun are lost, in its unlocked      *)
(* assignment: then nothing has ever been shown (intro.c:71-79, 104-128).  *)
NoChangeLost ==
  pc # "start" /\ ~changed => shown = Blank \/ SameState(shown, prevState)

(* A flag that is up is seen: the thread is not left asleep (intro.c:75).  *)
ChangesShown == []<>(~changed)
=============================================================================
