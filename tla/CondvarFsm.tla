----------------------------- MODULE CondvarFsm -----------------------------
(***************************************************************************)
(* task1/src/shared_mem/condvar.c: one thread for each state of a state    *)
(* machine. The threads share the variable `state', a mutex and a single   *)
(* condition variable on which all of them wait. main starts them and,     *)
(* 20 seconds later, ends the process; the model is of the time before.    *)
(***************************************************************************)
EXTENDS Naturals, Sequences

CONSTANTS
  CNT_MOD,      (* bound: the int cnt is kept modulo CNT_MOD, even         *)
  MaxSpurious,  (* bound: returns of pthread_cond_wait without a broadcast *)
  Free          (* the owner of the free mutex                             *)

States == 0 .. 3        (* and the threads state_0 .. state_3 *)

ASSUME CondvarAssumption ==
  /\ CNT_MOD \in Nat \ {0} /\ CNT_MOD % 2 = 0
  /\ MaxSpurious \in Nat
  /\ Free \notin States

VARIABLES
  state, cnt,
  mutex,        (* the thread that owns it, or Free                        *)
  pc,           (* the next step of each thread                            *)
  created,      (* how many threads main has created                       *)
  spurious      (* used up part of MaxSpurious                             *)

vars == <<state, cnt, mutex, pc, created, spurious>>

CreateOrder == <<1, 0, 2, 3>>

Init ==
  /\ state = 0 /\ cnt = 0
  /\ mutex = Free
  /\ pc = [t \in States |-> "none"]
  /\ created = 0 /\ spurious = 0

Create ==
  /\ created < Len(CreateOrder)
  /\ created' = created + 1
  /\ pc' = [pc EXCEPT ![CreateOrder[created + 1]] = "lock"]
  /\ UNCHANGED <<state, cnt, mutex, spurious>>

(* Mutant: a woken thread does not wait for the mutex. *)
LockBarging(t) ==
  /\ pc[t] \in {"lock", "woken"}
  /\ mutex = Free \/ pc[t] = "woken"
  /\ mutex' = t
  /\ pc' = [pc EXCEPT ![t] = "test"]
  /\ UNCHANGED <<state, cnt, created, spurious>>

(* pthread_mutex_lock, and the return of pthread_cond_wait, which takes    *)
(* the mutex again before the state is looked at anew.                     *)
Lock(t) ==
  /\ pc[t] \in {"lock", "woken"}
  /\ mutex = Free
  /\ mutex' = t
  /\ pc' = [pc EXCEPT ![t] = "test"]
  /\ UNCHANGED <<state, cnt, created, spurious>>

(* while (state != t) pthread_cond_wait: releases the mutex and sleeps. *)
Wait(t) ==
  /\ pc[t] = "test"
  /\ state # t
  /\ mutex' = Free
  /\ pc' = [pc EXCEPT ![t] = "waiting"]
  /\ UNCHANGED <<state, cnt, created, spurious>>

(* Mutant: the odd passes of state 1 leave the machine. *)
SuccessorByOffset(t) ==
  CASE t = 0 -> 1
    [] t = 1 -> 2 * (1 + (cnt % 2))
    [] OTHER -> 0

(* The thread of the current state chooses the next one. *)
Successor(t) ==
  CASE t = 0 -> 1
    [] t = 1 -> IF cnt % 2 = 0 THEN 2 ELSE 3
    [] OTHER -> 0

Transit(t) ==
  /\ pc[t] = "test"
  /\ state = t
  /\ state' = Successor(t)
  /\ pc' = [pc EXCEPT ![t] = "broadcast"]
  /\ UNCHANGED <<cnt, mutex, created, spurious>>

(* Mutant: pthread_cond_signal, which wakes one waiter. *)
Signal(t) ==
  /\ pc[t] = "broadcast"
  /\ LET asleep == {u \in States : pc[u] = "waiting"}
         announced == [pc EXCEPT ![t] = "unlock"]
     IN  IF asleep = {} THEN pc' = announced
         ELSE \E u \in asleep : pc' = [announced EXCEPT ![u] = "woken"]
  /\ UNCHANGED <<state, cnt, mutex, created, spurious>>

Broadcast(t) ==
  /\ pc[t] = "broadcast"
  /\ pc' = [u \in States |-> IF u = t THEN "unlock"
                             ELSE IF pc[u] = "waiting" THEN "woken" ELSE pc[u]]
  /\ UNCHANGED <<state, cnt, mutex, created, spurious>>

(* Mutant: cnt is never incremented. *)
UnlockUncounted(t) ==
  /\ pc[t] = "unlock"
  /\ mutex' = Free
  /\ pc' = [pc EXCEPT ![t] = "lock"]
  /\ UNCHANGED <<state, cnt, created, spurious>>

Unlock(t) ==
  /\ pc[t] = "unlock"
  /\ mutex' = Free
  /\ pc' = [pc EXCEPT ![t] = IF t = 1 THEN "count" ELSE "lock"]
  /\ UNCHANGED <<state, cnt, created, spurious>>

(* state_1 increments cnt after it has given the mutex back. *)
Count(t) ==
  /\ pc[t] = "count"
  /\ cnt' = (cnt + 1) % CNT_MOD
  /\ pc' = [pc EXCEPT ![t] = "lock"]
  /\ UNCHANGED <<state, mutex, created, spurious>>

SpuriousWakeup(t) ==
  /\ spurious < MaxSpurious
  /\ pc[t] = "waiting"
  /\ pc' = [pc EXCEPT ![t] = "woken"]
  /\ spurious' = spurious + 1
  /\ UNCHANGED <<state, cnt, mutex, created>>

Step(t) == Lock(t) \/ Wait(t) \/ Transit(t) \/ Broadcast(t) \/ Unlock(t) \/ Count(t)

Next == Create \/ \E t \in States : Step(t) \/ SpuriousWakeup(t)

Spec == Init /\ [][Next]_vars

(* Every thread that can run runs at last. The mutex is not assumed to be  *)
(* fair: a thread that finds it taken again and again may wait for ever.   *)
FairSpec == Spec /\ WF_vars(Create) /\ \A t \in States : WF_vars(Step(t))

-----------------------------------------------------------------------------
Holding == {"test", "broadcast", "unlock"}

(* Type correctness of the machine, the mutex and the threads. *)
TypeOK ==
  /\ state \in States /\ cnt \in 0 .. CNT_MOD - 1
  /\ mutex \in States \cup {Free}
  /\ pc \in [States -> Holding \cup {"none", "lock", "waiting", "woken", "count"}]
  /\ created \in 0 .. Len(CreateOrder)
  /\ spurious \in 0 .. MaxSpurious

(* Between its test of the state and its unlock a thread has the mutex for *)
(* itself: the transition and its announcement are one step to the others. *)
MutualExclusion == \A t \in States : pc[t] \in Holding => mutex = t

(* The classical fault of a shared condition variable: the thread whose    *)
(* turn it is sleeps, and nobody is left who will broadcast.               *)
NoLostWakeup ==
  pc[state] = "waiting" => \E t \in States : pc[t] = "broadcast"

(* The state machine of the heading of condvar.c (lines 13-17), including  *)
(* that it never stops. cnt is counted after the mutex is given back; the  *)
(* pass through state 1 counts as over when its transition is made.        *)
PassEven ==
  LET over == pc[1] \in {"broadcast", "unlock", "count"}
  IN  (cnt + (IF over THEN 1 ELSE 0)) % 2 = 0
Cycle == INSTANCE StateCycle WITH at <- state, even <- PassEven
CycleImplemented == Cycle!CycleSpec
=============================================================================
