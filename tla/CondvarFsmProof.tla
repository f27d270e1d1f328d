--------------------------- MODULE CondvarFsmProof ---------------------------
(***************************************************************************)
(* condvar.c for every bound on cnt and on spurious wakeups: the threads   *)
(* exclude each other, no wakeup is lost, and the steps of the threads are *)
(* those of the state machine StateCycle.                                  *)
(***************************************************************************)
EXTENDS CondvarFsm, TLAPS

LEMMA TypeInit == Init => TypeOK
BY CondvarAssumption DEF Init, TypeOK, States, CreateOrder

LEMMA CountType ==
  ASSUME NEW c \in 0 .. CNT_MOD - 1
  PROVE  (c + 1) % CNT_MOD \in 0 .. CNT_MOD - 1
BY CondvarAssumption

LEMMA TypeStep == TypeOK /\ [Next]_vars => TypeOK'
<1> SUFFICES ASSUME TypeOK, [Next]_vars PROVE TypeOK'
  OBVIOUS
<1> USE DEF TypeOK, Holding
<1>1. CASE Create
  <2>1. CreateOrder[created + 1] \in States
    BY <1>1 DEF Create, CreateOrder, States
  <2> QED
    BY <1>1, <2>1 DEF Create, CreateOrder
<1>2. ASSUME NEW t \in States, Lock(t) PROVE TypeOK'
  BY <1>2 DEF Lock
<1>3. ASSUME NEW t \in States, Wait(t) PROVE TypeOK'
  BY <1>3 DEF Wait
<1>4. ASSUME NEW t \in States, Transit(t) PROVE TypeOK'
  BY <1>4 DEF Transit, Successor, States
<1>5. ASSUME NEW t \in States, Broadcast(t) PROVE TypeOK'
  BY <1>5 DEF Broadcast
<1>6. ASSUME NEW t \in States, Unlock(t) PROVE TypeOK'
  BY <1>6 DEF Unlock
<1>7. ASSUME NEW t \in States, Count(t) PROVE TypeOK'
  BY <1>7, CountType DEF Count
<1>8. ASSUME NEW t \in States, SpuriousWakeup(t) PROVE TypeOK'
  BY <1>8, CondvarAssumption DEF SpuriousWakeup
<1>9. CASE UNCHANGED vars
  BY <1>9 DEF vars
<1> QED
  BY <1>1, <1>2, <1>3, <1>4, <1>5, <1>6, <1>7, <1>8, <1>9 DEF Next, Step

(* The machine, the mutex and the threads keep their types. *)
THEOREM TypeCorrect == Spec => []TypeOK
BY TypeInit, TypeStep, PTL DEF Spec

-----------------------------------------------------------------------------
(* main creates each thread once: those it has not reached have not begun. *)
(* And only state_1 counts.                                                *)
Structure ==
  /\ \A t \in States : pc[t] = "count" => t = 1
  /\ created < 1 => pc[1] = "none"
  /\ created < 2 => pc[0] = "none"
  /\ created < 3 => pc[2] = "none"
  /\ created < 4 => pc[3] = "none"

LEMMA NextCreated ==
  ASSUME TypeOK, Structure, Create
  PROVE  /\ CreateOrder[created + 1] \in States
         /\ pc[CreateOrder[created + 1]] = "none"
<1>1. created \in {0, 1, 2, 3}
  BY DEF TypeOK, Create, CreateOrder
<1> QED
  BY <1>1 DEF Structure, CreateOrder, States

LEMMA StructureStep == TypeOK /\ Structure /\ [Next]_vars => Structure'
<1> SUFFICES ASSUME TypeOK, Structure, [Next]_vars PROVE Structure'
  OBVIOUS
<1> USE DEF TypeOK, Structure, States
<1>1. CASE Create
  <2>1. created \in {0, 1, 2, 3}
    BY <1>1 DEF Create, CreateOrder
  <2> QED
    BY <1>1, <2>1 DEF Create, CreateOrder
<1>2. ASSUME NEW t \in States, Step(t) \/ SpuriousWakeup(t) PROVE Structure'
  <2>1. /\ created' = created
        /\ \A u \in States : /\ pc[u] = "none" => pc'[u] = "none"
                             /\ pc'[u] = "count" => u = 1
    BY <1>2 DEF Step, Lock, Wait, Transit, Broadcast, Unlock, Count, SpuriousWakeup
  <2> QED
    BY <2>1
<1>3. CASE UNCHANGED vars
  BY <1>3 DEF vars
<1> QED
  BY <1>1, <1>2, <1>3 DEF Next

(* Each property is inductive once the types are known; that no wakeup is  *)
(* lost does not even need mutual exclusion.                               *)
LEMMA ExclusionStep == TypeOK /\ MutualExclusion /\ [Next]_vars => MutualExclusion'
<1> SUFFICES ASSUME TypeOK, MutualExclusion, [Next]_vars PROVE MutualExclusion'
  OBVIOUS
<1> USE CondvarAssumption DEF TypeOK, MutualExclusion, Holding
<1>1. CASE Create
  BY <1>1 DEF Create
<1>2. ASSUME NEW t \in States, Lock(t) PROVE MutualExclusion'
  BY <1>2 DEF Lock
<1>3. ASSUME NEW t \in States, Wait(t) PROVE MutualExclusion'
  BY <1>3 DEF Wait
<1>4. ASSUME NEW t \in States, Transit(t) PROVE MutualExclusion'
  BY <1>4 DEF Transit
<1>5. ASSUME NEW t \in States, Broadcast(t) PROVE MutualExclusion'
  BY <1>5 DEF Broadcast
<1>6. ASSUME NEW t \in States, Unlock(t) PROVE MutualExclusion'
  BY <1>6 DEF Unlock
<1>7. ASSUME NEW t \in States, Count(t) \/ SpuriousWakeup(t) PROVE MutualExclusion'
  BY <1>7 DEF Count, SpuriousWakeup
<1>8. CASE UNCHANGED vars
  BY <1>8 DEF vars
<1> QED
  BY <1>1, <1>2, <1>3, <1>4, <1>5, <1>6, <1>7, <1>8 DEF Next, Step

LEMMA WakeupStep ==
  TypeOK /\ Structure /\ NoLostWakeup /\ [Next]_vars => NoLostWakeup'
<1> SUFFICES ASSUME TypeOK, Structure, NoLostWakeup, [Next]_vars PROVE NoLostWakeup'
  OBVIOUS
<1> USE DEF TypeOK, NoLostWakeup
<1>1. CASE Create
  <2>1. PICK u \in States : pc[u] = "none" /\ pc' = [pc EXCEPT ![u] = "lock"]
    BY <1>1, NextCreated DEF Create
  <2> QED
    BY <1>1, <2>1 DEF Create
<1>2. ASSUME NEW t \in States, Lock(t) PROVE NoLostWakeup'
  BY <1>2 DEF Lock
<1>3. ASSUME NEW t \in States, Wait(t) PROVE NoLostWakeup'
  BY <1>3 DEF Wait
<1>4. ASSUME NEW t \in States, Transit(t) PROVE NoLostWakeup'
  BY <1>4 DEF Transit
<1>5. ASSUME NEW t \in States, Broadcast(t) PROVE NoLostWakeup'
  BY <1>5 DEF Broadcast
<1>6. ASSUME NEW t \in States, Unlock(t) PROVE NoLostWakeup'
  BY <1>6 DEF Unlock
<1>7. ASSUME NEW t \in States, Count(t) \/ SpuriousWakeup(t) PROVE NoLostWakeup'
  BY <1>7 DEF Count, SpuriousWakeup
<1>8. CASE UNCHANGED vars
  BY <1>8 DEF vars
<1> QED
  BY <1>1, <1>2, <1>3, <1>4, <1>5, <1>6, <1>7, <1>8 DEF Next, Step

(* A thread has the mutex for itself from its test to its unlock. *)
THEOREM ThreadsExclude == Spec => []MutualExclusion
<1>1. Init => MutualExclusion
  BY DEF Init, MutualExclusion, Holding
<1> QED
  BY <1>1, ExclusionStep, TypeCorrect, PTL DEF Spec

(* The thread whose turn it is never sleeps without a broadcast to come.   *)
THEOREM NoWakeupLost == Spec => []NoLostWakeup
<1>1. Init => Structure /\ NoLostWakeup
  BY DEF Init, Structure, NoLostWakeup, States
<1> QED
  BY <1>1, StructureStep, WakeupStep, TypeCorrect, PTL DEF Spec

-----------------------------------------------------------------------------
(* Counting modulo an even number keeps the parity of the passes. *)
LEMMA ParityOfCount ==
  ASSUME NEW c \in 0 .. CNT_MOD - 1
  PROVE  /\ ((c + 1) % CNT_MOD) % 2 = (c + 1) % 2
         /\ ((c + 1) % 2 = 0) <=> ~(c % 2 = 0)
<1>1. CASE c + 1 = CNT_MOD
  <2>1. (c + 1) % CNT_MOD = 0
    BY <1>1, CondvarAssumption
  <2> QED
    BY <1>1, <2>1, CondvarAssumption
<1>2. CASE c + 1 < CNT_MOD
  <2>1. (c + 1) % CNT_MOD = c + 1
    BY <1>2, CondvarAssumption
  <2> QED
    BY <2>1
<1> QED
  BY <1>1, <1>2, CondvarAssumption

(* Every step of the threads is a step of the state machine or leaves it   *)
(* where it is.                                                            *)
LEMMA CycleStep ==
  ASSUME TypeOK, MutualExclusion, Structure, [Next]_vars
  PROVE  [Cycle!CycleNext]_(Cycle!cycleVars)
<1> DEFINE over == pc[1] \in {"broadcast", "unlock", "count"}
<1> USE DEF Cycle!cycleVars
<1>1. ASSUME NEW t \in States, Transit(t)
      PROVE  Cycle!CycleNext
  <2>1. CASE t = 1
    <3>1. state = 1 /\ state' = (IF cnt % 2 = 0 THEN 2 ELSE 3) /\ cnt' = cnt
      BY <1>1, <2>1 DEF Transit, Successor
    <3>2. PassEven <=> cnt % 2 = 0
      BY <1>1, <2>1 DEF Transit, PassEven, TypeOK
    <3>3. PassEven' <=> (cnt + 1) % 2 = 0
      BY <1>1, <2>1, <3>1 DEF Transit, PassEven, TypeOK
    <3>4. PassEven' = ~PassEven
      BY <3>2, <3>3, ParityOfCount DEF TypeOK, PassEven
    <3> QED
      BY <3>1, <3>2, <3>4 DEF Cycle!CycleNext, Cycle!Leave1
  <2>2. CASE t # 1
    <3>1. PassEven' = PassEven
      BY <1>1, <2>2 DEF Transit, PassEven, TypeOK, States
    <3>2. \/ state = 0 /\ state' = 1
          \/ state \in {2, 3} /\ state' = 0
      BY <1>1, <2>2 DEF Transit, Successor, States
    <3> QED
      BY <3>1, <3>2 DEF Cycle!CycleNext, Cycle!Leave0, Cycle!Return
  <2> QED
    BY <2>1, <2>2
<1>2. CASE Count(1)
  <2>1. PassEven' = PassEven
    BY <1>2, ParityOfCount DEF Count, PassEven, TypeOK, States
  <2> QED
    BY <1>2, <2>1 DEF Count
<1>3. ASSUME state' = state, cnt' = cnt, over' <=> over
      PROVE  UNCHANGED Cycle!cycleVars
  BY <1>3 DEF PassEven
<1>4. CASE Create
  <2>1. PICK u \in States : pc[u] = "none" /\ pc' = [pc EXCEPT ![u] = "lock"]
    BY <1>4, NextCreated DEF Create
  <2> QED
    BY <1>3, <1>4, <2>1 DEF Create, TypeOK, States
<1>5. ASSUME NEW t \in States,
             Lock(t) \/ Wait(t) \/ SpuriousWakeup(t)
      PROVE  UNCHANGED Cycle!cycleVars
  BY <1>3, <1>5 DEF Lock, Wait, SpuriousWakeup, TypeOK, States
<1>6. ASSUME NEW t \in States, Broadcast(t) \/ Unlock(t)
      PROVE  UNCHANGED Cycle!cycleVars
  BY <1>3, <1>6 DEF Broadcast, Unlock, TypeOK, States
<1>7. CASE UNCHANGED vars
  BY <1>3, <1>7 DEF vars
<1>8. ASSUME NEW t \in States, Count(t) PROVE t = 1
  BY <1>8 DEF Count, Structure
<1> QED
  BY <1>1, <1>2, <1>4, <1>5, <1>6, <1>7, <1>8 DEF Next, Step

(* The threads implement the state machine of the heading of condvar.c. *)
THEOREM ImplementsCycle == Spec => Cycle!CycleSafety
<1>1. Init => Cycle!CycleInit /\ MutualExclusion /\ Structure
  <2> SUFFICES ASSUME Init PROVE Cycle!CycleInit /\ MutualExclusion /\ Structure
    OBVIOUS
  <2>1. PassEven = TRUE
    BY DEF Init, PassEven, States
  <2> QED
    BY <2>1 DEF Init, Cycle!CycleInit, MutualExclusion, Holding, Structure, States
<1>2. TypeOK /\ MutualExclusion /\ Structure /\ [Next]_vars
        => [Cycle!CycleNext]_(Cycle!cycleVars)
  BY CycleStep
<1> QED
  BY <1>1, <1>2, TypeCorrect, ExclusionStep, StructureStep, PTL
  DEF Spec, Cycle!CycleSafety
=============================================================================
