--------------------------- MODULE SharedVarsProof ---------------------------
(***************************************************************************)
(* mutex.c for every set of threads: the mutex keeps the three counters    *)
(* together, although a cancelled thread may die between any two steps.    *)
(* A single thread of nomutex.c keeps them together too.                   *)
(***************************************************************************)
EXTENDS SharedVars, FiniteSetTheorems, TLAPS

(* What the owner of the mutex knows at each step of its pass. *)
Agree == var1 = var2 /\ var2 = var3

OwnerKnows(t) ==
  /\ pc[t] \in {"cmp1", "work", "bottom"} => Agree
  /\ pc[t] = "cmp2" => Agree /\ reg[t] = var1
  /\ pc[t] = "work_store" => Agree /\ reg[t] = var3
  /\ pc[t] = "inc1" => var1 = var2 /\ var3 = Succ(var2)
  /\ pc[t] = "inc1_store" => var1 = var2 /\ var3 = Succ(var2) /\ reg[t] = var1
  /\ pc[t] = "inc2" => var1 = Succ(var2) /\ var3 = Succ(var2)
  /\ pc[t] = "inc2_store" =>
       var1 = Succ(var2) /\ var3 = Succ(var2) /\ reg[t] = var2

MutexInv == program = "mutex" =>
  /\ \A t \in Threads : pc[t] \in Inside => lock = t
  /\ \A t \in Threads : OwnerKnows(t)
  /\ NeverRepairs
  /\ CountersAgree

-----------------------------------------------------------------------------
LEMMA SuccType == \A n \in Values : Succ(n) \in Values
BY SharedVarsAssumption DEF Values, Succ

LEMMA TypeInit == Init => TypeOK
<1> SUFFICES ASSUME Init PROVE TypeOK
  OBVIOUS
<1>1. 0 \in Values
  BY SharedVarsAssumption DEF Values
<1> QED
  BY <1>1 DEF Init, TypeOK

LEMMA TypeThread ==
  ASSUME TypeOK, NEW t \in Threads, ThreadStep(t)
  PROVE  TypeOK'
<1> USE DEF TypeOK, Goto, Load, shared, main, Inside
<1>1. CASE SetCancelType(t) \/ Lock(t) \/ Unlock(t) \/ NoLock(t) \/ NoUnlock(t)
  BY <1>1 DEF SetCancelType, Lock, Unlock, NoLock, NoUnlock
<1>2. CASE LoadVar1(t) \/ RepairLoad(t) \/ WorkLoad(t)
  BY <1>2 DEF LoadVar1, RepairLoad, WorkLoad
<1>3. CASE IncVar1Load(t) \/ IncVar2Load(t)
  BY <1>3 DEF IncVar1Load, IncVar2Load
<1>4. CASE Compare(t)
  BY <1>4 DEF Compare
<1>5. CASE RepairStore(t)
  BY <1>5 DEF RepairStore
<1>6. CASE WorkStore(t)
  BY <1>6, SuccType DEF WorkStore
<1>7. CASE IncVar1Store(t)
  BY <1>7, SuccType DEF IncVar1Store
<1>8. CASE IncVar2Store(t)
  BY <1>8, SuccType DEF IncVar2Store
<1>9. CASE Die(t)
  BY <1>9 DEF Die
<1> QED
  BY <1>1, <1>2, <1>3, <1>4, <1>5, <1>6, <1>7, <1>8, <1>9
  DEF ThreadStep

LEMMA TypeMain == TypeOK /\ MainStep => TypeOK'
<1> SUFFICES ASSUME TypeOK, MainStep PROVE TypeOK'
  OBVIOUS
<1> USE DEF TypeOK, shared
<1>1. ASSUME NEW t \in Threads, MainCreate(t) PROVE TypeOK'
  BY <1>1 DEF MainCreate, main
<1>2. ASSUME NEW t \in Threads, MainCancel(t) PROVE TypeOK'
  BY <1>2 DEF MainCancel
<1>3. CASE MainSleep \/ MainExit
  BY <1>3 DEF MainSleep, MainExit
<1> QED
  BY <1>1, <1>2, <1>3 DEF MainStep

(* The counters, the mutex, the threads and main keep their types. *)
THEOREM TypeCorrect == Spec => []TypeOK
<1>1. TypeOK /\ [Next]_vars => TypeOK'
  <2>1. TypeOK /\ UNCHANGED vars => TypeOK'
    BY DEF vars, TypeOK, shared, main
  <2> QED
    BY <2>1, TypeThread, TypeMain DEF Next
<1> QED
  BY TypeInit, <1>1, PTL DEF Spec
-----------------------------------------------------------------------------
LEMMA InvInit == Init => MutexInv
BY SharedVarsAssumption
DEF Init, MutexInv, OwnerKnows, NeverRepairs, CountersAgree, Repairing, Inside

(* A step of the thread that owns the mutex, or takes it: the others are   *)
(* outside their pass and know nothing that the step could invalidate.     *)
LEMMA InvThread ==
  ASSUME TypeOK, MutexInv, NEW t \in Threads, ThreadStep(t)
  PROVE  MutexInv'
<1> USE SharedVarsAssumption
<1> USE DEF TypeOK, MutexInv, OwnerKnows, Agree, NeverRepairs, CountersAgree, Repairing,
            Goto, Load, shared, main, Inside
<1>1. CASE SetCancelType(t)
  BY <1>1 DEF SetCancelType
<1>2. CASE Lock(t)
  BY <1>2 DEF Lock
<1>3. CASE LoadVar1(t)
  BY <1>3 DEF LoadVar1
<1>4. CASE Compare(t)
  BY <1>4 DEF Compare
<1>5. CASE RepairLoad(t) \/ RepairStore(t)
  BY <1>5 DEF RepairLoad, RepairStore
<1>6. CASE WorkLoad(t)
  BY <1>6 DEF WorkLoad
<1>7. CASE WorkStore(t)
  BY <1>7 DEF WorkStore
<1>8. CASE IncVar1Load(t)
  BY <1>8 DEF IncVar1Load
<1>9. CASE IncVar1Store(t)
  BY <1>9 DEF IncVar1Store
<1>10. CASE IncVar2Load(t)
  BY <1>10 DEF IncVar2Load
<1>11. CASE IncVar2Store(t)
  BY <1>11 DEF IncVar2Store
<1>12. CASE Unlock(t) \/ NoLock(t) \/ NoUnlock(t)
  BY <1>12 DEF Unlock, NoLock, NoUnlock
<1>13. CASE Die(t)
  BY <1>13 DEF Die
<1> QED
  BY <1>1, <1>2, <1>3, <1>4, <1>5, <1>6, <1>7, <1>8, <1>9, <1>10, <1>11,
     <1>12, <1>13 DEF ThreadStep

LEMMA InvMain == TypeOK /\ MutexInv /\ MainStep => MutexInv'
<1> SUFFICES ASSUME TypeOK, MutexInv, MainStep PROVE MutexInv'
  OBVIOUS
<1> USE DEF TypeOK, MutexInv, OwnerKnows, Agree, NeverRepairs, CountersAgree,
            Repairing, shared, Inside
<1>1. ASSUME NEW t \in Threads, MainCreate(t) PROVE MutexInv'
  BY <1>1 DEF MainCreate, main
<1>2. ASSUME NEW t \in Threads, MainCancel(t) PROVE MutexInv'
  BY <1>2 DEF MainCancel
<1>3. CASE MainSleep \/ MainExit
  BY <1>3 DEF MainSleep, MainExit
<1> QED
  BY <1>1, <1>2, <1>3 DEF MainStep

LEMMA InvAlways == Spec => [](TypeOK /\ MutexInv)
<1>1. TypeOK /\ MutexInv /\ [Next]_vars => MutexInv'
  <2>1. MutexInv /\ UNCHANGED vars => MutexInv'
    BY DEF vars, MutexInv, OwnerKnows, Agree, NeverRepairs, CountersAgree,
           shared, main
  <2> QED
    BY <2>1, InvThread, InvMain DEF Next
<1> QED
  BY InvInit, TypeCorrect, <1>1, PTL DEF Spec

(* With the mutex free the three counters are equal, however many threads  *)
(* there are and whenever they are cancelled.                              *)
THEOREM CountersAlwaysAgree == Spec => []CountersAgree
<1>1. MutexInv => CountersAgree
  BY DEF MutexInv, CountersAgree
<1> QED
  BY InvAlways, <1>1, PTL

(* No thread ever finds var1 and var2 different. *)
THEOREM NoThreadRepairs == Spec => []NeverRepairs
<1>1. MutexInv => NeverRepairs
  BY DEF MutexInv, NeverRepairs
<1> QED
  BY InvAlways, <1>1, PTL

-----------------------------------------------------------------------------
(* The programs as long as no more than one thread has begun its passes:   *)
(* that thread knows what the owner of the mutex knows, with or without a  *)
(* mutex, and the counters agree whenever it starts a pass.                *)
Begun(t) == pc[t] \notin {"none", "start"}
Alone == \A s, t \in Threads : Begun(s) /\ Begun(t) => s = t

AloneInv == Alone =>
  /\ (\A t \in Threads : ~Begun(t)) => Agree
  /\ \A t \in Threads :
       OwnerKnows(t) /\ (pc[t] = "top" => Agree) /\ pc[t] \notin Repairing

LEMMA AloneInit == Init => AloneInv
BY DEF Init, AloneInv, Alone, Begun, Agree, OwnerKnows, Repairing

LEMMA AloneThread ==
  ASSUME TypeOK, AloneInv, NEW t \in Threads, ThreadStep(t)
  PROVE  AloneInv'
<1> SUFFICES ASSUME Alone' PROVE AloneInv'
  BY DEF AloneInv
<1>1. /\ pc' = [pc EXCEPT ![t] = pc'[t]] /\ Begun(t)' /\ pc[t] # "none"
      /\ pcM' = pcM /\ cancelled' = cancelled
  BY DEF ThreadStep, SetCancelType, Lock, NoLock, LoadVar1, Compare, RepairLoad, RepairStore,
    WorkLoad, WorkStore, IncVar1Load, IncVar1Store, IncVar2Load, IncVar2Store, Unlock,
    NoUnlock, Die, Goto, Load, TypeOK, Begun, main
<1>2. \A s \in Threads \ {t} : ~Begun(s) /\ ~Begun(s)' /\ pc'[s] = pc[s]
  BY <1>1 DEF Alone, Begun, TypeOK
<1>3. Alone
  BY <1>2 DEF Alone
<1>4. /\ OwnerKnows(t) /\ (pc[t] = "top" => Agree) /\ pc[t] \notin Repairing
      /\ pc[t] = "start" => Agree
  BY <1>2, <1>3 DEF AloneInv, Begun
<1>5. OwnerKnows(t)' /\ (pc'[t] = "top" => Agree') /\ pc'[t] \notin Repairing
  <2> USE <1>4 DEF OwnerKnows, Agree, Repairing, Goto, Load, shared, TypeOK
  <2>1. CASE SetCancelType(t) \/ Lock(t) \/ NoLock(t)
    BY <2>1 DEF SetCancelType, Lock, NoLock
  <2>2. CASE LoadVar1(t) \/ Compare(t)
    BY <2>2 DEF LoadVar1, Compare
  <2>3. CASE RepairLoad(t) \/ RepairStore(t)
    BY <2>3 DEF RepairLoad, RepairStore
  <2>4. CASE WorkLoad(t) \/ WorkStore(t)
    BY <2>4 DEF WorkLoad, WorkStore
  <2>5. CASE IncVar1Load(t) \/ IncVar1Store(t)
    BY <2>5 DEF IncVar1Load, IncVar1Store
  <2>6. CASE IncVar2Load(t) \/ IncVar2Store(t)
    BY <2>6 DEF IncVar2Load, IncVar2Store
  <2>7. CASE Unlock(t) \/ NoUnlock(t)
    BY <2>7 DEF Unlock, NoUnlock
  <2>8. CASE Die(t)
    BY <2>8 DEF Die
  <2> QED
    BY <2>1, <2>2, <2>3, <2>4, <2>5, <2>6, <2>7, <2>8 DEF ThreadStep
<1>6. \A s \in Threads \ {t} :
        OwnerKnows(s)' /\ (pc'[s] = "top" => Agree') /\ pc'[s] \notin Repairing
  BY <1>2 DEF Begun, OwnerKnows, Repairing
<1> QED
  BY <1>1, <1>5, <1>6 DEF AloneInv

LEMMA AloneMain == TypeOK /\ AloneInv /\ MainStep => AloneInv'
<1> SUFFICES ASSUME TypeOK, AloneInv, MainStep PROVE AloneInv'
  OBVIOUS
<1> USE DEF TypeOK, AloneInv, Alone, Begun, OwnerKnows, Agree, Repairing, shared
<1>1. ASSUME NEW t \in Threads, MainCreate(t) PROVE AloneInv'
  BY <1>1 DEF MainCreate
<1>2. ASSUME NEW t \in Threads, MainCancel(t) PROVE AloneInv'
  BY <1>2 DEF MainCancel
<1>3. CASE MainSleep \/ MainExit
  BY <1>3 DEF MainSleep, MainExit
<1> QED
  BY <1>1, <1>2, <1>3 DEF MainStep

LEMMA AtMostOne ==
  ASSUME NEW S, IsFiniteSet(S), Cardinality(S) <= 1, NEW x \in S, NEW y \in S
  PROVE  x = y
<1> SUFFICES ASSUME x # y PROVE FALSE
  OBVIOUS
<1>1. IsFiniteSet({x}) /\ Cardinality({x}) = 1
  BY FS_Singleton
<1>2. Cardinality({x} \cup {y}) = 2 /\ IsFiniteSet({x} \cup {y})
  BY <1>1, FS_AddElement
<1>3. Cardinality({x} \cup {y}) <= Cardinality(S)
  BY FS_Subset
<1>4. Cardinality(S) \in Nat
  BY FS_CardinalityType
<1> QED
  BY <1>2, <1>3, <1>4

(* The mismatch that nomutex.c reports takes two threads.                  *)
THEOREM AloneNoRepair == Spec => []AloneNeverRepairs
<1>1. TypeOK /\ AloneInv /\ [Next]_vars => AloneInv'
  <2>1. AloneInv /\ UNCHANGED vars => AloneInv'
    BY DEF vars, AloneInv, Alone, Begun, OwnerKnows, Agree, shared
  <2> QED
    BY <2>1, AloneThread, AloneMain DEF Next
<1>2. AloneInv => AloneNeverRepairs
  <2> SUFFICES ASSUME AloneInv,
                      Cardinality({t \in Threads : pc[t] \notin {"none", "start"}}) <= 1
               PROVE  \A t \in Threads : pc[t] \notin Repairing
    BY DEF AloneNeverRepairs
  <2> DEFINE S == {t \in Threads : pc[t] \notin {"none", "start"}}
  <2>1. IsFiniteSet(S)
    BY FS_Subset, SharedVarsAssumption
  <2>2. Alone
    BY <2>1, AtMostOne DEF Alone, Begun
  <2> QED
    BY <2>2 DEF AloneInv
<1> QED
  BY AloneInit, TypeCorrect, <1>1, <1>2, PTL DEF Spec
=============================================================================
