---------------------------- MODULE ShmRingProof ----------------------------
(***************************************************************************)
(* The ring of task3 for every BUFFER_SIZE, every counter width and every  *)
(* number of signals and kills. The properties of the slots hold up to the *)
(* first signal and the first restart of the producer (Undisturbed): a     *)
(* signal lets a process go on without a token, a restart resets the       *)
(* indices and not the semaphores.                                         *)
(***************************************************************************)
EXTENDS ShmRing, TLAPS

(* An index that leaves the ring at one end comes back at the other.       *)
LEMMA NextSlotCases ==
  ASSUME NEW i \in Slots
  PROVE  /\ NextSlot(i) \in Slots
         /\ i < BUFFER_SIZE - 1 => NextSlot(i) = i + 1
         /\ i = BUFFER_SIZE - 1 => NextSlot(i) = 0
<1>1. BUFFER_SIZE \in Nat \ {0}
  BY ShmRingAssumption
<1>2. CASE i < BUFFER_SIZE - 1
  <2>1. i + 1 \in 0 .. BUFFER_SIZE - 1
    BY <1>1, <1>2 DEF Slots
  <2>2. (i + 1) % BUFFER_SIZE = i + 1
    BY <1>1, <2>1
  <2> QED
    BY <1>1, <1>2, <2>1, <2>2 DEF NextSlot, Slots
<1>3. CASE i = BUFFER_SIZE - 1
  <2>1. (i + 1) % BUFFER_SIZE = 0
    BY <1>1, <1>3
  <2> QED
    BY <1>1, <1>3, <2>1 DEF NextSlot, Slots
<1> QED
  BY <1>1, <1>2, <1>3 DEF Slots

(* Counters wrap inside their type. *)
LEMMA CounterWraps ==
  ASSUME NEW c \in Counters
  PROVE  (c + 1) % COUNTER_MOD \in Counters
BY ShmRingAssumption DEF Counters

-----------------------------------------------------------------------------
LEMMA TypeInit == Init => TypeOK
<1> SUFFICES ASSUME Init PROVE TypeOK
  OBVIOUS
<1>1. 0 \in Slots /\ 0 \in Counters
  BY ShmRingAssumption DEF Slots, Counters
<1>2. buffer \in [Slots -> Counters]
  BY <1>1 DEF Init
<1>3. linked \in BOOLEAN /\ doneP \in BOOLEAN /\ doneC \in BOOLEAN
  BY Zenon DEF Init
<1> QED
  BY <1>1, <1>2, <1>3, ShmRingAssumption DEF Init, TypeOK

LEMMA TypeProducer == TypeOK /\ ProducerStep => TypeOK'
<1> SUFFICES ASSUME TypeOK, ProducerStep PROVE TypeOK'
  OBVIOUS
<1> USE DEF TypeOK, shm, sems, producer, consumer, bounds
<1>1. CASE ProducerOpen
  BY <1>1, ShmRingAssumption DEF ProducerOpen
<1>2. CASE ProducerResetHead
  BY <1>2, ShmRingAssumption DEF ProducerResetHead, Slots
<1>3. CASE ProducerResetTail
  BY <1>3, ShmRingAssumption DEF ProducerResetTail, Slots, Counters
<1>4. CASE ProducerCheck
  BY <1>4 DEF ProducerCheck
<1>5. CASE ProducerWait
  BY <1>5 DEF ProducerWait
<1>6. CASE ProducerWrite
  BY <1>6 DEF ProducerWrite
<1>7. CASE ProducerAdvance
  BY <1>7, NextSlotCases, CounterWraps DEF ProducerAdvance
<1>8. CASE ProducerPost
  BY <1>8 DEF ProducerPost
<1>9. CASE ProducerExit
  BY <1>9 DEF ProducerExit
<1> QED
  BY <1>1, <1>2, <1>3, <1>4, <1>5, <1>6, <1>7, <1>8, <1>9 DEF ProducerStep

LEMMA TypeConsumer == TypeOK /\ ConsumerStep => TypeOK'
<1> SUFFICES ASSUME TypeOK, ConsumerStep PROVE TypeOK'
  OBVIOUS
<1> USE DEF TypeOK, shm, sems, producer, consumer, bounds
<1>1. CASE ConsumerOpen
  BY <1>1 DEF ConsumerOpen
<1>2. CASE ConsumerCheck
  BY <1>2 DEF ConsumerCheck
<1>3. CASE ConsumerWait
  BY <1>3 DEF ConsumerWait
<1>4. CASE ConsumerRead
  BY <1>4 DEF ConsumerRead
<1>5. CASE ConsumerLoad
  BY <1>5 DEF ConsumerLoad
<1>6. CASE ConsumerStore
  BY <1>6, NextSlotCases DEF ConsumerStore
<1>7. CASE ConsumerPost
  BY <1>7 DEF ConsumerPost
<1> QED
  BY <1>1, <1>2, <1>3, <1>4, <1>5, <1>6, <1>7 DEF ConsumerStep

LEMMA TypeFaults ==
  TypeOK /\ (ProducerSignal \/ ConsumerSignal \/ ProducerCrash \/ ConsumerCrash)
    => TypeOK'
<1> SUFFICES ASSUME TypeOK,
                    ProducerSignal \/ ConsumerSignal \/ ProducerCrash \/ ConsumerCrash
             PROVE  TypeOK'
  OBVIOUS
<1> USE ShmRingAssumption DEF TypeOK, shm, sems, producer, consumer, bounds
<1>1. CASE ProducerSignal
  BY <1>1 DEF ProducerSignal
<1>2. CASE ConsumerSignal
  BY <1>2 DEF ConsumerSignal
<1>3. CASE ProducerCrash
  <2>1. doneP' \in BOOLEAN
    BY <1>3, Zenon DEF ProducerCrash
  <2> QED
    BY <1>3, <2>1 DEF ProducerCrash
<1>4. CASE ConsumerCrash
  <2>1. doneC' \in BOOLEAN
    BY <1>4, Zenon DEF ConsumerCrash
  <2> QED
    BY <1>4, <2>1 DEF ConsumerCrash
<1> QED
  BY <1>1, <1>2, <1>3, <1>4

(* Indices stay in the ring, counts do not fall below zero and the locals  *)
(* keep their types, whatever signals and kills occur.                     *)
THEOREM TypeCorrect == Spec => []TypeOK
<1>1. TypeOK /\ [Next]_vars => TypeOK'
  <2> SUFFICES ASSUME TypeOK, [Next]_vars PROVE TypeOK'
    OBVIOUS
  <2>1. CASE Next
    BY <2>1, TypeProducer, TypeConsumer, TypeFaults DEF Next
  <2>2. CASE UNCHANGED vars
    BY <2>2 DEF vars, TypeOK, shm, sems, producer, consumer, bounds
  <2> QED
    BY <2>1, <2>2
<1> QED
  BY TypeInit, <1>1, PTL DEF Spec
-----------------------------------------------------------------------------
(***************************************************************************)
(* The slots. occ is the number of slots from tail to head; it cannot be   *)
(* computed from the indices alone, which are equal in an empty and in a   *)
(* full ring. The tokens for filled slots (in sem_cons, held by a consumer *)
(* that has not yet moved tail, or about to be posted by the producer)     *)
(* never exceed occ, and those for free slots never exceed the rest. These *)
(* are inequalities because a killed consumer takes its token with it.     *)
(***************************************************************************)
Ready == sem_cons + Flag(pcC \in {"read", "load", "store"}) + Flag(pcP = "post")
Free == sem_prod + Flag(pcP \in {"write", "advance"}) + Flag(pcC = "post")

Occupied(occ) ==
  /\ head = tail + occ \/ head = tail + occ - BUFFER_SIZE
  /\ Ready <= occ
  /\ Free <= BUFFER_SIZE - occ

Starting ==
  /\ pcP = "init" => ~linked /\ pcC \in {"init", "stopped"}
  /\ pcP \in {"init", "reset", "reset_tail"} =>
       /\ head = 0 /\ tail = 0 /\ sem_cons = 0 /\ sem_prod <= BUFFER_SIZE
       /\ pcC \in {"init", "check", "wait", "stopped"}

RingInv ==
  /\ Starting
  /\ pcC = "store" => loaded = tail
  /\ \E occ \in 0 .. BUFFER_SIZE : Occupied(occ)

LEMMA RingInit == Init => RingInv
<1> SUFFICES ASSUME Init PROVE RingInv
  OBVIOUS
<1>1. Occupied(0)
  BY ShmRingAssumption DEF Init, Occupied, Ready, Free, Flag
<1>2. Starting
  BY ShmRingAssumption DEF Init, Starting
<1> QED
  BY <1>1, <1>2, ShmRingAssumption DEF Init, RingInv

LEMMA RingProducer ==
  ASSUME TypeOK, RingInv, ProducerStep
  PROVE  RingInv'
<1> PICK occ \in 0 .. BUFFER_SIZE : Occupied(occ)
  BY DEF RingInv
<1> USE ShmRingAssumption DEF shm, sems, producer, consumer, bounds
<1> USE DEF TypeOK, RingInv, Starting, Occupied, Ready, Free, Flag
<1>1. CASE ProducerOpen
  <2>1. Occupied(0)'
    BY <1>1 DEF ProducerOpen
  <2> QED
    BY <1>1, <2>1 DEF ProducerOpen
<1>2. CASE ProducerResetHead
  BY <1>2 DEF ProducerResetHead
<1>3. CASE ProducerResetTail
  BY <1>3 DEF ProducerResetTail
<1>4. CASE ProducerCheck
  BY <1>4 DEF ProducerCheck
<1>5. CASE ProducerWait
  BY <1>5 DEF ProducerWait
<1>6. CASE ProducerWrite
  BY <1>6 DEF ProducerWrite
<1>7. CASE ProducerAdvance
  <2>1. occ + 1 \in 0 .. BUFFER_SIZE
    BY <1>7 DEF ProducerAdvance
  <2>2. head' = head + 1 \/ (head' = 0 /\ head = BUFFER_SIZE - 1)
    BY <1>7, NextSlotCases DEF ProducerAdvance, Slots
  <2>3. head' = tail' + (occ + 1) \/ head' = tail' + (occ + 1) - BUFFER_SIZE
    BY <1>7, <2>1, <2>2 DEF ProducerAdvance, Slots
  <2>4. Ready' <= occ + 1 /\ Free' <= BUFFER_SIZE - (occ + 1)
    BY <1>7 DEF ProducerAdvance
  <2>5. Occupied(occ + 1)'
    BY <2>3, <2>4
  <2> QED
    BY <1>7, <2>1, <2>5 DEF ProducerAdvance
<1>8. CASE ProducerPost
  BY <1>8 DEF ProducerPost
<1>9. CASE ProducerExit
  BY <1>9 DEF ProducerExit
<1> QED
  BY <1>1, <1>2, <1>3, <1>4, <1>5, <1>6, <1>7, <1>8, <1>9 DEF ProducerStep

LEMMA RingConsumer ==
  ASSUME TypeOK, RingInv, ConsumerStep \/ ConsumerCrash
  PROVE  RingInv'
<1> PICK occ \in 0 .. BUFFER_SIZE : Occupied(occ)
  BY DEF RingInv
<1> USE ShmRingAssumption DEF shm, sems, producer, consumer, bounds
<1> USE DEF TypeOK, RingInv, Starting, Occupied, Ready, Free, Flag
<1>1. CASE ConsumerOpen
  BY <1>1 DEF ConsumerOpen
<1>2. CASE ConsumerCheck
  BY <1>2 DEF ConsumerCheck
<1>3. CASE ConsumerWait
  BY <1>3 DEF ConsumerWait
<1>4. CASE ConsumerRead
  BY <1>4 DEF ConsumerRead
<1>5. CASE ConsumerLoad
  BY <1>5 DEF ConsumerLoad
<1>6. CASE ConsumerStore
  <2>1. occ - 1 \in 0 .. BUFFER_SIZE
    BY <1>6 DEF ConsumerStore
  <2>2. tail' = tail + 1 \/ (tail' = 0 /\ tail = BUFFER_SIZE - 1)
    BY <1>6, NextSlotCases DEF ConsumerStore, Slots
  <2>3. head' = tail' + (occ - 1) \/ head' = tail' + (occ - 1) - BUFFER_SIZE
    BY <1>6, <2>1, <2>2 DEF ConsumerStore, Slots
  <2>4. Ready' <= occ - 1 /\ Free' <= BUFFER_SIZE - (occ - 1)
    BY <1>6 DEF ConsumerStore
  <2>5. Occupied(occ - 1)'
    BY <2>3, <2>4
  <2> QED
    BY <1>6, <2>1, <2>5 DEF ConsumerStore
<1>7. CASE ConsumerPost
  BY <1>7 DEF ConsumerPost
<1>8. CASE ConsumerCrash
  BY <1>8 DEF ConsumerCrash
<1> QED
  BY <1>1, <1>2, <1>3, <1>4, <1>5, <1>6, <1>7, <1>8 DEF ConsumerStep

LEMMA UndisturbedStep ==
  TypeOK /\ [Next]_vars /\ Undisturbed'
    => Undisturbed /\ ~ProducerSignal /\ ~ConsumerSignal /\ ~ProducerCrash
<1> SUFFICES ASSUME TypeOK, [Next]_vars, Undisturbed'
             PROVE  Undisturbed /\ ~ProducerSignal /\ ~ConsumerSignal /\ ~ProducerCrash
  OBVIOUS
<1> USE ShmRingAssumption DEF TypeOK, Undisturbed, bounds
<1>1. ~ProducerSignal /\ ~ConsumerSignal /\ ~ProducerCrash
  BY DEF ProducerSignal, ConsumerSignal, ProducerCrash
<1>2. CASE ProducerStep
  BY <1>1, <1>2
  DEF ProducerStep, ProducerOpen, ProducerResetHead, ProducerResetTail,
      ProducerCheck, ProducerWait, ProducerWrite, ProducerAdvance,
      ProducerPost, ProducerExit
<1>3. CASE ConsumerStep \/ ConsumerCrash
  BY <1>1, <1>3
  DEF ConsumerStep, ConsumerCrash, ConsumerOpen, ConsumerCheck, ConsumerWait,
      ConsumerRead, ConsumerLoad, ConsumerStore, ConsumerPost
<1>4. CASE UNCHANGED vars
  BY <1>1, <1>4 DEF vars
<1> QED
  BY <1>1, <1>2, <1>3, <1>4 DEF Next

LEMMA RingStep ==
  TypeOK /\ (Undisturbed => RingInv) /\ [Next]_vars => (Undisturbed => RingInv)'
<1> SUFFICES ASSUME TypeOK, Undisturbed => RingInv, [Next]_vars, Undisturbed'
             PROVE  RingInv'
  OBVIOUS
<1>1. RingInv /\ ~ProducerSignal /\ ~ConsumerSignal /\ ~ProducerCrash
  BY UndisturbedStep
<1>2. CASE Next
  BY <1>1, <1>2, RingProducer, RingConsumer DEF Next
<1>3. CASE UNCHANGED vars
  BY <1>1, <1>3 DEF vars, RingInv, Starting, Occupied, Ready, Free, Flag,
                    shm, sems, producer, consumer, bounds
<1> QED
  BY <1>2, <1>3

(* The producer's store and the consumer's load never meet in a slot up to *)
(* the first signal, however often the consumer is killed.                 *)
THEOREM SlotsApart == Spec => []NoSlotConflict
<1>1. Init => (Undisturbed => RingInv)
  BY RingInit
<1>2. TypeOK /\ (Undisturbed => RingInv) => NoSlotConflict
  BY ShmRingAssumption
  DEF TypeOK, RingInv, Occupied, Ready, Free, Flag, NoSlotConflict, Slots
<1> QED
  BY <1>1, <1>2, RingStep, TypeCorrect, PTL DEF Spec

-----------------------------------------------------------------------------
(***************************************************************************)
(* The tokens. They come into being once, when the producer creates the    *)
(* semaphores; from then on a step moves one or loses it, except that a    *)
(* sem_wait broken off by a signal leaves its process with one it did not  *)
(* take.                                                                   *)
(***************************************************************************)
Tokens == sem_prod + sem_cons + HeldP + HeldC

TokenInv ==
  /\ ~linked => pcP \in {"init", "stopped"}
  /\ ~linked /\ pcP = "init" => /\ sem_prod = 0 /\ sem_cons = 0
                               /\ pcC \in {"init", "stopped"}
  /\ Tokens <= BUFFER_SIZE + signals

LEMMA TokenInit == Init => TokenInv
BY ShmRingAssumption DEF Init, TokenInv, Tokens, HeldP, HeldC, Flag

LEMMA TokenProducer == TypeOK /\ TokenInv /\ ProducerStep => TokenInv'
<1> SUFFICES ASSUME TypeOK, TokenInv, ProducerStep PROVE TokenInv'
  OBVIOUS
<1> USE ShmRingAssumption DEF shm, sems, producer, consumer, bounds
<1> USE DEF TypeOK, TokenInv, Tokens, HeldP, HeldC, Flag
<1>1. CASE ProducerOpen
  BY <1>1 DEF ProducerOpen
<1>2. CASE ProducerResetHead \/ ProducerResetTail
  BY <1>2 DEF ProducerResetHead, ProducerResetTail
<1>3. CASE ProducerCheck
  BY <1>3 DEF ProducerCheck
<1>4. CASE ProducerWait
  BY <1>4 DEF ProducerWait
<1>5. CASE ProducerWrite \/ ProducerAdvance
  BY <1>5 DEF ProducerWrite, ProducerAdvance
<1>6. CASE ProducerPost
  BY <1>6 DEF ProducerPost
<1>7. CASE ProducerExit
  BY <1>7 DEF ProducerExit
<1> QED
  BY <1>1, <1>2, <1>3, <1>4, <1>5, <1>6, <1>7 DEF ProducerStep

LEMMA TokenConsumer == TypeOK /\ TokenInv /\ ConsumerStep => TokenInv'
<1> SUFFICES ASSUME TypeOK, TokenInv, ConsumerStep PROVE TokenInv'
  OBVIOUS
<1> USE ShmRingAssumption DEF shm, sems, producer, consumer, bounds
<1> USE DEF TypeOK, TokenInv, Tokens, HeldP, HeldC, Flag
<1>1. CASE ConsumerOpen
  BY <1>1 DEF ConsumerOpen
<1>2. CASE ConsumerCheck
  BY <1>2 DEF ConsumerCheck
<1>3. CASE ConsumerWait
  BY <1>3 DEF ConsumerWait
<1>4. CASE ConsumerRead \/ ConsumerLoad \/ ConsumerStore
  BY <1>4 DEF ConsumerRead, ConsumerLoad, ConsumerStore
<1>5. CASE ConsumerPost
  BY <1>5 DEF ConsumerPost
<1> QED
  BY <1>1, <1>2, <1>3, <1>4, <1>5 DEF ConsumerStep

LEMMA TokenFaults ==
  TypeOK /\ TokenInv
    /\ (ProducerSignal \/ ConsumerSignal \/ ProducerCrash \/ ConsumerCrash)
  => TokenInv'
<1> SUFFICES ASSUME TypeOK, TokenInv,
                    ProducerSignal \/ ConsumerSignal \/ ProducerCrash \/ ConsumerCrash
             PROVE  TokenInv'
  OBVIOUS
<1> USE ShmRingAssumption DEF shm, sems, producer, consumer, bounds
<1> USE DEF TypeOK, TokenInv, Tokens, HeldP, HeldC, Flag
<1>1. CASE ProducerSignal
  BY <1>1 DEF ProducerSignal
<1>2. CASE ConsumerSignal
  BY <1>2 DEF ConsumerSignal
<1>3. CASE ProducerCrash
  BY <1>3 DEF ProducerCrash
<1>4. CASE ConsumerCrash
  BY <1>4 DEF ConsumerCrash
<1> QED
  BY <1>1, <1>2, <1>3, <1>4

LEMMA TokenStep == TypeOK /\ TokenInv /\ [Next]_vars => TokenInv'
<1>1. UNCHANGED vars /\ TokenInv => TokenInv'
  BY DEF vars, TokenInv, Tokens, HeldP, HeldC, Flag,
         shm, sems, producer, consumer, bounds
<1> QED
  BY <1>1, TokenProducer, TokenConsumer, TokenFaults DEF Next

(* No post invents a token, in any run of the two processes: signals,      *)
(* kills and restarts of both included.                                    *)
THEOREM TokensNeverInvented == Spec => []TokensBounded
<1>1. TokenInv => TokensBounded
  BY DEF TokenInv, Tokens, TokensBounded
<1> QED
  BY TokenInit, TokenStep, TypeCorrect, <1>1, PTL DEF Spec

-----------------------------------------------------------------------------
(***************************************************************************)
(* With no kill at all the inequalities are equalities: the tokens number  *)
(* BUFFER_SIZE as soon as the producer has opened the semaphores, so what  *)
(* the semaphores count is what the indices delimit.                       *)
(***************************************************************************)
Conserved == pcP # "init" => Tokens = BUFFER_SIZE

LEMMA ConservedStep ==
  ASSUME TypeOK, TokenInv, RingInv, Conserved, ProducerStep \/ ConsumerStep
  PROVE  Conserved'
<1> USE ShmRingAssumption DEF shm, sems, producer, consumer, bounds
<1> USE DEF TypeOK, Conserved, Tokens, HeldP, HeldC, Flag
<1>1. CASE ProducerOpen
  BY <1>1 DEF ProducerOpen, RingInv, Starting
<1>2. CASE ProducerStep /\ ~ProducerOpen
  BY <1>2 DEF ProducerStep, ProducerResetHead, ProducerResetTail,
              ProducerCheck, ProducerWait, ProducerWrite, ProducerAdvance,
              ProducerPost, ProducerExit
<1>3. CASE ConsumerStep
  BY <1>3 DEF ConsumerStep, ConsumerOpen, ConsumerCheck, ConsumerWait,
              ConsumerRead, ConsumerLoad, ConsumerStore, ConsumerPost
<1> QED
  BY <1>1, <1>2, <1>3

LEMMA QuietBefore ==
  ASSUME TypeOK, [Next]_vars, Quiet' PROVE Quiet
<1>1. Undisturbed
  BY UndisturbedStep DEF Quiet
<1>2. crashesC = 0
  BY ShmRingAssumption
  DEF Quiet, TypeOK, vars, bounds, Next, ProducerStep, ProducerOpen, ProducerResetHead,
      ProducerResetTail, ProducerCheck, ProducerWait, ProducerWrite, ProducerAdvance,
      ProducerPost, ProducerExit, ConsumerStep, ConsumerOpen, ConsumerCheck,
      ConsumerWait, ConsumerRead, ConsumerLoad, ConsumerStore, ConsumerPost,
      ProducerSignal, ConsumerSignal, ProducerCrash, ConsumerCrash
<1> QED
  BY <1>1, <1>2 DEF Quiet

LEMMA NothingLost == Spec => [](Quiet => Conserved)
<1>1. Init => (Undisturbed => RingInv) /\ (Quiet => Conserved)
  BY RingInit DEF Init, Conserved
<1>2. TypeOK /\ TokenInv /\ (Undisturbed => RingInv) /\ (Quiet => Conserved)
        /\ [Next]_vars => (Quiet => Conserved)'
  <2> SUFFICES ASSUME TypeOK, TokenInv, Undisturbed => RingInv, Quiet => Conserved,
                      [Next]_vars, Quiet'
               PROVE  Conserved'
    OBVIOUS
  <2>1. Quiet /\ ~ProducerSignal /\ ~ConsumerSignal /\ ~ProducerCrash
    BY QuietBefore, UndisturbedStep DEF Quiet
  <2>2. CASE ProducerStep \/ ConsumerStep
    BY <2>1, <2>2, ConservedStep DEF Quiet
  <2>3. CASE ConsumerCrash
    BY <2>3, ShmRingAssumption DEF ConsumerCrash, TypeOK, Quiet
  <2>4. CASE UNCHANGED vars
    BY <2>1, <2>4 DEF vars, Conserved, Tokens, HeldP, HeldC, Flag,
                      shm, sems, producer, consumer, bounds
  <2> QED
    BY <2>1, <2>2, <2>3, <2>4 DEF Next
<1>3. TokenInv /\ TypeOK /\ [Next]_vars => TokenInv'
  BY TokenStep
<1> QED
  BY <1>1, <1>2, <1>3, TokenInit, RingStep, TypeCorrect, PTL DEF Spec

(* Whenever both processes are between two passes the semaphores count     *)
(* exactly the free and the filled slots, up to the first signal or kill.  *)
THEOREM SemaphoresCount == Spec => []SemaphoresCountSlots
<1> USE DEF Quiet
<1>1. Init => (Undisturbed => RingInv)
  BY RingInit
<1>3. TypeOK /\ (Undisturbed => RingInv) /\ (Quiet => Conserved)
        => SemaphoresCountSlots
  <2> SUFFICES ASSUME TypeOK, RingInv, Conserved,
                      pcP \in {"check", "wait"}, pcC \in {"init", "check", "wait"}
               PROVE  /\ sem_prod + sem_cons = BUFFER_SIZE
                      /\ head = (tail + sem_cons) % BUFFER_SIZE
    BY DEF SemaphoresCountSlots
  <2>1. sem_prod + sem_cons = BUFFER_SIZE
    BY DEF TypeOK, Conserved, Tokens, HeldP, HeldC, Flag
  <2>2. head = tail + sem_cons \/ head = tail + sem_cons - BUFFER_SIZE
    BY <2>1, ShmRingAssumption
    DEF TypeOK, RingInv, Occupied, Ready, Free, Flag
  <2>3. head = (tail + sem_cons) % BUFFER_SIZE
    BY <2>2, ShmRingAssumption DEF TypeOK, Slots
  <2> QED
    BY <2>1, <2>3
<1> QED
  BY <1>1, <1>3, NothingLost, RingStep, TypeCorrect, PTL DEF Spec
=============================================================================
