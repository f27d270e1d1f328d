---------------------------- MODULE ShmFifoProof ----------------------------
(***************************************************************************)
(* The numbers in the ring of task3, for every BUFFER_SIZE and every width *)
(* of the counter: what the consumer reads is consecutive up to the first  *)
(* signal or restart of the producer, and the ring implements BoundedFifo  *)
(* as long as nothing is killed.                                           *)
(*                                                                         *)
(* ShmRingProof shows that some number occ of slots lies between tail and  *)
(* head. Here the slots are numbered by their distance from tail: those at *)
(* a distance below occ hold consecutive numbers, and the counter is next. *)
(***************************************************************************)
EXTENDS ShmRingProof, SequenceTheorems

Succ(n) == (n + 1) % COUNTER_MOD
After(v) == IF v = NoValue THEN 0 ELSE Succ(v)

(* The slot at distance k from tail. *)
At(k) == IF tail + k < BUFFER_SIZE THEN tail + k ELSE tail + k - BUFFER_SIZE

(* The number that the consumer is to read next, produced or not. *)
NextUp(occ) == IF occ > 0 THEN buffer[tail] ELSE counter

(* `value' is the number before it; or it is that number, read by a        *)
(* consumer that has been killed before it moved tail.                     *)
Numbers(occ) ==
  /\ \A k \in 0 .. occ - 1 : k + 1 < occ => buffer[At(k + 1)] = Succ(buffer[At(k)])
  /\ occ > 0 => counter = Succ(buffer[At(occ - 1)])
  /\ pcP = "advance" => buffer[head] = counter
  /\ pcC \in {"load", "store"} => value = buffer[tail]
  /\ \/ NextUp(occ) = After(value)
     \/ occ > 0 /\ value = NextUp(occ)

NumberInv ==
  /\ pcP \in {"init", "reset", "reset_tail"} => counter = 0 /\ value = NoValue
  /\ \E occ \in 0 .. BUFFER_SIZE : Occupied(occ) /\ Numbers(occ)

-----------------------------------------------------------------------------
(* Slots that are less than BUFFER_SIZE apart are different; the slot at   *)
(* the distance occ is head, unless the ring is full.                      *)
LEMMA Distances ==
  ASSUME TypeOK, NEW occ \in 0 .. BUFFER_SIZE, Occupied(occ)
  PROVE  /\ \A k \in 0 .. BUFFER_SIZE - 1 : At(k) \in Slots
         /\ At(0) = tail
         /\ occ < BUFFER_SIZE => At(occ) = head
         /\ occ < BUFFER_SIZE => \A k \in 0 .. occ - 1 : At(k) # head
BY ShmRingAssumption DEF TypeOK, Slots, Occupied, At

(* Moving tail by one slot shortens all distances by one.                  *)
LEMMA DistancesAfterStore ==
  ASSUME TypeOK, tail' = NextSlot(tail)
  PROVE  /\ \A k \in 0 .. BUFFER_SIZE - 2 : At(k)' = At(k + 1)
         /\ BUFFER_SIZE > 1 => tail' = At(1)
<1>1. tail \in Slots
  BY DEF TypeOK
<1>2. tail' = IF tail < BUFFER_SIZE - 1 THEN tail + 1 ELSE 0
  BY <1>1, NextSlotCases, ShmRingAssumption DEF Slots
<1> QED
  BY <1>1, <1>2, ShmRingAssumption DEF Slots, At

LEMMA NumberInit == Init => NumberInv
<1> SUFFICES ASSUME Init PROVE NumberInv
  OBVIOUS
<1>1. Occupied(0)
  BY ShmRingAssumption DEF Init, Occupied, Ready, Free, Flag
<1>2. Numbers(0)
  BY ShmRingAssumption DEF Init, Numbers, NextUp, After
<1> QED
  BY <1>1, <1>2, ShmRingAssumption DEF Init, NumberInv

(* The steps that change neither the ring nor the locals.                  *)
LEMMA NumberFrame ==
  ASSUME NEW occ \in 0 .. BUFFER_SIZE, Numbers(occ), shm' = shm,
         counter' = counter, value' = value,
         pcP' = "advance" => pcP = "advance",
         pcC' \in {"load", "store"} => pcC \in {"load", "store"}
  PROVE  Numbers(occ)'
BY DEF Numbers, NextUp, At, shm

LEMMA NumberProducer ==
  ASSUME TypeOK, RingInv, NumberInv, ProducerStep
  PROVE  NumberInv'
<1> PICK occ \in 0 .. BUFFER_SIZE : Occupied(occ) /\ Numbers(occ)
  BY DEF NumberInv
<1> USE ShmRingAssumption DEF shm, sems, producer, consumer, bounds
<1>1. CASE ProducerOpen
  <2>1. Occupied(0) /\ Occupied(0)'
    BY <1>1 DEF ProducerOpen, TypeOK, RingInv, Starting, Occupied, Ready, Free, Flag
  <2>2. Numbers(0)'
    BY <1>1 DEF ProducerOpen, NumberInv, RingInv, Starting, Numbers, NextUp, After
  <2> QED
    BY <1>1, <2>1, <2>2 DEF ProducerOpen, NumberInv
<1>2. CASE ProducerResetHead
  BY <1>2, NumberFrame
  DEF ProducerResetHead, NumberInv, RingInv, Starting, Occupied, Ready, Free, Flag
<1>3. CASE ProducerResetTail
  <2>1. shm' = shm /\ counter' = counter
    BY <1>3 DEF ProducerResetTail, RingInv, Starting, NumberInv
  <2> QED
    BY <1>3, <2>1, NumberFrame
    DEF ProducerResetTail, NumberInv, Occupied, Ready, Free, Flag
<1>4. CASE ProducerCheck
  BY <1>4, NumberFrame
  DEF ProducerCheck, NumberInv, Occupied, Ready, Free, Flag
<1>5. CASE ProducerWait
  BY <1>5, NumberFrame
  DEF ProducerWait, TypeOK, NumberInv, Occupied, Ready, Free, Flag
<1>6. CASE ProducerWrite
  <2>1. Occupied(occ)' /\ occ < BUFFER_SIZE
    BY <1>6 DEF ProducerWrite, TypeOK, Occupied, Ready, Free, Flag
  <2>2. /\ \A k \in 0 .. occ - 1 : At(k)' = At(k) /\ buffer'[At(k)] = buffer[At(k)]
        /\ buffer'[head] = counter
    BY <1>6, <2>1, Distances DEF ProducerWrite, TypeOK, At
  <2>3. occ > 0 => buffer'[tail] = buffer[tail]
    BY <2>2, Distances
  <2>4. Numbers(occ)'
    BY <1>6, <2>1, <2>2, <2>3 DEF ProducerWrite, Numbers, NextUp, TypeOK, Occupied, Ready, Flag
  <2> QED
    BY <1>6, <2>1, <2>4 DEF ProducerWrite, NumberInv
<1>7. CASE ProducerAdvance
  <2>1. occ < BUFFER_SIZE
    BY <1>7 DEF ProducerAdvance, TypeOK, Occupied, Free, Flag
  <2>2. head' = head + 1 \/ (head' = 0 /\ head = BUFFER_SIZE - 1)
    BY <1>7, NextSlotCases DEF ProducerAdvance, TypeOK, Slots
  <2>3. Occupied(occ + 1)'
    BY <1>7, <2>1, <2>2
    DEF ProducerAdvance, TypeOK, Slots, Occupied, Ready, Free, Flag
  <2>4. buffer[At(occ)] = counter /\ counter' = Succ(counter)
    BY <1>7, <2>1, Distances DEF ProducerAdvance, Numbers, Succ
  <2>5. \A k \in 0 .. occ : At(k)' = At(k)
    BY <1>7 DEF ProducerAdvance, At
  <2>6. NextUp(occ + 1)' = NextUp(occ)
    BY <1>7, <2>4, Distances DEF ProducerAdvance, NextUp
  <2>7. Numbers(occ + 1)'
    BY <1>7, <2>1, <2>4, <2>5, <2>6
    DEF ProducerAdvance, Numbers, After, NextUp, TypeOK, Occupied, Ready, Flag
  <2> QED
    BY <1>7, <2>1, <2>3, <2>7 DEF ProducerAdvance, NumberInv
<1>8. CASE ProducerPost
  BY <1>8, NumberFrame
  DEF ProducerPost, TypeOK, NumberInv, Occupied, Ready, Free, Flag
<1>9. CASE ProducerExit
  BY <1>9, NumberFrame
  DEF ProducerExit, NumberInv, Occupied, Ready, Free, Flag
<1> QED
  BY <1>1, <1>2, <1>3, <1>4, <1>5, <1>6, <1>7, <1>8, <1>9 DEF ProducerStep

LEMMA NumberConsumer ==
  ASSUME TypeOK, RingInv, NumberInv, ConsumerStep \/ ConsumerCrash
  PROVE  NumberInv' /\ Consecutive
<1> PICK occ \in 0 .. BUFFER_SIZE : Occupied(occ) /\ Numbers(occ)
  BY DEF NumberInv
<1> USE ShmRingAssumption DEF shm, sems, producer, consumer, bounds
<1>1. CASE ConsumerOpen
  BY <1>1, NumberFrame
  DEF ConsumerOpen, NumberInv, Occupied, Ready, Free, Flag, Consecutive
<1>2. CASE ConsumerCheck
  BY <1>2, NumberFrame
  DEF ConsumerCheck, NumberInv, Occupied, Ready, Free, Flag, Consecutive
<1>3. CASE ConsumerWait
  BY <1>3, NumberFrame
  DEF ConsumerWait, TypeOK, NumberInv, Occupied, Ready, Free, Flag, Consecutive
<1>4. CASE ConsumerRead
  <2>1. Occupied(occ)' /\ occ > 0
    BY <1>4 DEF ConsumerRead, TypeOK, Occupied, Ready, Free, Flag
  <2>2. value' = NextUp(occ) /\ value' = NextUp(occ)'
    BY <1>4, <2>1 DEF ConsumerRead, NextUp
  <2>3. Numbers(occ)'
    BY <1>4, <2>1, <2>2 DEF ConsumerRead, Numbers, At, NextUp
  <2>4. Consecutive
    BY <2>2 DEF Numbers, Consecutive, After, Succ
  <2> QED
    BY <1>4, <2>1, <2>3, <2>4 DEF ConsumerRead, NumberInv, RingInv, Starting
<1>5. CASE ConsumerLoad
  BY <1>5, NumberFrame
  DEF ConsumerLoad, NumberInv, Occupied, Ready, Free, Flag, Consecutive
<1>6. CASE ConsumerStore
  <2>1. tail' = NextSlot(tail) /\ occ > 0
    BY <1>6 DEF ConsumerStore, RingInv, TypeOK, Occupied, Ready, Flag
  <2>2. tail' = tail + 1 \/ (tail' = 0 /\ tail = BUFFER_SIZE - 1)
    BY <2>1, NextSlotCases DEF TypeOK, Slots
  <2>3. Occupied(occ - 1)'
    BY <1>6, <2>1, <2>2
    DEF ConsumerStore, TypeOK, Slots, Occupied, Ready, Free, Flag
  <2>4. \A k \in 0 .. BUFFER_SIZE - 2 : At(k)' = At(k + 1)
    BY <2>1, DistancesAfterStore
  <2>5. occ > 1 => buffer[tail'] = Succ(buffer[tail])
    <3>1. At(0) = tail /\ (occ > 1 => tail' = At(0 + 1))
      BY <2>1, Distances, DistancesAfterStore
    <3> QED
      BY <3>1 DEF Numbers
  <2>6. occ = 1 => counter = Succ(buffer[tail])
    BY Distances DEF Numbers
  <2>7. value = buffer[tail] /\ value # NoValue
    BY <1>6 DEF ConsumerStore, Numbers, TypeOK, NoValue, Counters
  <2>8. NextUp(occ - 1)' = After(value)'
    BY <1>6, <2>1, <2>5, <2>6, <2>7 DEF ConsumerStore, NextUp, After
  <2>9. Numbers(occ - 1)'
    BY <1>6, <2>1, <2>4, <2>8 DEF ConsumerStore, Numbers, RingInv, Starting
  <2> QED
    BY <1>6, <2>1, <2>3, <2>9 DEF ConsumerStore, NumberInv, RingInv, Starting, Consecutive
<1>7. CASE ConsumerPost
  BY <1>7, NumberFrame
  DEF ConsumerPost, TypeOK, NumberInv, Occupied, Ready, Free, Flag, Consecutive
<1>8. CASE ConsumerCrash
  BY <1>8, NumberFrame
  DEF ConsumerCrash, TypeOK, NumberInv, Occupied, Ready, Free, Flag, Consecutive
<1> QED
  BY <1>1, <1>2, <1>3, <1>4, <1>5, <1>6, <1>7, <1>8 DEF ConsumerStep

LEMMA NumberStep ==
  ASSUME TypeOK, Undisturbed => RingInv, Undisturbed => NumberInv, [Next]_vars,
         Undisturbed'
  PROVE  NumberInv' /\ Consecutive
<1>1. RingInv /\ NumberInv /\ ~ProducerSignal /\ ~ConsumerSignal /\ ~ProducerCrash
  BY UndisturbedStep
<1>2. CASE ProducerStep
  <2>1. value' = value
    BY <1>2 DEF consumer, ProducerStep, ProducerOpen, ProducerResetHead, ProducerResetTail,
      ProducerCheck, ProducerWait, ProducerWrite, ProducerAdvance, ProducerPost,
      ProducerExit
  <2> QED
    BY <1>1, <1>2, <2>1, NumberProducer DEF Consecutive
<1>3. CASE ConsumerStep \/ ConsumerCrash
  BY <1>1, <1>3, NumberConsumer
<1>4. CASE UNCHANGED vars
  BY <1>1, <1>4, NumberFrame
  DEF vars, shm, sems, producer, consumer, bounds, NumberInv, Occupied, Ready, Free,
      Flag, Consecutive
<1> QED
  BY <1>1, <1>2, <1>3, <1>4 DEF Next

LEMMA NumbersHold == Spec => [](Undisturbed => NumberInv)
<1>1. Init => (Undisturbed => NumberInv)
  BY NumberInit
<1>2. Init => (Undisturbed => RingInv)
  BY RingInit
<1>3. TypeOK /\ (Undisturbed => RingInv) /\ (Undisturbed => NumberInv) /\ [Next]_vars
        => (Undisturbed => NumberInv)'
  BY NumberStep
<1> QED
  BY <1>1, <1>2, <1>3, RingStep, TypeCorrect, PTL DEF Spec

(* The consumer obtains consecutive numbers, however often it is killed,   *)
(* up to the first signal and the first restart of the producer.           *)
THEOREM NumbersInOrder == Spec => ConsumedInOrderUndisturbed
<1>1. Init => (Undisturbed => RingInv)
  BY RingInit
<1>2. TypeOK /\ (Undisturbed => RingInv) /\ (Undisturbed => NumberInv) /\ [Next]_vars
        => [Undisturbed' => Consecutive]_vars
  BY NumberStep
<1> QED
  BY <1>1, <1>2, NumbersHold, RingStep, TypeCorrect, PTL
  DEF Spec, ConsumedInOrderUndisturbed

-----------------------------------------------------------------------------
(***************************************************************************)
(* The refinement. The queue of BoundedFifo is the part of the occupied    *)
(* slots that the consumer has been told of and has not read. Its          *)
(* positions are distances from tail, shifted by Lag while the number at   *)
(* tail has been read and tail has not been moved.                         *)
(***************************************************************************)
Lag == Flag(pcC \in {"load", "store"})

LEMMA ModuloOnce ==
  ASSUME NEW m \in Nat \ {0}, NEW a \in 0 .. 2 * m - 1
  PROVE  a % m = IF a < m THEN a ELSE a - m
OBVIOUS

LEMMA SlotSum ==
  ASSUME NEW m \in Nat \ {0}, NEW u \in 0 .. m - 1, NEW i \in 1 .. m
  PROVE  (u + i - 1) % m = IF u + i - 1 < m THEN u + i - 1 ELSE u + i - 1 - m
OBVIOUS

LEMMA PredecessorOfSucc ==
  ASSUME NEW c \in Counters
  PROVE  (Succ(c) + COUNTER_MOD - 1) % COUNTER_MOD = c
<1>1. Succ(c) = IF c + 1 < COUNTER_MOD THEN c + 1 ELSE 0
  <2>1. c + 1 \in 0 .. 2 * COUNTER_MOD - 1
    BY ShmRingAssumption DEF Counters
  <2> QED
    BY <2>1, ModuloOnce, ShmRingAssumption DEF Succ, Counters
<1>2. Succ(c) + COUNTER_MOD - 1 \in 0 .. 2 * COUNTER_MOD - 1
  BY <1>1, ShmRingAssumption DEF Counters
<1> QED
  BY <1>1, <1>2, ModuloOnce, ShmRingAssumption DEF Counters

(* Sequences that are functions: an element more, and an element less.     *)
LEMMA OneMore ==
  ASSUME NEW S, NEW n \in Nat, NEW q \in [1 .. n -> S], NEW r \in [1 .. n + 1 -> S],
         \A i \in 1 .. n : r[i] = q[i]
  PROVE  Len(q) = n /\ r = Append(q, r[n + 1])
<1>1. q \in Seq(S) /\ r \in Seq(S) /\ r[n + 1] \in S
  BY SeqDef
<1>2. Len(q) = n /\ Len(r) = n + 1
  BY <1>1, LenProperties
<1>3. Append(q, r[n + 1]) \in Seq(S) /\ Len(Append(q, r[n + 1])) = n + 1
  BY <1>1, <1>2, AppendProperties
<1>4. \A i \in 1 .. n + 1 : r[i] = Append(q, r[n + 1])[i]
  BY <1>1, <1>2, AppendProperties
<1> QED
  BY <1>1, <1>2, <1>3, <1>4, SeqEqual

LEMMA OneLess ==
  ASSUME NEW S, NEW n \in Nat, NEW q \in [1 .. n + 1 -> S], NEW r \in [1 .. n -> S],
         \A i \in 1 .. n : r[i] = q[i + 1]
  PROVE  q # << >> /\ Head(q) = q[1] /\ r = Tail(q)
<1>1. q \in Seq(S) /\ r \in Seq(S)
  BY SeqDef
<1>2. Len(q) = n + 1 /\ Len(r) = n
  BY <1>1, LenProperties
<1>3. q # << >>
  BY <1>2
<1>4. Tail(q) \in Seq(S) /\ Len(Tail(q)) = n /\ \A i \in 1 .. n : Tail(q)[i] = q[i + 1]
  BY <1>1, <1>2, <1>3, HeadTailProperties
<1> QED
  BY <1>1, <1>2, <1>3, <1>4, SeqEqual

(* The indices of Unread are distances from tail.                          *)
LEMMA UnreadIndex ==
  ASSUME TypeOK, UnreadCount + Lag <= BUFFER_SIZE
  PROVE  \A i \in 1 .. UnreadCount :
           (UnreadFrom + i - 1) % BUFFER_SIZE = At(i + Lag - 1)
<1> USE ShmRingAssumption
<1>1. UnreadCount \in Nat /\ Lag \in {0, 1}
  BY DEF TypeOK, UnreadCount, Lag, Flag
<1>2. UnreadFrom = At(Lag)
  <2>1. NextSlot(tail) = IF tail < BUFFER_SIZE - 1 THEN tail + 1 ELSE 0
    BY NextSlotCases DEF TypeOK, Slots
  <2> QED
    BY <2>1 DEF UnreadFrom, Lag, Flag, At, TypeOK, Slots
<1>3. ASSUME NEW i \in 1 .. UnreadCount
      PROVE  (UnreadFrom + i - 1) % BUFFER_SIZE = At(i + Lag - 1)
  <2>1. UnreadFrom \in Slots
    BY <1>2, NextSlotCases DEF UnreadFrom, TypeOK
  <2>2. UnreadFrom + i - 1 \in 0 .. 2 * BUFFER_SIZE - 1
    BY <1>1, <2>1 DEF Slots
  <2>3. tail \in Slots
    BY DEF TypeOK
  <2>4. (UnreadFrom + i - 1) % BUFFER_SIZE
          = IF UnreadFrom + i - 1 < BUFFER_SIZE THEN UnreadFrom + i - 1
                                                ELSE UnreadFrom + i - 1 - BUFFER_SIZE
    BY <1>1, <2>1, <2>2, SlotSum DEF Slots
  <2>5. CASE Lag = 0
    BY <1>2, <2>3, <2>4, <2>5 DEF At, Slots
  <2>6. CASE Lag = 1
    <3>1. UnreadFrom = IF tail < BUFFER_SIZE - 1 THEN tail + 1 ELSE 0
      BY <1>2, <2>3, <2>6 DEF At, Slots
    <3> QED
      BY <1>1, <2>3, <2>4, <2>6, <3>1 DEF At, Slots
  <2> QED
    BY <1>1, <2>5, <2>6
<1> QED
  BY <1>3

(* What the queue holds, position by position.                             *)
QueueFits == UnreadCount + Lag <= BUFFER_SIZE

QueueSlots ==
  /\ UnreadCount \in Nat
  /\ Unread \in [1 .. UnreadCount -> Counters]
  /\ \A i \in 1 .. UnreadCount : Unread[i] = buffer[At(i + Lag - 1)]

LEMMA UnreadSlots == TypeOK /\ QueueFits => QueueSlots
<1> SUFFICES ASSUME TypeOK, QueueFits PROVE QueueSlots
  OBVIOUS
<1> USE DEF QueueFits
<1> USE ShmRingAssumption
<1>1. UnreadCount \in Nat /\ Lag \in {0, 1}
  BY DEF TypeOK, UnreadCount, Lag, Flag
<1>3. \A i \in 1 .. UnreadCount : (UnreadFrom + i - 1) % BUFFER_SIZE = At(i + Lag - 1)
  BY UnreadIndex
<1>4. \A i \in 1 .. UnreadCount : At(i + Lag - 1) \in Slots
  BY <1>1 DEF At, TypeOK, Slots
<1> QED
  BY <1>1, <1>3, <1>4 DEF Unread, TypeOK, QueueSlots

LEMMA UnreadSlotsPrimed == (TypeOK /\ QueueFits => QueueSlots)'
BY UnreadSlots, PTL

(* While nothing is killed no token is missing: every occupied slot is     *)
(* accounted for.                                                          *)
LEMMA AllAccounted ==
  ASSUME TypeOK, Conserved, pcP # "init", NEW occ \in 0 .. BUFFER_SIZE, Occupied(occ)
  PROVE  UnreadCount + Lag + Flag(pcP = "post") = occ
BY ShmRingAssumption
DEF TypeOK, Conserved, Tokens, HeldP, HeldC, Occupied, Ready, Free, UnreadCount, Lag, Flag

(* The queue stays when its ends and the slots between them do.            *)
LEMMA QueueFrame ==
  ASSUME TypeOK, TypeOK', UnreadCount + Lag <= BUFFER_SIZE,
         UnreadCount' = UnreadCount, UnreadFrom' = UnreadFrom,
         \A k \in 0 .. UnreadCount + Lag - 1 : buffer'[At(k)] = buffer[At(k)]
  PROVE  Unread' = Unread
<1>1. UnreadCount \in Nat /\ Lag \in {0, 1}
  BY DEF TypeOK, UnreadCount, Lag, Flag
<1>2. ASSUME NEW i \in 1 .. UnreadCount
      PROVE  buffer'[(UnreadFrom + i - 1) % BUFFER_SIZE]
               = buffer[(UnreadFrom + i - 1) % BUFFER_SIZE]
  <2>1. (UnreadFrom + i - 1) % BUFFER_SIZE = At(i + Lag - 1)
    BY <1>2, UnreadIndex
  <2>2. i + Lag - 1 \in 0 .. UnreadCount + Lag - 1
    BY <1>1, <1>2
  <2> QED
    BY <2>1, <2>2
<1> QED
  BY <1>1, <1>2, Zenon DEF Unread

Stutter == UNCHANGED <<Unread, Emitted, value>>

LEMMA FifoProducer ==
  ASSUME TypeOK, TypeOK', RingInv, NumberInv, Conserved, ProducerStep
  PROVE  Stutter \/ Fifo!Put
<1> PICK occ \in 0 .. BUFFER_SIZE : Occupied(occ) /\ Numbers(occ)
  BY DEF NumberInv
<1> USE ShmRingAssumption DEF shm, sems, producer, consumer, bounds
<1>1. value' = value
  BY DEF ProducerStep, ProducerOpen, ProducerResetHead, ProducerResetTail,
         ProducerCheck, ProducerWait, ProducerWrite, ProducerAdvance, ProducerPost,
         ProducerExit
<1>2. UnreadCount + Lag <= BUFFER_SIZE /\ UnreadCount + Lag <= occ
  BY DEF TypeOK, Occupied, Ready, UnreadCount, Lag, Flag
<1>3. CASE pcP \in {"init", "reset", "reset_tail"}
  <2>1. shm' = shm /\ counter' = counter /\ sem_cons' = sem_cons /\ pcC' = pcC
        /\ pcP # "post" /\ pcP' # "post"
    BY <1>3 DEF ProducerStep, ProducerOpen, ProducerResetHead, ProducerResetTail,
         ProducerCheck, ProducerWait, ProducerWrite, ProducerAdvance, ProducerPost,
         ProducerExit, RingInv, Starting, NumberInv
  <2>2. UnreadCount' = UnreadCount /\ UnreadFrom' = UnreadFrom /\ Emitted' = Emitted
    BY <2>1 DEF UnreadCount, UnreadFrom, Emitted
  <2> QED
    BY <1>1, <1>2, <2>1, <2>2, QueueFrame DEF Stutter
<1>4. CASE ProducerCheck \/ ProducerWait \/ ProducerExit
  <2>1. shm' = shm /\ counter' = counter /\ sem_cons' = sem_cons /\ pcC' = pcC
        /\ pcP # "post" /\ pcP' # "post"
    BY <1>4 DEF ProducerCheck, ProducerWait, ProducerExit
  <2>2. UnreadCount' = UnreadCount /\ UnreadFrom' = UnreadFrom /\ Emitted' = Emitted
    BY <2>1 DEF UnreadCount, UnreadFrom, Emitted
  <2> QED
    BY <1>1, <1>2, <2>1, <2>2, QueueFrame DEF Stutter
<1>5. CASE ProducerWrite
  <2>1. UnreadCount' = UnreadCount /\ UnreadFrom' = UnreadFrom /\ Emitted' = Emitted
    BY <1>5 DEF ProducerWrite, UnreadCount, UnreadFrom, Emitted
  <2>2. occ < BUFFER_SIZE
    BY <1>5 DEF ProducerWrite, TypeOK, Occupied, Free, Flag
  <2>3. \A k \in 0 .. UnreadCount + Lag - 1 : At(k) # head /\ At(k) \in Slots
    <3>1. UnreadCount \in Nat /\ Lag \in {0, 1}
      BY DEF TypeOK, UnreadCount, Lag, Flag
    <3>2. \A k \in 0 .. UnreadCount + Lag - 1 :
            k \in 0 .. occ - 1 /\ k \in 0 .. BUFFER_SIZE - 1
      BY <1>2, <2>2, <3>1
    <3> QED
      BY <2>2, <3>2, Distances
  <2>4. \A k \in 0 .. UnreadCount + Lag - 1 : buffer'[At(k)] = buffer[At(k)]
    BY <1>5, <2>3 DEF ProducerWrite, TypeOK
  <2> QED
    BY <1>1, <1>2, <2>1, <2>4, QueueFrame DEF Stutter
<1>6. CASE ProducerAdvance
  <2>1. UnreadCount' = UnreadCount /\ UnreadFrom' = UnreadFrom
    BY <1>6 DEF ProducerAdvance, UnreadCount, UnreadFrom
  <2>2. Emitted' = Emitted
    BY <1>6, PredecessorOfSucc DEF ProducerAdvance, Emitted, Succ, TypeOK
  <2>3. buffer' = buffer
    BY <1>6 DEF ProducerAdvance
  <2> QED
    BY <1>1, <1>2, <2>1, <2>2, <2>3, QueueFrame DEF Stutter
<1>7. CASE ProducerPost
  <2>1. /\ UnreadCount' = UnreadCount + 1 /\ UnreadFrom' = UnreadFrom /\ Lag' = Lag
        /\ shm' = shm /\ counter' = counter /\ pcP = "post" /\ pcP' = "check"
    BY <1>7 DEF ProducerPost, TypeOK, UnreadCount, UnreadFrom, Flag, Lag
  <2>2. UnreadCount + Lag = occ - 1 /\ UnreadCount \in Nat /\ Lag \in {0, 1}
    BY <1>7, AllAccounted DEF ProducerPost, TypeOK, UnreadCount, Lag, Flag
  <2>3. UnreadCount' \in Nat /\ UnreadCount' + Lag' <= BUFFER_SIZE
    BY <2>1, <2>2
  <2>4. /\ Unread \in [1 .. UnreadCount -> Counters]
        /\ \A i \in 1 .. UnreadCount : Unread[i] = buffer[At(i + Lag - 1)]
    BY <1>2, UnreadSlots DEF QueueFits, QueueSlots
  <2>5. /\ Unread' \in [1 .. UnreadCount + 1 -> Counters]
        /\ \A i \in 1 .. UnreadCount + 1 : Unread'[i] = buffer[At(i + Lag - 1)]
    <3>1. QueueSlots'
      BY <2>3, UnreadSlotsPrimed DEF QueueFits
    <3>2. \A k : At(k)' = At(k)
      BY <2>1 DEF At
    <3> QED
      BY <2>1, <3>1, <3>2 DEF QueueSlots
  <2>6. Len(Unread) = UnreadCount /\ Unread' = Append(Unread, Unread'[UnreadCount + 1])
    <3>1. \A i \in 1 .. UnreadCount : Unread'[i] = Unread[i]
      BY <2>2, <2>4, <2>5
    <3> QED
      BY <2>2, <2>4, <2>5, <3>1, OneMore
  <2>7. Unread'[UnreadCount + 1] = buffer[At(occ - 1)] /\ buffer[At(occ - 1)] \in Counters
    <3>1. UnreadCount + 1 \in 1 .. UnreadCount + 1 /\ UnreadCount + 1 + Lag - 1 = occ - 1
      BY <2>2
    <3> QED
      BY <2>5, <3>1
  <2>8. counter = Succ(buffer[At(occ - 1)])
    BY <2>2 DEF Numbers
  <2>9. Emitted = buffer[At(occ - 1)] /\ Emitted' = (Emitted + 1) % COUNTER_MOD
    BY <2>1, <2>7, <2>8, PredecessorOfSucc DEF Emitted, Succ
  <2>10. UnreadCount < BUFFER_SIZE
    BY <2>2
  <2> QED
    BY <1>1, <2>6, <2>7, <2>9, <2>10 DEF Fifo!Put
<1>8. ProducerOpen \/ ProducerResetHead \/ ProducerResetTail
        => pcP \in {"init", "reset", "reset_tail"}
  BY DEF ProducerOpen, ProducerResetHead, ProducerResetTail
<1> QED
  BY <1>3, <1>4, <1>5, <1>6, <1>7, <1>8 DEF ProducerStep

LEMMA FifoConsumer ==
  ASSUME TypeOK, TypeOK', RingInv, NumberInv, ConsumerStep
  PROVE  Stutter \/ Fifo!Get
<1> PICK occ \in 0 .. BUFFER_SIZE : Occupied(occ) /\ Numbers(occ)
  BY DEF NumberInv
<1> USE ShmRingAssumption DEF shm, sems, producer, consumer, bounds
<1>1. Emitted' = Emitted /\ buffer' = buffer
  BY DEF ConsumerStep, ConsumerOpen, ConsumerCheck, ConsumerWait, ConsumerRead,
         ConsumerLoad, ConsumerStore, ConsumerPost, Emitted
<1>2. UnreadCount + Lag <= BUFFER_SIZE
  BY DEF TypeOK, Occupied, Ready, UnreadCount, Lag, Flag
<1>3. CASE ConsumerStep /\ ~ConsumerRead
  <2>1. value' = value
    BY <1>3 DEF ConsumerStep, ConsumerOpen, ConsumerCheck, ConsumerWait, ConsumerLoad,
                ConsumerStore, ConsumerPost
  <2>3. UnreadCount' = UnreadCount
    <3>1. CASE ConsumerWait
      BY <3>1 DEF ConsumerWait, UnreadCount, Flag, TypeOK
    <3>2. CASE ~ConsumerWait
      BY <1>3, <3>2 DEF ConsumerStep, ConsumerOpen, ConsumerCheck, ConsumerLoad,
                ConsumerStore, ConsumerPost, UnreadCount, Flag
    <3> QED
      BY <3>1, <3>2
  <2>2. UnreadFrom' = UnreadFrom
    BY <1>3 DEF ConsumerStep, ConsumerOpen, ConsumerCheck, ConsumerWait, ConsumerLoad,
                ConsumerStore, ConsumerPost, UnreadFrom, RingInv
  <2> QED
    BY <1>1, <1>2, <2>1, <2>2, <2>3, QueueFrame DEF Stutter
<1>4. CASE ConsumerRead
  <2> DEFINE n == sem_cons
  <2>1. n \in Nat /\ tail \in Slots
    BY DEF TypeOK
  <2>2. /\ UnreadCount = n + 1 /\ UnreadCount' = n /\ Lag = 0 /\ Lag' = 1
        /\ tail' = tail /\ value' = buffer[tail]
    BY <1>4, <2>1 DEF ConsumerRead, UnreadCount, Lag, Flag
  <2>3. n + 1 <= BUFFER_SIZE
    BY <1>2, <2>1, <2>2
  <2> HIDE DEF n
  <2>4. /\ Unread \in [1 .. n + 1 -> Counters]
        /\ \A i \in 1 .. n + 1 : Unread[i] = buffer[At(i + 0 - 1)]
    <3>1. QueueSlots
      BY <1>2, UnreadSlots DEF QueueFits
    <3> QED
      BY <2>2, <3>1 DEF QueueSlots
  <2>5. /\ Unread' \in [1 .. n -> Counters]
        /\ \A i \in 1 .. n : Unread'[i] = buffer[At(i + 1 - 1)]
    <3>1. QueueSlots'
      BY <2>2, <2>3, UnreadSlotsPrimed DEF QueueFits
    <3>2. \A k : At(k)' = At(k)
      BY <2>2 DEF At
    <3> QED
      BY <1>1, <2>2, <3>1, <3>2 DEF QueueSlots
  <2>6. \A i \in 1 .. n : Unread'[i] = Unread[i + 1]
    <3> TAKE i \in 1 .. n
    <3>1. i + 1 \in 1 .. n + 1 /\ (i + 1) + 0 - 1 = i + 1 - 1
      BY <2>1
    <3> QED
      BY <2>4, <2>5, <3>1
  <2>7. Unread # << >> /\ Head(Unread) = Unread[1] /\ Unread' = Tail(Unread)
    BY <2>1, <2>4, <2>5, <2>6, OneLess
  <2>8. Unread[1] = buffer[tail]
    <3>1. 1 \in 1 .. n + 1 /\ 1 + 0 - 1 = 0
      BY <2>1
    <3>2. At(0) = tail
      BY <2>1 DEF At, Slots
    <3> QED
      BY <2>4, <3>1, <3>2
  <2> QED
    BY <1>1, <2>2, <2>7, <2>8 DEF Fifo!Get
<1> QED
  BY <1>3, <1>4

(* As long as nothing is killed or signalled, the ring is a FIFO of        *)
(* BUFFER_SIZE numbers: every step of the two processes puts the next      *)
(* number, gets the oldest one, or leaves the queue as it is.              *)
THEOREM ImplementsFifo == Spec => FifoImplemented
<1>1. Init => Fifo!FifoInit
  <2> SUFFICES ASSUME Init PROVE Fifo!FifoInit
    OBVIOUS
  <2>1. UnreadCount = 0 /\ Emitted = 0 /\ value = NoValue
    BY DEF Init, UnreadCount, Emitted, Flag
  <2>2. Unread = << >>
    BY <2>1 DEF Unread
  <2> QED
    BY <2>1, <2>2 DEF Fifo!FifoInit
<1>2. TypeOK /\ TypeOK' /\ (Undisturbed => RingInv) /\ (Undisturbed => NumberInv)
        /\ (Quiet => Conserved) /\ [Next]_vars
        => [Quiet' => [Fifo!FifoNext]_(Fifo!fifoVars)]_vars
  <2> SUFFICES ASSUME TypeOK, TypeOK', Undisturbed => RingInv, Undisturbed => NumberInv,
                      Quiet => Conserved, Next, Quiet'
               PROVE  [Fifo!FifoNext]_(Fifo!fifoVars)
    OBVIOUS
  <2>1. RingInv /\ NumberInv /\ ~ProducerSignal /\ ~ConsumerSignal /\ ~ProducerCrash
    BY UndisturbedStep DEF Quiet
  <2>2. ~ConsumerCrash
    BY ShmRingAssumption DEF ConsumerCrash, Quiet, TypeOK
  <2>3. CASE ProducerStep
    <3>1. Quiet
      BY <2>1, <2>3, QuietBefore
    <3> QED
      BY <2>1, <2>3, <3>1, FifoProducer DEF Stutter, Fifo!FifoNext, Fifo!fifoVars
  <2>4. CASE ConsumerStep
    BY <2>1, <2>4, FifoConsumer DEF Stutter, Fifo!FifoNext, Fifo!fifoVars
  <2> QED
    BY <2>1, <2>2, <2>3, <2>4 DEF Next
<1>3. Init => (Undisturbed => RingInv)
  BY RingInit
<1> QED
  BY <1>1, <1>2, <1>3, NumbersHold, NothingLost, RingStep, TypeCorrect, PTL
  DEF Spec, FifoImplemented
=============================================================================
