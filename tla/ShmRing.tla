------------------------------ MODULE ShmRing ------------------------------
(***************************************************************************)
(* The shared-memory ring of task3: the processes shm_producer and         *)
(* shm_consumer, the segment shared_data_t (shm_common.h) and the two      *)
(* named semaphores that count its free and its filled slots.              *)
(*                                                                         *)
(* Each process is a loop of the steps below; between two of them the      *)
(* other process may run, SIGINT/SIGTERM may run the handler `term', and   *)
(* either process may be killed and started again: the segment and the     *)
(* semaphores live in the kernel and survive it.                           *)
(***************************************************************************)
EXTENDS Integers, Sequences

CONSTANTS
  BUFFER_SIZE,         (* slots of the ring, 10 in shm_common.h             *)
  COUNTER_MOD,         (* values of uint64_t counter, 2^64 in the code      *)
  MaxSignals,          (* bound: SIGINT/SIGTERM deliveries, both processes  *)
  MaxProducerCrashes,  (* bound: kills and restarts of the producer         *)
  MaxConsumerCrashes   (* bound: kills and restarts of the consumer         *)

ASSUME ShmRingAssumption ==
  /\ BUFFER_SIZE \in Nat \ {0}
  /\ COUNTER_MOD \in Nat \ {0}
  /\ MaxSignals \in Nat
  /\ MaxProducerCrashes \in Nat
  /\ MaxConsumerCrashes \in Nat

VARIABLES
  buffer, head, tail,   (* shared_data_t                                    *)
  sem_prod, sem_cons,   (* values of the two semaphores                     *)
  linked,               (* TRUE while the kernel objects have their names   *)
  pcP, doneP, counter,  (* producer: next step, its flag `done', its local  *)
  pcC, doneC, value,    (* consumer: next step, its flag `done', its locals *)
  loaded,               (*   (loaded: the tail read for `tail + 1')         *)
  signals, crashesP, crashesC   (* used up parts of the three bounds        *)

shm == <<buffer, head, tail>>
sems == <<sem_prod, sem_cons>>
bounds == <<signals, crashesP, crashesC>>
producer == <<pcP, doneP, counter>>
consumer == <<pcC, doneC, value, loaded>>
vars == <<shm, sems, linked, producer, consumer, bounds>>

Slots == 0 .. BUFFER_SIZE - 1
Counters == 0 .. COUNTER_MOD - 1
NoValue == COUNTER_MOD       (* no number of the counter's type *)

(* Mutant: the modulo is forgotten. *)
NextSlotUnwrapped(i) == i + 1

(* The index arithmetic of both processes. *)
NextSlot(i) == (i + 1) % BUFFER_SIZE

-----------------------------------------------------------------------------
(* The segment is zero-filled when it is created. *)
Init ==
  /\ buffer = [i \in Slots |-> 0]
  /\ head = 0 /\ tail = 0
  /\ sem_prod = 0 /\ sem_cons = 0
  /\ linked = FALSE
  /\ pcP = "init" /\ doneP = FALSE /\ counter = 0
  /\ pcC = "init" /\ doneC = FALSE /\ value = NoValue /\ loaded = 0
  /\ signals = 0 /\ crashesP = 0 /\ crashesC = 0

(* Mutant: the semaphore of the free slots starts one too high. *)
ProducerOpenOneTooMany ==
  /\ pcP = "init"
  /\ pcP' = "reset"
  /\ linked' = TRUE
  /\ IF linked THEN UNCHANGED sems
               ELSE sem_prod' = BUFFER_SIZE + 1 /\ sem_cons' = 0
  /\ UNCHANGED <<shm, doneP, counter, consumer, bounds>>

(* shm_open and sem_open with O_CREAT: objects that exist are opened as    *)
(* they are, and the initial value of a semaphore is ignored.              *)
ProducerOpen ==
  /\ pcP = "init"
  /\ pcP' = "reset"
  /\ linked' = TRUE
  /\ IF linked THEN UNCHANGED sems
               ELSE sem_prod' = BUFFER_SIZE /\ sem_cons' = 0
  /\ UNCHANGED <<shm, doneP, counter, consumer, bounds>>

(* Both indices are set to 0, whatever the semaphores count and whatever   *)
(* a consumer that is still running does to tail.                          *)
ProducerResetHead ==
  /\ pcP = "reset"
  /\ pcP' = "reset_tail"
  /\ head' = 0
  /\ UNCHANGED <<buffer, tail, sems, linked, doneP, counter, consumer, bounds>>

ProducerResetTail ==
  /\ pcP = "reset_tail"
  /\ pcP' = "check"
  /\ tail' = 0 /\ counter' = 0
  /\ UNCHANGED <<buffer, head, sems, linked, doneP, consumer, bounds>>

ProducerCheck ==
  /\ pcP = "check"
  /\ pcP' = IF doneP THEN "exit" ELSE "wait"
  /\ UNCHANGED <<shm, sems, linked, doneP, counter, consumer, bounds>>

ProducerWait ==
  /\ pcP = "wait"
  /\ sem_prod > 0
  /\ sem_prod' = sem_prod - 1
  /\ pcP' = "write"
  /\ UNCHANGED <<shm, sem_cons, linked, doneP, counter, consumer, bounds>>

ProducerWrite ==
  /\ pcP = "write"
  /\ buffer' = [buffer EXCEPT ![head] = counter]
  /\ pcP' = "advance"
  /\ UNCHANGED <<head, tail, sems, linked, doneP, counter, consumer, bounds>>

ProducerAdvance ==
  /\ pcP = "advance"
  /\ head' = NextSlot(head)
  /\ counter' = (counter + 1) % COUNTER_MOD
  /\ pcP' = "post"
  /\ UNCHANGED <<buffer, tail, sems, linked, doneP, consumer, bounds>>

(* Mutant: the post is forgotten. *)
ProducerPostMissing ==
  /\ pcP = "post"
  /\ pcP' = "check"
  /\ UNCHANGED <<shm, sems, linked, doneP, counter, consumer, bounds>>

ProducerPost ==
  /\ pcP = "post"
  /\ sem_cons' = sem_cons + 1
  /\ pcP' = "check"
  /\ UNCHANGED <<shm, sem_prod, linked, doneP, counter, consumer, bounds>>

(* The producer removes the names; a consumer keeps what it has mapped. *)
ProducerExit ==
  /\ pcP = "exit"
  /\ pcP' = "stopped"
  /\ linked' = FALSE
  /\ UNCHANGED <<shm, sems, doneP, counter, consumer, bounds>>

-----------------------------------------------------------------------------
(* Mutant: the consumer starts from slot 0 instead of the shared tail. *)
ConsumerOpenResets ==
  /\ pcC = "init"
  /\ pcC' = IF linked THEN "check" ELSE "stopped"
  /\ tail' = 0
  /\ UNCHANGED <<buffer, head, sems, linked, producer, doneC, value, loaded, bounds>>

(* Mutant: a restarted consumer hands back the slot it may have held. *)
ConsumerOpenReposts ==
  /\ pcC = "init"
  /\ pcC' = IF linked THEN "check" ELSE "stopped"
  /\ sem_prod' = IF linked THEN sem_prod + 1 ELSE sem_prod
  /\ UNCHANGED <<shm, sem_cons, linked, producer, doneC, value, loaded, bounds>>

(* The consumer opens without O_CREAT and fails when there are no objects. *)
ConsumerOpen ==
  /\ pcC = "init"
  /\ pcC' = IF linked THEN "check" ELSE "stopped"
  /\ UNCHANGED <<shm, sems, linked, producer, doneC, value, loaded, bounds>>

ConsumerCheck ==
  /\ pcC = "check"
  /\ pcC' = IF doneC THEN "stopped" ELSE "wait"
  /\ UNCHANGED <<shm, sems, linked, producer, doneC, value, loaded, bounds>>

ConsumerWait ==
  /\ pcC = "wait"
  /\ sem_cons > 0
  /\ sem_cons' = sem_cons - 1
  /\ pcC' = "read"
  /\ UNCHANGED <<shm, sem_prod, linked, producer, doneC, value, loaded, bounds>>

ConsumerRead ==
  /\ pcC = "read"
  /\ value' = buffer[tail]
  /\ pcC' = "load"
  /\ UNCHANGED <<shm, sems, linked, producer, doneC, loaded, bounds>>

(* Mutant: the consumer follows the index of the producer. *)
ConsumerLoadHead ==
  /\ pcC = "load"
  /\ loaded' = head
  /\ pcC' = "store"
  /\ UNCHANGED <<shm, sems, linked, producer, doneC, value, bounds>>

(* tail = (tail + 1) % BUFFER_SIZE is a load and a store of shared memory. *)
ConsumerLoad ==
  /\ pcC = "load"
  /\ loaded' = tail
  /\ pcC' = "store"
  /\ UNCHANGED <<shm, sems, linked, producer, doneC, value, bounds>>

ConsumerStore ==
  /\ pcC = "store"
  /\ tail' = NextSlot(loaded)
  /\ pcC' = "post"
  /\ UNCHANGED <<buffer, head, sems, linked, producer, doneC, value, loaded, bounds>>

(* Mutant: the post is forgotten. *)
ConsumerPostMissing ==
  /\ pcC = "post"
  /\ pcC' = "check"
  /\ UNCHANGED <<shm, sems, linked, producer, doneC, value, loaded, bounds>>

(* Mutant: the consumer posts the semaphore it waits on. *)
ConsumerPostSwapped ==
  /\ pcC = "post"
  /\ sem_cons' = sem_cons + 1
  /\ pcC' = "check"
  /\ UNCHANGED <<shm, sem_prod, linked, producer, doneC, value, loaded, bounds>>

ConsumerPost ==
  /\ pcC = "post"
  /\ sem_prod' = sem_prod + 1
  /\ pcC' = "check"
  /\ UNCHANGED <<shm, sem_cons, linked, producer, doneC, value, loaded, bounds>>

-----------------------------------------------------------------------------
(* The handler sets `done'. A blocked sem_wait may then return -1 (EINTR): *)
(* the loop ignores the result and goes on without a token. It may also go *)
(* on waiting: sa_flags is never initialised, so SA_RESTART may be set,    *)
(* and the signal may come just before the call blocks.                    *)
ProducerSignal ==
  /\ signals < MaxSignals
  /\ pcP # "stopped"
  /\ signals' = signals + 1
  /\ doneP' = TRUE
  /\ \/ UNCHANGED pcP
     \/ pcP = "wait" /\ sem_prod = 0 /\ pcP' = "write"
  /\ UNCHANGED <<shm, sems, linked, counter, consumer, crashesP, crashesC>>

ConsumerSignal ==
  /\ signals < MaxSignals
  /\ pcC # "stopped"
  /\ signals' = signals + 1
  /\ doneC' = TRUE
  /\ \/ UNCHANGED pcC
     \/ pcC = "wait" /\ sem_cons = 0 /\ pcC' = "read"
  /\ UNCHANGED <<shm, sems, linked, producer, value, loaded, crashesP, crashesC>>

(* A process is killed at any of its steps and started again. *)
ProducerCrash ==
  /\ crashesP < MaxProducerCrashes
  /\ pcP # "stopped"
  /\ crashesP' = crashesP + 1
  /\ pcP' = "init"
  /\ doneP' = FALSE
  /\ UNCHANGED <<shm, sems, linked, counter, consumer, signals, crashesC>>

ConsumerCrash ==
  /\ crashesC < MaxConsumerCrashes
  /\ pcC # "stopped"
  /\ crashesC' = crashesC + 1
  /\ pcC' = "init"
  /\ doneC' = FALSE
  /\ UNCHANGED <<shm, sems, linked, producer, value, loaded, signals, crashesP>>

-----------------------------------------------------------------------------
ProducerStep ==
  \/ ProducerOpen \/ ProducerResetHead \/ ProducerResetTail \/ ProducerCheck
  \/ ProducerWait \/ ProducerWrite \/ ProducerAdvance \/ ProducerPost
  \/ ProducerExit

ConsumerStep ==
  \/ ConsumerOpen \/ ConsumerCheck \/ ConsumerWait \/ ConsumerRead
  \/ ConsumerLoad \/ ConsumerStore \/ ConsumerPost

Next ==
  \/ ProducerStep \/ ProducerSignal \/ ProducerCrash
  \/ ConsumerStep \/ ConsumerSignal \/ ConsumerCrash

Spec == Init /\ [][Next]_vars

(* The kernel runs a process that can run, and sem_wait returns once the   *)
(* semaphore is positive: each semaphore has a single waiter.              *)
FairSpec == Spec /\ WF_vars(ProducerStep) /\ WF_vars(ConsumerStep)
-----------------------------------------------------------------------------
Flag(b) == IF b THEN 1 ELSE 0

(* A process between its sem_wait and its sem_post holds one token; once   *)
(* it has posted, the token belongs to the other semaphore.                *)
HeldP == Flag(pcP \in {"write", "advance", "post"})
HeldC == Flag(pcC \in {"read", "load", "store", "post"})

(* The items the consumer can still obtain: those it has been told about   *)
(* and not read. Between the read and the store of tail, tail lags by one. *)
UnreadCount == sem_cons + Flag(pcC = "read")
UnreadFrom == IF pcC \in {"load", "store"} THEN NextSlot(tail) ELSE tail
Unread == [i \in 1 .. UnreadCount |-> buffer[(UnreadFrom + i - 1) % BUFFER_SIZE]]

(* A number counts as emitted when the consumer is told of it. *)
Emitted == IF pcP = "post" THEN (counter + COUNTER_MOD - 1) % COUNTER_MOD
                           ELSE counter

(* Type correctness of the segment, the semaphores and both processes.     *)
TypeOK ==
  /\ buffer \in [Slots -> Counters]
  /\ head \in Slots /\ tail \in Slots /\ loaded \in Slots
  /\ sem_prod \in Nat /\ sem_cons \in Nat
  /\ linked \in BOOLEAN /\ doneP \in BOOLEAN /\ doneC \in BOOLEAN
  /\ counter \in Counters /\ value \in Counters \cup {NoValue}
  /\ pcP \in {"init", "reset", "reset_tail", "check", "wait", "write",
              "advance", "post", "exit", "stopped"}
  /\ pcC \in {"init", "check", "wait", "read", "load", "store", "post",
              "stopped"}
  /\ signals \in 0 .. MaxSignals
  /\ crashesP \in 0 .. MaxProducerCrashes
  /\ crashesC \in 0 .. MaxConsumerCrashes

(* No signal has arrived and the producer has not been restarted. *)
Undisturbed == signals = 0 /\ crashesP = 0

(* The two processes have no lock: only the semaphores keep the store      *)
(* buffer[head] of the producer (shm_producer.c:66) and the load           *)
(* buffer[tail] of the consumer (shm_consumer.c:59) off the same slot,     *)
(* however often the consumer is killed and restarted.                     *)
NoSlotConflict ==
  Undisturbed => ~(pcP = "write" /\ pcC = "read" /\ head = tail)

(* "One shows how much free space the buffer has, the other how many       *)
(* elements are ready" (shm_producer.c:5-7): as long as nothing has been   *)
(* killed, with both processes between two passes, the semaphores and the  *)
(* indices describe the same ring.                                         *)
SemaphoresCountSlots ==
  /\ Undisturbed /\ crashesC = 0
  /\ pcP \in {"check", "wait"} /\ pcC \in {"init", "check", "wait"}
  => /\ sem_prod + sem_cons = BUFFER_SIZE
     /\ head = (tail + sem_cons) % BUFFER_SIZE

(* No post invents a token: semaphores and processes never hold more       *)
(* tokens than there are slots, plus one for each sem_wait that a signal   *)
(* broke off and whose result the loops ignore.                            *)
TokensBounded ==
  sem_prod + sem_cons + HeldP + HeldC <= BUFFER_SIZE + signals

(* The consumer prints consecutive numbers: a step leaves the last value   *)
(* or replaces it by its successor. A value printed twice is not excluded: *)
(* a consumer killed between its read and its store of tail reads the slot *)
(* again.                                                                  *)
Consecutive ==
  \/ value' = value
  \/ value' = IF value = NoValue THEN 0 ELSE (value + 1) % COUNTER_MOD

(* "Make sure that with semaphores the data is passed correctly" (task3    *)
(* README.md:57), in every execution.                                      *)
ConsumedInOrder == [][Consecutive]_vars

(* Up to the first signal and the first restart of the producer it is,     *)
(* whatever happens to the consumer.                                       *)
ConsumedInOrderUndisturbed == [][Undisturbed' => Consecutive]_vars

(* As long as nothing has been killed the ring is a FIFO of BUFFER_SIZE    *)
(* numbers: each number is obtained once and in order, none is overwritten *)
(* (shm_producer.c:64-71, shm_consumer.c:57-63).                           *)
Fifo == INSTANCE BoundedFifo WITH
  Capacity <- BUFFER_SIZE, Modulus <- COUNTER_MOD, First <- 0,
  queue <- Unread, next <- Emitted, got <- value
Quiet == Undisturbed /\ crashesC = 0
FifoImplemented == Fifo!FifoInit /\ [][Quiet' => [Fifo!FifoNext]_(Fifo!fifoVars)]_vars

(* Neither process starves the other: if nothing is killed, once the       *)
(* consumer found the objects every number is consumed again and again as  *)
(* the counter goes round.                                                 *)
EveryNumberConsumed ==
  []Quiet /\ <>(pcC = "check") => \A n \in Counters : []<>(value = n)

(* SIGINT ends a process (`while (!done)', shm_producer.c:63,              *)
(* shm_consumer.c:56), even one that is blocked in sem_wait when it        *)
(* arrives: as long as the other process goes on and nothing is killed, a  *)
(* token comes and the flag is looked at again.                            *)
ProcessesStop ==
  [](crashesP = 0 /\ crashesC = 0) =>
    /\ []~doneC /\ []<>(pcC # "stopped") => (doneP ~> pcP = "stopped")
    /\ []~doneP => (doneC ~> pcC = "stopped")
=============================================================================
