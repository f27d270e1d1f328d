------------------------------ MODULE ProdCons ------------------------------
(***************************************************************************)
(* task1/src/shared_mem/prodcons.c: a producer and a consumer that hand    *)
(* over one product at a time. `state' says whether there is one; both     *)
(* wait for their turn on one condition variable and wake each other with  *)
(* pthread_cond_signal.                                                    *)
(***************************************************************************)
EXTENDS Naturals, Sequences

CONSTANTS
  PRODUCT_MOD,      (* bound: the int product is kept modulo PRODUCT_MOD   *)
  MaxSpuriousWakes  (* bound: returns of pthread_cond_wait without a signal *)

Threads == {"producer", "consumer"}
Free == "free"

VARIABLES
  turn,        (* the variable `state': 1 while there is a product         *)
  product, consumed,   (* what was produced and what was consumed last     *)
  owner,       (* of the mutex, or Free                                    *)
  pc,          (* the next step of each thread                             *)
  wakes        (* used up part of MaxSpuriousWakes                         *)

vars == <<turn, product, consumed, owner, pc, wakes>>

Products == 0 .. PRODUCT_MOD - 1
Nothing == PRODUCT_MOD

Init ==
  /\ turn = 0 /\ product = 0 /\ consumed = Nothing
  /\ owner = Free
  /\ pc = [t \in Threads |-> "lock"]
  /\ wakes = 0

(* The value of `state' for which a thread waits no longer. *)
Due(t) == IF t = "producer" THEN 0 ELSE 1

(* pthread_mutex_lock, or the return of pthread_cond_wait. *)
Lock(t) ==
  /\ pc[t] \in {"lock", "woken"} /\ owner = Free
  /\ owner' = t
  /\ pc' = [pc EXCEPT ![t] = "test"]
  /\ UNCHANGED <<turn, product, consumed, wakes>>

Wait(t) ==
  /\ pc[t] = "test" /\ turn # Due(t)
  /\ owner' = Free
  /\ pc' = [pc EXCEPT ![t] = "waiting"]
  /\ UNCHANGED <<turn, product, consumed, wakes>>

(* Mutant: `if' instead of `while': a woken producer does not look again. *)
ProduceUntested ==
  /\ pc["producer"] \in {"test", "woken"}
  /\ pc["producer"] = "test" => turn = 0
  /\ pc["producer"] = "woken" => owner = Free
  /\ owner' = "producer"
  /\ product' = (product + 1) % PRODUCT_MOD
  /\ turn' = 1
  /\ pc' = [pc EXCEPT !["producer"] = "signal"]
  /\ UNCHANGED <<consumed, wakes>>

Produce ==
  /\ pc["producer"] = "test" /\ turn = 0
  /\ product' = (product + 1) % PRODUCT_MOD
  /\ turn' = 1
  /\ pc' = [pc EXCEPT !["producer"] = "signal"]
  /\ UNCHANGED <<consumed, owner, wakes>>

Consume ==
  /\ pc["consumer"] = "test" /\ turn = 1
  /\ consumed' = product
  /\ turn' = 0
  /\ pc' = [pc EXCEPT !["consumer"] = "signal"]
  /\ UNCHANGED <<product, owner, wakes>>

(* Mutant: the signal is forgotten. *)
SignalMissing(t) ==
  /\ pc[t] = "signal"
  /\ pc' = [pc EXCEPT ![t] = "unlock"]
  /\ UNCHANGED <<turn, product, consumed, owner, wakes>>

(* One waiting thread is woken; at most the other one waits. *)
Signal(t) ==
  /\ pc[t] = "signal"
  /\ pc' = [u \in Threads |-> IF u = t THEN "unlock"
                              ELSE IF pc[u] = "waiting" THEN "woken" ELSE pc[u]]
  /\ UNCHANGED <<turn, product, consumed, owner, wakes>>

(* The mutex is released; do_producer_work and do_consumer_work sleep. *)
Unlock(t) ==
  /\ pc[t] = "unlock"
  /\ owner' = Free
  /\ pc' = [pc EXCEPT ![t] = "lock"]
  /\ UNCHANGED <<turn, product, consumed, wakes>>

SpuriousWakeup(t) ==
  /\ pc[t] = "waiting" /\ wakes < MaxSpuriousWakes
  /\ pc' = [pc EXCEPT ![t] = "woken"]
  /\ wakes' = wakes + 1
  /\ UNCHANGED <<turn, product, consumed, owner>>

Step(t) ==
  \/ Lock(t) \/ Wait(t) \/ Signal(t) \/ Unlock(t)
  \/ t = "producer" /\ Produce
  \/ t = "consumer" /\ Consume

Next == \E t \in Threads : Step(t) \/ SpuriousWakeup(t)

Spec == Init /\ [][Next]_vars

FairSpec == Spec /\ \A t \in Threads : WF_vars(Step(t))
-----------------------------------------------------------------------------
(* Type correctness of the shared variables and the threads. *)
TypeOK ==
  /\ turn \in {0, 1}
  /\ product \in Products /\ consumed \in Products \cup {Nothing}
  /\ owner \in Threads \cup {Free}
  /\ pc \in [Threads -> {"lock", "test", "waiting", "woken", "signal", "unlock"}]
  /\ wakes \in 0 .. MaxSpuriousWakes

(* Every product is handed over once and in order; none is overwritten and *)
(* none is consumed twice, spurious wakeups included (prodcons.c:40-68).   *)
Handover == INSTANCE BoundedFifo WITH
  Capacity <- 1, Modulus <- PRODUCT_MOD, First <- 1, NoValue <- Nothing,
  queue <- IF turn = 1 THEN <<product>> ELSE << >>,
  next <- (product + 1) % PRODUCT_MOD, got <- consumed
HandoverImplemented == Handover!FifoSpec

(* "At any moment we can simply use pthread_cond_signal to wake the other  *)
(* thread" (prodcons.c:3-5): production never comes to a stand.            *)
EveryProductConsumed == \A p \in Products : []<>(consumed = p)
=============================================================================
