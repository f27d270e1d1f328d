------------------------------ MODULE MemPool ------------------------------
(***************************************************************************)
(* task5/src/mempool.c: a pool of blocks of one size, the free ones linked *)
(* through their own first word, and a user with one thread.               *)
(***************************************************************************)
EXTENDS Naturals

CONSTANT BLOCK_COUNT    (* BENCH_ITERATIONS in task3_benchmark.c           *)

Blocks == 1 .. BLOCK_COUNT
NULL == 0

VARIABLES
  pool,    (* the pool exists                                              *)
  next,    (* the first word of each block: Node.next, or the user's data  *)
  head,    (* free_list_head                                               *)
  ptrs,    (* the blocks that the user holds                               *)
  ptr      (* what pool_alloc returned last                                *)

vars == <<pool, next, head, ptrs, ptr>>

Init ==
  /\ pool = FALSE /\ head = NULL
  /\ next = [b \in Blocks |-> NULL]
  /\ ptrs = {} /\ ptr = NULL

(* Each block is put before those already marked. When there is no memory  *)
(* the user gets no pool and gives up: nothing changes.                    *)
PoolCreate ==
  /\ ~pool
  /\ pool' = TRUE
  /\ next' = [b \in Blocks |-> b - 1]
  /\ head' = BLOCK_COUNT
  /\ UNCHANGED <<ptrs, ptr>>

(* NULL is returned without a pool and without a free block. *)
PoolAlloc ==
  /\ ptr' = head
  /\ IF head = NULL THEN UNCHANGED <<head, ptrs>>
     ELSE head' = next[head] /\ ptrs' = ptrs \cup {head}
  /\ UNCHANGED <<pool, next>>

(* The user writes to the whole block, the list's word included. *)
UserWrites(b) ==
  /\ b \in ptrs
  /\ \E word \in Blocks \cup {NULL} : next' = [next EXCEPT ![b] = word]
  /\ UNCHANGED <<pool, head, ptrs, ptr>>

(* Mutant: the head is moved before the block is linked to it. *)
PoolFreeUnlinked(b) ==
  /\ b \in ptrs
  /\ head' = b
  /\ next' = [next EXCEPT ![b] = head']
  /\ ptrs' = ptrs \ {b}
  /\ UNCHANGED <<pool, ptr>>

PoolFree(b) ==
  /\ b \in ptrs
  /\ next' = [next EXCEPT ![b] = head]
  /\ head' = b
  /\ ptrs' = ptrs \ {b}
  /\ UNCHANGED <<pool, ptr>>

(* The memory of all blocks goes, those of the user included. *)
PoolDestroy ==
  /\ pool
  /\ pool' = FALSE /\ head' = NULL
  /\ next' = [b \in Blocks |-> NULL]
  /\ ptrs' = {}
  /\ UNCHANGED ptr

Next ==
  \/ PoolCreate \/ PoolAlloc \/ PoolDestroy
  \/ \E b \in Blocks : UserWrites(b) \/ PoolFree(b)

Spec == Init /\ [][Next]_vars
-----------------------------------------------------------------------------
TypeOK ==
  /\ pool \in BOOLEAN
  /\ next \in [Blocks -> Blocks \cup {NULL}]
  /\ {head, ptr} \subseteq Blocks \cup {NULL}
  /\ ptrs \subseteq Blocks

(* The free blocks: what is reached from the head in n steps, in at most   *)
(* as many steps as there are blocks.                                      *)
Node[n \in 0 .. BLOCK_COUNT] ==
  IF n = 0 THEN head ELSE IF Node[n - 1] = NULL THEN NULL ELSE next[Node[n - 1]]

FreeList == {Node[n] : n \in 0 .. BLOCK_COUNT} \ {NULL}

(* A block is handed out to one user at a time and none is lost, although  *)
(* the links of the list lie in memory that users write to                 *)
(* (mempool.c:52-69).                                                      *)
BlockPool == INSTANCE BlockSet WITH
  Nothing <- NULL, free <- FreeList, used <- ptrs, given <- ptr
PoolImplemented == BlockPool!SetSpec
=============================================================================
