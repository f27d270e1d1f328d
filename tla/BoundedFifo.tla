---------------------------- MODULE BoundedFifo ----------------------------
(***************************************************************************)
(* What a producer and a consumer that share a bounded buffer promise: the *)
(* producer emits the consecutive numbers First, First + 1, ... modulo     *)
(* Modulus, the buffer never holds more than Capacity of them, and the     *)
(* consumer obtains each of them once and in the order of their emission.  *)
(*                                                                         *)
(* ShmRing (capacity BUFFER_SIZE) and ProdCons (capacity 1) implement it.  *)
(***************************************************************************)
EXTENDS Naturals, Sequences

CONSTANTS
  Capacity,   (* the number of items the buffer can hold           *)
  Modulus,    (* the values of the counter type, 2^64 in the ring  *)
  First,      (* the first number emitted                          *)
  NoValue     (* what the consumer holds before its first item,    *)
              (*   not one of 0 .. Modulus - 1                     *)

VARIABLES
  queue,      (* the items emitted and not yet obtained, oldest first *)
  next,       (* the number the producer emits next                   *)
  got         (* the last number the consumer obtained                *)

fifoVars == <<queue, next, got>>

FifoInit ==
  /\ queue = << >>
  /\ next = First
  /\ got = NoValue

Put ==
  /\ Len(queue) < Capacity
  /\ queue' = Append(queue, next)
  /\ next' = (next + 1) % Modulus
  /\ UNCHANGED got

Get ==
  /\ queue # << >>
  /\ got' = Head(queue)
  /\ queue' = Tail(queue)
  /\ UNCHANGED next

FifoNext == Put \/ Get

FifoSpec == FifoInit /\ [][FifoNext]_fifoVars
=============================================================================
