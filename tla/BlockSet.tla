------------------------------ MODULE BlockSet ------------------------------
(***************************************************************************)
(* What the memory pool promises: every block is either free or handed out *)
(* to one user, and a request is refused only when no block is free.       *)
(***************************************************************************)
CONSTANTS Blocks, Nothing     (* the blocks, and the answer of a refusal   *)

VARIABLES
  free, used,   (* the blocks in the pool and those handed out             *)
  given         (* the last answer to a request                            *)

setVars == <<free, used, given>>

SetInit == free = {} /\ used = {} /\ given = Nothing

Create == free \cup used = {} /\ free' = Blocks /\ UNCHANGED <<used, given>>

Allocate ==
  \E b \in free :
    free' = free \ {b} /\ used' = used \cup {b} /\ given' = b

Refuse == free = {} /\ given' = Nothing /\ UNCHANGED <<free, used>>

Release ==
  \E b \in used :
    free' = free \cup {b} /\ used' = used \ {b} /\ UNCHANGED given

Destroy == free' = {} /\ used' = {} /\ UNCHANGED given

SetNext == Create \/ Allocate \/ Refuse \/ Release \/ Destroy

SetSpec == SetInit /\ [][SetNext]_setVars
=============================================================================
