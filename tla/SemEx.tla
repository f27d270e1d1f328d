------------------------------- MODULE SemEx -------------------------------
(***************************************************************************)
(* task1/src/shared_mem/semex.c: a producer thread posts a semaphore for   *)
(* which five consumer threads wait. It is opened by a name and unlinked   *)
(* at once, "not sharing with other process". Several copies of the        *)
(* program may be started, and killed, at any moment.                      *)
(***************************************************************************)
EXTENDS Naturals

CONSTANTS
  Copies,      (* the copies of the program that are started, numbers      *)
  MaxCount     (* bound: the counts of a semaphore, SEM_VALUE_MAX in POSIX *)

None == 0      (* no semaphore: those that exist are named for the copy    *)
               (*   that created them                                      *)

VARIABLES
  name,        (* the semaphore called SEM_NAME                            *)
  count,       (* of each semaphore                                        *)
  mySemaphore, (* of each copy                                             *)
  pc           (* main of each copy                                        *)

vars == <<name, count, mySemaphore, pc>>

Init ==
  /\ name = None
  /\ count = [c \in Copies |-> 0]
  /\ mySemaphore = [c \in Copies |-> None]
  /\ pc = [c \in Copies |-> "open"]

(* O_CREAT without O_EXCL: a semaphore of that name is taken as it is. *)
Open(c) ==
  /\ pc[c] = "open"
  /\ name' = IF name = None THEN c ELSE name
  /\ mySemaphore' = [mySemaphore EXCEPT ![c] = name']
  /\ pc' = [pc EXCEPT ![c] = "unlink"]
  /\ UNCHANGED count

(* Mutant: the name is kept. *)
UnlinkMissing(c) ==
  /\ pc[c] = "unlink"
  /\ pc' = [pc EXCEPT ![c] = "threads"]
  /\ UNCHANGED <<name, count, mySemaphore>>

(* Whatever has the name by now, or nothing, is unlinked. The threads are  *)
(* created after that.                                                     *)
Unlink(c) ==
  /\ pc[c] = "unlink"
  /\ name' = None
  /\ pc' = [pc EXCEPT ![c] = "threads"]
  /\ UNCHANGED <<count, mySemaphore>>

Post(c) ==
  /\ pc[c] = "threads" /\ count[mySemaphore[c]] < MaxCount
  /\ count' = [count EXCEPT ![mySemaphore[c]] = @ + 1]
  /\ UNCHANGED <<name, mySemaphore, pc>>

(* One of the consumers that wait for the semaphore of this copy. *)
Consume(c) ==
  /\ pc[c] = "threads" /\ count[mySemaphore[c]] > 0
  /\ count' = [count EXCEPT ![mySemaphore[c]] = @ - 1]
  /\ UNCHANGED <<name, mySemaphore, pc>>

(* main returns after twenty seconds, or the process is killed. *)
Exit(c) ==
  /\ pc[c] \in {"unlink", "threads"}
  /\ pc' = [pc EXCEPT ![c] = "done"]
  /\ UNCHANGED <<name, count, mySemaphore>>

Next == \E c \in Copies : Open(c) \/ Unlink(c) \/ Post(c) \/ Consume(c) \/ Exit(c)

Spec == Init /\ [][Next]_vars
-----------------------------------------------------------------------------
TypeOK ==
  /\ name \in Copies \cup {None}
  /\ count \in [Copies -> 0 .. MaxCount]
  /\ mySemaphore \in [Copies -> Copies \cup {None}]
  /\ pc \in [Copies -> {"open", "unlink", "threads", "done"}]

(* "Primed with 0 counts" (semex.c:5): whoever opens the semaphore by its  *)
(* name finds it without counts, although it may be an old one, left by a  *)
(* copy that was killed or is about to unlink it: nobody posts what still  *)
(* has a name (semex.c:34-36, 58).                                         *)
NamedIsFresh == name # None => count[name] = 0
=============================================================================
