----------------------------- MODULE SharedVars -----------------------------
(***************************************************************************)
(* task1/src/shared_mem/mutex.c and nomutex.c: threads that keep the       *)
(* shared variables var1 and var2 equal and count their passes in the      *)
(* static var3, and a main thread that creates them, cancels them and      *)
(* ends the process.                                                       *)
(*                                                                         *)
(* The variables are volatile: each access is a load or a store of its     *)
(* own. The two programs differ in the mutex around a pass and share all   *)
(* other steps; `program' says which of them runs.                         *)
(***************************************************************************)
EXTENDS Naturals, FiniteSets

CONSTANTS
  Threads,   (* NumThreads of them, 4 in the code                          *)
  VAR_MOD,   (* bound: the counters are kept modulo VAR_MOD (int in C)     *)
  NoThread   (* the owner of a free mutex                                  *)

ASSUME SharedVarsAssumption ==
  /\ IsFiniteSet(Threads)
  /\ VAR_MOD \in Nat \ {0}
  /\ NoThread \notin Threads

VARIABLES
  program,      (* "mutex" or "nomutex"                                    *)
  var1, var2, var3,
  lock,         (* the thread that owns the mutex, or NoThread             *)
  pc,           (* the next step of each thread                            *)
  reg,          (* the value each thread loaded last                       *)
  cancelled,    (* the threads main has cancelled                          *)
  pcM           (* the next step of main                                   *)

shared == <<var1, var2, var3>>
main == <<cancelled, pcM>>
vars == <<program, shared, lock, pc, reg, main>>

Values == 0 .. VAR_MOD - 1

(* Mutant: the increment does not wrap. *)
SuccUnwrapped(n) == n + 1

Succ(n) == (n + 1) % VAR_MOD

Init ==
  /\ program \in {"mutex", "nomutex"}
  /\ var1 = 0 /\ var2 = 0 /\ var3 = 0
  /\ lock = NoThread
  /\ pc = [t \in Threads |-> "none"]
  /\ reg = [t \in Threads |-> 0]
  /\ cancelled = {}
  /\ pcM = "create"

-----------------------------------------------------------------------------
(* One pass of update_thread. exit(0) ends the threads with the process.   *)
Goto(t, from, to) ==
  /\ pcM # "exited"
  /\ pc[t] = from
  /\ pc' = [pc EXCEPT ![t] = to]

Load(t, from, to, val) ==
  /\ Goto(t, from, to)
  /\ reg' = [reg EXCEPT ![t] = val]
  /\ UNCHANGED <<shared, lock, main, program>>

(* Cancellation is made asynchronous; the default, deferred type has no    *)
(* cancellation point before this.                                         *)
SetCancelType(t) ==
  /\ Goto(t, "start", "top")
  /\ UNCHANGED <<shared, lock, reg, main, program>>

(* Mutant: the result of pthread_mutex_lock is not waited for. *)
LockBarging(t) ==
  /\ program = "mutex"
  /\ Goto(t, "top", "cmp1")
  /\ lock' = t
  /\ UNCHANGED <<shared, reg, main, program>>

Lock(t) ==
  /\ program = "mutex"
  /\ lock = NoThread
  /\ Goto(t, "top", "cmp1")
  /\ lock' = t
  /\ UNCHANGED <<shared, reg, main, program>>

(* nomutex.c goes straight to the comparison. *)
NoLock(t) ==
  /\ program = "nomutex"
  /\ Goto(t, "top", "cmp1")
  /\ UNCHANGED <<shared, lock, reg, main, program>>

LoadVar1(t) == Load(t, "cmp1", "cmp2", var1)

(* The comparison with the var1 loaded before. *)
Compare(t) ==
  /\ Goto(t, "cmp2", IF reg[t] = var2 THEN "work" ELSE "repair")
  /\ UNCHANGED <<shared, lock, reg, main, program>>

(* "not equal!" is printed and var1 = var2 is done in a load and a store. *)
RepairLoad(t) == Load(t, "repair", "repair_store", var2)

RepairStore(t) ==
  /\ Goto(t, "repair_store", "work")
  /\ var1' = reg[t]
  /\ UNCHANGED <<var2, var3, lock, reg, main, program>>

(* do_work: var3++ *)
WorkLoad(t) == Load(t, "work", "work_store", var3)

WorkStore(t) ==
  /\ Goto(t, "work_store", "inc1")
  /\ var3' = Succ(reg[t])
  /\ UNCHANGED <<var1, var2, lock, reg, main, program>>

IncVar1Load(t) == Load(t, "inc1", "inc1_store", var1)

IncVar1Store(t) ==
  /\ Goto(t, "inc1_store", "inc2")
  /\ var1' = Succ(reg[t])
  /\ UNCHANGED <<var2, var3, lock, reg, main, program>>

IncVar2Load(t) == Load(t, "inc2", "inc2_store", var2)

(* Mutant: var2 is incremented from the wrong variable. *)
IncVar2StoreTwice(t) ==
  /\ Goto(t, "inc2_store", "bottom")
  /\ var2' = Succ(var1)
  /\ UNCHANGED <<var1, var3, lock, reg, main, program>>

IncVar2Store(t) ==
  /\ Goto(t, "inc2_store", "bottom")
  /\ var2' = Succ(reg[t])
  /\ UNCHANGED <<var1, var3, lock, reg, main, program>>

Unlock(t) ==
  /\ program = "mutex"
  /\ Goto(t, "bottom", "top")
  /\ lock' = NoThread
  /\ UNCHANGED <<shared, reg, main, program>>

NoUnlock(t) ==
  /\ program = "nomutex"
  /\ Goto(t, "bottom", "top")
  /\ UNCHANGED <<shared, lock, reg, main, program>>

(* Mutant: a cleanup handler releases the mutex in the middle of a pass. *)
DieReleasing(t) ==
  /\ pcM # "exited"
  /\ t \in cancelled
  /\ pc[t] \notin {"none", "start", "dead"}
  /\ pc' = [pc EXCEPT ![t] = "dead"]
  /\ lock' = IF lock = t THEN NoThread ELSE lock
  /\ UNCHANGED <<shared, reg, main, program>>

(* A cancelled thread dies between any two steps; nothing releases a       *)
(* mutex it owns.                                                          *)
Die(t) ==
  /\ pcM # "exited"
  /\ t \in cancelled
  /\ pc[t] \notin {"none", "start", "dead"}
  /\ pc' = [pc EXCEPT ![t] = "dead"]
  /\ UNCHANGED <<shared, lock, reg, main, program>>

-----------------------------------------------------------------------------
MainCreate(t) ==
  /\ pcM = "create"
  /\ pc[t] = "none"
  /\ pc' = [pc EXCEPT ![t] = "start"]
  /\ UNCHANGED <<shared, lock, reg, main, program>>

MainSleep ==
  /\ pcM = "create"
  /\ \A t \in Threads : pc[t] # "none"
  /\ pcM' = "cancel"
  /\ UNCHANGED <<shared, lock, pc, reg, cancelled, program>>

(* pthread_cancel only asks; nobody joins the threads afterwards. *)
MainCancel(t) ==
  /\ pcM = "cancel"
  /\ t \notin cancelled
  /\ cancelled' = cancelled \cup {t}
  /\ UNCHANGED <<shared, lock, pc, reg, pcM, program>>

(* main prints var1 and var2, without the mutex, and ends the process. *)
MainExit ==
  /\ pcM = "cancel"
  /\ cancelled = Threads
  /\ pcM' = "exited"
  /\ UNCHANGED <<shared, lock, pc, reg, cancelled, program>>

-----------------------------------------------------------------------------
ThreadStep(t) ==
  \/ SetCancelType(t) \/ Lock(t) \/ NoLock(t) \/ LoadVar1(t) \/ Compare(t)
  \/ RepairLoad(t) \/ RepairStore(t) \/ WorkLoad(t) \/ WorkStore(t)
  \/ IncVar1Load(t) \/ IncVar1Store(t) \/ IncVar2Load(t) \/ IncVar2Store(t)
  \/ Unlock(t) \/ NoUnlock(t) \/ Die(t)

MainStep ==
  \/ \E t \in Threads : MainCreate(t) \/ MainCancel(t)
  \/ MainSleep \/ MainExit

Next == MainStep \/ \E t \in Threads : ThreadStep(t)

Spec == Init /\ [][Next]_vars

-----------------------------------------------------------------------------
Inside == {"cmp1", "cmp2", "repair", "repair_store", "work", "work_store",
           "inc1", "inc1_store", "inc2", "inc2_store", "bottom"}

Repairing == {"repair", "repair_store"}

(* Type correctness of the variables, the threads and main. *)
TypeOK ==
  /\ program \in {"mutex", "nomutex"}
  /\ var1 \in Values /\ var2 \in Values /\ var3 \in Values
  /\ lock \in Threads \cup {NoThread}
  /\ pc \in [Threads -> Inside \cup {"none", "start", "top", "dead"}]
  /\ reg \in [Threads -> Values]
  /\ cancelled \subseteq Threads
  /\ pcM \in {"create", "cancel", "exited"}

(* "If there were no synchronization problems, then var1 would always be   *)
(* equal to var2" (mutex.c:67-68): with the mutex free no pass is half     *)
(* done, not even the pass of a thread cancelled in it, and no increment   *)
(* of one of the three counters was lost.                                  *)
CountersAgree ==
  program = "mutex" /\ lock = NoThread => var1 = var2 /\ var2 = var3

(* No thread of mutex.c ever prints "not equal!" (mutex.c:89-93).          *)
NeverRepairs ==
  program = "mutex" => \A t \in Threads : pc[t] \notin Repairing

(* The first thread of nomutex.c sees equal variables for as long as it is *)
(* the only one: the mismatch of nomutex.c:83-87 takes two threads.        *)
AloneNeverRepairs ==
  Cardinality({t \in Threads : pc[t] \notin {"none", "start"}}) <= 1
    => \A t \in Threads : pc[t] \notin Repairing
=============================================================================
