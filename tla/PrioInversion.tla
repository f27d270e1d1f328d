---------------------------- MODULE PrioInversion ----------------------------
(***************************************************************************)
(* task1/src/inv_prio: scenario_1.c and scenario_2.c start the threads of  *)
(* working.c with three fixed SCHED_FIFO priorities; scenario_2 asks for   *)
(* priority inheritance on their mutex. The model is of one processor:     *)
(* only there does a thread of the middle priority keep the low one out.   *)
(***************************************************************************)
EXTENDS Naturals

CONSTANT SLEEPS      (* calls of busy_ms by each thread: 5, 200 and 1      *)

VARIABLES
  inherit,   (* the scenario: enable_prio_inherit                          *)
  protocol,  (* of the mutex                                               *)
  owner,     (* of resource_mutex, or Free                                 *)
  pc, left,  (* each thread: its next step, the calls of busy_ms to come   *)
  main

vars == <<inherit, protocol, owner, pc, left, main>>

Threads == {"server", "t1", "t2"}
Free == "free"

Priority == [t \in Threads |-> CASE t = "server" -> 10 [] t = "t1" -> 20 [] t = "t2" -> 30]

Init ==
  /\ inherit \in BOOLEAN /\ protocol = "none"
  /\ owner = Free
  /\ pc = [t \in Threads |-> "none"] /\ left = SLEEPS
  /\ main = "init"

-----------------------------------------------------------------------------
(* The scheduler. *)
Ready(t) == pc[t] \in {"lock", "work"}

Effective(t) ==
  IF protocol = "inherit" /\ owner = t /\ \E u \in Threads : pc[u] = "blocked"
  THEN 30 ELSE Priority[t]

Alive == main \notin {"failed", "done"}

Runs(t) ==
  Alive /\ Ready(t) /\ \A u \in Threads : Ready(u) => Effective(u) <= Effective(t)

(* A sleep is over; the thread waits for the processor. *)
Wake(t) ==
  /\ Alive /\ pc[t] = "asleep"
  /\ pc' = [pc EXCEPT ![t] = "work"]
  /\ UNCHANGED <<inherit, protocol, owner, left, main>>

-----------------------------------------------------------------------------
Lock(t) ==
  /\ Runs(t) /\ pc[t] = "lock"
  /\ IF owner = Free
       THEN owner' = t /\ pc' = [pc EXCEPT ![t] = "work"]
       ELSE pc' = [pc EXCEPT ![t] = "blocked"] /\ UNCHANGED owner
  /\ UNCHANGED <<inherit, protocol, left, main>>

(* busy_ms sleeps. *)
Busy(t) ==
  /\ Runs(t) /\ pc[t] = "work" /\ left[t] > 0
  /\ left' = [left EXCEPT ![t] = @ - 1]
  /\ pc' = [pc EXCEPT ![t] = "asleep"]
  /\ UNCHANGED <<inherit, protocol, owner, main>>

(* Mutant: the waiting thread is not told. *)
UnlockSilent(t) ==
  /\ Runs(t) /\ pc[t] = "work" /\ left[t] = 0 /\ owner = t
  /\ owner' = Free
  /\ pc' = [pc EXCEPT ![t] = "done"]
  /\ UNCHANGED <<inherit, protocol, left, main>>

Unlock(t) ==
  /\ Runs(t) /\ pc[t] = "work" /\ left[t] = 0 /\ owner = t
  /\ owner' = Free
  /\ pc' = [u \in Threads |-> IF u = t THEN "done"
                              ELSE IF pc[u] = "blocked" THEN "lock" ELSE pc[u]]
  /\ UNCHANGED <<inherit, protocol, left, main>>

(* t1 uses no mutex. *)
Finish(t) ==
  /\ Runs(t) /\ pc[t] = "work" /\ left[t] = 0 /\ owner # t
  /\ pc' = [pc EXCEPT ![t] = "done"]
  /\ UNCHANGED <<inherit, protocol, owner, left, main>>

Step(t) == Lock(t) \/ Busy(t) \/ Unlock(t) \/ Finish(t)

-----------------------------------------------------------------------------
(* main has no real-time priority: it runs when no thread is ready. *)
MainRuns == ~ \E t \in Threads : Ready(t)

(* Mutant: enable_prio_inherit is not looked at. *)
InitMutexPlain ==
  /\ main = "init"
  /\ protocol' = "plain"
  /\ main' = "server"
  /\ UNCHANGED <<inherit, owner, pc, left>>

(* init_resource_mutex. Inheritance may not be supported. *)
InitMutex ==
  /\ main = "init"
  /\ \/ protocol' = (IF inherit THEN "inherit" ELSE "plain") /\ main' = "server"
     \/ main' = "failed" /\ UNCHANGED protocol
  /\ UNCHANGED <<inherit, owner, pc, left>>

(* pthread_create, which is refused without privileges. *)
Create(t, next) ==
  /\ main = t /\ MainRuns
  /\ \/ pc' = [pc EXCEPT ![t] = IF t = "t1" THEN "work" ELSE "lock"] /\ main' = next
     \/ main' = "failed" /\ UNCHANGED pc
  /\ UNCHANGED <<inherit, protocol, owner, left>>

Join ==
  /\ main = "join" /\ \A t \in Threads : pc[t] = "done"
  /\ main' = "done"
  /\ UNCHANGED <<inherit, protocol, owner, pc, left>>

MainStep ==
  InitMutex \/ Create("server", "t2") \/ Create("t2", "t1") \/ Create("t1", "join") \/ Join

Next == MainStep \/ \E t \in Threads : Step(t) \/ Wake(t)

Spec == Init /\ [][Next]_vars

(* The processor is never idle while a thread is ready; sleeps end. *)
FairSpec ==
  /\ Spec /\ WF_vars(MainStep)
  /\ \A t \in Threads : WF_vars(Step(t)) /\ WF_vars(Wake(t))
-----------------------------------------------------------------------------
TypeOK ==
  /\ inherit \in BOOLEAN /\ protocol \in {"none", "plain", "inherit"}
  /\ owner \in Threads \cup {Free}
  /\ pc \in [Threads -> {"none", "lock", "work", "asleep", "blocked", "done"}]
  /\ left \in [Threads -> Nat]
  /\ main \in {"init", "join", "failed", "done"} \cup Threads

(* In scenario_2 the thread of the middle priority does not run while the  *)
(* high one waits for the mutex and its owner is ready (working.c:24-31).  *)
NoInversion ==
  [][inherit /\ pc["t2"] = "blocked" /\ Ready(owner) => ~Step("t1")]_vars

(* The scenario comes to an end, inversion or not: t1 sleeps now and then, *)
(* and t2 gets the mutex.                                                  *)
MainEnds == <>[](main \in {"failed", "done"})
=============================================================================
