------------------------------ MODULE TimedWait ------------------------------
(***************************************************************************)
(* The timed waits of task2: timeout_condvar.c, timeout_mq.c and           *)
(* timeout_poll.c play the same scenario on three kernel objects. main     *)
(* waits in vain for a short time, starts a thread that makes one event,   *)
(* and waits for the event for a second.                                   *)
(*                                                                         *)
(* Clock readings are left out: `late' says whether the event comes after  *)
(* the second deadline, as it may when the thread is kept from running.    *)
(***************************************************************************)
EXTENDS Naturals

CONSTANTS
  MaxSpuriousWakes,  (* bound: wakeups of pthread_cond_timedwait without a signal *)
  MaxKills           (* bound: runs that are killed and started again      *)

Programs == {"condvar", "mq", "poll"}

VARIABLES
  program, late,   (* what runs, and whether its sender is late            *)
  ready,           (* event_ready, messages in the queue, bytes in the pipe *)
  pc, rc,          (* main: the next step, the result of the last wait     *)
  sender,          (* the thread: "none", "asleep" or "done"               *)
  first, second,   (* what main reports of its two waits                   *)
  wakes, kills     (* used up parts of the two bounds                      *)

vars == <<program, late, ready, pc, rc, sender, first, second, wakes, kills>>

Outcomes == {"timeout", "success"}

Init ==
  /\ program \in Programs /\ late \in BOOLEAN
  /\ ready = 0
  /\ pc = "first" /\ rc = "unset"
  /\ sender = "none"
  /\ first = "none" /\ second = "none"
  /\ wakes = 0 /\ kills = 0

-----------------------------------------------------------------------------
Reported(outcome) ==
  /\ first' = outcome /\ rc' = outcome
  /\ pc' = "create"
  /\ UNCHANGED <<program, late, sender, second, kills>>

FirstTimeout ==
  /\ pc = "first" /\ ready = 0
  /\ Reported("timeout")
  /\ UNCHANGED <<ready, wakes>>

(* Mutant: the message is looked at and left in the queue. *)
FirstMessageLeft ==
  /\ pc = "first" /\ program = "mq" /\ ready > 0
  /\ Reported("success")
  /\ UNCHANGED <<ready, wakes>>

(* A message that a killed run left in the queue. *)
FirstMessage ==
  /\ pc = "first" /\ program = "mq" /\ ready > 0
  /\ Reported("success")
  /\ ready' = ready - 1
  /\ UNCHANGED wakes

(* The first wait on the condition variable is not in a loop. *)
FirstSpurious ==
  /\ pc = "first" /\ program = "condvar" /\ wakes < MaxSpuriousWakes
  /\ Reported("success")
  /\ wakes' = wakes + 1
  /\ UNCHANGED ready

(* The first poll fails: EXIT_FAILURE at once. The other two programs      *)
(* print such an error and go on.                                          *)
FirstFails ==
  /\ pc = "first" /\ program = "poll"
  /\ pc' = "done"
  /\ UNCHANGED <<program, late, ready, rc, sender, first, second, wakes, kills>>

Create ==
  /\ pc = "create"
  /\ sender' = "asleep"
  /\ pc' = "second"
  /\ UNCHANGED <<program, late, ready, rc, first, second, wakes, kills>>

(* pthread_create fails: EXIT_FAILURE; the queue is removed. *)
CreateFails ==
  /\ pc = "create"
  /\ ready' = 0
  /\ pc' = "done"
  /\ UNCHANGED <<program, late, rc, sender, first, second, wakes, kills>>

(* Mutant: the event is recorded, and nobody is told. *)
SendUnsignalled ==
  /\ sender = "asleep"
  /\ program = "condvar" => pc # "test"
  /\ sender' = "done"
  /\ ready' = ready + 1
  /\ UNCHANGED <<program, late, pc, rc, first, second, wakes, kills>>

(* The event. With the condition variable it needs the mutex, which main   *)
(* holds while it looks at event_ready.                                    *)
Send ==
  /\ sender = "asleep"
  /\ program = "condvar" => pc # "test"
  /\ sender' = "done"
  /\ ready' = ready + 1
  /\ pc' = IF pc = "waiting" THEN "woken" ELSE pc
  /\ UNCHANGED <<program, late, rc, first, second, wakes, kills>>

-----------------------------------------------------------------------------
(* mq_timedreceive, or poll and read. *)
SecondSuccess ==
  /\ pc = "second" /\ program # "condvar" /\ ready > 0
  /\ ready' = ready - 1
  /\ second' = "success" /\ rc' = "success"
  /\ pc' = "join"
  /\ UNCHANGED <<program, late, sender, first, wakes, kills>>

SecondTimeout ==
  /\ pc = "second" /\ program # "condvar" /\ ready = 0 /\ late
  /\ second' = "timeout" /\ rc' = "timeout"
  /\ pc' = "join"
  /\ UNCHANGED <<program, late, ready, sender, first, wakes, kills>>

Lock ==
  /\ pc = "second" /\ program = "condvar"
  /\ pc' = "test"
  /\ UNCHANGED <<program, late, ready, rc, sender, first, second, wakes, kills>>

(* `while (!event_ready && rc != ETIMEDOUT)': rc is still that of the      *)
(* first wait when the loop is entered.                                    *)
Test ==
  /\ pc = "test"
  /\ IF ready = 0 /\ rc # "timeout"
       THEN pc' = "waiting" /\ UNCHANGED second
       ELSE /\ pc' = "join"
            /\ second' = IF ready > 0 THEN "success" ELSE "timeout"
  /\ UNCHANGED <<program, late, ready, rc, sender, first, wakes, kills>>

Woken ==
  /\ pc = "woken"
  /\ rc' = "success"
  /\ pc' = "test"
  /\ UNCHANGED <<program, late, ready, sender, first, second, wakes, kills>>

(* The deadline passes; the signal may come at the same time. *)
TimedOut ==
  /\ pc \in {"waiting", "woken"} /\ late
  /\ rc' = "timeout"
  /\ pc' = "test"
  /\ UNCHANGED <<program, late, ready, sender, first, second, wakes, kills>>

(* Mutant: `if' instead of `while': a wakeup without an event is believed. *)
SpuriousWakeupBelieved ==
  /\ pc = "waiting" /\ wakes < MaxSpuriousWakes
  /\ wakes' = wakes + 1
  /\ second' = "timeout"
  /\ rc' = "success"
  /\ pc' = "join"
  /\ UNCHANGED <<program, late, ready, sender, first, kills>>

SpuriousWakeup ==
  /\ pc = "waiting" /\ wakes < MaxSpuriousWakes
  /\ wakes' = wakes + 1
  /\ rc' = "success"
  /\ pc' = "test"
  /\ UNCHANGED <<program, late, ready, sender, first, second, kills>>

(* pthread_join; the queue or the pipe is closed and removed. *)
Join ==
  /\ pc = "join" /\ sender = "done"
  /\ ready' = 0
  /\ pc' = "done"
  /\ UNCHANGED <<program, late, rc, sender, first, second, wakes, kills>>

(* The process is killed and started again: the queue keeps its messages. *)
Killed ==
  /\ pc # "done" /\ kills < MaxKills
  /\ kills' = kills + 1
  /\ ready' = IF program = "mq" THEN ready ELSE 0
  /\ pc' = "first" /\ rc' = "unset"
  /\ sender' = "none" /\ first' = "none" /\ second' = "none"
  /\ UNCHANGED <<program, late, wakes>>

-----------------------------------------------------------------------------
MainStep ==
  \/ FirstTimeout \/ FirstMessage \/ FirstFails \/ Create \/ CreateFails
  \/ SecondSuccess \/ SecondTimeout \/ Lock \/ Test \/ Woken \/ TimedOut \/ Join

Next == MainStep \/ Send \/ FirstSpurious \/ SpuriousWakeup \/ Killed

Spec == Init /\ [][Next]_vars

(* Both threads run when they can, and a deadline that has passed is seen. *)
FairSpec == Spec /\ WF_vars(MainStep) /\ WF_vars(Send)
-----------------------------------------------------------------------------
(* Type correctness. There is never more than one event, messages that     *)
(* killed runs have left in the queue included.                            *)
TypeOK ==
  /\ program \in Programs /\ late \in BOOLEAN
  /\ ready \in 0 .. 1
  /\ pc \in {"first", "create", "second", "test", "waiting", "woken", "join", "done"}
  /\ rc \in Outcomes \cup {"unset"}
  /\ sender \in {"none", "asleep", "done"}
  /\ first \in Outcomes \cup {"none"} /\ second \in Outcomes \cup {"none"}
  /\ wakes \in 0 .. MaxSpuriousWakes /\ kills \in 0 .. MaxKills

(* "Successfully received" is about the event of this run: no wakeup       *)
(* without a signal and no message of a killed run passes for it           *)
(* (timeout_condvar.c:93-98, timeout_mq.c:76-98).                          *)
SuccessIsOfThisRun == second = "success" => sender = "done"

(* The "unexpected timeout" of the second wait: the event is late, or rc   *)
(* is left from the first wait on the condition variable                   *)
(* (timeout_condvar.c:93, timeout_mq.c:99, timeout_poll.c:98).             *)
TimeoutExplained ==
  second = "timeout" => late \/ (program = "condvar" /\ first = "timeout")

(* "It should successfully wait for the signal of the producer"            *)
(* (timeout_condvar.c:13-14): the second wait does not time out when the   *)
(* event is in time.                                                       *)
SecondWaitSucceeds == second = "timeout" => late

(* main ends, whatever its waits return, unless it is killed again and     *)
(* again.                                                                  *)
MainEnds == <>[](pc = "done")
=============================================================================
