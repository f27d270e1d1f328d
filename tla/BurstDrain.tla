----------------------------- MODULE BurstDrain -----------------------------
(***************************************************************************)
(* task2/src/mq_clean_burst.c: a thread sends a burst of messages to a     *)
(* queue; main waits for the first one, makes the queue non-blocking and   *)
(* reads until it is empty. Both use one descriptor, and so share its      *)
(* O_NONBLOCK flag. The queue outlives a run that is killed.               *)
(***************************************************************************)
EXTENDS Naturals, Sequences

CONSTANTS
  BURST,       (* messages of the producer, 7 in the code                  *)
  MQ_MAXMSG,   (* attr.mq_maxmsg, 32 in the code                           *)
  MaxRuns      (* bound: runs of the program                               *)

VARIABLES
  queue,       (* messages msg-1 .. msg-BURST of this run, or Stale ones   *)
  nonblock,    (* O_NONBLOCK of the open queue                             *)
  pc,          (* main                                                     *)
  i,           (* the producer's next message; 0 when there is no producer *)
  blocked,     (* it waits for room in mq_send                             *)
  received, refused,   (* history: by main, and of the producer by mq_send *)
  runs, killed         (* runs so far; one of them has been killed         *)

vars == <<queue, nonblock, pc, i, blocked, received, refused, runs, killed>>

Stale == 0

Init ==
  /\ queue = << >> /\ nonblock = FALSE
  /\ pc = "open" /\ i = 0 /\ blocked = FALSE
  /\ received = << >> /\ refused = {}
  /\ runs = 1 /\ killed = FALSE

(* A queue that exists is opened with what is in it. *)
Open ==
  /\ pc = "open"
  /\ i' = 1
  /\ pc' = "first"
  /\ UNCHANGED <<queue, nonblock, blocked, received, refused, runs, killed>>

(* Without privileges a queue of 32 messages is refused. *)
OpenFails ==
  /\ pc = "open"
  /\ pc' = "done"
  /\ UNCHANGED <<queue, nonblock, i, blocked, received, refused, runs, killed>>

(* pthread_create fails; the queue is removed. *)
CreateFails ==
  /\ pc = "open"
  /\ queue' = << >>
  /\ pc' = "done"
  /\ UNCHANGED <<nonblock, i, blocked, received, refused, runs, killed>>

Send ==
  /\ i \in 1 .. BURST /\ Len(queue) < MQ_MAXMSG
  /\ queue' = Append(queue, i)
  /\ i' = i + 1 /\ blocked' = FALSE
  /\ UNCHANGED <<nonblock, pc, received, refused, runs, killed>>

SendBlocks ==
  /\ i \in 1 .. BURST /\ Len(queue) = MQ_MAXMSG /\ ~nonblock /\ ~blocked
  /\ blocked' = TRUE
  /\ UNCHANGED <<queue, nonblock, pc, i, received, refused, runs, killed>>

(* The flag that main sets also makes mq_send fail (EAGAIN); the message   *)
(* is not sent again.                                                      *)
SendRefused ==
  /\ i \in 1 .. BURST /\ Len(queue) = MQ_MAXMSG /\ nonblock /\ ~blocked
  /\ refused' = refused \cup {i}
  /\ i' = i + 1
  /\ UNCHANGED <<queue, nonblock, pc, blocked, received, runs, killed>>

Receive(next) ==
  /\ queue # << >>
  /\ received' = Append(received, Head(queue))
  /\ queue' = Tail(queue)
  /\ pc' = next
  /\ UNCHANGED <<nonblock, i, blocked, refused, runs, killed>>

First == pc = "first" /\ Receive("setattr")

(* Mutant: mq_setattr is forgotten. *)
SetNonblockMissing ==
  /\ pc = "setattr"
  /\ pc' = "drain"
  /\ UNCHANGED <<queue, nonblock, i, blocked, received, refused, runs, killed>>

SetNonblock ==
  /\ pc = "setattr"
  /\ nonblock' = TRUE
  /\ pc' = "drain"
  /\ UNCHANGED <<queue, i, blocked, received, refused, runs, killed>>

(* Mutant: one message is drained and no loop made. *)
DrainOne == pc = "drain" /\ Receive("join")

Drain == pc = "drain" /\ Receive("drain")

DrainEnds ==
  /\ pc = "drain" /\ queue = << >> /\ nonblock
  /\ pc' = "join"
  /\ UNCHANGED <<queue, nonblock, i, blocked, received, refused, runs, killed>>

(* pthread_join; the queue is removed with what is still in it. *)
Close ==
  /\ pc = "join" /\ i > BURST
  /\ queue' = << >> /\ nonblock' = FALSE
  /\ pc' = "done"
  /\ UNCHANGED <<i, blocked, received, refused, runs, killed>>

NextRun ==
  /\ runs < MaxRuns
  /\ runs' = runs + 1
  /\ pc' = "open" /\ i' = 0 /\ blocked' = FALSE /\ nonblock' = FALSE
  /\ received' = << >> /\ refused' = {}

Again == pc = "done" /\ NextRun /\ UNCHANGED <<queue, killed>>

(* A signal ends the process; the queue keeps its messages. *)
Killed ==
  /\ pc # "done" /\ NextRun
  /\ killed' = TRUE
  /\ queue' = [n \in DOMAIN queue |-> Stale]

MainStep ==
  Open \/ OpenFails \/ CreateFails \/ First \/ SetNonblock \/ Drain \/ DrainEnds \/ Close

ProducerStep == Send \/ SendBlocks \/ SendRefused

Next == MainStep \/ ProducerStep \/ Again \/ Killed

Spec == Init /\ [][Next]_vars

(* Both threads run when they can. *)
FairSpec == Spec /\ WF_vars(MainStep) /\ WF_vars(ProducerStep)
-----------------------------------------------------------------------------
TypeOK ==
  /\ queue \in Seq(Stale .. BURST) /\ Len(queue) <= MQ_MAXMSG
  /\ nonblock \in BOOLEAN /\ killed \in BOOLEAN
  /\ pc \in {"open", "first", "setattr", "drain", "join", "done"}
  /\ i \in 0 .. BURST + 1 /\ blocked \in BOOLEAN
  /\ received \in Seq(Stale .. BURST)
  /\ refused \subseteq 1 .. BURST
  /\ runs \in 1 .. MaxRuns

(* Until the queue is closed, what main has received and what is queued is *)
(* what has been sent so far, in its order. Unless an earlier run was      *)
(* killed, none of it is refused by the flag that the two threads share,   *)
(* and nothing else is received (mq_clean_burst.c:32-37, 66-103).          *)
InOrder ==
  pc \in {"first", "setattr", "drain", "join"} =>
    LET burst == received \o queue
    IN  /\ {burst[n] : n \in DOMAIN burst} \ {Stale} = (1 .. i - 1) \ refused
        /\ \A m, n \in DOMAIN burst : m < n /\ burst[n] # Stale => burst[m] < burst[n]
        /\ ~killed => refused = {} /\ burst = [n \in 1 .. i - 1 |-> n]

(* And main stops reading only when it has all of that: what was sent      *)
(* before the drain ends is received by then, in order and without a gap.  *)
(* What the producer sends later is removed unread with the queue, so that *)
(* main need not see the whole burst (mq_clean_burst.c:89-103).            *)
BurstInOrder ==
  /\ []InOrder
  /\ [][pc = "drain" /\ pc' = "join" =>
          /\ {received[n] : n \in DOMAIN received} \ {Stale} = (1 .. i - 1) \ refused
          /\ ~killed => received = [n \in 1 .. i - 1 |-> n]]_vars

(* The last run ends: the drain stops at an empty queue. *)
MainEnds == <>[](pc = "done")
=============================================================================
