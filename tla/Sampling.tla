------------------------------ MODULE Sampling ------------------------------
(***************************************************************************)
(* task2/src/calctime2.c and task2/src/sched_fifo_jitter.c: a loop that    *)
(* sleeps until absolute times, one period apart, and stores how late it   *)
(* woke. Time passes at any step: the process may lose the processor       *)
(* before, between and after the two calls. What is computed of the stored *)
(* values afterwards is left out.                                          *)
(***************************************************************************)
EXTENDS Naturals, Sequences

CONSTANTS
  PERIOD,        (* period_ns, two milliseconds in the code                *)
  NUM_SAMPLES,   (* 5000 in the code                                       *)
  BILLION,       (* nanoseconds in a second                                *)
  MaxDelay       (* bound: the time for which the process is kept waiting  *)

VARIABLES
  clock,         (* CLOCK_MONOTONIC, in nanoseconds                        *)
  lead,          (* a sample is measured from the time of the wakeup, or   *)
                 (*   in calctime2.c from one period before it             *)
  next_ns, deltas_ns,
  start, woke,   (* history: when the loop began, and when it woke         *)
  delay,         (* used up part of MaxDelay                               *)
  pc

vars == <<clock, lead, next_ns, deltas_ns, start, woke, delay, pc>>

(* A struct timespec. *)
timespec_to_ns(ts) == ts.tv_sec * BILLION + ts.tv_nsec
ns_to_timespec(ns) == [tv_sec |-> ns \div BILLION, tv_nsec |-> ns % BILLION]

clock_gettime == ns_to_timespec(clock)

(* The system's test of a time. *)
Reached(ts) ==
  \/ clock_gettime.tv_sec > ts.tv_sec
  \/ clock_gettime.tv_sec = ts.tv_sec /\ clock_gettime.tv_nsec >= ts.tv_nsec

Init ==
  /\ clock \in 0 .. BILLION - 1 /\ lead \in {0, PERIOD}
  /\ next_ns = 0 /\ deltas_ns = << >>
  /\ start = 0 /\ woke = << >> /\ delay = 0
  /\ pc = "start"

Start ==
  /\ pc = "start"
  /\ start' = clock
  /\ next_ns' = timespec_to_ns(clock_gettime) + PERIOD
  /\ pc' = "sleep"
  /\ UNCHANGED <<clock, lead, deltas_ns, woke, delay>>

(* clock_nanosleep with TIMER_ABSTIME; when a signal interrupts it, it is  *)
(* called again with the same time.                                        *)
Wake ==
  /\ pc = "sleep" /\ Reached(ns_to_timespec(next_ns))
  /\ pc' = "sample"
  /\ UNCHANGED <<clock, lead, next_ns, deltas_ns, start, woke, delay>>

(* Mutant: the next period is counted from the wakeup. *)
SampleAndRestart ==
  /\ pc = "sample"
  /\ deltas_ns' = Append(deltas_ns, timespec_to_ns(clock_gettime) - next_ns + lead)
  /\ woke' = Append(woke, clock)
  /\ next_ns' = timespec_to_ns(clock_gettime) + PERIOD
  /\ pc' = IF Len(deltas_ns') = NUM_SAMPLES THEN "done" ELSE "sleep"
  /\ UNCHANGED <<clock, lead, start, delay>>

Sample ==
  /\ pc = "sample"
  /\ deltas_ns' = Append(deltas_ns, timespec_to_ns(clock_gettime) - next_ns + lead)
  /\ woke' = Append(woke, clock)
  /\ next_ns' = next_ns + PERIOD
  /\ pc' = IF Len(deltas_ns') = NUM_SAMPLES THEN "done" ELSE "sleep"
  /\ UNCHANGED <<clock, lead, start, delay>>

(* The process sleeps, or it is kept waiting. *)
Tick ==
  /\ pc # "done"
  /\ clock' = clock + 1
  /\ IF pc = "sleep" /\ ~Reached(ns_to_timespec(next_ns)) THEN UNCHANGED delay
     ELSE delay < MaxDelay /\ delay' = delay + 1
  /\ UNCHANGED <<lead, next_ns, deltas_ns, start, woke, pc>>

Step == Start \/ Wake \/ Sample

Next == Step \/ Tick

Spec == Init /\ [][Next]_vars

(* The process runs in the end, and time goes on. *)
FairSpec == Spec /\ WF_vars(Step) /\ WF_vars(Tick)
-----------------------------------------------------------------------------
TypeOK ==
  /\ clock \in Nat /\ lead \in {0, PERIOD} /\ delay \in 0 .. MaxDelay
  /\ next_ns \in Nat /\ deltas_ns \in Seq(Nat)
  /\ start \in Nat /\ woke \in Seq(Nat)
  /\ pc \in {"start", "sleep", "sample", "done"}

(* "Absolute wait is crucial to prevent period drift"                      *)
(* (sched_fifo_jitter.c:93): however late a pass was, the n-th sample is   *)
(* the delay after n whole periods, and none is taken early, although the  *)
(* time is handed over in seconds and nanoseconds.                         *)
NoDrift ==
  \A n \in DOMAIN woke :
    /\ woke[n] >= start + n * PERIOD
    /\ deltas_ns[n] = woke[n] - (start + n * PERIOD) + lead

MainEnds == <>[](pc = "done")
=============================================================================
