----------------------------- MODULE PollInputs -----------------------------
(***************************************************************************)
(* task4/src/poll_inputs.c: one loop that polls several input devices and  *)
(* reads one event from each device that has some. Devices produce events  *)
(* and are unplugged at any moment.                                        *)
(***************************************************************************)
EXTENDS Naturals

CONSTANTS
  NUM_DEVICES,   (* at most MAX_DEVICES, 16                                *)
  EVENT_BUFFER   (* events that the system keeps for a device              *)

Devices == 1 .. NUM_DEVICES

VARIABLES
  queue,         (* the number of events of each device                    *)
  plugged,       (* the devices that are still there                       *)
  revents,       (* those for which the last poll returned POLLIN          *)
  i, pc

vars == <<queue, plugged, revents, i, pc>>

Init ==
  /\ queue = [d \in Devices |-> 0] /\ plugged = Devices
  /\ revents = {}
  /\ i = 1 /\ pc = "open"

(* A device that cannot be read or opened ends the program. *)
Open ==
  /\ pc = "open"
  /\ \/ i \in plugged /\ i < NUM_DEVICES /\ i' = i + 1 /\ UNCHANGED pc
     \/ i \in plugged /\ i = NUM_DEVICES /\ i' = 1 /\ pc' = "poll"
     \/ pc' = "done" /\ UNCHANGED i
  /\ UNCHANGED <<queue, plugged, revents>>

(* poll also returns, at once and for ever, when a device is gone, which   *)
(* sets POLLHUP and POLLERR. No signal has a handler that interrupts it.   *)
Poll ==
  /\ pc = "poll"
  /\ LET ready == {d \in Devices : queue[d] > 0}
     IN  /\ ready # {} \/ plugged # Devices
         /\ revents' = ready
  /\ i' = 1 /\ pc' = "scan"
  /\ UNCHANGED <<queue, plugged>>

ToNextDevice ==
  IF i = NUM_DEVICES THEN pc' = "poll" /\ UNCHANGED i ELSE pc' = "scan" /\ i' = i + 1

(* One event is read; the device may be gone by now. *)
Scan ==
  /\ pc = "scan"
  /\ IF i \in revents \cap plugged
       THEN queue' = [queue EXCEPT ![i] = @ - 1] /\ pc' = "report" /\ UNCHANGED i
       ELSE ToNextDevice /\ UNCHANGED queue
  /\ UNCHANGED <<plugged, revents>>

(* Mutant: the first device that has an event is the only one looked at.   *)
ReportAndPoll ==
  /\ pc = "report"
  /\ pc' = "poll"
  /\ UNCHANGED <<queue, plugged, revents, i>>

Report ==
  /\ pc = "report"
  /\ ToNextDevice
  /\ UNCHANGED <<queue, plugged, revents>>

(* When the buffer is full the system keeps a mark and the latest event.   *)
Happens(d) ==
  /\ d \in plugged /\ pc \notin {"open", "done"}
  /\ queue' = [queue EXCEPT ![d] = IF @ < EVENT_BUFFER THEN @ + 1 ELSE 2]
  /\ UNCHANGED <<plugged, revents, i, pc>>

Unplug(d) ==
  /\ d \in plugged
  /\ plugged' = plugged \ {d}
  /\ UNCHANGED <<queue, revents, i, pc>>

Step == Open \/ Poll \/ Scan \/ Report

Next == Step \/ \E d \in Devices : Happens(d) \/ Unplug(d)

Spec == Init /\ [][Next]_vars

(* The loop runs when it can. *)
FairSpec == Spec /\ WF_vars(Step)
-----------------------------------------------------------------------------
TypeOK ==
  /\ queue \in [Devices -> 0 .. EVENT_BUFFER]
  /\ plugged \subseteq Devices /\ revents \subseteq Devices
  /\ i \in Devices
  /\ pc \in {"open", "poll", "scan", "report", "done"}

(* No device starves another, however fast its events come: as long as it  *)
(* is there an event of each device that has some is reported              *)
(* (poll_inputs.c:60-69).                                                  *)
EveryDeviceRead ==
  \A d \in Devices : []<>(\/ pc = "done" \/ queue[d] = 0 \/ d \notin plugged
                          \/ pc = "report" /\ i = d)
=============================================================================
