--------------------------------- MODULE Lab ---------------------------------
(***************************************************************************)
(* The programs of the repository that are checked one at a time: they     *)
(* share nothing, so that no two of them need to be interleaved. `lab'     *)
(* says which one runs; the others stay in their initial state.            *)
(***************************************************************************)
EXTENDS Naturals

CONSTANTS
  Connections, BUFFER, SOCKET, MAX_EVENTS, MaxUnits, MaxNotes,  (* EpollEcho *)
  PRODUCT_MOD,                                                  (* ProdCons *)
  MaxSpuriousWakes,                       (* ProdCons, TimedWait and Intro  *)
  MaxKills,                                                    (* TimedWait *)
  BURST, MQ_MAXMSG, MaxRuns,                                  (* BurstDrain *)
  Copies, MaxCount,                                                (* SemEx *)
  SIGNALS,                                                   (* SignalFlags *)
  EVENTS, MESSAGES, MaxLate,                                  (* AlarmTicks *)
  SLEEPS,                                                  (* PrioInversion *)
  BLOCK_COUNT,                                                   (* MemPool *)
  PERIOD, NUM_SAMPLES, BILLION, MaxDelay,                       (* Sampling *)
  NUM_DEVICES, EVENT_BUFFER                                   (* PollInputs *)

ASSUME EpollAssumption ==
  /\ {"listen", "event", "nobody"} \cap Connections = {}
  /\ BUFFER \in Nat \ {0} /\ SOCKET \in Nat /\ MaxUnits \in Nat /\ MaxNotes \in Nat

(* Without a run that was killed the queue takes the whole burst: 7 and 32 *)
(* in the code.                                                            *)
ASSUME BurstAssumption ==
  BURST \in Nat /\ MQ_MAXMSG \in Nat /\ BURST <= MQ_MAXMSG /\ MaxRuns \in Nat \ {0}

ASSUME SleepsAssumption == SLEEPS \in [{"server", "t1", "t2"} -> Nat]

(* There is one signal and one device at least, and more than one product; *)
(* a full buffer of input events holds a mark and an event.                *)
ASSUME NumbersAssumption ==
  /\ PRODUCT_MOD \in Nat \ {0, 1} /\ MaxSpuriousWakes \in Nat /\ MaxKills \in Nat
  /\ Copies \subseteq Nat \ {0} /\ MaxCount \in Nat
  /\ SIGNALS \in Nat \ {0}
  /\ EVENTS \in Nat \ {0} /\ MESSAGES \in Nat /\ MaxLate \in Nat
  /\ BLOCK_COUNT \in Nat
  /\ PERIOD \in Nat /\ BILLION \in Nat \ {0} /\ MaxDelay \in Nat
  /\ NUM_DEVICES \in Nat \ {0} /\ EVENT_BUFFER \in Nat \ {0, 1}

VARIABLES
  lab,                                             (* the program that runs *)
  running, patient, user, backlog, conn, inbox, outbox, edge, batch, reading,
  chunk, counter, notes, sent, echoed,             (* EpollEcho             *)
  turn, product, consumed, owner, pcHand, wakesHand,            (* ProdCons *)
  program, late, ready, pcTimed, rc, sender, first, second, wakesTimed, kills,
                                                   (* TimedWait             *)
  queue, nonblock, pcBurst, i, blocked, received, refused, runs, killed,
                                                   (* BurstDrain            *)
  name, count, mySemaphore, pcSem,                 (* SemEx                 *)
  state, prevState, changed, pcIntro, shown, wakesIntro,           (* Intro *)
  got, due, at, pcKeys, raw,                       (* SignalFlags           *)
  ticks, messages, round, pcAlarm, lateTicks,      (* AlarmTicks            *)
  inherit, protocol, holder, pcPrio, left, main,   (* PrioInversion         *)
  pool, next, head, ptrs, ptr,                     (* MemPool               *)
  current, nextState, expired, nsec, armed, pcLight,        (* TrafficLight *)
  clock, lead, next_ns, deltas_ns, start, woke, delay, pcSampling,
                                                   (* Sampling              *)
  events, plugged, revents, device, pcInputs                  (* PollInputs *)

Epoll == INSTANCE EpollEcho
Hand == INSTANCE ProdCons WITH pc <- pcHand, wakes <- wakesHand
Timed == INSTANCE TimedWait WITH pc <- pcTimed, wakes <- wakesTimed
Burst == INSTANCE BurstDrain WITH pc <- pcBurst
Sem == INSTANCE SemEx WITH pc <- pcSem
Output == INSTANCE Intro WITH pc <- pcIntro, wakes <- wakesIntro
Keys == INSTANCE SignalFlags WITH pc <- pcKeys
Alarm == INSTANCE AlarmTicks WITH
  counter <- ticks, i <- round, pc <- pcAlarm, late <- lateTicks
Prio == INSTANCE PrioInversion WITH owner <- holder, pc <- pcPrio
Memory == INSTANCE MemPool
Light == INSTANCE TrafficLight WITH pc <- pcLight
Samples == INSTANCE Sampling WITH pc <- pcSampling
Inputs == INSTANCE PollInputs WITH queue <- events, i <- device, pc <- pcInputs

epoll == <<running, patient, user, backlog, conn, inbox, outbox, edge, batch,
           reading, chunk, counter, notes, sent, echoed>>
hand == <<turn, product, consumed, owner, pcHand, wakesHand>>
timed == <<program, late, ready, pcTimed, rc, sender, first, second, wakesTimed, kills>>
burst == <<queue, nonblock, pcBurst, i, blocked, received, refused, runs, killed>>
sem == <<name, count, mySemaphore, pcSem>>
output == <<state, prevState, changed, pcIntro, shown, wakesIntro>>
keys == <<got, due, at, pcKeys, raw>>
alarm == <<ticks, messages, round, pcAlarm, lateTicks>>
prio == <<inherit, protocol, holder, pcPrio, left, main>>
memory == <<pool, next, head, ptrs, ptr>>
light == <<current, nextState, expired, nsec, armed, pcLight>>
sampling == <<clock, lead, next_ns, deltas_ns, start, woke, delay, pcSampling>>
inputs == <<events, plugged, revents, device, pcInputs>>
vars == <<lab, epoll, hand, timed, burst, sem, output, keys, alarm, prio, memory, light,
          sampling, inputs>>

Init ==
  /\ lab \in {"epoll", "hand", "timed", "burst", "sem", "output", "keys", "alarm",
              "prio", "memory", "light", "sampling", "inputs"}
  /\ Epoll!Init /\ Hand!Init /\ Timed!Init /\ Burst!Init /\ Sem!Init /\ Output!Init
  /\ Keys!Init /\ Alarm!Init /\ Prio!Init /\ Memory!Init /\ Light!Init
  /\ Samples!Init /\ Inputs!Init
  /\ lab # "epoll" => patient = {}
  /\ lab # "timed" => program = "poll" /\ late = FALSE
  /\ lab # "prio" => inherit = FALSE
  /\ lab # "sampling" => clock = 0 /\ lead = 0

(* Only one program takes steps. *)
EpollOnly ==
  lab = "epoll" /\ UNCHANGED <<lab, hand, timed, burst, sem, output, keys, alarm,
    prio, memory, light, sampling, inputs>>
HandOnly ==
  lab = "hand" /\ UNCHANGED <<lab, epoll, timed, burst, sem, output, keys, alarm,
    prio, memory, light, sampling, inputs>>
TimedOnly ==
  lab = "timed" /\ UNCHANGED <<lab, epoll, hand, burst, sem, output, keys, alarm,
    prio, memory, light, sampling, inputs>>
BurstOnly ==
  lab = "burst" /\ UNCHANGED <<lab, epoll, hand, timed, sem, output, keys, alarm,
    prio, memory, light, sampling, inputs>>
SemOnly ==
  lab = "sem" /\ UNCHANGED <<lab, epoll, hand, timed, burst, output, keys, alarm,
    prio, memory, light, sampling, inputs>>
OutputOnly ==
  lab = "output" /\ UNCHANGED <<lab, epoll, hand, timed, burst, sem, keys, alarm,
    prio, memory, light, sampling, inputs>>
KeysOnly ==
  lab = "keys" /\ UNCHANGED <<lab, epoll, hand, timed, burst, sem, output, alarm,
    prio, memory, light, sampling, inputs>>
AlarmOnly ==
  lab = "alarm" /\ UNCHANGED <<lab, epoll, hand, timed, burst, sem, output, keys,
    prio, memory, light, sampling, inputs>>
PrioOnly ==
  lab = "prio" /\ UNCHANGED <<lab, epoll, hand, timed, burst, sem, output, keys,
    alarm, memory, light, sampling, inputs>>
MemoryOnly ==
  lab = "memory" /\ UNCHANGED <<lab, epoll, hand, timed, burst, sem, output, keys,
    alarm, prio, light, sampling, inputs>>
LightOnly ==
  lab = "light" /\ UNCHANGED <<lab, epoll, hand, timed, burst, sem, output, keys,
    alarm, prio, memory, sampling, inputs>>
SamplingOnly ==
  lab = "sampling" /\ UNCHANGED <<lab, epoll, hand, timed, burst, sem, output, keys,
    alarm, prio, memory, light, inputs>>
InputsOnly ==
  lab = "inputs" /\ UNCHANGED <<lab, epoll, hand, timed, burst, sem, output, keys,
    alarm, prio, memory, light, sampling>>

Next ==
  \/ EpollOnly /\ Epoll!Next
  \/ HandOnly /\ Hand!Next
  \/ TimedOnly /\ Timed!Next
  \/ BurstOnly /\ Burst!Next
  \/ SemOnly /\ Sem!Next
  \/ OutputOnly /\ Output!Next
  \/ KeysOnly /\ Keys!Next
  \/ AlarmOnly /\ Alarm!Next
  \/ PrioOnly /\ Prio!Next
  \/ MemoryOnly /\ Memory!Next
  \/ LightOnly /\ Light!Next
  \/ SamplingOnly /\ Samples!Next
  \/ InputsOnly /\ Inputs!Next

Spec == Init /\ [][Next]_vars

(* The fairness of each program, see its module. As lab never changes, one *)
(* condition on an action of each program says it of the program that      *)
(* runs. In PrioInversion priorities leave the processor to one thread, so *)
(* that fairness to any is fairness to each.                               *)
MainThread ==
  \/ EpollOnly /\ Epoll!ServerStep
  \/ HandOnly /\ Hand!Step("producer")
  \/ TimedOnly /\ Timed!MainStep
  \/ BurstOnly /\ Burst!MainStep
  \/ OutputOnly /\ Output!OutputStep
  \/ AlarmOnly /\ (Alarm!Pause \/ Alarm!Stop)
  \/ PrioOnly /\ (Prio!MainStep \/ \E t \in Prio!Threads : Prio!Step(t))
  \/ LightOnly /\ Light!Step
  \/ SamplingOnly /\ Samples!Step
  \/ InputsOnly /\ Inputs!Step

Partner ==
  \/ HandOnly /\ Hand!Step("consumer")
  \/ TimedOnly /\ Timed!Send
  \/ BurstOnly /\ Burst!ProducerStep
  \/ AlarmOnly /\ Alarm!Tick
  \/ LightOnly /\ Light!Tick
  \/ SamplingOnly /\ Samples!Tick

FairSpec ==
  /\ Spec
  /\ WF_vars(MainThread) /\ WF_vars(Partner)
  /\ \A k \in Connections : WF_vars(EpollOnly /\ Epoll!Receive(k))
  /\ \A t \in Prio!Threads : WF_vars(PrioOnly /\ Prio!Wake(t))
-----------------------------------------------------------------------------
(* The properties of each program, stated and explained in its module.     *)
(* Those that only a program that runs can have are asked of that one.     *)

(* Type correctness of the programs. *)
TypeOK ==
  /\ Epoll!TypeOK /\ Hand!TypeOK /\ Timed!TypeOK /\ Burst!TypeOK /\ Sem!TypeOK
  /\ Output!TypeOK /\ Keys!TypeOK /\ Alarm!TypeOK /\ Prio!TypeOK /\ Memory!TypeOK
  /\ Light!TypeOK /\ Samples!TypeOK /\ Inputs!TypeOK

(* epoll_server.c: no event of a patient client is lost. *)
NothingStranded == Epoll!NothingStranded

(* epoll_server.c: a client gets its own units back, in their order. *)
EchoedInOrder == Epoll!EchoedInOrder

(* epoll_server.c: patient clients get everything back, and their          *)
(* connections are closed when they have left.                             *)
PatientClientsServed == Epoll!EverythingEchoed /\ Epoll!DisconnectNoticed

(* prodcons.c: each product is handed over once, in order. *)
HandoverImplemented == Hand!HandoverImplemented

(* timeout_*.c, calctime2.c and sched_fifo_jitter.c: what the second wait  *)
(* reports is true, and so is the delay that is stored for each period.    *)
ReportsTrue == Timed!SuccessIsOfThisRun /\ Timed!TimeoutExplained /\ Samples!NoDrift

(* mq_clean_burst.c: what was sent when the drain ends has been received,  *)
(* in order.                                                               *)
BurstInOrder == Burst!BurstInOrder

(* semex.c: the semaphore starts without counts. *)
NamedIsFresh == Sem!NamedIsFresh

(* intro.c and intsimple.c: no flag that says that something happened is   *)
(* lost: neither a change of the state once the output has begun nor a     *)
(* signal.                                                                 *)
NoNoticeLost == Output!NoChangeLost /\ Keys!NoSignalLost

(* scenario_2.c: inheritance keeps the middle priority out. *)
NoInversion == Prio!NoInversion

(* mempool.c: no block is handed out twice or lost. *)
PoolImplemented == Memory!PoolImplemented

(* The programs that end: timeout_*.c, mq_clean_burst.c, int.c, the        *)
(* scenarios of inv_prio and the loops that sample the clock.              *)
MainEnds ==
  <>[](/\ lab = "timed" => pcTimed = "done"
       /\ lab = "burst" => pcBurst = "done"
       /\ lab = "alarm" => pcAlarm = "done"
       /\ lab = "prio" => main \in {"failed", "done"}
       /\ lab = "sampling" => pcSampling = "done")

(* The programs that go on: prodcons.c produces and consumes, intro.c      *)
(* shows each change, the traffic lights stand only without a timer, and   *)
(* poll_inputs.c reads every device that has events.                       *)
GoesOn ==
  /\ \A p \in Hand!Products : []<>(lab = "hand" => consumed = p)
  /\ Output!ChangesShown
  /\ []<>(lab = "light" => pcLight = "print" \/ (pcLight = "wait" /\ ~nsec))
  /\ Inputs!EveryDeviceRead
=============================================================================
