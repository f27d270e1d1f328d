------------------------------ MODULE LabProof ------------------------------
(***************************************************************************)
(* The programs of Lab for every value of their constants. Each program is *)
(* reasoned about alone, under the name of its instance; LabRuns says that *)
(* a run of Lab is a run of each of them.                                  *)
(***************************************************************************)
EXTENDS Lab, SequenceTheorems, FiniteSetTheorems, WellFoundedInduction, TLAPS

(* No step of another program touches the variables of this one.           *)
LEMMA LabRuns ==
  Spec => /\ Epoll!Spec /\ Hand!Spec /\ Timed!Spec /\ Burst!Spec /\ Sem!Spec
          /\ Output!Spec /\ Keys!Spec /\ Alarm!Spec /\ Prio!Spec /\ Memory!Spec
          /\ Light!Spec /\ Samples!Spec /\ Inputs!Spec
<1> USE DEF vars, epoll, hand, timed, burst, sem, output, keys, alarm, prio, memory, light,
            sampling, inputs, EpollOnly, HandOnly, TimedOnly, BurstOnly, SemOnly, OutputOnly,
            KeysOnly, AlarmOnly, PrioOnly, MemoryOnly, LightOnly, SamplingOnly, InputsOnly
<1>1. Init => /\ Epoll!Init /\ Hand!Init /\ Timed!Init /\ Burst!Init /\ Sem!Init
              /\ Output!Init /\ Keys!Init /\ Alarm!Init /\ Prio!Init /\ Memory!Init
              /\ Light!Init /\ Samples!Init /\ Inputs!Init
  BY DEF Init
<1>2. [Next]_vars => [Epoll!Next]_(Epoll!vars)
  BY DEF Next, Epoll!vars, Epoll!epoll, Epoll!world
<1>3. [Next]_vars => [Hand!Next]_(Hand!vars)
  BY DEF Next, Hand!vars
<1>4. [Next]_vars => [Timed!Next]_(Timed!vars)
  BY DEF Next, Timed!vars
<1>5. [Next]_vars => [Burst!Next]_(Burst!vars)
  BY DEF Next, Burst!vars
<1>6. [Next]_vars => [Sem!Next]_(Sem!vars)
  BY DEF Next, Sem!vars
<1>7. [Next]_vars => [Output!Next]_(Output!vars)
  BY DEF Next, Output!vars
<1>8. [Next]_vars => [Keys!Next]_(Keys!vars)
  BY DEF Next, Keys!vars
<1>9. [Next]_vars => [Alarm!Next]_(Alarm!vars)
  BY DEF Next, Alarm!vars
<1>10. [Next]_vars => [Prio!Next]_(Prio!vars)
  BY DEF Next, Prio!vars
<1>11. [Next]_vars => [Memory!Next]_(Memory!vars)
  BY DEF Next, Memory!vars
<1>12. [Next]_vars => [Light!Next]_(Light!vars)
  BY DEF Next, Light!vars
<1>13. [Next]_vars => [Samples!Next]_(Samples!vars)
  BY DEF Next, Samples!vars
<1>14. [Next]_vars => [Inputs!Next]_(Inputs!vars)
  BY DEF Next, Inputs!vars
<1> QED
  BY <1>1, <1>2, <1>3, <1>4, <1>5, <1>6, <1>7, <1>8, <1>9, <1>10, <1>11, <1>12, <1>13, <1>14, PTL
  DEF Spec, Epoll!Spec, Hand!Spec, Timed!Spec, Burst!Spec, Sem!Spec, Output!Spec, Keys!Spec,
      Alarm!Spec, Prio!Spec, Memory!Spec, Light!Spec, Samples!Spec, Inputs!Spec

-----------------------------------------------------------------------------
(* semex.c. Only a copy that has unlinked the name posts, and then its     *)
(* semaphore has no name, for ever: a semaphore is created once.           *)
SemInv ==
  /\ Sem!TypeOK /\ Sem!NamedIsFresh
  /\ \A c \in Copies : pcSem[c] = "open" =>
       name # c /\ count[c] = 0 /\ \A d \in Copies : mySemaphore[d] # c
  /\ \A c \in Copies : pcSem[c] # "open" => mySemaphore[c] \in Copies
  /\ \A c \in Copies : pcSem[c] = "threads" => mySemaphore[c] # name

LEMMA SemHolds == Sem!Spec => []SemInv
<1> USE NumbersAssumption DEF Sem!None
<1>1. Sem!Init => SemInv
  BY DEF Sem!Init, SemInv, Sem!TypeOK, Sem!NamedIsFresh
<1>2. SemInv /\ [Sem!Next]_(Sem!vars) => SemInv'
  <2> SUFFICES ASSUME SemInv, [Sem!Next]_(Sem!vars) PROVE SemInv'
    OBVIOUS
  <2> USE DEF SemInv, Sem!TypeOK, Sem!NamedIsFresh
  <2>1. ASSUME NEW c \in Copies, Sem!Open(c) PROVE SemInv'
    <3>1. /\ name' \in Copies /\ name' = (IF name = 0 THEN c ELSE name)
          /\ mySemaphore' = [mySemaphore EXCEPT ![c] = name']
          /\ pcSem[c] = "open" /\ pcSem' = [pcSem EXCEPT ![c] = "unlink"] /\ count' = count
      BY <2>1 DEF Sem!Open
    <3>2. Sem!TypeOK' /\ Sem!NamedIsFresh'
      BY <3>1
    <3>3. /\ \A d \in Copies : pcSem'[d] = "open" =>
               name' # d /\ count'[d] = 0 /\ \A e \in Copies : mySemaphore'[e] # d
          /\ \A d \in Copies : pcSem'[d] # "open" => mySemaphore'[d] \in Copies
      BY <3>1
    <3>4. \A d \in Copies : pcSem'[d] = "threads" => mySemaphore'[d] # name'
      BY <3>1
    <3> QED
      BY <3>2, <3>3, <3>4
  <2>2. ASSUME NEW c \in Copies, Sem!Unlink(c) \/ Sem!Exit(c) PROVE SemInv'
    BY <2>2 DEF Sem!Unlink, Sem!Exit
  <2>3. ASSUME NEW c \in Copies, Sem!Post(c) \/ Sem!Consume(c) PROVE SemInv'
    <3>1. /\ mySemaphore[c] \in Copies /\ mySemaphore[c] # name
          /\ UNCHANGED <<name, mySemaphore, pcSem>>
          /\ \A d \in Copies \ {mySemaphore[c]} : count'[d] = count[d]
      BY <2>3 DEF Sem!Post, Sem!Consume
    <3>2. count' \in [Copies -> 0 .. MaxCount]
      BY <2>3, <3>1 DEF Sem!Post, Sem!Consume
    <3> QED
      BY <3>1, <3>2
  <2>4. CASE UNCHANGED Sem!vars
    BY <2>4 DEF Sem!vars
  <2> QED
    BY <2>1, <2>2, <2>3, <2>4 DEF Sem!Next
<1> QED
  BY <1>1, <1>2, PTL DEF Sem!Spec

(* For every number of copies, started and killed at any moment: the       *)
(* semaphore that has the name has no counts.                              *)
THEOREM NamedFresh == Spec => []NamedIsFresh
BY LabRuns, SemHolds, PTL DEF NamedIsFresh, SemInv

-----------------------------------------------------------------------------
(* intro.c. sense remembers the state that it has told of; before the      *)
(* first character it remembers none.                                      *)
OutputInv ==
  /\ Output!TypeOK /\ Output!NoChangeLost
  /\ prevState \in {state, Output!Blank}
  /\ prevState = Output!Blank => ~changed
  /\ pcIntro = "start" => shown = Output!Blank

LEMMA SameStateMeans ==
  \A a, b : Output!SameState(a, b) <=> a = b \/ (a = "N" /\ b = "n") \/ (a = "n" /\ b = "N")
<1> SUFFICES ASSUME NEW a, NEW b
             PROVE  {a, b} = {"N", "n"} <=> (a = "N" /\ b = "n") \/ (a = "n" /\ b = "N")
  BY Zenon DEF Output!SameState
<1>1. "N" # "n"
  OBVIOUS
<1>2. ASSUME {a, b} = {"N", "n"} PROVE (a = "N" /\ b = "n") \/ (a = "n" /\ b = "N")
  <2>1. a \in {"N", "n"} /\ b \in {"N", "n"}
    BY <1>2
  <2>2. "N" \in {a, b} /\ "n" \in {a, b}
    BY <1>2
  <2> QED
    BY <1>1, <2>1, <2>2
<1> QED
  BY <1>2

LEMMA OutputHolds == Output!Spec => []OutputInv
<1>1. MaxSpuriousWakes \in Nat
  BY NumbersAssumption
<1>2. Output!Blank \notin {"N", "n", "R"}
  BY Zenon DEF Output!Blank
<1> USE <1>2 DEF Output!RealStates, Output!Chars
<1>3. Output!Init => OutputInv
  <2> SUFFICES ASSUME Output!Init PROVE OutputInv
    OBVIOUS
  <2>1. changed \in BOOLEAN /\ ~changed
    BY DEF Output!Init
  <2>2. wakesIntro \in 0 .. MaxSpuriousWakes
    BY <1>1 DEF Output!Init
  <2> QED
    BY <2>1, <2>2 DEF Output!Init, OutputInv, Output!TypeOK, Output!NoChangeLost
<1>4. OutputInv /\ [Output!Next]_(Output!vars) => OutputInv'
  <2> SUFFICES ASSUME OutputInv, [Output!Next]_(Output!vars) PROVE OutputInv'
    OBVIOUS
  <2> USE DEF OutputInv, Output!TypeOK, Output!NoChangeLost
  <2>1. ASSUME NEW c \in Output!Chars, Output!Sense(c) PROVE OutputInv'
    <3>1. /\ state' \in Output!RealStates /\ prevState' = state' /\ shown' = shown
          /\ wakesIntro' = wakesIntro
      BY <2>1 DEF Output!Sense
    <3>2. CASE Output!SameState(prevState, state')
      <4>1. changed' = changed /\ pcIntro' = pcIntro
        BY <2>1, <3>1, <3>2 DEF Output!Sense
      <4>2. prevState = state /\ Output!SameState(state, state')
        BY <3>1, <3>2, SameStateMeans
      <4>3. pcIntro # "start" /\ ~changed /\ shown # Output!Blank => Output!SameState(shown, state')
        BY <3>1, <4>2, SameStateMeans
      <4> QED
        BY <3>1, <4>1, <4>2, <4>3
    <3>3. CASE ~Output!SameState(prevState, state')
      <4>1. changed' = TRUE /\ pcIntro' \in {"start", "lock", "waiting"}
            /\ (pcIntro' = "start" <=> pcIntro = "start")
        BY <2>1, <3>1, <3>3 DEF Output!Sense
      <4>2. changed' \in BOOLEAN
        BY <4>1
      <4> QED
        BY <3>1, <4>1, <4>2
    <3> QED
      BY <3>2, <3>3
  <2>2. CASE Output!Start \/ Output!Output
    <3>1. /\ changed' = FALSE /\ UNCHANGED <<state, prevState, wakesIntro>>
          /\ pcIntro' = "lock"
          /\ shown' = Output!Blank \/ (shown' = state /\ prevState = state)
      BY <2>2 DEF Output!Start, Output!Output
    <3>2. changed' \in BOOLEAN
      BY <3>1
    <3>3. shown' = Output!Blank \/ Output!SameState(shown', prevState')
      BY <3>1, SameStateMeans
    <3> QED
      BY <3>1, <3>2, <3>3
  <2>3. CASE Output!Wait \/ Output!SpuriousWakeup
    BY <1>1, <2>3 DEF Output!Wait, Output!SpuriousWakeup
  <2>4. CASE UNCHANGED Output!vars
    BY <2>4 DEF Output!vars
  <2> QED
    BY <2>1, <2>2, <2>3, <2>4 DEF Output!Next, Output!OutputStep
<1> QED
  BY <1>3, <1>4, PTL DEF Output!Spec

(* intsimple.c.                                                            *)
KeysInv == Keys!TypeOK /\ Keys!NoSignalLost

LEMMA KeysHold == Keys!Spec => []KeysInv
<1> USE NumbersAssumption DEF Keys!Signals
<1>1. TRUE \in BOOLEAN /\ FALSE \in BOOLEAN
  OBVIOUS
<1>2. Keys!Init => KeysInv
  <2> SUFFICES ASSUME Keys!Init PROVE KeysInv
    OBVIOUS
  <2>1. /\ got \in [Keys!Signals -> BOOLEAN] /\ due \in [Keys!Signals -> BOOLEAN]
        /\ raw \in BOOLEAN
    BY <1>1 DEF Keys!Init
  <2>2. \A s \in Keys!Signals : ~due[s]
    BY DEF Keys!Init
  <2> QED
    BY <2>1, <2>2 DEF Keys!Init, KeysInv, Keys!TypeOK, Keys!NoSignalLost
<1>3. KeysInv /\ [Keys!Next]_(Keys!vars) => KeysInv'
  <2> SUFFICES ASSUME KeysInv, [Keys!Next]_(Keys!vars) PROVE KeysInv'
    OBVIOUS
  <2> USE DEF KeysInv, Keys!TypeOK, Keys!NoSignalLost
  <2>1. CASE Keys!EnableRawMode \/ Keys!Install \/ Keys!Key
    <3>1. raw' \in BOOLEAN
      BY <1>1, <2>1 DEF Keys!EnableRawMode, Keys!Install, Keys!Key
    <3> QED
      BY <2>1, <3>1 DEF Keys!EnableRawMode, Keys!Install, Keys!Key
  <2>2. CASE Keys!Test
    BY <2>2 DEF Keys!Test, Keys!ToNextFlag
  <2>3. CASE Keys!Reset
    <3>1. got' \in [Keys!Signals -> BOOLEAN]
      BY <1>1, <2>3 DEF Keys!Reset
    <3> QED
      BY <2>3, <3>1 DEF Keys!Reset
  <2>4. CASE Keys!Report
    <3>1. due' \in [Keys!Signals -> BOOLEAN]
      BY <1>1, <2>4 DEF Keys!Report
    <3> QED
      BY <2>4, <3>1 DEF Keys!Report, Keys!ToNextFlag
  <2>5. ASSUME NEW s \in Keys!Signals, Keys!Signal(s) PROVE KeysInv'
    <3>1. got' \in [Keys!Signals -> BOOLEAN] /\ due' \in [Keys!Signals -> BOOLEAN]
      BY <1>1, <2>5 DEF Keys!Signal
    <3> QED
      BY <2>5, <3>1 DEF Keys!Signal
  <2>6. ASSUME NEW s \in Keys!Signals, Keys!EarlySignal(s) PROVE KeysInv'
    BY <2>6 DEF Keys!EarlySignal, Keys!HasHandler
  <2>7. CASE UNCHANGED Keys!vars
    BY <2>7 DEF Keys!vars
  <2> QED
    BY <2>1, <2>2, <2>3, <2>4, <2>5, <2>6, <2>7 DEF Keys!Next, Keys!Step
<1> QED
  BY <1>2, <1>3, PTL DEF Keys!Spec

(* However sense, stateOutput and the signals are interleaved, and for any *)
(* number of signals with a handler: no flag loses what it stands for.     *)
THEOREM NoticesKept == Spec => []NoNoticeLost
BY LabRuns, OutputHolds, KeysHold, PTL DEF NoNoticeLost, OutputInv, KeysInv
-----------------------------------------------------------------------------
(* prodcons.c. The product that is handed over lies between its producer   *)
(* and its consumer while it is the consumer's turn.                       *)
HandInv ==
  /\ turn \in {0, 1}
  /\ product \in Hand!Products /\ consumed \in Hand!Products \cup {Hand!Nothing}
  /\ owner \in Hand!Threads \cup {Hand!Free}
  /\ pcHand \in [Hand!Threads -> {"lock", "test", "waiting", "woken", "signal", "unlock"}]
  /\ wakesHand \in 0 .. MaxSpuriousWakes

LEMMA HandHolds == Hand!Spec => []HandInv
<1>1. /\ MaxSpuriousWakes \in Nat /\ PRODUCT_MOD \in Nat \ {0}
      /\ \A n \in Nat : n % PRODUCT_MOD \in 0 .. PRODUCT_MOD - 1
  BY NumbersAssumption
<1> USE DEF Hand!Threads, Hand!Free, Hand!Products, Hand!Nothing
<1>2. Hand!Init => HandInv
  BY <1>1 DEF Hand!Init, HandInv
<1>3. HandInv /\ [Hand!Next]_(Hand!vars) => HandInv'
  <2> SUFFICES ASSUME HandInv, [Hand!Next]_(Hand!vars) PROVE HandInv'
    OBVIOUS
  <2>1. ASSUME NEW t \in Hand!Threads,
               \/ Hand!Lock(t) \/ Hand!Wait(t) \/ Hand!Signal(t) \/ Hand!Unlock(t)
               \/ Hand!SpuriousWakeup(t)
        PROVE  HandInv'
    BY <1>1, <2>1 DEF Hand!Lock, Hand!Wait, Hand!Signal, Hand!Unlock, Hand!SpuriousWakeup, HandInv
  <2>2. CASE Hand!Produce \/ Hand!Consume
    BY <1>1, <2>2 DEF Hand!Produce, Hand!Consume, HandInv
  <2>3. CASE UNCHANGED Hand!vars
    BY <2>3 DEF Hand!vars, HandInv
  <2> QED
    BY <2>1, <2>2, <2>3 DEF Hand!Next, Hand!Step
<1> QED
  BY <1>2, <1>3, PTL DEF Hand!Spec

LEMMA HandoverStep ==
  HandInv /\ [Hand!Next]_(Hand!vars) => [Hand!Handover!FifoNext]_(Hand!Handover!fifoVars)
<1> SUFFICES ASSUME HandInv, [Hand!Next]_(Hand!vars)
             PROVE  [Hand!Handover!FifoNext]_(Hand!Handover!fifoVars)
  OBVIOUS
<1> USE DEF HandInv, Hand!Handover!fifoVars
<1>1. CASE Hand!Produce
  BY <1>1 DEF Hand!Produce, Hand!Handover!FifoNext, Hand!Handover!Put
<1>2. CASE Hand!Consume
  BY <1>2 DEF Hand!Consume, Hand!Handover!FifoNext, Hand!Handover!Get
<1>3. ASSUME NEW t \in Hand!Threads,
             \/ Hand!Lock(t) \/ Hand!Wait(t) \/ Hand!Signal(t) \/ Hand!Unlock(t)
             \/ Hand!SpuriousWakeup(t)
      PROVE  UNCHANGED <<turn, product, consumed>>
  BY <1>3 DEF Hand!Lock, Hand!Wait, Hand!Signal, Hand!Unlock, Hand!SpuriousWakeup
<1>4. CASE UNCHANGED Hand!vars
  BY <1>4 DEF Hand!vars
<1> QED
  BY <1>1, <1>2, <1>3, <1>4 DEF Hand!Next, Hand!Step

(* Whatever wakes the two threads, and for every counter: each product is  *)
(* handed over once and in order.                                          *)
THEOREM ProductsHandedOver == Spec => HandoverImplemented
<1>1. Hand!Init => Hand!Handover!FifoInit
  <2>1. (0 + 1) % PRODUCT_MOD = 1
    BY NumbersAssumption
  <2> QED
    BY <2>1 DEF Hand!Init, Hand!Handover!FifoInit, Hand!Nothing
<1> QED
  BY <1>1, LabRuns, HandHolds, HandoverStep, PTL
  DEF Hand!Spec, HandoverImplemented, Hand!HandoverImplemented, Hand!Handover!FifoSpec
-----------------------------------------------------------------------------
(* scenario_2.c. Whoever waits for the mutex waits for an owner that is    *)
(* neither itself nor t1, which never takes it.                            *)
Owning(t) == holder = t => pcPrio[t] \in {"work", "asleep"}
Waiting(t, u) == pcPrio[t] = "blocked" => holder = u

PrioTypes ==
  /\ inherit \in BOOLEAN /\ protocol \in {"none", "plain", "inherit"}
  /\ pcPrio \in [Prio!Threads -> {"none", "lock", "work", "asleep", "blocked", "done"}]
  /\ left \in [Prio!Threads -> Nat]
  /\ main \in {"init", "join", "failed", "done"} \cup Prio!Threads

PrioInv ==
  /\ PrioTypes
  /\ holder \in {"server", "t2", Prio!Free}
  /\ pcPrio["t1"] \notin {"lock", "blocked"}
  /\ Owning("server") /\ Owning("t2")
  /\ Waiting("server", "t2") /\ Waiting("t2", "server")
  /\ protocol = "none" => \A t \in Prio!Threads : pcPrio[t] = "none"
  /\ main \notin {"init", "failed"} => protocol # "none"
  /\ protocol # "none" => protocol = IF inherit THEN "inherit" ELSE "plain"
  /\ main \in {"init", "server"} => pcPrio["server"] = "none"
  /\ main \in {"init", "server", "t2"} => pcPrio["t2"] = "none"
  /\ main \in {"init", "server", "t2", "t1"} => pcPrio["t1"] = "none"

LEMMA PrioHolds == Prio!Spec => []PrioInv
<1> USE DEF Prio!Threads, Prio!Free
<1>1. Prio!Init => PrioInv
  BY SleepsAssumption DEF Prio!Init, PrioInv, PrioTypes, Owning, Waiting
<1>2. PrioInv /\ [Prio!Next]_(Prio!vars) => PrioInv'
  <2> SUFFICES ASSUME PrioInv, [Prio!Next]_(Prio!vars) PROVE PrioInv'
    OBVIOUS
  <2> USE DEF PrioInv, PrioTypes, Owning, Waiting
  <2>1. CASE Prio!InitMutex
    BY <2>1 DEF Prio!InitMutex
  <2>2. CASE Prio!Create("server", "t2")
    BY <2>2 DEF Prio!Create
  <2>3. CASE Prio!Create("t2", "t1")
    BY <2>3 DEF Prio!Create
  <2>4. CASE Prio!Create("t1", "join") \/ Prio!Join
    BY <2>4 DEF Prio!Create, Prio!Join
  <2>5. ASSUME NEW t \in Prio!Threads, Prio!Lock(t) PROVE PrioInv'
    BY <2>5 DEF Prio!Lock, Prio!Runs, Prio!Ready
  <2>6. ASSUME NEW t \in Prio!Threads, Prio!Busy(t) \/ Prio!Wake(t) PROVE PrioInv'
    BY <2>6 DEF Prio!Busy, Prio!Wake
  <2>7. ASSUME NEW t \in Prio!Threads, Prio!Unlock(t) PROVE PrioInv'
    BY <2>7 DEF Prio!Unlock
  <2>8. ASSUME NEW t \in Prio!Threads, Prio!Finish(t) PROVE PrioInv'
    BY <2>8 DEF Prio!Finish
  <2>9. CASE UNCHANGED Prio!vars
    BY <2>9 DEF Prio!vars
  <2> QED
    BY <2>1, <2>2, <2>3, <2>4, <2>5, <2>6, <2>7, <2>8, <2>9 DEF Prio!Next, Prio!MainStep, Prio!Step
<1> QED
  BY <1>1, <1>2, PTL DEF Prio!Spec

(* For every number of pieces of work: with inheritance the owner of the   *)
(* mutex for which t2 waits has the priority of t2, so that t1 does not    *)
(* run before it.                                                          *)
THEOREM MiddleKeptOut == Spec => NoInversion
<1>1. ASSUME PrioInv, inherit, pcPrio["t2"] = "blocked", Prio!Ready(holder)
      PROVE  ~Prio!Step("t1")
  <2>1. holder = "server" /\ protocol = "inherit" /\ pcPrio["t1"] # "blocked"
    BY <1>1 DEF PrioInv, PrioTypes, Waiting, Prio!Threads
  <2>2. Prio!Effective("server") = 30
    BY <1>1, <2>1 DEF Prio!Effective, Prio!Threads
  <2>3. Prio!Effective("t1") = 20
    BY <2>1 DEF Prio!Effective, Prio!Threads, Prio!Priority
  <2>4. ~Prio!Runs("t1")
    BY <1>1, <2>1, <2>2, <2>3 DEF Prio!Runs, Prio!Threads
  <2> QED
    BY <2>4 DEF Prio!Step, Prio!Lock, Prio!Busy, Prio!Unlock, Prio!Finish
<1> QED
  BY <1>1, LabRuns, PrioHolds, PTL DEF NoInversion, Prio!NoInversion
-----------------------------------------------------------------------------
(* timeout_condvar.c, timeout_mq.c and timeout_poll.c. Only a message that *)
(* a killed run has left is there before the thread has made its event,    *)
(* and the first wait takes it.                                            *)
TimedInv ==
  /\ Timed!TypeOK /\ Timed!SuccessIsOfThisRun /\ Timed!TimeoutExplained
  /\ sender # "done" /\ (program # "mq" \/ pcTimed # "first") => ready = 0
  /\ pcTimed \in {"first", "create"} => sender = "none" /\ second = "none"
  /\ pcTimed \in {"test", "waiting", "woken"} => program = "condvar"
  /\ rc = "timeout" /\ pcTimed # "first" /\ program = "condvar" => late \/ first = "timeout"

LEMMA TimedHolds == Timed!Spec => []TimedInv
<1>1. MaxSpuriousWakes \in Nat /\ MaxKills \in Nat
  BY NumbersAssumption
<1> USE <1>1 DEF Timed!Outcomes, Timed!Programs
<1>2. Timed!Init => TimedInv
  BY DEF Timed!Init, TimedInv, Timed!TypeOK, Timed!SuccessIsOfThisRun, Timed!TimeoutExplained
<1>3. TimedInv /\ [Timed!Next]_(Timed!vars) => TimedInv'
  <2> SUFFICES ASSUME TimedInv, [Timed!Next]_(Timed!vars) PROVE TimedInv'
    OBVIOUS
  <2> USE DEF TimedInv, Timed!TypeOK, Timed!SuccessIsOfThisRun, Timed!TimeoutExplained
  <2>1. CASE Timed!FirstTimeout \/ Timed!FirstMessage \/ Timed!FirstSpurious
    <3>1. /\ pcTimed = "first" /\ sender = "none" /\ pcTimed' = "create" /\ rc' = first'
          /\ UNCHANGED <<program, late, sender, second, kills>>
          /\ first' \in {"timeout", "success"}
      BY <2>1 DEF Timed!FirstTimeout, Timed!FirstMessage, Timed!FirstSpurious, Timed!Reported
    <3>2. ready' = 0
      BY <2>1, <3>1 DEF Timed!FirstTimeout, Timed!FirstMessage, Timed!FirstSpurious
    <3>3. wakesTimed' \in 0 .. MaxSpuriousWakes
      BY <2>1 DEF Timed!FirstTimeout, Timed!FirstMessage, Timed!FirstSpurious
    <3> QED
      BY <3>1, <3>2, <3>3
  <2>2. CASE Timed!FirstFails \/ Timed!Create \/ Timed!CreateFails \/ Timed!Send
    BY <2>2 DEF Timed!FirstFails, Timed!Create, Timed!CreateFails, Timed!Send
  <2>3. CASE Timed!SecondSuccess
    <3>1. /\ pcTimed = "second" /\ program # "condvar" /\ ready > 0
          /\ ready' = ready - 1 /\ second' = "success" /\ rc' = "success" /\ pcTimed' = "join"
          /\ UNCHANGED <<program, late, sender, first, wakesTimed, kills>>
      BY <2>3 DEF Timed!SecondSuccess
    <3>2. sender = "done" /\ ready = 1 /\ ready' = 0
      BY <3>1
    <3> QED
      BY <3>1, <3>2
  <2>4. CASE Timed!SecondTimeout
    BY <2>4 DEF Timed!SecondTimeout
  <2>5. CASE Timed!Lock
    BY <2>5 DEF Timed!Lock
  <2>6. CASE Timed!Test
    BY <2>6 DEF Timed!Test
  <2>7. CASE Timed!Woken \/ Timed!TimedOut \/ Timed!SpuriousWakeup
    BY <2>7 DEF Timed!Woken, Timed!TimedOut, Timed!SpuriousWakeup
  <2>8. CASE Timed!Join \/ Timed!Killed
    BY <2>8 DEF Timed!Join, Timed!Killed
  <2>9. CASE UNCHANGED Timed!vars
    BY <2>9 DEF Timed!vars
  <2> QED
    BY <2>1, <2>2, <2>3, <2>4, <2>5, <2>6, <2>7, <2>8, <2>9 DEF Timed!Next, Timed!MainStep
<1> QED
  BY <1>2, <1>3, PTL DEF Timed!Spec

(* calctime2.c and sched_fifo_jitter.c. The next wakeup is a whole number  *)
(* of periods after the start, one more than there are samples.            *)
SamplingInv ==
  /\ Samples!TypeOK
  /\ Len(deltas_ns) = Len(woke)
  /\ pcSampling # "start" => next_ns = start + (Len(woke) + 1) * PERIOD
  /\ pcSampling = "start" => woke = << >>
  /\ pcSampling = "sample" => clock >= next_ns
  /\ \A n \in 1 .. Len(woke) :
       /\ woke[n] >= start + n * PERIOD
       /\ deltas_ns[n] = woke[n] - (start + n * PERIOD) + lead

(* A time is the same in nanoseconds and in seconds and nanoseconds, and   *)
(* the order of the times is the same.                                     *)
LEMMA Timespec ==
  /\ \A ns \in Nat : Samples!timespec_to_ns(Samples!ns_to_timespec(ns)) = ns
  /\ clock \in Nat =>
       \A ns \in Nat : Samples!Reached(Samples!ns_to_timespec(ns)) <=> clock >= ns
<1>1. BILLION \in Nat \ {0}
  BY NumbersAssumption
<1>2. ASSUME NEW ns \in Nat
      PROVE  /\ ns \div BILLION \in Nat /\ ns % BILLION \in 0 .. BILLION - 1
             /\ ns = (ns \div BILLION) * BILLION + (ns % BILLION)
  BY <1>1
<1>3. ASSUME NEW ns \in Nat
      PROVE  Samples!timespec_to_ns(Samples!ns_to_timespec(ns)) = ns
  BY <1>2 DEF Samples!timespec_to_ns, Samples!ns_to_timespec
<1>4. ASSUME NEW q \in Nat, NEW r \in 0 .. BILLION - 1, NEW s \in Nat, NEW t \in 0 .. BILLION - 1
      PROVE  (q > s \/ (q = s /\ r >= t)) <=> q * BILLION + r >= s * BILLION + t
  <2>1. ASSUME NEW x \in Nat, NEW y \in Nat, x > y PROVE x * BILLION >= y * BILLION + BILLION
    <3>1. PICK d \in Nat : x = y + 1 + d
      <4>1. x - y - 1 \in Nat /\ x = y + 1 + (x - y - 1)
        BY <2>1
      <4> QED
        BY <4>1
    <3>2. x * BILLION = y * BILLION + BILLION + d * BILLION /\ d * BILLION \in Nat
      BY <1>1, <3>1
    <3>3. y * BILLION \in Nat
      BY <1>1
    <3> QED
      BY <1>1, <3>2, <3>3
  <2>2. q * BILLION \in Nat /\ s * BILLION \in Nat
    BY <1>1
  <2>3. CASE q > s
    BY <1>1, <2>1, <2>2, <2>3
  <2>4. CASE q = s
    BY <1>1, <2>2, <2>4
  <2>5. CASE q < s
    BY <1>1, <2>1, <2>2, <2>5
  <2> QED
    BY <2>3, <2>4, <2>5
<1>5. ASSUME clock \in Nat, NEW ns \in Nat
      PROVE  Samples!Reached(Samples!ns_to_timespec(ns)) <=> clock >= ns
  <2>1. Samples!Reached(Samples!ns_to_timespec(ns)) <=>
          \/ clock \div BILLION > ns \div BILLION
          \/ clock \div BILLION = ns \div BILLION /\ clock % BILLION >= ns % BILLION
    BY Zenon DEF Samples!Reached, Samples!clock_gettime, Samples!ns_to_timespec
  <2> DEFINE q == clock \div BILLION
             r == clock % BILLION
             s == ns \div BILLION
             t == ns % BILLION
  <2>2. /\ q \in Nat /\ r \in 0 .. BILLION - 1 /\ clock = q * BILLION + r
        /\ s \in Nat /\ t \in 0 .. BILLION - 1 /\ ns = s * BILLION + t
    BY <1>2, <1>5
  <2> HIDE DEF q, r, s, t
  <2>3. (q > s \/ (q = s /\ r >= t)) <=> clock >= ns
    BY <1>4, <2>2
  <2> QED
    BY <2>1, <2>3 DEF q, r, s, t
<1> QED
  BY <1>3, <1>5
LEMMA SamplesHold == Samples!Spec => []SamplingInv
<1>1. PERIOD \in Nat /\ BILLION \in Nat \ {0} /\ MaxDelay \in Nat
  BY NumbersAssumption
<1>2. \A n \in Nat : n * PERIOD \in Nat /\ (n + 1) * PERIOD = n * PERIOD + PERIOD
  BY <1>1
<1>3. Samples!Init => SamplingInv
  <2> SUFFICES ASSUME Samples!Init PROVE SamplingInv
    OBVIOUS
  <2>1. Len(woke) = 0 /\ Len(deltas_ns) = 0 /\ woke = << >> /\ deltas_ns = << >>
    BY DEF Samples!Init
  <2>2. Samples!TypeOK
    BY <1>1 DEF Samples!Init, Samples!TypeOK
  <2> QED
    BY <2>1, <2>2 DEF Samples!Init, SamplingInv
<1>4. SamplingInv /\ [Samples!Next]_(Samples!vars) => SamplingInv'
  <2> SUFFICES ASSUME SamplingInv, [Samples!Next]_(Samples!vars) PROVE SamplingInv'
    OBVIOUS
  <2> USE DEF SamplingInv, Samples!TypeOK
  <2>1. /\ clock \in Nat /\ next_ns \in Nat /\ start \in Nat /\ lead \in Nat
        /\ Len(woke) \in Nat /\ Len(deltas_ns) \in Nat
    BY <1>1
  <2>2. Samples!timespec_to_ns(Samples!clock_gettime) = clock
    BY <2>1, Timespec DEF Samples!clock_gettime
  <2>3. CASE Samples!Start
    <3>1. /\ pcSampling = "start" /\ woke = << >> /\ start' = clock
          /\ next_ns' = clock + PERIOD /\ pcSampling' = "sleep"
          /\ UNCHANGED <<clock, lead, deltas_ns, woke, delay>>
      BY <2>2, <2>3 DEF Samples!Start
    <3>2. Len(woke) = 0 /\ (0 + 1) * PERIOD = PERIOD
      BY <1>1, <3>1
    <3> QED
      BY <1>1, <2>1, <3>1, <3>2
  <2>4. CASE Samples!Wake
    <3>1. clock >= next_ns
      BY <2>1, <2>4, Timespec DEF Samples!Wake
    <3> QED
      BY <2>4, <3>1 DEF Samples!Wake
  <2>5. CASE Samples!Sample
    <3>1. /\ pcSampling = "sample" /\ clock >= next_ns
          /\ deltas_ns' = Append(deltas_ns, clock - next_ns + lead)
          /\ woke' = Append(woke, clock) /\ next_ns' = next_ns + PERIOD
          /\ pcSampling' \in {"done", "sleep"}
          /\ UNCHANGED <<clock, lead, start, delay>>
      BY <2>2, <2>5 DEF Samples!Sample
    <3>2. clock - next_ns + lead \in Nat
      BY <2>1, <3>1
    <3>3. /\ woke' \in Seq(Nat) /\ deltas_ns' \in Seq(Nat)
          /\ Len(woke') = Len(woke) + 1 /\ Len(deltas_ns') = Len(woke')
      BY <2>1, <3>1, <3>2
    <3>4. next_ns' = start + (Len(woke') + 1) * PERIOD
      <4>1. (Len(woke) + 1 + 1) * PERIOD = (Len(woke) + 1) * PERIOD + PERIOD
        BY <1>2, <2>1
      <4>2. (Len(woke) + 1) * PERIOD \in Nat
        BY <1>2, <2>1
      <4>3. next_ns = start + (Len(woke) + 1) * PERIOD
        BY <3>1
      <4> QED
        BY <1>1, <2>1, <3>1, <3>3, <4>1, <4>2, <4>3
    <3>5. ASSUME NEW n \in 1 .. Len(woke)
          PROVE  woke'[n] = woke[n] /\ deltas_ns'[n] = deltas_ns[n]
      BY <2>1, <3>1
    <3>6. woke'[Len(woke')] = clock /\ deltas_ns'[Len(woke')] = clock - next_ns + lead
      BY <2>1, <3>1, <3>3
    <3>7. ASSUME NEW n \in 1 .. Len(woke')
          PROVE  /\ woke'[n] >= start + n * PERIOD
                 /\ deltas_ns'[n] = woke'[n] - (start + n * PERIOD) + lead
      <4>1. CASE n \in 1 .. Len(woke)
        BY <3>5, <4>1
      <4>2. CASE n = Len(woke')
        <5>1. next_ns = start + n * PERIOD
          BY <3>1, <3>3, <4>2
        <5> QED
          BY <3>1, <3>6, <4>2, <5>1
      <4> QED
        BY <2>1, <3>3, <4>1, <4>2
    <3> QED
      BY <1>1, <2>1, <3>1, <3>3, <3>4, <3>7
  <2>6. CASE Samples!Tick
    <3>1. /\ clock' = clock + 1 /\ delay' \in 0 .. MaxDelay
          /\ UNCHANGED <<lead, next_ns, deltas_ns, start, woke, pcSampling>>
      BY <1>1, <2>6 DEF Samples!Tick
    <3> QED
      BY <2>1, <3>1
  <2>7. CASE UNCHANGED Samples!vars
    BY <2>7 DEF Samples!vars
  <2> QED
    BY <2>3, <2>4, <2>5, <2>6, <2>7 DEF Samples!Next, Samples!Step
<1> QED
  BY <1>3, <1>4, PTL DEF Samples!Spec

(* For every period, however often the process loses the processor and     *)
(* however many runs are killed: what the second waits report is true, and *)
(* the n-th sample is the delay after n whole periods.                     *)
THEOREM ReportsAreTrue == Spec => []ReportsTrue
<1>1. TimedInv => Timed!SuccessIsOfThisRun /\ Timed!TimeoutExplained
  BY DEF TimedInv
<1>2. SamplingInv => Samples!NoDrift
  <2>1. SamplingInv => DOMAIN woke = 1 .. Len(woke)
    BY DEF SamplingInv, Samples!TypeOK
  <2> QED
    BY <2>1 DEF SamplingInv, Samples!NoDrift
<1> QED
  BY <1>1, <1>2, LabRuns, TimedHolds, SamplesHold, PTL DEF ReportsTrue

-----------------------------------------------------------------------------
(* epoll_server.c. Units lie one after the other on their way from the     *)
(* client, in the server and on their way back: s holds units after a up   *)
(* to b, in their order.                                                   *)
Between(s, a, b) ==
  /\ s \in Seq(Nat)
  /\ \A n \in 1 .. Len(s) : a < s[n] /\ s[n] <= b
  /\ \A m, n \in 1 .. Len(s) : m < n => s[m] < s[n]

LEMMA BetweenEmpty == \A a, b \in Nat : Between(<< >>, a, b)
BY DEF Between

LEMMA BetweenWeaker ==
  ASSUME NEW s, NEW a \in Nat, NEW b \in Nat, NEW c \in Nat, NEW d \in Nat,
         Between(s, a, b), c <= a, b <= d
  PROVE  Between(s, c, d)
BY DEF Between

LEMMA BetweenEmptyRange ==
  ASSUME NEW s, NEW a \in Nat, NEW b \in Nat, Between(s, a, b), b <= a
  PROVE  s = << >>
<1>1. s \in Seq(Nat) /\ Len(s) \in Nat
  BY DEF Between
<1>2. Len(s) = 0
  <2> SUFFICES ASSUME Len(s) # 0 PROVE FALSE
    OBVIOUS
  <2>1. 1 \in 1 .. Len(s) /\ s[1] \in Nat
    BY <1>1
  <2> QED
    BY <2>1 DEF Between
<1> QED
  BY <1>1, <1>2

LEMMA BetweenTail ==
  ASSUME NEW s, NEW a \in Nat, NEW b \in Nat, Between(s, a, b), s # << >>
  PROVE  Head(s) \in Nat /\ a < Head(s) /\ Head(s) <= b /\ Between(Tail(s), Head(s), b)
<1>1. /\ s \in Seq(Nat) /\ Len(s) \in Nat \ {0} /\ Head(s) = s[1] /\ Head(s) \in Nat
      /\ Tail(s) \in Seq(Nat) /\ Len(Tail(s)) = Len(s) - 1
      /\ \A n \in 1 .. Len(s) - 1 : Tail(s)[n] = s[n + 1]
  BY DEF Between
<1> QED
  BY <1>1 DEF Between

LEMMA BetweenConcat ==
  ASSUME NEW s, NEW t, NEW a \in Nat, NEW b \in Nat, NEW c \in Nat,
         Between(s, a, b), Between(t, b, c), a <= b, b <= c
  PROVE  Between(s \o t, a, c)
<1>1. /\ s \in Seq(Nat) /\ t \in Seq(Nat) /\ Len(s) \in Nat /\ Len(t) \in Nat
      /\ s \o t \in Seq(Nat) /\ Len(s \o t) = Len(s) + Len(t)
  BY DEF Between
<1>2. /\ \A n \in 1 .. Len(s) : (s \o t)[n] = s[n] /\ s[n] \in Nat
      /\ \A n \in Len(s) + 1 .. Len(s) + Len(t) :
           (s \o t)[n] = t[n - Len(s)] /\ n - Len(s) \in 1 .. Len(t) /\ t[n - Len(s)] \in Nat
  <2>1. \A n \in 1 .. Len(s) : (s \o t)[n] = s[n] /\ s[n] \in Nat
    BY <1>1
  <2>2. ASSUME NEW n \in Len(s) + 1 .. Len(s) + Len(t)
        PROVE  /\ (s \o t)[n] = t[n - Len(s)]
               /\ n - Len(s) \in 1 .. Len(t) /\ t[n - Len(s)] \in Nat
    <3>1. n - Len(s) \in 1 .. Len(t)
      BY <1>1
    <3>2. (s \o t)[n] = t[n - Len(s)]
      BY <1>1, <3>1
    <3> QED
      BY <1>1, <3>1, <3>2
  <2> QED
    BY <2>1, <2>2
<1>3. ASSUME NEW n \in 1 .. Len(s \o t) PROVE a < (s \o t)[n] /\ (s \o t)[n] <= c
  <2>1. CASE n <= Len(s)
    <3>1. n \in 1 .. Len(s) /\ a < s[n] /\ s[n] <= b
      BY <1>1, <2>1 DEF Between
    <3> QED
      BY <1>2, <3>1
  <2>2. CASE n > Len(s)
    <3>1. n \in Len(s) + 1 .. Len(s) + Len(t)
      BY <1>1, <2>2
    <3>2. n - Len(s) \in 1 .. Len(t) /\ b < t[n - Len(s)] /\ t[n - Len(s)] <= c
      BY <1>2, <3>1 DEF Between
    <3> QED
      BY <1>2, <3>1, <3>2
  <2> QED
    BY <1>1, <2>1, <2>2
<1>4. ASSUME NEW m \in 1 .. Len(s \o t), NEW n \in 1 .. Len(s \o t), m < n
      PROVE  (s \o t)[m] < (s \o t)[n]
  <2>1. CASE n <= Len(s)
    <3>1. m \in 1 .. Len(s) /\ n \in 1 .. Len(s) /\ s[m] < s[n]
      BY <1>1, <1>4, <2>1 DEF Between
    <3> QED
      BY <1>2, <3>1
  <2>2. CASE m <= Len(s) /\ n > Len(s)
    <3>1. m \in 1 .. Len(s) /\ n \in Len(s) + 1 .. Len(s) + Len(t)
      BY <1>1, <2>2
    <3>2. (s \o t)[m] = s[m] /\ s[m] \in Nat /\ s[m] <= b
      BY <1>2, <3>1 DEF Between
    <3>3. (s \o t)[n] = t[n - Len(s)] /\ t[n - Len(s)] \in Nat /\ b < t[n - Len(s)]
      BY <1>2, <3>1 DEF Between
    <3> QED
      BY <3>2, <3>3
  <2>3. CASE m > Len(s)
    <3>1. /\ m - Len(s) < n - Len(s)
          /\ m \in Len(s) + 1 .. Len(s) + Len(t) /\ n \in Len(s) + 1 .. Len(s) + Len(t)
      BY <1>1, <1>4, <2>3
    <3>2. t[m - Len(s)] < t[n - Len(s)]
      <4>1. m - Len(s) \in 1 .. Len(t) /\ n - Len(s) \in 1 .. Len(t)
        BY <1>2, <3>1
      <4> QED
        BY <3>1, <4>1 DEF Between
    <3>3. (s \o t)[m] = t[m - Len(s)] /\ (s \o t)[n] = t[n - Len(s)]
      BY <1>2, <3>1
    <3> QED
      BY <3>2, <3>3
  <2>4. n <= Len(s) \/ (m <= Len(s) /\ n > Len(s)) \/ m > Len(s)
    BY <1>1, <1>4
  <2> QED
    BY <2>1, <2>2, <2>3, <2>4, Zenon
<1> QED
  BY <1>1, <1>3, <1>4 DEF Between

(* A sequence is cut after n units: the last of them is where.             *)
LEMMA BetweenCut ==
  ASSUME NEW s, NEW a \in Nat, NEW b \in Nat, Between(s, a, b), a <= b,
         NEW n \in 0 .. Len(s)
  PROVE  \E c \in a .. b :
           Between(SubSeq(s, 1, n), a, c) /\ Between(SubSeq(s, n + 1, Len(s)), c, b)
<1>1. s \in Seq(Nat) /\ Len(s) \in Nat /\ \A m \in 1 .. Len(s) : s[m] \in Nat
  BY DEF Between
<1> DEFINE front == SubSeq(s, 1, n)
           rest == SubSeq(s, n + 1, Len(s))
<1>2. /\ front \in Seq(Nat) /\ Len(front) = n
      /\ \A m \in 1 .. n : front[m] = s[m]
  BY <1>1
<1>3. /\ rest \in Seq(Nat) /\ Len(rest) = Len(s) - n
      /\ \A m \in 1 .. Len(s) - n : rest[m] = s[m + n]
  BY <1>1
<1> HIDE DEF front, rest
<1> DEFINE c == IF n = 0 THEN a ELSE s[n]
<1>4. /\ \A m \in 1 .. Len(s) : a < s[m] /\ s[m] <= b
      /\ \A l, m \in 1 .. Len(s) : l < m => s[l] < s[m]
  BY DEF Between
<1>5. c \in a .. b /\ \A m \in 1 .. n : s[m] <= c
  BY <1>1, <1>4
<1>6. \A m \in n + 1 .. Len(s) : c < s[m]
  BY <1>1, <1>4
<1> HIDE DEF c
<1>7. Between(front, a, c)
  <2>1. \A m \in 1 .. n : m \in 1 .. Len(s) /\ front[m] = s[m]
    BY <1>1, <1>2
  <2>2. \A m \in 1 .. n : a < front[m] /\ front[m] <= c
    BY <1>4, <1>5, <2>1
  <2>3. \A l, m \in 1 .. n : l < m => front[l] < front[m]
    BY <1>4, <2>1
  <2> QED
    BY <1>2, <2>2, <2>3 DEF Between
<1>8. Between(rest, c, b)
  <2>1. \A m \in 1 .. Len(s) - n : m + n \in n + 1 .. Len(s) /\ m + n \in 1 .. Len(s)
    BY <1>1
  <2>2. \A m \in 1 .. Len(s) - n : c < rest[m] /\ rest[m] <= b
    BY <1>3, <1>4, <1>6, <2>1
  <2>3. \A l, m \in 1 .. Len(s) - n : l < m => rest[l] < rest[m]
    <3> SUFFICES ASSUME NEW l \in 1 .. Len(s) - n, NEW m \in 1 .. Len(s) - n, l < m
                 PROVE  rest[l] < rest[m]
      OBVIOUS
    <3>1. l + n < m + n
      BY <1>1
    <3> QED
      BY <1>3, <1>4, <2>1, <3>1
  <2> QED
    BY <1>3, <2>2, <2>3 DEF Between
<1> QED
  BY <1>5, <1>7, <1>8 DEF front, rest

LEMMA BetweenNew ==
  ASSUME NEW a \in Nat, NEW n \in Nat
  PROVE  Between([j \in 1 .. n |-> a + j], a, a + n) /\ Len([j \in 1 .. n |-> a + j]) = n
<1> DEFINE s == [j \in 1 .. n |-> a + j]
<1>1. s \in Seq(Nat) /\ Len(s) = n
  OBVIOUS
<1>2. \A m \in 1 .. n : s[m] = a + m
  OBVIOUS
<1> HIDE DEF s
<1>3. Between(s, a, a + n)
  BY <1>1, <1>2 DEF Between
<1> QED
  BY <1>1, <1>3 DEF s

(* What is on the way back, in the server and on the way to it.            *)
Pipe(k) ==
  \E a, b \in Nat :
    /\ echoed[k] <= a /\ a <= b /\ b <= sent[k]
    /\ Between(outbox[k], echoed[k], a)
    /\ reading = k => Between(chunk, a, b)
    /\ Between(inbox[k], b, sent[k])

EpollTypes ==
  /\ Epoll!TypeOK /\ counter <= notes
  /\ inbox \in [Connections -> Seq(Nat)] /\ outbox \in [Connections -> Seq(Nat)]
  /\ chunk \in Seq(Nat)

(* A patient client has its answer when it leaves, and what it sends fits  *)
(* in the buffer, so that one read for one event is enough.                *)
Patience ==
  \A k \in patient :
    /\ Len(inbox[k]) <= BUFFER
    /\ running /\ user[k] = "gone" => echoed[k] = sent[k]

EpollInv ==
  /\ EpollTypes /\ Patience /\ Epoll!NothingStranded
  /\ \A k \in Connections : Pipe(k)
  /\ Epoll!Listen \in batch => backlog # << >>
  /\ ~running =>
       /\ conn = [k \in Connections |-> "closed"] /\ backlog = << >>
       /\ edge = {} /\ batch = {} /\ reading = Epoll!Nobody

LEMMA EpollHolds == Epoll!Spec => []EpollInv
<1>1. /\ "listen" \notin Connections /\ "event" \notin Connections
      /\ "nobody" \notin Connections
  BY EpollAssumption
<1>2. BUFFER \in Nat \ {0} /\ SOCKET \in Nat /\ MaxUnits \in Nat /\ MaxNotes \in Nat
  BY EpollAssumption
<1> USE <1>2 DEF Epoll!Listen, Epoll!Event, Epoll!Nobody
<1>3. Epoll!Init => EpollInv
  <2> SUFFICES ASSUME Epoll!Init PROVE EpollInv
    OBVIOUS
  <2> USE DEF Epoll!Init
  <2>1. /\ \A k \in Connections : inbox[k] = << >> /\ outbox[k] = << >> /\ user[k] = "new"
        /\ \A k \in Connections : sent[k] = 0 /\ echoed[k] = 0 /\ conn[k] = "none"
        /\ << >> \in Seq(Nat) /\ Len(<< >>) = 0
    OBVIOUS
  <2>2. \A k \in Connections : Pipe(k)
    <3>1. Between(<< >>, 0, 0)
      BY BetweenEmpty
    <3>2. ASSUME NEW k \in Connections PROVE Pipe(k)
      <4>1. /\ inbox[k] = << >> /\ outbox[k] = << >> /\ sent[k] = 0 /\ echoed[k] = 0
            /\ reading # k
        BY <1>1, <2>1
      <4> HIDE DEF Epoll!Init
      <4> QED
        BY <3>1, <4>1 DEF Pipe
    <3> QED
      BY <3>2
  <2>3. EpollTypes
    BY <2>1 DEF EpollTypes, Epoll!TypeOK
  <2>4. Patience /\ Epoll!NothingStranded
    BY <2>1 DEF Patience, Epoll!NothingStranded
  <2> QED
    BY <2>2, <2>3, <2>4 DEF EpollInv
<1>4. EpollInv /\ [Epoll!Next]_(Epoll!vars) => EpollInv'
  <2> SUFFICES ASSUME EpollInv, [Epoll!Next]_(Epoll!vars) PROVE EpollInv'
    OBVIOUS
  <2>1. EpollTypes /\ Epoll!TypeOK /\ Patience /\ Epoll!NothingStranded
    BY DEF EpollInv, EpollTypes
  <2>2. \A k \in Connections : Pipe(k)
    BY DEF EpollInv
  <2>3. /\ running \in BOOLEAN /\ patient \subseteq Connections /\ backlog \in Seq(Connections)
        /\ edge \subseteq Connections /\ edge \subseteq {k \in Connections : conn[k] = "open"}
        /\ batch \subseteq Connections \cup {"listen", "event"}
        /\ reading \in Connections \cup {"nobody"}
    BY <2>1 DEF Epoll!TypeOK
  <2>4. \A k \in Connections :
          /\ inbox[k] \in Seq(Nat) /\ outbox[k] \in Seq(Nat)
          /\ Len(inbox[k]) \in Nat /\ Len(outbox[k]) \in Nat
          /\ sent[k] \in Nat /\ echoed[k] \in Nat
    BY <2>1 DEF EpollTypes, Epoll!TypeOK
  <2>5. ASSUME NEW k \in Connections, Epoll!Connect(k) PROVE EpollInv'
    <3>1. /\ running /\ user[k] = "new" /\ user' = [user EXCEPT ![k] = "connected"]
          /\ backlog' = Append(backlog, k)
          /\ UNCHANGED <<running, patient, conn, edge, batch, reading, chunk, inbox, outbox,
                         sent, echoed, counter, notes>>
      BY <2>5 DEF Epoll!Connect, Epoll!epoll
    <3>2. backlog' \in Seq(Connections) /\ backlog' # << >>
      BY <2>3, <3>1
    <3>3. EpollTypes'
      BY <2>1, <3>1, <3>2 DEF EpollTypes, Epoll!TypeOK
    <3>4. \A j \in Connections : Pipe(j)'
      BY <2>2, <3>1 DEF Pipe
    <3>5. \A j \in Connections : user'[j] = "gone" <=> user[j] = "gone"
      BY <2>1, <3>1 DEF Epoll!TypeOK
    <3>6. Patience' /\ Epoll!NothingStranded'
      BY <2>1, <2>3, <3>1, <3>5 DEF Patience, Epoll!NothingStranded
    <3> QED
      BY <3>1, <3>2, <3>3, <3>4, <3>6 DEF EpollInv
  <2>6. ASSUME NEW k \in Connections, NEW n \in 1 .. MaxUnits, Epoll!Send(k, n)
        PROVE  EpollInv'
    <3> DEFINE new == [j \in 1 .. n |-> sent[k] + j]
    <3>1. /\ running /\ user[k] = "connected"
          /\ sent[k] + n <= MaxUnits /\ Len(inbox[k]) + n <= SOCKET
          /\ k \in patient => n <= BUFFER /\ echoed[k] = sent[k]
          /\ inbox' = [inbox EXCEPT ![k] = @ \o new]
          /\ sent' = [sent EXCEPT ![k] = @ + n]
          /\ edge' = IF conn[k] = "open" THEN edge \cup {k} ELSE edge
          /\ UNCHANGED <<running, patient, user, backlog, conn, batch, reading, chunk, outbox,
                         echoed, counter, notes>>
      BY <2>6 DEF Epoll!Send, Epoll!Announce
    <3>2. Between(new, sent[k], sent[k] + n) /\ Len(new) = n
      <4>1. sent[k] \in Nat /\ n \in Nat
        BY <2>4
      <4> QED
        BY <4>1, BetweenNew, Zenon
    <3> HIDE DEF new
    <3>3. /\ \A j \in Connections \ {k} : inbox'[j] = inbox[j] /\ sent'[j] = sent[j]
          /\ inbox'[k] = inbox[k] \o new /\ sent'[k] = sent[k] + n
      BY <2>1, <3>1 DEF EpollTypes, Epoll!TypeOK
    <3>4. inbox'[k] \in Seq(Nat) /\ Len(inbox'[k]) = Len(inbox[k]) + n
      BY <2>4, <3>2, <3>3 DEF Between
    <3>5. EpollTypes'
      <4>1. inbox' \in [Connections -> Seq(Nat)] /\ sent' \in [Connections -> 0 .. MaxUnits]
        <5>1. \A j \in Connections : inbox'[j] \in Seq(Nat) /\ sent'[j] \in 0 .. MaxUnits
          <6>1. \A j \in Connections : inbox'[j] \in Seq(Nat)
            BY <2>4, <3>3, <3>4
          <6>2. \A j \in Connections : sent[j] \in 0 .. MaxUnits
            BY <2>1 DEF Epoll!TypeOK
          <6>3. \A j \in Connections : sent'[j] \in 0 .. MaxUnits
            BY <2>4, <3>1, <3>3, <6>2
          <6> QED
            BY <6>1, <6>3
        <5>2. /\ inbox' = [j \in Connections |-> inbox'[j]]
              /\ sent' = [j \in Connections |-> sent'[j]]
          BY <2>1, <3>1 DEF EpollTypes, Epoll!TypeOK
        <5> QED
          BY <5>1, <5>2
      <4>2. \A j \in Connections : Len(inbox'[j]) <= SOCKET
        <5>1. Len(inbox'[k]) <= SOCKET
          BY <3>1, <3>4
        <5>2. \A j \in Connections \ {k} : Len(inbox'[j]) <= SOCKET
          BY <2>1, <3>3 DEF Epoll!TypeOK
        <5> QED
          BY <5>1, <5>2
      <4> QED
        BY <2>1, <3>1, <4>1, <4>2 DEF EpollTypes, Epoll!TypeOK
    <3>6. ASSUME NEW j \in Connections PROVE Pipe(j)'
      <4>1. PICK a \in Nat, b \in Nat :
              /\ echoed[j] <= a /\ a <= b /\ b <= sent[j]
              /\ Between(outbox[j], echoed[j], a)
              /\ reading = j => Between(chunk, a, b)
              /\ Between(inbox[j], b, sent[j])
        BY <2>2 DEF Pipe
      <4>2. sent'[j] \in Nat /\ sent[j] <= sent'[j]
        BY <2>4, <3>3
      <4>3. Between(inbox'[j], b, sent'[j])
        <5>1. CASE j = k
          <6>1. Between(inbox[k], b, sent[k]) /\ b <= sent[k] /\ sent[k] <= sent[k] + n
            BY <2>4, <4>1, <5>1
          <6>2. Between(inbox[k] \o new, b, sent[k] + n)
            BY <2>4, <3>2, <6>1, BetweenConcat
          <6> QED
            BY <3>3, <5>1, <6>2
        <5>2. CASE j # k
          BY <3>3, <4>1, <5>2
        <5> QED
          BY <5>1, <5>2
      <4> QED
        <5>1. /\ echoed'[j] = echoed[j] /\ outbox'[j] = outbox[j] /\ chunk' = chunk
              /\ reading' = reading /\ b <= sent'[j]
          BY <2>4, <3>1, <4>1, <4>2
        <5> QED
          BY <4>1, <4>3, <5>1 DEF Pipe
    <3>7. k \in patient => inbox[k] = << >>
      <4>1. PICK b \in Nat : echoed[k] <= b /\ Between(inbox[k], b, sent[k])
        BY <2>2, <2>4 DEF Pipe
      <4> QED
        BY <2>4, <3>1, <4>1, BetweenEmptyRange
    <3>8. Patience'
      <4>1. k \in patient => Len(inbox'[k]) <= BUFFER
        <5>1. k \in patient => Len(inbox[k]) = 0
          BY <3>7
        <5> QED
          BY <2>4, <3>1, <3>4, <5>1
      <4>2. \A j \in patient \ {k} : inbox'[j] = inbox[j] /\ sent'[j] = sent[j]
        BY <2>3, <3>3
      <4> QED
        BY <2>1, <2>3, <3>1, <4>1, <4>2 DEF Patience
    <3>9. Epoll!NothingStranded'
      BY <2>1, <2>3, <3>1, <3>3 DEF Epoll!NothingStranded
    <3> QED
      BY <3>1, <3>5, <3>6, <3>8, <3>9 DEF EpollInv
  <2>7. ASSUME NEW k \in Connections, Epoll!Receive(k) PROVE EpollInv'
    <3>1. /\ user[k] = "connected" /\ outbox[k] # << >>
          /\ echoed' = [echoed EXCEPT ![k] = Head(outbox[k])]
          /\ outbox' = [outbox EXCEPT ![k] = Tail(outbox[k])]
          /\ UNCHANGED <<running, patient, user, backlog, conn, edge, batch, reading, chunk,
                         inbox, sent, counter, notes>>
      BY <2>7 DEF Epoll!Receive, Epoll!epoll
    <3>2. /\ \A j \in Connections \ {k} : outbox'[j] = outbox[j] /\ echoed'[j] = echoed[j]
          /\ outbox'[k] = Tail(outbox[k]) /\ echoed'[k] = Head(outbox[k])
      BY <2>1, <3>1 DEF EpollTypes, Epoll!TypeOK
    <3>3. PICK a \in Nat, b \in Nat :
            /\ echoed[k] <= a /\ a <= b /\ b <= sent[k]
            /\ Between(outbox[k], echoed[k], a)
            /\ reading = k => Between(chunk, a, b)
            /\ Between(inbox[k], b, sent[k])
      BY <2>2 DEF Pipe
    <3>4. /\ Head(outbox[k]) \in Nat /\ echoed[k] < Head(outbox[k]) /\ Head(outbox[k]) <= a
          /\ Between(Tail(outbox[k]), Head(outbox[k]), a)
      BY <2>4, <3>1, <3>3, BetweenTail
    <3>5. Pipe(k)'
      BY <3>1, <3>2, <3>3, <3>4 DEF Pipe
    <3>6. \A j \in Connections : Pipe(j)'
      <4>1. ASSUME NEW j \in Connections \ {k} PROVE Pipe(j)'
        BY <2>2, <3>1, <3>2 DEF Pipe
      <4> QED
        BY <3>5, <4>1
    <3>7. outbox'[k] \in Seq(Nat) /\ Len(outbox'[k]) = Len(outbox[k]) - 1
      <4>1. \A s \in Seq(Nat) : s # << >> => Tail(s) \in Seq(Nat) /\ Len(Tail(s)) = Len(s) - 1
        OBVIOUS
      <4> QED
        BY <2>4, <3>1, <3>2, <4>1
    <3>8. echoed'[k] \in 0 .. MaxUnits
      <4>1. sent[k] \in 0 .. MaxUnits
        BY <2>1 DEF Epoll!TypeOK
      <4> QED
        BY <3>2, <3>3, <3>4, <4>1
    <3>9. EpollTypes'
      <4>1. outbox' \in [Connections -> Seq(Nat)]
        BY <2>1, <2>4, <3>1, <3>2, <3>7 DEF EpollTypes
      <4>2. echoed' \in [Connections -> 0 .. MaxUnits]
        BY <2>1, <3>1, <3>2, <3>8 DEF Epoll!TypeOK
      <4>3. \A j \in Connections : Len(outbox'[j]) <= SOCKET
        <5>1. \A j \in Connections : Len(outbox[j]) \in Nat /\ Len(outbox[j]) <= SOCKET
          BY <2>1, <2>4 DEF Epoll!TypeOK
        <5>2. Len(outbox[k]) - 1 <= SOCKET
          BY <5>1
        <5> QED
          BY <3>2, <3>7, <5>1, <5>2
      <4> QED
        BY <2>1, <3>1, <4>1, <4>2, <4>3 DEF EpollTypes, Epoll!TypeOK
    <3>10. Patience'
      BY <2>1, <2>3, <3>1, <3>2 DEF Patience
    <3>11. Epoll!NothingStranded'
      BY <2>1, <3>1 DEF Epoll!NothingStranded
    <3> QED
      BY <3>1, <3>6, <3>9, <3>10, <3>11 DEF EpollInv
  <2>8. ASSUME NEW k \in Connections, Epoll!Leave(k) PROVE EpollInv'
    <3>1. /\ user[k] = "connected" /\ (k \in patient /\ running => echoed[k] = sent[k])
          /\ user' = [user EXCEPT ![k] = "gone"]
          /\ outbox' = [outbox EXCEPT ![k] = << >>]
          /\ edge' = IF conn[k] = "open" THEN edge \cup {k} ELSE edge
          /\ UNCHANGED <<running, patient, backlog, conn, batch, reading, chunk, inbox, sent,
                         echoed, counter, notes>>
      BY <2>8 DEF Epoll!Leave, Epoll!Announce
    <3>2. /\ \A j \in Connections \ {k} : outbox'[j] = outbox[j] /\ user'[j] = user[j]
          /\ outbox'[k] = << >> /\ Len(outbox'[k]) = 0 /\ user'[k] = "gone"
      BY <2>1, <3>1 DEF EpollTypes, Epoll!TypeOK
    <3>3. EpollTypes'
      <4>1. outbox' \in [Connections -> Seq(Nat)]
        BY <2>1, <3>1 DEF EpollTypes
      <4>2. \A j \in Connections : Len(outbox'[j]) <= SOCKET
        <5>1. \A j \in Connections : Len(outbox[j]) <= SOCKET
          BY <2>1 DEF Epoll!TypeOK
        <5> QED
          BY <3>2, <5>1
      <4> QED
        BY <2>1, <3>1, <4>1, <4>2 DEF EpollTypes, Epoll!TypeOK
    <3>4. ASSUME NEW j \in Connections PROVE Pipe(j)'
      <4>1. PICK a \in Nat, b \in Nat :
              /\ echoed[j] <= a /\ a <= b /\ b <= sent[j]
              /\ Between(outbox[j], echoed[j], a)
              /\ reading = j => Between(chunk, a, b)
              /\ Between(inbox[j], b, sent[j])
        BY <2>2 DEF Pipe
      <4>2. Between(outbox'[j], echoed[j], a)
        BY <2>4, <3>2, <4>1, BetweenEmpty
      <4> QED
        BY <3>1, <4>1, <4>2 DEF Pipe
    <3>5. Patience'
      BY <2>1, <2>3, <3>1, <3>2 DEF Patience
    <3>6. Epoll!NothingStranded'
      BY <2>1, <2>3, <3>1, <3>2 DEF Epoll!NothingStranded
    <3>7. ~running => conn[k] # "open"
      BY DEF EpollInv
    <3> QED
      BY <3>1, <3>3, <3>4, <3>5, <3>6, <3>7 DEF EpollInv
  <2>9. CASE Epoll!Notify
    <3>1. /\ running /\ notes < MaxNotes /\ notes' = notes + 1 /\ counter' = counter + 1
          /\ UNCHANGED <<running, patient, user, backlog, conn, edge, batch, reading, chunk,
                         inbox, outbox, sent, echoed>>
      BY <2>9 DEF Epoll!Notify, Epoll!epoll, Epoll!world
    <3>2. EpollTypes'
      BY <2>1, <3>1 DEF EpollTypes, Epoll!TypeOK
    <3> QED
      BY <3>1, <3>2 DEF EpollInv, Pipe, Patience, Epoll!NothingStranded
  <2>10. CASE Epoll!Wait
    <3>1. /\ running /\ batch = {} /\ reading = "nobody"
          /\ batch' \subseteq edge \cup (IF backlog # << >> THEN {"listen"} ELSE {})
                                   \cup (IF counter > 0 THEN {"event"} ELSE {})
          /\ edge' = edge \ batch'
          /\ UNCHANGED <<running, patient, user, backlog, conn, reading, chunk, inbox, outbox,
                         sent, echoed, counter, notes>>
      BY <2>10 DEF Epoll!Wait, Epoll!world
    <3>2. EpollTypes'
      BY <2>1, <2>3, <3>1 DEF EpollTypes, Epoll!TypeOK
    <3>3. Patience' /\ Epoll!NothingStranded'
      BY <2>1, <3>1 DEF Patience, Epoll!NothingStranded
    <3>4. "listen" \in batch' => backlog # << >>
      BY <1>1, <2>3, <3>1
    <3>5. \A k \in Connections : Pipe(k)'
      BY <2>2, <3>1 DEF Pipe
    <3> QED
      BY <3>1, <3>2, <3>3, <3>4, <3>5 DEF EpollInv
  <2>11. CASE Epoll!Accept
    <3> DEFINE k == Head(backlog)
    <3>1. /\ "listen" \in batch /\ reading = "nobody"
          /\ conn' = [conn EXCEPT ![k] = "open"]
          /\ edge' = IF inbox[k] # << >> \/ user[k] = "gone" THEN edge \cup {k} ELSE edge
          /\ backlog' = Tail(backlog) /\ batch' = batch \ {"listen"}
          /\ UNCHANGED <<running, patient, user, reading, chunk, inbox, outbox, sent, echoed,
                         counter, notes>>
      BY <2>11 DEF Epoll!Accept, Epoll!world
    <3>2. backlog # << >> /\ running
      BY <2>3, <3>1 DEF EpollInv
    <3>3. k \in Connections /\ backlog' \in Seq(Connections)
      BY <2>3, <3>1, <3>2
    <3> HIDE DEF k
    <3>4. conn'[k] = "open" /\ \A j \in Connections \ {k} : conn'[j] = conn[j]
      BY <2>1, <3>1, <3>3 DEF Epoll!TypeOK
    <3>5. EpollTypes'
      <4>1. /\ conn' \in [Connections -> {"none", "open", "closed"}]
            /\ edge' \subseteq {j \in Connections : conn'[j] = "open"}
            /\ batch' \subseteq edge' \cup Connections \cup {"listen", "event"}
        BY <2>1, <3>1, <3>3, <3>4 DEF Epoll!TypeOK
      <4>2. Epoll!TypeOK'
        BY <2>1, <3>1, <3>3, <4>1 DEF Epoll!TypeOK
      <4> QED
        BY <2>1, <3>1, <4>2 DEF EpollTypes
    <3>6. Patience'
      BY <2>1, <3>1 DEF Patience
    <3>7. Epoll!NothingStranded'
      BY <1>1, <2>1, <2>3, <3>1, <3>3, <3>4 DEF Epoll!NothingStranded
    <3>8. \A j \in Connections : Pipe(j)'
      BY <2>2, <3>1 DEF Pipe
    <3> QED
      BY <3>1, <3>2, <3>5, <3>6, <3>7, <3>8 DEF EpollInv
  <2>12. CASE Epoll!ReadEvent
    <3>1. /\ "event" \in batch /\ counter' = 0 /\ batch' = batch \ {"event"}
          /\ UNCHANGED <<running, patient, user, backlog, conn, edge, reading, chunk, inbox,
                         outbox, sent, echoed, notes>>
      BY <2>12 DEF Epoll!ReadEvent, Epoll!world
    <3>2. EpollTypes'
      <4>1. /\ batch' \subseteq edge \cup Connections \cup {"listen", "event"}
            /\ counter' \in 0 .. MaxNotes /\ counter' <= notes
        BY <2>1, <3>1 DEF EpollTypes, Epoll!TypeOK
      <4>2. Epoll!TypeOK'
        BY <2>1, <3>1, <4>1 DEF Epoll!TypeOK
      <4> QED
        BY <2>1, <3>1, <4>1, <4>2 DEF EpollTypes
    <3>3. Patience' /\ Epoll!NothingStranded'
      BY <1>1, <2>1, <2>3, <3>1 DEF Patience, Epoll!NothingStranded
    <3>4. \A j \in Connections : Pipe(j)'
      BY <2>2, <3>1 DEF Pipe
    <3> QED
      BY <3>1, <3>2, <3>3, <3>4 DEF EpollInv
  <2>13. ASSUME NEW k \in Connections, Epoll!Read(k) PROVE EpollInv'
    <3> DEFINE n == IF BUFFER < Len(inbox[k]) THEN BUFFER ELSE Len(inbox[k])
    <3>1. /\ k \in batch /\ reading = "nobody" /\ (inbox[k] # << >> \/ user[k] # "gone")
          /\ chunk' = SubSeq(inbox[k], 1, n)
          /\ inbox' = [inbox EXCEPT ![k] = SubSeq(inbox[k], n + 1, Len(inbox[k]))]
          /\ reading' = IF n = 0 THEN "nobody" ELSE k
          /\ batch' = batch \ {k}
          /\ UNCHANGED <<running, patient, backlog, conn, edge, user, outbox, sent, echoed,
                         counter, notes>>
      BY <2>13 DEF Epoll!Read, Epoll!Least
    <3>2. n \in 0 .. Len(inbox[k]) /\ n <= BUFFER
      BY <2>4
    <3>3. Len(inbox[k]) <= BUFFER => n = Len(inbox[k])
      BY <2>4
    <3> HIDE DEF n
    <3>4. PICK a \in Nat, b \in Nat :
            /\ echoed[k] <= a /\ a <= b /\ b <= sent[k]
            /\ Between(outbox[k], echoed[k], a)
            /\ Between(inbox[k], b, sent[k])
      BY <2>2 DEF Pipe
    <3>5. PICK c \in b .. sent[k] :
            Between(chunk', b, c) /\ Between(SubSeq(inbox[k], n + 1, Len(inbox[k])), c, sent[k])
      BY <2>4, <3>1, <3>2, <3>4, BetweenCut
    <3>6. /\ \A j \in Connections \ {k} : inbox'[j] = inbox[j]
          /\ inbox'[k] = SubSeq(inbox[k], n + 1, Len(inbox[k]))
      BY <2>1, <3>1 DEF EpollTypes
    <3>7. /\ chunk' \in Seq(Nat) /\ Len(chunk') = n
          /\ inbox'[k] \in Seq(Nat) /\ Len(inbox'[k]) = Len(inbox[k]) - n
      <4>1. ASSUME NEW s \in Seq(Nat), NEW m \in 0 .. Len(s)
            PROVE  /\ SubSeq(s, 1, m) \in Seq(Nat) /\ Len(SubSeq(s, 1, m)) = m
                   /\ SubSeq(s, m + 1, Len(s)) \in Seq(Nat)
                   /\ Len(SubSeq(s, m + 1, Len(s))) = Len(s) - m
        OBVIOUS
      <4> QED
        BY <2>4, <3>1, <3>2, <3>6, <4>1
    <3>8. EpollTypes'
      <4>1. inbox' \in [Connections -> Seq(Nat)]
        BY <2>1, <2>4, <3>1, <3>6, <3>7 DEF EpollTypes
      <4>2. \A j \in Connections : Len(inbox'[j]) <= SOCKET
        <5>1. \A j \in Connections : Len(inbox[j]) <= SOCKET
          BY <2>1 DEF Epoll!TypeOK
        <5>2. Len(inbox'[k]) <= SOCKET
          BY <2>4, <3>2, <3>7, <5>1
        <5> QED
          BY <3>6, <5>1, <5>2
      <4>3. Len(chunk') <= BUFFER /\ (chunk' = << >> <=> reading' = "nobody")
        <5>1. chunk' = << >> <=> n = 0
          BY <3>7
        <5> QED
          BY <1>1, <3>1, <3>2, <3>7, <5>1
      <4> QED
        BY <2>1, <2>3, <3>1, <3>7, <4>1, <4>2, <4>3 DEF EpollTypes, Epoll!TypeOK
    <3>9. Pipe(k)'
      <4>1. c \in Nat /\ a <= c /\ c <= sent[k]
        BY <2>4, <3>4, <3>5
      <4>2. Between(chunk', a, c)
        BY <2>4, <3>4, <3>5, <4>1, BetweenWeaker
      <4> QED
        BY <2>4, <3>1, <3>4, <3>5, <3>6, <4>1, <4>2 DEF Pipe
    <3>10. ASSUME NEW j \in Connections \ {k} PROVE Pipe(j)'
      BY <1>1, <2>2, <3>1, <3>6 DEF Pipe
    <3>11. Patience'
      BY <2>1, <2>3, <2>4, <3>1, <3>2, <3>6, <3>7 DEF Patience
    <3>12. Epoll!NothingStranded'
      <4>1. ASSUME k \in patient, conn[k] = "open" PROVE inbox'[k] = << >> /\ user[k] # "gone"
        <5>1. Len(inbox[k]) <= BUFFER /\ (running /\ user[k] = "gone" => echoed[k] = sent[k])
          BY <2>1, <4>1 DEF Patience
        <5>2. inbox'[k] = << >>
          BY <2>4, <3>3, <3>7, <5>1
        <5>3. running
          BY <4>1 DEF EpollInv
        <5>4. echoed[k] = sent[k] => inbox[k] = << >>
          BY <2>4, <3>4, BetweenEmptyRange
        <5> QED
          BY <3>1, <5>1, <5>2, <5>3, <5>4
      <4> QED
        BY <2>1, <2>3, <3>1, <3>6, <4>1 DEF Epoll!NothingStranded
    <3> QED
      BY <3>1, <3>8, <3>9, <3>10, <3>11, <3>12 DEF EpollInv
  <2>14. ASSUME NEW k \in Connections, Epoll!ReadEnd(k) PROVE EpollInv'
    <3>1. /\ k \in batch /\ conn' = [conn EXCEPT ![k] = "closed"]
          /\ edge' = edge \ {k} /\ batch' = batch \ {k}
          /\ UNCHANGED <<running, patient, user, backlog, reading, chunk, inbox, outbox, sent,
                         echoed, counter, notes>>
      BY <2>14 DEF Epoll!ReadEnd, Epoll!world
    <3>2. conn'[k] = "closed" /\ \A j \in Connections \ {k} : conn'[j] = conn[j]
      BY <2>1, <3>1 DEF Epoll!TypeOK
    <3>3. EpollTypes'
      BY <2>1, <2>3, <3>1, <3>2 DEF EpollTypes, Epoll!TypeOK
    <3>4. Patience' /\ Epoll!NothingStranded'
      BY <2>1, <2>3, <3>1, <3>2 DEF Patience, Epoll!NothingStranded
    <3>5. \A j \in Connections : Pipe(j)'
      BY <2>2, <3>1 DEF Pipe
    <3> QED
      BY <3>1, <3>3, <3>4, <3>5 DEF EpollInv
  <2>15. CASE Epoll!Echo
    <3>1. PICK k \in Connections : k = reading
      BY <2>3, <2>15 DEF Epoll!Echo
    <3> DEFINE room == SOCKET - Len(outbox[k])
               n == IF room < Len(chunk) THEN room ELSE Len(chunk)
    <3>2. /\ outbox' = [outbox EXCEPT ![k] = @ \o SubSeq(chunk, 1, n)]
          /\ reading' = "nobody" /\ chunk' = << >>
          /\ UNCHANGED <<running, patient, backlog, conn, edge, batch, user, inbox, sent, echoed,
                         counter, notes>>
      BY <2>15, <3>1 DEF Epoll!Echo, Epoll!Least
    <3>3. chunk \in Seq(Nat) /\ Len(chunk) \in Nat
      BY <2>1 DEF EpollTypes
    <3>4. Len(outbox[k]) \in Nat /\ Len(outbox[k]) <= SOCKET
      BY <2>1, <2>4, <3>1 DEF Epoll!TypeOK
    <3>5. n \in 0 .. Len(chunk) /\ Len(outbox[k]) + n <= SOCKET
      <4>1. ASSUME NEW l \in Nat, NEW m \in Nat, l <= SOCKET
            PROVE  LET r == IF SOCKET - l < m THEN SOCKET - l ELSE m
                   IN  r \in 0 .. m /\ l + r <= SOCKET
        BY <4>1
      <4> QED
        BY <3>3, <3>4, <4>1
    <3> HIDE DEF n, room
    <3>6. PICK a \in Nat, b \in Nat :
            /\ echoed[k] <= a /\ a <= b /\ b <= sent[k]
            /\ Between(outbox[k], echoed[k], a)
            /\ Between(chunk, a, b)
            /\ Between(inbox[k], b, sent[k])
      BY <2>2, <3>1 DEF Pipe
    <3>7. PICK c \in a .. b : Between(SubSeq(chunk, 1, n), a, c)
      BY <3>5, <3>6, BetweenCut
    <3>8. /\ \A j \in Connections \ {k} : outbox'[j] = outbox[j]
          /\ outbox'[k] = outbox[k] \o SubSeq(chunk, 1, n)
      BY <2>1, <3>1, <3>2 DEF EpollTypes
    <3>9. outbox'[k] \in Seq(Nat) /\ Len(outbox'[k]) <= SOCKET
      <4>1. SubSeq(chunk, 1, n) \in Seq(Nat) /\ Len(SubSeq(chunk, 1, n)) = n
        BY <3>3, <3>5
      <4>2. \A s, t \in Seq(Nat) : s \o t \in Seq(Nat) /\ Len(s \o t) = Len(s) + Len(t)
        OBVIOUS
      <4>3. outbox'[k] \in Seq(Nat) /\ Len(outbox'[k]) = Len(outbox[k]) + n
        BY <2>4, <3>8, <4>1, <4>2
      <4> QED
        BY <3>5, <4>3
    <3>10. EpollTypes'
      <4>1. outbox' \in [Connections -> Seq(Nat)]
        BY <2>1, <2>4, <3>2, <3>8, <3>9 DEF EpollTypes
      <4>2. \A j \in Connections : Len(outbox'[j]) <= SOCKET
        BY <2>1, <3>8, <3>9 DEF Epoll!TypeOK
      <4>3. chunk' \in Seq(Nat) /\ Len(chunk') = 0
        BY <3>2
      <4>4. /\ UNCHANGED <<running, patient, backlog, conn, edge, batch, user, inbox, sent,
                           echoed, counter, notes>>
            /\ reading' = "nobody" /\ chunk' = << >>
        BY <3>2
      <4>5. /\ edge' \subseteq {j \in Connections : conn'[j] = "open"}
            /\ batch' \subseteq edge' \cup Connections \cup {"listen", "event"}
            /\ reading' \in Connections \cup {"nobody"}
            /\ Len(chunk') <= BUFFER /\ (chunk' = << >> <=> reading' = "nobody")
        BY <2>1, <4>3, <4>4 DEF Epoll!TypeOK
      <4>6. \A j \in Connections : Len(inbox'[j]) <= SOCKET /\ Len(outbox'[j]) <= SOCKET
        BY <2>1, <4>2, <4>4 DEF Epoll!TypeOK
      <4>7. Epoll!TypeOK'
        BY <2>1, <4>4, <4>5, <4>6 DEF Epoll!TypeOK
      <4> QED
        BY <2>1, <4>1, <4>3, <4>4, <4>7 DEF EpollTypes
    <3>11. Pipe(k)'
      <4>1. c \in Nat /\ echoed[k] <= c /\ c <= b
        BY <2>4, <3>1, <3>6, <3>7
      <4>2. Between(outbox[k] \o SubSeq(chunk, 1, n), echoed[k], c)
        BY <2>4, <3>1, <3>6, <3>7, <4>1, BetweenConcat
      <4>3. reading' # k /\ sent' = sent /\ echoed' = echoed /\ inbox' = inbox
        BY <1>1, <3>2
      <4>4. Between(outbox'[k], echoed'[k], c)
        BY <3>8, <4>2, <4>3
      <4>5. b \in Nat /\ b <= sent'[k] /\ Between(inbox'[k], b, sent'[k])
        BY <3>6, <4>3
      <4> QED
        BY <4>1, <4>3, <4>4, <4>5 DEF Pipe
    <3>12. ASSUME NEW j \in Connections \ {k} PROVE Pipe(j)'
      <4>1. reading' # j
        BY <1>1, <3>2
      <4> QED
        BY <2>2, <3>2, <3>8, <4>1 DEF Pipe
    <3>13. Patience' /\ Epoll!NothingStranded'
      BY <2>1, <3>2 DEF Patience, Epoll!NothingStranded
    <3> QED
      <4>1. \A j \in Connections : Pipe(j)'
        BY <3>11, <3>12
      <4>2. /\ UNCHANGED <<running, backlog, conn, edge, batch>> /\ reading' = "nobody"
        BY <3>2
      <4> QED
        BY <3>10, <3>13, <4>1, <4>2 DEF EpollInv
  <2>16. CASE Epoll!EchoBroken
    <3>1. /\ running' = FALSE /\ conn' = [k \in Connections |-> "closed"] /\ backlog' = << >>
          /\ edge' = {} /\ batch' = {} /\ reading' = "nobody" /\ chunk' = << >>
          /\ counter' = 0 /\ inbox' = [k \in Connections |-> << >>]
          /\ UNCHANGED <<patient, user, outbox, sent, echoed, notes>>
      BY <2>16 DEF Epoll!EchoBroken
    <3>2. << >> \in Seq(Nat) /\ << >> \in Seq(Connections) /\ Len(<< >>) = 0
      OBVIOUS
    <3>3. EpollTypes'
      <4>1. running' \in BOOLEAN
        BY <3>1
      <4> QED
        BY <2>1, <3>1, <3>2, <4>1 DEF EpollTypes, Epoll!TypeOK
    <3>4. Patience' /\ Epoll!NothingStranded'
      BY <2>1, <2>3, <3>1, <3>2 DEF Patience, Epoll!NothingStranded
    <3>5. ASSUME NEW k \in Connections PROVE Pipe(k)'
      <4>1. PICK a \in Nat, b \in Nat :
              /\ echoed[k] <= a /\ a <= b /\ b <= sent[k]
              /\ Between(outbox[k], echoed[k], a)
        BY <2>2 DEF Pipe
      <4>2. Between(inbox'[k], b, sent'[k]) /\ reading' # k
        BY <1>1, <2>4, <3>1, BetweenEmpty
      <4> QED
        BY <3>1, <4>1, <4>2 DEF Pipe
    <3> QED
      BY <3>1, <3>3, <3>4, <3>5 DEF EpollInv
  <2>17. CASE UNCHANGED Epoll!vars
    <3>1. UNCHANGED <<running, patient, user, backlog, conn, edge, batch, reading, chunk, inbox,
                      outbox, sent, echoed, counter, notes>>
      BY <2>17 DEF Epoll!vars, Epoll!epoll, Epoll!world
    <3>2. EpollTypes'
      BY <2>1, <3>1 DEF EpollTypes, Epoll!TypeOK
    <3>3. Patience' /\ Epoll!NothingStranded'
      BY <2>1, <3>1 DEF Patience, Epoll!NothingStranded
    <3>4. \A k \in Connections : Pipe(k)'
      BY <2>2, <3>1 DEF Pipe
    <3> QED
      BY <3>1, <3>2, <3>3, <3>4 DEF EpollInv
  <2> QED
    BY <2>5, <2>6, <2>7, <2>8, <2>9, <2>10, <2>11, <2>12, <2>13, <2>14, <2>15, <2>16, <2>17
    DEF Epoll!Next, Epoll!ServerStep, Epoll!ClientStep
<1> QED
  BY <1>3, <1>4, PTL DEF Epoll!Spec

(* For every size of the buffer and the sockets: the event of a patient    *)
(* client is never lost between epoll's list and the batch at hand.        *)
THEOREM NothingLeftBehind == Spec => []NothingStranded
BY LabRuns, EpollHolds, PTL DEF NothingStranded, EpollInv

(* For every client, patient or not, whatever part of its units a full     *)
(* socket loses: it gets its own back, in the order in which it sent them. *)
THEOREM UnitsInOrder == Spec => EchoedInOrder
<1>1. EpollInv /\ [Epoll!Next]_(Epoll!vars) =>
        [\A k \in Connections : echoed'[k] # echoed[k] =>
           echoed'[k] > echoed[k] /\ echoed'[k] <= sent[k]]_(Epoll!vars)
  <2> SUFFICES ASSUME EpollInv, [Epoll!Next]_(Epoll!vars), NEW k \in Connections,
                      echoed'[k] # echoed[k]
               PROVE  echoed'[k] > echoed[k] /\ echoed'[k] <= sent[k]
    OBVIOUS
  <2>1. echoed[k] \in Nat /\ sent[k] \in Nat
    BY DEF EpollInv, EpollTypes, Epoll!TypeOK
  <2>2. Epoll!Receive(k)
    <3>1. ASSUME NEW j \in Connections, Epoll!Receive(j) PROVE j = k
      BY <3>1 DEF Epoll!Receive, EpollInv, EpollTypes, Epoll!TypeOK
    <3> QED
      BY <3>1 DEF Epoll!Next, Epoll!ServerStep, Epoll!ClientStep, Epoll!vars, Epoll!epoll,
         Epoll!world, Epoll!Wait, Epoll!Accept, Epoll!ReadEvent, Epoll!Echo, Epoll!EchoBroken,
         Epoll!Read, Epoll!ReadEnd, Epoll!Connect, Epoll!Send, Epoll!Leave, Epoll!Notify
  <2>3. outbox[k] # << >> /\ echoed'[k] = Head(outbox[k])
    BY <2>2 DEF Epoll!Receive, EpollInv, EpollTypes, Epoll!TypeOK
  <2>4. PICK a \in Nat, b \in Nat :
          echoed[k] <= a /\ a <= b /\ b <= sent[k] /\ Between(outbox[k], echoed[k], a)
    BY DEF EpollInv, Pipe
  <2>5. Head(outbox[k]) \in Nat /\ echoed[k] < Head(outbox[k]) /\ Head(outbox[k]) <= a
    BY <2>1, <2>3, <2>4, BetweenTail
  <2> QED
    BY <2>1, <2>3, <2>4, <2>5
<1> QED
  BY <1>1, LabRuns, EpollHolds, PTL DEF EchoedInOrder, Epoll!EchoedInOrder, Epoll!Spec

-----------------------------------------------------------------------------
(* mq_clean_burst.c. Before a run has begun to send, only a killed run's   *)
(* messages are in the queue. What was received and what can be received   *)
(* is the burst: Burst!InOrder, which counts the messages of a queue  *)
(* that nothing has disturbed, so that such a queue is never full.         *)
BurstInv ==
  /\ Burst!TypeOK /\ Burst!InOrder
  /\ pcBurst \in {"open", "done"} =>
       /\ \A n \in 1 .. Len(queue) : queue[n] = Burst!Stale
       /\ ~killed => queue = << >>
       /\ i \in {0, BURST + 1}
  /\ pcBurst = "open" => received = << >> /\ i = 0
  /\ refused \subseteq 1 .. i - 1
  /\ pcBurst \notin {"open", "done"} => i # 0

(* What is received and queued, as one sequence s of messages below m,     *)
(* those in lost left out, is the burst so far.                            *)
InBurst(s, m, lost, undisturbed) ==
  /\ {s[n] : n \in 1 .. Len(s)} \ {0} = (1 .. m - 1) \ lost
  /\ \A l, n \in 1 .. Len(s) : l < n /\ s[n] # 0 => s[l] < s[n]
  /\ undisturbed => lost = {} /\ s = [n \in 1 .. m - 1 |-> n]

LEMMA BurstGrows ==
  ASSUME NEW s \in Seq(Nat), NEW m \in Nat \ {0}, NEW lost \in SUBSET (1 .. m - 1),
         NEW undisturbed \in BOOLEAN, InBurst(s, m, lost, undisturbed)
  PROVE  InBurst(Append(s, m), m + 1, lost, undisturbed)
<1> DEFINE t == Append(s, m)
<1>1. /\ Len(s) \in Nat /\ t \in Seq(Nat) /\ Len(t) = Len(s) + 1 /\ t[Len(s) + 1] = m
      /\ \A n \in 1 .. Len(s) : t[n] = s[n] /\ s[n] \in Nat
  OBVIOUS
<1> HIDE DEF t
<1>2. {t[n] : n \in 1 .. Len(t)} = {s[n] : n \in 1 .. Len(s)} \cup {m}
  <2>1. 1 .. Len(t) = (1 .. Len(s)) \cup {Len(s) + 1}
    BY <1>1
  <2> QED
    BY <1>1, <2>1
<1>3. \A n \in 1 .. Len(s) : s[n] < m
  <2>1. \A n \in 1 .. Len(s) : s[n] = 0 \/ s[n] \in 1 .. m - 1
    BY <1>1 DEF InBurst
  <2> QED
    BY <2>1
<1>4. {t[n] : n \in 1 .. Len(t)} \ {0} = (1 .. m + 1 - 1) \ lost
  <2>1. 1 .. m + 1 - 1 = (1 .. m - 1) \cup {m} /\ m \notin lost /\ m # 0
    OBVIOUS
  <2> QED
    BY <1>2, <2>1 DEF InBurst
<1>5. \A l, n \in 1 .. Len(t) : l < n /\ t[n] # 0 => t[l] < t[n]
  <2> SUFFICES ASSUME NEW l \in 1 .. Len(t), NEW n \in 1 .. Len(t), l < n, t[n] # 0
               PROVE  t[l] < t[n]
    OBVIOUS
  <2>1. l \in 1 .. Len(s) /\ t[l] = s[l]
    BY <1>1
  <2>2. CASE n \in 1 .. Len(s)
    <3>1. t[n] = s[n] /\ s[l] < s[n]
      BY <1>1, <2>1, <2>2 DEF InBurst
    <3> QED
      BY <2>1, <3>1
  <2>3. CASE n = Len(s) + 1
    BY <1>1, <1>3, <2>1, <2>3
  <2> QED
    BY <1>1, <2>2, <2>3
<1>6. undisturbed => t = [n \in 1 .. m + 1 - 1 |-> n]
  <2> SUFFICES ASSUME undisturbed PROVE t = [n \in 1 .. m + 1 - 1 |-> n]
    OBVIOUS
  <2>1. s = [n \in 1 .. m - 1 |-> n] /\ Len(s) = m - 1
    BY DEF InBurst
  <2>2. \A n \in 1 .. m - 1 : s[n] = n
    BY <2>1
  <2>3. Len(t) = m /\ \A n \in 1 .. m : t[n] = n
    <3>1. \A n \in 1 .. m - 1 : t[n] = n
      BY <1>1, <2>1, <2>2
    <3>2. t[m] = m
      BY <1>1, <2>1
    <3> QED
      BY <1>1, <2>1, <3>1, <3>2
  <2>4. t = [n \in 1 .. m |-> t[n]]
    BY <1>1, <2>3
  <2>5. m + 1 - 1 = m
    OBVIOUS
  <2> QED
    BY <2>3, <2>4, <2>5
<1>7. undisturbed => lost = {}
  BY DEF InBurst
<1>8. InBurst(t, m + 1, lost, undisturbed)
  BY <1>4, <1>5, <1>6, <1>7 DEF InBurst
<1> QED
  BY <1>8 DEF t

LEMMA BurstLoses ==
  ASSUME NEW s, NEW m \in Nat \ {0}, NEW lost \in SUBSET (1 .. m - 1), InBurst(s, m, lost, FALSE)
  PROVE  InBurst(s, m + 1, lost \cup {m}, FALSE)
<1>1. (1 .. m + 1 - 1) \ (lost \cup {m}) = (1 .. m - 1) \ lost
  OBVIOUS
<1> QED
  BY <1>1 DEF InBurst

(* A message that is received leaves the queue.                            *)
LEMMA Received ==
  ASSUME NEW r \in Seq(Nat), NEW q \in Seq(Nat), q # << >>
  PROVE  Append(r, Head(q)) \o Tail(q) = r \o q
<1> DEFINE s == Append(r, Head(q)) \o Tail(q)
           t == r \o q
<1>1. /\ Len(r) \in Nat /\ Len(q) \in Nat \ {0} /\ Head(q) = q[1]
      /\ Append(r, Head(q)) \in Seq(Nat) /\ Len(Append(r, Head(q))) = Len(r) + 1
      /\ Tail(q) \in Seq(Nat) /\ Len(Tail(q)) = Len(q) - 1
      /\ \A n \in 1 .. Len(q) - 1 : Tail(q)[n] = q[n + 1]
      /\ \A n \in 1 .. Len(r) : Append(r, Head(q))[n] = r[n]
      /\ Append(r, Head(q))[Len(r) + 1] = q[1]
  OBVIOUS
<1>2. s \in Seq(Nat) /\ Len(s) = Len(r) + Len(q) /\ t \in Seq(Nat) /\ Len(t) = Len(r) + Len(q)
  BY <1>1
<1>3. /\ \A n \in 1 .. Len(r) : s[n] = r[n] /\ t[n] = r[n]
      /\ s[Len(r) + 1] = q[1] /\ t[Len(r) + 1] = q[1]
  BY <1>1
<1>4. \A n \in Len(r) + 2 .. Len(r) + Len(q) : s[n] = q[n - Len(r)] /\ t[n] = q[n - Len(r)]
  <2> SUFFICES ASSUME NEW n \in Len(r) + 2 .. Len(r) + Len(q)
               PROVE  s[n] = q[n - Len(r)] /\ t[n] = q[n - Len(r)]
    OBVIOUS
  <2>1. /\ n - (Len(r) + 1) \in 1 .. Len(q) - 1 /\ (n - (Len(r) + 1)) + 1 = n - Len(r)
        /\ n > Len(r) + 1 /\ n \in 1 .. Len(r) + Len(q)
    BY <1>1
  <2>2. s[n] = Tail(q)[n - (Len(r) + 1)]
    BY <1>1, <2>1
  <2> QED
    BY <1>1, <2>1, <2>2
<1> HIDE DEF s, t
<1>5. \A n \in 1 .. Len(s) : s[n] = t[n]
  <2>1. \A n \in 1 .. Len(s) :
          n \in 1 .. Len(r) \/ n = Len(r) + 1 \/ n \in Len(r) + 2 .. Len(r) + Len(q)
    <3>1. Len(r) \in Nat /\ Len(q) \in Nat /\ Len(s) = Len(r) + Len(q)
      BY <1>1, <1>2
    <3> QED
      BY <3>1
  <2> QED
    BY <1>3, <1>4, <2>1
<1>6. s = t
  BY <1>2, <1>5, SeqEqual
<1> QED
  BY <1>6 DEF s, t

LEMMA BurstHolds == Burst!Spec => []BurstInv
<1>1. /\ BURST \in Nat /\ MQ_MAXMSG \in Nat /\ BURST <= MQ_MAXMSG /\ MaxRuns \in Nat \ {0}
  BY BurstAssumption
<1> USE <1>1 DEF Burst!Stale
<1>2. Burst!Init => BurstInv
  <2> SUFFICES ASSUME Burst!Init PROVE BurstInv
    OBVIOUS
  <2>1. queue = << >> /\ received = << >> /\ Len(queue) = 0 /\ pcBurst = "open" /\ i = 0
    BY DEF Burst!Init
  <2>2. nonblock \in BOOLEAN /\ blocked \in BOOLEAN /\ killed \in BOOLEAN
    BY DEF Burst!Init
  <2>3. Burst!TypeOK
    <3>1. refused = {} /\ runs = 1
      BY DEF Burst!Init
    <3> QED
      BY <2>1, <2>2, <3>1 DEF Burst!TypeOK
  <2> QED
    BY <2>1, <2>3 DEF Burst!Init, BurstInv, Burst!InOrder
<1>3. BurstInv /\ [Burst!Next]_(Burst!vars) => BurstInv'
  <2> DEFINE active(step) == step \in {"first", "setattr", "drain", "join"}
  <2>1. ASSUME NEW q \in Seq(0 .. BURST), NEW r \in Seq(0 .. BURST)
        PROVE  /\ r \o q \in Seq(Nat) /\ r \in Seq(Nat) /\ q \in Seq(Nat)
               /\ Len(r) \in Nat /\ Len(q) \in Nat /\ Len(r \o q) = Len(r) + Len(q)
               /\ DOMAIN (r \o q) = 1 .. Len(r \o q)
    OBVIOUS
  <2> SUFFICES ASSUME BurstInv, [Burst!Next]_(Burst!vars) PROVE BurstInv'
    OBVIOUS
  <2>2. Burst!TypeOK
    BY DEF BurstInv
  <2>3. active(pcBurst) => InBurst(received \o queue, i, refused, ~killed)
    <3>1. /\ received \in Seq(0 .. BURST) /\ queue \in Seq(0 .. BURST)
      BY <2>2 DEF Burst!TypeOK
    <3> QED
      BY <2>1, <3>1 DEF BurstInv, Burst!InOrder, InBurst
  <2>4. ASSUME Burst!TypeOK', active(pcBurst)' => InBurst(received' \o queue', i', refused', ~killed')
        PROVE  Burst!InOrder'
    <3>1. /\ received' \in Seq(0 .. BURST) /\ queue' \in Seq(0 .. BURST)
      BY <2>4 DEF Burst!TypeOK
    <3> QED
      BY <2>1, <2>4, <3>1 DEF Burst!InOrder, InBurst
  <2>5. CASE Burst!Open
    <3>1. /\ pcBurst = "open" /\ i' = 1 /\ pcBurst' = "first"
          /\ UNCHANGED <<queue, nonblock, blocked, received, refused, runs, killed>>
      BY <2>5 DEF Burst!Open
    <3>2. Burst!TypeOK'
      BY <2>2, <3>1 DEF Burst!TypeOK
    <3>3. /\ received = << >> /\ queue \in Seq(Nat) /\ refused = {}
          /\ \A n \in 1 .. Len(queue) : queue[n] = 0
          /\ ~killed => queue = << >>
      <4>1. /\ received = << >> /\ i = 0 /\ refused \subseteq 1 .. i - 1 /\ queue \in Seq(0 .. BURST)
            /\ \A n \in 1 .. Len(queue) : queue[n] = 0
            /\ ~killed => queue = << >>
        BY <2>2, <3>1 DEF BurstInv, Burst!TypeOK
      <4> QED
        BY <2>1, <4>1
    <3>4. received' \o queue' = queue
      BY <3>1, <3>3, ConcatEmptySeq
    <3>5. InBurst(queue, 1, {}, ~killed)
      BY <3>3 DEF InBurst
    <3>6. Burst!InOrder'
      BY <2>4, <3>1, <3>2, <3>3, <3>4, <3>5
    <3> QED
      BY <3>1, <3>2, <3>3, <3>6 DEF BurstInv
  <2>6. CASE Burst!OpenFails \/ Burst!CreateFails
    <3>1. /\ pcBurst = "open" /\ pcBurst' = "done"
          /\ queue' = queue \/ queue' = << >>
          /\ UNCHANGED <<nonblock, i, blocked, received, refused, runs, killed>>
      BY <2>6 DEF Burst!OpenFails, Burst!CreateFails
    <3>2. Len(<< >>) = 0 /\ << >> \in Seq(0 .. BURST)
      OBVIOUS
    <3>3. Burst!TypeOK'
      <4>1. queue' \in Seq(0 .. BURST) /\ Len(queue') <= MQ_MAXMSG
        <5>1. CASE queue' = queue
          BY <2>2, <5>1 DEF Burst!TypeOK
        <5>2. CASE queue' = << >>
          BY <3>2, <5>2
        <5> QED
          BY <3>1, <5>1, <5>2
      <4>2. pcBurst' = "done" /\ UNCHANGED <<nonblock, i, blocked, received, refused, runs, killed>>
        BY <3>1
      <4> QED
        BY <2>2, <4>1, <4>2 DEF Burst!TypeOK
    <3> QED
      BY <3>1, <3>2, <3>3 DEF BurstInv, Burst!InOrder
  <2>7. CASE Burst!Send
    <3>1. /\ i \in 1 .. BURST /\ Len(queue) < MQ_MAXMSG
          /\ queue' = Append(queue, i) /\ i' = i + 1 /\ blocked' = FALSE
          /\ UNCHANGED <<nonblock, pcBurst, received, refused, runs, killed>>
      BY <2>7 DEF Burst!Send
    <3>2. /\ received \in Seq(0 .. BURST) /\ queue \in Seq(0 .. BURST)
          /\ refused \in SUBSET (1 .. i - 1)
      BY <2>2 DEF BurstInv, Burst!TypeOK
    <3>3. active(pcBurst)
      BY <2>2, <3>1 DEF BurstInv, Burst!TypeOK
    <3>4. queue' \in Seq(0 .. BURST) /\ Len(queue') = Len(queue) + 1
      BY <3>1, <3>2
    <3>5. Burst!TypeOK'
      <4>1. blocked' \in BOOLEAN
        BY <3>1
      <4>2. i' \in 0 .. BURST + 1 /\ Len(queue') <= MQ_MAXMSG
        BY <2>1, <3>1, <3>2, <3>4
      <4>3. /\ nonblock' \in BOOLEAN /\ killed' \in BOOLEAN
            /\ pcBurst' \in {"open", "first", "setattr", "drain", "join", "done"}
            /\ received' \in Seq(0 .. BURST) /\ refused' \subseteq 1 .. BURST
            /\ runs' \in 1 .. MaxRuns
        BY <2>2, <3>1 DEF Burst!TypeOK
      <4> QED
        BY <3>4, <4>1, <4>2, <4>3 DEF Burst!TypeOK
    <3>6. received' \o queue' = Append(received \o queue, i)
      <4>1. i \in 0 .. BURST
        BY <3>1
      <4> QED
        BY <3>1, <3>2, <4>1
    <3>7. InBurst(Append(received \o queue, i), i + 1, refused, ~killed)
      <4>1. i \in Nat \ {0} /\ received \o queue \in Seq(Nat)
        BY <2>1, <3>1, <3>2
      <4>2. (~killed) \in BOOLEAN
        OBVIOUS
      <4> QED
        BY <2>3, <3>2, <3>3, <4>1, <4>2, BurstGrows
    <3>8. Burst!InOrder'
      BY <2>4, <3>1, <3>5, <3>6, <3>7
    <3>9. refused' \subseteq 1 .. i' - 1 /\ i' # 0
      BY <3>1, <3>2
    <3> QED
      BY <3>1, <3>3, <3>5, <3>8, <3>9 DEF BurstInv
  <2>8. CASE Burst!SendBlocks
    <3>1. blocked' = TRUE /\ UNCHANGED <<queue, nonblock, pcBurst, i, received, refused, runs, killed>>
      BY <2>8 DEF Burst!SendBlocks
    <3>2. TRUE \in BOOLEAN
      OBVIOUS
    <3>3. Burst!TypeOK'
      BY <2>2, <3>1, <3>2 DEF Burst!TypeOK
    <3> QED
      BY <3>1, <3>3 DEF BurstInv, Burst!InOrder
  <2>9. CASE Burst!SendRefused
    <3>1. /\ i \in 1 .. BURST /\ Len(queue) = MQ_MAXMSG
          /\ refused' = refused \cup {i} /\ i' = i + 1
          /\ UNCHANGED <<queue, nonblock, pcBurst, blocked, received, runs, killed>>
      BY <2>9 DEF Burst!SendRefused
    <3>2. /\ received \in Seq(0 .. BURST) /\ queue \in Seq(0 .. BURST)
          /\ refused \in SUBSET (1 .. i - 1)
      BY <2>2 DEF BurstInv, Burst!TypeOK
    <3>3. active(pcBurst)
      BY <2>2, <3>1 DEF BurstInv, Burst!TypeOK
    <3>4. Burst!TypeOK'
      BY <2>2, <3>1 DEF Burst!TypeOK
    <3>5. killed
      <4> SUFFICES ASSUME ~killed PROVE FALSE
        OBVIOUS
      <4>1. received \o queue = [n \in 1 .. i - 1 |-> n]
        BY <2>3, <3>3 DEF InBurst
      <4>2. Len(received \o queue) = i - 1
        BY <3>1, <4>1
      <4> QED
        BY <2>1, <3>1, <3>2, <4>2
    <3>6. InBurst(received \o queue, i + 1, refused \cup {i}, ~killed)
      <4>1. (~killed) = FALSE /\ i \in Nat \ {0}
        BY <3>1, <3>5
      <4>2. InBurst(received \o queue, i, refused, FALSE)
        BY <2>3, <3>3, <4>1
      <4>3. InBurst(received \o queue, i + 1, refused \cup {i}, FALSE)
        BY <3>2, <4>1, <4>2, BurstLoses
      <4> QED
        BY <4>1, <4>3
    <3>7. Burst!InOrder'
      BY <2>4, <3>1, <3>4, <3>6
    <3>8. refused' \subseteq 1 .. i' - 1 /\ i' # 0
      BY <3>1, <3>2
    <3> QED
      BY <3>1, <3>3, <3>4, <3>7, <3>8 DEF BurstInv
  <2>10. CASE Burst!First \/ Burst!Drain
    <3>1. /\ pcBurst \in {"first", "drain"} /\ pcBurst' \in {"setattr", "drain"}
          /\ queue # << >> /\ received' = Append(received, Head(queue)) /\ queue' = Tail(queue)
          /\ UNCHANGED <<nonblock, i, blocked, refused, runs, killed>>
      BY <2>10 DEF Burst!First, Burst!Drain, Burst!Receive
    <3>2. received \in Seq(0 .. BURST) /\ queue \in Seq(0 .. BURST)
      BY <2>2 DEF Burst!TypeOK
    <3>3. /\ received' \in Seq(0 .. BURST) /\ queue' \in Seq(0 .. BURST)
          /\ Len(queue') = Len(queue) - 1
      BY <3>1, <3>2
    <3>4. received' \o queue' = received \o queue
      BY <2>1, <3>1, <3>2, Received
    <3>5. Burst!TypeOK'
      <4>1. Len(queue') <= MQ_MAXMSG
        BY <2>1, <2>2, <3>2, <3>3 DEF Burst!TypeOK
      <4> QED
        BY <2>2, <3>1, <3>3, <4>1 DEF Burst!TypeOK
    <3>6. Burst!InOrder'
      BY <2>3, <2>4, <3>1, <3>4, <3>5
    <3> QED
      BY <3>1, <3>5, <3>6 DEF BurstInv
  <2>11. CASE Burst!SetNonblock \/ Burst!DrainEnds
    <3>1. /\ active(pcBurst) /\ active(pcBurst)' /\ nonblock' \in BOOLEAN
          /\ UNCHANGED <<queue, i, blocked, received, refused, runs, killed>>
      BY <2>2, <2>11 DEF Burst!SetNonblock, Burst!DrainEnds, Burst!TypeOK
    <3>2. Burst!TypeOK'
      BY <2>2, <3>1 DEF Burst!TypeOK
    <3> QED
      BY <3>1, <3>2 DEF BurstInv, Burst!InOrder
  <2>12. CASE Burst!Close
    <3>1. /\ pcBurst = "join" /\ i > BURST /\ queue' = << >> /\ nonblock' = FALSE
          /\ pcBurst' = "done" /\ UNCHANGED <<i, blocked, received, refused, runs, killed>>
      BY <2>12 DEF Burst!Close
    <3>2. Len(<< >>) = 0 /\ << >> \in Seq(0 .. BURST)
      OBVIOUS
    <3>3. nonblock' \in BOOLEAN
      BY <3>1
    <3>4. Burst!TypeOK' /\ i = BURST + 1
      <4>1. /\ i > BURST /\ queue' = << >> /\ pcBurst' = "done"
            /\ UNCHANGED <<i, blocked, received, refused, runs, killed>>
        BY <3>1
      <4> QED
        BY <2>2, <3>2, <3>3, <4>1 DEF Burst!TypeOK
    <3> QED
      BY <3>1, <3>2, <3>4 DEF BurstInv, Burst!InOrder
  <2>13. CASE Burst!Again \/ Burst!Killed
    <3>1. /\ runs < MaxRuns /\ runs' = runs + 1
          /\ pcBurst' = "open" /\ i' = 0 /\ blocked' = FALSE /\ nonblock' = FALSE
          /\ received' = << >> /\ refused' = {}
          /\ \/ pcBurst = "done" /\ UNCHANGED <<queue, killed>>
             \/ killed' = TRUE /\ queue' = [n \in DOMAIN queue |-> 0]
      BY <2>13 DEF Burst!Again, Burst!Killed, Burst!NextRun
    <3>2. queue \in Seq(0 .. BURST) /\ Len(queue) <= MQ_MAXMSG
      BY <2>2 DEF Burst!TypeOK
    <3>3. /\ queue' \in Seq(0 .. BURST) /\ Len(queue') <= MQ_MAXMSG
          /\ \A n \in 1 .. Len(queue') : queue'[n] = 0
      BY <3>1, <3>2 DEF BurstInv
    <3>4. ~killed' => queue' = << >>
      BY <3>1 DEF BurstInv
    <3>5. blocked' \in BOOLEAN /\ nonblock' \in BOOLEAN
      BY <3>1
    <3>6. killed' \in BOOLEAN
      BY <2>2, <3>1 DEF Burst!TypeOK
    <3>7. << >> \in Seq(0 .. BURST)
      OBVIOUS
    <3>8. Burst!TypeOK'
      <4>1. /\ runs' \in 1 .. MaxRuns /\ pcBurst' = "open" /\ i' = 0
            /\ received' = << >> /\ refused' = {}
        BY <2>2, <3>1 DEF Burst!TypeOK
      <4> QED
        BY <3>3, <3>5, <3>6, <3>7, <4>1 DEF Burst!TypeOK
    <3> QED
      BY <3>1, <3>3, <3>4, <3>8 DEF BurstInv, Burst!InOrder
  <2>14. CASE UNCHANGED Burst!vars
    <3>1. UNCHANGED <<queue, nonblock, pcBurst, i, blocked, received, refused, runs, killed>>
      BY <2>14 DEF Burst!vars
    <3>2. Burst!TypeOK'
      BY <2>2, <3>1, Zenon DEF Burst!TypeOK
    <3>3. Burst!InOrder'
      BY <3>1 DEF BurstInv, Burst!InOrder
    <3> QED
      BY <3>1, <3>2, <3>3, Zenon DEF BurstInv
  <2> QED
    BY <2>5, <2>6, <2>7, <2>8, <2>9, <2>10, <2>11, <2>12, <2>13, <2>14
    DEF Burst!Next, Burst!MainStep, Burst!ProducerStep
<1> QED
  BY <1>2, <1>3, PTL DEF Burst!Spec

(* The drain ends at an empty queue: all that was sent is received.        *)
LEMMA DrainTakesAll ==
  ASSUME BurstInv, Burst!Next, pcBurst = "drain", pcBurst' = "join"
  PROVE  /\ {received[n] : n \in DOMAIN received} \ {Burst!Stale} = (1 .. i - 1) \ refused
         /\ ~killed => received = [n \in 1 .. i - 1 |-> n]
<1>1. queue = << >>
  BY DEF Burst!Next, Burst!MainStep, Burst!ProducerStep, Burst!Open, Burst!OpenFails,
     Burst!CreateFails, Burst!First, Burst!SetNonblock, Burst!Drain, Burst!Receive,
     Burst!DrainEnds, Burst!Close, Burst!Send, Burst!SendBlocks, Burst!SendRefused,
     Burst!Again, Burst!Killed, Burst!NextRun
<1>2. received \in Seq(Burst!Stale .. BURST)
  BY DEF BurstInv, Burst!TypeOK
<1>3. received \o queue = received
  BY <1>1, <1>2, ConcatEmptySeq
<1> QED
  BY <1>3 DEF BurstInv, Burst!InOrder

(* For every length of the burst that the queue takes, however often the   *)
(* program is killed: main obtains what is sent in its order and without   *)
(* gaps, and has all that was sent when it stops reading. What is sent     *)
(* after that is removed unread.                                           *)
THEOREM BurstDrained == Spec => BurstInOrder
<1>1. BurstInv /\ [Burst!Next]_(Burst!vars)
        => [pcBurst = "drain" /\ pcBurst' = "join" =>
              /\ {received[n] : n \in DOMAIN received} \ {Burst!Stale} = (1 .. i - 1) \ refused
              /\ ~killed => received = [n \in 1 .. i - 1 |-> n]]_(Burst!vars)
  BY DrainTakesAll
<1>2. BurstInv => Burst!InOrder
  BY DEF BurstInv
<1> QED
  BY <1>1, <1>2, LabRuns, BurstHolds, PTL DEF BurstInOrder, Burst!BurstInOrder, Burst!Spec
-----------------------------------------------------------------------------
(* int.c. main counts its rounds, and the handler has counted every signal. *)
AlarmInv ==
  /\ Alarm!TypeOK /\ messages \in Nat
  /\ pcAlarm = "pause" => round < MESSAGES

LEMMA AlarmHolds == Alarm!Spec => []AlarmInv
<1>1. EVENTS \in Nat \ {0} /\ MESSAGES \in Nat /\ MaxLate \in Nat
  BY NumbersAssumption
<1>2. \A n \in Nat : n * EVENTS \in Nat /\ (n + 1) * EVENTS = n * EVENTS + EVENTS
  BY <1>1
<1>3. Alarm!Init => AlarmInv
  BY <1>1 DEF Alarm!Init, AlarmInv, Alarm!TypeOK
<1>4. AlarmInv /\ [Alarm!Next]_(Alarm!vars) => AlarmInv'
  <2> SUFFICES ASSUME AlarmInv, [Alarm!Next]_(Alarm!vars) PROVE AlarmInv'
    OBVIOUS
  <2>1. ASSUME Alarm!OnAlarm
        PROVE  /\ ticks' \in 0 .. EVENTS - 1 /\ messages' \in Nat
               /\ messages' * EVENTS + ticks' = round + lateTicks + 1
    <3> USE DEF AlarmInv, Alarm!TypeOK
    <3>1. CASE ticks + 1 = EVENTS
      <4>1. ticks' = 0 /\ messages' = messages + 1
        BY <2>1, <3>1 DEF Alarm!OnAlarm
      <4> QED
        BY <1>1, <1>2, <3>1, <4>1
    <3>2. CASE ticks + 1 # EVENTS
      <4>1. ticks' = ticks + 1 /\ messages' = messages
        BY <2>1, <3>2 DEF Alarm!OnAlarm
      <4> QED
        BY <1>1, <1>2, <3>2, <4>1
    <3> QED
      BY <3>1, <3>2
  <2>2. CASE Alarm!Tick
    BY <1>1, <1>2, <2>1, <2>2 DEF Alarm!Tick, AlarmInv, Alarm!TypeOK
  <2>3. CASE Alarm!LateTick
    BY <1>1, <1>2, <2>1, <2>3 DEF Alarm!LateTick, AlarmInv, Alarm!TypeOK
  <2>4. CASE Alarm!Pause \/ Alarm!Stop
    BY <2>4 DEF Alarm!Pause, Alarm!Stop, AlarmInv, Alarm!TypeOK
  <2>5. CASE UNCHANGED Alarm!vars
    BY <2>5 DEF Alarm!vars, AlarmInv, Alarm!TypeOK
  <2> QED
    BY <2>2, <2>3, <2>4, <2>5 DEF Alarm!Next
<1> QED
  BY <1>3, <1>4, PTL DEF Alarm!Spec

(* traffic_controller.c.                                                   *)
LEMMA LightHolds == Light!Spec => []Light!TypeOK
<1> USE DEF Light!TypeOK, Light!States
<1>1. TRUE \in BOOLEAN /\ FALSE \in BOOLEAN
  OBVIOUS
<1>2. Light!Init => Light!TypeOK
  BY <1>1 DEF Light!Init
<1>3. Light!TypeOK /\ [Light!Next]_(Light!vars) => Light!TypeOK'
  <2> SUFFICES ASSUME Light!TypeOK, [Light!Next]_(Light!vars) PROVE Light!TypeOK'
    OBVIOUS
  <2>1. CASE Light!Show \/ Light!Arm \/ Light!Waited
    BY <2>1 DEF Light!Show, Light!Arm, Light!Waited
  <2>2. CASE Light!Switch
    <3>1. expired' \in BOOLEAN /\ nsec' \in BOOLEAN
      BY <1>1, <2>2 DEF Light!Switch
    <3> QED
      BY <2>2, <3>1 DEF Light!Switch, Light!Successor
  <2>3. CASE Light!Tick
    <3>1. expired' \in BOOLEAN /\ armed' \in BOOLEAN
      BY <1>1, <2>3 DEF Light!Tick
    <3> QED
      BY <2>3, <3>1 DEF Light!Tick
  <2>4. CASE UNCHANGED Light!vars
    BY <2>4 DEF Light!vars
  <2> QED
    BY <2>1, <2>2, <2>3, <2>4 DEF Light!Next, Light!Step
<1> QED
  BY <1>2, <1>3, PTL DEF Light!Spec

(* poll_inputs.c. A device for which poll has returned keeps its event     *)
(* until the scan comes to it: only the scan reads.                        *)
InputsInv ==
  /\ Inputs!TypeOK
  /\ pcInputs = "scan" => \A d \in revents : d >= device => events[d] > 0
  /\ pcInputs = "report" => \A d \in revents : d > device => events[d] > 0

LEMMA InputsHold == Inputs!Spec => []InputsInv
<1>1. NUM_DEVICES \in Nat \ {0} /\ EVENT_BUFFER \in Nat \ {0, 1}
  BY NumbersAssumption
<1> USE <1>1 DEF InputsInv, Inputs!TypeOK, Inputs!Devices
<1>2. Inputs!Init => InputsInv
  BY DEF Inputs!Init
<1>3. InputsInv /\ [Inputs!Next]_(Inputs!vars) => InputsInv'
  <2> SUFFICES ASSUME InputsInv, [Inputs!Next]_(Inputs!vars) PROVE InputsInv'
    OBVIOUS
  <2>1. CASE Inputs!Open
    BY <2>1 DEF Inputs!Open
  <2>2. CASE Inputs!Poll
    BY <2>2 DEF Inputs!Poll
  <2>3. CASE Inputs!Scan
    <3>1. CASE device \in revents \cap plugged
      BY <2>3, <3>1 DEF Inputs!Scan
    <3>2. CASE device \notin revents \cap plugged
      BY <2>3, <3>2 DEF Inputs!Scan, Inputs!ToNextDevice
    <3> QED
      BY <3>1, <3>2
  <2>4. CASE Inputs!Report
    BY <2>4 DEF Inputs!Report, Inputs!ToNextDevice
  <2>5. ASSUME NEW d \in Inputs!Devices, Inputs!Happens(d) PROVE InputsInv'
    <3>1. /\ events' \in [Inputs!Devices -> 0 .. EVENT_BUFFER]
          /\ \A c \in Inputs!Devices : events[c] > 0 => events'[c] > 0
      BY <2>5 DEF Inputs!Happens
    <3> QED
      BY <2>5, <3>1 DEF Inputs!Happens
  <2>6. ASSUME NEW d \in Inputs!Devices, Inputs!Unplug(d) PROVE InputsInv'
    BY <2>6 DEF Inputs!Unplug
  <2>7. CASE UNCHANGED Inputs!vars
    BY <2>7 DEF Inputs!vars
  <2> QED
    BY <2>1, <2>2, <2>3, <2>4, <2>5, <2>6, <2>7 DEF Inputs!Next, Inputs!Step
<1> QED
  BY <1>2, <1>3, PTL DEF Inputs!Spec
-----------------------------------------------------------------------------
LEMMA LeastNatural ==
  ASSUME NEW S, S \subseteq Nat, S # {}
  PROVE  \E m \in S : \A n \in S : ~(n < m)
<1> DEFINE less == OpToRel(<, Nat)
<1>1. IsWellFoundedOn(less, Nat)
  BY NatLessThanWellFounded, Zenon
<1>2. \A m, n \in Nat : n < m => <<n, m>> \in less
  BY DEF OpToRel
<1> HIDE DEF less
<1>3. PICK m \in S : \A n \in S : ~(<<n, m>> \in less)
  BY <1>1, WFMin, Zenon
<1> QED
  BY <1>2, <1>3

(* mempool.c. What is reached from the head does not depend on how it is   *)
(* found: whatever function satisfies the recursion is Node.               *)
LEMMA NodeIs ==
  ASSUME NEW w,
         w = [n \in 0 .. BLOCK_COUNT |->
                IF n = 0 THEN head ELSE IF w[n - 1] = 0 THEN 0 ELSE next[w[n - 1]]]
  PROVE  Memory!Node = w
<1> DEFINE Def(f) == [n \in 0 .. BLOCK_COUNT |->
                        IF n = 0 THEN head ELSE IF f[n - 1] = 0 THEN 0 ELSE next[f[n - 1]]]
<1>1. Memory!Node = CHOOSE f : f = Def(f)
  BY Zenon DEF Memory!Node, Memory!NULL
<1>2. w = Def(w)
  OBVIOUS
<1> HIDE DEF Def
<1>3. Memory!Node = Def(Memory!Node)
  BY <1>1, <1>2, Zenon
<1> DEFINE f == Memory!Node
           wrong == {n \in 0 .. BLOCK_COUNT : f[n] # w[n]}
<1>4. f = Def(f)
  BY <1>3
<1> HIDE DEF f
<1>5. ASSUME wrong # {} PROVE FALSE
  <2>1. wrong \subseteq Nat
    BY NumbersAssumption
  <2>2. PICK m \in wrong : \A n \in wrong : ~(n < m)
    BY <1>5, <2>1, LeastNatural
  <2>3. m \in 0 .. BLOCK_COUNT /\ f[m] # w[m]
    OBVIOUS
  <2>4. m # 0 => m - 1 \in 0 .. BLOCK_COUNT /\ f[m - 1] = w[m - 1]
    BY <2>2, <2>3, NumbersAssumption
  <2>5. f[m] = IF m = 0 THEN head ELSE IF f[m - 1] = 0 THEN 0 ELSE next[f[m - 1]]
    BY <1>4, <2>3 DEF Def
  <2>6. w[m] = IF m = 0 THEN head ELSE IF w[m - 1] = 0 THEN 0 ELSE next[w[m - 1]]
    BY <1>2, <2>3 DEF Def
  <2> QED
    BY <2>3, <2>4, <2>5, <2>6
<1>6. f = [n \in 0 .. BLOCK_COUNT |-> f[n]]
  BY <1>4 DEF Def
<1>7. w = [n \in 0 .. BLOCK_COUNT |-> w[n]]
  BY <1>2 DEF Def
<1>8. f = w
  <2>1. \A n \in 0 .. BLOCK_COUNT : f[n] = w[n]
    BY <1>5
  <2> HIDE DEF wrong
  <2> QED
    BY <1>6, <1>7, <2>1
<1> QED
  BY <1>8 DEF f

(* The sequence l is a list of different blocks that starts at h and goes  *)
(* on along nx.                                                            *)
Listed(l, h, nx) ==
  /\ l \in Seq(Memory!Blocks)
  /\ \A j, k \in 1 .. Len(l) : l[j] = l[k] => j = k
  /\ h = IF Len(l) = 0 THEN 0 ELSE l[1]
  /\ \A k \in 1 .. Len(l) : nx[l[k]] = IF k = Len(l) THEN 0 ELSE l[k + 1]

InList(l) == {l[k] : k \in 1 .. Len(l)}

LEMMA ListFits ==
  ASSUME NEW l, NEW h, NEW nx, Listed(l, h, nx)
  PROVE  Len(l) \in 0 .. BLOCK_COUNT
<1>1. l \in Seq(1 .. BLOCK_COUNT) /\ Len(l) \in Nat /\ BLOCK_COUNT \in Nat
  BY NumbersAssumption DEF Listed, Memory!Blocks
<1>2. l \in Injection(1 .. Len(l), 1 .. BLOCK_COUNT)
  BY <1>1 DEF Listed, Injection, IsInjective
<1>3. \A n \in Nat : IsFiniteSet(1 .. n) /\ Cardinality(1 .. n) = n
  BY FS_Interval
<1>4. /\ IsFiniteSet(1 .. BLOCK_COUNT) /\ Cardinality(1 .. BLOCK_COUNT) = BLOCK_COUNT
      /\ Cardinality(1 .. Len(l)) = Len(l)
  BY <1>1, <1>3
<1>5. Cardinality(1 .. Len(l)) <= Cardinality(1 .. BLOCK_COUNT)
  BY <1>2, <1>4, FS_Injection, Zenon
<1> QED
  BY <1>1, <1>4, <1>5

FreeListed == \A l : Listed(l, head, next) => Memory!FreeList = InList(l)

LEMMA FreeIsListed == FreeListed
<1> SUFFICES ASSUME NEW l, Listed(l, head, next) PROVE Memory!FreeList = InList(l)
  BY DEF FreeListed
<1>1. /\ l \in Seq(1 .. BLOCK_COUNT) /\ Len(l) \in 0 .. BLOCK_COUNT /\ BLOCK_COUNT \in Nat
      /\ \A k \in 1 .. Len(l) : l[k] \in 1 .. BLOCK_COUNT
  BY NumbersAssumption, ListFits DEF Listed, Memory!Blocks
<1> DEFINE w == [n \in 0 .. BLOCK_COUNT |-> IF n < Len(l) THEN l[n + 1] ELSE 0]
<1>2. ASSUME NEW n \in 0 .. BLOCK_COUNT
      PROVE  w[n] = IF n = 0 THEN head ELSE IF w[n - 1] = 0 THEN 0 ELSE next[w[n - 1]]
  <2>1. CASE n = 0
    BY <1>1, <2>1 DEF Listed
  <2>2. CASE n # 0 /\ n - 1 < Len(l)
    <3>1. n \in 1 .. Len(l) /\ w[n - 1] = l[n] /\ l[n] # 0
      BY <1>1, <2>2
    <3>2. next[l[n]] = IF n = Len(l) THEN 0 ELSE l[n + 1]
      BY <3>1 DEF Listed
    <3>3. w[n] = IF n = Len(l) THEN 0 ELSE l[n + 1]
      BY <1>1, <3>1
    <3> HIDE DEF w
    <3> QED
      BY <2>2, <3>1, <3>2, <3>3
  <2>3. CASE n # 0 /\ n - 1 >= Len(l)
    BY <1>1, <2>3
  <2> QED
    BY <1>1, <2>1, <2>2, <2>3
<1>3. w = [n \in 0 .. BLOCK_COUNT |-> w[n]]
  OBVIOUS
<1>4. ASSUME NEW n \in 0 .. BLOCK_COUNT
      PROVE  w[n] = 0 \/ (n + 1 \in 1 .. Len(l) /\ w[n] = l[n + 1])
  BY <1>1
<1>5. ASSUME NEW k \in 1 .. Len(l)
      PROVE  k - 1 \in 0 .. BLOCK_COUNT /\ w[k - 1] = l[k] /\ l[k] # 0
  BY <1>1
<1> HIDE DEF w
<1>6. w = [n \in 0 .. BLOCK_COUNT |->
             IF n = 0 THEN head ELSE IF w[n - 1] = 0 THEN 0 ELSE next[w[n - 1]]]
  BY <1>2, <1>3
<1>7. Memory!Node = w
  BY <1>6, NodeIs
<1>8. Memory!FreeList = {w[n] : n \in 0 .. BLOCK_COUNT} \ {0}
  BY <1>7, Zenon DEF Memory!FreeList, Memory!NULL
<1>9. {w[n] : n \in 0 .. BLOCK_COUNT} \ {0} = InList(l)
  <2>1. ASSUME NEW n \in 0 .. BLOCK_COUNT, w[n] # 0 PROVE w[n] \in InList(l)
    BY <1>4, <2>1 DEF InList
  <2>2. ASSUME NEW k \in 1 .. Len(l)
        PROVE  l[k] \in {w[n] : n \in 0 .. BLOCK_COUNT} \ {0}
    BY <1>5
  <2> QED
    BY <2>1, <2>2 DEF InList
<1> QED
  BY <1>8, <1>9

(* The free blocks are a list, and the user holds none of them.            *)
PoolInv ==
  /\ Memory!TypeOK
  /\ ~pool => head = 0 /\ ptrs = {}
  /\ \E l : Listed(l, head, next) /\ InList(l) \cap ptrs = {}

LEMMA PoolStarts == Memory!Init => PoolInv /\ Memory!BlockPool!SetInit
<1> SUFFICES ASSUME Memory!Init PROVE PoolInv /\ Memory!BlockPool!SetInit
  OBVIOUS
<1>1. /\ head = 0 /\ ptrs = {} /\ ptr = 0 /\ ~pool /\ pool \in BOOLEAN
      /\ next = [b \in Memory!Blocks |-> 0]
  BY DEF Memory!Init, Memory!NULL
<1>2. Memory!TypeOK
  BY <1>1 DEF Memory!TypeOK, Memory!NULL
<1>3. << >> \in Seq(Memory!Blocks) /\ Len(<< >>) = 0
  OBVIOUS
<1>4. Listed(<< >>, head, next) /\ InList(<< >>) = {}
  BY <1>1, <1>3 DEF Listed, InList
<1>5. Memory!FreeList = {}
  BY <1>4, FreeIsListed DEF FreeListed
<1> QED
  BY <1>1, <1>2, <1>4, <1>5 DEF PoolInv, Memory!BlockPool!SetInit, Memory!NULL

LEMMA PoolStep ==
  PoolInv /\ [Memory!Next]_(Memory!vars) =>
    PoolInv' /\ [Memory!BlockPool!SetNext]_(Memory!BlockPool!setVars)
<1> SUFFICES ASSUME PoolInv, [Memory!Next]_(Memory!vars)
             PROVE  PoolInv' /\ [Memory!BlockPool!SetNext]_(Memory!BlockPool!setVars)
  OBVIOUS
<1> USE DEF Memory!NULL
<1>1. /\ Memory!TypeOK /\ pool \in BOOLEAN /\ next \in [Memory!Blocks -> Memory!Blocks \cup {0}]
      /\ head \in Memory!Blocks \cup {0} /\ ptr \in Memory!Blocks \cup {0}
      /\ ptrs \subseteq Memory!Blocks
      /\ ~pool => head = 0 /\ ptrs = {}
  BY DEF PoolInv, Memory!TypeOK
<1>2. BLOCK_COUNT \in Nat /\ Memory!Blocks = 1 .. BLOCK_COUNT /\ 0 \notin Memory!Blocks
  BY NumbersAssumption DEF Memory!Blocks
<1>3. PICK l : Listed(l, head, next) /\ InList(l) \cap ptrs = {}
  BY DEF PoolInv
<1>4. Memory!FreeList = InList(l)
  BY <1>3, FreeIsListed DEF FreeListed
<1>5. FreeListed'
  BY FreeIsListed, PTL
<1>6. /\ l \in Seq(Memory!Blocks) /\ Len(l) \in Nat /\ \A k \in 1 .. Len(l) : l[k] \in Memory!Blocks
      /\ \A j, k \in 1 .. Len(l) : l[j] = l[k] => j = k
      /\ head = IF Len(l) = 0 THEN 0 ELSE l[1]
      /\ \A k \in 1 .. Len(l) : next[l[k]] = IF k = Len(l) THEN 0 ELSE l[k + 1]
  BY <1>3 DEF Listed
(* A list for the state after the step is enough.                          *)
<1>7. ASSUME NEW m, Listed(m, head', next'), InList(m) \cap ptrs' = {},
             Memory!TypeOK', ~pool' => head' = 0 /\ ptrs' = {}
      PROVE  PoolInv' /\ Memory!FreeList' = InList(m)
  <2>1. Memory!FreeList' = InList(m)
    BY <1>5, <1>7 DEF FreeListed
  <2> QED
    BY <1>7, <2>1 DEF PoolInv
<1>8. CASE Memory!PoolCreate
  <2>1. /\ ~pool /\ pool' = TRUE /\ next' = [b \in Memory!Blocks |-> b - 1]
        /\ head' = BLOCK_COUNT /\ ptrs' = ptrs /\ ptr' = ptr
    BY <1>8 DEF Memory!PoolCreate
  <2> DEFINE m == [k \in 1 .. BLOCK_COUNT |-> BLOCK_COUNT + 1 - k]
  <2>2. /\ m \in Seq(Memory!Blocks) /\ Len(m) = BLOCK_COUNT
        /\ \A k \in 1 .. BLOCK_COUNT : m[k] = BLOCK_COUNT + 1 - k
    BY <1>2
  <2> HIDE DEF m
  <2>3. Listed(m, head', next')
    <3>1. \A j, k \in 1 .. Len(m) : m[j] = m[k] => j = k
      BY <1>2, <2>2
    <3>2. head' = IF Len(m) = 0 THEN 0 ELSE m[1]
      BY <1>2, <2>1, <2>2
    <3>3. ASSUME NEW k \in 1 .. Len(m)
          PROVE  next'[m[k]] = IF k = Len(m) THEN 0 ELSE m[k + 1]
      <4>1. m[k] \in Memory!Blocks /\ m[k] = BLOCK_COUNT + 1 - k
        BY <1>2, <2>2
      <4>2. next'[m[k]] = BLOCK_COUNT - k
        BY <1>2, <2>1, <4>1
      <4>3. k # Len(m) => m[k + 1] = BLOCK_COUNT - k
        BY <1>2, <2>2
      <4>4. k = Len(m) => BLOCK_COUNT - k = 0
        BY <1>2, <2>2
      <4> QED
        BY <4>2, <4>3, <4>4, Zenon
    <3> QED
      BY <2>2, <3>1, <3>2, <3>3 DEF Listed
  <2>4. InList(m) = Memory!Blocks
    <3>1. ASSUME NEW b \in Memory!Blocks PROVE b \in InList(m)
      <4>1. BLOCK_COUNT + 1 - b \in 1 .. BLOCK_COUNT /\ m[BLOCK_COUNT + 1 - b] = b
        BY <1>2, <2>2
      <4> QED
        BY <2>2, <4>1 DEF InList
    <3>2. InList(m) \subseteq Memory!Blocks
      BY <1>2, <2>2 DEF InList
    <3> QED
      BY <3>1, <3>2
  <2>5. Memory!TypeOK'
    <3>1. pool' \in BOOLEAN
      BY <2>1
    <3>2. next' \in [Memory!Blocks -> Memory!Blocks \cup {0}] /\ head' \in Memory!Blocks \cup {0}
      BY <1>2, <2>1
    <3> QED
      BY <1>1, <2>1, <3>1, <3>2 DEF Memory!TypeOK
  <2>6. ptrs = {} /\ Memory!FreeList = {}
    <3>1. head = 0 /\ ptrs = {}
      BY <1>1, <2>1
    <3>2. Len(l) = 0
      BY <1>2, <1>6, <3>1
    <3> QED
      BY <1>4, <3>1, <3>2 DEF InList
  <2>7. PoolInv' /\ Memory!FreeList' = Memory!Blocks
    BY <1>7, <2>1, <2>3, <2>4, <2>5, <2>6
  <2> QED
    BY <2>1, <2>6, <2>7 DEF Memory!BlockPool!SetNext, Memory!BlockPool!Create
<1>9. CASE Memory!PoolAlloc /\ head = 0
  <2>1. ptr' = 0 /\ UNCHANGED <<head, ptrs, pool, next>>
    BY <1>9 DEF Memory!PoolAlloc
  <2>2. Len(l) = 0
    BY <1>2, <1>6, <1>9
  <2>3. Memory!FreeList = {}
    BY <1>4, <2>2 DEF InList
  <2>4. Memory!TypeOK'
    BY <1>1, <2>1 DEF Memory!TypeOK
  <2>5. PoolInv' /\ Memory!FreeList' = InList(l)
    BY <1>1, <1>3, <1>7, <2>1, <2>4
  <2> QED
    BY <1>4, <2>1, <2>3, <2>5 DEF Memory!BlockPool!SetNext, Memory!BlockPool!Refuse
<1>10. CASE Memory!PoolAlloc /\ head # 0
  <2>1. /\ ptr' = head /\ head' = next[head] /\ ptrs' = ptrs \cup {head}
        /\ UNCHANGED <<pool, next>>
    BY <1>10 DEF Memory!PoolAlloc
  <2>2. Len(l) \in Nat \ {0} /\ head = l[1] /\ head \in Memory!Blocks
    BY <1>1, <1>6, <1>10
  <2> DEFINE m == Tail(l)
  <2>3. /\ m \in Seq(Memory!Blocks) /\ Len(m) = Len(l) - 1
        /\ \A k \in 1 .. Len(l) - 1 : m[k] = l[k + 1]
    BY <1>6, <2>2
  <2> HIDE DEF m
  <2>4. Listed(m, head', next')
    <3>1. ASSUME NEW j \in 1 .. Len(m), NEW k \in 1 .. Len(m), m[j] = m[k] PROVE j = k
      <4>1. j + 1 \in 1 .. Len(l) /\ k + 1 \in 1 .. Len(l) /\ l[j + 1] = l[k + 1]
        BY <2>2, <2>3, <3>1
      <4>2. j + 1 = k + 1
        BY <1>6, <4>1
      <4> QED
        BY <2>2, <2>3, <4>2
    <3>2. head' = IF Len(m) = 0 THEN 0 ELSE m[1]
      <4>1. 1 \in 1 .. Len(l) /\ head' = next[l[1]]
        BY <2>1, <2>2
      <4>2. next[l[1]] = IF 1 = Len(l) THEN 0 ELSE l[1 + 1]
        BY <1>6, <4>1, Zenon
      <4>3. Len(m) # 0 => m[1] = l[1 + 1]
        BY <2>2, <2>3
      <4> QED
        BY <2>2, <2>3, <4>1, <4>2, <4>3
    <3>3. ASSUME NEW k \in 1 .. Len(m)
          PROVE  next'[m[k]] = IF k = Len(m) THEN 0 ELSE m[k + 1]
      <4>1. k + 1 \in 1 .. Len(l) /\ m[k] = l[k + 1]
        BY <2>2, <2>3
      <4>2. next'[m[k]] = IF k + 1 = Len(l) THEN 0 ELSE l[(k + 1) + 1]
        BY <1>6, <2>1, <4>1
      <4>3. k # Len(m) => m[k + 1] = l[(k + 1) + 1]
        BY <2>2, <2>3
      <4> QED
        BY <2>2, <2>3, <4>2, <4>3
    <3> QED
      BY <2>3, <3>1, <3>2, <3>3 DEF Listed
  <2>5. InList(m) = InList(l) \ {head}
    <3>1. ASSUME NEW k \in 1 .. Len(m) PROVE m[k] \in InList(l) \ {head}
      <4>1. k + 1 \in 1 .. Len(l) /\ k + 1 # 1 /\ 1 \in 1 .. Len(l) /\ m[k] = l[k + 1]
        BY <2>2, <2>3
      <4> QED
        BY <1>6, <2>2, <4>1 DEF InList
    <3>2. ASSUME NEW k \in 1 .. Len(l), l[k] # head PROVE l[k] \in InList(m)
      <4>1. k - 1 \in 1 .. Len(m) /\ m[k - 1] = l[k]
        BY <2>2, <2>3, <3>2
      <4> QED
        BY <4>1 DEF InList
    <3> QED
      BY <3>1, <3>2 DEF InList
  <2>6. Memory!TypeOK'
    <3>1. head' \in Memory!Blocks \cup {0} /\ ptr' \in Memory!Blocks \cup {0}
          /\ ptrs' \subseteq Memory!Blocks
      BY <1>1, <2>1, <2>2
    <3> QED
      BY <1>1, <2>1, <3>1 DEF Memory!TypeOK
  <2>7. PoolInv' /\ Memory!FreeList' = InList(l) \ {head}
    BY <1>1, <1>3, <1>7, <1>10, <2>1, <2>4, <2>5, <2>6
  <2>8. head \in InList(l)
    BY <2>2 DEF InList
  <2> QED
    BY <1>4, <2>1, <2>7, <2>8 DEF Memory!BlockPool!SetNext, Memory!BlockPool!Allocate
<1>11. ASSUME NEW b \in Memory!Blocks, Memory!UserWrites(b)
       PROVE  PoolInv' /\ [Memory!BlockPool!SetNext]_(Memory!BlockPool!setVars)
  <2>1. PICK word \in Memory!Blocks \cup {0} :
          /\ b \in ptrs /\ next' = [next EXCEPT ![b] = word]
          /\ UNCHANGED <<pool, head, ptrs, ptr>>
    BY <1>11 DEF Memory!UserWrites
  <2>2. \A k \in 1 .. Len(l) : l[k] # b
    BY <1>3, <2>1 DEF InList
  <2>3. Listed(l, head', next')
    BY <1>1, <1>6, <2>1, <2>2 DEF Listed
  <2>4. Memory!TypeOK'
    <3>1. next' \in [Memory!Blocks -> Memory!Blocks \cup {0}]
      BY <1>1, <2>1
    <3> QED
      BY <1>1, <2>1, <3>1 DEF Memory!TypeOK
  <2>5. PoolInv' /\ Memory!FreeList' = InList(l)
    BY <1>1, <1>3, <1>7, <2>1, <2>3, <2>4
  <2> QED
    BY <1>4, <2>1, <2>5 DEF Memory!BlockPool!setVars
<1>12. ASSUME NEW b \in Memory!Blocks, Memory!PoolFree(b)
       PROVE  PoolInv' /\ [Memory!BlockPool!SetNext]_(Memory!BlockPool!setVars)
  <2>1. /\ b \in ptrs /\ next' = [next EXCEPT ![b] = head] /\ head' = b /\ ptrs' = ptrs \ {b}
        /\ UNCHANGED <<pool, ptr>>
    BY <1>12 DEF Memory!PoolFree
  <2>2. \A k \in 1 .. Len(l) : l[k] # b
    BY <1>3, <2>1 DEF InList
  <2> DEFINE m == << b >> \o l
  <2>3. /\ m \in Seq(Memory!Blocks) /\ Len(m) = Len(l) + 1 /\ m[1] = b
        /\ \A k \in 1 .. Len(l) : m[k + 1] = l[k]
    BY <1>6
  <2> HIDE DEF m
  <2>4. \A k \in 1 .. Len(m) : k = 1 \/ (k - 1 \in 1 .. Len(l) /\ m[k] = l[k - 1])
    BY <1>6, <2>3
  <2>5. Listed(m, head', next')
    <3>1. ASSUME NEW j \in 1 .. Len(m), NEW k \in 1 .. Len(m), m[j] = m[k] PROVE j = k
      <4>1. CASE j = 1 \/ k = 1
        BY <2>2, <2>3, <2>4, <3>1, <4>1
      <4>2. CASE j # 1 /\ k # 1
        <5>1. j - 1 \in 1 .. Len(l) /\ k - 1 \in 1 .. Len(l) /\ l[j - 1] = l[k - 1]
          BY <2>4, <3>1, <4>2
        <5>2. j - 1 = k - 1
          BY <1>6, <5>1
        <5> QED
          BY <1>6, <2>3, <5>2
      <4> QED
        BY <4>1, <4>2
    <3>2. next'[b] = head /\ \A k \in 1 .. Len(l) : next'[l[k]] = next[l[k]]
      BY <1>1, <1>6, <2>1, <2>2
    <3>3. ASSUME NEW k \in 1 .. Len(m)
          PROVE  next'[m[k]] = IF k = Len(m) THEN 0 ELSE m[k + 1]
      <4>1. CASE k = 1
        BY <1>6, <2>3, <3>2, <4>1
      <4>2. CASE k # 1
        <5>1. k - 1 \in 1 .. Len(l) /\ m[k] = l[k - 1]
          BY <2>4, <4>2
        <5>2. next'[m[k]] = IF k - 1 = Len(l) THEN 0 ELSE l[k]
          BY <1>6, <3>2, <5>1
        <5>3. k # Len(m) => k \in 1 .. Len(l) /\ m[k + 1] = l[k]
          BY <1>6, <2>3
        <5> QED
          BY <1>6, <2>3, <5>2, <5>3
      <4> QED
        BY <4>1, <4>2
    <3>4. head' = IF Len(m) = 0 THEN 0 ELSE m[1]
      BY <1>6, <2>1, <2>3
    <3> QED
      BY <2>3, <3>1, <3>3, <3>4 DEF Listed
  <2>6. InList(m) = InList(l) \cup {b}
    <3>1. ASSUME NEW k \in 1 .. Len(m) PROVE m[k] \in InList(l) \cup {b}
      BY <2>3, <2>4 DEF InList
    <3>2. ASSUME NEW k \in 1 .. Len(l) PROVE l[k] \in InList(m)
      <4>1. k + 1 \in 1 .. Len(m) /\ m[k + 1] = l[k]
        BY <1>6, <2>3
      <4> QED
        BY <4>1 DEF InList
    <3>3. b \in InList(m)
      <4>1. 1 \in 1 .. Len(m)
        BY <1>6, <2>3
      <4> QED
        BY <2>3, <4>1 DEF InList
    <3> QED
      BY <3>1, <3>2, <3>3 DEF InList
  <2>7. Memory!TypeOK'
    <3>1. next' \in [Memory!Blocks -> Memory!Blocks \cup {0}]
      BY <1>1, <2>1
    <3> QED
      BY <1>1, <2>1, <3>1 DEF Memory!TypeOK
  <2>8. PoolInv' /\ Memory!FreeList' = InList(l) \cup {b}
    BY <1>1, <1>3, <1>7, <2>1, <2>5, <2>6, <2>7
  <2> QED
    BY <1>4, <2>1, <2>8 DEF Memory!BlockPool!SetNext, Memory!BlockPool!Release
<1>13. CASE Memory!PoolDestroy
  <2>1. /\ pool' = FALSE /\ head' = 0 /\ next' = [b \in Memory!Blocks |-> 0]
        /\ ptrs' = {} /\ ptr' = ptr
    BY <1>13 DEF Memory!PoolDestroy
  <2>2. << >> \in Seq(Memory!Blocks) /\ Len(<< >>) = 0
    OBVIOUS
  <2>3. Listed(<< >>, head', next') /\ InList(<< >>) = {}
    BY <2>1, <2>2 DEF Listed, InList
  <2>4. Memory!TypeOK'
    <3>1. pool' \in BOOLEAN /\ next' \in [Memory!Blocks -> Memory!Blocks \cup {0}]
      BY <2>1
    <3> QED
      BY <1>1, <2>1, <3>1 DEF Memory!TypeOK
  <2>5. PoolInv' /\ Memory!FreeList' = {}
    BY <1>7, <2>1, <2>3, <2>4
  <2> QED
    BY <2>1, <2>5 DEF Memory!BlockPool!SetNext, Memory!BlockPool!Destroy
<1>14. CASE UNCHANGED Memory!vars
  <2>1. UNCHANGED <<pool, next, head, ptrs, ptr>>
    BY <1>14 DEF Memory!vars
  <2>2. Memory!TypeOK'
    BY <1>1, <2>1 DEF Memory!TypeOK
  <2>3. PoolInv' /\ Memory!FreeList' = InList(l)
    BY <1>1, <1>3, <1>7, <2>1, <2>2
  <2> QED
    BY <1>4, <2>1, <2>3 DEF Memory!BlockPool!setVars
<1> QED
  BY <1>8, <1>9, <1>10, <1>11, <1>12, <1>13, <1>14 DEF Memory!Next

(* For every number of blocks, whatever users write into the blocks that   *)
(* they hold, the words of the list included: no block is handed out twice *)
(* or lost.                                                                *)
THEOREM NoBlockLost == Spec => PoolImplemented
BY LabRuns, PoolStarts, PoolStep, PTL
DEF PoolImplemented, Memory!PoolImplemented, Memory!BlockPool!SetSpec, Memory!Spec

LEMMA MemoryHolds == Memory!Spec => []PoolInv
BY PoolStarts, PoolStep, PTL DEF Memory!Spec
-----------------------------------------------------------------------------
(* The programs keep their types: each has them in its invariant.          *)
THEOREM TypeCorrect == Spec => []TypeOK
<1>1. EpollInv => Epoll!TypeOK
  BY DEF EpollInv, EpollTypes
<1>2. HandInv => Hand!TypeOK
  BY DEF HandInv, Hand!TypeOK
<1>3. TimedInv => Timed!TypeOK
  BY DEF TimedInv
<1>4. BurstInv => Burst!TypeOK
  BY DEF BurstInv
<1>5. SemInv => Sem!TypeOK
  BY DEF SemInv
<1>6. OutputInv => Output!TypeOK
  BY DEF OutputInv
<1>7. KeysInv => Keys!TypeOK
  BY DEF KeysInv
<1>8. AlarmInv => Alarm!TypeOK
  BY DEF AlarmInv
<1>9. PrioInv => Prio!TypeOK
  BY DEF PrioInv, PrioTypes, Prio!TypeOK, Prio!Threads
<1>10. PoolInv => Memory!TypeOK
  BY DEF PoolInv
<1>11. SamplingInv => Samples!TypeOK
  BY DEF SamplingInv
<1>12. InputsInv => Inputs!TypeOK
  BY DEF InputsInv
<1> QED
  BY LabRuns, EpollHolds, HandHolds, TimedHolds, BurstHolds, SemHolds, OutputHolds, KeysHold,
     AlarmHolds, PrioHolds, MemoryHolds, LightHolds, SamplesHold, InputsHold,
     <1>1, <1>2, <1>3, <1>4, <1>5, <1>6, <1>7, <1>8, <1>9, <1>10, <1>11, <1>12, PTL
  DEF TypeOK
=============================================================================
