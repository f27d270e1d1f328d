# Real-Time-Systems: TLA+ models, model checking and proofs

The repository is a set of laboratory programs on real-time programming with
POSIX: threads and mutexes, condition variables, a resource manager on a UNIX
socket, shared memory with semaphores, message queues, epoll, timed waits,
timers, a memory pool, latency measurements, a traffic light. This directory
models the programs whose correctness depends on concurrency, on kernel objects
that outlive a process, or on failures, checks the models with TLC and proves
their safety properties with TLAPS.

`PROJECT.json` lists the components, the TLC runs, a mutant of the code for each
checked property, the source lines each definition models (`map`), the
disagreements found (`findings`), the hazards of the code and the theorems.
Paths below are relative to `src/`.

## 1. Inventory

| Part | Sources | State | Operations | Hard behaviour | What makes it correct | Model |
|---|---|---|---|---|---|---|
| Shared-memory ring | `task3/src/shm_*` | segment (buffer, head, tail), two named semaphores, a `done` flag per process | wait, write or read, advance, post; handler `term`; start and exit | no lock, EINTR, kill and restart of either process over surviving kernel objects | bounded FIFO, slots apart, no invented tokens, both processes progress and stop | `ShmRing` |
| Resource manager | `task1/src/resource_manager/` | device (buffer, size, flags, permissions) under `dev.lock`; a thread per connection | accept, READ, WRITE, INFO, CLEAR, SETPERM, disconnect, signals | concurrent clients, a stream without message borders, a write under the lock that blocks, SIGPIPE, a failing `accept`, restart | device changed by whole permitted commands, own answer, a `client.c` ends the server only with a message longer than a `recv` | `ResMgr` |
| Shared variables | `task1/src/shared_mem/mutex.c`, `nomutex.c` | var1, var2, static var3, mutex | pass of `update_thread`, create, cancel, exit | loads and stores interleave, asynchronous cancellation | equal under the mutex | `SharedVars` |
| State machine | `task1/src/shared_mem/condvar.c` | state, cnt, one mutex, one condition variable | four threads, one per state | lost and spurious wakeups, work after the unlock | the documented cycle, for ever | `CondvarFsm` |
| Producer and consumer | `task1/src/shared_mem/prodcons.c` | state, product, mutex, condition variable | produce, consume | lost and spurious wakeups | every product handed over once | `ProdCons` |
| Message queues | `task3/src/posix_mq_*.c`, `common.h` | two named queues | client: send, receive three times; server: receive, upper case, answer | names against open descriptors, one reply queue for all clients, restart, kill | own answer; nobody waits for an answer that never comes | `MqEcho` |
| Epoll server | `task3/src/epoll_server.c` | listening socket, connections, eventfd | accept, read, echo, close | edge-triggered events, short reads, full sockets, SIGPIPE | no edge lost, echo in order, disconnections noticed | `EpollEcho` |
| Timed waits | `task2/src/timeout_{condvar,mq,poll}.c` | one event, one waiter | wait, start of the sender, wait again | late senders, spurious wakeups, a queue that outlives its process, a stale result | the second wait gets the event of this run | `TimedWait` |
| Semaphore demo | `task1/src/shared_mem/semex.c` | a named semaphore, five consumers and a producer in each copy | open, unlink, post, wait | copies started and killed between open and unlink | whoever opens it finds no counts | `SemEx` |
| Draining a queue | `task2/src/mq_clean_burst.c` | one queue, its `O_NONBLOCK` flag | block for the first message, drain; producer thread | the flag is shared with the producer, the drain ends while it may still send, a killed run leaves its messages | what was sent when the drain ends has been received, in order; main ends | `BurstDrain` |
| Introduction | `task1/src/intro/intro.c` | state, `changed`, mutex, condition variable | sense, output | an unlocked reset, spurious wakeups | no change lost | `Intro` |
| Interrupts | `task1/src/interrupt/` | a flag for each signal, a counter | handlers, main loop, `pause` | a handler between the test and the reset of its flag | every signal is reported; the loop waits for what it says | `SignalFlags`, `AlarmTicks` |
| Priority inversion | `task1/src/inv_prio/` | mutex with or without inheritance, three priorities | lock, sleep, unlock, create, join | the middle priority keeps the owner of the mutex from the processor | inheritance keeps it out; both scenarios end | `PrioInversion` |
| Memory pool | `task5/src/mempool.c` | free list inside the blocks | create, alloc, free, destroy | long sequences of calls, users that overwrite the links | no block handed out twice or lost | `MemPool` |
| Traffic controller | `task7/src/traffic_controller.c`, `common.h` | state, timer flag | controller loop, timer handler | uninitialised `it_value.tv_nsec`, a flag set by a signal | the lights go on | `TrafficLight` |
| Sampling of the clock | `task2/src/calctime2.c`, `sched_fifo_jitter.c` | next time, samples | sleep until, sample | wakeups that are late by more than a period | no drift | `Sampling` |
| Input devices | `task4/src/poll_inputs.c` | descriptors, `revents` | open, poll, read one event each | a device that floods or is gone | every device is read | `PollInputs` |
| Other timers, measurements | the rest of `task2/src/`, `task5/src/task*.c`, `task6/src/` | clock readings | measure | real time | statistical | not modelled |
| Other demos | `task4/src/read_input.c`, `task3/src/iov_demo.c`, `task1/tests/run_all.sh` | a descriptor | read and print | none that a model would show | | not modelled |

The programs do not call each other. Where several processes or threads form one
system (producer and consumer, server and clients, main and its threads) they
share memory, semaphores, a socket or a queue, and the module for the system
holds all of them.

## 2. Modules

    abstract       detailed         checked by        proved in
    -----------    -------------    --------------    ---------------
    BoundedFifo    ShmRing          MCShmRing         ShmRingProof, ShmFifoProof
    StateCycle     CondvarFsm       MCCondvarFsm      CondvarFsmProof
                   SharedVars       MCSharedVars      SharedVarsProof
    Device         ResMgr           MCResMgr          ResMgrProof, ResMgrClientProof
                   MqEcho           MCMqEcho          MqEchoProof
    BoundedFifo    ProdCons         MCLab             LabProof
    BlockSet       MemPool          MCLab             LabProof
                   TimedWait        MCLab, MCTimedWait     LabProof
                   AlarmTicks       MCLab, MCAlarmTicks    LabProof
                   EpollEcho, BurstDrain, SemEx, Intro, SignalFlags,
                   PrioInversion, TrafficLight, Sampling, PollInputs
                                    MCLab             LabProof

`MCLab` extends `Lab`, which instantiates the modules of the last seven lines.

`BoundedFifo`, `StateCycle`, `Device` and `BlockSet` are abstract specifications:
a FIFO of bounded capacity that hands over consecutive numbers, the state machine
in the heading of `condvar.c`, a device changed by one whole command at a time,
and a set of blocks of which each is free or handed out. The
detailed modules implement them under a refinement mapping (`INSTANCE ... WITH`).
A definition named in a comment as "Mutant" is a plausible bug in the definition
that follows it; it is not part of any specification.

### ShmRing

One action per step of the two loops; `pcP` and `pcC` say which step is next.
`tail = (tail + 1) % BUFFER_SIZE` of the consumer is a load and a store, because
a restarted producer may write `tail` between them. `linked` says whether the
kernel objects have their names: the three unlink calls at the end of the
producer are one step. `ProducerOpen` opens existing objects as they are
(`O_CREAT` without `O_EXCL` ignores the initial value of a semaphore) and the
two following steps reset the indices, which the code does at every start.
Signals set `done` and, since the result of `sem_wait` is ignored, may let a
blocked process go on without a token. `sa_flags` is never initialised, so a
restart of the call is possible too: the model has both. Kills happen at any
step; after a kill the program is started again.

### ResMgr

A stream is a sequence of units (a command word, an argument, a piece of data),
`recv` takes what has come up to its buffer's size, and `handle_command` takes
this portion for one command, whatever messages it came in. Commands that hold
`dev.lock` briefly are one step that needs the lock free; READ keeps it during
its write to the socket, WRITE between `memcpy` and the new size, and these are
separate steps. `Pipelined = FALSE` makes every client `client.c`, one message
and one answer; `TRUE` makes it like `nc`, which sends without waiting, does not
have to read and leaves at any time. A reply to a client that has left raises
SIGPIPE, which the server does not handle: the process ends and its socket file
stays. `client.c` sends an argument of any length; one that a `recv` of the server
(1023 bytes) cuts is two portions, both are answered, and `client.c` leaves after the
first answer. `asked` remembers the message after its client has left. When `accept`
fails with anything but EINTR, `main` leaves its loop, removes the socket file and
ends the process (`AcceptBreaks`), like `on_signal`. A long answer of READ that the
code writes in parts is one reply; an empty message, with which `client.c` waits for
an answer to nothing, is excluded by `ResMgrAssumption`.

### SharedVars

`program` chooses between `mutex.c` and `nomutex.c`; the two differ in the lock
around a pass. Every access to a volatile variable is a load or a store of its
own, `reg` is the value loaded last. Cancellation is asynchronous: a cancelled
thread may die between any two steps, holding the mutex. `main` prints its
values without the mutex and ends the process. The int counters are kept modulo
`VAR_MOD`. Left out: a `pthread_create` that refuses `SCHED_RR` without
privileges (its result is ignored and an indeterminate thread is cancelled
later), and the lock of stdout that a thread may own when it is cancelled inside
`printf`.

### CondvarFsm, ProdCons

The mutex, the wait set and the threads, one action per step. Returns of
`pthread_cond_wait` without a signal are bounded by a constant. `Transit` is the
body under the mutex; `cnt` of `condvar.c` is incremented after the unlock and
has a step of its own. In `prodcons.c` the locals of `main` hide the functions
`producer` and `consumer`, so that as written `pthread_create` gets an
indeterminate start routine; the model starts the functions, as the declarations
and the heading intend, and translates the two loops and the globals, not `main`. The `sleep(20)` after which both programs exit is left
out: the properties are about the time before.

### MqEcho

A queue is a numbered kernel object; the two names lead to a queue or to none,
and `mq_unlink` removes the name only. A client is one run of
`posix_mq_client`. Messages carry the client, their number and whether they have
been turned to upper case; `Insert` is the priority order of `mq_send`.
`disturbed` is a history variable: it becomes TRUE when two clients overlap, a
client is killed, or the server starts or ends while a client is active. What
the model shows when it is TRUE: clients take each other's answers, and a client
whose reply queue has been unlinked by another one waits for ever.

### EpollEcho

The clients send numbered units. `edge` is epoll's list of ready descriptors:
anything that happens to a registered connection puts it there, `epoll_wait`
takes it off into `batch`, whose events are handled in any order. `Read` is one
`read` of `BUFFER` units; what remains has no event of its own, as in the code.
A *patient* client sends no more than fits in the buffer, waits for the echo and
only then sends or leaves; others send and leave as they like, and then leftovers
stay unread, echoes are cut at a full socket and SIGPIPE ends the server: the
progress properties are claimed for patient clients. A `read` that fails with
anything but EAGAIN closes the connection, as the end of the stream does: on a UNIX
socket what has been sent is read first, so `ReadEnd` stands for both. Left out: a
failing `accept4`, and the zero byte that line 120 stores behind a full buffer.

### TimedWait

`program` is one of the three programs, which play the same scenario. Time is
abstracted to `late`: the event comes before or after the second deadline. A
killed run leaves its message in the queue of `timeout_mq.c` and nothing else. A
first `poll` that fails ends `timeout_poll.c` (`FirstFails`); errors of the other
waits are only printed and are left out.

### BurstDrain, SemEx

Both have kernel objects that outlive a process. In `BurstDrain` main and the
producer use one descriptor, so that the `O_NONBLOCK` that main sets also decides
whether `mq_send` blocks or fails. A run may be killed at any step; `Stale` marks
the messages that it leaves. `refused` and `killed` are history: without a kill
nothing is refused, because 32 messages fit; with the leftovers of a killed run
the queue may be full when the flag is set, and messages of the burst are dropped.
The drain ends at the first empty queue, while the producer may still be sending:
main then joins it and unlinks the queue with the rest unread, so that the burst need
not arrive whole. `BurstInOrder` says what is promised: what was sent before the drain
ended has been received, in its order, stale messages aside.
In `SemEx` several copies of the program run; a semaphore is named for the copy
that created it. Two copies that both open the name before either unlinks it share
their semaphore, although the comment at `semex.c:35` says otherwise; `NamedIsFresh`
says what remains true.

### Intro, SignalFlags, AlarmTicks

What happens between a lock and an unlock of `intro.c` is one step; the assignment
`changed = FALSE` before the loop of `stateOutput` has a step of its own, as it is
made without the mutex: a change reported before it is never shown. In
`SignalFlags` the test, the reset and the report of a flag are three steps and a
handler may run between any two. A signal whose handler is not installed yet ends
the program, which leaves the terminal in raw mode. In `AlarmTicks` a signal ends a
`pause` (`Tick`) or comes outside of it (`LateTick`).

### PrioInversion

Both scenarios, `inherit` being what they pass to `init_resource_mutex`. A thread
takes a step only if no ready thread has a higher effective priority (`Runs`): one
processor and SCHED_FIFO. `busy_ms` sleeps, so that `t1` does not load the
processor as its comment says, and `t2` is delayed only while `t1` is ready; both
scenarios end. Creation of a thread may be refused, which ends the program.

### MemPool, TrafficLight

A block of the pool is a number and `next` its first word, which belongs to the
list or, when the block is handed out, to its user, who writes to it what he likes.
`TrafficLight` has the loop of the controller, the timer and the handler. Its
default branch leaves `tv_nsec` uninitialised: whether `timer_settime` takes it is
a nondeterministic choice, and if it does not the timer stays off and the loop
waits for ever. The states are those that `next_state` can lead to; starting from
STATE_ALL_RED the code never leaves it, so that the lights never turn green.

### Sampling, PollInputs

`Sampling` is the loop that both programs have; `lead` is what they differ in,
`calctime2.c` storing the time since the wakeup that was due before. `clock` advances at any
step, up to a bound while the process is kept waiting; a time is handed over as
seconds and nanoseconds. `PollInputs` counts the events of each device. A device
that is gone makes `poll` return at once for ever, so that the program spins.

### Lab

The programs of one process share nothing, so interleaving two of them shows
nothing. `Lab` instantiates thirteen modules, chooses one in its initial state and
lets only this one take steps; the fairness of each carries over, restricted to the
chosen one. Its properties are those of the modules; where several programs promise
the same kind of thing (`MainEnds`, `GoesOn`, `ReportsTrue`, `NoNoticeLost`) they
are one property of the run, and there is a mutant of more than one program for it.

## 3. What the runs check

| Run | Instance | Shows |
|---|---|---|
| `shm_disturbed` | 3 slots, counter mod 4, 2 signals, 1 kill of each process | until a kill or signal `FifoImplemented` (refinement of `BoundedFifo`), `SemaphoresCountSlots`, `EveryNumberConsumed`; up to the first signal or producer restart `NoSlotConflict`, `ConsumedInOrderUndisturbed`; always `TokensBounded`; `ProcessesStop`: a signal ends a process |
| `shm_signal` | 1 signal | violation: see finding 1 |
| `shared_vars` | 3 threads, counters mod 3 | `CountersAgree`, `NeverRepairs`, `AloneNeverRepairs` |
| `condvar` | the 4 threads, 2 spurious wakeups | `NoLostWakeup`, `MutualExclusion`, `CycleImplemented` (refinement of `StateCycle`, liveness included), no deadlock |
| `rm_client` | 2 clients, every command, a message longer than a `recv`, 3 sessions, 3 messages, buffer of 2 units | `OwnAnswer`, `DeviceImplemented` (refinement of `Device`), `OnlyCutMessagesEndServer`, `ClientServed` |
| `rm_nc` | the same with pipelining clients, 4 messages, joined and cut portions | `DeviceImplemented`, `ReadStillTrue` |
| `rm_disconnect`, `rm_busy` | 1 and 2 clients | violations of `NoClientEndsServer` and `BusyWhileServed`: findings 2 and 3 |
| `mq_echo` | 3 clients, 2 messages each, queues of 2, 2 starts of the server, 1 kill | `OwnAnswer` and `ClientsFinish` for clients that run alone, `NobodyForgotten` for those that overlap |
| `lab` | 2 connections, buffer 2, sockets 3, batches of 2; products mod 3; 2 spurious wakeups; 2 kills; bursts of 3 into a queue of 4, 4 runs; 3 copies; 3 signals; a message every 3 ticks; sleeps 2, 3, 1; 3 blocks; 3 samples, period 2; 3 devices with 3 events each | epoll: `NothingStranded`, `EchoedInOrder`, `PatientClientsServed`; `HandoverImplemented` (refinement of `BoundedFifo`); `PoolImplemented` (refinement of `BlockSet`); `BurstInOrder`; `NamedIsFresh`; `NoInversion`; `NoNoticeLost` (intro, intsimple); `ReportsTrue` (timed waits, sampling); `MainEnds` and `GoesOn` (every program that should end or go on) |
| `timeout_condvar` | as in `lab`, `TimedWait` alone | violation: finding 4 |
| `int_messages` | `AlarmTicks` alone, a message every 10 ticks | violation: finding 5 |

**Bounds.** A ring of 3 slots is empty, partly filled, full and wraps; the
counter's modulus is larger than the ring, so that a stale number is told from a
fresh one. Two signals can hit one process twice or both once; a kill of each
process lets either be started again over what the other has done meanwhile. Three threads are a holder, a waiter and one that is cancelled. A device
of 2 units is filled, overfilled and cleared by single writes; two clients are
what the lock, the busy flag and the permissions are about; a third session lets
a connection slot be used again. Three message-queue clients let one take the
name away from two others; two messages include the urgent one; a queue of 2
fills up. An epoll batch of 2 with two connections, the listening socket and the
eventfd leaves events for the next call; a socket of 3 and a buffer of 2 give
short reads and cut echoes. A burst of 3 into a queue of 4 always fits, as 7 into
32 do, and no longer does over the leftovers of three killed runs. Three samples
with a period of 2 in seconds of 5 units cross the border of a second, and a delay
of 4 is longer than a period. Three blocks make a list with a head, a middle and an
end. Three devices let one be read between two that flood. Counters that only grow are bounded in the guards
and named as bounds in the modules.

**Deadlock** is checked in `condvar`, where the system must never stop. The other
programs end, or wait for input; their progress is stated as properties.

**Fairness.** Weak fairness of a process or thread: the kernel runs what can run.
`sem_wait`, `recv`, `mq_receive` return once they can, because each has a single
waiter. Mutexes are not assumed to be fair (no strong fairness on a lock): a
liveness property that holds does so because a thread that goes on gives the
others a lasting chance. Timers that run expire and sleeps end (`AlarmTicks`,
`TrafficLight`, `Sampling`, `PrioInversion`); in `PrioInversion` the processor is
fair only to the thread with the highest priority. The fairness of `Lab` joins the
actions of different programs in one condition, which is the same because only one
of them runs. `ClientServed` needs the clients of `rm_client` to read
their answers; nothing is assumed of pipelining clients, and no progress is
claimed among them: one that never reads holds up READ under the lock, and with
it every other command. Nobody has to start a process, send a signal or kill.

## 4. Disagreements found

1. `shm_producer.c:64`, `shm_consumer.c:57`: the result of `sem_wait` is ignored.
   A signal that interrupts it lets the pass run without a token; numbers are
   overwritten or read before they are written.
2. `resmgr.c:168`: SIGPIPE is not ignored; a client that disconnects before its
   reply is written ends the server, and the socket file stays. A client need not be
   killed for it: `client.c` with more than 1023 bytes does it when it runs to its end.
3. `resmgr.c:144`: `DEV_BUSY` is cleared by the first client that leaves, while
   others are served.
4. `timeout_condvar.c:93`: `rc` still holds ETIMEDOUT of the first wait, so the
   second wait is never made and "Unexpected timeout" is reported.
5. `int.c:36`: the loop counts signals, not messages of a hundred signals: the
   program ends after ten ticks without a message.

These follow from the source alone and have no run:

* `prodcons.c:28-31`: the locals `consumer` and `producer` hide the functions of these
  names, so that each `pthread_create` is given an uninitialised variable for its start
  routine, and the two loops that the heading describes are not started.
* `calctime2.c:109` calls its samples "delta from previous actual wakeup"; line 81
  computes the time since the wakeup that was *due* before.
* `semex.c:35`: two copies that open the name before either unlinks it share their
  semaphore, although the comment says "not sharing with other process".

## 5. What is proved

Every safety property of the passing runs, invariant, action property or
refinement, is proved by TLAPS for every value of the constants that satisfies the
named assumptions. `Spec => ...` is about the specification without fairness, which
the specifications of the runs strengthen.

| Assumption | Says | In the code |
|---|---|---|
| `ShmRingAssumption` | at least one slot and one counter value | 10 slots, `uint64_t` |
| `SharedVarsAssumption` | finitely many threads, a value for the free mutex that is none of them | 4 threads |
| `CondvarAssumption` | an even modulus of `cnt`; the value for the free mutex is no thread | 2^32 |
| `ResMgrAssumption` | finitely many clients, messages that are not empty, a buffer of a unit, a `recv` that takes a command word and its argument | 4096 and 1023 bytes |
| `MqEchoAssumption` | finitely many clients, a message each, queues that hold one | 3 messages, 10 places |
| `EpollAssumption`, `BurstAssumption`, `SleepsAssumption`, `NumbersAssumption` | a buffer of a unit; a burst that the empty queue takes; two products; a signal, a device, an event buffer of two, a nonzero number of nanoseconds in a second | 7 into 32, 4 signals |

**The ring.** `NoSlotConflict` (`SlotsApart`) is not inductive: the indices alone
cannot tell an empty ring from a full one. `RingInv` of `ShmRingProof` says that some
number of occupied slots lies between tail and head, that the tokens for filled slots
do not exceed it and those for free slots do not exceed the rest. These are
inequalities, because a consumer that is killed takes its token along;
`SemaphoresCount`, where nothing is killed, needs equations. `TokensNeverInvented` is
about any number of signals, kills and restarts. `ShmFifoProof` numbers the slots by
their distance from tail: those below the occupied number hold consecutive numbers and
the counter is the next one (`NumberInv`). From this `NumbersInOrder` follows, and
`ImplementsFifo`: the sequence that the refinement mapping makes of the slots is
extended by `ProducerPost`, shortened by the consumer, and never longer than the ring.

**The shared variables.** `MutexInv` says that a thread inside its pass owns the mutex
and, for each step, what the owner knows of the three variables and of the value it
has loaded; a thread that dies keeps the mutex, so nobody has to know anything
afterwards. `AloneNoRepair` gives the same knowledge to the only thread that has begun
its passes, with or without a mutex.

**The state machine.** `ThreadsExclude`, `NoWakeupLost`, and `ImplementsCycle`: every
step is a step of `StateCycle` or a stutter (the run adds the liveness of
`StateCycle`). `Structure` says that `main` creates each thread once and that only
thread 1 counts, which ties the parity of `cnt` to the cycle.

**The resource manager.** `DeviceInv` of `ResMgrProof` says that a thread holds
`dev.lock` at exactly three steps, and that what READ has found and what WRITE has
copied stays as it is there. Hence `ReadsStayTrue` and `ImplementsDevice`: the last
step of each command is a command of `Device`, all others leave the device alone,
whether clients pipeline or not, and across restarts. `ResMgrClientProof` follows the
conversation of `client.c` (hypothesis `~Pipelined`) through both streams: `TalkInv`
gives `AnswersAreOwn`, also when a `recv` cuts the message, because command and
argument are in the first portion. `CutMessagesEndServer` says, of messages of any
length, that only one that a `recv` cuts can end the server: for a client whose
message `Fits`, the message, its portion, the command and the answer are one thing
that is in one place at a time (`Once`), so that nothing is left to answer when the
client leaves; SIGPIPE therefore comes from a client whose message does not fit.

**The message queues.** `NobodyForgotten` counts: while the first run of the server
lasts, the clients that wait in the named queues are no more than the messages in
them, plus the one that the server has at hand. The invariant needs that queues of the
server and of the clients are never mixed up (`Apart`), that in the first run there is
one server queue (`FirstRun`), and that created queues are numbered within their
bound (`Budget`). `AnswersAreOwn` adds, for a client that runs alone, the four places
where its message or answer can be (`Exchange`).

**The programs of `Lab`.** `LabRuns` says that a run of `Lab` is a run of each of its
programs; each is then reasoned about under the name of its instance.

* `epoll_server.c`: `NothingStranded` holds because of what a patient client does: it
  has its answer when it leaves, and what it sends fits in a buffer (`Patience`).
  `UnitsInOrder` is about all clients: what was echoed, is in the outbox, in the
  chunk and in the inbox, in this order, is increasing and was sent (`Pipe`, with
  lemmas on increasing sequences that are cut, joined and extended).
* `mq_clean_burst.c`: what is received and queued, as one sequence, is the burst so
  far without what was refused (`BurstInv`, `InBurst`). Undisturbed it has no
  leftovers, hence at most `BURST` messages: the queue is never full. The drain ends
  only at an empty queue (`DrainTakesAll`), so that what is received is then all that
  was sent and not refused: `BurstDrained`. It says nothing of what is sent later.
* `mempool.c`: the free list is a recursive function of the links, which nothing can
  be proved about by unfolding it. `PoolInv` says that some sequence of different
  blocks, none of them held by a user, starts at the head and goes along the links;
  `FreeIsListed` shows that the function then enumerates it. That any two solutions
  of the recursion are equal is shown with a least argument at which they differ
  (`NodeIs`, `LeastNatural`), which the well-founded order of the numbers gives.
  `NoBlockLost` is then one step of the sequence for each operation.
* `prodcons.c`: `ProductsHandedOver`, with the product between its producer and its
  consumer as the queue.
* `inv_prio`: `MiddleKeptOut` needs that the owner of the mutex is one of two threads
  and that a blocked one waits for the other, so that the owner inherits its priority.
* `timeout_*.c` and the sampling loops: `ReportsAreTrue`. The first needs that only a
  message of a killed run can be there before the event; the second that the next
  wakeup is a whole number of periods after the start (a product of two variables,
  taken step by step), and that the conversion to seconds and nanoseconds and back
  keeps a time and the order of times for every `BILLION` (`Timespec`).
* `intro.c`, `intsimple.c`, `semex.c`: `NoticesKept` and `NamedFresh`, with what
  `sense` remembers, and with who may post: only a copy whose semaphore has lost
  its name.
* `TypeCorrect` collects the types of all thirteen, each from its own invariant.

**Only model-checked.** Liveness (`EveryNumberConsumed`, `ProcessesStop`,
`ClientServed`, `ClientsFinish`, `PatientClientsServed`, `MainEnds`, `GoesOn`, and the
fairness of `StateCycle` in `CycleImplemented`): it needs fairness, whose ENABLED the
prover does not handle. So are the absence of deadlock in `condvar` and the five
violations, which are executions.

## 6. Not modelled

* Programs whose one thread runs straight through a few calls: `iov_demo.c`,
  `calctime1.c`, `alarm.c`, `hello.c`, `read_input.c`, and `reptimer_timerfd.c`,
  which reads a timer five times. There are no two orders of their steps.
* Measurements: the statistics of `calctime2.c` and `sched_fifo_jitter.c`, the
  benchmarks of tasks 5 and 6. What they show depends on real time.
* `timeout_ppoll.c` calls `pthread_main_np`, which Linux does not have; where it
  exists there is no `ppoll`.
* `main` of `prodcons.c` as written (section 2), the clock arithmetic of the timed
  waits, formatting of output, and failures of most calls that set a program up,
  after which it only exits.

## 7. Plan

The systems of several actors were written first, then the programs of one process,
which all joined `Lab`; the proofs followed in the same order and now reach every
safety property of the passing runs. What is left:

1. Lemmas that say more than the properties: that the processes of `MqEcho` never
   hold a descriptor of a queue that was never created, and that a message is
   answered once.
2. The steps towards liveness that need no fairness: for `CondvarFsm` and `ShmRing`
   that some step of a thread is possible in every state that the invariants allow,
   stated by the guards instead of ENABLED.
3. A refinement of `EpollEcho` for one patient client, whose abstract specification
   echoes one message at a time.
