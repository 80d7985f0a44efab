# Verification of EmbeddedService

EmbeddedService is the controller of an energy site: one process with a reactor
loop, a few worker threads, TCP servers for the configuration tool, and plug-ins
that poll and command inverters, diesel generators, batteries and meters over
Modbus. This directory holds TLA+ models of its core logic, their TLC
configurations, and TLAPS proofs of what matters most. Paths are relative to
`src/`. The models follow the code; where a comment or a name of the code says
something else, the code wins, and the difference is written down here.

Contents: [1 The system](#1-the-system) · [2 Modules](#2-the-modules-and-the-code) ·
[3 Runs](#3-what-the-runs-check) · [4 Bounds](#4-bounds) · [5 Fairness](#5-fairness) ·
[6 Proofs](#6-proofs) · [7 What the models say about the code](#7-what-the-models-say-about-the-code) ·
[8 Not modelled](#8-not-modelled) · [9 Plan](#9-plan) · [10 Running](#10-running-it)

## 1 The system

One process. `main.cpp` creates the reactor, the log, the configuration module
and the plug-in `EMS.so`, then runs the loop on the main thread.

| part | state | operations | talks to | hard about it | correct if |
|---|---|---|---|---|---|
| Asynchronous calls (`Core/src/WorkThread*`, `CmdOpt`, `ASyncCallSupport`, `Reactor`) | a request list, mutex, condition and sleep flag for each worker; the list of callbacks of the main thread, its mutex and a socket pair; `m_b_running` | `SendAsyncAction`, `SendSyncAction`, the loop of a worker, `RunLoop`, `StopLoop`, `CThreadPool::Stop` | everything runs on it | every pair of threads interleaves; wake-ups through a flag and through one byte; `send()` and `recv()` block | a call is delivered once, in order, and its wake-up is never lost |
| Poller (`Core/src/PollerUnit`, `PollerObject`) | the set of pollers, the descriptor sets of `select()`, the iterator of the pass | `attach`, `detach`, `Wait`, `HandPollerEvents` | sockets, wake-up pair | handlers delete and add pollers during the pass; descriptor numbers are reused | the pass survives that, and nobody reads a descriptor without data |
| Timers (`TimeNode`, `TimerUnit`) | cached time, heap; per timer expiry, interval, count | `StartTimer`, `StopTimer`, `ProcessTimeEvent`, `GetMinWaitTime` | handlers of all drivers | handlers start and stop any timer, their own too | every due timer fires, a pass ends, `select()` does not oversleep |
| Timer heap (`MinHeap.h`) | nodes linked by parent, left, right | `Insert`, `Remove`, `GetMinNode` | timers | removal of an inner node relinks four neighbours | a complete ordered tree; the minimum is the minimum |
| Shared call data (`ShareData.h`) | a counted block | copies, destruction | every call | copies cross threads | freed once, after the last use |
| Socket buffer (`communicate/TcpSocketItem`) | one block, head, length; the receive loop | `append`, `skip`, `clear`; `InPutNotify` | pollers, messages | sliding, compaction and growth; TCP cuts messages anywhere | it is a queue of bytes, and messages come out as sent |
| TCP servers (`TcpV4Server`, `syscfg`, `RunCfgSockItem`) | listening socket, an item per client | accept, `HandSysCfgMsg`, `HandRunCfgMsg` | configuration tool | clients come, go and stall | one client's trouble stays its own |
| File upload (`syscfg/FileTransmit`, `SanYi_Cfg/filetransmit`) | one descriptor, size and hash for all clients; a dialog per client | start, chunk, cancel; the dialog's answers and buttons | TCP servers | one server object for all clients, failing calls, cancels, impatient users | what is reported is what arrived and was unpacked; an upload ends |
| Log files (`common/Log`) | list of lines, open file, its day and index | `WriteLog`, `CheckNewFile`, rotation | worker 0 | midnight, full files, a full disk, restarts | no line out of order; none lost but with the process or the disk |
| PEDEMS polling (`plug-in/PEDEMS/SG1100UD-MV`, `DGTest`, `SC5000UD-MV-P3`, `YT-320`) | a one-shot timer per chain, buffers, the device's data | timer → query in the worker → answer → handler → timer | core, Modbus | one query or answer of a chain at a time is the only lock of the buffers; reads fail singly | polling never dies out, samples are whole and fresh |
| PEDEMS energy schedule (`Devices/EMSDevice`, the managers) | reported state of charge; commands under way | one pass a second | drivers | reports are old, commands late or lost and never confirmed | no chattering; commands arrive in the end |
| PEDEMS start-up (`EMSDevice`, `PedEms`, `main.cpp`, `DeviceManager`) | registered devices, managers, threads | `CreateDevices`, `RegisterDevice`, `StartEMS` | all devices | entries that fail, functions that return nothing | devices on one line share a thread; what is commanded is polled |
| ESSEMS plug-in (`plug-in/ESSEMS`) | work state of the PCS, its supervision timers, the plan of the minute and two corrections, steps of the queries | `SetPower`, `PowerOnOrOff`, `CalPower`, polling | core | two query chains and two supervision timers on one state; integrators on old readings; chains whose handler is missing | the inverter does what was planned last; the plan is not turned round; polling goes on |
| Digital I/O (`devices/DIDevice`, `DoDevice`) | the last sample and the value; cached outputs | poll, filter, write | GPIO | a repeating timer polls without waiting for the answer; a cache that may not be true | an input is what two reads in a row agree on, an output what was set last |
| Field bus (`ModbusOperater`, `SerialPort`, `CanSocket`, `Gpio`) | a handle | read, write | devices | failures, timeouts | results are reported |
| Tools (`PublicTool`, `MD5`) | none | files, hash, conversion | everything | – | – |
| Configuration tool (`SanYi_Cfg`) with `SysCfgModule`, `PublicTool` | `Device.json`; the tool's copy of it, the page and form shown | load, edit, save, update; read and write the file | TCP servers | the whole copy is sent back and written in two steps; a second tool; answers in pieces; power failures | entries stay with their kind of device; an update keeps what it was not meant to change |
| `monitor`, `enjiu`, `cloud` | – | sketches without a caller | – | – | – |

How they interact: application code on the main thread calls `SendAsyncAction`
on an object; the object's worker pops the request and runs `DoAsyncAction`,
which talks to a device and calls `SendSyncAction`; this wakes the loop through
the socket pair, and `DoSyncAction` runs on the main thread, starts timers and
sends again. Timers, servers and their clients share the main thread, so anything
that blocks there stops the site.

## 2 The modules and the code

| module | models | how |
|---|---|---|
| `AsyncCall` | `CWorkThread`, `CThreadPool`, `CCmdOpt`, `CReactor` | one action per stretch between lock operations or blocking calls. `wpc` and `mpc` say where each thread is; `bytes` is what the socket pair holds; `sender` is the actor stuck in `send()` with `m_mutex` held. Spurious wake-ups are steps. |
| `Mailbox` | what callers are promised | exactly-once FIFO mailboxes; `AsyncCall` refines it |
| `Polling` | the chains of the drivers on `AsyncCall` | EXTENDS `AsyncCall`; composes its actions with the timer and the two handlers of a chain |
| `TimerUnit` | `CTimerUnit`, `CTimeNode` and the loop that drives them | the two passes of a loop turn, `select()` with its timeout, callbacks that start and stop any timer; the heap is a set here |
| `MinHeap` / `PriorityQueue` | `CMinHeap` on its pointers / what `TimerUnit` uses of it | the walk by the bits of a position and the two sifting loops as recursive functions, `heap_node_swap` with its neighbour cases; `nelts` rounds are enough for each loop, and a round without a swap changes nothing; refinement |
| `BuffCache` / `ByteQueue` | `CBuffCache` / what its user sees | the block as a function from offsets, unwritten bytes are `Garbage`; refinement |
| `Sockets` | `CTcpV4Server`, `CTcpSocketItem` on its blocking sockets, the pass of `CPollerUnit` | pollers lie at addresses, which order the pass; connections have descriptors, the lowest free one; a stream is the count of its bytes, and the answers a client has not read are a count |
| `FileTransmit` | the service's `FileTransmite` and the tool's dialog | one message at a time in each direction; a byte is its owner and its place; `phase` holds the dialog's state, `stuck` and `gone` included |
| `Drivers` | the queries and handlers of the four PEDEMS drivers | a table of what tells the drivers apart (blocks, whether a failed read ends the query, which buffer is filled and sent, whether the result is reported and looked at), one set of actions for all |
| `EnergySchedule` | `EMSDevice::EnergySchedule`, the managers it calls, and the way of a command to the device | the battery moves freely, the poll and the commands are requests under way that may fail; registers keep their width |
| `Startup` | `main`, `InitEMS`, `CreateDevices`, `RegisterDevice`, `StartEMS` | every `Device.json` up to a size; functions without a `return` return anything; address 0 is no serial line, as in the shipped `conf/HardWareCfg.json`, whose first name is "None" |
| `LogFiles` | `Log` | the list of thread 0, files as sequences of lines; a write may fail, whole or in part |
| `Config` | the pages of the tool that load and change `Device.json`, `HandSysCfgMsg`, `ReadFile` and `WriteFile` | an entry is the edit that made it and the kind selected then; the page cache writes back truncation and content in two steps; `rev` counts the changes of the file |
| `PcsControl` | `IACESEMS::SetPower`, the driver `TestPcs` with its two supervisions and two query chains, the inverter and the contactors | one action per early return of `SetPower`; the worker's list, answers with what was read |
| `TimeOfUse` | `TOU`: the table and the two corrections | one action per timer; readings move freely |
| `EssDrivers` | the chains of `TestMeter`, `TestBcmu`, `TestLiquidCooler` | which command has a case in which `switch`, and the step counters they look at |
| `DigitalIo` | `DiDevice`, `DoDevice` | reads and writes under way, each may fail |
| `ShareData` | the count of `ASyncCallDataInst`, the handles that queries and nodes hold | `decref()` in two steps, what it does under the spin lock and after it; freed memory may be allocated again |
| `MCParts` | – | puts `BuffCache`, `LogFiles`, `Config`, `Startup`, `TimeOfUse`, `EssDrivers`, `DigitalIo` and `ShareData` side by side: the initial state chooses one, and only that one moves, so that one run checks them all |

`MC*.tla` give the constants that a `.cfg` cannot write. `*Proofs.tla` hold the
theorems. Operators whose comment begins with *Mutant* are wrong versions of the
definition after them, plausible slips in that code; each property has one that
breaks it, so that no property holds whatever the code does. They are used by
no action.

How the modules fit together: `TimerUnit` takes the heap as a set, which
`MinHeap` implements; `Sockets` takes the receive buffer as a count of bytes,
which `BuffCache` implements as a queue; `FileTransmit` takes a connection as a
queue of whole messages, which is what `Sockets` shows it to be; `Drivers` takes
the request and answer lists as queues, which is what `AsyncCall` shows; `Polling`
shows the chains that `Drivers` starts from; `TimeOfUse` is what calls `SetPower` of
`PcsControl`, which takes the powers it may ask for as a set.

History variables (`superseded`, `left`, `starts`, `handled`, `asked`, ...) record what
properties speak of; no guard of an action reads one, but for the bounds of section 4.

## 3 What the runs check

| run | states | what it shows |
|---|---|---|
| `asynccall` | 75 417 | Every interleaving of two workers, the main thread and the shutdown: a queued callback always has a byte in the socket or a drain loop at work (`NoLostWakeup`); a worker asleep has an empty list (`NoStrandedRequest`); `recv()` finds its byte (`RecvNeverBlocks`); the lists are mailboxes (`ImplementsMailbox`); `pthread_join` returns but in one race (`JoinReturns`); the main thread leaves its drain loop but in one deadlock (`DrainGoesOn`), see section 7 |
| `polling` | 95 488 | Three chains where one `recv()` takes two bytes: between two `recv()` the wake-up socket gains one byte for each chain and one more at most, so that a worker blocks in `send()` only behind a backlog of earlier passes (`WakeupsBounded`); each chain has one token (`SingleFlight`); unless senders block there again and again, every call is delivered in the end (`ImplementsLiveMailbox`) and polling never dies out (`PollsForever`) |
| `timers` | 207 682 | The heap holds the active timers (`HeapMatchesActive`), passes end (`OncePerPass`), `select()` does not sleep past a timer (`NeverSleepsPastATimer`), due timers fire (`DueTimersFire`) |
| `minheap` | 1 805 up to symmetry | `OrderedTree` (complete, ordered, links both ways) and `ImplementsQueue` |
| `sockets` | 489 385 | Messages are handled whole and in order (`FramesAsSent`), and none waits for ever while the main thread is neither held up for good nor dead (`FramesHandled`); no step leaves the iterator of the pass at a deleted poller (`NoDanglingIterator`); the main thread waits for a client in three cases only, two in `recv()` and one in `send()` (`HeldUpOnlyBy`) |
| `filetransmit` | 698 903 | `Accounts` (the announced size less the bytes written is what is still expected; descriptors held too many are those of replaced uploads), `SuccessIsUnpacked` (who is told of a success had its own whole file given to `tar` and `run.sh`, which may have failed), `FailureHasACause`, `UploadEnds` over two clients that upload, cancel, click twice and quit, with failing calls |
| `schedule` | 186 018 | `DoesNotChatter` (diesel and photovoltaics switch only as often as the charge swings through the band) and `Follows` (they end up as the charge asks), end to end through late polls and lost commands |
| `drivers` | 1 461 576 | For the four drivers: a handler takes a shared buffer while the worker's query fills it in one case only, SG1100's important data (`TornOnlyBy`); the strict chains publish whole and fresh samples (`PublishesFreshSamples`) |
| `drivers_buffer` | violation | `TakesItsOwnData` fails: SG1100's important query sends the wrong buffer |
| `storage` | 152 740 | Once the schedule asks for zero, no power asked for before is sent (`NoStalePower`), and if it goes on, the inverter stops for good unless an opening is supervised for ever (`ZeroPlanStops`), see section 7 |
| `tou_minsoc` | violation | `KeepsMinSoc` fails: `CalPower` discharges at and below the minimum of the state of charge, and only there |
| `parts` | 1 927 993 | Eight parts that do not interact: the receive buffer is a queue of bytes (`ImplementsByteQueue`); files of the log are filled in turn, in order, and no line is dropped but with the process or by a full disk (`LogIsWhole`); entries of `Device.json` stay with their kind (`KindsDoNotMix`) and an update that nothing has overtaken keeps the rest (`UpdateKeepsTheRest`); for every configuration of up to three entries, devices on a line share a thread (`ThreadsFit`) and what is commanded is polled (`CommandedArePolled`); the plan is not turned round (`WithinPlan`); chains go on singly but two, and the cooler's blocks are published as what they are (`ChainsGoOn`); the data of calls are freed once, after their last use (`FreedOnce`); inputs and outputs settle (`ValuesSettle`) |

`CHECK_DEADLOCK FALSE` is set where the system may stop: `asynccall` (the
shutdown ends, and the deadlock of section 7), `filetransmit` and `sockets`
(clients gone), `schedule`, `tou_minsoc` and `parts` (the bounds are used up).

## 4 Bounds

Each bound is a constant, named in the guard that it limits.

- **Call core.** `NThreads = 2` and one object each: all conflicts are between a
  worker and the main thread, or two workers at one mutex. `RecvMax = SockCap =
  QMax = 2` instead of 4, some hundreds and no limit: enough for bytes left after a
  `recv()`, for a full socket and for a list that is not empty at the push.
  `Polling` has three chains, two of them on one worker, and `RecvMax = 2`: a
  driver of the PEDEMS plug-in has three chains and `sizeof(int)` is 4, so that a site with
  two drivers has more chains than one `recv()` takes bytes. With `SockCap = 5` senders block,
  and the deadlock of section 7 is reached.
- **Timers.** Two timers, intervals 1 and 2, counts 1, 2 and forever, a clock up to
  3: one timer fires while the other is started, stopped, due or not. The
  heap with more timers is `MinHeap`'s matter: seven nodes, three levels, four
  keys, so that ties occur.
- **Bytes.** Blocks of 2, 4 and 8, strings of up to 3, skips of up to 4: first block, growth,
  in-place, sliding and compaction occur at every offset, and a skip of more
  than there is. `Sockets`: messages of 2, 3 and 2, 2 bytes with a head of 2 and
  `RecvMax = 4` (one message is not answered, one is of an unknown type, and a connection holds one answer that is not read: `SendMax = 1`), so that a `recv()` takes parts of a head, of a body, two messages, and exactly
  its maximum; addresses 1 to 4 put an item before, between and behind the two
  permanent pollers.
- **Upload.** Two clients, files of one and a half chunks and of one chunk, two clicks
  each, one failing call, three descriptors: a replaced upload, a cancel of
  somebody else's upload and the exhaustion of descriptors occur.
- **Schedule.** Five states of charge, with thresholds where the bands touch;
  lists of two commands; registers of 2 bits and words of 4, which keep
  the wrap of a `-1`; one swing between the bands (the chatter invariants count
  starts against swings).
- **Start-up.** Three entries of three kinds: one whose creation returns garbage, a battery and a meter
  without a manager; two lines and the network, two threads, three uuids, one of them
  empty and one that of the EMS itself.
- **Log.** Two day names, so that "next year" comes; files of two lines, four
  indices, five lines, of which two meet a full disk, three days, three starts.
- **Configuration.** Two kinds, one change in a form, three requests, and one
  thing that goes wrong (power, a full disk, an answer in pieces, another tool's update): a
  request to load, an update and a load again, with any one of them in
  between.
- **Storage.** Powers and limits 0 and 1 (what is asked for, and a battery that allows
  nothing), two requests in the list, so that a command stands behind a query.
- **Time of use.** A day of four minutes with two plans of opposite sign that meet in a
  minute, as neighbouring entries of the table do; readings that push both
  corrections either way, three states of charge around the thresholds; `MaxWindup` 8, twice the plan.
- **ESSEMS drivers.** Lists of two requests: two chains of a thread at once, or a power
  command before or behind one.
- **Digital I/O.** Two reads under way, four in all, two settings: a glitch of one
  read, a failed read between two that agree, a write that fails before one that does not.
- **Shared call data.** Two threads, one permanent block and two others, three queries and three
  calls: two threads drop the last two handles of a block at once, and its memory is
  another call's before the slower one goes on.

## 5 Fairness

| module | assumed | why |
|---|---|---|
| `AsyncCall` | WF of each worker's steps, of the main thread's, of a `send()` that has room | threads are scheduled, application code returns; no lock is assumed to be fair. No timer, other descriptor or spurious wake-up is owed |
| `Polling` | WF of workers, of the main thread or the timeout of `select()`; SF of each chain's timer | libmodbus times out, so a query returns; a timer armed is in the heap, and comes due at one of the passes (`TimerUnit`: `DueTimersFire`) |
| `TimerUnit` | WF of the loop's steps and of the clock | no descriptor need become ready |
| `Sockets` | WF of the main thread | the thread is scheduled. That is no promise that it goes on: where it waits in `recv()` or `send()` for a client its next step is disabled, and a client owes nothing, neither to send, to read nor to close; the escape clauses of the properties come from that |
| `FileTransmit` | WF of the service's handling and of the dialog's, per client | two event loops; users and disks owe nothing |
| `EnergySchedule` | WF of timer, query outcome, handler, schedule pass and write outcome; SF of a query and of writes succeeding | a device asked again and again answers again and again. Without it no schedule can follow anything |
| `PcsControl` | SF of the timers that send, of a query and of a command succeeding; WF of the worker, the handler and the inverter | timers fire, threads run, a line that works now and then lets a command through. SF and not WF where the bound of the list, which the program has not, disables a sender now and then |
| `Drivers`, `MinHeap`, and the parts of `MCParts` | none | safety only |

## 6 Proofs

The theorems hold for every value of the constants that the named `ASSUME` of
the module allows, and all of what is proved is proved of the specification, so that
bounds of section 4 that are constants (lengths of lists, numbers of clients, faults,
restarts) are arbitrary. Each part has an inductive invariant, with the proof that each
action keeps it, and takes its theorems from that.

All 31 properties of the passing runs that are not about fairness are theorems.

| module | theorems of properties |
|---|---|
| `AsyncCallProofs` | `NoLostWakeup`, `NoStrandedRequest`, `RecvNeverBlocks`, `ImplementsMailbox`; on top of them `SingleFlight`, `WakeupsBounded` |
| `TimerUnitProofs` | `HeapMatchesActive`, `NeverSleepsPastATimer`, `OncePerPass` |
| `MinHeapProofs` | `OrderedTree`, `ImplementsQueue` |
| `SocketsProofs` | `FramesAsSent`, `NoDanglingIterator`, `HeldUpOnlyBy` |
| `FileTransmitProofs` | `Accounts`, `SuccessIsUnpacked`, `FailureHasACause` |
| `PedemsProofs` | `DoesNotChatter`; `TornOnlyBy`, `PublishesFreshSamples`; `ThreadsFit`, `CommandedArePolled` |
| `EssemsProofs` | `NoStalePower`, `WithinPlan`, `ChainsGoOn` |
| `PartsProofs` | `ImplementsByteQueue`, `LogIsWhole`, `KindsDoNotMix`, `UpdateKeepsTheRest`, `FreedOnce`, `ValuesSettle` |

**Call core** (`AsyncCallProofs`) — any number of workers and objects, any socket and buffer
size. `IInv` is `TypeOK /\ SleepFlag /\ NoStrandedRequest /\ BlockedSender /\
ReadableMeansBytes /\ NoLostWakeup /\ StopPhase /\ JoinedThreadsStopped`. The sleep
flag is needed because `SendAsyncAction` decides by `m_b_sleep`, not by where the
worker is; `BlockedSender` because a `send()` that blocks holds the mutex over an empty
list, so that only it can push behind the main thread's back; `ReadableMeansBytes`
because the second timer pass lies between `select()` and `recv()`; `StopPhase` because the main thread
sends no more once the loop has ended. `Refinement` maps each list to a mailbox:
pushes are `Post`, pops are `Deliver`, everything else stutters.

**Polling** (same module) — any chains on any threads. `PollingImplementsAsyncCall` shows that each step
of a timer, a query or a handler is one of the call core, so that everything above holds of polling
drivers. `PollInv` adds where the token of a chain is: in one of six places
(timer, worker's list, query, blocked `send()`, callback list, handler) and in no other, and once
there; `SingleFlight` is what remains of it. `WakeupsBounded` is proved for any finite number of
chains, whatever one `recv()` takes: its invariant `BytesFit` counts, from a `recv()` to the end of
the drain loop, a byte in reserve for each chain that has yet to answer or is blocked in answering, since
no timer fires there; outside the loop one byte more is written at most, for the answer that ends up in an empty list.
What `recv()` leaves (`left`) has no bound but the socket's: see section 7.

**Timers** (`TimerUnitProofs`) — any timers, positive intervals and counts. `IInv` is `TypeOK /\
HeapMatchesActive /\ ActiveInterval /\ FiredNotDue`. `OncePerPass` rests on `FiredNotDue`:
a timer that fired in this pass and is active again expires after the
cached time, because its interval is positive and the time is not read again before the pass
ends.

**Timer heap** (`MinHeapProofs`) — any number of timers, any keys. The invariant `HeapInv` says
that there is a numbering `f` of the nodes, from 1 to `nelts` and one to one, of which all the
links are the links of the complete tree (`Tree`: the parent of `f[i]` is `f[i \div 2]`, and so on), and along which the keys are
in order (`Ordered`). The walk by the bits of a position finds `f[i]` (`AtIsNode`). `heap_node_swap`
exchanges two neighbours in `f` and nothing else (`SwapKeepsTree`, over its cases: the root, left and
right, with and without a sibling, a last child). A node on its way up is out of order
only with the node above it, and what lies above and below it is in order (`OrderedBut`, `Bridged`),
and on its way down only with those below (`OrderedAround`); both ways end within `nelts` swaps
because the position halves or doubles. `Remove` needs both ways, down first. Refinement: each
insertion and removal is one of the priority queue, and `min`, which is `f[1]`, is least.

**Sockets** (`SocketsProofs`) — any clients, frames, addresses, size of `recv()`. `PassInv` holds what a pass relies on. A client's poller
is there as long as its connection and at one address (`PollersOK`); the
iterator has left the poller whose handler runs (`CurIsPast`), which is why its deletion is harmless;
no descriptor is given twice (`FdsOK`); what `select()` reported and nobody has
read yet is either still so or its descriptor was closed in the pass (`RdKnown`, `YetToRead`). `HeldUpOnlyBy` is
`RecvHasCause` for `recv()`, and for `send()` that no connection has more unread answers than room
for them or than messages it was handed (`AnswersInv`). `MessagesInv` says that what was taken out of each buffer ends where a message does.

**Upload** (`FileTransmitProofs`) — any clients, files and chunk size. `IInv` is `TypeOK /\
SizeAccounts /\ LeakAccounted`: the announced size less the bytes written is
what the service still expects, whoever's uploads replaced each other; the
descriptors it holds too many are exactly those of replaced uploads. `SuccessIsUnpacked` adds that a
client's chunks carry its own bytes (`OwnBytes`), so that the last byte of a complete file tells whose chunk completed
it. `FailureHasACause` is proved as its contrapositive: of a client to which none of the causes has happened, the one upload of
the service is its own, the file is a prefix of its own, and the chunk or answer under way continues it (`GoesWell`);
a user who did not click twice has one of these under way at most (`Patient`).

**Schedule** (`PedemsProofs`) — any charges and thresholds with a gap that is not negative, lists of any length. The
way from the battery to the engine is a pipe: the state of the device, the commands in its list, the
charge last taken over, the report under way. `Owed` says that the places of the pipe can be given
levels, not above the number of swings so far, that go up wherever an "off" is followed
by an "on". One lemma, `PipeMoves`, then covers every step that moves, repeats or loses what
is in the pipe; only a new command and a new report need more.

**Drivers** (same module) — `OneAtATime`: a chain is a timer, a request, the query that runs, an answer
or its handler, one of them and once. So a chain that is sent the buffer it fills has that buffer to itself; in
`TornOnlyBy` what is left is the table: one chain is sent a buffer that another one fills. `FreshOrFailed`: what a strict chain has read so far was read since its timer
fired, unless a read failed, and then it reads no more.

**Start-up** (same module) — any `Device.json`. `ManagedAreRegistered` and
`StartedAreRegistered` follow a device from its manager through the registry to the call that starts it;
an entry without a uuid is where they part.

**ESSEMS** (`EssemsProofs`) — any powers, limits, tables, readings, lists. `NoStalePower` rests on
`ZeroIsStored`: a plan of zero has set the stored power to zero, and the late senders,
the supervision of an opening and the handler of an answer, send nothing but the
stored power. `WithinPlan` is inductive with the types, for any value left in `m_demand`: each timer computes both corrections
anew within bounds by the plan it uses (`AntibackflowBounds`, `DemandBounds`), and at
most one of them is not zero outside the dynamic modes. `ChainsGoOn` counts timers, requests and answers of each chain;
the cooler's has one too many from its third round until that is handled (`CoolerSingle`), and
`BufferIsOfStep` ties the buffer to the step whose answer waits.

**Buffer, log, configuration, shared data, digital I/O** (`PartsProofs`).
`CacheInv` is `TypeOK /\ InBlock /\ NoGarbage /\ NoOverAllocation` and "no block, no data"; the lemmas say what
the copies (`Write`, `ToFront`) do to a block, and each of the four ways to append is `Put`, each skip
`Drop`. — The log: `LogInv` adds to `InOrder` and `LinesAccounted` that the list holds the
youngest lines (`QueueInOrder`), what is written is older than what waits (`WrittenFirst`), all files before one that is not
empty are full (`FilledInTurn`) and those before `m_nIndex` are full (`IndexIsBehind`), so that the rotation cannot pass
a hole. — The configuration: `ConfigTypeOK` says of every copy, in the file, on the disk, in the tool and under way, that its entries
are under their kind, and of the form that it is of the kind shown; `UpToDate` says of every copy of the current
revision that it agrees with the file but for the kinds saved since. — Shared data: the count of a block is that of its handles, in the threads and in
the lists (`Counted`); a block whose count is zero is free or about to be deleted by one
thread (`Settled`). — Digital I/O: what waits is what was read or set last, in order
(`InputsInOrder`, `OutputsInOrder`), and the value is that of the last handled read that repeats the one before (`TakenOver`).

Assumptions on constants: sizes and limits are positive naturals, `ThreadOf`
gives every object a thread, intervals are positive (the code would loop in
`ProcessTimeEvent` for an endless timer of interval 0; no caller starts one), files are not
empty (the dialog refuses nothing, but nobody uploads an empty archive), the
initial block is one of the sizes, there is a kind of device, powers are integers, the lines
written fit into the files of a day, clients
are finitely many and are not called as the pollers are, an unknown message is not empty,
thresholds that switch on lie on their side of those that switch off. `TheLogIsWhole` and
`WakeupBytesGrowSlowly` state theirs themselves (`Sizes`; that the chains are finitely many), and the runs are instances of both.

Two techniques. Recursive definitions are functions here, and a fact about all their
values is proved by a smallest counterexample (`NatMin`, from the well-foundedness of `<`), since the
induction theorems of the library take operators that the provers cannot instantiate. That
a recursive function exists is proved the same way, prefix by prefix (`WalkExists`,
`UpExists`, `DownExists`).

Model-checked only: the nine properties under fairness, since `ENABLED` is out of the
prover's reach: `JoinReturns`, `DrainGoesOn`, `ImplementsLiveMailbox` (whose safety half is
`ImplementsMailbox`, which `PollingImplementsAsyncCall` carries over), `PollsForever`, `DueTimersFire`,
`UploadEnds`, `Follows`, `ZeroPlanStops` and `FramesHandled`. Not proved either: that the modules fit together
as section 2 says; each takes the other's promise as its own model of it.

## 7 What the models say about the code

What holds is in section 3. These are the places where the code is weaker than
it looks; the properties state the exact limits.

- **Wake-up socket** (`AsyncCall`, `Core/src/CmdOpt.cpp:81`). `InPutNotify` reads at most four bytes
  and then drains the whole list; each callback queued by a worker onto the
  emptied list adds a byte. With more chains than bytes per `recv()` the bytes
  can outrun it until a worker blocks in `send()` with `m_mutex` held and the main thread
  waits for that mutex: `Deadlock`, the one exception in `DrainGoesOn`. In `Polling`, with three chains and two
  bytes per `recv()`, the drivers themselves get there. `WakeupsBounded` says how slowly: a pass adds a byte for
  each chain and one more at most, and only a backlog of many passes fills the socket. The properties about the
  end of every call and chain except a socket that fills again and again: m_mutex is not fair, so that each such
  block may also shut out another worker.
- **Shutdown** (`WorkThread.cpp:41`). `stop()` signals without the mutex; a worker between
  its test of `IsRun()` and its wait misses it. `JoinReturns` excepts just that place. Nothing shipped stops
  the loop.
- **Held-up loop** (`TcpSocketItem.cpp:152`, `:184`, `PollerUnit.cpp:79`). A blocking `recv()` follows a
  full one, and the descriptor sets of `select()` outlive a descriptor that is
  closed and given to a new connection in the same pass. And the answer is a blocking `send()`:
  a client that goes on asking and reads nothing stops the loop for ever, with every timer and every other
  client. `HeldUpOnlyBy` has the three causes; `FramesHandled` excepts a loop that stays held up. A failing
  `accept()` (`TcpV4Server.cpp:61`) is only tried again in every pass, which keeps the loop busy and holds up nothing else.
- **Upload.** A `tar` or `run.sh` that fails is only logged, because an inner `ret` hides the one that is returned
  (`FileTransmit.cpp:96`): the client is told of a success and nothing, or half of it, is installed. `SuccessIsUnpacked` therefore
  promises no more than that its own whole file was given to them. A client that has gone takes the process along (SIGPIPE). A cancel
  ends anybody's upload; before the first upload it closes descriptor 0, and the next
  upload is refused (`FailureHasACause`). Replaced uploads leak descriptors
  (`LeakAccounted`). The tool's receiver never takes two answers that arrive together
  (`UploadEnds`). A second click can crash the tool.
- **Drivers.** SG1100's important data come from the critical query's buffer
  (`drivers_buffer`, a finding), and that buffer has no lock against the critical query of the next round: the handler may
  read what the worker is writing, the one exception in `TornOnlyBy`. The chains left out of `Strict` publish zeros or old
  values after a failed read.
- **Log** (`Log.cpp:139`). The results of `fprintf` and `fflush` are not looked at, and no file is ever deleted: on a full disk lines are
  dropped or cut without a trace (`cut` in `LinesAccounted`).
- **Start-up.** Functions without `return` and an ignored result of `CreateDevices` mean that
  a site may run with some of its devices; `CommandedArePolled` holds
  nevertheless, except for further entries without a uuid.
- **Timers** (`TimerUnit.h:23`). An expiry is the cached time plus the interval; `TimeNode.h:30`
  says the current time. A timer started late in a long pass fires early by as
  much as the pass took.
- **Time of use** (`TimeOfUse.cpp:93`, a finding). `CalPower` cuts a discharge off above the
  minimum of the state of charge instead of below. Besides, `m_demand` and the modes are never set
  before they are read; `WithinPlan` holds nevertheless, because the correction is
  cut to the plan each time.
- **PCS control** (`testpcs.cpp`). The chain of real-time data writes the register's code into the
  work state (`:229`), the other one TURNON or TURNOFF (`:343`), and the register's code for
  stopped is TURNON's. The work state flips between them, and an opening whose timer
  never meets TURNON is supervised for ever, and turns the inverter on again each time the
  closing has turned it off (`:93`): the exception in `ZeroPlanStops`.
- **ESSEMS polling.** The chain of the battery's nominal data ends after one round (`testbcmu.cpp:111`
  has no case for its answer), that of the cooler after its third
  (`LiquidCooler.cpp:112` knows three steps, the counter goes on; the answer of the last
  block is handled twice): the exceptions in `ChainsGoOn`. A failed query of the cooler
  publishes what the buffer had before.
- **Configuration.** Two tools undo each other's updates, since each sends the whole
  file; `UpdateKeepsTheRest` has the premise that nothing has overtaken the copy. A power failure
  between truncation and content, or a full disk, leaves no devices (`PublicTool.cpp:101`), and the
  next load gives the tool an empty copy to send back. The tool takes the first piece
  of an answer for all of it, and two answers at once for none (`cfgtcpsockitem.cpp:22`).
- **Outputs** (`DoDevice.cpp:25`). The value that suppresses a repeated write is never updated,
  so that nothing is suppressed; if it were, a write that failed would never be repeated.

Further hazards of the code that no module reaches yet, or that no property is about: the wall clock of
`gettimeofday` (`TimerUnit.h:60`); the destructor of an active timer (`TimeNode.cpp:11`); `nEvent`, which
the dispatch never sets, so that `OutPutNotify` is never called (`PollerUnit.cpp:63`); the early expiry of a timer
started late in a pass (`TimerUnit.h:23`), which the model has; a negative float as `UINT32`
(`EMSDevice.cpp:119`), the 16-bit limit it ends up in (`SG1100UD-MV.cpp:124`; the model has the width),
the division by an empty list of inverters
(`PVDeviceManager.cpp:23`) and the list of a slow line that grows (`EMSDevice.cpp:149`); no reconnection of a Modbus
line (`ModbusOperater.cpp:54`); `_exit(0)` when a
log file cannot be opened (`Log.cpp:132`); a day that ends up to ten seconds late
(`Log.cpp:164`); the copy constructor of `ShareData.h:106`; a Modbus context used on two
threads by `SetWorkMode`, which nothing calls (`DGTest.cpp:330`), and a stopped meter that
its last answer starts again (`testmeter.cpp:104`).

## 8 Not modelled

- **Data formats**: JSON, the layout of registers, scaling, log text. A register block is the
  version it was read at, a hash is its file.
- **Partial sends of `CTcpSocketItem`**: `send()` on a blocking socket takes all or waits, which `Sockets` has;
  `OutPutNotify` is never called, because the dispatch leaves `nEvent` at 0.
- **The copy constructor of `ShareData.h:106`**, which drops a handle it has not initialised: nothing
  calls it.
- **Setting the product and the network** (`SYS_CONF_SET`, `NET_CFG`): they write their files as
  `DEV_CONF_SET` does; the product is a form of three fields with no kinds to mix.
- **The PCS's fault code** (register value 4): `PcsControl` has the codes the schedule acts on.
- **The rest of ESSEMS**: the start-up of `IACES` and its database, battery modules, the
  dehumidifier. The plug-in is older than the present `devices/` headers and does not build
  against them; its drivers are modelled as they stand.
- **The run-time server's answers**: copies of device data, taken on the main
  thread that also writes them. Its framing is that of `Sockets`.
- **Field bus wrappers, tools, Qt forms**: single system calls, stateless
  functions, user interface.
- **`monitor`, `cloud`, `enjiu`**: without a caller; `monitor` does not compile.
- **Vendored code and prebuilt libraries.**

## 9 Plan

The order is by what the site depends on: the call core and the timers, then
what polls, commands and is configured through them.

1. *Done*, with proofs: call core and its mailbox; polling; timers and their heap;
   buffer; sockets; upload; drivers; schedule; start-up; log; PCS control; time of use;
   configuration; ESSEMS drivers; digital I/O; shared call data.
2. *Field bus*: reconnection that no call makes; partial sends.
3. *Clock steps* in `TimerUnit`.
4. *Proofs*: done for all safety properties the runs check. Open is the composition: `Drivers`
   and `FileTransmit` as instances of what `AsyncCall` and `Sockets` promise, and `TimerUnit` over the
   priority queue that `MinHeap` implements.

## 10 Running it

    tlc -workers 2 -config AsyncCall_safe.cfg MCAsyncCall.tla
    tlapm AsyncCallProofs.tla

Run and configuration names, the source lines of every definition, the mutants,
hazards and theorems are in `PROJECT.json`.
