# A verification of CALIPSO / Contiki80211

TLA+ models of the code in `src/`, checked with TLC and proved about with
TLAPS. This file says what the repository contains, which part each module
models and how, what the runs and proofs show, and what is left.

Paths below are relative to `src/contiki80211/src/` unless they start with
`src/`. `wifi/` stands for `platform/dev/ar9170_driver/ar9170_wifi/`, `usb/` for
`platform/dev/ar9170_driver/ar9170_usb/`, `ibss/` for
`core/net/mac/ieee80211_ibss/`, `mac/` for `src/micmac/net/mac/`.

## 1. Inventory

Most top-level directories of the repository (RRPL, orpl, coaps, ikev2, ...)
hold a README with a link. Code is in `src/contiki80211` (Contiki with an IEEE
802.11 link layer on an Arduino Due and an AR9170 USB adapter) and `src/micmac`
(multi-channel ContikiMAC).

| Component | State | Operations and interactions | What is hard | What makes it correct | Module |
|---|---|---|---|---|---|
| AR9170 power-save manager (`wifi/ar9170_psm.c`, `wifi/ar9170_scheduler.c`, `ibss/ieee80211_psm.c`) | `ps_mgr` (period of the beacon interval, awake list, last ATIM receiver, request flags), `ps` (doze state, `off_override`, `update_mask`) | timer callbacks open and close the ATIM window, the main loop erases the awake list, creates and sends ATIMs, sends data to awake stations, dozes | interrupts between the main loop's reads and writes; windows and timers; decisions on last interval's knowledge | nobody is believed awake who was not heard in this interval; every packet is announced; a node with a reason to stay awake does not doze | `Ar9170Psm`, `BeaconCycle`, `PsmNetwork` |
| Response handling (`wifi/ar9170rx.c`, `wifi/ar9170tx.c`) | wait flags, clear-at-next-TBTT flags, sequence number | PRETBTT, TXCOMP, BEACON_CONFIG and command responses, in interrupt context | statuses lost, late, overtaking the bulk-out callback; no reference from a status to its frame | a wait is ended by its own status or by a bounded timeout | `Ar9170Psm`, `UsbCmd` |
| Queues and asynchronous transmission (`wifi/ar9170_main.c`, `cpu/linked_list.h`) | ATIM, data, soft beacon and reception queues | main loop takes frames out, interrupts and the stack put them in | queue heads that change during an operation; fixed capacities; freed cells | the frame removed is the frame sent | `Ar9170Psm` |
| USB data path (`usb/usb_wrapper.c`, `usb/usb_data_wrapper.c`) | `tx_list`, `tx_async_lock`, bulk-out endpoint | `ar9170_write_data` in the main loop, the callback in interrupt context | lost, late, failed callbacks | the buffer freed is that of the transfer; the list drains | `Ar9170Psm` |
| USB command path (`usb/usb_cmd_wrapper.c`, `usb/usb_wrapper.c`) | `cmd_list`, `cmd_async_lock`, `cmd_buf_lock`, `cmd_wait`, sequence numbers | `ar9170_exec_cmd` from set-up and main loop, interrupt-out callback, command responses | waiting for ever for a response; locks kept on error returns; repeated commands | what the callback frees is what was sent; a wait ends with its own response | `UsbCmd` |
| IBSS frame handling (`ibss/ieee80211_rx.c`, `ieee80211_tx.c`, `ibss_main.c`) | none of its own | ATIM, beacon and data reception; the driver interface of the stack | runs in the main loop and, for statuses, in interrupts | ATIMs count in their periods only | `Ar9170Psm`, `PsmNetwork` |
| IBSS set-up (`ibss/ieee80211_ibss.c`, `ibss_mgmt.c`) | `ibss_info`, BSS list, joined flag | scan, join, create | order of steps across processes | beaconing only when joined, joined only with a device | `Lifecycle` |
| Processes (`platform/system_proc/*.c`, `usb/usb_lock.c`) | connection flags, process states | bring the interface, the IBSS and the stack up; react to plugging | unplugging while a process works with the device; flags shared with interrupts; lost events | one process at a time owns the device; the network comes back | `Lifecycle` |
| Kernel (`core/sys/process.c`, `etimer.c`, `ctimer.c`, `rtimer.c`) | process list, event queue, poll flags, timer list, one rtimer | start, exit, post, poll, set and stop timers | a list that changes while it is walked, nested calls, polls from interrupts, full queue, exit with timers pending | no poll is lost; states and list agree; no timer outlives its process | `Kernel` |
| MiCMAC (`mac/mccontikimac.c`, `mcphase.c`) | phase table, channel, hop sequence | strobes, phase lock, deferral | wrapping clocks and indices, faults between learning and use | the sender meets the receiver in time and channel | `Micmac` |
| CSMA (`mac/csma.c`) | a queue per neighbour, timers, pools | send, bursts, retransmission | three ways to drive one queue, calls from within the callback | one driver per queue, one fate per packet | `Csma` |
| RPL (`core/net/rpl`) | DAG, parents, rank, default route, Trickle timers | DIO, DAO, DIS, callbacks of link and neighbour cache | loops, stale ranks, repairs that meet, wrapping sums | routes become loop-free paths to the root | `Rpl` |
| IPv6, 6LoWPAN, neighbour table, buffers | tables, fragments | | | | the end of the probes in `Rpl` |
| Multi-hop PSM, Rime, other MACs of Contiki, libraries, Coffee | | | | | none (section 6) |
| Atmel framework, CMSIS, firmware image | vendored | | | | none |

`PROJECT.json` lists the hazards at their lines, with the properties about them.

## 2. Plan

Done: the power-save manager with its responses, queues and bulk-out path
(`Ar9170Psm`, `Ar9170PsmHistory`); the abstract beacon interval and the proof that
the driver implements it (`BeaconCycle`, `Ar9170Cycle`); several stations running
that interval (`PsmNetwork`); the command path (`UsbCmd`); the kernel (`Kernel`) and
the life of a node above it (`Lifecycle`); MiCMAC's meeting of sender and receiver
(`Micmac`), its queues (`Csma`); the routing protocol (`Rpl`).

Left, in this order:

1. RPL's routes to the leaves (No-Path DAOs, lifetimes) and full tables;
2. `Runicast` and route discovery of Rime, neighbour discovery and TCP of uIP;
3. the heap cells of `cpu/linked_list.h`, Coffee's log.

## 3. Modules

| Module | Content |
|---|---|
| `Ar9170Psm` | the driver with its interrupts, and the properties of its states and steps |
| `Ar9170PsmHistory` | `Ar9170Psm` with history variables and the properties that need them |
| `BeaconCycle` | the abstract beacon interval, for any number of stations |
| `Ar9170Cycle` | the refinement mapping: the driver as one station of `BeaconCycle` |
| `PsmNetwork` | stations of `BeaconCycle` with queues, ATIM frames and data on a lossy channel |
| `UsbCmd` | the command path |
| `Kernel` | processes, events, polls and event timers |
| `Lifecycle` | set-up, operation and loss of the device |
| `Micmac` | one sender and one hopping receiver |
| `Csma` | neighbour queues and bursts |
| `Rpl` | a network of RPL stations |
| `Ar9170Psm_proofs` (on `Ar9170Psm`, `Ar9170Cycle`, `Ar9170PsmHistory`), `PsmNetwork_proofs`, `UsbCmd_proofs`, `Kernel_proofs`, `Lifecycle_proofs`, `Micmac_proofs`, `Csma_proofs`, `Rpl_proofs` | theorems |
| `MC...` | constants of the runs |

`BeaconCycle` is where the levels meet: `Ar9170Psm` implements one of its stations
(checked in `PsmInterval`, proved in `Ar9170Psm_proofs`), and `PsmNetwork` composes
several of them (that each of its steps is one of `BeaconCycle` is proved in
`PsmNetwork_proofs`). `Lifecycle` uses what `Kernel` models in full: one process at a
time, a bounded event queue, one walk over the polls. `Csma` leaves the result of a
transmission open; `Micmac` says which results come when.

Modules with state have a `TypeOK` (`CycleTypeOK` and `NetworkTypeOK` in `BeaconCycle` and
`PsmNetwork`), except `Csma` and `Micmac`, whose types are in the invariants of their
proofs. Those of `Ar9170Psm`, `PsmNetwork`, `UsbCmd` and `Rpl` are theorems; the others can
be added to a run as `INVARIANT TypeOK`. The inductive invariants of the proofs contain
what they need of the types.

Definitions marked as variants, or whose name continues that of another one with
what it gets wrong (`TbttWaitsKept`), are the plausible mistakes the properties are
tried against. No specification uses them.

### Ar9170Psm

Two contexts share the driver's state. *Interrupt handlers* run to completion;
each is one action: `PreTbtt`, `TxComp`, `BeaconConfig`, `BulkOutDone`,
`BulkOutError`, `AtimWindowStart`, `AtimWindowEnd`, `SoftBeaconTx`, `RxAtim`.
The *main loop* is one pass of `ar9170_op_scheduler` followed by
`ieee80211_op_scheduler`, repeated because `net_scheduler_process` polls itself.
It is cut into steps, and `pc` names the next one:

    erase -> powersave -> tx -> [first_atim, last_da | first_pkt] -> async_tx
          -> write -> send | append -> dequeue -> [override] -> rx -> ... -> create

A cut is made wherever an interrupt can invalidate what was read. The
read-modify-write of `off_override` and the walk and link of
`linked_list_add_tail` are two steps each; the power-save check reads the mask,
acts, and clears it in three; `ar9170_async_tx` checks, writes, transfers and
dequeues in four. The two walks that choose a frame are one step each: the only
interrupts that change what they read are the TBTT, which they re-check, and a
TX status, which is not outstanding while they run unless statuses are late.

Variables keep the names of the C fields. What is abstracted:

- a frame is its address field; a queue is a sequence of addresses;
- `wake_neighbors_list` is the set of its addresses; its capacity of 32 is not
  modelled;
- `tx_list` is the buffer at its head and the sequence of chunks behind it;
- `device` holds the frames whose status is outstanding. That is not driver
  state: the driver has no such record, which several findings come down to;
- the power-state word in the PRETBTT response is always "awake", since the
  command that would put the device to sleep is commented out in
  `ar9170_powersave`;
- reception is modelled for ATIMs only: data frames and beacons change no
  variable of the model.

Undefined behaviour is a choice. `linked_list_erase` frees the cells of the ATIM
queue one by one and the driver keeps the pointer to the first. `FirstAtim`
therefore leaves either an empty queue or one with a meaningless element when it
discards two or more.

`Faults` is the set of things the environment does beyond the expected, each
taken from a comment of the code that mentions it (list in the module). A run
names the faults it allows; without a fault, the timing assumption that excludes
it is a conjunct of the action concerned (`TbttExpected`, `AtimWindowStart`,
`BeaconConfig`). They say that the main loop completes its work of an interval,
and that the device answers, before the next TBTT 100 ms later.

`PsMode` and `SoftBeacon` are the compile-time choices `IBSS_STD_PSM` or none,
and `WITH_SOFT_BEACON_GENERATION`.

### Ar9170PsmHistory

Six history variables record what no variable of the driver does: who was
heard since the TBTT, whose ATIM was handed down, which packets were pending
when ATIMs were created, whether the bulk-out lock has been held since the last
TBTT, how many ATIM windows one and the same data wait has seen, and `chosen`, the
frame the loop has turned to. The code keeps a pointer to that frame, and later
removes the first entry of the queue without looking at it; `Choice` computes the
frame from the queue as it was when the loop turned to it. Every action of
`Ar9170Psm` occurs in exactly one disjunct of `HNext`.

### BeaconCycle, Ar9170Cycle and PsmNetwork

`BeaconCycle` keeps of the power-save manager what another station, or the layer
above, can rely on: the window of the interval, the reasons not to doze, the doze
decision and state, whom it believes awake, the frame it is busy with and the frame
on the air. Queues, flags and transfers are left to the driver. It promises that a
station dozes only after its ATIM window closed without a reason; that a data frame
is picked only for a station believed awake, or for everyone; that belief is
dropped at each TBTT and gained only by hearing from a station; that a frame chosen
in a window goes on the air in that window or was chosen just before a TBTT.
`Ar9170Cycle` maps the driver to it: `window` is `psm_state`, `work` is read off the
program counter, `toSleep` is the pending doze request, `stale` the erase request.

`PsmNetwork` adds, per station, the packets to send, the ATIMs to send, the ATIMs
received and the status owed. An ATIM is received, or not; acknowledged, or the
acknowledgement is lost; its status arrives, or is lost. The protocol works only
under the timing it was made for, which the module states as three conditions: no
station is more than one window ahead of another (`AllIn`, the IBSS's synchronised
timers), no ATIM is under way when the first station closes its window
(`AtimUnderWay`), and the loop keeps up (`Timely`). The hardware acknowledges an ATIM
before the driver has queued it, so without them a sender may count on a station
that sleeps; the code has no answer to that.

### UsbCmd

The main loop issues commands, synchronous ones that sleep on `cmd_wait` and
asynchronous ones, and comes by `ar9170_sch_async_cmd_check`; `pc` cuts it at the
checks an interrupt can invalidate. `ar9170_usb_write_reg` is *check and buffer*,
*append* (a walk during which the callback may free the cell it started from,
`walk_freed`), *lock* and *send*. The callback of the endpoint, the TBTT, a TX status
that finds both locks set, and each response are an action. Responses carry a number;
the host drops those that do not match and `cmd_seq = -1` accepts any.

`Envs` lists the environments a run tries; in each, a subset of `Conditions` may
happen: failed, lost or slow transfers, a response before its callback, TX
statuses, lost responses, no memory, and `Paced`, callers who wait for one command
before they issue the next. Each property says in which environments it holds.

### Kernel

One C stack with a frame for each kernel function or thread that has not returned,
the process list as the next pointers it is in the code, the event ring, the list of
event timers. A thread makes any sequence of kernel calls (start, exit, post, post
synchronously, poll, set and stop a timer) and yields or ends; interrupts poll and
advance the clock between any two steps. Assumed of applications, because every
caller in the repository keeps to it: an exit handler makes no kernel calls, and
`process_exit` is called for a process that is not in the middle of a call itself
(`resolv.c:500`, `timesynch.c:95`). The scan of expired timers is one step per timer.
`Ahead(x)` is what a walk at `x` has still to reach, the least set of processes that is
closed under `next`: it needs no assumption that the list ends or is finite.

### Lifecycle

Three processes (set-up `I`, IBSS set-up `B`, scheduler `N`) with a step for each
read and each write of the flag word in `usb_lock.c`, so that an interrupt in between
is overwritten; the stick is plugged in, ejected, comes back as a radio, is pulled.
`Envs` again: `unplug` (pulled at any time rather than from a node at rest), `quick`
(plugged in before the node has noticed), `fail` (a device that refuses). `Noticed`
and `AtRest` state what the two first exclude. A command to a device that is gone
never returns (`hung`), a use of the null device is `fault`.

### Micmac and Csma

`Micmac` has one sender and one receiver. Time advances by `Tick`; every other step
takes none. The receiver's first cycle after a boot or a reboot is of double length:
`powercycle` adds `CYCLE_TIME` to `cycle_start` on entering its loop
(`mccontikimac.c:509`, `547`), wakes at once, and schedules the next wake-up a cycle
after that (`661-665`). `first` says that this first wake-up is still to come, and
`InRhythm` that the double cycle is over but for its last `CYCLE_TIME`, so that the next
wake-up is where a cycle and a hop each lead to. What a sender learns earlier is one
channel too far until it is dropped: `KnownIsPredictable` fails (section 4). The history
variable `stale` marks an entry that was learnt then or before a reboot, `disturbed` a
train that began then or met a fault. Of the sender's record only `RTIMER_NOW() - e->time` is kept, which is
all the code uses; channel indices wrap at `IndexMod`, the clock at `ClockMod`. A
train is given by when it starts and ends and which strobe, if any, will be answered.
Faults (reboots of the receiver, lost strobes and acknowledgements, busy channels)
are bounded together. Left out: broadcasts, `ROOT_IP` and `keep_radio_on`, a table
that is full, drift correction (`PHASE_DRIFT_CORRECT` is 0), and the variant for
hardware acknowledgements, which reads an uninitialised `txtime`. The branch for
powers of two (`mcphase.c:204-211`) and the other one differ by a cycle when the
remaining time is a multiple of it, and `Remaining` has both. The difference does not
show while a wait of a whole cycle is put off, after which it is computed anew; at 32
checks a second it is too short for that (section 4). The code does not put off a wait
either when its queue items are all taken, which the single packet of the model never
finds.

`Csma` has the queues, their timers, the deferrals of `mcphase.c` with their pointers
to a record and its head, and the burst of `qsend_list` with its `curr` and `next`. A
packet is a number, handed down once, from above or from the callback of another.

Read along the way, not modelled: the duplicate filter at
`mccontikimac.c:1258-1279` compares 8-bit identifiers, so a new packet can be taken
for an old one after 256; `src/micmac/README.md:24` says a sender strobes over all
channels, where the code stays on one.

### Rpl

`node[n]` is a station's `rpl_dag_t` with the entries of its parents' table; handlers
run to completion in the tcpip process, so each is an action, and what interleaves is
the stations. A DIO is heard when it is sent or never: its delay is short against the
shortest Trickle interval of four seconds. Handlers that select a parent have several
outcomes, since the walk over the table goes in order of arrival, which the model does
not keep; `BestParents` has the choices of every order.

The numbers keep their relations rather than their sizes: ranks end at one less than a
power of two, `calculate_path_metric` wraps there and `calculate_rank` is capped,
versions are lollipops with a linear and a circular part. Disturbances, which
`MaxFaults` bounds together: a link that goes or comes, a metric that changes, probes
lost although the neighbour is there, a DAO that arrives after its sender changed its
parent, a restart, a global repair. Left out: the timing and suppression of Trickle,
DIS, No-Path DAOs and the routes to the leaves, prefixes, several DAGs and instances, a
full neighbour table.

Read along the way, not modelled: `dao_input` locks the sender's entry
(`rpl-icmp6.c:743`) and nothing unlocks it, so a table of
`NBR_TABLE_CONF_MAX_NEIGHBORS` may fill with entries that cannot be replaced;
`lollipop_greater_than` holds both ways for 240 and a number of the circular part; the
metric of a link never disqualifies a parent that does not answer
(`MAX_LINK_METRIC` only caps it), only the end of the probes does; a station that
nullifies its preferred parent picks another one at the next event, not at once.

## 4. Runs

| Run | Instance | Shows |
|---|---|---|
| `PsmDeviceFaults` | early TBTT; status before callback, lost, failed, slow callback; soft beaconing | `WaitDiscipline`, `WindowTimer`, `BufferInFlight` |
| `PsmInterval` | lost status; ATIMs from two neighbours, packets to one of them and to all, queues of two | `AwakeTruthful`, `EveryPacketAnnounced`, `BlockedOneInterval`, `FrameAtHead`, `NoOrphanChunk`, `SleepOnlyInTxWindow`, `StatusOfItsFrame`, and the refinement `ImplementsBeaconCycle` |
| `PsmLive` | lost and late status | `WaitsReleased`, `WindowsRecur`, `SleepSettles` |
| `PsmOff` | lost status, lost callback; no power-save mode | `PacketsLeave` |
| `PsmNetwork` | two stations, unicast and broadcast, lost frames, acknowledgements and statuses | `ReceiverIsAwake`, `BothKnow`, `QueuesMove` |
| `UsbCommands` | two synchronous and two asynchronous commands, twelve environments, numbers modulo 3 | `HeadInFlight`, `OwnReply`, `BrokenForGood`, `SequenceRecovers`, `CommandsSent`, `SyncReturns` |
| `KernelCalls` | two applications, two timers, an event queue of one, three nested threads | `PollNotLost`, `RunningIsListed`, `TimersOfTheLiving` |
| `Lifecycle` | eight environments, three plugs, an event queue of three | `JoinedHasDevice`, `OneActive`, `NetworkReturns` |
| `Micmac` | four channels, clock of 64, index of 8, two faults; a receiver that has just booted | `PhaseTruthful`, `MissedForCause`, `PacketArrives` |
| `Csma` | four packets, two unicast receivers and broadcast, two records, three buffers | `OneDriver`, `OneFate`, `AllReported` |
| `Rpl` | root and two stations in all eight topologies, one disturbance | `RankThroughParent`, `RouteIsParent`, `LoopsAreStale`, `Converges` |

Each takes between two seconds and about two minutes.

**Bounds.** The runs of the driver use one station besides this one, or two, queues of
one or two entries and one outstanding status. This is enough for the interleavings in
question: each involves one frame under way, one interrupt, and at most one further
frame or neighbour. Announcing and discarding need two receivers and a queue of two, so
`PsmInterval` adds the broadcast address and the second entry; `FrameAtHead` needs two
different frames in each queue, so it has a second neighbour that sends ATIMs and a
reception queue of two. In `UsbCommands` four
commands are one for each place of the path (issued, on the list, on the endpoint,
unanswered); a modulus of three lets one lost response shift the numbers without
meeting again at once. `KernelCalls` has the fewest processes with which a walk can lose
its place, and the queue of one is full whenever anything waits; symmetry of
applications and timers is used, all its properties being safety. Three plugs are a first
life, a loss and a second loss. In `Micmac` clock and index wrap several times in a
behaviour; four channels are one of the tables of `mccontikimac-hopseq.h`. In `Csma` the
third packet of a burst and the refusal for lack of buffers and records all occur. In
`Rpl` three stations are the fewest with an alternative parent and with a loop of two;
rank 15 is reached by counting, so the cap and the wrap occur. The safety part of `Rpl`
also passes with two disturbances (`MaxFaults = 2`, `Spec`).

**Deadlock** is checked except in `Csma` (all packets handed down and reported),
`Lifecycle` (a call that never returns, with the stick gone and no plug left) and `Rpl`
(a network at rest, where a DIO changes nothing).

**Assumptions of `PsmInterval`.** They are real ones: `AwakeTruthful` fails when
statuses outlive their interval (below) or when the loop misses the pre-TBTT period, as
the warning at `ar9170_scheduler.c:67` says; `SleepOnlyInTxWindow` fails when a doze
request is executed in a later interval; `StatusOfItsFrame` fails with soft beaconing,
because a soft beacon is sent without a wait flag and its status ends whichever wait
there is (`wifi/ar9170tx.c:773-778`); the queue behind a failed transfer is stuck in the
same way as in the case of `TxListDrains` below.

### Where the code does something else than it says

`PsmDozeRace` ends with a counterexample to `AwakeWithReason`: the ATIM window ends between
the read and the write of `off_override |= PS_OFF_ATIM`, and the node dozes after it was
announced data. `PROJECT.json` quotes the comment it contradicts.

The following properties are in the modules and fail in the same way; each line gives
the run's configuration to change (for the driver that of `PsmDozeRace`).

| Property | Module, specification | Change | What happens |
|---|---|---|---|
| `NoTxInPreTbtt` | `MCAr9170Psm`, `Spec` | | TBTT between the last check of the period and the transfer: a frame goes down in the pre-TBTT period |
| `TxListDrains` | `MCAr9170Psm`, `FairSpec` | `Faults <- UsbRaces` | a status overtakes the bulk-out callback; the next frame is linked behind the buffer, becomes the head, and nothing ever sends it |
| `AwakeTruthful` | `MCAr9170PsmHistory`, `HSpec` | `Faults <- LateAnswers` | the status of a previous interval is credited to the ATIM waited for now: its receiver counts as awake |
| `LockForOneInterval` | `MCAr9170PsmHistory`, `HSpec` | | the callback leaves the clear request of the lock set; a later transfer loses its lock at its first TBTT |
| `AwakeUntilErased` | `MCAr9170Psm`, `Spec` | `Nodes = {n1, n2}` | two appends to the awake list interleave; one neighbour is lost |
| `AtimsForReceivers` | `MCAr9170Psm`, `Spec` | `Nodes` and `Receivers = {n1, n2}`, `MaxPending = 2` | all pending ATIMs redundant: the queue is read through a freed cell |
| `SyncReturnsAlways` | `MCUsbCmd`, `FairSpec` | `UsbCommands.cfg`, `Envs <- FaultFree`, `MaxLost = 0` | a synchronous command issued behind an asynchronous one is queued; its caller sleeps, and the loop that would send it is the one that sleeps (`usb_cmd_wrapper.c:188`) |
| `AllInformed` | `MCKernel`, `Spec` | `KernelCalls.cfg` | a process that is in the middle of a call is not told of another one's exit, contrary to `process.c:142-146` |
| `NoNullDevice` | `MCLifecycle`, `FairSpec` | `Lifecycle.cfg`, `Envs <- UnplugOnly`, `MaxPlugs = 2` | `net_scheduler_process.c:75` says "we signal an event to all" when the device is gone; the event goes to the scheduler only, and `ibss_setup_process` goes on with the null pointer |
| `KnownIsPredictable` | `MCMicmac`, `Spec` | `Micmac.cfg`, `MaxFaults = 0` | a receiver learnt at its first wake-up sleeps for two cycles and hops once (`mccontikimac.c:509-513`, `547`, `661-665`); the sender counts two hops, and contrary to `src/micmac/README.md:23` predicts the wrong channel until it has dropped the entry |
| `MissedForCause` | `MCMicmac`, `FairSpec` | `Micmac.cfg`, `Channels <- ThreeChannels`, `Row <- ThreeRow`, `ClockMod = 96`, `MaxFaults = 0` | with a number of channels that does not divide 256 the 8-bit index jumps when it wraps, and the prediction of `src/micmac/README.md:23` is wrong |
| `MissedForCause` | `MCMicmac`, `FairSpec` | `Micmac.cfg`, `ClockTick = 3`, `MaxFaults = 0` | the proportions of 32 channel checks a second (cycle 1024, guard time 520, 256 ticks to a clock tick): a wait of a whole cycle is too short to be put off, and a packet that comes a whole number of cycles after the synchronisation is sent one channel too far. `mcphase.c:206-207` has 0 left there where the general branch has a cycle; lines 215-218 add one, and count for it a channel that `(now - sync) / cycle_time` has counted |
| `OneDriver` | `Csma`, `Spec` | `Csma.cfg`, `Urgent = {p2}` | a packet of type ACK is put before a head that is deferred (`csma.c:353-358`): the deferral's pointer is not the head any more |
| `MinRankPerIteration` | `MCRpl`, `Spec` | `Rpl.cfg` | `rpl.h:132` says of `min_rank` "should be reset per DAG iteration!"; it rises within one whenever a parent is found after there was none (`rpl-dag.c:670`), so two stations can count up past the bound they had |

### Fairness

- *Driver* (`FairSpec` of `Ar9170Psm`): weak fairness of the main loop (the process
  polls itself), of the rtimer (a compare interrupt) and of the end of a transfer (the
  host controller reports or times out; where a fault lets the callback vanish, that
  also ends it); for a status, weak fairness that it arrives *or is lost*. For the
  beacon timer strong fairness: the timer does not wait for the loop, but
  `TbttExpected` states what the loop has done by then, which holds at some of its
  steps and not at others. No arrival of packets, ATIMs or beacons is assumed.
- *Network*: the same for each station; for the stations whose progress is looked at,
  neither window is always too short for a frame, and of the ATIMs repeated for one
  station not every acknowledgement or status is lost.
- *Commands*: the loop runs and comes by its check, transfers end and not always with
  an error, the device answers, its beacon timer goes on. No command is assumed.
- *Lifecycle*: the loop runs, timers expire since SysTick polls `etimer_process`, a stick
  told to eject comes back as a radio. Nobody is assumed to plug one in.
- *MiCMAC*: time passes and steps that are due are taken. *CSMA*: each queue's timer or
  deferral fires, a transmission has a result. Faults end because they are bounded.
- *RPL*: the periodic timer fires, a station that keeps sending finds out that its next
  hop is gone, and the DIOs of each station are heard. The last is per sender: as long as
  a station's DIOs would change something at one of its neighbours, some neighbour hears
  one in the end, since Trickle repeats them. Fairness of DIOs as a whole would not do: a
  parent whose path metric wraps near `INFINITE_RANK` may then stay the best for ever.

## 5. Proofs

Each theorem holds for every value of the constants that satisfies the assumption its
module states, which says that names are different and bounds are natural numbers (at
least one where the code has room for at least one). Everything else a theorem needs is a
hypothesis in its statement. No theorem bounds the number of stations, processes, packets
or commands.

### The driver

`Ar9170Psm_proofs` proves, with all faults, modes and bounds:

- `WindowTimerHolds`, `WaitDisciplineHolds`: the properties are inductive as
  they stand. Each has one step per action that touches its variables and one
  lemma-like step for all the others.
- `TypeOKHolds`: types are not inductive alone, because `Head` and `Tail` of a
  queue have their types only when it is not empty. That the queue is not empty
  while a frame of it is under way is `FrameQueued`. The inductive invariant
  `IInv` is their conjunction; it is proved part by part (`PmStep` ... `LoopStep`,
  `FrameQueuedStep`) over lemmas on sequences: moving to the front, suffixes,
  appending below the bound.
- `BufferInFlightHolds`: relative to `IInv`, and like the others with all faults,
  `SlowLoop` included. Only the main loop starts a
  transfer, and only after it found `tx_list` empty; that the endpoint is idle
  then is the second half of the property, and the reason a transfer is never
  refused as busy.

On `Ar9170Cycle` it proves the refinement, `Spec => ImplementsBeaconCycle`: initial
states map to initial states (the awake list is empty and nothing is under way), and
each action of the driver maps to the action of `BeaconCycle` its lemma names
(`TbttSimulated`, `AtimWindowEndSimulated`, `PowersaveSimulated`, ...) or to a stutter.
It rests on `IInv`, `WindowTimer` and `CInv`, which is inductive given the other two:
unless the loop is late, a doze request is pending only in the TX period and an erasure
only before TBTT; what was read before an interruptible write is still part of what the
write overwrites; nothing is sent between a doze request and the doze.

On `Ar9170PsmHistory` it proves the properties of `PsmInterval`, those that relate what
the driver believes to what it cannot see. Three hold without conditions on the
environment, or almost:

- `FrameAtHeadHolds`: under every fault. `FirstAtimChooses` and `FirstPktChooses` show
  that dropping the ATIMs before the chosen one, or moving a packet to the front, leaves
  the frame of `Choice` at the head; `OthersKeepHead` that the loop's other steps and the
  interrupts leave the head of a queue in use alone. They append behind it, and only
  `Dequeue` and `RemoveRx`, which end the work on the frame, take one away;
- `SleepOnlyInTxWindowHolds`: unless the loop is late (`InTime`);
- `BlockedOneIntervalHolds`: under every fault. `Waited` says that a data wait which has
  seen one window is marked to be cleared at the next TBTT.

The others hold in *orderly* intervals (`Orderly`): power-save mode without soft beacons,
statuses may be lost and a TBTT may come early, but nothing sent outlives its interval and
no callback is lost, late or overtaken. Section 4 says what breaks without these
conditions. Their invariants build on one another:

- `Flight`: the frame a wait flag is set for is with the loop, on the endpoint or in the
  device, and is the only one. From it follow `NoOrphanChunkHolds` and
  `StatusOfItsFrameHolds`: the driver identifies a frame by its kind alone, which is
  enough only while there is one.
- `Truth`: the receiver that the status will be credited to (`last_ATIM_DA`) is that of the
  frame in flight, and the list of awake neighbours contains only stations heard in this
  interval or is about to be erased. `AwakeTruthfulHolds` follows.
- `Ordered` and `Announced`: the queue of ATIMs has no receiver twice, so creating them
  never runs out of room (`Roomy`), and each packet that was pending when they were created
  has a receiver that was told, is being told, is still in the queue, or was heard.
  `EveryPacketAnnouncedHolds` follows, also where an acknowledgement interrupts the loop
  while it links a neighbour.

The last two assume `[]AtimsForReceivers`: no ATIM is read through the pointer to a freed
cell. With two neighbours the code does that (section 4). With one it does not, and this is
proved: `CreatedFirst` (ATIMs are created before any of the interval is sent) and
`AnnouncedOnce` (an address that is awake and still announced is the one being dequeued)
exclude that the neighbour and the broadcast address are both redundant at once
(`AtimsForReceiversHolds`). `OneNeighbourIsTold` combines the three without the condition.
`HistoryIsBehaviour` says that the history variables restrict nothing.

### The network

`PsmNetwork_proofs` proves `BothKnow` and `ReceiverIsAwake` for any number of stations and
queues of any length. `Phases` says what the window of a station tells of its doze
decision and of what it has under way; `Announced` that announcements are made before any
station closes its ATIM window and that a receiver about to be counted on will note it;
`Belief` that whom a station believes awake is reliable in the sense its window demands.
Receiver and sender are at different points of the interval, so "reliable" changes with
the window: about to get a reason in the ATIM window, having one afterwards, having had
one until the belief is dropped. The hypotheses are the module's own: power-save mode and
a loop that keeps up (`Ps`, `Timely`).

The second half is about the queues and what the network is. `QInv` joins the types with
`AtHead`: a frame whose receiver is chosen is the head of the queue it came from. They need
each other, because sending takes the `Tail` of a queue, and `AtHead` says that it is not
empty; the first-in-set of a queue has a type only because the queue has one
(`FirstInIs`), and the bound on new announcements is derived along the scan that creates
them (`AnnouncementsIs`). From `IInv` and `QInv` follows `NetworkImplements`, action by
action: whom a station credits or picks is an address, an ATIM that is heard is in the
reception queue, and a reason is added to those there are. `NetworkTypeOKHolds`,
`SentIsHead` and `NetworkRefinesCycle` are the results. With `DriverImplementsBeaconCycle`,
the driver of one station and the network of all are two refinements of one module.

### The command path

`UsbCmd_proofs` proves types, `HeadInFlight`, `BrokenForGood` and `OwnReply` for all
commands, environments and bounds. Types need that a step of the loop that works on a
command has one (`TInv`). `HeadInFlight` needs `FInv`: unless the lock is released early, a
transfer means that the buffer is the command on the endpoint and the lock is held; where
the loop is about to lock or to send, the endpoint is idle and the buffer is the loop's
command. `BrokenForGood` follows from `TInv`, step by step. `OwnReply` needs `RInv`: a
synchronous command exists once, from its caller's buffer over list and endpoint to the
device's responses, and only as long as its caller sleeps.

Of `SequenceRecovers`, `SequenceKeptHolds` is the part without losses: no response is ever
dropped then. `FewResponsesDropped` says how far the rest goes without fairness: while the
numbers differ, each response brings them nearer by one.

### The kernel

`Kernel_proofs` proves `PollNotLost`, `RunningIsListed` and `TimersOfTheLiving` for every
set of processes and timers, every length of the event queue and every nesting of calls.
The invariant `KInv` has these parts:

- `EndsAtEtimer`: every walk, wherever it stands, reaches the event timer process at the
  end of the list. `process_start` puts a process before all walks and `exit_process` takes
  one out of them; the lemmas `AheadStep`, `StartKeeps` and `UnlinkKeeps` say what a walk
  still reaches after that.
- `StackOK`: what each frame says of its process (`FrameOK`), what holds between any two
  frames (`PairOK`: no process is called twice, above an exiting process only the calls
  that its exit makes), and between neighbours (`NextOK`: the walk of `do_poll` stands at the process
  whose thread it called, and that process is still on the list). Only the top frame acts;
  `CallOK`, `ReturnOK` and `ExitOK` carry the discipline over a push, a pop and an exit.
- `PollsKept`: an accepted poll is requested, or its process is ahead of a walk of `do_poll`
  further down the stack.
- `TimersOwned`: a timer is listed once, and its process runs or `etimer_process` is still
  to be told, or is being told, that it exits.
- `EtimerRunsAlone`: `etimer_process` calls nobody and never ends, so it is always there to
  be told.

It is conditional on the same assumptions of applications as the model (section 3).

### The layers around it

`Lifecycle_proofs` proves `OneActive` and `JoinedHasDevice` for every environment, any
length of the event queue and any number of plugs. The strengthening `OneActiveInv` adds
that the kernel has taken back a process's poll while that process's handler runs: only
then does a handler that polls the other process and ends leave at most one of them active.
`JoinInv` adds what connects the stick with the flags the driver keeps of it: set-up starts
from flags that know of no device and does not take a stick that was told to eject for a
radio (`CleanStart`, `NoRadioYet`); from the allocation on the only radio is the one that
was allocated, and its flags are set (`OneRadio`, `RadioFlags`), although other writers
may overwrite the word with what they read before; and the scheduler finds `ADDED` for every
network that was joined (`JoinTold`).

`Csma_proofs` proves `OneFate` for all packets, records, buffers and bursts: a packet is in
one place of one queue or was reported once (`FateInv`). `OneDriver` is proved where no
packet is put before another one (`Urgent = {}`); with packets of type ACK it fails
(section 4). `DriverInv` says that the packet under way is the head of its queue, that no
deferral of that queue is pending beside it, and no timer either while the packet may still
be deferred itself; and that the burst's `next` is the packet that will then be the head.

### MiCMAC

`Micmac_proofs` proves `PhaseTruthful` and `MissedForCause` for every cycle, guard time,
table of channels, width of clock and index, and number of faults. The hypothesis `Fits`
has the two conditions without which section 4 shows them to fail: the number of channels
divides that of the values of an index, and where the cycle is a power of two a wait of a
whole cycle is put off. `MicmacAssumption` says what the constants of `mccontikimac.c`
are chosen for: a short train that starts a guard time early covers the receiver's
wake-up and its answer, and the wrap of the clock is a whole number of rounds of the
sequence.

The arithmetic is that of multiples: `Multiple(x, c)` replaces `%` and `\div` by constants
that are not numbers, with which the provers do nothing, and `DivMod` and `SameMod` lead
back. The invariant `MInv` follows the train. `Phase`: what the sender keeps is, up to the
delay of an answer, a whole number of cycles from the receiver's next wake-up, and its
channel index as many places from the receiver's. `Aimed`: a train that waits to be sent
by prediction is for the next wake-up or the one after it, on its channel. `Covered`: once
under way it lasts beyond the next wake-up, and is on its channel. `Searched`: a long train
that nobody has answered lasts beyond the wake-up on the channel it is on. `Answering` and
`InTrain`: a strobe is answered by a receiver awake on its channel, and before the train
ends. `Phase` holds for an entry that is not `stale`, and says that the receiver is in its
rhythm; `Aimed`, `Covered`, `Searched` and `InTrain` hold while nothing was lost and the
receiver, in its rhythm when the train began and when it was learnt, has not rebooted. In
the double cycle `to_wake` may exceed a cycle, which is why `Answering` counts the time
since the wake-up from either length.

### RPL

`Rpl_proofs` proves types, `RankThroughParent`, `RouteIsParent` and `LoopsAreStale` for
any number of stations, any ranks, positive metrics and versions, and any number of
disturbances of all kinds. (A metric is positive because it counts transmissions, and a
packet is sent at least once.) Nothing is assumed of links: DIOs may be heard in any order, from any station
with any rank and version.

The invariant `RInv` holds per station, since a handler changes one: `Typed`, `RankGiven`
and `RouteKept`. The last is stronger than the property: a preferred parent
without a route is not only marked for the next recalculation, it has no rank. That is
what is needed, for the recalculation must then drop it: were it usable again, it would
stay the preferred parent and `rpl_select_dag` would set no route. A metric that changes
or a link that answers meanwhile marks the entry and leaves its rank; a DIO gives it a
rank, but sets the route as well.

The handlers share `rpl_process_parent_event`, and so do the proofs. `Changed(v, p)` is
what a handler may have upset when it has written the entry of `p`; `ProcessParentEventIs`
says that these properties hold after it, or else that the one parent without a
route is usable again (`Unrouted`), which each caller excludes in its own way. Below it
are one lemma for each function (`SelectDagIs`, `NullifyParentIs`, `LocalRepairIs`,
`BestParentsIs`) and above it one for each handler (`CandidateDioIs`, `GlobalRepairIs`,
`RecalculateRanksIs`, `ForgottenIs`, ...).

`LoopsAreStale` relates stations, and follows from `RInv` as it stands. Ranks may be above
any bound a station had (`MinRankPerIteration` in section 4) and no number is kept that
would tell a loop; what can be relied on is that a loop always contains something a DIO or
the next recalculation changes. A station that is up to date has a greater rank than its
next hop (`RankRises`, also at the cap; `NextHopIsNearer`), so in a loop the station of
least rank, which `LeastNumber` gives, is not up to date.

### What is left to TLC

Every safety property the passing runs check is a theorem. Liveness and everything with
`ENABLED` stay with TLC: `WaitsReleased`, `WindowsRecur`, `SleepSettles`, `PacketsLeave`,
`QueuesMove`, `SequenceRecovers` (as far as it goes beyond `SequenceKept`), `CommandsSent`,
`SyncReturns`, `NetworkReturns`, `PacketArrives`, `AllReported` and `Converges`.

The library's induction theorems take an operator as a parameter and cannot be used. What
a recursive function computes is proved where it is needed from a least element instead:
`Least` in `Kernel_proofs` and `LeastNumber` in `Rpl_proofs` and `PsmNetwork_proofs`
derive that every set of natural numbers has one from the well-foundedness of strict
inclusion of finite sets; `Induct` and `AlongWalk` derive induction over `0 .. N`;
`WithoutOK`, `BestParentsIs`, `RecalculateRanksIs` and `AnnouncementsIs` use it for the
scan that removes timers, the choice of a parent, the recalculation of ranks and the
creation of announcements. Predicates over the walks of the kernel are least closed sets,
not recursive functions, for the same reason.

## 6. Not modelled

The repository holds some 155,000 lines, most of them vendored or upstream: the Atmel
framework and CMSIS (headers, drivers of peripherals that are not used), Contiki's
libraries, other link layers, Rime, uIP with TCP, 6LoWPAN's header compression, tools
and examples. A model of them would say little about this system. Of the code that is
this project's own:

- header construction and parsing, rate control, EEPROM, PHY set-up and LEDs are data
  or register traffic without a protocol;
- multi-hop PSM is compiled in and not selected;
- the radio, the USB host controller and the other stations appear only through what
  the driver is told;
- `net_setup_process.c` is not built into the shipped configuration;
- ctimers are callbacks above etimers and add no interleaving to those of `Kernel`;
- the state of neighbour discovery appears in `Rpl` as "the probes end".
