-------------------------------- MODULE Micmac --------------------------------
(***************************************************************************)
(* How a MiCMAC sender meets a receiver that sleeps (micmac/net/mac).      *)
(*                                                                         *)
(* The receiver wakes once a cycle, each time on the next channel of its   *)
(* hop sequence (powercycle).  A sender that does not know it repeats the  *)
(* packet on one channel until the receiver has been on all of them; the   *)
(* acknowledgement tells it when the receiver woke and at which place of   *)
(* its sequence (mcphase_update).  From then on it computes when and where *)
(* the receiver wakes next (mcphase_wait) and sends a short train around   *)
(* that moment.  The computation is done in clocks and indices of a few    *)
(* bits that wrap.                                                         *)
(*                                                                         *)
(* Time advances by Tick; every other step takes none and is taken when it *)
(* is due.  One sender and one receiver; the clocks run at one rate.       *)
(***************************************************************************)
EXTENDS Integers, FiniteSets

CONSTANTS
    Cycle,       \* CYCLE_TIME
    Guard,       \* GUARD_TIME
    Lead,        \* CHECK_TIME_TX, the channel checks before a train
    KnownTrain,  \* MAX_PHASE_STROBE_TIME
    Slack,       \* 2 * CHECK_TIME, see STROBE_TIME
    ClockTick,   \* RTIMER_ARCH_SECOND / CLOCK_SECOND
    MaxDelay,    \* the latest start, after a wake-up, of the strobe that is
                 \* acknowledged
    ClockMod,    \* the values of rtimer_clock_t
    IndexMod,    \* the values of a channel index (uint8_t)
    Channels,    \* MCMAC_NUM_CHANNELS of them
    Row,         \* the receiver's row of the hop sequence
    MaxNoacks,   \* MAX_NOACKS
    MaxFaults    \* bound: reboots, lost strobes, lost acknowledgements and
                 \* busy channels in a behaviour

NoChannel == 0

Columns == Cardinality(Channels)   \* HOP_SEQUENCE_COL_NUM

ASSUME MicmacAssumption ==
    /\ Cycle \in Nat \ {0} /\ Slack \in Nat \ {0} /\ ClockTick \in Nat \ {0}
    /\ ClockMod \in Nat \ {0} /\ IndexMod \in Nat \ {0}
    /\ Guard \in Nat /\ KnownTrain \in Nat
    /\ Lead \in Nat /\ MaxDelay \in Nat /\ MaxNoacks \in Nat \ {0}
    /\ MaxFaults \in Nat
    \* the table: each channel is in the row once
    /\ IsFiniteSet(Channels) /\ Channels # {} /\ NoChannel \notin Channels
    /\ Row \in [0 .. Columns - 1 -> Channels]
    /\ \A i, j \in 0 .. Columns - 1 : Row[i] = Row[j] => i = j
    \* the trains cover the wake-up and the answer (mccontikimac.c:171-238)
    /\ Lead + MaxDelay < Guard
    /\ Guard + MaxDelay < Lead + KnownTrain
    /\ MaxDelay < Columns * Slack
    /\ Guard + ClockTick < Cycle
    \* the clock's wrap is a whole number of rounds of the sequence
    /\ ClockMod % (Cycle * Columns) = 0

VARIABLES
    to_wake,           \* ticks until the receiver's next cycle starts
    rec_channel_index,
    first,             \* the next wake-up is the first since the receiver booted
    known,             \* the sender has a struct mcphase for the receiver
    age,               \* its time: RTIMER_NOW() - e->time
    channelseed,       \* e->channelseed
    noacks,            \* e->noacks
    want,              \* a packet waits to be sent
    pc,                \* send_packet: "idle", "deferred", "waiting", "strobing"
    left,              \* ticks left of the deferral, the wait or the train
    is_known_receiver,
    send_channel,
    answer,            \* ticks until the strobe that will be answered, or -1
    faults,            \* how many faults there were
    stale,             \* history: the receiver rebooted since it was learnt, or
                       \* was learnt at its first wake-up
    disturbed          \* history: this train met a fault, or began before the
                       \* receiver was in its rhythm

receiver == <<to_wake, rec_channel_index, first>>
entry    == <<known, age, channelseed, noacks>>
sender   == <<want, pc, left, is_known_receiver, send_channel>>
history  == <<faults, stale, disturbed>>

vars == <<to_wake, rec_channel_index, first, known, age, channelseed, noacks, want, pc,
          left, is_known_receiver, send_channel, answer, faults, stale, disturbed>>

\* The receiver wakes every cycle.  The first cycle is of double length:
\* powercycle adds one to cycle_start before the wake-up it has started with.
InRhythm == ~first /\ to_wake <= Cycle

-----------------------------------------------------------------------------
(* mcphase_wait *)

PowerOfTwo == \E k \in 0 .. Cycle : 2 ^ k = Cycle

\* Ticks to the next multiple of a cycle after e->time; at such a moment the
\* two ways of the code differ: none, or a whole cycle.
Remaining ==
    IF PowerOfTwo THEN (Cycle - (age % Cycle)) % Cycle ELSE Cycle - (age % Cycle)

\* How long to wait, and how many cycles have gone by when it ends.
Wait ==
    LET more == IF Remaining < Guard THEN 1 ELSE 0
    IN  [ticks  |-> Remaining + more * Cycle,
         cycles |-> age \div Cycle + more]

\* SEND_CHANNEL
ChannelAt(i) == Row[i % Columns]

\* receiver_channel_index: the place after that of c in the row.
PlaceAfter(c) == (CHOOSE i \in 0 .. Columns - 1 : Row[i] = c) + 1

-----------------------------------------------------------------------------
(* The sender *)

\* send_packet returns: its variables mean nothing any more.
Return ==
    /\ pc' = "idle" /\ left' = 0 /\ answer' = -1
    /\ is_known_receiver' = FALSE /\ send_channel' = NoChannel
    /\ disturbed' = FALSE

\* The packet is put off until the receiver is about to wake, if that is more
\* than one tick of the clock away.
Deferral == (Wait.ticks - Guard) \div ClockTick

\* Variant: as with all queue items taken.
NeverPutOff == FALSE

PutOff == Deferral > 1

MaySend == (pc = "idle" /\ want) \/ (pc = "deferred" /\ left = 0)

\* The timer runs on the clock's ticks: it may be up to one of them early.
Defer ==
    /\ MaySend /\ known
    /\ PutOff
    /\ pc' = "deferred"
    /\ \E early \in 0 .. ClockTick - 1 : left' = Deferral * ClockTick - early
    /\ UNCHANGED <<receiver, entry, want, is_known_receiver, send_channel, answer,
                   history>>

\* Busy waiting, then the channel checks.
SendToKnown ==
    /\ MaySend /\ known
    /\ ~PutOff
    /\ pc' = "waiting"
    /\ left' = Wait.ticks - Guard + Lead
    /\ is_known_receiver' = TRUE
    /\ send_channel' = ChannelAt((channelseed + Wait.cycles) % IndexMod)
    /\ disturbed' = FALSE
    /\ UNCHANGED <<receiver, entry, want, answer, faults, stale>>

\* HOP_SEND_CHANNEL: some channel, for all of the train.
SendToUnknown ==
    /\ MaySend /\ ~known
    /\ pc' = "waiting"
    /\ left' = Lead
    /\ is_known_receiver' = FALSE
    /\ \E c \in Channels : send_channel' = c
    /\ disturbed' = FALSE
    /\ UNCHANGED <<receiver, entry, want, answer, faults, stale>>

\* STROBE_TIME for each channel
UnknownTrain == Columns * (Cycle + Slack)

StartTrain ==
    /\ pc = "waiting" /\ left = 0
    /\ pc' = "strobing"
    /\ left' = IF is_known_receiver THEN KnownTrain ELSE UnknownTrain
    /\ disturbed' = (disturbed \/ ~InRhythm)
    /\ UNCHANGED <<receiver, entry, want, is_known_receiver, send_channel, answer,
                   faults, stale>>

\* The channel is busy: MAC_TX_COLLISION.
Collide ==
    /\ pc = "waiting" /\ left = 0 /\ faults < MaxFaults
    /\ Return /\ faults' = faults + 1
    /\ UNCHANGED <<receiver, entry, want, stale>>

\* A strobe is acknowledged: MAC_TX_OK, and mcphase_update.
Acked ==
    /\ pc = "strobing" /\ answer = 0
    /\ Return /\ want' = FALSE
    /\ known' = TRUE /\ age' = 0 /\ noacks' = 0
    /\ channelseed' = PlaceAfter(send_channel)
    /\ stale' = ~InRhythm
    /\ UNCHANGED <<receiver, faults>>

\* The acknowledgement is lost; the receiver has gone back to sleep.
AckLost ==
    /\ pc = "strobing" /\ answer = 0 /\ faults < MaxFaults
    /\ answer' = -1 /\ faults' = faults + 1 /\ disturbed' = TRUE
    /\ UNCHANGED <<receiver, entry, sender, stale>>

\* The train ends without an answer: MAC_TX_NOACK.
TrainEnds == pc = "strobing" /\ left = 0 /\ answer # 0

\* Variant: what is known is kept whatever happens.
MissedKeeps ==
    /\ TrainEnds /\ Return
    /\ UNCHANGED <<receiver, entry, want, faults, stale>>

\* mcphase_update: the entry is dropped after too many of these, or when the
\* timer started by the first has expired.
Missed ==
    /\ TrainEnds /\ Return
    /\ \/ known /\ noacks + 1 < MaxNoacks
          /\ noacks' = noacks + 1 /\ UNCHANGED <<known, age, channelseed, stale>>
       \/ /\ known
          /\ noacks > 0 \/ noacks + 1 >= MaxNoacks
          /\ known' = FALSE /\ age' = 0 /\ channelseed' = 0 /\ noacks' = 0
          /\ stale' = FALSE
       \/ ~known /\ UNCHANGED <<entry, stale>>
    /\ UNCHANGED <<receiver, want, faults>>

\* The network layer has another packet.
Ask ==
    /\ pc = "idle" /\ ~want
    /\ want' = TRUE
    /\ UNCHANGED <<receiver, entry, pc, left, is_known_receiver, send_channel,
                   answer, history>>

-----------------------------------------------------------------------------
(* The receiver *)

Hears == pc = "strobing" /\ answer = -1
         /\ send_channel = ChannelAt(rec_channel_index + 1)

\* schedule_powercycle_fixed(CYCLE_TIME + cycle_start)
SleepAgain ==
    /\ to_wake = 0 /\ first' = FALSE
    /\ to_wake' = IF first THEN 2 * Cycle ELSE Cycle

\* Variant: the channel hops when a packet was heard only.
WakeHopsLate ==
    /\ SleepAgain
    /\ rec_channel_index' = IF Hears THEN (rec_channel_index + 1) % IndexMod
                            ELSE rec_channel_index
    /\ IF Hears THEN \E d \in 0 .. MaxDelay : answer' = d ELSE UNCHANGED answer
    /\ UNCHANGED <<entry, sender, history>>

\* powercycle: HOP_CHANNEL, and the channel checks.
Wake ==
    /\ SleepAgain
    /\ rec_channel_index' = (rec_channel_index + 1) % IndexMod
    /\ IF Hears THEN \E d \in 0 .. MaxDelay : answer' = d ELSE UNCHANGED answer
    /\ UNCHANGED <<entry, sender, history>>

\* It is sending itself, or the strobe is lost.
WakeDeaf ==
    /\ SleepAgain /\ Hears /\ faults < MaxFaults
    /\ rec_channel_index' = (rec_channel_index + 1) % IndexMod
    /\ faults' = faults + 1 /\ disturbed' = TRUE
    /\ UNCHANGED <<entry, sender, answer, stale>>

\* powercycle hops once before its loop.
FirstIndex == 1

Reboot ==
    /\ faults < MaxFaults
    /\ rec_channel_index' = FirstIndex /\ first' = TRUE
    /\ to_wake' \in 1 .. Cycle
    /\ answer' = -1
    /\ faults' = faults + 1
    /\ stale' = known /\ disturbed' = (pc \in {"waiting", "strobing"})
    /\ UNCHANGED <<entry, sender>>

-----------------------------------------------------------------------------
Less(n) == IF n > 0 THEN n - 1 ELSE n

\* Time passes unless a step is due.
Tick ==
    /\ to_wake > 0 /\ answer # 0
    /\ pc \in {"deferred", "waiting", "strobing"} => left > 0
    /\ to_wake' = to_wake - 1
    /\ left' = Less(left)
    /\ answer' = Less(answer)
    /\ age' = IF known THEN (age + 1) % ClockMod ELSE 0
    /\ UNCHANGED <<rec_channel_index, first, known, channelseed, noacks, want, pc,
                   is_known_receiver, send_channel, history>>

Init ==
    /\ to_wake \in 1 .. Cycle
    /\ rec_channel_index = FirstIndex /\ first = TRUE
    /\ known = FALSE /\ age = 0 /\ channelseed = 0 /\ noacks = 0
    /\ want = FALSE /\ pc = "idle" /\ left = 0
    /\ is_known_receiver = FALSE /\ send_channel = NoChannel
    /\ answer = -1
    /\ faults = 0 /\ stale = FALSE /\ disturbed = FALSE

Send == Defer \/ SendToKnown \/ SendToUnknown

Fault == Collide \/ AckLost \/ WakeDeaf \/ Reboot

Next == Send \/ StartTrain \/ Acked \/ Missed \/ Wake \/ Fault \/ Ask \/ Tick

Spec == Init /\ [][Next]_vars

\* Time passes and what is due is done: send_packet runs to its end, the
\* rtimer interrupt comes, and CSMA tries again (see Csma).
FairSpec ==
    /\ Spec
    /\ WF_vars(Tick) /\ WF_vars(Wake)
    /\ WF_vars(Send) /\ WF_vars(StartTrain) /\ WF_vars(Acked \/ Missed)

-----------------------------------------------------------------------------
(* Properties *)

\* What is kept of the receiver tells when and on which channel it wakes next.
Truthful ==
    \E d \in 0 .. MaxDelay :
        LET since == age + to_wake + d
        IN  /\ since % Cycle = 0
            /\ ChannelAt(rec_channel_index + 1)
                  = ChannelAt((channelseed + since \div Cycle - 1) % IndexMod)

\* What the sender keeps of a receiver that it learnt in its rhythm, and that
\* has not rebooted, tells when and on which channel it wakes next, however long
\* ago it was learnt and whichever of the clocks and indices have wrapped since
\* (mcphase.c:204-213, mccontikimac.c:336-350, 383-393 and 661-665).
PhaseTruthful == known /\ ~stale => Truthful

\* The same of every receiver that has not rebooted, as the README says of known
\* receivers.  Fails: learnt at its first wake-up, it is awaited one place too
\* far from then on, because the cycle after that one is of double length
\* (mccontikimac.c:509-513, 547 and 661-665).
KnownIsPredictable == known /\ faults = 0 => Truthful

\* A train misses the receiver only for a cause: it rebooted, something was lost
\* on the air, or it was not in its rhythm yet when the train began or when it
\* was learnt.  Neither a prediction nor a search ever fails by itself
\* (mcphase.c:204-243, mccontikimac.c:547, 874-893 and 980-1008).
MissedForCause ==
    [][TrainEnds /\ pc' = "idle" => disturbed \/ (is_known_receiver /\ stale)]_vars

\* A packet that is wanted arrives in the end, whatever the receiver went
\* through: what is wrong in the table, be it because of a reboot or because the
\* receiver was learnt at its first wake-up, is dropped and learnt again
\* (mcphase.c:110-128, mccontikimac.c:547).
PacketArrives == want ~> ~want
===============================================================================
