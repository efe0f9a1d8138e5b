------------------------------ MODULE BeaconCycle ------------------------------
(***************************************************************************)
(* What the power-save manager promises, station by station: how a beacon  *)
(* interval goes from window to window, when a station may doze, what it   *)
(* may believe of its neighbours, and when it takes which frame to send.   *)
(* Queues, flags, interrupts and the USB transfers below are left to       *)
(* Ar9170Psm, which implements one station of this module (Ar9170Cycle).   *)
(***************************************************************************)

CONSTANTS
    Stations,    \* the stations that run the cycle
    Addr,        \* what a frame may be addressed to
    Bcast,       \* the broadcast address
    NoAddr,      \* the receiver of a frame not chosen yet
    Ps,          \* power-save mode is configured
    Timely       \* the main loop completes the work of each window in time

ASSUME CycleAssumption ==
    /\ NoAddr \notin Addr /\ Bcast \in Addr
    /\ Ps \in BOOLEAN /\ Timely \in BOOLEAN

VARIABLES
    window,     \* the present part of the beacon interval
    reasons,    \* not to doze in this interval
    toSleep,    \* the station has decided to doze
    asleep,
    stale,      \* it still believes what it knew in the last interval
    awake,      \* whom it believes to be awake
    work,       \* the frame the main loop is busy with
    onAir       \* the frame handed down

power == <<reasons, toSleep, asleep>>
belief == <<stale, awake>>
frames == <<work, onAir>>
cycle == <<window, power, belief, frames>>

Windows == {"PRE_TBTT", "ATIM", "TX", "SOFT_BCN"}
Kinds == {"ATIM", "DATA", "BCN"}

\* Its own beacon, an announcement sent or received, packets to send
Reasons == {"BCN", "ATIM", "DATA"}

\* A frame being prepared (its receiver may be open) or handed down
Frames == [kind : Kinds \cup {"NONE"}, da : Addr \cup {NoAddr}]
Nothing == [kind |-> "NONE", da |-> NoAddr]

\* The window a kind of frame is sent in
WindowOf == [kind \in Kinds |-> CASE kind = "ATIM" -> "ATIM"
                                  [] kind = "DATA" -> "TX"
                                  [] OTHER -> "SOFT_BCN"]

CycleTypeOK ==
    /\ window \in [Stations -> Windows]
    /\ reasons \in [Stations -> SUBSET Reasons]
    /\ {toSleep, asleep, stale} \subseteq [Stations -> BOOLEAN]
    /\ awake \in [Stations -> SUBSET Addr]
    /\ {work, onAir} \subseteq [Stations -> Frames]

Init ==
    /\ window = [n \in Stations |-> "TX"]
    /\ reasons = [n \in Stations |-> {}]
    /\ toSleep = [n \in Stations |-> FALSE]
    /\ asleep = [n \in Stations |-> FALSE]
    /\ stale = [n \in Stations |-> FALSE]
    /\ awake = [n \in Stations |-> {}]
    /\ work = [n \in Stations |-> Nothing]
    /\ onAir = [n \in Stations |-> Nothing]

-----------------------------------------------------------------------------
\* The beacon timer wakes the station and voids its reasons to stay awake.
Tbtt(n) ==
    /\ Timely => ~toSleep[n] /\ ~stale[n] /\ work[n].kind # "ATIM"
    /\ asleep' = [asleep EXCEPT ![n] = FALSE]
    /\ IF Ps THEN /\ window' = [window EXCEPT ![n] = "PRE_TBTT"]
                  /\ reasons' = [reasons EXCEPT ![n] = {}]
                  /\ stale' = [stale EXCEPT ![n] = TRUE]
       ELSE UNCHANGED <<window, reasons, stale>>
    /\ UNCHANGED <<toSleep, awake, frames>>

\* Between two frames, what was known of the neighbours is forgotten; a TBTT
\* that interrupts this asks for it again.
Forget(n, again) ==
    /\ stale[n] /\ work[n] = Nothing /\ (Timely => ~again)
    /\ awake' = [awake EXCEPT ![n] = {}]
    /\ stale' = [stale EXCEPT ![n] = again]
    /\ UNCHANGED <<window, power, frames>>

\* A station that is late goes on with what it knew.
SkipForget(n) ==
    /\ ~Timely /\ stale' = [stale EXCEPT ![n] = FALSE]
    /\ UNCHANGED <<window, power, awake, frames>>

\* The window for announcements; pending packets are a reason to stay awake.
OpenAtim(n, pending) ==
    /\ window[n] = "PRE_TBTT" /\ (Timely => ~stale[n])
    /\ window' = [window EXCEPT ![n] = "ATIM"]
    /\ reasons' = [reasons EXCEPT
                     ![n] = IF pending THEN @ \cup {"DATA"} ELSE @]
    /\ UNCHANGED <<toSleep, asleep, belief, frames>>

\* Its end: only a station without a reason to stay awake decides to doze, only
\* one with no reason but its beacon goes on to send beacons.
CloseAtim(n, next, doze) ==
    /\ window[n] = "ATIM" /\ next \in {"TX", "SOFT_BCN"}
    /\ next = "SOFT_BCN" => reasons[n] = {"BCN"}
    /\ doze => reasons[n] = {} \/ toSleep[n]
    /\ window' = [window EXCEPT ![n] = next]
    /\ toSleep' = [toSleep EXCEPT ![n] = doze]
    /\ UNCHANGED <<reasons, asleep, belief, frames>>

\* An ATIM sent or received, or the station's own beacon.  A reason noted at the
\* same time may be overwritten, one of an earlier interval kept if the station
\* is late, but there is one.
StayAwake(n, reason, others) ==
    /\ Timely => others \subseteq reasons[n]
    /\ reasons' = [reasons EXCEPT ![n] = others \cup {reason}]
    /\ UNCHANGED <<window, toSleep, asleep, belief, frames>>

\* One decision, one doze, and never in the middle of a frame
Doze(n) ==
    /\ toSleep[n] /\ work[n] = Nothing /\ (Timely => window[n] = "TX")
    /\ asleep' = [asleep EXCEPT ![n] = TRUE]
    /\ toSleep' = [toSleep EXCEPT ![n] = FALSE]
    /\ UNCHANGED <<window, reasons, belief, frames>>

DropDoze(n) ==
    /\ toSleep' = [toSleep EXCEPT ![n] = FALSE]
    /\ UNCHANGED <<window, reasons, asleep, belief, frames>>

\* A sign of life.  Neighbours may be dropped from the list, never invented.
Hear(n, a, kept) ==
    /\ kept \subseteq awake[n] /\ awake' = [awake EXCEPT ![n] = kept \cup {a}]
    /\ UNCHANGED <<window, power, stale, frames>>

\* The main loop turns to a kind of frame in its window, ...
Turn(n, kind) ==
    /\ work[n] = Nothing /\ ~asleep[n] /\ ~toSleep[n]
    /\ Ps /\ window[n] = WindowOf[kind]
    /\ work' = [work EXCEPT ![n] = [kind |-> kind, da |-> NoAddr]]
    /\ UNCHANGED <<window, power, belief, onAir>>

\* ... and picks one: data for a station believed awake, an ATIM for one that
\* is not.
Pick(n, d) ==
    /\ work[n].kind \in Kinds /\ work[n].da = NoAddr
    /\ work[n].kind = "DATA" => window[n] = "TX" /\ d \in awake[n]
    /\ work[n].kind = "ATIM" => window[n] = "PRE_TBTT" \/ d \notin awake[n]
    /\ work[n].kind = "BCN" => d = Bcast
    /\ work' = [work EXCEPT ![n] = [kind |-> work[n].kind, da |-> d]]
    /\ UNCHANGED <<window, power, belief, onAir>>

\* Without power-save mode anything is sent to anyone.
PickAny(n, d) ==
    /\ ~Ps /\ work[n] = Nothing /\ window[n] = "TX"
    /\ work' = [work EXCEPT ![n] = [kind |-> "DATA", da |-> d]]
    /\ UNCHANGED <<window, power, belief, onAir>>

DropWork(n) ==
    /\ work' = [work EXCEPT ![n] = Nothing]
    /\ UNCHANGED <<window, power, belief, onAir>>

\* One frame at a time is handed down; a TBTT may come in between.
HandDown(n) ==
    /\ work[n].kind \in Kinds /\ work[n].da # NoAddr /\ onAir[n] = Nothing
    /\ onAir' = [onAir EXCEPT ![n] = work[n]]
    /\ work' = [work EXCEPT ![n] = Nothing]
    /\ UNCHANGED <<window, power, belief>>

Done(n) ==
    /\ onAir' = [onAir EXCEPT ![n] = Nothing]
    /\ UNCHANGED <<window, power, belief, work>>

StationStep(n) ==
    \/ Tbtt(n) \/ SkipForget(n) \/ Doze(n) \/ DropDoze(n)
    \/ DropWork(n) \/ HandDown(n) \/ Done(n)
    \/ \E reason \in Reasons, others \in SUBSET Reasons :
         StayAwake(n, reason, others)
    \/ \E b \in BOOLEAN : Forget(n, b) \/ OpenAtim(n, b)
    \/ \E next \in Windows, doze \in BOOLEAN : CloseAtim(n, next, doze)
    \/ \E a \in Addr : \E kept \in SUBSET awake[n] : Hear(n, a, kept)
    \/ \E kind \in Kinds : Turn(n, kind)
    \/ \E d \in Addr : Pick(n, d) \/ PickAny(n, d)

Next == \E n \in Stations : StationStep(n)

Spec == Init /\ [][Next]_cycle
=============================================================================
