----------------------------- MODULE Lifecycle -----------------------------
(***************************************************************************)
(* How a node comes up, loses its radio and comes up again: the three      *)
(* processes of platform/system_proc, the connection flags of usb_lock.c   *)
(* that they share with the USB interrupts, and the IBSS's join flag.      *)
(*                                                                         *)
(*   I  ieee80211_iface_setup_process: waits for the device, ejects its    *)
(*      mass-storage face, allocates and boots it, starts B and N          *)
(*   B  ibss_setup_process: scans, then joins or creates the IBSS          *)
(*   N  net_scheduler_process: the main loop; frees a device that is gone  *)
(*      and starts I again                                                 *)
(*                                                                         *)
(* The processes run one at a time (see Kernel); a USB interrupt may come  *)
(* between any two steps.  The flags are one word: a process changes it by *)
(* reading it and writing it back, and an interrupt between the two is     *)
(* overwritten.                                                            *)
(***************************************************************************)
EXTENDS Naturals, Sequences, FiniteSets

CONSTANTS
    Envs,       \* the environments a behaviour may choose from (see below)
    MaxPlugs,   \* bound: how often a stick is plugged in
    NumEvents   \* PROCESS_CONF_NUMEVENTS

ASSUME LifecycleAssumption == MaxPlugs \in Nat /\ NumEvents \in Nat \ {0}

Procs == {"I", "B", "N"}
Flags == {"MSC", "WLAN", "EJECT", "ALLOC", "ADDED"}

\* What an environment may do beside the ordinary:
\*   "unplug"  the stick is pulled at any time, not only from a node at rest
\*   "quick"   it is plugged in again before the node has taken notice, or
\*             comes back as a radio within one call of a handler
\*   "fail"    the device refuses to be set up
Conditions == {"unplug", "quick", "fail"}

VARIABLES
    env,      \* the conditions of this behaviour, a subset of Conditions
    bus,      \* what is plugged in: "none", "msc", "switching" or "wlan"
    ejecting, \* the EJECT command has reached the stick
    plugs,    \* how often a stick was plugged in
    status,   \* ar9170_connection_status
    tmp,      \* the value of status that a process is about to write back
    device,   \* the driver's struct ar9170: "null", "up", or "stale" once
              \* the device it was allocated for has been pulled
    joined,   \* ieee80211_is_ibss_joined_flag
    running,  \* the process list, first to last
    polls,    \* the processes with needspoll set
    queue,    \* events that wait: records of a process and an event
    bwait,    \* the wait B is in: "first", "delay" or "scan"
    timer,    \* et_ibss_setup_proc: "idle", "set" or "expired"
    walk,     \* the processes do_poll has yet to reach
    phase,    \* what process_run does next: "poll" or "event"
    pc        \* the step the running handler is at, "idle" in between

kernelVars == <<running, polls, queue, walk, phase>>
usbVars    == <<env, bus, ejecting, plugs>>
threadVars == <<bwait, timer>>

vars == <<env, bus, ejecting, plugs, status, tmp, device, joined, running,
          polls, queue, bwait, timer, walk, phase, pc>>

-----------------------------------------------------------------------------
(* The kernel as these processes use it (Kernel models it in full) *)

InList(p) == \E i \in DOMAIN running : running[i] = p

\* process_post: an event that finds the queue full is dropped.
Posted(q, p, ev) ==
    IF Len(q) < NumEvents THEN Append(q, [p |-> p, ev |-> ev]) ELSE q

Post(p, ev) == queue' = Posted(queue, p, ev)

\* A handler that ends without changing anything of the kernel.
Done == pc' = "idle" /\ UNCHANGED <<running, polls, queue, walk, phase>>

\* ... having polled its own process.
PollAgain(p) ==
    /\ pc' = "idle" /\ polls' = polls \cup {p}
    /\ UNCHANGED <<running, queue, walk, phase>>

\* ... having posted an event to its own process.
DonePosting(p, ev) ==
    /\ pc' = "idle" /\ Post(p, ev)
    /\ UNCHANGED <<running, polls, walk, phase>>

At(step) == pc = step
Goto(step) == pc' = step

\* process_run: do_poll walks over the list as it is now.
StartWalk ==
    /\ At("idle") /\ walk = <<>> /\ phase = "poll"
    /\ phase' = "event"
    /\ walk' = IF polls # {} THEN running ELSE <<>>
    /\ UNCHANGED <<usbVars, status, tmp, device, joined, running, polls, queue,
                   threadVars, pc>>

Handler == [I |-> "i_poll", B |-> "b_poll", N |-> "n_poll"]

DoPoll ==
    /\ At("idle") /\ walk # <<>>
    /\ walk' = Tail(walk)
    /\ IF Head(walk) \in polls
       THEN polls' = polls \ {Head(walk)} /\ Goto(Handler[Head(walk)])
       ELSE UNCHANGED <<polls, pc>>
    /\ UNCHANGED <<usbVars, status, tmp, device, joined, running, queue,
                   threadVars, phase>>

\* A process that ends: the event timer process removes its timer.
Ended(p) ==
    /\ running' = SelectSeq(running, LAMBDA r : r # p)
    /\ timer' = IF p = "B" THEN "idle" ELSE timer

\* The wait of B is over for event ev.
WaitOver(ev) ==
    CASE bwait = "first" -> ev = "CONTINUE"
      [] bwait = "delay" -> timer = "expired"
      [] OTHER           -> timer = "expired" \/ ev = "CONTINUE"

\* do_event: one event is taken and delivered, if its process still runs.
DoEvent ==
    /\ At("idle") /\ walk = <<>> /\ phase = "event"
    /\ phase' = "poll"
    /\ IF queue = <<>>
       THEN UNCHANGED <<running, queue, timer, bwait, pc>>
       ELSE LET p  == Head(queue).p
                ev == Head(queue).ev
            IN  /\ queue' = Tail(queue)
                /\ IF ~InList(p)
                   THEN UNCHANGED <<running, timer, bwait, pc>>
                   ELSE IF ev = "EXIT"
                   THEN Ended(p) /\ UNCHANGED <<bwait, pc>>
                   ELSE IF p = "I" /\ ev = "CONTINUE"
                   THEN Goto("i_led") /\ UNCHANGED <<running, timer, bwait>>
                   ELSE IF p = "B" /\ WaitOver(ev)
                   THEN /\ UNCHANGED running
                        /\ IF bwait = "first"
                           THEN timer' = "set" /\ bwait' = "delay" /\ UNCHANGED pc
                           ELSE /\ Goto(IF bwait = "delay" THEN "b_scan" ELSE "b_join")
                                /\ UNCHANGED <<timer, bwait>>
                   ELSE UNCHANGED <<running, timer, bwait, pc>>
    /\ UNCHANGED <<usbVars, status, tmp, device, joined, polls, walk>>

\* etimer_process: the timer of B expires.  With the queue full it stays set.
TimerExpires ==
    /\ At("idle") /\ timer = "set" /\ Len(queue) < NumEvents
    /\ timer' = "expired"
    /\ Post("B", "TIMER")
    /\ UNCHANGED <<usbVars, status, tmp, device, joined, running, polls, bwait,
                   walk, phase, pc>>

-----------------------------------------------------------------------------
(* The flags (usb_lock.c): a setter refuses or changes the word.  Its      *)
(* tests and its read are one step, its write the next.                    *)

\* Continue at step w to write if the setter's tests hold, at step n if not.
Set(allowed, w, n) ==
    IF allowed THEN tmp' = status /\ Goto(w) ELSE Goto(n) /\ UNCHANGED tmp

Write(value, n) == status' = value /\ Goto(n)

EjectAllowed    == "MSC" \in status /\ status \cap {"WLAN", "EJECT"} = {}
AllocAllowed    == "WLAN" \in status /\ status \cap {"MSC", "ALLOC"} = {}
NonAllocAllowed == "ALLOC" \in status /\ "MSC" \notin status
AddAllowed      == {"WLAN", "ALLOC"} \subseteq status
                   /\ status \cap {"MSC", "ADDED"} = {}
NotAddedAllowed == "ADDED" \in status
                   /\ status \cap {"MSC", "WLAN", "ALLOC"} = {}

-----------------------------------------------------------------------------
(* Commands to the device.  A synchronous command ends when the device     *)
(* answers; one to a device that is gone never does, unless it is not      *)
(* waited for and another stick takes it.  A command through a null        *)
(* pointer is a fault.  Both halt the node: "hung" and "fault".            *)

Halted == pc \in {"hung", "fault"}

Command(n) ==
    \/ device = "up" /\ Goto(n)
    \/ device = "stale" /\ Goto("hung")
    \/ device = "stale" /\ bus = "wlan" /\ Goto(n)
    \/ device = "null" /\ Goto("fault")

\* A command and nothing else, between two steps of a handler.
CommandStep(here, n) ==
    /\ At(here) /\ Command(n)
    /\ UNCHANGED <<usbVars, status, tmp, device, joined, kernelVars, threadVars>>

-----------------------------------------------------------------------------
(* I: ieee80211_iface_setup_process *)

IPoll ==
    /\ At("i_poll")
    /\ IF "MSC" \in status
       THEN Goto("i_msc") /\ UNCHANGED kernelVars
       ELSE IF "WLAN" \in status
       THEN Goto("i_wlan") /\ UNCHANGED kernelVars
       ELSE PollAgain("I")
    /\ UNCHANGED <<usbVars, status, tmp, device, joined, threadVars>>

\* The mass-storage face: it is told to eject, once.
IMsc ==
    /\ At("i_msc")
    /\ IF "WLAN" \in status
       THEN DonePosting("I", "EXIT") /\ UNCHANGED tmp
       ELSE IF "EJECT" \in status
       THEN PollAgain("I") /\ UNCHANGED tmp
       ELSE Set(EjectAllowed, "i_eject_w", "i_eject") /\ UNCHANGED kernelVars
    /\ UNCHANGED <<usbVars, status, device, joined, threadVars>>

IEjectWrites ==
    /\ At("i_eject_w") /\ Write(tmp \cup {"EJECT"}, "i_eject")
    /\ UNCHANGED <<usbVars, tmp, device, joined, kernelVars, threadVars>>

\* The command goes out, or the flag is taken back.
IEject ==
    /\ At("i_eject")
    /\ \/ /\ bus = "msc"
          /\ ejecting' = TRUE
          /\ PollAgain("I")
          /\ UNCHANGED tmp
       \/ /\ bus # "msc" \/ "fail" \in env
          /\ Goto("i_uneject_w") /\ tmp' = status
          /\ UNCHANGED <<ejecting, kernelVars>>
    /\ UNCHANGED <<env, bus, plugs, status, device, joined, threadVars>>

IUnejectWrites ==
    /\ At("i_uneject_w")
    /\ status' = tmp \ {"EJECT"}
    /\ PollAgain("I")
    /\ UNCHANGED <<usbVars, tmp, device, joined, threadVars>>

\* The radio's own face: resources are allocated.  An earlier device that was
\* not freed is an error.
IWlan ==
    /\ At("i_wlan")
    /\ IF "MSC" \in status \/ device # "null"
       THEN DonePosting("I", "EXIT") /\ UNCHANGED <<tmp, device, joined>>
       ELSE /\ device' = IF bus = "wlan" THEN "up" ELSE "stale"
            /\ joined' = FALSE
            /\ Set(AllocAllowed, "i_alloc_w", "i_add")
            /\ UNCHANGED kernelVars
    /\ UNCHANGED <<usbVars, status, threadVars>>

IAllocWrites ==
    /\ At("i_alloc_w") /\ Write(tmp \cup {"ALLOC"}, "i_add")
    /\ UNCHANGED <<usbVars, tmp, device, joined, kernelVars, threadVars>>

\* add_network_interface
IAdd == CommandStep("i_add", "i_start")

IAddFails ==
    /\ At("i_add")
    /\ "fail" \in env \/ device = "stale"
    /\ DonePosting("I", "EXIT")
    /\ UNCHANGED <<usbVars, status, tmp, device, joined, threadVars>>

\* start_network_setup_operation
IStart == CommandStep("i_start", "i_procs")

IStartFails ==
    /\ At("i_start") /\ "fail" \in env
    /\ DonePosting("I", "CONTINUE")
    /\ UNCHANGED <<usbVars, status, tmp, device, joined, threadVars>>

\* B and N are started, unless they are still on the list; each polls itself.
Started(p) == IF InList(p) THEN {} ELSE {p}

IStartsProcesses ==
    /\ At("i_procs")
    /\ running' = (IF InList("N") THEN <<>> ELSE <<"N">>)
                  \o (IF InList("B") THEN <<>> ELSE <<"B">>) \o running
    /\ polls' = polls \cup Started("B") \cup Started("N")
    /\ bwait' = IF InList("B") THEN bwait ELSE "first"
    /\ Set(AddAllowed, "i_added_w", "i_end")
    /\ UNCHANGED <<usbVars, status, device, joined, queue, walk, phase, timer>>

IAddedWrites ==
    /\ At("i_added_w") /\ Write(tmp \cup {"ADDED"}, "i_end")
    /\ UNCHANGED <<usbVars, tmp, device, joined, kernelVars, threadVars>>

IEnd ==
    /\ At("i_end")
    /\ DonePosting("I", "CONTINUE")
    /\ UNCHANGED <<usbVars, status, tmp, device, joined, threadVars>>

\* The thread goes on: it lights the LED and ends.
ILed == CommandStep("i_led", "i_exit")

IExit ==
    /\ At("i_exit") /\ Goto("idle")
    /\ Ended("I")
    /\ UNCHANGED <<usbVars, status, tmp, device, joined, polls, queue, walk,
                   phase, bwait>>

-----------------------------------------------------------------------------
(* B: ibss_setup_process *)

BPoll ==
    /\ At("b_poll")
    /\ IF "ADDED" \in status
       THEN DonePosting("B", IF joined THEN "EXIT" ELSE "CONTINUE")
       ELSE PollAgain("B")
    /\ UNCHANGED <<usbVars, status, tmp, device, joined, threadVars>>

\* ieee80211_enable_scanning, after the first delay.
BScan ==
    /\ At("b_scan")
    /\ Command("idle")
    /\ timer' = "set" /\ bwait' = "scan"
    /\ UNCHANGED <<usbVars, status, tmp, device, joined, kernelVars>>

\* After the scan: the IBSS has been joined meanwhile, or is created.
BJoin ==
    /\ At("b_join")
    /\ IF joined
       THEN Goto("b_led") /\ UNCHANGED joined
       ELSE Command("b_led") /\ joined' = (pc' = "b_led")
    /\ UNCHANGED <<usbVars, status, tmp, device, kernelVars, threadVars>>

BLed == CommandStep("b_led", "b_exit")

BExit ==
    /\ At("b_exit") /\ Goto("idle")
    /\ Ended("B")
    /\ UNCHANGED <<usbVars, status, tmp, device, joined, polls, queue, walk,
                   phase, bwait>>

-----------------------------------------------------------------------------
(* N: net_scheduler_process *)

NPoll ==
    /\ At("n_poll")
    /\ Goto(IF "WLAN" \in status THEN "n_radio"
            ELSE IF "ALLOC" \in status THEN "n_free" ELSE "n_mac")
    /\ UNCHANGED <<usbVars, status, tmp, device, joined, kernelVars, threadVars>>

\* ar9170_op_scheduler
NRadio ==
    /\ At("n_radio")
    /\ Goto(IF device = "null" THEN "fault" ELSE "n_mac")
    /\ UNCHANGED <<usbVars, status, tmp, device, joined, kernelVars, threadVars>>

\* ... in which a beacon of the IBSS was received: the node joins.
NRadioJoins ==
    /\ At("n_radio") /\ device = "up" /\ ~joined
    /\ Goto("n_mac")
    /\ joined' = TRUE
    /\ Post("B", "CONTINUE")
    /\ UNCHANGED <<usbVars, status, tmp, device, running, polls, walk, phase,
                   threadVars>>

\* The device is gone: it is freed.
NFree ==
    /\ At("n_free")
    /\ device' = "null"
    /\ Post("N", "EXIT")
    /\ Set(NonAllocAllowed, "n_free_w", "n_remove")
    /\ UNCHANGED <<usbVars, status, joined, running, polls, walk, phase, threadVars>>

NFreeWrites ==
    /\ At("n_free_w") /\ Write(tmp \ {"ALLOC"}, "n_remove")
    /\ UNCHANGED <<usbVars, tmp, device, joined, kernelVars, threadVars>>

NRemove ==
    /\ At("n_remove")
    /\ IF "ADDED" \in status
       THEN Set(NotAddedAllowed, "n_remove_w", "n_leave")
       ELSE Goto("n_mac") /\ UNCHANGED tmp
    /\ UNCHANGED <<usbVars, status, device, joined, kernelVars, threadVars>>

NRemoveWrites ==
    /\ At("n_remove_w") /\ Write(tmp \ {"ADDED"}, "n_leave")
    /\ UNCHANGED <<usbVars, tmp, device, joined, kernelVars, threadVars>>

\* Variant: the IBSS is not told.
NLeaveJoined ==
    /\ At("n_leave") /\ Goto("n_mac")
    /\ UNCHANGED <<usbVars, status, tmp, device, joined, kernelVars, threadVars>>

NLeave ==
    /\ At("n_leave") /\ Goto("n_mac")
    /\ joined' = FALSE
    /\ UNCHANGED <<usbVars, status, tmp, device, kernelVars, threadVars>>

\* ieee80211_op_scheduler, if the IBSS is joined.
NMac ==
    /\ At("n_mac")
    /\ Goto(IF joined /\ device = "null" THEN "fault" ELSE "n_end")
    /\ UNCHANGED <<usbVars, status, tmp, device, joined, kernelVars, threadVars>>

\* Variant: I is not started again.
NEndStops ==
    /\ At("n_end")
    /\ IF "ADDED" \in status \/ joined THEN PollAgain("N") ELSE Done
    /\ UNCHANGED <<usbVars, status, tmp, device, joined, threadVars>>

\* Variant: N polls itself in any case.
NEndPolls ==
    /\ At("n_end") /\ Goto("idle")
    /\ IF "ADDED" \in status \/ joined \/ InList("I")
       THEN polls' = polls \cup {"N"} /\ UNCHANGED <<running, status>>
       ELSE /\ running' = <<"I">> \o running
            /\ polls' = polls \cup {"I", "N"}
            /\ status' = {}
    /\ UNCHANGED <<usbVars, tmp, device, joined, queue, walk, phase, threadVars>>

\* N polls itself, or starts I, which clears all flags and polls itself.
NEnd ==
    /\ At("n_end")
    /\ IF "ADDED" \in status \/ joined
       THEN PollAgain("N") /\ UNCHANGED status
       ELSE IF InList("I")
       THEN Done /\ UNCHANGED status
       ELSE /\ Goto("idle")
            /\ running' = <<"I">> \o running
            /\ polls' = polls \cup {"I"}
            /\ status' = {}
            /\ UNCHANGED <<queue, walk, phase>>
    /\ UNCHANGED <<usbVars, tmp, device, joined, threadVars>>

-----------------------------------------------------------------------------
(* The stick, and the interrupts it raises (usb_vendor_change) *)

\* A node at rest: the network is up, set-up is over, N between two polls.
AtRest == At("idle") /\ joined /\ device = "up" /\ running = <<"N">> /\ queue = <<>>

\* A node that has taken notice that there is no device.
Noticed == Halted \/ (At("idle") /\ ~InList("N") /\ status \cap {"WLAN", "MSC"} = {})

\* ar9170_set_mass_storage_device_plugged
PlugMsc ==
    /\ bus = "none" /\ plugs < MaxPlugs
    /\ "quick" \in env \/ Noticed
    /\ bus' = "msc" /\ plugs' = plugs + 1
    /\ status' = IF status \cap {"MSC", "WLAN", "EJECT"} = {}
                 THEN status \cup {"MSC"} ELSE status
    /\ UNCHANGED <<env, ejecting, tmp, device, joined, kernelVars, threadVars, pc>>

\* ar9170_set_mass_storage_device_unplugged
MscUnplugged ==
    IF "MSC" \in status /\ "WLAN" \notin status THEN status \ {"MSC"} ELSE status

\* The ejected stick leaves, to come back as a radio.
Switch ==
    /\ bus = "msc" /\ ejecting
    /\ bus' = "switching" /\ ejecting' = FALSE
    /\ status' = MscUnplugged
    /\ UNCHANGED <<env, plugs, tmp, device, joined, kernelVars, threadVars, pc>>

\* ar9170_set_wlan_device_plugged
PlugWlan ==
    /\ bus = "switching"
    /\ "quick" \in env \/ At("idle")
    /\ bus' = "wlan"
    /\ status' = IF status \cap {"MSC", "WLAN"} = {}
                 THEN (status \cup {"WLAN"}) \ {"EJECT"} ELSE status
    /\ UNCHANGED <<env, ejecting, plugs, tmp, device, joined, kernelVars,
                   threadVars, pc>>

\* ar9170_set_wlan_device_unplugged
WlanUnplugged ==
    IF "WLAN" \in status /\ status \cap {"MSC", "EJECT"} = {}
    THEN status \ {"WLAN"} ELSE status

Unplug ==
    /\ bus \in {"msc", "wlan"}
    /\ "unplug" \in env \/ AtRest
    /\ bus' = "none" /\ ejecting' = FALSE
    /\ status' = IF bus = "msc" THEN MscUnplugged ELSE WlanUnplugged
    /\ device' = IF device = "up" THEN "stale" ELSE device
    /\ UNCHANGED <<env, plugs, tmp, joined, kernelVars, threadVars, pc>>

-----------------------------------------------------------------------------
\* I has been started by the MAC driver's init.
Init ==
    /\ env \in Envs
    /\ bus = "none" /\ ejecting = FALSE /\ plugs = 0
    /\ status = {} /\ tmp = {}
    /\ device = "null" /\ joined = FALSE
    /\ running = <<"I">> /\ polls = {"I"} /\ queue = <<>>
    /\ bwait = "first" /\ timer = "idle"
    /\ walk = <<>> /\ phase = "poll" /\ pc = "idle"

KernelStep == StartWalk \/ DoPoll \/ DoEvent

IStep ==
    \/ IPoll \/ IMsc \/ IEjectWrites \/ IEject \/ IUnejectWrites \/ IWlan
    \/ IAllocWrites \/ IAdd \/ IAddFails \/ IStart \/ IStartFails
    \/ IStartsProcesses \/ IAddedWrites \/ IEnd \/ ILed \/ IExit

BStep == BPoll \/ BScan \/ BJoin \/ BLed \/ BExit

NStep ==
    \/ NPoll \/ NRadio \/ NRadioJoins \/ NFree \/ NFreeWrites \/ NRemove
    \/ NRemoveWrites \/ NLeave \/ NMac \/ NEnd

MainLoop == KernelStep \/ IStep \/ BStep \/ NStep

Stick == PlugMsc \/ Switch \/ PlugWlan \/ Unplug

Next == MainLoop \/ TimerExpires \/ Stick

Spec == Init /\ [][Next]_vars

\* The main loop runs and comes to etimer_process again and again (SysTick
\* polls it each tick), so a timer expires; a stick that was told to eject
\* comes back as a radio.
FairSpec ==
    /\ Spec
    /\ WF_vars(MainLoop)
    /\ SF_vars(TimerExpires)
    /\ WF_vars(Switch)
    /\ SF_vars(PlugWlan)

-----------------------------------------------------------------------------
(* Properties *)

Steps == {"i_poll", "i_msc", "i_eject_w", "i_eject", "i_uneject_w", "i_wlan",
          "i_alloc_w", "i_add", "i_start", "i_procs", "i_added_w", "i_end",
          "i_led", "i_exit", "b_poll", "b_scan", "b_join", "b_led", "b_exit",
          "n_poll", "n_radio", "n_free", "n_free_w", "n_remove", "n_remove_w",
          "n_leave", "n_mac", "n_end", "idle", "hung", "fault"}

TypeOK ==
    /\ env \subseteq Conditions
    /\ bus \in {"none", "msc", "switching", "wlan"}
    /\ ejecting \in BOOLEAN /\ plugs \in 0 .. MaxPlugs
    /\ status \subseteq Flags /\ tmp \subseteq Flags
    /\ device \in {"null", "up", "stale"} /\ joined \in BOOLEAN
    /\ \A i, j \in DOMAIN running : running[i] = running[j] => i = j
    /\ polls \subseteq Procs /\ Len(queue) <= NumEvents
    /\ bwait \in {"first", "delay", "scan"}
    /\ timer \in {"idle", "set", "expired"}
    /\ pc \in Steps

\* The steps in which N takes the network down.
Leaving == pc \in {"n_free_w", "n_remove", "n_remove_w", "n_leave"}

\* A joined network has a device to run on: the join flag does not outlive
\* the device that N frees (net_scheduler_process.c:79-108,
\* ieee80211_iface_setup_process.c:275-285).
JoinedHasDevice == joined => device # "null" \/ Leaving

\* Set-up works on the device, or the scheduler does, never both: from the
\* moment one hands over it does not run until it is handed back, whatever the
\* stick does meanwhile (ieee80211_iface_setup_process.c:336-337 and 362,
\* net_scheduler_process.c:161-169).
SettingUp == "I" \in polls \/ pc \in
    {"i_poll", "i_msc", "i_eject_w", "i_eject", "i_uneject_w", "i_wlan",
     "i_alloc_w", "i_add", "i_start", "i_procs"}
Scheduling == "N" \in polls \/ pc \in
    {"n_poll", "n_radio", "n_free", "n_free_w", "n_remove", "n_remove_w",
     "n_leave", "n_mac", "n_end"}

OneActive == ~(SettingUp /\ Scheduling)

\* A node whose stick is only pulled at rest, and comes back in its own time, has
\* a network again each time a stick is plugged in
\* (net_scheduler_process.c:166-169).
NetworkReturns == (env = {} /\ bus = "msc") ~> joined

\* What the comment at net_scheduler_process.c:72-77 says: the processes that
\* work with the device are told when it is gone, so none of them uses the
\* pointer that was set to NULL.
NoNullDevice == pc # "fault"
=============================================================================
