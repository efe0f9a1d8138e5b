-------------------------- MODULE Lifecycle_proofs --------------------------
(***************************************************************************)
(* Set-up and the scheduler hand the device over and back (OneActive), and *)
(* the join flag does not outlive the device (JoinedHasDevice): both hold  *)
(* in every environment, however often the stick is plugged in and however *)
(* long the event queue is.                                                *)
(***************************************************************************)
EXTENDS Lifecycle, TLAPS

ISteps == {"i_poll", "i_msc", "i_eject_w", "i_eject", "i_uneject_w", "i_wlan",
           "i_alloc_w", "i_add", "i_start", "i_procs"}
NSteps == {"n_poll", "n_radio", "n_free", "n_free_w", "n_remove", "n_remove_w",
           "n_leave", "n_mac", "n_end"}

\* OneActive is inductive once it is known that a handler runs only after
\* do_poll has taken its poll back.
OneActiveInv ==
    /\ polls \subseteq Procs
    /\ ~(SettingUp /\ Scheduling)
    /\ pc \in ISteps => "I" \notin polls
    /\ pc \in NSteps => "N" \notin polls

-----------------------------------------------------------------------------
\* The main loop takes a poll back and calls the handler.
LEMMA KernelKeeps == OneActiveInv /\ KernelStep => OneActiveInv'
<1> SUFFICES ASSUME OneActiveInv, KernelStep PROVE OneActiveInv'
    OBVIOUS
<1> USE DEF OneActiveInv, SettingUp, Scheduling, ISteps, NSteps, Goto, At, Procs
<1>1. CASE StartWalk
    BY <1>1 DEF StartWalk
<1>2. CASE DoPoll
    <2>1. CASE Head(walk) \in polls
        <3>1. polls' = polls \ {Head(walk)} /\ pc' = Handler[Head(walk)] /\ pc = "idle"
            BY <1>2, <2>1 DEF DoPoll
        <3>2. Handler["I"] = "i_poll" /\ Handler["B"] = "b_poll" /\ Handler["N"] = "n_poll"
            BY DEF Handler
        <3>3. Head(walk) \in {"I", "B", "N"}
            BY <2>1
        <3> QED BY <3>1, <3>2, <3>3, <2>1
    <2>2. CASE Head(walk) \notin polls
        BY <1>2, <2>2 DEF DoPoll
    <2> QED BY <2>1, <2>2
<1>3. CASE DoEvent
    <2>1. polls' = polls
        BY <1>3 DEF DoEvent
    <2>2. pc = "idle" /\ pc' \in {"idle", "i_led", "b_scan", "b_join"}
        BY <1>3 DEF DoEvent
    <2> QED BY <2>1, <2>2
<1> QED BY <1>1, <1>2, <1>3 DEF KernelStep

\* Set-up polls itself again, or hands over to the scheduler.
LEMMA IKeeps == OneActiveInv /\ IStep => OneActiveInv'
<1> SUFFICES ASSUME OneActiveInv, IStep PROVE OneActiveInv'
    OBVIOUS
<1> USE DEF OneActiveInv, SettingUp, Scheduling, ISteps, NSteps, Goto, At, Procs,
            PollAgain, DonePosting, Set, Write, kernelVars
<1>1. CASE IPoll
    BY <1>1 DEF IPoll
<1>2. CASE IMsc
    BY <1>2 DEF IMsc
<1>3. CASE IEjectWrites
    BY <1>3 DEF IEjectWrites
<1>4. CASE IEject
    BY <1>4 DEF IEject
<1>5. CASE IUnejectWrites
    BY <1>5 DEF IUnejectWrites
<1>6. CASE IWlan
    BY <1>6 DEF IWlan
<1>7. CASE IAllocWrites
    BY <1>7 DEF IAllocWrites
<1>8. CASE IAdd
    BY <1>8 DEF IAdd, CommandStep, Command
<1>9. CASE IAddFails
    BY <1>9 DEF IAddFails
<1>10. CASE IStart
    BY <1>10 DEF IStart, CommandStep, Command
<1>11. CASE IStartFails
    BY <1>11 DEF IStartFails
<1>12. CASE IStartsProcesses
    <2>1. pc = "i_procs" /\ pc' \in {"i_added_w", "i_end"}
        BY <1>12 DEF IStartsProcesses
    <2>2. polls' \subseteq polls \cup {"B", "N"}
        BY <1>12 DEF IStartsProcesses, Started
    <2> QED BY <2>1, <2>2
<1>13. CASE IAddedWrites
    BY <1>13 DEF IAddedWrites
<1>14. CASE IEnd
    BY <1>14 DEF IEnd
<1>15. CASE ILed
    BY <1>15 DEF ILed, CommandStep, Command
<1>16. CASE IExit
    BY <1>16 DEF IExit
<1> QED BY <1>1, <1>2, <1>3, <1>4, <1>5, <1>6, <1>7, <1>8, <1>9, <1>10, <1>11,
           <1>12, <1>13, <1>14, <1>15, <1>16 DEF IStep

\* The process that creates the IBSS polls neither of them.
LEMMA BKeeps == OneActiveInv /\ BStep => OneActiveInv'
<1> SUFFICES ASSUME OneActiveInv, BStep PROVE OneActiveInv'
    OBVIOUS
<1> USE DEF OneActiveInv, SettingUp, Scheduling, ISteps, NSteps, Goto, At, Procs,
            PollAgain, DonePosting, kernelVars
<1>1. CASE BPoll
    <2>1. pc = "b_poll"
        BY <1>1 DEF BPoll
    <2>2. /\ polls' = polls \/ polls' = polls \union {"B"}
          /\ pc' = "idle"
        BY <1>1 DEF BPoll
    <2> QED
        BY <2>1, <2>2
<1>2. CASE BScan
    BY <1>2 DEF BScan, Command
<1>3. CASE BJoin
    BY <1>3 DEF BJoin, Command
<1>4. CASE BLed
    BY <1>4 DEF BLed, CommandStep, Command
<1>5. CASE BExit
    BY <1>5 DEF BExit
<1> QED BY <1>1, <1>2, <1>3, <1>4, <1>5 DEF BStep

\* The scheduler polls itself again, or hands back to set-up.
LEMMA NKeeps == OneActiveInv /\ NStep => OneActiveInv'
<1> SUFFICES ASSUME OneActiveInv, NStep PROVE OneActiveInv'
    OBVIOUS
<1> USE DEF OneActiveInv, SettingUp, Scheduling, ISteps, NSteps, Goto, At, Procs,
            PollAgain, Done, Set, Write, kernelVars
<1>1. CASE NPoll
    BY <1>1 DEF NPoll
<1>2. CASE NRadio
    BY <1>2 DEF NRadio
<1>3. CASE NRadioJoins
    BY <1>3 DEF NRadioJoins
<1>4. CASE NFree
    BY <1>4 DEF NFree
<1>5. CASE NFreeWrites
    BY <1>5 DEF NFreeWrites
<1>6. CASE NRemove
    BY <1>6 DEF NRemove
<1>7. CASE NRemoveWrites
    BY <1>7 DEF NRemoveWrites
<1>8. CASE NLeave
    BY <1>8 DEF NLeave
<1>9. CASE NMac
    BY <1>9 DEF NMac
<1>10. CASE NEnd
    <2>1. pc = "n_end" /\ pc' = "idle"
        BY <1>10 DEF NEnd
    <2>2. polls' \in {polls, polls \cup {"N"}, polls \cup {"I"}}
        BY <1>10 DEF NEnd
    <2>3. "I" \notin polls /\ "N" \notin polls
        BY <2>1
    <2> QED BY <2>1, <2>2, <2>3
<1> QED BY <1>1, <1>2, <1>3, <1>4, <1>5, <1>6, <1>7, <1>8, <1>9, <1>10 DEF NStep

\* An interrupt neither polls nor moves a process.
LEMMA StickKeeps == OneActiveInv /\ (TimerExpires \/ Stick \/ UNCHANGED vars) => OneActiveInv'
<1> SUFFICES ASSUME OneActiveInv, TimerExpires \/ Stick \/ UNCHANGED vars
             PROVE  OneActiveInv'
    OBVIOUS
<1>1. UNCHANGED <<polls, pc>>
    BY DEF TimerExpires, Stick, PlugMsc, Switch, PlugWlan, Unplug, kernelVars, vars
<1> QED BY <1>1 DEF OneActiveInv, SettingUp, Scheduling

-----------------------------------------------------------------------------
\* Set-up and the scheduler are never both at work on the device
\* (ieee80211_iface_setup_process.c:336-337, net_scheduler_process.c:161-169).
THEOREM OneActiveHolds == Spec => []OneActive
<1>1. Init => OneActiveInv
    BY DEF Init, OneActiveInv, SettingUp, Scheduling, ISteps, NSteps, Procs
<1>2. OneActiveInv /\ [Next]_vars => OneActiveInv'
    <2> SUFFICES ASSUME OneActiveInv, [Next]_vars PROVE OneActiveInv'
        OBVIOUS
    <2>1. CASE MainLoop
        BY <2>1, KernelKeeps, IKeeps, BKeeps, NKeeps DEF MainLoop
    <2>2. CASE TimerExpires \/ Stick \/ UNCHANGED vars
        BY <2>2, StickKeeps
    <2> QED BY <2>1, <2>2 DEF Next
<1>3. OneActiveInv => OneActive
    BY DEF OneActiveInv, OneActive
<1> QED BY <1>1, <1>2, <1>3, PTL DEF Spec

-----------------------------------------------------------------------------
(* JoinedHasDevice *)

\* Set-up up to the allocation of a device, and from there to the hand-over.
Early == "I" \in polls \/ pc \in
    {"i_poll", "i_msc", "i_eject_w", "i_eject", "i_uneject_w", "i_wlan"}
Setup == pc \in {"i_alloc_w", "i_add", "i_start", "i_procs", "i_added_w"}

\* A stick was told to eject and has not come back yet.
Returning == ejecting \/ bus = "switching"

\* What the stick is fits what the driver believes of it.
StickFits ==
    /\ ejecting => bus = "msc"
    /\ device = "up" => bus = "wlan"

\* Set-up starts from flags that know of no device.
CleanStart ==
    /\ Setup => "I" \notin polls
    /\ Early => "ALLOC" \notin status /\ "ADDED" \notin status
    /\ pc \in {"i_eject_w", "i_uneject_w"} => "ALLOC" \notin tmp /\ "ADDED" \notin tmp

\* As long as a stick may still come back as a radio, set-up does not take
\* it for one: its interrupt is not yet in the flags, nor about to be
\* written back over them.
NoRadioYet ==
    /\ Early /\ Returning => "WLAN" \notin status
    /\ pc = "i_uneject_w" /\ Returning => "WLAN" \notin tmp
    /\ pc = "i_eject_w" => "WLAN" \notin tmp
    /\ pc = "i_eject" /\ "WLAN" \in status =>
           bus = "wlan" /\ "MSC" \notin status /\ "EJECT" \notin status
    /\ pc = "i_wlan" =>
           ~Returning /\ (bus = "wlan" => "WLAN" \in status /\ "MSC" \notin status)

\* So from the allocation on, the only radio is the one that was allocated:
\* a second one would need another EJECT.
OneRadio ==
    /\ Setup \/ Scheduling => ~Returning /\ (bus = "wlan" => device = "up")
    /\ pc = "n_free" => bus # "wlan"

\* ... and while it lives its flags are set, the last of them by set-up's
\* last step.
RadioFlags ==
    /\ pc = "i_alloc_w" /\ device = "up" =>
           /\ "WLAN" \in tmp /\ "MSC" \notin tmp /\ "ADDED" \notin tmp
           /\ "WLAN" \in status /\ "MSC" \notin status /\ "ADDED" \notin status
    /\ pc \in {"i_add", "i_start", "i_procs"} /\ device = "up" =>
           /\ "WLAN" \in status /\ "ALLOC" \in status
           /\ "MSC" \notin status /\ "ADDED" \notin status
    /\ pc = "i_added_w" /\ device = "up" => "WLAN" \in tmp /\ "MSC" \notin tmp
    /\ Scheduling /\ device = "up" => "WLAN" \in status /\ "MSC" \notin status
    /\ Scheduling /\ device = "up" /\ pc # "i_added_w" => "ADDED" \in status

\* The scheduler finds ADDED for every network that was joined, so it takes
\* the path on which the IBSS is told.
JoinTold ==
    /\ Setup => ~joined
    /\ Leaving => device = "null"
    /\ joined /\ Scheduling /\ pc # "n_leave" => "ADDED" \in status
    /\ joined /\ pc = "n_free_w" => "ADDED" \in tmp

JoinInv ==
    /\ OneActiveInv
    /\ joined \in BOOLEAN /\ ejecting \in BOOLEAN
    /\ StickFits /\ CleanStart /\ NoRadioYet /\ OneRadio /\ RadioFlags
    /\ JoinTold /\ JoinedHasDevice

\* The main loop changes neither flags nor device.
LEMMA KernelKeepsJoin == JoinInv /\ KernelStep => JoinInv'
<1> SUFFICES ASSUME JoinInv, KernelStep PROVE JoinInv'
    OBVIOUS
<1>0. OneActiveInv'
    BY KernelKeeps DEF JoinInv
<1> USE DEF OneActiveInv, SettingUp, Scheduling, ISteps, NSteps, Early, Setup, Returning,
            StickFits, CleanStart, NoRadioYet, OneRadio, RadioFlags, JoinTold,
            JoinedHasDevice, Leaving, JoinInv, Goto, At, kernelVars, threadVars, usbVars
<1>1. CASE StartWalk
    BY <1>0, <1>1 DEF StartWalk
<1>2. CASE DoPoll
    <2>1. CASE Head(walk) \in polls
        <3>1. polls' = polls \ {Head(walk)} /\ pc' = Handler[Head(walk)] /\ pc = "idle"
            BY <1>2, <2>1 DEF DoPoll
        <3>2. Handler["I"] = "i_poll" /\ Handler["B"] = "b_poll" /\ Handler["N"] = "n_poll"
            BY DEF Handler
        <3>3. Head(walk) \in {"I", "B", "N"}
            BY <2>1 DEF Procs
        <3>4. UNCHANGED <<bus, ejecting, status, tmp, device, joined>>
            BY <1>2 DEF DoPoll
        <3> QED BY <1>0, <3>1, <3>2, <3>3, <3>4, <2>1
    <2>2. CASE Head(walk) \notin polls
        BY <1>0, <1>2, <2>2 DEF DoPoll
    <2> QED BY <2>1, <2>2
<1>3. CASE DoEvent
    BY <1>0, <1>3 DEF DoEvent
<1> QED BY <1>1, <1>2, <1>3 DEF KernelStep

\* Set-up takes the radio over and raises its flags.
LEMMA IKeepsJoin == JoinInv /\ IStep => JoinInv'
<1> SUFFICES ASSUME JoinInv, IStep PROVE JoinInv'
    OBVIOUS
<1>0. OneActiveInv'
    BY IKeeps DEF JoinInv
<1> USE DEF OneActiveInv, SettingUp, Scheduling, ISteps, NSteps, Early, Setup, Returning,
            StickFits, CleanStart, NoRadioYet, OneRadio, RadioFlags, JoinTold,
            JoinedHasDevice, Leaving, JoinInv, Goto, At, kernelVars, threadVars, usbVars
<1>1. CASE IPoll
    BY <1>0, <1>1 DEF IPoll, PollAgain
<1>2. CASE IMsc
    BY <1>0, <1>2 DEF IMsc, DonePosting, PollAgain, Set, EjectAllowed
<1>3. CASE IEjectWrites
    BY <1>0, <1>3 DEF IEjectWrites, Write
<1>4. CASE IEject
    <2>1. UNCHANGED <<bus, status, device, joined>> /\ pc = "i_eject" /\ Early
        BY <1>4 DEF IEject
    <2>2. CASE /\ bus = "msc" /\ ejecting' = TRUE
               /\ pc' = "idle" /\ polls' = polls \cup {"I"} /\ tmp' = tmp
        BY <1>0, <2>1, <2>2
    <2>3. CASE pc' = "i_uneject_w" /\ tmp' = status /\ UNCHANGED <<ejecting, polls>>
        BY <1>0, <2>1, <2>3
    <2> QED BY <1>4, <2>2, <2>3 DEF IEject, PollAgain
<1>5. CASE IUnejectWrites
    BY <1>0, <1>5 DEF IUnejectWrites, PollAgain
<1>6. CASE IWlan
    BY <1>0, <1>6 DEF IWlan, DonePosting, Set, AllocAllowed
<1>7. CASE IAllocWrites
    BY <1>0, <1>7 DEF IAllocWrites, Write
<1>8. CASE IAdd
    BY <1>0, <1>8 DEF IAdd, CommandStep, Command
<1>9. CASE IAddFails
    BY <1>0, <1>9 DEF IAddFails, DonePosting
<1>10. CASE IStart
    BY <1>0, <1>10 DEF IStart, CommandStep, Command
<1>11. CASE IStartFails
    BY <1>0, <1>11 DEF IStartFails, DonePosting
<1>12. CASE IStartsProcesses
    BY <1>0, <1>12 DEF IStartsProcesses, Started, Set, AddAllowed
<1>13. CASE IAddedWrites
    BY <1>0, <1>13 DEF IAddedWrites, Write
<1>14. CASE IEnd
    BY <1>0, <1>14 DEF IEnd, DonePosting
<1>15. CASE ILed
    BY <1>0, <1>15 DEF ILed, CommandStep, Command
<1>16. CASE IExit
    BY <1>0, <1>16 DEF IExit
<1> QED BY <1>1, <1>2, <1>3, <1>4, <1>5, <1>6, <1>7, <1>8, <1>9, <1>10, <1>11, <1>12, <1>13, <1>14, <1>15, <1>16 DEF IStep

\* The IBSS is created on the radio that was allocated, or it does not matter.
LEMMA BKeepsJoin == JoinInv /\ BStep => JoinInv'
<1> SUFFICES ASSUME JoinInv, BStep PROVE JoinInv'
    OBVIOUS
<1>0. OneActiveInv'
    BY BKeeps DEF JoinInv
<1> USE DEF OneActiveInv, SettingUp, Scheduling, ISteps, NSteps, Early, Setup, Returning,
            StickFits, CleanStart, NoRadioYet, OneRadio, RadioFlags, JoinTold,
            JoinedHasDevice, Leaving, JoinInv, Goto, At, kernelVars, threadVars, usbVars
<1>1. CASE BPoll
    BY <1>0, <1>1 DEF BPoll, DonePosting, PollAgain
<1>2. CASE BScan
    BY <1>0, <1>2 DEF BScan, Command
<1>3. CASE BJoin
    BY <1>0, <1>3 DEF BJoin, Command
<1>4. CASE BLed
    BY <1>0, <1>4 DEF BLed, CommandStep, Command
<1>5. CASE BExit
    BY <1>0, <1>5 DEF BExit
<1> QED BY <1>1, <1>2, <1>3, <1>4, <1>5 DEF BStep

\* The scheduler tells the IBSS that its device is gone.
LEMMA NKeepsJoin == JoinInv /\ NStep => JoinInv'
<1> SUFFICES ASSUME JoinInv, NStep PROVE JoinInv'
    OBVIOUS
<1>0. OneActiveInv'
    BY NKeeps DEF JoinInv
<1> USE DEF OneActiveInv, SettingUp, Scheduling, ISteps, NSteps, Early, Setup, Returning,
            StickFits, CleanStart, NoRadioYet, OneRadio, RadioFlags, JoinTold,
            JoinedHasDevice, Leaving, JoinInv, Goto, At, kernelVars, threadVars, usbVars
<1>1. CASE NPoll
    BY <1>0, <1>1 DEF NPoll
<1>2. CASE NRadio
    BY <1>0, <1>2 DEF NRadio
<1>3. CASE NRadioJoins
    BY <1>0, <1>3 DEF NRadioJoins
<1>4. CASE NFree
    BY <1>0, <1>4 DEF NFree, Set, NonAllocAllowed
<1>5. CASE NFreeWrites
    BY <1>0, <1>5 DEF NFreeWrites, Write
<1>6. CASE NRemove
    BY <1>0, <1>6 DEF NRemove, Set, NotAddedAllowed
<1>7. CASE NRemoveWrites
    BY <1>0, <1>7 DEF NRemoveWrites, Write
<1>8. CASE NLeave
    BY <1>0, <1>8 DEF NLeave
<1>9. CASE NMac
    BY <1>0, <1>9 DEF NMac
<1>10. CASE NEnd
    BY <1>0, <1>10 DEF NEnd, PollAgain, Done
<1> QED BY <1>1, <1>2, <1>3, <1>4, <1>5, <1>6, <1>7, <1>8, <1>9, <1>10 DEF NStep

\* An interrupt raises or clears flags between any two steps.
LEMMA StickKeepsJoin == JoinInv /\ Stick => JoinInv'
<1> SUFFICES ASSUME JoinInv, Stick PROVE JoinInv'
    OBVIOUS
<1>0. OneActiveInv'
    BY StickKeeps DEF JoinInv
<1> USE DEF OneActiveInv, SettingUp, Scheduling, ISteps, NSteps, Early, Setup, Returning,
            StickFits, CleanStart, NoRadioYet, OneRadio, RadioFlags, JoinTold,
            JoinedHasDevice, Leaving, JoinInv, Goto, At, kernelVars, threadVars, usbVars
<1>1. CASE PlugMsc
    BY <1>0, <1>1 DEF PlugMsc
<1>2. CASE Switch
    BY <1>0, <1>2 DEF Switch, MscUnplugged
<1>3. CASE PlugWlan
    BY <1>0, <1>3 DEF PlugWlan
<1>4. CASE Unplug
    BY <1>0, <1>4 DEF Unplug, MscUnplugged, WlanUnplugged
<1> QED BY <1>1, <1>2, <1>3, <1>4 DEF Stick

\* A joined network has a device to run on, or the scheduler is taking it
\* down (net_scheduler_process.c:79-108, ieee80211_iface_setup_process.c:275-285).
THEOREM JoinedHasDeviceHolds == Spec => []JoinedHasDevice
<1>1. Init => JoinInv
    BY DEF Init, OneActiveInv, SettingUp, Scheduling, ISteps, NSteps, Procs, Early,
           Setup, Returning, StickFits, CleanStart, NoRadioYet, OneRadio,
           RadioFlags, JoinTold, JoinedHasDevice, JoinInv
<1>2. JoinInv /\ [Next]_vars => JoinInv'
    <2> SUFFICES ASSUME JoinInv, [Next]_vars PROVE JoinInv'
        OBVIOUS
    <2>1. CASE MainLoop
        BY <2>1, KernelKeepsJoin, IKeepsJoin, BKeepsJoin, NKeepsJoin DEF MainLoop
    <2>2. CASE Stick
        BY <2>2, StickKeepsJoin
    <2>3. CASE TimerExpires \/ UNCHANGED vars
        <3>1. UNCHANGED <<polls, pc, bus, ejecting, status, tmp, device, joined>>
            BY <2>3 DEF TimerExpires, vars, usbVars
        <3> QED
            BY <3>1 DEF OneActiveInv, SettingUp, Scheduling, Early, Setup, Returning,
                        StickFits, CleanStart, NoRadioYet, OneRadio, RadioFlags,
                        JoinTold, JoinedHasDevice, Leaving, JoinInv
    <2> QED BY <2>1, <2>2, <2>3 DEF Next
<1>3. JoinInv => JoinedHasDevice
    BY DEF JoinInv
<1> QED BY <1>1, <1>2, <1>3, PTL DEF Spec
=============================================================================
