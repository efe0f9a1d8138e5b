------------------------------ MODULE PsmNetwork ------------------------------
(***************************************************************************)
(* Several stations running BeaconCycle on one channel: packets, their     *)
(* announcements, and ATIM frames that get lost, or whose acknowledgement  *)
(* does.  What a station believes of its neighbours meets what they do.    *)
(***************************************************************************)
EXTENDS BeaconCycle, Naturals, Sequences

CONSTANTS
    MaxPending,  \* AR9170_MAX_PENDING_TX_PKT_QUEUE_LEN
    MaxInbox,    \* AR9170_MAX_PENDING_RX_PKT_QUEUE_LEN
    Receivers,   \* who is sent packets: stations, or everyone
    Talkers      \* the stations whose progress is of interest

ASSUME NetworkAssumption ==
    /\ Ps /\ Timely
    /\ Addr = Stations \cup {Bcast} /\ Bcast \notin Stations
    /\ Receivers \subseteq Addr /\ Talkers \subseteq Stations
    /\ {MaxPending, MaxInbox} \subseteq Nat \ {0}

VARIABLES
    packets,    \* tx_pending_pkts of each station, as receivers
    announce,   \* tx_pending_atims
    inbox,      \* rx_pending_pkts: the senders of the ATIMs received
    status,     \* the TX status the device owes for an ATIM
    task        \* what the main loop is in the middle of

queues == <<packets, announce, inbox>>
vars == <<cycle, queues, status, task>>

NoStatus == [da |-> NoAddr, acked |-> FALSE]

NetworkTypeOK ==
    /\ CycleTypeOK
    /\ {packets, announce} \subseteq [Stations -> Seq(Receivers)]
    /\ inbox \in [Stations -> Seq(Stations)]
    /\ \A n \in Stations :
         /\ Len(packets[n]) <= MaxPending /\ Len(announce[n]) <= MaxPending
         /\ Len(inbox[n]) <= MaxInbox
    /\ status \in [Stations -> [da : Addr \cup {NoAddr}, acked : BOOLEAN]]
    /\ task \in [Stations -> {"idle", "announced", "noted"}]

NetworkInit ==
    /\ Init
    /\ packets = [n \in Stations |-> <<>>]
    /\ announce = [n \in Stations |-> <<>>]
    /\ inbox = [n \in Stations |-> <<>>]
    /\ status = [n \in Stations |-> NoStatus]
    /\ task = [n \in Stations |-> "idle"]

-----------------------------------------------------------------------------
(* The timing the protocol relies on.  The beacon timers of one IBSS are   *)
(* synchronised: no station is more than one window ahead of another, and   *)
(* no ATIM is under way when the first of them closes its window.           *)

InWindow(m, windows) == window[m] \in windows
AllIn(windows) == \A m \in Stations : InWindow(m, windows)
Quiet(n) == status[n] = NoStatus /\ onAir[n] = Nothing
AtimUnderWay ==
    \E m \in Stations : \/ work[m].kind = "ATIM" \/ ~Quiet(m)
                        \/ inbox[m] # <<>> \/ task[m] # "idle"

PreTbtt(n) ==
    /\ AllIn({"TX", "SOFT_BCN", "PRE_TBTT"}) /\ ~InWindow(n, {"PRE_TBTT"})
    /\ Quiet(n) /\ inbox[n] = <<>> /\ task[n] = "idle"
    /\ Tbtt(n) /\ UNCHANGED <<queues, status, task>>

Elements(s) == {s[i] : i \in DOMAIN s}

\* ieee80211_psm_create_atim_pkts: an ATIM for the receiver of each packet
\* unless one is queued
Announcements(atims, pkts) ==
    LET Add(queue, d) ==
          IF d \in Elements(queue) \/ Len(queue) >= MaxPending
          THEN queue ELSE Append(queue, d)
        upTo[i \in 0 .. Len(pkts)] ==
          IF i = 0 THEN atims ELSE Add(upTo[i - 1], pkts[i])
    IN upTo[Len(pkts)]

\* The first element that is (not) in a set, brought to the front
FirstIn(s, S) == CHOOSE i \in DOMAIN s : s[i] \in S
                                         /\ \A j \in 1 .. i - 1 : s[j] \notin S
Without(s, i) == SubSeq(s, 1, i - 1) \o SubSeq(s, i + 1, Len(s))

NewIntervalSilent(n) ==
    /\ task[n] = "idle" /\ Forget(n, FALSE)
    /\ UNCHANGED <<queues, status, task>>

\* The first pass of the main loop: the awake list is erased and an ATIM
\* created for every receiver of a pending packet that has none.
NewInterval(n) ==
    /\ task[n] = "idle" /\ Forget(n, FALSE)
    /\ announce' = [announce EXCEPT ![n] = Announcements(@, packets[n])]
    /\ UNCHANGED <<packets, inbox, status, task>>

WindowStart(n) ==
    /\ AllIn({"PRE_TBTT", "ATIM"}) /\ Quiet(n)
    /\ OpenAtim(n, packets[n] # <<>>) /\ UNCHANGED <<queues, status, task>>

WindowEnd(n) ==
    /\ AllIn({"ATIM", "TX", "SOFT_BCN"}) /\ ~AtimUnderWay
    /\ \E next \in IF reasons[n] = {"BCN"} THEN {"TX", "SOFT_BCN"} ELSE {"TX"} :
         CloseAtim(n, next, reasons[n] = {})
    /\ UNCHANGED <<queues, status, task>>

BeaconSent(n) ==
    /\ InWindow(n, {"PRE_TBTT", "ATIM"})
    /\ StayAwake(n, "BCN", reasons[n])
    /\ UNCHANGED <<queues, status, task>>

GoToSleep(n) ==
    /\ task[n] = "idle" /\ Doze(n) /\ UNCHANGED <<queues, status, task>>

-----------------------------------------------------------------------------
(* Sending *)

Enqueue(n, d) ==
    /\ task[n] = "idle" /\ work[n] = Nothing
    /\ d # n /\ Len(packets[n]) < MaxPending
    /\ packets' = [packets EXCEPT ![n] = Append(@, d)]
    /\ UNCHANGED <<cycle, announce, inbox, status, task>>

\* The main loop turns to the queue whose window it is, when it waits for no
\* status.  Without a station that is awake, or that must be told, there is
\* nothing to do.
TurnTo(n, kind) ==
    /\ task[n] = "idle" /\ Quiet(n)
    /\ \/ /\ kind = "ATIM" /\ announce[n] # <<>>
          /\ AllIn({"PRE_TBTT", "ATIM"})
       \/ kind = "DATA" /\ Elements(packets[n]) \cap awake[n] # {}
    /\ Turn(n, kind) /\ UNCHANGED <<queues, status, task>>

\* Announcements for stations already known to be awake are dropped.
PickAtim(n) ==
    LET untold == Elements(announce[n]) \ awake[n]
        first == FirstIn(announce[n], untold) IN
    /\ work[n] = [kind |-> "ATIM", da |-> NoAddr]
    /\ IF untold = {}
       THEN announce' = [announce EXCEPT ![n] = <<>>] /\ DropWork(n)
       ELSE /\ Pick(n, announce[n][first])
            /\ announce' = [announce EXCEPT ![n] = SubSeq(@, first, Len(@))]
    /\ UNCHANGED <<packets, inbox, status, task>>

\* The first packet for a station known to be awake, if the window is still
\* open, is moved to the front.
PickData(n) ==
    LET told == Elements(packets[n]) \cap awake[n]
        first == FirstIn(packets[n], told) IN
    /\ work[n] = [kind |-> "DATA", da |-> NoAddr]
    /\ IF InWindow(n, {"TX"}) /\ told # {}
       THEN /\ Pick(n, packets[n][first])
            /\ packets' = [packets EXCEPT
                             ![n] = <<@[first]>> \o Without(@, first)]
       ELSE DropWork(n) /\ UNCHANGED packets
    /\ UNCHANGED <<announce, inbox, status, task>>

\* The frame goes down and leaves its queue, whatever becomes of it.
Send(n) ==
    /\ HandDown(n)
    /\ \/ /\ work[n].kind = "ATIM"
          /\ announce' = [announce EXCEPT ![n] = Tail(@)]
          /\ task' = [task EXCEPT ![n] = "announced"] /\ UNCHANGED packets
       \/ /\ work[n].kind = "DATA"
          /\ packets' = [packets EXCEPT ![n] = Tail(@)]
          /\ UNCHANGED <<announce, task>>
    /\ UNCHANGED <<inbox, status>>

\* off_override |= PS_OFF_ATIM of the sender
NoteOwnAtim(n) ==
    /\ task[n] = "announced" /\ StayAwake(n, "ATIM", reasons[n])
    /\ task' = [task EXCEPT ![n] = "idle"] /\ UNCHANGED <<queues, status>>

-----------------------------------------------------------------------------
(* The channel and the reception *)

Room(m) == Len(inbox[m]) < MaxInbox
Hearing(m) == ~asleep[m]

\* An ATIM reaches some of those it is meant for; a station whose reception
\* queue is full, or whose window is over, acknowledges it all the same.
AtimOnAir(n, reached, acked) ==
    LET d == onAir[n].da IN
    /\ onAir[n].kind = "ATIM"
    /\ reached \subseteq {m \in Stations \ {n} : d \in {m, Bcast} /\ Hearing(m)}
    /\ acked => d \in reached
    /\ inbox' = [m \in Stations |->
                   IF m \in reached /\ Room(m) /\ InWindow(m, {"PRE_TBTT", "ATIM"})
                   THEN Append(inbox[m], n) ELSE inbox[m]]
    /\ status' = [status EXCEPT ![n] = [da |-> d, acked |-> acked]]
    /\ Done(n) /\ UNCHANGED <<packets, announce, task>>

DataOnAir(n) ==
    /\ onAir[n].kind = "DATA"
    /\ Done(n) /\ UNCHANGED <<queues, status, task>>

\* A successful status, and any status of a broadcast, puts the receiver into
\* the awake list.
CreditedAlways(n) == TRUE
Credited(n) == status[n].acked \/ status[n].da = Bcast

HandleStatus(n) ==
    /\ status[n] # NoStatus /\ status' = [status EXCEPT ![n] = NoStatus]
    /\ IF Credited(n)
       THEN Hear(n, status[n].da, awake[n]) ELSE UNCHANGED cycle
    /\ UNCHANGED <<queues, task>>

LoseStatus(n) ==
    /\ status[n] # NoStatus /\ status' = [status EXCEPT ![n] = NoStatus]
    /\ UNCHANGED <<cycle, queues, task>>

ProcessAtimWithoutReason(n) ==
    /\ task[n] = "idle" /\ work[n] = Nothing
    /\ inbox[n] # <<>> /\ ~InWindow(n, {"PRE_TBTT"})
    /\ IF InWindow(n, {"ATIM"})
       THEN task' = [task EXCEPT ![n] = "noted"] /\ UNCHANGED <<cycle, inbox>>
       ELSE /\ inbox' = [inbox EXCEPT ![n] = Tail(@)]
            /\ UNCHANGED <<cycle, task>>
    /\ UNCHANGED <<packets, announce, status>>

\* A received ATIM is a reason to stay awake ...
ProcessAtim(n) ==
    /\ task[n] = "idle" /\ work[n] = Nothing
    /\ inbox[n] # <<>> /\ ~InWindow(n, {"PRE_TBTT"})
    /\ IF InWindow(n, {"ATIM"})
       THEN /\ StayAwake(n, "ATIM", reasons[n])
            /\ task' = [task EXCEPT ![n] = "noted"]
            /\ UNCHANGED inbox
       ELSE /\ inbox' = [inbox EXCEPT ![n] = Tail(@)]
            /\ UNCHANGED <<cycle, task>>
    /\ UNCHANGED <<packets, announce, status>>

\* ... and its sender stays awake too.
HearSender(n) ==
    /\ task[n] = "noted" /\ task' = [task EXCEPT ![n] = "idle"]
    /\ Hear(n, Head(inbox[n]), awake[n])
    /\ inbox' = [inbox EXCEPT ![n] = Tail(@)]
    /\ UNCHANGED <<packets, announce, status>>

-----------------------------------------------------------------------------
AtimAcked(n) == AtimOnAir(n, {onAir[n].da}, TRUE)
Transmission(n) ==
    \/ DataOnAir(n)
    \/ \E reached \in SUBSET Stations, acked \in BOOLEAN :
         AtimOnAir(n, reached, acked)
Clock(n) == PreTbtt(n) \/ WindowStart(n) \/ WindowEnd(n)
MainLoop(n) ==
    \/ NewInterval(n) \/ GoToSleep(n) \/ PickAtim(n) \/ PickData(n) \/ Send(n)
    \/ NoteOwnAtim(n) \/ ProcessAtim(n) \/ HearSender(n)
    \/ \E kind \in {"ATIM", "DATA"} : TurnTo(n, kind)

NetworkNext ==
    \E n \in Stations :
      \/ Clock(n) \/ MainLoop(n) \/ Transmission(n)
      \/ HandleStatus(n) \/ LoseStatus(n) \/ BeaconSent(n)
      \/ \E d \in Receivers : Enqueue(n, d)

NetworkSpec == NetworkInit /\ [][NetworkNext]_vars

\* Timers, loops, the radio and the device go on.  For the stations in Talkers,
\* neither window is always too short for a frame, and of the ATIMs sent to one
\* station again and again not every acknowledgement or status is lost.
NetworkFairness ==
    /\ SF_vars(\E n \in Stations : Clock(n))
    /\ \A n \in Stations :
         /\ WF_vars(MainLoop(n)) /\ WF_vars(Transmission(n))
         /\ WF_vars(HandleStatus(n) \/ LoseStatus(n))
    /\ \A n \in Talkers :
         /\ SF_vars(TurnTo(n, "ATIM")) /\ SF_vars(TurnTo(n, "DATA"))
         /\ SF_vars(PickData(n) /\ work'[n] # Nothing)
         /\ SF_vars(AtimAcked(n)) /\ SF_vars(Credited(n) /\ HandleStatus(n))

FairNetworkSpec == NetworkSpec /\ NetworkFairness

-----------------------------------------------------------------------------
\* A data frame is on the air only while the station it is addressed to is
\* awake, although announcements, their acknowledgements and their statuses
\* get lost, and although the frame may have been chosen before a TBTT
\* (ieee80211_rx.c:501-526, 553-637, ar9170_psm.c:201-242).
ReceiverIsAwake ==
    \A n \in Stations :
      LET f == onAir[n] IN
      f.kind = "DATA" /\ f.da \in Stations => ~asleep[f.da]

\* In the transmission window a station that is believed awake by another has a
\* reason of its own to stay awake for the rest of the interval: who is heard
\* knows that it was (ieee80211_rx.c:513-526, ar9170_psm.c:347-360).
BothKnow ==
    \A n, d \in Stations :
      window[n] = "TX" /\ d \in awake[n] =>
        window[d] = "PRE_TBTT" \/ reasons[d] # {}

\* A packet for a station leaves its queue in the end: announcements are
\* repeated in every interval until one is answered
\* (ieee80211_psm.c:159-276, ar9170_psm.c:290-430).
QueuesMove ==
    \A n \in Talkers :
      Len(packets[n]) = MaxPending ~> Len(packets[n]) < MaxPending
=============================================================================
