------------------------------- MODULE Ar9170Psm -------------------------------
(***************************************************************************)
(* The power-save manager of the AR9170 driver of Contiki80211: the beacon *)
(* interval (pre-TBTT period, ATIM window, transmission or soft-beacon     *)
(* window), the doze decision, the list of awake neighbours, the ATIM,     *)
(* data and reception queues and the USB bulk-out path below them.         *)
(*                                                                         *)
(* Two contexts share the state.  Interrupt handlers (the pre-TBTT and TX  *)
(* status responses of the device, the bulk-out callback, the rtimer       *)
(* callbacks, frame reception) run to completion: each is one action.  The *)
(* main loop (net_scheduler_process polling itself) is cut into the steps  *)
(* between which an interrupt can change what the code has already read;   *)
(* pc names the next one.                                                  *)
(***************************************************************************)
EXTENDS Naturals, Sequences

CONSTANTS
    Nodes,        \* the other stations of the IBSS
    Bcast,        \* the broadcast address
    Receivers,    \* the addresses the stack above sends to
    NoNode,       \* a zeroed, or meaningless, address
    PsMode,       \* "STD" (IEEE80211_CONF_PS set, IBSS_STD_PSM) or "NONE"
    SoftBeacon,   \* WITH_SOFT_BEACON_GENERATION
    Faults,       \* what the environment may do besides the expected
    MaxPending,   \* AR9170_MAX_PENDING_TX_PKT_QUEUE_LEN
    MaxRx,        \* AR9170_MAX_PENDING_RX_PKT_QUEUE_LEN
    MaxChunks,    \* bound: chunks queued before smalloc fails (usb_wrapper.c:644)
    MaxStatus     \* bound: TX statuses the device holds back

(***************************************************************************)
(* The faults of the environment, each documented where the code meets it: *)
(*   LostStatus  a TX status never arrives (ar9170rx.c:642-649)            *)
(*   LateStatus  a TX status arrives after the next TBTT (ar9170rx.c:654)  *)
(*   UsbRace     a TX status overtakes the bulk-out callback               *)
(*               (ar9170rx.c:734)                                          *)
(*   LostDone    the bulk-out callback is suppressed (ar9170rx.c:736)      *)
(*   UsbError    a bulk-out transfer ends with an error                    *)
(*               (usb_wrapper.c:549-571)                                   *)
(*   SlowUsb     a bulk-out transfer spans a TBTT or the start of an ATIM   *)
(*               window (ar9170rx.c:703-707)                               *)
(*   EarlyTbtt   a TBTT arrives inside the pre-TBTT period or ATIM window  *)
(*               (ar9170rx.c:569-574)                                      *)
(*   SlowLoop    the main loop does not complete a pass in the pre-TBTT    *)
(*               period, or a power-save transition in a beacon interval   *)
(*               (ar9170_scheduler.c:67)                                   *)
(***************************************************************************)
AllFaults == {"LostStatus", "LateStatus", "UsbRace", "LostDone", "UsbError",
              "SlowUsb", "EarlyTbtt", "SlowLoop"}

ASSUME ConstantsAssumption ==
    /\ Receivers \subseteq Nodes \cup {Bcast}
    /\ Bcast \notin Nodes /\ NoNode \notin Nodes /\ Bcast # NoNode
    /\ PsMode \in {"STD", "NONE"}
    /\ SoftBeacon \in BOOLEAN
    /\ Faults \subseteq AllFaults
    /\ {MaxPending, MaxRx, MaxChunks, MaxStatus} \subseteq Nat \ {0}

Dest == Nodes \cup {Bcast}
Addr == Dest \cup {NoNode}
Kinds == {"ATIM", "DATA", "BCN"}
Frame == [kind : Kinds, da : Addr, fresh : BOOLEAN]
NoFrame == [kind |-> "NONE", da |-> NoNode, fresh |-> FALSE]
ConfPs == PsMode = "STD"      \* hw->conf.flags & IEEE80211_CONF_PS

VARIABLES
    \* ar->ps_mgr and ar->ps, and the one rtimer (its pending callback)
    psm_state, off_override, ps_state, update_mask,
    psm_transit_to_sleep, psm_transit_to_wake, rtimer,
    \* requests of interrupt handlers to the main loop
    erase_awake_nodes_flag, create_atims_flag, send_soft_bcn_flag,
    \* wake_neighbors_list as the set of its addresses
    wake_neighbors, last_ATIM_DA,
    \* the queues, a frame standing for its address field
    tx_pending_pkts, tx_pending_atims, rx_pending_pkts,
    \* completion flags
    tx_atim_wait, tx_data_wait, clear_tx_data_wait,
    tx_async_lock, clear_tx_async_lock,
    \* tx_list: the buffer at its head, the chunks behind it; the transfer on
    \* the endpoint and whether the device has already sent it
    tx_buffer, tx_chunks, bulk_out, bulk_taken,
    \* the device: frames whose TX status is outstanding
    device,
    \* the main loop: next step, frame kind being sent, index of the packet
    \* being announced, values read before an interruptible write
    pc, job, idx, seen_override, seen_awake

pm    == <<psm_state, off_override, ps_state, update_mask,
           psm_transit_to_sleep, psm_transit_to_wake, rtimer>>
flags == <<erase_awake_nodes_flag, create_atims_flag, send_soft_bcn_flag>>
peers == <<wake_neighbors, last_ATIM_DA>>
queues == <<tx_pending_pkts, tx_pending_atims, rx_pending_pkts>>
waits == <<tx_atim_wait, tx_data_wait, clear_tx_data_wait>>
locks == <<tx_async_lock, clear_tx_async_lock>>
usb   == <<tx_buffer, tx_chunks, bulk_out, bulk_taken>>
loop  == <<pc, job, idx, seen_override, seen_awake>>
vars  == <<pm, flags, peers, queues, waits, locks, usb, device, loop>>

Windows == {"PRE_TBTT", "ATIM", "TX", "SOFT_BCN"}
Reasons == {"BCN", "ATIM", "DATA"}      \* PS_OFF_BCN, PS_OFF_ATIM, PS_OFF_DATA
Steps == {"erase", "erase_do", "powersave", "sleep", "wake", "mask_clear",
          "tx", "first_atim", "last_da", "first_pkt", "async_tx", "write",
          "send", "append", "dequeue", "override", "override_set", "soft_bcn",
          "rx", "rx_atim", "rx_override", "rx_override_set", "rx_awake",
          "rx_awake_set", "rx_remove", "create", "create_atims"}

PmOK ==
    /\ psm_state \in Windows /\ off_override \subseteq Reasons
    /\ ps_state \in BOOLEAN /\ update_mask \in {"none", "sleep", "wake"}
    /\ psm_transit_to_sleep \in BOOLEAN /\ psm_transit_to_wake \in BOOLEAN
    /\ rtimer \in {"none", "window_start", "window_end", "soft_beacon"}

FlagsOK ==
    /\ erase_awake_nodes_flag \in BOOLEAN /\ create_atims_flag \in BOOLEAN
    /\ send_soft_bcn_flag \in BOOLEAN
    /\ tx_atim_wait \in BOOLEAN /\ tx_data_wait \in BOOLEAN
    /\ clear_tx_data_wait \in BOOLEAN
    /\ tx_async_lock \in BOOLEAN /\ clear_tx_async_lock \in BOOLEAN

PeersOK == wake_neighbors \subseteq Addr /\ last_ATIM_DA \in Addr

QueuesOK ==
    /\ tx_pending_pkts \in Seq(Dest) /\ Len(tx_pending_pkts) <= MaxPending
    /\ tx_pending_atims \in Seq(Addr) /\ Len(tx_pending_atims) <= MaxPending
    /\ rx_pending_pkts \in Seq(Nodes) /\ Len(rx_pending_pkts) <= MaxRx

UsbOK ==
    /\ tx_buffer \in Frame \cup {NoFrame} /\ bulk_out \in Frame \cup {NoFrame}
    /\ tx_chunks \in Seq(Frame) /\ Len(tx_chunks) <= MaxChunks
    /\ bulk_taken \in BOOLEAN
    /\ device \in Seq(Frame) /\ Len(device) <= MaxStatus

LoopOK ==
    /\ pc \in Steps /\ job \in Kinds \cup {"NONE"} /\ idx \in Nat \ {0}
    /\ seen_override \subseteq Reasons /\ seen_awake \subseteq Addr

TypeOK == PmOK /\ FlagsOK /\ PeersOK /\ QueuesOK /\ UsbOK /\ LoopOK

\* ar9170_alloc and the linked_list_init calls of the interface setup
Init ==
    /\ psm_state = "TX" /\ off_override = {} /\ ps_state = FALSE
    /\ update_mask = "none" /\ rtimer = "none"
    /\ psm_transit_to_sleep = FALSE /\ psm_transit_to_wake = FALSE
    /\ erase_awake_nodes_flag = FALSE /\ create_atims_flag = FALSE
    /\ send_soft_bcn_flag = FALSE
    /\ wake_neighbors = {} /\ last_ATIM_DA = NoNode
    /\ tx_pending_pkts = <<>> /\ tx_pending_atims = <<>>
    /\ rx_pending_pkts = <<>>
    /\ tx_atim_wait = FALSE /\ tx_data_wait = FALSE /\ clear_tx_data_wait = FALSE
    /\ tx_async_lock = FALSE /\ clear_tx_async_lock = FALSE
    /\ tx_buffer = NoFrame /\ tx_chunks = <<>>
    /\ bulk_out = NoFrame /\ bulk_taken = FALSE /\ device = <<>>
    /\ pc = "erase" /\ job = "NONE" /\ idx = 1
    /\ seen_override = {} /\ seen_awake = {}

-----------------------------------------------------------------------------
(* Operators shared by the handlers *)

\* Removing and re-adding at the front: the others keep their order.
MoveToFront(s, i) == <<s[i]>> \o SubSeq(s, 1, i - 1) \o SubSeq(s, i + 1, Len(s))

\* Variants named after what they get wrong stand before the definitions they
\* replace in the mutation runs; nothing else uses them.
IsDaAwakeIfAnyoneIs(d) == wake_neighbors # {}

\* The re-check of psm_state after the walk is what a pre-TBTT interrupt that
\* hits the walk runs into.
IsDaAwake(d) == psm_state # "PRE_TBTT" /\ d \in wake_neighbors

NoWaitUnchecked == TRUE
NoWait == ~tx_atim_wait /\ ~tx_data_wait

\* ar9170_ps_update with ar9170_psm_schedule_powersave
PsUpdate ==
    LET ps == off_override = {} /\ ConfPs IN
    IF ps = ps_state
    THEN UNCHANGED <<update_mask, psm_transit_to_sleep, psm_transit_to_wake>>
    ELSE /\ update_mask' = IF ps THEN "sleep" ELSE "wake"
         /\ psm_transit_to_sleep' = (psm_transit_to_sleep \/ ps)
         /\ psm_transit_to_wake' = (psm_transit_to_wake \/ ~ps)

HandleAtimStatusOfFailure(success) ==
    /\ wake_neighbors' = wake_neighbors \cup {last_ATIM_DA}
    /\ last_ATIM_DA' = NoNode

\* ieee80211_handle_ATIM_status_rsp
HandleAtimStatus(success) ==
    IF (success \/ last_ATIM_DA = Bcast) /\ ~IsDaAwake(last_ATIM_DA)
    THEN /\ wake_neighbors' = wake_neighbors \cup {last_ATIM_DA}
         /\ last_ATIM_DA' = NoNode
    ELSE UNCHANGED peers

-----------------------------------------------------------------------------
(* Interrupt handlers *)

\* Timing the code relies on, unless Faults says otherwise: the statuses of a
\* beacon interval arrive in it, and the main loop has dealt with the ATIM
\* window and with the doze decision long before the next TBTT.
CaughtUp ==
    /\ rx_pending_pkts = <<>> /\ update_mask = "none" /\ job # "ATIM"
    /\ ~erase_awake_nodes_flag /\ ~create_atims_flag
    /\ pc \in {"erase", "tx", "first_pkt", "async_tx", "write", "send",
               "append", "dequeue", "soft_bcn", "rx", "create"}
TbttExpected ==
    /\ "EarlyTbtt" \notin Faults => psm_state \in {"TX", "SOFT_BCN"}
    /\ "LateStatus" \notin Faults => device = <<>> /\ bulk_out.kind # "ATIM"
    /\ "SlowUsb" \notin Faults => bulk_out = NoFrame
    /\ "SlowLoop" \notin Faults => CaughtUp

TbttWindowAsleep ==
    /\ UNCHANGED <<ps_state, update_mask, psm_transit_to_sleep,
                   psm_transit_to_wake>>
    /\ psm_state' = "PRE_TBTT" /\ off_override' = {} /\ rtimer' = "window_start"
    /\ create_atims_flag' = TRUE /\ erase_awake_nodes_flag' = TRUE

TbttWindowKeepsTimer ==
    /\ UNCHANGED <<update_mask, psm_transit_to_sleep, psm_transit_to_wake>>
    /\ ps_state' = FALSE /\ psm_state' = "PRE_TBTT" /\ off_override' = {}
    /\ rtimer' = IF rtimer = "none" THEN "window_start" ELSE rtimer
    /\ create_atims_flag' = TRUE /\ erase_awake_nodes_flag' = TRUE

\* AR9170_RSP_PRETBTT: the state of the interval ...
TbttWindow ==
    /\ ps_state' = FALSE
    /\ UNCHANGED <<update_mask, psm_transit_to_sleep, psm_transit_to_wake>>
    /\ IF ConfPs
       THEN /\ psm_state' = "PRE_TBTT" /\ off_override' = {}
            /\ rtimer' = "window_start"
            /\ create_atims_flag' = TRUE /\ erase_awake_nodes_flag' = TRUE
       ELSE UNCHANGED <<psm_state, off_override, rtimer, create_atims_flag,
                        erase_awake_nodes_flag>>

TbttWaitsKept ==
    /\ tx_atim_wait' = FALSE /\ UNCHANGED <<tx_data_wait, clear_tx_data_wait>>

TbttWaitsNotReset ==
    /\ tx_atim_wait' = FALSE
    /\ tx_data_wait' = (tx_data_wait /\ ~clear_tx_data_wait)
    /\ clear_tx_data_wait' = (clear_tx_data_wait \/ tx_data_wait)

\* ... the wait flags whose status was lost: an ATIM's is cleared at once, a
\* data frame's at the second TBTT that finds it set ...
TbttWaits ==
    /\ tx_atim_wait' = FALSE
    /\ tx_data_wait' = (tx_data_wait /\ ~clear_tx_data_wait)
    /\ clear_tx_data_wait' =
         IF tx_data_wait THEN ~clear_tx_data_wait ELSE clear_tx_data_wait

TbttLockNotReleased ==
    /\ UNCHANGED tx_async_lock
    /\ clear_tx_async_lock' = (clear_tx_async_lock \/ tx_async_lock)

\* ... and the bulk-out lock, likewise at the second TBTT.
TbttLock ==
    /\ tx_async_lock' = (tx_async_lock /\ ~clear_tx_async_lock)
    /\ clear_tx_async_lock' =
         IF tx_async_lock THEN ~clear_tx_async_lock ELSE clear_tx_async_lock

\* A frame sent before this TBTT
Stale(frame) == [kind |-> frame.kind, da |-> frame.da, fresh |-> FALSE]

PreTbtt ==
    /\ TbttExpected
    /\ TbttWindow /\ TbttWaits /\ TbttLock
    /\ device' = [i \in DOMAIN device |-> Stale(device[i])]
    /\ UNCHANGED <<send_soft_bcn_flag, peers, queues, usb, loop>>

\* AR9170_RSP_TXCOMP for the oldest outstanding frame.  The handlers for the
\* ATIM window and for the other periods differ in their warnings only.
TxComp(success) ==
    /\ device # <<>> /\ device' = Tail(device)
    /\ IF tx_atim_wait
       THEN /\ tx_atim_wait' = ~ConfPs
            /\ IF ConfPs THEN HandleAtimStatus(success) ELSE UNCHANGED peers
            /\ UNCHANGED <<tx_data_wait, clear_tx_data_wait>>
       ELSE /\ tx_data_wait' = FALSE
            /\ clear_tx_data_wait' = (clear_tx_data_wait /\ ~tx_data_wait)
            /\ UNCHANGED <<tx_atim_wait, peers>>
    /\ tx_async_lock' = FALSE
    /\ clear_tx_async_lock' = (clear_tx_async_lock /\ ~tx_async_lock)
    /\ UNCHANGED <<pm, flags, queues, usb, loop>>

LoseStatus ==
    /\ "LostStatus" \in Faults /\ device # <<>> /\ device' = Tail(device)
    /\ UNCHANGED <<pm, flags, peers, queues, waits, locks, usb, loop>>

\* AR9170_RSP_BEACON_CONFIG: our own beacon went out, around the TBTT unless
\* the response is late.
BeaconConfig ==
    /\ ConfPs
    /\ "LateStatus" \notin Faults => psm_state \in {"PRE_TBTT", "ATIM"}
    /\ off_override' = off_override \cup {"BCN"}
    /\ UNCHANGED <<psm_state, ps_state, update_mask, psm_transit_to_sleep,
                   psm_transit_to_wake, rtimer, flags, peers, queues, waits,
                   locks, usb, device, loop>>

\* The device sends the frame of a transfer that has not completed yet.
DeviceTakes ==
    /\ "UsbRace" \in Faults /\ bulk_out # NoFrame /\ ~bulk_taken
    /\ Len(device) < MaxStatus
    /\ bulk_taken' = TRUE /\ device' = Append(device, bulk_out)
    /\ UNCHANGED <<pm, flags, peers, queues, waits, locks, tx_buffer,
                   tx_chunks, bulk_out, loop>>

\* End of a transfer: the frame is in the device, whatever the host is told.
TransferEnds ==
    /\ bulk_out # NoFrame /\ bulk_out' = NoFrame /\ bulk_taken' = FALSE
    /\ IF bulk_taken \/ Len(device) >= MaxStatus THEN UNCHANGED device
       ELSE device' = Append(device, bulk_out)

BulkOutDoneKeepsBuffer ==
    /\ TransferEnds /\ tx_async_lock' = FALSE
    /\ UNCHANGED <<pm, flags, peers, queues, waits, clear_tx_async_lock,
                   tx_buffer, tx_chunks, loop>>

\* ar9170_bulk_out_transfer_done with UHD_TRANS_NOERROR: the next chunk
\* becomes the head of tx_list, nothing sends it.
BulkOutDone ==
    /\ TransferEnds
    /\ tx_async_lock' = FALSE
    /\ IF tx_chunks = <<>> \/ tx_buffer = NoFrame
       THEN tx_buffer' = NoFrame /\ UNCHANGED tx_chunks
       ELSE tx_buffer' = Head(tx_chunks) /\ tx_chunks' = Tail(tx_chunks)
    /\ UNCHANGED <<pm, flags, peers, queues, waits, clear_tx_async_lock, loop>>

\* ... with an error status: only the lock is released.
BulkOutError ==
    /\ "UsbError" \in Faults
    /\ bulk_out # NoFrame /\ ~bulk_taken /\ bulk_out' = NoFrame
    /\ tx_async_lock' = FALSE
    /\ UNCHANGED <<pm, flags, peers, queues, waits, clear_tx_async_lock,
                   tx_buffer, tx_chunks, bulk_taken, device, loop>>

LoseBulkOutDone ==
    /\ "LostDone" \in Faults /\ TransferEnds
    /\ UNCHANGED <<pm, flags, peers, queues, waits, locks, tx_buffer,
                   tx_chunks, loop>>

AtimWindowStartWithoutEnd ==
    /\ rtimer = "window_start" /\ rtimer' = "none" /\ psm_state' = "ATIM"
    /\ UNCHANGED <<off_override, ps_state, update_mask, psm_transit_to_sleep,
                   psm_transit_to_wake, flags, peers, queues, waits, locks,
                   usb, device, loop>>

\* rtimer_run_next empties the slot before it calls the handler, so a handler
\* that calls rtimer_set fills it again.
AtimWindowStart ==
    /\ rtimer = "window_start"
    /\ "SlowUsb" \notin Faults => bulk_out = NoFrame
    /\ "SlowLoop" \notin Faults =>
         ~erase_awake_nodes_flag /\ ~create_atims_flag /\ pc # "erase_do"
    /\ psm_state' = IF psm_state = "PRE_TBTT" THEN "ATIM" ELSE psm_state
    /\ rtimer' = "window_end"
    /\ off_override' = IF tx_pending_pkts # <<>>
                       THEN off_override \cup {"DATA"} ELSE off_override
    /\ UNCHANGED <<ps_state, update_mask, psm_transit_to_sleep,
                   psm_transit_to_wake, flags, peers, queues, waits, locks, usb,
                   device, loop>>

\* A node awake only for its own beacon beacons softly instead of dozing.
AtimWindowEnd ==
    /\ rtimer = "window_end"
    /\ IF SoftBeacon /\ off_override = {"BCN"}
       THEN /\ psm_state' = "SOFT_BCN" /\ rtimer' = "soft_beacon"
            /\ UNCHANGED <<update_mask, psm_transit_to_sleep,
                           psm_transit_to_wake>>
       ELSE psm_state' = "TX" /\ rtimer' = "none" /\ PsUpdate
    /\ UNCHANGED <<off_override, ps_state, flags, peers, queues, waits, locks,
                   usb, device, loop>>

SoftBeaconTx ==
    /\ rtimer = "soft_beacon"
    /\ IF psm_state = "SOFT_BCN"
       THEN send_soft_bcn_flag' = TRUE /\ UNCHANGED rtimer
       ELSE rtimer' = "none" /\ UNCHANGED send_soft_bcn_flag
    /\ UNCHANGED <<psm_state, off_override, ps_state, update_mask,
                   psm_transit_to_sleep, psm_transit_to_wake,
                   erase_awake_nodes_flag, create_atims_flag, peers, queues,
                   waits, locks, usb, device, loop>>

Rtimer == AtimWindowStart \/ AtimWindowEnd \/ SoftBeaconTx

RxAtimInFront(n) ==
    /\ psm_state \in {"PRE_TBTT", "ATIM"} /\ Len(rx_pending_pkts) < MaxRx
    /\ rx_pending_pkts' = <<n>> \o rx_pending_pkts
    /\ UNCHANGED <<pm, flags, peers, tx_pending_pkts, tx_pending_atims, waits,
                   locks, usb, device, loop>>

\* An ATIM from n, for us or for everyone, is received and queued.  Stations
\* of one IBSS share the window, so it does not arrive outside it.
RxAtim(n) ==
    /\ psm_state \in {"PRE_TBTT", "ATIM"} /\ Len(rx_pending_pkts) < MaxRx
    /\ rx_pending_pkts' = Append(rx_pending_pkts, n)
    /\ UNCHANGED <<pm, flags, peers, tx_pending_pkts, tx_pending_atims, waits,
                   locks, usb, device, loop>>

-----------------------------------------------------------------------------
(* The main loop: ar9170_op_scheduler, then ieee80211_op_scheduler *)

Goto(step) == pc' = step /\ UNCHANGED <<job, idx, seen_override, seen_awake>>

\* ieee80211_drv_tx of the stack above, between two passes
EnqueueData(d) ==
    /\ pc = "erase" /\ Len(tx_pending_pkts) < MaxPending
    /\ tx_pending_pkts' = Append(tx_pending_pkts, d)
    /\ UNCHANGED <<pm, flags, peers, tx_pending_atims, rx_pending_pkts, waits,
                   locks, usb, device, loop>>

\* ar9170_sch_erase_nodes_check.  Outside the pre-TBTT period the list stays.
EraseNodesCheck ==
    /\ pc = "erase" /\ erase_awake_nodes_flag' = FALSE
    /\ Goto(IF erase_awake_nodes_flag /\ psm_state = "PRE_TBTT"
            THEN "erase_do" ELSE "powersave")
    /\ UNCHANGED <<pm, create_atims_flag, send_soft_bcn_flag, peers, queues,
                   waits, locks, usb, device>>

EraseAwakeNeighborsKeepsList ==
    /\ pc = "erase_do" /\ UNCHANGED wake_neighbors /\ Goto("powersave")
    /\ UNCHANGED <<pm, flags, last_ATIM_DA, queues, waits, locks, usb, device>>

EraseAwakeNeighbors ==
    /\ pc = "erase_do" /\ wake_neighbors' = {} /\ Goto("powersave")
    /\ UNCHANGED <<pm, flags, last_ATIM_DA, queues, waits, locks, usb, device>>

\* ar9170_sch_powersave_check reads the mask, ...
PowersaveCheck ==
    /\ pc = "powersave"
    /\ Goto(IF update_mask = "none" THEN "tx" ELSE update_mask)
    /\ UNCHANGED <<pm, flags, peers, queues, waits, locks, usb, device>>

PowersaveUnsettled ==
    /\ pc \in {"sleep", "wake"} /\ ps_state' = (ps_state \/ pc = "sleep")
    /\ Goto("mask_clear")
    /\ UNCHANGED <<psm_state, off_override, update_mask, psm_transit_to_sleep,
                   psm_transit_to_wake, rtimer, flags, peers, queues, waits,
                   locks, usb, device>>

\* ... acts on it (the command of ar9170_powersave is commented out: what is
\* left are the transit flags, and that of waking is set, not cleared), ...
Powersave ==
    /\ pc \in {"sleep", "wake"}
    /\ ps_state' = (ps_state \/ pc = "sleep")
    /\ psm_transit_to_sleep' = FALSE
    /\ Goto("mask_clear")
    /\ UNCHANGED <<psm_state, off_override, update_mask, psm_transit_to_wake,
                   rtimer, flags, peers, queues, waits, locks, usb, device>>

\* ... and clears it.
PowersaveMaskClear ==
    /\ pc = "mask_clear" /\ update_mask' = "none" /\ Goto("tx")
    /\ UNCHANGED <<psm_state, off_override, ps_state, psm_transit_to_sleep,
                   psm_transit_to_wake, rtimer, flags, peers, queues, waits,
                   locks, usb, device>>

\* ar9170_sch_async_tx_check: which queue has its turn
TxTurn ==
    IF \/ ps_state
       \/ psm_transit_to_sleep
       \/ tx_pending_pkts = <<>> /\ tx_pending_atims = <<>>
    THEN "rx"
    ELSE IF psm_state = "ATIM" /\ tx_pending_atims # <<>> /\ NoWait
         THEN "first_atim"
    ELSE IF psm_state = "TX" /\ tx_pending_pkts # <<>> /\ NoWait
         THEN IF ConfPs THEN "first_pkt" ELSE "async_tx"
    ELSE IF psm_state = "SOFT_BCN" /\ send_soft_bcn_flag THEN "soft_bcn"
    ELSE "rx"

AsyncTxCheck ==
    /\ pc = "tx" /\ pc' = TxTurn
    /\ job' = IF TxTurn = "async_tx" THEN "DATA" ELSE job
    /\ UNCHANGED <<pm, flags, peers, queues, waits, locks, usb, device, idx,
                   seen_override, seen_awake>>

\* ar9170_psm_async_tx_mgmt with ieee80211_psm_can_send_first_atim: ATIMs to
\* stations known to be awake are removed.  Removing all of two or more leaves
\* ar->tx_pending_atims at a freed cell: read later, it is an empty list or one
\* with a meaningless element.
FirstAtim ==
    LET asleep == {i \in DOMAIN tx_pending_atims :
                      ~IsDaAwake(tx_pending_atims[i])} IN
    /\ pc = "first_atim"
    /\ \/ \E i \in asleep :
            /\ \A j \in asleep : i <= j
            /\ tx_pending_atims' =
                 SubSeq(tx_pending_atims, i, Len(tx_pending_atims))
            /\ IF NoWait
               THEN tx_atim_wait' = TRUE /\ pc' = "last_da" /\ job' = "ATIM"
               ELSE UNCHANGED <<tx_atim_wait, job>> /\ pc' = "rx"
       \/ /\ asleep = {}
          /\ tx_pending_atims' \in
               IF Len(tx_pending_atims) < 2 THEN {<<>>} ELSE {<<>>, <<NoNode>>}
          /\ UNCHANGED <<tx_atim_wait, job>> /\ pc' = "rx"
    /\ UNCHANGED <<pm, flags, peers, tx_pending_pkts, rx_pending_pkts,
                   tx_data_wait, clear_tx_data_wait, locks, usb, device, idx,
                   seen_override, seen_awake>>

RememberAtimDa ==
    /\ pc = "last_da" /\ last_ATIM_DA' = Head(tx_pending_atims)
    /\ Goto("async_tx")
    /\ UNCHANGED <<pm, flags, wake_neighbors, queues, waits, locks, usb, device>>

\* ar9170_psm_async_tx_data with ieee80211_psm_can_send_first_pkt
FirstPkt ==
    LET awake == {i \in DOMAIN tx_pending_pkts :
                     IsDaAwake(tx_pending_pkts[i])} IN
    /\ pc = "first_pkt"
    /\ IF psm_state = "TX" /\ NoWait /\ awake # {}
       THEN \E i \in awake :
              /\ \A j \in awake : i <= j
              /\ tx_pending_pkts' = MoveToFront(tx_pending_pkts, i)
              /\ tx_data_wait' = TRUE /\ pc' = "async_tx" /\ job' = "DATA"
       ELSE UNCHANGED <<tx_pending_pkts, tx_data_wait, job>> /\ pc' = "rx"
    /\ UNCHANGED <<pm, flags, peers, tx_pending_atims, rx_pending_pkts,
                   tx_atim_wait, clear_tx_data_wait, locks, usb, device, idx,
                   seen_override, seen_awake>>

\* ar9170_async_tx up to the hand-over: with the lock held or in the wrong
\* period the frame stays queued, the wait flag of the caller stays set.
AfterTx == IF job = "ATIM" THEN "override" ELSE "rx"

AsyncTx ==
    /\ pc = "async_tx"
    /\ Goto(IF ~tx_async_lock /\ ~ps_state /\ psm_state \in {"TX", "ATIM"}
            THEN "write" ELSE AfterTx)
    /\ UNCHANGED <<pm, flags, peers, queues, waits, locks, usb, device>>

\* ar9170_async_tx_soft_beacon
AsyncTxSoftBeacon ==
    /\ pc = "soft_bcn"
    /\ pc' = (IF tx_async_lock THEN "rx" ELSE "write")
    /\ job' = IF tx_async_lock THEN job ELSE "BCN"
    /\ UNCHANGED <<pm, flags, peers, queues, waits, locks, usb, device, idx,
                   seen_override, seen_awake>>

JobFrame ==
    [kind |-> job, fresh |-> TRUE,
     da |-> IF job = "ATIM" THEN Head(tx_pending_atims)
            ELSE IF job = "DATA" THEN Head(tx_pending_pkts) ELSE Bcast]

WriteDataOverBuffer ==
    /\ pc = "write" /\ Goto("send")
    /\ tx_buffer' = JobFrame /\ tx_async_lock' = TRUE
    /\ UNCHANGED <<pm, flags, peers, queues, waits, clear_tx_async_lock,
                   tx_chunks, bulk_out, bulk_taken, device>>

\* ar9170_write_data: an empty tx_list takes the frame and the lock ...
WriteData ==
    /\ pc = "write"
    /\ IF tx_buffer = NoFrame /\ tx_chunks = <<>>
       THEN /\ tx_buffer' = JobFrame /\ tx_async_lock' = TRUE
            /\ Goto("send")
       ELSE /\ Goto(IF tx_buffer = NoFrame THEN "dequeue" ELSE "append")
            /\ UNCHANGED <<tx_buffer, tx_async_lock>>
    /\ UNCHANGED <<pm, flags, peers, queues, waits, clear_tx_async_lock,
                   tx_chunks, bulk_out, bulk_taken, device>>

\* ... and starts the transfer, which the endpoint refuses if it is busy; ...
SendData ==
    /\ pc = "send" /\ Goto("dequeue")
    /\ IF bulk_out = NoFrame
       THEN bulk_out' = JobFrame /\ UNCHANGED tx_async_lock
       ELSE tx_async_lock' = FALSE /\ UNCHANGED bulk_out
    /\ UNCHANGED <<pm, flags, peers, queues, waits, clear_tx_async_lock,
                   tx_buffer, tx_chunks, bulk_taken, device>>

\* ... otherwise the frame is linked behind the chunks, and only that.
AppendChunk ==
    /\ pc = "append" /\ Goto("dequeue")
    /\ tx_chunks' = IF Len(tx_chunks) < MaxChunks
                    THEN Append(tx_chunks, JobFrame) ELSE tx_chunks
    /\ UNCHANGED <<pm, flags, peers, queues, waits, locks, tx_buffer, bulk_out,
                   bulk_taken, device>>

\* The rest of ar9170_async_tx: sent or not, the frame leaves its queue.
Dequeue ==
    /\ pc = "dequeue" /\ pc' = AfterTx
    /\ job' = IF job = "ATIM" THEN job ELSE "NONE"
    /\ \/ /\ job = "ATIM" /\ tx_pending_atims' = Tail(tx_pending_atims)
          /\ UNCHANGED <<tx_pending_pkts, send_soft_bcn_flag>>
       \/ /\ job = "DATA" /\ tx_pending_pkts' = Tail(tx_pending_pkts)
          /\ UNCHANGED <<tx_pending_atims, send_soft_bcn_flag>>
       \/ /\ job = "BCN" /\ send_soft_bcn_flag' = FALSE
          /\ UNCHANGED <<tx_pending_atims, tx_pending_pkts>>
    /\ UNCHANGED <<pm, erase_awake_nodes_flag, create_atims_flag, peers,
                   rx_pending_pkts, waits, locks, usb, device, idx,
                   seen_override, seen_awake>>

\* off_override |= PS_OFF_ATIM, a read and a write in the main loop
ReadOverride ==
    /\ pc \in {"override", "rx_override"}
    /\ seen_override' = off_override
    /\ pc' = IF pc = "override" THEN "override_set" ELSE "rx_override_set"
    /\ UNCHANGED <<pm, flags, peers, queues, waits, locks, usb, device, job,
                   idx, seen_awake>>

WriteOverride ==
    /\ pc \in {"override_set", "rx_override_set"}
    /\ off_override' = seen_override \cup {"ATIM"} /\ seen_override' = {}
    /\ pc' = (IF pc = "override_set" THEN "rx" ELSE "rx_awake")
    /\ job' = "NONE"
    /\ UNCHANGED <<psm_state, ps_state, update_mask, psm_transit_to_sleep,
                   psm_transit_to_wake, rtimer, flags, peers, queues, waits,
                   locks, usb, device, idx, seen_awake>>

\* ar9170_sch_async_rx_check
AsyncRxCheck ==
    /\ pc = "rx" /\ pc' = (IF rx_pending_pkts # <<>> /\ psm_state # "PRE_TBTT"
                           THEN "rx_atim" ELSE "create")
    /\ job' = "NONE"
    /\ UNCHANGED <<pm, flags, peers, queues, waits, locks, usb, device, idx,
                   seen_override, seen_awake>>

\* ieee80211_rx_process_atim drops an ATIM outside its periods
ProcessAtim ==
    /\ pc = "rx_atim"
    /\ Goto(IF psm_state \in {"ATIM", "PRE_TBTT"} /\ ConfPs
            THEN "rx_override" ELSE "rx_remove")
    /\ UNCHANGED <<pm, flags, peers, queues, waits, locks, usb, device>>

\* ieee80211_rx_handle_ATIM_pkt and ieee80211_psm_add_awake_node: the walk to
\* the tail of the list ...
AddAwakeNode ==
    /\ pc = "rx_awake"
    /\ IF IsDaAwake(Head(rx_pending_pkts))
       THEN pc' = "rx_remove" /\ UNCHANGED seen_awake
       ELSE pc' = "rx_awake_set" /\ seen_awake' = wake_neighbors
    /\ UNCHANGED <<pm, flags, peers, queues, waits, locks, usb, device, job,
                   idx, seen_override>>

\* ... and the linking of the new cell, over any that an interrupt linked
\* meanwhile.
LinkAwakeNode ==
    /\ pc = "rx_awake_set" /\ pc' = "rx_remove"
    /\ wake_neighbors' = seen_awake \cup {Head(rx_pending_pkts)}
    /\ seen_awake' = {}
    /\ UNCHANGED <<pm, flags, last_ATIM_DA, queues, waits, locks, usb, device,
                   job, idx, seen_override>>

\* The rest of ar9170_async_rx
RemoveRx ==
    /\ pc = "rx_remove" /\ Goto("create")
    /\ rx_pending_pkts' = Tail(rx_pending_pkts)
    /\ UNCHANGED <<pm, flags, peers, tx_pending_pkts, tx_pending_atims, waits,
                   locks, usb, device>>

\* ieee80211_op_scheduler
CreateCheck ==
    /\ pc = "create" /\ create_atims_flag' = FALSE
    /\ Goto(IF create_atims_flag THEN "create_atims" ELSE "erase")
    /\ UNCHANGED <<pm, erase_awake_nodes_flag, send_soft_bcn_flag, peers,
                   queues, waits, locks, usb, device>>

\* ieee80211_psm_create_atim_pkts, one packet: an ATIM for its receiver unless
\* one is queued
CreateAtimPkt ==
    LET da == tx_pending_pkts[idx] IN
    /\ pc = "create_atims"
    /\ IF idx > Len(tx_pending_pkts)
       THEN pc' = "erase" /\ idx' = 1 /\ UNCHANGED tx_pending_atims
       ELSE /\ idx' = idx + 1 /\ UNCHANGED pc
            /\ tx_pending_atims' =
                 IF \/ \E i \in DOMAIN tx_pending_atims : tx_pending_atims[i] = da
                    \/ Len(tx_pending_atims) >= MaxPending
                 THEN tx_pending_atims ELSE Append(tx_pending_atims, da)
    /\ UNCHANGED <<pm, flags, peers, tx_pending_pkts, rx_pending_pkts, waits,
                   locks, usb, device, job, seen_override, seen_awake>>

Loop ==
    \/ EraseNodesCheck \/ EraseAwakeNeighbors
    \/ PowersaveCheck \/ Powersave \/ PowersaveMaskClear
    \/ AsyncTxCheck \/ FirstAtim \/ RememberAtimDa \/ FirstPkt \/ AsyncTx
    \/ AsyncTxSoftBeacon \/ WriteData \/ SendData \/ AppendChunk \/ Dequeue
    \/ ReadOverride \/ WriteOverride
    \/ AsyncRxCheck \/ ProcessAtim \/ AddAwakeNode \/ LinkAwakeNode \/ RemoveRx
    \/ CreateCheck \/ CreateAtimPkt

Status == \E success \in BOOLEAN : TxComp(success)

Device ==
    \/ PreTbtt \/ Status \/ LoseStatus \/ BeaconConfig
    \/ DeviceTakes \/ BulkOutDone \/ BulkOutError \/ LoseBulkOutDone
    \/ \E n \in Nodes : RxAtim(n)

Next == Loop \/ Device \/ Rtimer \/ \E d \in Receivers : EnqueueData(d)

Spec == Init /\ [][Next]_vars

\* net_scheduler_process polls itself; the rtimer, the beacon timer of the
\* device and the completion of a transfer are hardware.  A status is not
\* promised, nor is a callback that Faults lets vanish.  The beacon timer does
\* not wait for the loop: TbttExpected says what the loop has done by then, at
\* whichever of its steps, hence the strong fairness.
Fairness ==
    /\ WF_vars(Loop) /\ WF_vars(Rtimer) /\ SF_vars(PreTbtt)
    /\ WF_vars(BulkOutDone \/ BulkOutError \/ LoseBulkOutDone)
    /\ WF_vars(Status \/ LoseStatus)

FairSpec == Spec /\ Fairness

-----------------------------------------------------------------------------
(* Properties *)

\* At most one of the two wait flags is set, and a data wait is scheduled for
\* clearing only while it is set: a flag left behind would cut the next wait
\* short (ar9170rx.c:662-684, ar9170tx.c:746-795, ar9170_psm.c:347, 416).
WaitDiscipline ==
    /\ ~(tx_atim_wait /\ tx_data_wait)
    /\ clear_tx_data_wait => tx_data_wait

\* The single rtimer slot always holds the callback that ends the present
\* window, however TBTTs and callbacks follow each other: no window is left
\* without its end, none is ended by the timer of another (rtimer.c:68-90).
WindowTimer ==
    rtimer = CASE psm_state = "PRE_TBTT" -> "window_start"
               [] psm_state = "ATIM" -> "window_end"
               [] psm_state = "SOFT_BCN" -> "soft_beacon"
               [] OTHER -> "none"

\* The frame on the endpoint is the one at the head of tx_list: the callback
\* frees the right buffer, and a transfer is never refused because the
\* endpoint is busy (usb_wrapper.c:529-547, 592-633).
BufferInFlight ==
    /\ bulk_out # NoFrame => tx_buffer = bulk_out
    /\ pc = "send" => bulk_out = NoFrame /\ tx_buffer = JobFrame

\* A buffered frame is on the endpoint or about to be, and none waits behind
\* it: nothing sends a chunk that is only queued (usb_wrapper.c:640-656,
\* against ar9170rx.c:734-743).
NoOrphanChunk ==
    /\ tx_chunks = <<>>
    /\ tx_buffer # NoFrame => bulk_out = tx_buffer \/ pc = "send"

\* The node is asleep in the transmission window only
\* (ar9170_scheduler.c:83-92, ar9170rx.c:516-519).
SleepOnlyInTxWindow == ps_state => psm_state = "TX"

\* A node that has a reason of its own or of a peer's ATIM to stay awake does
\* not doze (ieee80211_rx.c:513-516, ar9170_psm.c:453-459).
AwakeWithReason == ps_state => off_override \cap {"ATIM", "DATA"} = {}

\* Nothing is handed to the device in the pre-TBTT period
\* (ieee80211_psm.c:356-358, ar9170_scheduler.c:366-368).
NoTxInPreTbtt ==
    [][bulk_out = NoFrame /\ bulk_out' # NoFrame =>
         psm_state # "PRE_TBTT"]_vars

\* A neighbour once in the list of awake nodes stays there until the list is
\* erased (ieee80211_psm.c:125-127, ieee80211_rx.c:619-621).
AwakeUntilErased ==
    [][wake_neighbors \subseteq wake_neighbors' \/ wake_neighbors' = {}]_vars

\* The ATIM queue holds announcements for receivers only
\* (ieee80211_psm.c:442-453, linked_list.h:436-455).
AtimsForReceivers ==
    \A i \in DOMAIN tx_pending_atims : tx_pending_atims[i] \in Receivers

\* A status that ends a wait is that of a frame of the kind waited for
\* (ar9170tx.c:740-785, "we know this was an ATIM packet").
StatusOfItsFrame ==
    [][device # <<>> /\ device' = Tail(device) =>
         /\ tx_data_wait /\ ~tx_data_wait' => Head(device).kind = "DATA"
         /\ tx_atim_wait /\ ~tx_atim_wait' => Head(device).kind = "ATIM"]_vars

\* No lost or late response blocks the transmitter for good: both wait flags
\* and the bulk-out lock are always released (ar9170rx.c:642-718).
WaitsReleased ==
    /\ tx_data_wait ~> ~tx_data_wait
    /\ tx_atim_wait ~> ~tx_atim_wait
    /\ tx_async_lock ~> ~tx_async_lock

\* The beacon interval goes on: every ATIM window is followed by another.
WindowsRecur == []<>(psm_state = "ATIM") /\ []<>(psm_state = "TX")

\* The buffer of the bulk-out endpoint is always freed again: as long as it is
\* not, every frame is queued behind it (usb_wrapper.c:592-656).
TxListDrains == []<>(tx_buffer = NoFrame)

\* Without power-save mode every packet leaves its queue, sent or given up,
\* although neither the status nor the bulk-out callback of the one before it
\* may come (ar9170_scheduler.c:330-365, ar9170rx.c:703-718).
PacketsLeave == []<>(tx_pending_pkts = <<>>)

\* A request to doze is acted upon: transmission is not held off for good.
SleepSettles == psm_transit_to_sleep ~> ~psm_transit_to_sleep
=============================================================================
