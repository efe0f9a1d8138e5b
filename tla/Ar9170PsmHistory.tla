--------------------------- MODULE Ar9170PsmHistory ---------------------------
(***************************************************************************)
(* Ar9170Psm with history variables, for the properties that relate the    *)
(* state of the driver to what happened earlier.  No variable of the       *)
(* driver depends on them.                                                 *)
(***************************************************************************)
EXTENDS Ar9170Psm

VARIABLES
    heard,      \* who acknowledged an ATIM of ours, or sent one, since the TBTT
    announced,  \* receivers whose ATIM was handed down since the TBTT
    owed,       \* receivers of the packets queued when ATIMs were created
    lock_old,   \* the bulk-out lock was held at the last TBTT, and since
    blocked,    \* ATIM windows that began with one and the same data wait
    chosen      \* the frame the main loop has turned to and not let go of

hist == <<heard, announced, owed, lock_old, blocked, chosen>>
hvars == <<vars, hist>>

\* The steps of the loop that deal with one frame, chosen before
Sending == {"last_da", "async_tx", "write", "send", "append", "dequeue"}
Receiving == {"rx_atim", "rx_override", "rx_override_set", "rx_awake",
              "rx_awake_set", "rx_remove"}

HInit ==
    /\ Init
    /\ heard = {} /\ announced = {} /\ owed = {}
    /\ lock_old = FALSE /\ blocked = 0 /\ chosen = NoNode

HPreTbtt ==
    /\ PreTbtt
    /\ heard' = {} /\ announced' = {} /\ owed' = {}
    /\ lock_old' = tx_async_lock'
    /\ blocked' = IF tx_data_wait' THEN blocked ELSE 0
    /\ UNCHANGED chosen

\* The station heard is that of the frame, which the handler does not know.
HStatus ==
    /\ \E success \in BOOLEAN :
         /\ TxComp(success)
         /\ LET f == Head(device) IN
            heard' = IF /\ f.kind = "ATIM" /\ f.fresh /\ f.da \in Dest
                        /\ success \/ f.da = Bcast
                     THEN heard \cup {f.da} ELSE heard
    /\ lock_old' = FALSE
    /\ blocked' = IF tx_data_wait' THEN blocked ELSE 0
    /\ UNCHANGED <<announced, owed, chosen>>

HRxAtim ==
    /\ \E n \in Nodes : RxAtim(n) /\ heard' = heard \cup {n}
    /\ UNCHANGED <<announced, owed, lock_old, blocked, chosen>>

HBulkOut ==
    /\ DeviceTakes \/ BulkOutDone \/ BulkOutError \/ LoseBulkOutDone
    /\ lock_old' = (lock_old /\ tx_async_lock')
    /\ UNCHANGED <<heard, announced, owed, blocked, chosen>>

HAtimWindowStart ==
    /\ AtimWindowStart
    /\ blocked' = IF tx_data_wait THEN blocked + 1 ELSE 0
    /\ UNCHANGED <<heard, announced, owed, lock_old, chosen>>

HCreateCheck ==
    /\ CreateCheck
    /\ owed' = IF create_atims_flag
               THEN {tx_pending_pkts[i] : i \in DOMAIN tx_pending_pkts}
               ELSE owed
    /\ UNCHANGED <<heard, announced, lock_old, blocked, chosen>>

HDequeue ==
    /\ Dequeue
    /\ announced' = IF job = "ATIM"
                    THEN announced \cup {Head(tx_pending_atims)} ELSE announced
    /\ chosen' = NoNode
    /\ UNCHANGED <<heard, owed, lock_old, blocked>>

\* The entry of a queue that comes first among those with an index in I
FirstOf(q, I) == q[CHOOSE i \in I : \A j \in I : i <= j]

\* The frame a step of the loop turns to: the first ATIM to a station not
\* known to be awake, the first packet to one that is, the first packet
\* without power-save mode, the first frame received.
Choice ==
    CASE pc = "first_atim" /\ pc' = "last_da" ->
           FirstOf(tx_pending_atims, {i \in DOMAIN tx_pending_atims :
                                        ~IsDaAwake(tx_pending_atims[i])})
      [] pc = "first_pkt" /\ pc' = "async_tx" ->
           FirstOf(tx_pending_pkts, {i \in DOMAIN tx_pending_pkts :
                                       IsDaAwake(tx_pending_pkts[i])})
      [] pc = "tx" /\ pc' = "async_tx" -> Head(tx_pending_pkts)
      [] pc = "rx" /\ pc' = "rx_atim" -> Head(rx_pending_pkts)
      [] {pc, pc'} \subseteq Sending \cup Receiving -> chosen
      [] OTHER -> NoNode

HOther ==
    /\ \/ LoseStatus \/ BeaconConfig \/ AtimWindowEnd \/ SoftBeaconTx
       \/ \E d \in Receivers : EnqueueData(d)
       \/ EraseNodesCheck \/ EraseAwakeNeighbors
       \/ PowersaveCheck \/ Powersave \/ PowersaveMaskClear
       \/ AsyncTxCheck \/ FirstAtim \/ RememberAtimDa \/ FirstPkt \/ AsyncTx
       \/ AsyncTxSoftBeacon \/ WriteData \/ SendData \/ AppendChunk
       \/ ReadOverride \/ WriteOverride
       \/ AsyncRxCheck \/ ProcessAtim \/ AddAwakeNode \/ LinkAwakeNode
       \/ RemoveRx \/ CreateAtimPkt
    /\ blocked' = IF tx_data_wait' THEN blocked ELSE 0
    /\ lock_old' = (lock_old /\ tx_async_lock')
    /\ chosen' = Choice
    /\ UNCHANGED <<heard, announced, owed>>

HNext ==
    \/ HPreTbtt \/ HStatus \/ HRxAtim \/ HBulkOut \/ HAtimWindowStart
    \/ HCreateCheck \/ HDequeue \/ HOther

HSpec == HInit /\ [][HNext]_hvars

-----------------------------------------------------------------------------
\* The loop keeps a pointer to the frame it turned to, works on it with
\* interrupts enabled, and then has linked_list_remove_first drop whatever is
\* first in the queue.  That is still the frame it turned to, whatever was
\* queued, moved or given up in between: no frame is read and another removed
\* (ar9170_main.c:1708-1770, 1850-1887, ieee80211_psm.c:159-366).
FrameAtHead ==
    /\ pc \in Sending /\ job = "ATIM" =>
         tx_pending_atims # <<>> /\ Head(tx_pending_atims) = chosen
    /\ pc \in Sending /\ job = "DATA" =>
         tx_pending_pkts # <<>> /\ Head(tx_pending_pkts) = chosen
    /\ pc \in Receiving =>
         rx_pending_pkts # <<>> /\ Head(rx_pending_pkts) = chosen

\* Once the pre-TBTT period is over, the stations believed to be awake are
\* those heard in this beacon interval: no acknowledgement is credited to
\* another ATIM, no neighbour carried over from the interval before
\* (ieee80211_rx.c:553-637, ar9170_scheduler.c:59-75).
AwakeTruthful == psm_state # "PRE_TBTT" => wake_neighbors \subseteq heard

\* Every packet that was pending when the beacon interval began has been
\* announced, is about to be, or needs no announcement
\* (ieee80211_psm.c:159-276, 368-456).
EveryPacketAnnounced ==
    psm_state # "PRE_TBTT" /\ pc # "create_atims" =>
      \A d \in owed : \/ d \in announced \cup wake_neighbors
                      \/ \E i \in DOMAIN tx_pending_atims :
                           tx_pending_atims[i] = d

\* A TBTT releases a bulk-out lock only if the TBTT before it found the lock
\* held for the same transfer (ar9170rx.c:703-718).
LockForOneInterval ==
    [][HPreTbtt /\ tx_async_lock /\ ~tx_async_lock' => lock_old]_hvars

\* A data wait whose status was lost holds up one beacon interval at most
\* (ar9170rx.c:672-677).
BlockedOneInterval == blocked <= 1
=============================================================================
