--------------------------------- MODULE Csma ---------------------------------
(***************************************************************************)
(* The queues of the CSMA layer (micmac/net/mac/csma.c) and the bursts     *)
(* that empty them (qsend_list in mccontikimac.c).                         *)
(*                                                                         *)
(* A packet handed down joins the queue of its neighbour, a record taken   *)
(* from a pool when the first packet comes and given back with the last.   *)
(* A queue advances only through its timer: the timer hands the queue's    *)
(* head to the duty-cycling layer, which either sends it, and goes on with *)
(* the next as long as each is acknowledged, or defers it to the           *)
(* receiver's wake-up with a timer of its own (mcphase_wait) that keeps    *)
(* pointers to the record and to the head.  Every outcome comes back       *)
(* through packet_sent, which retransmits, or frees the packet and tells   *)
(* the upper layer; that callback may hand down another packet while the   *)
(* burst is still going through the queue.                                 *)
(*                                                                         *)
(* The radio's results are free choices; Micmac says which may come when.  *)
(***************************************************************************)
EXTENDS Naturals, FiniteSets, Sequences

CONSTANTS
    Packets,           \* the packets the upper layer hands down, each once
    Urgent,            \* those of PACKETBUF_ATTR_PACKET_TYPE_ACK
    Records,           \* neighbor_memb: CSMA_MAX_NEIGHBOR_QUEUES of them
    Addresses,         \* receivers
    Broadcast,         \* rimeaddr_null, one of the receivers
    None,              \* NULL
    MaxTransmissions,  \* CSMA_MAX_MAC_TRANSMISSIONS
    MaxQueued,         \* QUEUEBUF_NUM
    MaxDelays          \* bound: collisions and deferrals in a behaviour

ASSUME CsmaAssumption ==
    /\ Broadcast \in Addresses /\ None \notin Addresses /\ None \notin Records
    /\ None \notin Packets /\ Urgent \subseteq Packets
    /\ MaxTransmissions \in Nat \ {0} /\ MaxQueued \in Nat \ {0} /\ MaxDelays \in Nat

VARIABLES
    addr,           \* addr[n]: the record's neighbour, None while it is free
    queue,          \* queue[n]: n->queued_packet_list
    transmit_timer, \* transmit_timer[n]: set or not
    transmissions,  \* transmissions[n]
    deferred,       \* mcphase's queue items: pairs of a record and a head
    burst,          \* qsend_list's n (None when idle)
    curr,           \* its curr: the packet to send
    next,           \* its next, read before the packet is sent
    awake,          \* is_receiver_awake
    dest,           \* dest[p]: where the upper layer sent p, None before
    reports,        \* reports[p]: calls of p's sent callback
    delays          \* collisions and deferrals so far

records == <<addr, queue, transmit_timer, transmissions>>
loop    == <<burst, curr, next, awake>>
upper   == <<dest, reports>>
vars    == <<addr, queue, transmit_timer, transmissions, deferred, burst, curr,
             next, awake, dest, reports, delays>>

InQueue(n) == {queue[n][i] : i \in 1 .. Len(queue[n])}
Queued     == UNION {InQueue(n) : n \in Records}

Report(p) == reports' = [reports EXCEPT ![p] = @ + 1]

-----------------------------------------------------------------------------
(* The upper layer *)

\* neighbor_queue_from_addr, or else a free record
RecordFor(n, a) ==
    \/ addr[n] = a
    \/ addr[n] = None /\ \A o \in Records : addr[o] # a

\* The packet is handed down while nothing is being sent, or by the sent
\* callback of the packet that was just reported (between two rounds of
\* qsend_list, when curr is None).
HandedDown(p, a) ==
    /\ curr = None
    /\ dest[p] = None
    /\ dest' = [dest EXCEPT ![p] = a]

\* send_packet: the packet joins the queue, an acknowledgement of the upper
\* layer at its head; a packet that is now the head is sent at once.
Accept(p, a) ==
    /\ HandedDown(p, a)
    /\ Cardinality(Queued) < MaxQueued
    /\ \E n \in Records :
          /\ RecordFor(n, a)
          /\ addr' = [addr EXCEPT ![n] = a]
          /\ queue' = [queue EXCEPT ![n] = IF p \in Urgent THEN <<p>> \o @ ELSE Append(@, p)]
          /\ transmissions' = [transmissions EXCEPT ![n] = IF addr[n] = None THEN 0 ELSE @]
          /\ transmit_timer' = [transmit_timer EXCEPT ![n] = @ \/ Head(queue'[n]) = p]
    /\ UNCHANGED <<loop, deferred, reports, delays>>

\* The upper layer is not told.
RefuseForgets(p, a) == HandedDown(p, a) /\ UNCHANGED <<records, loop, deferred, reports, delays>>

\* send_packet without a record, or without a buffer: those of the packet
\* pool are this layer's, queue buffers it shares with others.
Refuse(p, a) ==
    /\ HandedDown(p, a)
    /\ Report(p)
    /\ UNCHANGED <<records, loop, deferred, delays>>

-----------------------------------------------------------------------------
(* packet_sent *)

\* list_remove: the first occurrence goes, what is behind it moves up.
Without(q, p) ==
    LET at == CHOOSE i \in DOMAIN q : q[i] = p /\ \A j \in 1 .. i - 1 : q[j] # p
    IN  [i \in 1 .. Len(q) - 1 |-> IF i < at THEN q[i] ELSE q[i + 1]]

\* The rest of the queue is left to the burst that is going through it.
FreePacketInBurst(n, p) ==
    LET rest == Without(queue[n], p)
    IN  /\ queue' = [queue EXCEPT ![n] = rest]
        /\ transmissions' = [transmissions EXCEPT ![n] = 0]
        /\ transmit_timer' = [transmit_timer EXCEPT ![n] = FALSE]
        /\ addr' = [addr EXCEPT ![n] = IF rest = <<>> THEN None ELSE @]
        /\ Report(p)

\* free_packet(n, p), then the sent callback
FreePacket(n, p) ==
    LET rest == Without(queue[n], p)
    IN  /\ queue' = [queue EXCEPT ![n] = rest]
        /\ transmissions' = [transmissions EXCEPT ![n] = 0]
        /\ transmit_timer' = [transmit_timer EXCEPT ![n] = rest # <<>>]
        /\ addr' = [addr EXCEPT ![n] = IF rest = <<>> THEN None ELSE @]
        /\ Report(p)

Retransmit(n) ==
    /\ transmit_timer' = [transmit_timer EXCEPT ![n] = TRUE]
    /\ UNCHANGED <<addr, queue, reports>>

\* A missing acknowledgement is counted like a collision.
PacketSentUncounted(n, p, result) ==
    IF p \notin InQueue(n)
    THEN UNCHANGED records /\ UNCHANGED reports
    ELSE \/ result \in {"ok", "fatal"} /\ FreePacket(n, p)
         \/ /\ result \in {"noack", "collision"}
            /\ Retransmit(n) /\ UNCHANGED transmissions

\* The packet is found in the record's queue by its sequence number.
PacketSent(n, p, result) ==
    IF p \notin InQueue(n)
    THEN /\ transmissions' = IF result \in {"ok", "noack"}
                             THEN [transmissions EXCEPT ![n] = @ + 1] ELSE transmissions
         /\ UNCHANGED <<addr, queue, transmit_timer, reports>>
    ELSE \/ /\ result \in {"ok", "fatal"}
            /\ FreePacket(n, p)
         \/ /\ result = "noack"
            /\ transmissions[n] + 1 >= MaxTransmissions
            /\ FreePacket(n, p)
         \/ /\ result = "noack"
            /\ transmissions[n] + 1 < MaxTransmissions
            /\ transmissions' = [transmissions EXCEPT ![n] = @ + 1]
            /\ Retransmit(n)
         \/ /\ result = "collision"
            /\ Retransmit(n) /\ UNCHANGED transmissions

-----------------------------------------------------------------------------
(* qsend_list *)

\* The packet behind p in the record's queue
Behind(n, p) ==
    IF \E i \in 1 .. Len(queue[n]) - 1 : queue[n][i] = p
    THEN queue[n][CHOOSE i \in 2 .. Len(queue[n]) : queue[n][i - 1] = p]
    ELSE None

StartBurst(n, p) ==
    /\ burst' = n
    /\ curr' = p
    /\ next' = Behind(n, p)
    /\ awake' = FALSE

Delayed == delays < MaxDelays /\ delays' = delays + 1

\* transmit_packet_list, called by the timer
TimerFires(n) ==
    /\ burst = None
    /\ transmit_timer[n]
    /\ transmit_timer' = [transmit_timer EXCEPT ![n] = FALSE]
    /\ StartBurst(n, Head(queue[n]))
    /\ UNCHANGED <<addr, queue, transmissions, deferred, upper, delays>>

\* The deferral ends: mcphase.c's send_packet with the pointers it kept
DeferralEnds(n, p) ==
    /\ burst = None
    /\ <<n, p>> \in deferred
    /\ deferred' = deferred \ {<<n, p>>}
    /\ StartBurst(n, p)
    /\ UNCHANGED <<records, upper, delays>>

\* we_are_receiving_burst: nothing is sent
ReceivingBurst ==
    /\ curr # None /\ ~awake
    /\ Delayed
    /\ PacketSent(burst, curr, "collision")
    /\ burst' = None /\ curr' = None /\ next' = None
    /\ UNCHANGED <<awake, deferred, dest>>

\* send_packet finds the receiver asleep and known: MAC_TX_DEFERRED
Defer ==
    /\ curr # None /\ ~awake
    /\ addr[burst] # Broadcast
    /\ Delayed
    /\ deferred' = deferred \cup {<<burst, curr>>}
    /\ burst' = None /\ curr' = None /\ next' = None
    /\ UNCHANGED <<records, awake, upper>>

\* The packet is sent, or was not for want of the radio, and the outcome is told.
SendResult(result) ==
    /\ curr # None
    /\ result = "noack" => addr[burst] # Broadcast
    /\ IF result = "collision" THEN Delayed ELSE UNCHANGED delays
    /\ PacketSent(burst, curr, result)
    /\ curr' = None
    /\ next' = IF result = "ok" THEN next ELSE None
    /\ UNCHANGED <<burst, awake, deferred, dest>>

\* The loop's end, or its next round
Continue ==
    /\ burst # None /\ curr = None
    /\ IF next = None
       THEN burst' = None /\ awake' = FALSE /\ UNCHANGED <<curr, next>>
       ELSE /\ curr' = next
            /\ next' = Behind(burst, next)
            /\ awake' = TRUE
            /\ UNCHANGED burst
    /\ UNCHANGED <<records, deferred, upper, delays>>

-----------------------------------------------------------------------------

Init ==
    /\ addr = [n \in Records |-> None]
    /\ queue = [n \in Records |-> <<>>]
    /\ transmit_timer = [n \in Records |-> FALSE]
    /\ transmissions = [n \in Records |-> 0]
    /\ deferred = {}
    /\ burst = None /\ curr = None /\ next = None /\ awake = FALSE
    /\ dest = [p \in Packets |-> None]
    /\ reports = [p \in Packets |-> 0]
    /\ delays = 0

Next ==
    \/ \E p \in Packets, a \in Addresses : Accept(p, a)
    \/ \E p \in Packets, a \in Addresses : Refuse(p, a)
    \/ \E n \in Records : TimerFires(n)
    \/ \E n \in Records, p \in Packets : DeferralEnds(n, p)
    \/ ReceivingBurst
    \/ Defer
    \/ \E result \in {"ok", "noack", "collision", "fatal"} : SendResult(result)
    \/ Continue

Spec == Init /\ [][Next]_vars

\* A burst is one call and comes to its end.  Timers are served in the order
\* in which they expire, so that none that is set waits for ever behind bursts.
FairSpec ==
    /\ Spec
    /\ WF_vars(\E result \in {"ok", "noack", "fatal"} : SendResult(result))
    /\ WF_vars(Continue)
    /\ \A n \in Records :
          SF_vars(TimerFires(n) \/ \E p \in Packets : DeferralEnds(n, p))

-----------------------------------------------------------------------------
(* Properties *)

\* Whoever drives a queue knows the packet it has at its head, and there is
\* exactly one: the timer, a deferred item, or the burst about to send.  With
\* none the queue is stuck for good, since a packet behind others starts no
\* timer (csma.c:360); with two a packet is sent, and freed, twice.
OneDriver ==
    \A n \in Records :
        LET items == {d \in deferred : d[1] = n}
            sending == burst = n /\ curr # None
        IN  /\ queue[n] # <<>> <=> addr[n] # None
            /\ \A d \in items : queue[n] # <<>> /\ d[2] = queue[n][1]
            /\ sending => queue[n] # <<>> /\ curr = queue[n][1] /\ items = {}
            /\ queue[n] = <<>> => ~transmit_timer[n]
            /\ queue[n] # <<>> =>
                 \/ sending
                 \/ transmit_timer[n] /\ items = {}
                 \/ ~transmit_timer[n] /\ Cardinality(items) = 1

\* A packet handed down is in one place of one queue, its neighbour's, or its
\* sender was told its fate, once.
OneFate ==
    \A p \in Packets :
        LET places == {x \in UNION {{n} \X DOMAIN queue[n] : n \in Records} :
                            queue[x[1]][x[2]] = p}
        IN  /\ dest[p] = None => places = {} /\ reports[p] = 0
            /\ dest[p] # None => Cardinality(places) + reports[p] = 1
            /\ \A x \in places : addr[x[1]] = dest[p]

\* Every packet handed down is reported: a receiver that is gone, or one that
\* answers no longer in the middle of a burst, holds no queue for ever.  (With
\* finitely many packets: in the end all that were handed down are reported.)
AllReported == <>[](\A p \in Packets : dest[p] # None => reports[p] > 0)
===============================================================================
