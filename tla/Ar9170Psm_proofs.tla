--------------------------- MODULE Ar9170Psm_proofs ---------------------------
(***************************************************************************)
(* Theorems about the driver of Ar9170Psm, for every set of stations,      *)
(* every set of faults and all bounds: what holds of every state of it     *)
(* (Ar9170Psm), that it implements a station of BeaconCycle (Ar9170Cycle), *)
(* and what it knows about frames and neighbours in an orderly beacon      *)
(* interval (Ar9170PsmHistory).                                            *)
(***************************************************************************)
EXTENDS Ar9170Cycle, Ar9170PsmHistory, SequenceTheorems, FiniteSetTheorems, TLAPS

-----------------------------------------------------------------------------
(* The windows and their timer *)

\* The timer of the present window is armed at the start.
LEMMA WindowTimerInit == Init => WindowTimer
  BY DEF Init, WindowTimer

\* Every step keeps it so: only the pre-TBTT interrupt and the callbacks of
\* the timer change the window.
LEMMA WindowTimerStep == WindowTimer /\ [Next]_vars => WindowTimer'
  <1> SUFFICES ASSUME WindowTimer, [Next]_vars PROVE WindowTimer'
    OBVIOUS
  <1>1. CASE PreTbtt
    BY <1>1 DEF PreTbtt, TbttWindow, WindowTimer
  <1>2. CASE AtimWindowStart
    BY <1>2 DEF AtimWindowStart, WindowTimer
  <1>3. CASE AtimWindowEnd
    BY <1>3 DEF AtimWindowEnd, WindowTimer
  <1>4. CASE SoftBeaconTx
    BY <1>4 DEF SoftBeaconTx, WindowTimer
  <1>5. CASE UNCHANGED <<psm_state, rtimer>>
    BY <1>5 DEF WindowTimer
  <1>6. Loop => UNCHANGED <<psm_state, rtimer>>
    BY DEF Loop, EraseNodesCheck, EraseAwakeNeighbors, PowersaveCheck,
           Powersave, PowersaveMaskClear, AsyncTxCheck, FirstAtim,
           RememberAtimDa, FirstPkt, AsyncTx, AsyncTxSoftBeacon, WriteData,
           SendData, AppendChunk, Dequeue, ReadOverride, WriteOverride,
           AsyncRxCheck, ProcessAtim, AddAwakeNode, LinkAwakeNode, RemoveRx,
           CreateCheck, CreateAtimPkt, pm
  <1>7. Device => PreTbtt \/ UNCHANGED <<psm_state, rtimer>>
    BY DEF Device, Status, TxComp, LoseStatus, BeaconConfig, DeviceTakes,
           BulkOutDone, BulkOutError, LoseBulkOutDone, RxAtim, pm
  <1>8. ASSUME NEW d \in Receivers, EnqueueData(d)
        PROVE  UNCHANGED <<psm_state, rtimer>>
    BY <1>8 DEF EnqueueData, pm
  <1>9. UNCHANGED vars => UNCHANGED <<psm_state, rtimer>>
    BY DEF vars, pm
  <1> QED
    BY <1>1, <1>2, <1>3, <1>4, <1>5, <1>6, <1>7, <1>8, <1>9 DEF Next, Rtimer

\* However TBTTs and callbacks follow each other, the one rtimer slot holds
\* the callback that ends the present window: no window lasts for ever, none
\* is ended by the timer of another (rtimer.c:66-106, ar9170_psm.c:69-242).
THEOREM WindowTimerHolds == Spec => []WindowTimer
  BY WindowTimerInit, WindowTimerStep, PTL DEF Spec

-----------------------------------------------------------------------------
(* The wait flags *)

\* No wait flag is set at the start.
LEMMA WaitDisciplineInit == Init => WaitDiscipline
  BY DEF Init, WaitDiscipline

\* The flags are set by the two actions that choose a frame, both under
\* NoWait, and cleared by a status or by a TBTT.
LEMMA WaitDisciplineStep == WaitDiscipline /\ [Next]_vars => WaitDiscipline'
  <1> SUFFICES ASSUME WaitDiscipline, [Next]_vars PROVE WaitDiscipline'
    OBVIOUS
  <1>1. CASE PreTbtt
    BY <1>1 DEF PreTbtt, TbttWaits, WaitDiscipline
  <1>2. ASSUME NEW success \in BOOLEAN, TxComp(success)
        PROVE  WaitDiscipline'
    BY <1>2 DEF TxComp, WaitDiscipline
  <1>3. CASE FirstAtim
    BY <1>3 DEF FirstAtim, NoWait, WaitDiscipline
  <1>4. CASE FirstPkt
    BY <1>4 DEF FirstPkt, NoWait, WaitDiscipline
  <1>5. CASE UNCHANGED waits
    BY <1>5 DEF waits, WaitDiscipline
  <1>6. Loop => FirstAtim \/ FirstPkt \/ UNCHANGED waits
    BY DEF Loop, EraseNodesCheck, EraseAwakeNeighbors, PowersaveCheck,
           Powersave, PowersaveMaskClear, AsyncTxCheck, RememberAtimDa,
           AsyncTx, AsyncTxSoftBeacon, WriteData, SendData, AppendChunk,
           Dequeue, ReadOverride, WriteOverride, AsyncRxCheck, ProcessAtim,
           AddAwakeNode, LinkAwakeNode, RemoveRx, CreateCheck, CreateAtimPkt
  <1>7. Device => \/ PreTbtt
                  \/ \E success \in BOOLEAN : TxComp(success)
                  \/ UNCHANGED waits
    BY DEF Device, Status, LoseStatus, BeaconConfig, DeviceTakes, BulkOutDone,
           BulkOutError, LoseBulkOutDone, RxAtim
  <1>8. Rtimer => UNCHANGED waits
    BY DEF Rtimer, AtimWindowStart, AtimWindowEnd, SoftBeaconTx
  <1>9. ASSUME NEW d \in Receivers, EnqueueData(d)
        PROVE  UNCHANGED waits
    BY <1>9 DEF EnqueueData
  <1>10. UNCHANGED vars => UNCHANGED waits
    BY DEF vars
  <1> QED
    BY <1>1, <1>2, <1>3, <1>4, <1>5, <1>6, <1>7, <1>8, <1>9, <1>10 DEF Next

\* Never are both wait flags set, and no mark to clear a data wait outlives the
\* wait it was made for, whatever statuses are lost or late
\* (ar9170rx.c:642-684, ar9170tx.c:707-821).
THEOREM WaitDisciplineHolds == Spec => []WaitDiscipline
  BY WaitDisciplineInit, WaitDisciplineStep, PTL DEF Spec

-----------------------------------------------------------------------------
(* Types.  What a step reads from the head of a queue is in the queue only *)
(* because of FrameQueued, so the two are proved together.                 *)

\* The queue of the frame the loop is busy with is not empty.
FrameQueued ==
    /\ pc \in Sending =>
         /\ job # "NONE"
         /\ job = "ATIM" => tx_pending_atims # <<>>
         /\ job = "DATA" => tx_pending_pkts # <<>>
    /\ pc = "last_da" => job = "ATIM"
    /\ pc \in Receiving => rx_pending_pkts # <<>>

IInv == TypeOK /\ FrameQueued

\* One element in front of two sequences.
LEMMA FrontConcat ==
  ASSUME NEW S, NEW e \in S, NEW a \in Seq(S), NEW b \in Seq(S)
  PROVE  /\ <<e>> \o a \o b \in Seq(S)
         /\ Len(<<e>> \o a \o b) = 1 + Len(a) + Len(b)
         /\ (<<e>> \o a \o b)[1] = e
  <1> DEFINE f == <<e>>
             g == f \o a
             h == g \o b
  <1>1. f \in Seq(S) /\ Len(f) = 1 /\ f[1] = e
    OBVIOUS
  <1>2. Len(a) \in Nat /\ Len(b) \in Nat
    BY LenProperties
  <1> HIDE DEF f
  <1>3. /\ g \in Seq(S) /\ Len(g) = Len(f) + Len(a)
        /\ \A k \in 1 .. Len(f) + Len(a) :
             g[k] = IF k <= Len(f) THEN f[k] ELSE a[k - Len(f)]
    BY <1>1, ConcatProperties
  <1> HIDE DEF g
  <1>g. g \in Seq(S)
    BY <1>3
  <1>4. /\ h \in Seq(S) /\ Len(h) = Len(g) + Len(b)
        /\ \A k \in 1 .. Len(g) + Len(b) :
             h[k] = IF k <= Len(g) THEN g[k] ELSE b[k - Len(g)]
    BY <1>g, ConcatProperties
  <1> HIDE DEF h
  <1>5. Len(h) = 1 + Len(a) + Len(b)
    BY <1>1, <1>2, <1>3, <1>4
  <1>6. h[1] = e
    <2>1. 1 \in 1 .. Len(f) + Len(a) /\ 1 \in 1 .. Len(g) + Len(b)
          /\ 1 <= Len(f) /\ 1 <= Len(g)
      BY <1>1, <1>2, <1>3
    <2> QED
      BY <1>1, <1>3, <1>4, <2>1
  <1>7. h \in Seq(S) /\ Len(h) = 1 + Len(a) + Len(b) /\ h[1] = e
    BY <1>4, <1>5, <1>6
  <1> QED
    BY <1>7 DEF f, g, h

\* Moving a packet to the front changes neither the packets nor their number.
LEMMA MoveToFrontType ==
  ASSUME NEW S, NEW s \in Seq(S), NEW i \in 1 .. Len(s)
  PROVE  /\ MoveToFront(s, i) \in Seq(S)
         /\ Len(MoveToFront(s, i)) = Len(s)
         /\ MoveToFront(s, i)[1] = s[i]
  <1> DEFINE before == SubSeq(s, 1, i - 1)
             after == SubSeq(s, i + 1, Len(s))
  <1>1. Len(s) \in Nat /\ i \in Nat /\ i >= 1 /\ i <= Len(s) /\ s[i] \in S
        /\ \A k \in 1 .. Len(s) : s[k] \in S
    BY ElementOfSeq, LenProperties
  <1>2. before \in Seq(S) /\ Len(before) = i - 1
    BY <1>1, SubSeqProperties
  <1>3. after \in Seq(S) /\ Len(after) = Len(s) - i
    BY <1>1, SubSeqProperties
  <1>4. MoveToFront(s, i) = <<s[i]>> \o before \o after
    BY Zenon DEF MoveToFront
  <1> HIDE DEF before, after
  <1>5. /\ <<s[i]>> \o before \o after \in Seq(S)
        /\ Len(<<s[i]>> \o before \o after) = 1 + Len(before) + Len(after)
        /\ (<<s[i]>> \o before \o after)[1] = s[i]
    <2>1. before \in Seq(S) /\ after \in Seq(S) /\ s[i] \in S
      BY <1>1, <1>2, <1>3
    <2> QED
      BY <2>1, FrontConcat, Z3
  <1>6. 1 + (i - 1) + (Len(s) - i) = Len(s)
    BY <1>1
  <1> QED
    BY <1>2, <1>3, <1>4, <1>5, <1>6, Zenon

\* So does cutting off the first packets.
LEMMA SuffixType ==
  ASSUME NEW S, NEW s \in Seq(S), NEW i \in 1 .. Len(s)
  PROVE  /\ SubSeq(s, i, Len(s)) \in Seq(S)
         /\ Len(SubSeq(s, i, Len(s))) = Len(s) - i + 1
         /\ SubSeq(s, i, Len(s)) # <<>>
  <1>1. /\ Len(s) \in Nat /\ i \in Nat /\ i <= Len(s)
        /\ \A k \in 1 .. Len(s) : s[k] \in S
    BY ElementOfSeq, LenProperties
  <1>2. /\ SubSeq(s, i, Len(s)) \in Seq(S)
        /\ Len(SubSeq(s, i, Len(s))) = Len(s) - i + 1
    BY <1>1, SubSeqProperties
  <1>3. Len(<<>>) = 0
    OBVIOUS
  <1>4. Len(SubSeq(s, i, Len(s))) # Len(<<>>)
    BY <1>1, <1>2, <1>3
  <1> QED
    BY <1>2, <1>4

\* Appending below the bound keeps type and bound.
LEMMA AppendType ==
  ASSUME NEW S, NEW s \in Seq(S), NEW e \in S, NEW bound \in Nat
  PROVE  /\ Append(s, e) \in Seq(S)
         /\ Append(s, e) # <<>>
         /\ Len(s) < bound => Len(Append(s, e)) <= bound
  <1>1. /\ Append(s, e) \in Seq(S) /\ Len(Append(s, e)) = Len(s) + 1
        /\ Len(s) \in Nat
    BY AppendProperties, LenProperties
  <1>2. Append(s, e) # <<>>
    BY AppendProperties
  <1> QED
    BY <1>1, <1>2

\* Dropping the head keeps type and bound.
LEMMA TailType ==
  ASSUME NEW S, NEW s \in Seq(S), s # <<>>, NEW bound \in Nat, Len(s) <= bound
  PROVE  /\ Head(s) \in S /\ Tail(s) \in Seq(S) /\ Len(Tail(s)) <= bound
  <1>1. /\ Head(s) \in S /\ Tail(s) \in Seq(S)
        /\ Len(Tail(s)) = Len(s) - 1 /\ Len(s) \in Nat
    BY HeadTailProperties, LenProperties
  <1> QED
    BY <1>1

\* The empty sequence has length zero and every element type.
LEMMA EmptyType == Len(<<>>) = 0 /\ \A S : <<>> \in Seq(S)
  <1>1. \A S : <<>> \in Seq(S)
    BY EmptySeq
  <1>2. Len(<<>>) = 0
    OBVIOUS
  <1> QED
    BY <1>1, <1>2

\* The bounds on the queues are positive numbers.
LEMMA Bounds == /\ MaxPending \in Nat /\ MaxRx \in Nat /\ MaxChunks \in Nat
                /\ MaxStatus \in Nat
                /\ 0 < MaxPending /\ 0 < MaxRx /\ 0 < MaxChunks /\ 0 < MaxStatus
  BY ConstantsAssumption

\* The power-save manager.
LEMMA PmStep == IInv /\ [Next]_vars => PmOK'
  <1> SUFFICES ASSUME IInv, [Next]_vars PROVE PmOK'
    OBVIOUS
  <1> USE DEF IInv, TypeOK
  <1>1. CASE PreTbtt
    BY <1>1 DEF PreTbtt, TbttWindow, PmOK, Windows
  <1>2. CASE BeaconConfig
    BY <1>2 DEF BeaconConfig, PmOK, Reasons
  <1>3. CASE AtimWindowStart
    BY <1>3 DEF AtimWindowStart, PmOK, Windows, Reasons
  <1>4. CASE AtimWindowEnd
    BY <1>4 DEF AtimWindowEnd, PsUpdate, PmOK, Windows, Reasons
  <1>5. CASE SoftBeaconTx
    BY <1>5 DEF SoftBeaconTx, PmOK
  <1>6. CASE Powersave
    BY <1>6 DEF Powersave, PmOK
  <1>7. CASE PowersaveMaskClear
    BY <1>7 DEF PowersaveMaskClear, PmOK
  <1>8. CASE WriteOverride
    BY <1>8 DEF WriteOverride, PmOK, LoopOK, Reasons
  <1>9. CASE UNCHANGED pm
    BY <1>9 DEF PmOK, pm
  <1>10. Loop => Powersave \/ PowersaveMaskClear \/ WriteOverride \/ UNCHANGED pm
    BY DEF Loop, EraseNodesCheck, EraseAwakeNeighbors, PowersaveCheck,
           AsyncTxCheck, FirstAtim, RememberAtimDa, FirstPkt, AsyncTx,
           AsyncTxSoftBeacon, WriteData, SendData, AppendChunk, Dequeue,
           ReadOverride, AsyncRxCheck, ProcessAtim, AddAwakeNode,
           LinkAwakeNode, RemoveRx, CreateCheck, CreateAtimPkt, pm
  <1>11. Device => PreTbtt \/ BeaconConfig \/ UNCHANGED pm
    BY DEF Device, Status, TxComp, LoseStatus, DeviceTakes, BulkOutDone,
           BulkOutError, LoseBulkOutDone, RxAtim, pm
  <1>12. Rtimer => AtimWindowStart \/ AtimWindowEnd \/ SoftBeaconTx
    BY DEF Rtimer, pm
  <1>13. ASSUME NEW d \in Receivers, EnqueueData(d)
        PROVE  UNCHANGED pm
    BY <1>13 DEF EnqueueData, pm
  <1>14. UNCHANGED vars => UNCHANGED pm
    BY DEF vars, pm
  <1> QED
    BY <1>1, <1>2, <1>3, <1>4, <1>5, <1>6, <1>7, <1>8, <1>9, <1>10, <1>11,
       <1>12, <1>13, <1>14 DEF Next

\* The requests, the wait flags and the lock.
LEMMA FlagsStep == IInv /\ [Next]_vars => FlagsOK'
  <1> SUFFICES ASSUME IInv, [Next]_vars PROVE FlagsOK'
    OBVIOUS
  <1> USE DEF IInv, TypeOK
  <1>1. CASE PreTbtt
    BY <1>1 DEF PreTbtt, TbttWindow, TbttWaits, TbttLock, FlagsOK
  <1>2. ASSUME NEW success \in BOOLEAN, TxComp(success)
        PROVE  FlagsOK'
    BY <1>2 DEF TxComp, flags, FlagsOK
  <1>3. CASE BulkOutDone
    BY <1>3 DEF BulkOutDone, flags, waits, FlagsOK
  <1>4. CASE BulkOutError
    BY <1>4 DEF BulkOutError, flags, waits, FlagsOK
  <1>5. CASE SoftBeaconTx
    BY <1>5 DEF SoftBeaconTx, waits, locks, FlagsOK
  <1>6. CASE EraseNodesCheck
    BY <1>6 DEF EraseNodesCheck, waits, locks, FlagsOK
  <1>7. CASE FirstAtim
    BY <1>7 DEF FirstAtim, flags, locks, FlagsOK
  <1>8. CASE FirstPkt
    BY <1>8 DEF FirstPkt, flags, locks, FlagsOK
  <1>9. CASE WriteData
    BY <1>9 DEF WriteData, flags, waits, FlagsOK
  <1>10. CASE SendData
    BY <1>10 DEF SendData, flags, waits, FlagsOK
  <1>11. CASE Dequeue
    BY <1>11 DEF Dequeue, waits, locks, FlagsOK
  <1>12. CASE CreateCheck
    BY <1>12 DEF CreateCheck, waits, locks, FlagsOK
  <1>13. CASE UNCHANGED <<flags, waits, locks>>
    BY <1>13 DEF FlagsOK, flags, waits, locks
  <1>14. Loop => EraseNodesCheck \/ FirstAtim \/ FirstPkt \/ WriteData \/ SendData
               \/ Dequeue \/ CreateCheck \/ UNCHANGED <<flags, waits, locks>>
    BY DEF Loop, EraseAwakeNeighbors, PowersaveCheck, Powersave,
           PowersaveMaskClear, AsyncTxCheck, RememberAtimDa, AsyncTx,
           AsyncTxSoftBeacon, AppendChunk, ReadOverride, WriteOverride,
           AsyncRxCheck, ProcessAtim, AddAwakeNode, LinkAwakeNode, RemoveRx,
           CreateAtimPkt, flags, waits, locks
  <1>15. Device => PreTbtt \/ (\E success \in BOOLEAN : TxComp(success)) \/
                 BulkOutDone \/ BulkOutError \/ UNCHANGED <<flags, waits, locks>>
    BY DEF Device, Status, LoseStatus, BeaconConfig, DeviceTakes,
           LoseBulkOutDone, RxAtim, flags, waits, locks
  <1>16. Rtimer => SoftBeaconTx \/ UNCHANGED <<flags, waits, locks>>
    BY DEF Rtimer, AtimWindowStart, AtimWindowEnd, flags, waits, locks
  <1>17. ASSUME NEW d \in Receivers, EnqueueData(d)
        PROVE  UNCHANGED <<flags, waits, locks>>
    BY <1>17 DEF EnqueueData, flags, waits, locks
  <1>18. UNCHANGED vars => UNCHANGED <<flags, waits, locks>>
    BY DEF vars, flags, waits, locks
  <1> QED
    BY <1>1, <1>2, <1>3, <1>4, <1>5, <1>6, <1>7, <1>8, <1>9, <1>10, <1>11,
       <1>12, <1>13, <1>14, <1>15, <1>16, <1>17, <1>18 DEF Next

\* The list of awake neighbours.
LEMMA PeersStep == IInv /\ [Next]_vars => PeersOK'
  <1> SUFFICES ASSUME IInv, [Next]_vars PROVE PeersOK'
    OBVIOUS
  <1> USE DEF IInv, TypeOK
  <1>1. ASSUME NEW success \in BOOLEAN, TxComp(success)
        PROVE  PeersOK'
    BY <1>1 DEF TxComp, HandleAtimStatus, peers, PeersOK, Addr
  <1>2. CASE EraseAwakeNeighbors
    BY <1>2 DEF EraseAwakeNeighbors, PeersOK
  <1>3. CASE RememberAtimDa
    BY <1>3, HeadTailProperties DEF RememberAtimDa, PeersOK, QueuesOK,
           FrameQueued, Sending
  <1>4. CASE LinkAwakeNode
    BY <1>4, HeadTailProperties DEF LinkAwakeNode, PeersOK, LoopOK, QueuesOK,
           FrameQueued, Receiving, Addr, Dest, peers
  <1>5. CASE UNCHANGED peers
    BY <1>5 DEF PeersOK, peers
  <1>6. Loop => EraseAwakeNeighbors \/ RememberAtimDa \/ LinkAwakeNode \/
               UNCHANGED peers
    BY DEF Loop, EraseNodesCheck, PowersaveCheck, Powersave,
           PowersaveMaskClear, AsyncTxCheck, FirstAtim, FirstPkt, AsyncTx,
           AsyncTxSoftBeacon, WriteData, SendData, AppendChunk, Dequeue,
           ReadOverride, WriteOverride, AsyncRxCheck, ProcessAtim,
           AddAwakeNode, RemoveRx, CreateCheck, CreateAtimPkt, peers
  <1>7. Device => (\E success \in BOOLEAN : TxComp(success)) \/ UNCHANGED peers
    BY DEF Device, Status, PreTbtt, LoseStatus, BeaconConfig, DeviceTakes,
           BulkOutDone, BulkOutError, LoseBulkOutDone, RxAtim, peers
  <1>8. Rtimer => UNCHANGED peers
    BY DEF Rtimer, AtimWindowStart, AtimWindowEnd, SoftBeaconTx, peers
  <1>9. ASSUME NEW d \in Receivers, EnqueueData(d)
        PROVE  UNCHANGED peers
    BY <1>9 DEF EnqueueData, peers
  <1>10. UNCHANGED vars => UNCHANGED peers
    BY DEF vars, peers
  <1> QED
    BY <1>1, <1>2, <1>3, <1>4, <1>5, <1>6, <1>7, <1>8, <1>9, <1>10 DEF Next

\* The queues keep to their capacity.
LEMMA QueuesStep == IInv /\ [Next]_vars => QueuesOK'
  <1> SUFFICES ASSUME IInv, [Next]_vars PROVE QueuesOK'
    OBVIOUS
  <1> USE DEF IInv, TypeOK
  <1>1. CASE FirstAtim
    <2>1. UNCHANGED <<tx_pending_pkts, rx_pending_pkts>>
      BY <1>1 DEF FirstAtim
    <2>2. ASSUME NEW i \in DOMAIN tx_pending_atims,
                 tx_pending_atims' =
                   SubSeq(tx_pending_atims, i, Len(tx_pending_atims))
          PROVE  /\ tx_pending_atims' \in Seq(Addr)
                 /\ Len(tx_pending_atims') <= MaxPending
      <3>1. /\ i \in 1 .. Len(tx_pending_atims) /\ Len(tx_pending_atims) \in Nat
            /\ tx_pending_atims \in Seq(Addr)
        BY <2>2, LenProperties DEF QueuesOK
      <3>2. /\ tx_pending_atims' \in Seq(Addr)
            /\ Len(tx_pending_atims') = Len(tx_pending_atims) - i + 1
        BY <2>2, <3>1, SuffixType
      <3> QED
        BY <3>1, <3>2, Bounds DEF QueuesOK
    <2>3. CASE tx_pending_atims' = <<>>
      BY <2>1, <2>3, Bounds, EmptySeq DEF QueuesOK
    <2>4. CASE ~(Len(tx_pending_atims) < 2) /\ tx_pending_atims' = <<NoNode>>
      <3>1. NoNode \in Addr /\ Len(<<NoNode>>) = 1
        BY DEF Addr
      <3> QED
        BY <2>1, <2>4, <3>1, Bounds, LenProperties DEF QueuesOK
    <2>5. \/ \E i \in DOMAIN tx_pending_atims :
               tx_pending_atims' =
                 SubSeq(tx_pending_atims, i, Len(tx_pending_atims))
          \/ tx_pending_atims' = <<>>
          \/ ~(Len(tx_pending_atims) < 2) /\ tx_pending_atims' = <<NoNode>>
      BY <1>1 DEF FirstAtim
    <2> QED
      BY <2>1, <2>2, <2>3, <2>4, <2>5 DEF QueuesOK
  <1>2. CASE FirstPkt
    <2>1. UNCHANGED <<tx_pending_atims, rx_pending_pkts>>
      BY <1>2 DEF FirstPkt
    <2>2. ASSUME NEW i \in DOMAIN tx_pending_pkts,
                 tx_pending_pkts' = MoveToFront(tx_pending_pkts, i)
          PROVE  /\ tx_pending_pkts' \in Seq(Dest)
                 /\ Len(tx_pending_pkts') <= MaxPending
      <3>1. i \in 1 .. Len(tx_pending_pkts) /\ tx_pending_pkts \in Seq(Dest)
        BY <2>2, LenProperties DEF QueuesOK
      <3> QED
        BY <2>2, <3>1, MoveToFrontType DEF QueuesOK
    <2>3. \/ \E i \in DOMAIN tx_pending_pkts :
               tx_pending_pkts' = MoveToFront(tx_pending_pkts, i)
          \/ UNCHANGED tx_pending_pkts
      BY <1>2 DEF FirstPkt
    <2> QED
      BY <2>1, <2>2, <2>3 DEF QueuesOK
  <1>3. CASE Dequeue
    <2>1. pc \in Sending
      BY <1>3 DEF Dequeue, Sending
    <2>2. CASE job = "ATIM" /\ tx_pending_atims' = Tail(tx_pending_atims)
      BY <1>3, <2>1, <2>2, TailType, Bounds DEF Dequeue, QueuesOK, FrameQueued
    <2>3. CASE job = "DATA" /\ tx_pending_pkts' = Tail(tx_pending_pkts)
      BY <1>3, <2>1, <2>3, TailType, Bounds DEF Dequeue, QueuesOK, FrameQueued
    <2>4. CASE UNCHANGED <<tx_pending_atims, tx_pending_pkts>>
      BY <1>3, <2>4 DEF Dequeue, QueuesOK
    <2> QED
      BY <1>3, <2>2, <2>3, <2>4 DEF Dequeue
  <1>4. CASE RemoveRx
    BY <1>4, TailType, Bounds DEF RemoveRx, QueuesOK, FrameQueued, Receiving
  <1>5. CASE CreateAtimPkt
    <2>1. UNCHANGED <<tx_pending_pkts, rx_pending_pkts>>
      BY <1>5 DEF CreateAtimPkt
    <2>2. CASE UNCHANGED tx_pending_atims
      BY <2>1, <2>2 DEF QueuesOK
    <2>3. CASE /\ ~(idx > Len(tx_pending_pkts))
               /\ ~(Len(tx_pending_atims) >= MaxPending)
               /\ tx_pending_atims' =
                    Append(tx_pending_atims, tx_pending_pkts[idx])
      <3>1. /\ Len(tx_pending_pkts) \in Nat /\ Len(tx_pending_atims) \in Nat
            /\ tx_pending_pkts \in Seq(Dest)
        BY LenProperties DEF QueuesOK
      <3>2. idx \in 1 .. Len(tx_pending_pkts)
        BY <2>3, <3>1 DEF LoopOK
      <3>3. tx_pending_pkts[idx] \in Addr
        BY <3>1, <3>2, ElementOfSeq DEF Addr
      <3>4. Len(tx_pending_atims) < MaxPending
        BY <2>3, <3>1, Bounds
      <3> QED
        BY <2>1, <2>3, <3>3, <3>4, AppendType, Bounds DEF QueuesOK
    <2> QED
      BY <1>5, <2>2, <2>3 DEF CreateAtimPkt
  <1>6. ASSUME NEW n \in Nodes, RxAtim(n)
        PROVE  QueuesOK'
    BY <1>6, AppendType, Bounds DEF RxAtim, QueuesOK
  <1>7. ASSUME NEW d \in Receivers, EnqueueData(d)
        PROVE  QueuesOK'
    <2>1. d \in Dest
      BY ConstantsAssumption DEF Dest
    <2> QED
      BY <1>7, <2>1, AppendType, Bounds DEF EnqueueData, QueuesOK
  <1>8. CASE UNCHANGED queues
    BY <1>8 DEF QueuesOK, queues
  <1>9. Loop => FirstAtim \/ FirstPkt \/ Dequeue \/ RemoveRx \/ CreateAtimPkt \/
               UNCHANGED queues
    BY DEF Loop, EraseNodesCheck, EraseAwakeNeighbors, PowersaveCheck,
           Powersave, PowersaveMaskClear, AsyncTxCheck, RememberAtimDa,
           AsyncTx, AsyncTxSoftBeacon, WriteData, SendData, AppendChunk,
           ReadOverride, WriteOverride, AsyncRxCheck, ProcessAtim,
           AddAwakeNode, LinkAwakeNode, CreateCheck, queues
  <1>10. Device => (\E n \in Nodes : RxAtim(n)) \/ UNCHANGED queues
    BY DEF Device, Status, PreTbtt, TxComp, LoseStatus, BeaconConfig,
           DeviceTakes, BulkOutDone, BulkOutError, LoseBulkOutDone, queues
  <1>11. Rtimer => UNCHANGED queues
    BY DEF Rtimer, AtimWindowStart, AtimWindowEnd, SoftBeaconTx, queues
  <1>12. UNCHANGED vars => UNCHANGED queues
    BY DEF vars, queues
  <1> QED
    BY <1>1, <1>2, <1>3, <1>4, <1>5, <1>6, <1>7, <1>8, <1>9, <1>10, <1>11,
       <1>12 DEF Next

\* The device takes over what was on the endpoint.
LEMMA TransferType ==
  ASSUME IInv, TransferEnds
  PROVE  /\ bulk_out' = NoFrame /\ bulk_taken' = FALSE
         /\ device' \in Seq(Frame) /\ Len(device') <= MaxStatus
  <1>1. device \in Seq(Frame) /\ Len(device) \in Nat /\ Len(device) <= MaxStatus
    BY LenProperties DEF IInv, TypeOK, UsbOK
  <1>2. bulk_out \in Frame
    BY DEF IInv, TypeOK, UsbOK, TransferEnds
  <1>3. CASE UNCHANGED device
    BY <1>1, <1>3 DEF TransferEnds
  <1>4. CASE Len(device) < MaxStatus /\ device' = Append(device, bulk_out)
    BY <1>1, <1>2, <1>4, AppendType, Bounds DEF TransferEnds
  <1>5. \/ UNCHANGED device
        \/ ~(Len(device) >= MaxStatus) /\ device' = Append(device, bulk_out)
    BY DEF TransferEnds
  <1>6. \/ UNCHANGED device
        \/ Len(device) < MaxStatus /\ device' = Append(device, bulk_out)
    BY <1>1, <1>5, Bounds
  <1> QED
    BY <1>3, <1>4, <1>6

\* The frame the main loop hands down is one.
LEMMA JobFrameType ==
  ASSUME IInv, pc \in {"write", "send", "append"}
  PROVE  JobFrame \in Frame
  <1>1. job \in Kinds
    BY DEF IInv, TypeOK, LoopOK, FrameQueued, Sending
  <1>2. job = "ATIM" => Head(tx_pending_atims) \in Addr
    BY HeadTailProperties
       DEF IInv, TypeOK, QueuesOK, FrameQueued, Sending
  <1>3. job = "DATA" => Head(tx_pending_pkts) \in Dest
    BY HeadTailProperties
       DEF IInv, TypeOK, QueuesOK, FrameQueued, Sending
  <1> QED
    BY <1>1, <1>2, <1>3 DEF JobFrame, Frame, Addr, Dest

\* The bulk-out path holds frames, within the bounds of the model.
LEMMA UsbStep == IInv /\ [Next]_vars => UsbOK'
  <1> SUFFICES ASSUME IInv, [Next]_vars PROVE UsbOK'
    OBVIOUS
  <1> USE DEF IInv, TypeOK
  <1>1. CASE PreTbtt
    <2>1. UNCHANGED usb
      BY <1>1 DEF PreTbtt
    <2>2. Len(device) \in Nat /\ DOMAIN device = 1 .. Len(device)
      BY LenProperties DEF UsbOK
    <2>3. device' = [i \in 1 .. Len(device) |-> Stale(device[i])]
      BY <1>1, <2>2 DEF PreTbtt
    <2>4. \A i \in 1 .. Len(device) : Stale(device[i]) \in Frame
      <3> SUFFICES ASSUME NEW i \in 1 .. Len(device)
                   PROVE  Stale(device[i]) \in Frame
        OBVIOUS
      <3>1. device[i] \in Frame
        BY ElementOfSeq DEF UsbOK
      <3> QED
        BY <3>1 DEF Stale, Frame
    <2>5. device' \in Seq(Frame) /\ Len(device') = Len(device)
      BY <2>2, <2>3, <2>4
    <2> QED
      BY <2>1, <2>5 DEF UsbOK, usb
  <1>2. ASSUME NEW success \in BOOLEAN, TxComp(success)
        PROVE  UsbOK'
    BY <1>2, TailType, Bounds DEF TxComp, usb, UsbOK
  <1>3. CASE LoseStatus
    BY <1>3, TailType, Bounds DEF LoseStatus, usb, UsbOK
  <1>4. CASE DeviceTakes
    <2>1. bulk_out \in Frame
      BY <1>4 DEF DeviceTakes, UsbOK
    <2> QED
      BY <1>4, <2>1, AppendType, Bounds DEF DeviceTakes, UsbOK
  <1>5. CASE BulkOutDone
    <2>1. /\ bulk_out' = NoFrame /\ bulk_taken' = FALSE
          /\ device' \in Seq(Frame) /\ Len(device') <= MaxStatus
      BY <1>5, TransferType DEF BulkOutDone
    <2>2. CASE tx_chunks = <<>> \/ tx_buffer = NoFrame
      <3>1. tx_buffer' = NoFrame /\ UNCHANGED tx_chunks
        BY <1>5, <2>2 DEF BulkOutDone
      <3> QED
        BY <2>1, <3>1 DEF UsbOK
    <2>3. CASE ~(tx_chunks = <<>> \/ tx_buffer = NoFrame)
      <3>1. tx_buffer' = Head(tx_chunks) /\ tx_chunks' = Tail(tx_chunks)
        BY <1>5, <2>3 DEF BulkOutDone
      <3> QED
        BY <2>1, <2>3, <3>1, TailType, Bounds DEF UsbOK
    <2> QED
      BY <2>2, <2>3
  <1>6. CASE BulkOutError
    <2>1. bulk_out' = NoFrame
      BY <1>6 DEF BulkOutError
    <2>2. UNCHANGED <<tx_buffer, tx_chunks, bulk_taken, device>>
      BY <1>6 DEF BulkOutError
    <2> QED
      BY <2>1, <2>2 DEF UsbOK
  <1>7. CASE LoseBulkOutDone
    <2>1. /\ bulk_out' = NoFrame /\ bulk_taken' = FALSE
          /\ device' \in Seq(Frame) /\ Len(device') <= MaxStatus
      BY <1>7, TransferType DEF LoseBulkOutDone
    <2>2. UNCHANGED <<tx_buffer, tx_chunks>>
      BY <1>7 DEF LoseBulkOutDone
    <2> QED
      BY <2>1, <2>2 DEF UsbOK
  <1>8. CASE WriteData
    BY <1>8, JobFrameType DEF WriteData, UsbOK
  <1>9. CASE SendData
    BY <1>9, JobFrameType DEF SendData, UsbOK
  <1>10. CASE AppendChunk
    BY <1>10, JobFrameType, AppendType, Bounds DEF AppendChunk, usb, UsbOK
  <1>11. CASE UNCHANGED <<usb, device>>
    BY <1>11 DEF UsbOK, usb
  <1>12. Loop => WriteData \/ SendData \/ AppendChunk \/ UNCHANGED <<usb, device>>
    BY DEF Loop, EraseNodesCheck, EraseAwakeNeighbors, PowersaveCheck,
           Powersave, PowersaveMaskClear, AsyncTxCheck, FirstAtim,
           RememberAtimDa, FirstPkt, AsyncTx, AsyncTxSoftBeacon, Dequeue,
           ReadOverride, WriteOverride, AsyncRxCheck, ProcessAtim,
           AddAwakeNode, LinkAwakeNode, RemoveRx, CreateCheck, CreateAtimPkt,
           usb
  <1>13. Device => PreTbtt \/ (\E success \in BOOLEAN : TxComp(success)) \/
                 LoseStatus \/ DeviceTakes \/ BulkOutDone \/ BulkOutError \/
                 LoseBulkOutDone \/ UNCHANGED <<usb, device>>
    BY DEF Device, Status, BeaconConfig, RxAtim, usb
  <1>14. Rtimer => UNCHANGED <<usb, device>>
    BY DEF Rtimer, AtimWindowStart, AtimWindowEnd, SoftBeaconTx, usb
  <1>15. ASSUME NEW d \in Receivers, EnqueueData(d)
        PROVE  UNCHANGED <<usb, device>>
    BY <1>15 DEF EnqueueData, usb
  <1>16. UNCHANGED vars => UNCHANGED <<usb, device>>
    BY DEF vars, usb
  <1> QED
    BY <1>1, <1>2, <1>3, <1>4, <1>5, <1>6, <1>7, <1>8, <1>9, <1>10, <1>11,
       <1>12, <1>13, <1>14, <1>15, <1>16 DEF Next

\* The steps of the main loop.
LEMMA LoopStep == IInv /\ [Next]_vars => LoopOK'
  <1> SUFFICES ASSUME IInv, [Next]_vars PROVE LoopOK'
    OBVIOUS
  <1> USE DEF IInv, TypeOK
  <1>1. CASE EraseNodesCheck
    BY <1>1 DEF EraseNodesCheck, LoopOK, Steps, Goto
  <1>2. CASE EraseAwakeNeighbors
    BY <1>2 DEF EraseAwakeNeighbors, LoopOK, Steps, Goto
  <1>3. CASE PowersaveCheck
    BY <1>3 DEF PowersaveCheck, LoopOK, Steps, Goto, PmOK
  <1>4. CASE Powersave
    BY <1>4 DEF Powersave, LoopOK, Steps, Goto
  <1>5. CASE PowersaveMaskClear
    BY <1>5 DEF PowersaveMaskClear, LoopOK, Steps, Goto
  <1>6. CASE AsyncTxCheck
    BY <1>6 DEF AsyncTxCheck, LoopOK, Steps, TxTurn, Kinds
  <1>7. CASE FirstAtim
    BY <1>7 DEF FirstAtim, LoopOK, Steps, Kinds
  <1>8. CASE RememberAtimDa
    BY <1>8 DEF RememberAtimDa, LoopOK, Steps, Goto
  <1>9. CASE FirstPkt
    BY <1>9 DEF FirstPkt, LoopOK, Steps, Kinds
  <1>10. CASE AsyncTx
    BY <1>10 DEF AsyncTx, LoopOK, Steps, Goto, AfterTx
  <1>11. CASE AsyncTxSoftBeacon
    BY <1>11 DEF AsyncTxSoftBeacon, LoopOK, Steps, Kinds
  <1>12. CASE WriteData
    BY <1>12 DEF WriteData, LoopOK, Steps, Goto
  <1>13. CASE SendData
    BY <1>13 DEF SendData, LoopOK, Steps, Goto
  <1>14. CASE AppendChunk
    BY <1>14 DEF AppendChunk, LoopOK, Steps, Goto
  <1>15. CASE Dequeue
    BY <1>15 DEF Dequeue, LoopOK, Steps, Goto, AfterTx
  <1>16. CASE ReadOverride
    BY <1>16 DEF ReadOverride, LoopOK, Steps, PmOK, PeersOK
  <1>17. CASE WriteOverride
    BY <1>17 DEF WriteOverride, LoopOK, Steps
  <1>18. CASE AsyncRxCheck
    BY <1>18 DEF AsyncRxCheck, LoopOK, Steps
  <1>19. CASE ProcessAtim
    BY <1>19 DEF ProcessAtim, LoopOK, Steps, Goto
  <1>20. CASE AddAwakeNode
    BY <1>20 DEF AddAwakeNode, LoopOK, Steps, PmOK, PeersOK
  <1>21. CASE LinkAwakeNode
    BY <1>21 DEF LinkAwakeNode, LoopOK, Steps
  <1>22. CASE RemoveRx
    BY <1>22 DEF RemoveRx, LoopOK, Steps, Goto
  <1>23. CASE CreateCheck
    BY <1>23 DEF CreateCheck, LoopOK, Steps, Goto
  <1>24. CASE CreateAtimPkt
    BY <1>24 DEF CreateAtimPkt, LoopOK, Steps
  <1>25. CASE UNCHANGED loop
    BY <1>25 DEF LoopOK, loop
  <1>26. Loop => EraseNodesCheck \/ EraseAwakeNeighbors \/ PowersaveCheck \/
               Powersave \/ PowersaveMaskClear \/ AsyncTxCheck \/ FirstAtim \/
               RememberAtimDa \/ FirstPkt \/ AsyncTx \/ AsyncTxSoftBeacon \/
               WriteData \/ SendData \/ AppendChunk \/ Dequeue \/ ReadOverride \/
               WriteOverride \/ AsyncRxCheck \/ ProcessAtim \/ AddAwakeNode \/
               LinkAwakeNode \/ RemoveRx \/ CreateCheck \/ CreateAtimPkt
    BY DEF Loop, Goto, loop
  <1>27. Device => UNCHANGED loop
    BY DEF Device, Status, PreTbtt, TxComp, LoseStatus, BeaconConfig,
           DeviceTakes, BulkOutDone, BulkOutError, LoseBulkOutDone, RxAtim,
           loop
  <1>28. Rtimer => UNCHANGED loop
    BY DEF Rtimer, AtimWindowStart, AtimWindowEnd, SoftBeaconTx, loop
  <1>29. ASSUME NEW d \in Receivers, EnqueueData(d)
        PROVE  UNCHANGED loop
    BY <1>29 DEF EnqueueData, loop
  <1>30. UNCHANGED vars => UNCHANGED loop
    BY DEF vars, loop
  <1> QED
    BY <1>1, <1>2, <1>3, <1>4, <1>5, <1>6, <1>7, <1>8, <1>9, <1>10, <1>11,
       <1>12, <1>13, <1>14, <1>15, <1>16, <1>17, <1>18, <1>19, <1>20, <1>21,
       <1>22, <1>23, <1>24, <1>25, <1>26, <1>27, <1>28, <1>29, <1>30 DEF Next

\* No interrupt takes away the frame the main loop is busy with.
LEMMA FrameQueuedStep == IInv /\ [Next]_vars => FrameQueued'
  <1> SUFFICES ASSUME IInv, [Next]_vars PROVE FrameQueued'
    OBVIOUS
  <1> USE DEF IInv, TypeOK
  <1>1. CASE EraseNodesCheck
    BY <1>1 DEF EraseNodesCheck, FrameQueued, Sending, Receiving, Goto, queues
  <1>2. CASE EraseAwakeNeighbors
    BY <1>2 DEF EraseAwakeNeighbors, FrameQueued, Sending, Receiving, Goto,
           queues
  <1>3. CASE PowersaveCheck
    BY <1>3 DEF PowersaveCheck, FrameQueued, Sending, Receiving, Goto, PmOK,
           queues
  <1>4. CASE Powersave
    BY <1>4 DEF Powersave, FrameQueued, Sending, Receiving, Goto, queues
  <1>5. CASE PowersaveMaskClear
    BY <1>5 DEF PowersaveMaskClear, FrameQueued, Sending, Receiving, Goto, queues
  <1>6. CASE AsyncTxCheck
    BY <1>6 DEF AsyncTxCheck, FrameQueued, Sending, Receiving, TxTurn, queues
  <1>7. CASE FirstAtim
    BY <1>7, SuffixType, LenProperties DEF FirstAtim, FrameQueued, Sending,
           Receiving, QueuesOK
  <1>8. CASE RememberAtimDa
    BY <1>8 DEF RememberAtimDa, FrameQueued, Sending, Receiving, Goto, queues
  <1>9. CASE FirstPkt
    BY <1>9, MoveToFrontType, LenProperties, EmptySeq DEF FirstPkt, FrameQueued,
           Sending, Receiving, QueuesOK
  <1>10. CASE AsyncTx
    BY <1>10 DEF AsyncTx, FrameQueued, Sending, Receiving, Goto, AfterTx, queues
  <1>11. CASE AsyncTxSoftBeacon
    BY <1>11 DEF AsyncTxSoftBeacon, FrameQueued, Sending, Receiving, queues
  <1>12. CASE WriteData
    BY <1>12 DEF WriteData, FrameQueued, Sending, Receiving, Goto, queues
  <1>13. CASE SendData
    BY <1>13 DEF SendData, FrameQueued, Sending, Receiving, Goto, queues
  <1>14. CASE AppendChunk
    BY <1>14 DEF AppendChunk, FrameQueued, Sending, Receiving, Goto, queues
  <1>15. CASE Dequeue
    BY <1>15 DEF Dequeue, FrameQueued, Sending, Receiving, AfterTx
  <1>16. CASE ReadOverride
    BY <1>16 DEF ReadOverride, FrameQueued, Sending, Receiving, queues
  <1>17. CASE WriteOverride
    BY <1>17 DEF WriteOverride, FrameQueued, Sending, Receiving, queues
  <1>18. CASE AsyncRxCheck
    BY <1>18 DEF AsyncRxCheck, FrameQueued, Sending, Receiving, queues
  <1>19. CASE ProcessAtim
    BY <1>19 DEF ProcessAtim, FrameQueued, Sending, Receiving, Goto, queues
  <1>20. CASE AddAwakeNode
    BY <1>20 DEF AddAwakeNode, FrameQueued, Sending, Receiving, queues
  <1>21. CASE LinkAwakeNode
    BY <1>21 DEF LinkAwakeNode, FrameQueued, Sending, Receiving, queues
  <1>22. CASE RemoveRx
    BY <1>22 DEF RemoveRx, FrameQueued, Sending, Receiving, Goto
  <1>23. CASE CreateCheck
    BY <1>23 DEF CreateCheck, FrameQueued, Sending, Receiving, Goto, queues
  <1>24. CASE CreateAtimPkt
    BY <1>24 DEF CreateAtimPkt, FrameQueued, Sending, Receiving
  <1>25. ASSUME NEW n \in Nodes, RxAtim(n)
        PROVE  FrameQueued'
    BY <1>25, EmptySeq, LenProperties DEF RxAtim, FrameQueued, Receiving,
           QueuesOK, loop
  <1>26. ASSUME NEW d \in Receivers, EnqueueData(d)
        PROVE  FrameQueued'
    BY <1>26 DEF EnqueueData, FrameQueued, Sending, Receiving, loop
  <1>27. CASE UNCHANGED <<loop, queues>>
    BY <1>27 DEF FrameQueued, loop, queues, Sending, Receiving
  <1>28. Loop => EraseNodesCheck \/ EraseAwakeNeighbors \/ PowersaveCheck \/
               Powersave \/ PowersaveMaskClear \/ AsyncTxCheck \/ FirstAtim \/
               RememberAtimDa \/ FirstPkt \/ AsyncTx \/ AsyncTxSoftBeacon \/
               WriteData \/ SendData \/ AppendChunk \/ Dequeue \/ ReadOverride \/
               WriteOverride \/ AsyncRxCheck \/ ProcessAtim \/ AddAwakeNode \/
               LinkAwakeNode \/ RemoveRx \/ CreateCheck \/ CreateAtimPkt
    BY DEF Loop, loop, queues, Sending, Receiving
  <1>29. Device => (\E n \in Nodes : RxAtim(n)) \/ UNCHANGED <<loop, queues>>
    BY DEF Device, Status, PreTbtt, TxComp, LoseStatus, BeaconConfig,
           DeviceTakes, BulkOutDone, BulkOutError, LoseBulkOutDone, loop,
           queues, Sending, Receiving
  <1>30. Rtimer => UNCHANGED <<loop, queues>>
    BY DEF Rtimer, AtimWindowStart, AtimWindowEnd, SoftBeaconTx, loop, queues,
           Sending, Receiving
  <1>31. UNCHANGED vars => UNCHANGED <<loop, queues>>
    BY DEF vars, loop, queues, Sending, Receiving
  <1> QED
    BY <1>1, <1>2, <1>3, <1>4, <1>5, <1>6, <1>7, <1>8, <1>9, <1>10, <1>11,
       <1>12, <1>13, <1>14, <1>15, <1>16, <1>17, <1>18, <1>19, <1>20, <1>21,
       <1>22, <1>23, <1>24, <1>25, <1>26, <1>27, <1>28, <1>29, <1>30, <1>31
       DEF Next

\* The queues are empty and no frame is chosen at the start.
LEMMA TypeInit == Init => IInv
  <1> SUFFICES ASSUME Init PROVE IInv
    OBVIOUS
  <1> DEFINE Fits(bound) == Len(<<>>) <= bound
  <1>0. /\ \A S : <<>> \in Seq(S)
        /\ Fits(MaxPending) /\ Fits(MaxRx) /\ Fits(MaxChunks) /\ Fits(MaxStatus)
    BY Bounds, EmptyType
  <1>1. PmOK
    BY DEF Init, PmOK, Windows
  <1>2. FlagsOK
    BY DEF Init, FlagsOK
  <1>3. PeersOK
    BY DEF Init, PeersOK, Addr
  <1>4. QueuesOK
    BY <1>0, Zenon DEF Init, QueuesOK
  <1>5. UsbOK
    BY <1>0, Zenon DEF Init, UsbOK
  <1>6. LoopOK
    BY DEF Init, LoopOK, Steps
  <1>7. FrameQueued
    BY DEF Init, FrameQueued, Sending, Receiving
  <1> QED
    BY <1>1, <1>2, <1>3, <1>4, <1>5, <1>6, <1>7 DEF IInv, TypeOK

\* The parts put together: every step keeps the types and the chosen frame.
LEMMA TypeStep == IInv /\ [Next]_vars => IInv'
  BY PmStep, FlagsStep, PeersStep, QueuesStep, UsbStep, LoopStep,
     FrameQueuedStep DEF IInv, TypeOK

\* Every variable keeps its type and every queue its capacity.
THEOREM TypeOKHolds == Spec => []TypeOK
  <1>1. IInv => TypeOK
    BY DEF IInv
  <1> QED
    BY <1>1, TypeInit, TypeStep, PTL DEF Spec

-----------------------------------------------------------------------------
(* The bulk-out buffer *)

\* Only the main loop puts a frame on the endpoint, and only where it has just
\* found tx_list empty.
LEMMA BufferStep ==
  IInv /\ BufferInFlight /\ [Next]_vars => BufferInFlight'
  <1> SUFFICES ASSUME IInv, BufferInFlight, [Next]_vars
               PROVE  BufferInFlight'
    OBVIOUS
  <1>1. CASE BulkOutDone
    BY <1>1 DEF BulkOutDone, TransferEnds, BufferInFlight, loop
  <1>2. CASE BulkOutError
    BY <1>2 DEF BulkOutError, BufferInFlight, loop
  <1>3. CASE LoseBulkOutDone
    BY <1>3 DEF LoseBulkOutDone, TransferEnds, BufferInFlight, loop
  <1>4. CASE EraseNodesCheck
    BY <1>4 DEF EraseNodesCheck, BufferInFlight, Goto, usb
  <1>5. CASE EraseAwakeNeighbors
    BY <1>5 DEF EraseAwakeNeighbors, BufferInFlight, Goto, usb
  <1>6. CASE PowersaveCheck
    BY <1>6 DEF PowersaveCheck, BufferInFlight, Goto, PmOK, IInv, TypeOK, usb
  <1>7. CASE Powersave
    BY <1>7 DEF Powersave, BufferInFlight, Goto, usb
  <1>8. CASE PowersaveMaskClear
    BY <1>8 DEF PowersaveMaskClear, BufferInFlight, Goto, usb
  <1>9. CASE AsyncTxCheck
    BY <1>9 DEF AsyncTxCheck, BufferInFlight, TxTurn, usb
  <1>10. CASE FirstAtim
    BY <1>10 DEF FirstAtim, BufferInFlight, usb
  <1>11. CASE RememberAtimDa
    BY <1>11 DEF RememberAtimDa, BufferInFlight, Goto, usb
  <1>12. CASE FirstPkt
    BY <1>12 DEF FirstPkt, BufferInFlight, usb
  <1>13. CASE AsyncTx
    BY <1>13 DEF AsyncTx, BufferInFlight, Goto, AfterTx, usb
  <1>14. CASE AsyncTxSoftBeacon
    BY <1>14 DEF AsyncTxSoftBeacon, BufferInFlight, usb
  <1>15. CASE WriteData
    <2>1. JobFrame' = JobFrame /\ UNCHANGED bulk_out
      BY <1>15 DEF WriteData, Goto, JobFrame, queues
    <2>2. CASE tx_buffer = NoFrame /\ tx_chunks = <<>>
      <3>1. tx_buffer' = JobFrame
        BY <1>15, <2>2 DEF WriteData
      <3> QED
        BY <2>1, <2>2, <3>1 DEF BufferInFlight
    <2>3. CASE ~(tx_buffer = NoFrame /\ tx_chunks = <<>>)
      <3>1. UNCHANGED tx_buffer /\ pc' # "send"
        BY <1>15, <2>3 DEF WriteData, Goto
      <3> QED
        BY <2>1, <3>1 DEF BufferInFlight
    <2> QED
      BY <2>2, <2>3
  <1>16. CASE SendData
    <2>1. JobFrame' = JobFrame /\ UNCHANGED tx_buffer /\ pc' = "dequeue"
      BY <1>16 DEF SendData, Goto, JobFrame, queues
    <2>2. tx_buffer = JobFrame /\ (bulk_out' = JobFrame \/ UNCHANGED bulk_out)
      BY <1>16 DEF SendData, BufferInFlight
    <2> QED
      BY <2>1, <2>2 DEF BufferInFlight
  <1>17. CASE AppendChunk
    BY <1>17 DEF AppendChunk, BufferInFlight, Goto, JobFrame, queues
  <1>18. CASE Dequeue
    BY <1>18 DEF Dequeue, BufferInFlight, AfterTx, usb
  <1>19. CASE ReadOverride
    BY <1>19 DEF ReadOverride, BufferInFlight, usb
  <1>20. CASE WriteOverride
    BY <1>20 DEF WriteOverride, BufferInFlight, usb
  <1>21. CASE AsyncRxCheck
    BY <1>21 DEF AsyncRxCheck, BufferInFlight, usb
  <1>22. CASE ProcessAtim
    BY <1>22 DEF ProcessAtim, BufferInFlight, Goto, usb
  <1>23. CASE AddAwakeNode
    BY <1>23 DEF AddAwakeNode, BufferInFlight, usb
  <1>24. CASE LinkAwakeNode
    BY <1>24 DEF LinkAwakeNode, BufferInFlight, usb
  <1>25. CASE RemoveRx
    BY <1>25 DEF RemoveRx, BufferInFlight, Goto, usb
  <1>26. CASE CreateCheck
    BY <1>26 DEF CreateCheck, BufferInFlight, Goto, usb
  <1>27. CASE CreateAtimPkt
    BY <1>27 DEF CreateAtimPkt, BufferInFlight, usb
  <1>28. ASSUME NEW n \in Nodes, RxAtim(n)
        PROVE  BufferInFlight'
    BY <1>28 DEF RxAtim, BufferInFlight, JobFrame, usb, loop
  <1>29. ASSUME NEW d \in Receivers, EnqueueData(d)
        PROVE  BufferInFlight'
    BY <1>29 DEF EnqueueData, BufferInFlight, usb, loop
  <1>30. CASE DeviceTakes
    BY <1>30 DEF DeviceTakes, BufferInFlight, JobFrame, loop, queues
  <1>31. CASE UNCHANGED <<bulk_out, tx_buffer, loop, queues>>
    BY <1>31 DEF BufferInFlight, loop, queues, usb, JobFrame
  <1>32. Loop => EraseNodesCheck \/ EraseAwakeNeighbors \/ PowersaveCheck \/
               Powersave \/ PowersaveMaskClear \/ AsyncTxCheck \/ FirstAtim \/
               RememberAtimDa \/ FirstPkt \/ AsyncTx \/ AsyncTxSoftBeacon \/
               WriteData \/ SendData \/ AppendChunk \/ Dequeue \/ ReadOverride \/
               WriteOverride \/ AsyncRxCheck \/ ProcessAtim \/ AddAwakeNode \/
               LinkAwakeNode \/ RemoveRx \/ CreateCheck \/ CreateAtimPkt
    BY DEF Loop, loop, queues, usb, JobFrame
  <1>33. Device => DeviceTakes \/ BulkOutDone \/ BulkOutError \/ LoseBulkOutDone \/
                 (\E n \in Nodes : RxAtim(n)) \/
                 UNCHANGED <<bulk_out, tx_buffer, loop, queues>>
    BY DEF Device, Status, PreTbtt, TxComp, LoseStatus, BeaconConfig, loop,
           queues, usb, JobFrame
  <1>34. Rtimer => UNCHANGED <<bulk_out, tx_buffer, loop, queues>>
    BY DEF Rtimer, AtimWindowStart, AtimWindowEnd, SoftBeaconTx, loop, queues,
           usb, JobFrame
  <1>35. UNCHANGED vars => UNCHANGED <<bulk_out, tx_buffer, loop, queues>>
    BY DEF vars, loop, queues, usb, JobFrame
  <1> QED
    BY <1>1, <1>2, <1>3, <1>4, <1>5, <1>6, <1>7, <1>8, <1>9, <1>10, <1>11,
       <1>12, <1>13, <1>14, <1>15, <1>16, <1>17, <1>18, <1>19, <1>20, <1>21,
       <1>22, <1>23, <1>24, <1>25, <1>26, <1>27, <1>28, <1>29, <1>30, <1>31,
       <1>32, <1>33, <1>34, <1>35 DEF Next

\* The buffer at the head of tx_list is the frame on the endpoint, and the
\* endpoint is idle whenever a transfer is started, whichever callbacks are
\* lost, late or failed: the callback frees the right buffer
\* (usb_wrapper.c:506-573, 576-663).
THEOREM BufferInFlightHolds == Spec => []BufferInFlight
  <1>1. Init => IInv /\ BufferInFlight
    BY TypeInit DEF Init, BufferInFlight
  <1>2. IInv /\ BufferInFlight /\ [Next]_vars => (IInv /\ BufferInFlight)'
    BY TypeStep, BufferStep
  <1> QED
    BY <1>1, <1>2, PTL DEF Spec

-----------------------------------------------------------------------------
(* The driver as a station of BeaconCycle *)

InTime == "SlowLoop" \notin Faults

\* What the steps of the loop rely on, beyond types and the window timer: a
\* late loop aside, requests are served in the window they were made in; what
\* was read before an interruptible write is still part of what it overwrites;
\* nothing is sent between a doze request and the doze; without power-save
\* mode there are no windows.
CInv ==
    /\ InTime => (DozePending => psm_state = "TX")
    /\ InTime => (erase_awake_nodes_flag \/ pc = "erase_do"
                    => psm_state = "PRE_TBTT")
    /\ InTime => ~(erase_awake_nodes_flag /\ pc = "erase_do")
    /\ InTime => (pc \in {"override_set", "rx_override_set"}
                    => seen_override \subseteq off_override)
    /\ pc = "rx_awake_set" => seen_awake \subseteq wake_neighbors
    /\ DozePending => psm_transit_to_sleep
    /\ ~ConfPs => psm_state = "TX"

\* None of this is at stake at the start.
LEMMA CInvInit == Init => CInv
  BY DEF Init, CInv, DozePending

\* Every step keeps it.
LEMMA CInvStep == IInv /\ WindowTimer /\ CInv /\ [Next]_vars => CInv'
  <1> SUFFICES ASSUME IInv, WindowTimer, CInv, [Next]_vars PROVE CInv'
    OBVIOUS
  <1> USE DEF CInv, DozePending, InTime
  <1>1. CASE PreTbtt
    BY <1>1 DEF PreTbtt, TbttExpected, CaughtUp, TbttWindow, TbttWaits,
                TbttLock, peers, loop
  <1>2. CASE BeaconConfig
    BY <1>2 DEF BeaconConfig, flags, peers, loop
  <1>3. ASSUME NEW success \in BOOLEAN, TxComp(success) PROVE CInv'
    BY <1>3 DEF TxComp, HandleAtimStatus, pm, flags, peers, loop
  <1>4. CASE AtimWindowStart
    BY <1>4 DEF AtimWindowStart, WindowTimer, flags, peers, loop
  <1>5. CASE AtimWindowEnd
    BY <1>5 DEF AtimWindowEnd, PsUpdate, WindowTimer, flags, peers, loop
  <1>6. CASE SoftBeaconTx
    BY <1>6 DEF SoftBeaconTx, peers, loop
  <1>7. CASE LoseStatus \/ DeviceTakes \/ BulkOutDone \/ BulkOutError
             \/ LoseBulkOutDone \/ \E n \in Nodes : RxAtim(n)
    BY <1>7 DEF LoseStatus, DeviceTakes, BulkOutDone, BulkOutError,
                LoseBulkOutDone, TransferEnds, RxAtim, pm, flags, peers, loop
  <1>8. CASE \E d \in Receivers : EnqueueData(d)
    BY <1>8 DEF EnqueueData, pm, flags, peers, loop
  <1>9. CASE Loop
    <2>1. CASE EraseNodesCheck \/ EraseAwakeNeighbors
      BY <2>1 DEF EraseNodesCheck, EraseAwakeNeighbors, Goto, pm, flags, peers
    <2>2. CASE PowersaveCheck \/ Powersave \/ PowersaveMaskClear
      BY <2>2 DEF PowersaveCheck, Powersave, PowersaveMaskClear, Goto, pm,
                  flags, peers, IInv, TypeOK, PmOK
    <2>3. CASE ReadOverride \/ WriteOverride
      BY <2>3 DEF ReadOverride, WriteOverride, pm, flags, peers
    <2>4. CASE AddAwakeNode \/ LinkAwakeNode
      BY <2>4 DEF AddAwakeNode, LinkAwakeNode, pm, flags, peers
    <2>5. CASE AsyncTxCheck \/ FirstAtim \/ FirstPkt \/ AsyncTxSoftBeacon
      BY <2>5 DEF AsyncTxCheck, TxTurn, FirstAtim, FirstPkt, AsyncTxSoftBeacon,
                  pm, flags, peers
    <2>6. CASE RememberAtimDa \/ AsyncTx \/ WriteData \/ SendData \/ AppendChunk
      BY <2>6 DEF RememberAtimDa, AsyncTx, AfterTx, WriteData, SendData,
                  AppendChunk, Goto, pm, flags, peers
    <2>7. CASE Dequeue
      BY <2>7 DEF Dequeue, AfterTx, pm, flags, peers
    <2>8. CASE AsyncRxCheck \/ ProcessAtim \/ RemoveRx \/ CreateCheck
               \/ CreateAtimPkt
      BY <2>8 DEF AsyncRxCheck, ProcessAtim, RemoveRx, CreateCheck,
                  CreateAtimPkt, Goto, pm, flags, peers
    <2> QED
      BY <1>9, <2>1, <2>2, <2>3, <2>4, <2>5, <2>6, <2>7, <2>8 DEF Loop
  <1>10. CASE UNCHANGED vars
    BY <1>10 DEF vars, pm, flags, peers, loop
  <1> QED
    BY <1>1, <1>2, <1>3, <1>4, <1>5, <1>6, <1>7, <1>8, <1>9, <1>10
       DEF Next, Device, Status, Rtimer

-----------------------------------------------------------------------------
(* The step simulation, action by action *)

\* The timer interrupts.
LEMMA TbttSimulated ==
  ASSUME IInv, WindowTimer, CInv, PreTbtt PROVE Cycle!Tbtt("self")
  <1>1. UNCHANGED <<HandedDown, CurrentWork, wake_neighbors>>
    BY DEF PreTbtt, HandedDown, CurrentWork, JobFrame, peers, queues, usb, loop
  <1>2. DozePending' = DozePending
    BY DEF PreTbtt, TbttWindow, DozePending, loop
  <1>3. ConfPs => /\ psm_state' = "PRE_TBTT" /\ off_override' = {}
                  /\ ListStale' = TRUE
    BY DEF PreTbtt, TbttWindow, ListStale
  <1>4. ~ConfPs => UNCHANGED <<psm_state, off_override, ListStale>>
    BY DEF PreTbtt, TbttWindow, ListStale, loop
  <1>5. ps_state' = FALSE
    BY DEF PreTbtt, TbttWindow
  <1>6. InTime => ~DozePending /\ ~ListStale /\ CurrentWork.kind # "ATIM"
    BY DEF PreTbtt, TbttExpected, CaughtUp, DozePending, ListStale, CurrentWork,
           Busy, InTime
  <1> QED
    BY <1>1, <1>2, <1>3, <1>4, <1>5, <1>6
       DEF Cycle!Tbtt, Cycle!frames, One, InTime

LEMMA BeaconConfigSimulated ==
  ASSUME BeaconConfig PROVE Cycle!StayAwake("self", "BCN", off_override)
  <1>1. UNCHANGED <<psm_state, DozePending, ps_state, ListStale, wake_neighbors,
                    CurrentWork, HandedDown>>
    BY DEF BeaconConfig, DozePending, ListStale, HandedDown, CurrentWork,
           JobFrame, flags, peers, queues, usb, loop
  <1>2. off_override' = off_override \cup {"BCN"}
    BY DEF BeaconConfig
  <1> QED
    BY <1>1, <1>2 DEF Cycle!StayAwake, Cycle!belief, Cycle!frames, One

LEMMA AtimWindowStartSimulated ==
  ASSUME WindowTimer, AtimWindowStart
  PROVE  Cycle!OpenAtim("self", tx_pending_pkts # <<>>)
  <1>1. UNCHANGED <<DozePending, ps_state, ListStale, wake_neighbors,
                    CurrentWork, HandedDown>>
    BY DEF AtimWindowStart, DozePending, ListStale, HandedDown, CurrentWork,
           JobFrame, flags, peers, queues, usb, loop
  <1>2. psm_state = "PRE_TBTT" /\ psm_state' = "ATIM"
    BY DEF AtimWindowStart, WindowTimer
  <1>3. off_override' = IF tx_pending_pkts # <<>>
                        THEN off_override \cup {"DATA"} ELSE off_override
    BY DEF AtimWindowStart
  <1>4. InTime => ~ListStale
    BY DEF AtimWindowStart, ListStale, InTime
  <1> QED
    BY <1>1, <1>2, <1>3, <1>4
       DEF Cycle!OpenAtim, Cycle!belief, Cycle!frames, One, InTime

LEMMA AtimWindowEndSimulated ==
  ASSUME WindowTimer, AtimWindowEnd
  PROVE  /\ Cycle!CloseAtim("self", psm_state', DozePending')
         /\ psm_state' \in Cycle!Windows
  <1>1. UNCHANGED <<off_override, ps_state, ListStale, wake_neighbors,
                    CurrentWork, HandedDown>>
    BY DEF AtimWindowEnd, ListStale, HandedDown, CurrentWork, JobFrame, flags,
           peers, queues, usb, loop
  <1>2. psm_state = "ATIM" /\ psm_state' \in {"TX", "SOFT_BCN"}
    BY DEF AtimWindowEnd, WindowTimer
  <1>3. psm_state' = "SOFT_BCN" => off_override = {"BCN"}
    BY DEF AtimWindowEnd
  <1>4. DozePending' => off_override = {} \/ DozePending
    BY DEF AtimWindowEnd, PsUpdate, DozePending, loop
  <1> QED
    BY <1>1, <1>2, <1>3, <1>4
       DEF Cycle!CloseAtim, Cycle!belief, Cycle!frames, Cycle!Windows, One

\* A status may add a neighbour, the end of a transfer frees the endpoint.
LEMMA TxCompSimulated ==
  ASSUME NEW success \in BOOLEAN, TxComp(success)
  PROVE  \/ Cycle!Hear("self", last_ATIM_DA, wake_neighbors)
         \/ UNCHANGED Cycle!cycle
  <1>1. UNCHANGED <<psm_state, off_override, DozePending, ps_state, ListStale,
                    CurrentWork, HandedDown>>
    BY DEF TxComp, DozePending, ListStale, HandedDown, CurrentWork, JobFrame,
           pm, flags, queues, usb, loop
  <1>2. wake_neighbors' \in {wake_neighbors, wake_neighbors \cup {last_ATIM_DA}}
    BY DEF TxComp, HandleAtimStatus, peers
  <1> QED
    BY <1>1, <1>2 DEF Cycle!Hear, Cycle!cycle, Cycle!power, Cycle!belief,
                      Cycle!frames, One

LEMMA TransferEndSimulated ==
  ASSUME BulkOutDone \/ BulkOutError \/ LoseBulkOutDone
  PROVE  Cycle!Done("self")
  <1>1. UNCHANGED <<psm_state, off_override, DozePending, ps_state, ListStale,
                    CurrentWork, wake_neighbors>>
    BY DEF BulkOutDone, BulkOutError, LoseBulkOutDone, DozePending, ListStale,
           CurrentWork, JobFrame, pm, flags, peers, queues, loop
  <1>2. bulk_out' = NoFrame
    BY DEF BulkOutDone, BulkOutError, LoseBulkOutDone, TransferEnds
  <1>3. HandedDown' = Cycle!Nothing
    BY <1>2 DEF HandedDown, NoFrame, Cycle!Nothing
  <1> QED
    BY <1>1, <1>3 DEF Cycle!Done, Cycle!power, Cycle!belief, One

\* The other interrupts, and packets from above, change nothing the cycle sees.
LEMMA OthersStutter ==
  ASSUME \/ SoftBeaconTx \/ LoseStatus \/ DeviceTakes
         \/ \E n \in Nodes : RxAtim(n)
         \/ UNCHANGED vars
  PROVE  UNCHANGED Cycle!cycle
  <1>1. UNCHANGED <<psm_state, off_override, ps_state, update_mask,
                    erase_awake_nodes_flag, wake_neighbors, bulk_out,
                    tx_pending_pkts, tx_pending_atims, pc, job>>
    BY DEF SoftBeaconTx, LoseStatus, DeviceTakes, RxAtim, vars, pm, flags,
           peers, queues, usb, loop
  <1>2. UNCHANGED <<DozePending, ListStale, CurrentWork, HandedDown>>
    BY <1>1 DEF DozePending, ListStale, CurrentWork, HandedDown, JobFrame
  <1> QED
    BY <1>1, <1>2 DEF Cycle!cycle, Cycle!power, Cycle!belief, Cycle!frames, One

LEMMA EnqueueDataStutters ==
  ASSUME NEW d \in Receivers, EnqueueData(d) PROVE UNCHANGED Cycle!cycle
  <1>1. UNCHANGED <<psm_state, off_override, ps_state, wake_neighbors>>
    BY DEF EnqueueData, pm, peers
  <1>2. UNCHANGED <<DozePending, ListStale, HandedDown>>
    BY DEF EnqueueData, DozePending, ListStale, HandedDown, pm, flags, usb, loop
  <1>3. UNCHANGED CurrentWork
    BY DEF EnqueueData, CurrentWork, Busy, loop
  <1> QED
    BY <1>1, <1>2, <1>3
       DEF Cycle!cycle, Cycle!power, Cycle!belief, Cycle!frames, One

-----------------------------------------------------------------------------
(* The main loop *)

Idle == {"erase", "erase_do", "powersave", "sleep", "wake", "mask_clear", "tx",
         "append", "dequeue", "override", "override_set", "rx", "rx_atim",
         "rx_override", "rx_override_set", "rx_awake", "rx_awake_set",
         "rx_remove", "create", "create_atims"}

LEMMA IdleWork ==
  /\ pc \in Idle => CurrentWork = Cycle!Nothing
  /\ pc' \in Idle => CurrentWork' = Cycle!Nothing
  BY DEF Idle, CurrentWork, Busy, Cycle!Nothing

\* Erasing the awake list, or finding that it is too late for that.
LEMMA EraseSimulated ==
  ASSUME CInv, EraseNodesCheck \/ EraseAwakeNeighbors
  PROVE  \/ Cycle!Forget("self", ListStale') /\ ListStale' \in BOOLEAN
         \/ Cycle!SkipForget("self") \/ UNCHANGED Cycle!cycle
  <1>1. UNCHANGED <<psm_state, off_override, DozePending, ps_state, HandedDown>>
    BY DEF EraseNodesCheck, EraseAwakeNeighbors, Goto, DozePending, HandedDown,
           pm, usb
  <1>2. pc \in Idle /\ pc' \in Idle
    BY DEF EraseNodesCheck, EraseAwakeNeighbors, Goto, Idle
  <1>3. CASE EraseNodesCheck
    <2>1. wake_neighbors' = wake_neighbors
      BY <1>3 DEF EraseNodesCheck, peers
    <2>2. CASE ListStale' = ListStale
      BY <1>1, <1>2, <2>1, <2>2, IdleWork
         DEF Cycle!cycle, Cycle!power, Cycle!belief, Cycle!frames, One
    <2>3. CASE ListStale' # ListStale
      <3>1. ListStale' = FALSE /\ ~InTime
        BY <1>3, <2>3 DEF EraseNodesCheck, Goto, ListStale, CInv, pm
      <3> QED
        BY <1>1, <1>2, <2>1, <3>1, IdleWork
           DEF Cycle!SkipForget, Cycle!power, Cycle!frames, One, InTime
    <2> QED
      BY <2>2, <2>3
  <1>4. CASE EraseAwakeNeighbors
    <2>1. /\ ListStale /\ wake_neighbors' = {} /\ ListStale' \in BOOLEAN
          /\ InTime => ~ListStale'
      BY <1>4 DEF EraseAwakeNeighbors, Goto, ListStale, CInv, flags
    <2> QED
      BY <1>1, <1>2, <2>1, IdleWork
         DEF Cycle!Forget, Cycle!power, Cycle!frames, One, InTime
  <1> QED
    BY <1>3, <1>4

\* The doze decision is read, executed and cleared in three steps.
LEMMA PowersaveSimulated ==
  ASSUME IInv, CInv, PowersaveCheck \/ Powersave \/ PowersaveMaskClear
  PROVE  Cycle!Doze("self") \/ Cycle!DropDoze("self") \/ UNCHANGED Cycle!cycle
  <1>1. UNCHANGED <<psm_state, off_override, ListStale, wake_neighbors,
                    HandedDown>>
    <2>1. UNCHANGED <<psm_state, off_override, erase_awake_nodes_flag,
                      wake_neighbors, bulk_out>>
      BY DEF PowersaveCheck, Powersave, PowersaveMaskClear, pm, flags, peers, usb
    <2>2. pc # "erase_do" /\ pc' # "erase_do"
      BY DEF PowersaveCheck, Powersave, PowersaveMaskClear, Goto, IInv, TypeOK,
             PmOK
    <2> QED
      BY <2>1, <2>2 DEF ListStale, HandedDown
  <1>2. pc \in Idle /\ pc' \in Idle
    BY DEF PowersaveCheck, Powersave, PowersaveMaskClear, Goto, Idle, IInv,
           TypeOK, PmOK
  <1>3. CASE PowersaveCheck \/ PowersaveMaskClear
    <2>1. DozePending' = DozePending /\ ps_state' = ps_state
      BY <1>3 DEF PowersaveCheck, PowersaveMaskClear, Goto, DozePending, pm,
                  IInv, TypeOK, PmOK
    <2> QED
      BY <1>1, <1>2, <2>1, IdleWork
         DEF Cycle!cycle, Cycle!power, Cycle!belief, Cycle!frames, One
  <1>4. CASE Powersave
    <2>1. DozePending' = FALSE
      BY <1>4 DEF Powersave, Goto, DozePending
    <2>2. CASE pc = "sleep"
      <3>1. DozePending /\ ps_state' = TRUE /\ (InTime => psm_state = "TX")
        BY <1>4, <2>2 DEF Powersave, DozePending, CInv
      <3> QED
        BY <1>1, <1>2, <2>1, <3>1, IdleWork
           DEF Cycle!Doze, Cycle!belief, Cycle!frames, One, InTime
    <2>3. CASE pc = "wake"
      <3>1. ps_state' = ps_state
        BY <1>4, <2>3 DEF Powersave, IInv, TypeOK, PmOK
      <3> QED
        BY <1>1, <1>2, <2>1, <3>1, IdleWork
           DEF Cycle!DropDoze, Cycle!belief, Cycle!frames, One
    <2> QED
      BY <1>4, <2>2, <2>3 DEF Powersave
  <1> QED
    BY <1>3, <1>4

\* What the power-save state and the awake list see of the transmit path:
\* nothing.
TxPath == AsyncTxCheck \/ FirstAtim \/ RememberAtimDa \/ FirstPkt \/ AsyncTx
            \/ AsyncTxSoftBeacon \/ WriteData \/ SendData \/ AppendChunk
            \/ Dequeue
LEMMA TxPathLeavesPower ==
  ASSUME TxPath
  PROVE  UNCHANGED <<psm_state, off_override, DozePending, ps_state, ListStale,
                     wake_neighbors>>
  <1>1. UNCHANGED <<psm_state, off_override, ps_state, update_mask,
                    erase_awake_nodes_flag, wake_neighbors>>
    BY DEF TxPath, AsyncTxCheck, FirstAtim, RememberAtimDa, FirstPkt, AsyncTx,
           AsyncTxSoftBeacon, WriteData, SendData, AppendChunk, Dequeue, pm,
           flags, peers
  <1>2. \A step \in {pc, pc'} : step \notin {"sleep", "mask_clear", "erase_do"}
    BY DEF TxPath, AsyncTxCheck, TxTurn, FirstAtim, RememberAtimDa, FirstPkt,
           AsyncTx, AfterTx, AsyncTxSoftBeacon, WriteData, SendData,
           AppendChunk, Dequeue, Goto
  <1> QED
    BY <1>1, <1>2 DEF DozePending, ListStale

\* Turning to a queue.
LEMMA AsyncTxCheckSimulated ==
  ASSUME IInv, CInv, AsyncTxCheck
  PROVE  \/ \E kind \in Kinds : Cycle!Turn("self", kind)
         \/ \E d \in Addr : Cycle!PickAny("self", d)
         \/ UNCHANGED Cycle!cycle
  <1>1. UNCHANGED <<psm_state, off_override, DozePending, ps_state, ListStale,
                    wake_neighbors, HandedDown>>
    BY TxPathLeavesPower DEF TxPath, AsyncTxCheck, HandedDown, usb
  <1>2. CurrentWork = Cycle!Nothing
    BY IdleWork DEF AsyncTxCheck, Idle
  <1>3. CASE TxTurn = "rx"
    <2>1. CurrentWork' = Cycle!Nothing
      BY <1>3, IdleWork DEF AsyncTxCheck, Idle
    <2> QED
      BY <1>1, <1>2, <2>1
         DEF Cycle!cycle, Cycle!power, Cycle!belief, Cycle!frames, One
  <1>4. CASE TxTurn # "rx"
    <2>1. ~ps_state /\ ~DozePending
      BY <1>4 DEF TxTurn, CInv
    <2>2. ASSUME NEW kind \in Kinds, ConfPs,
                 psm_state = Cycle!WindowOf[kind],
                 CurrentWork' = [kind |-> kind, da |-> NoAddr]
          PROVE  Cycle!Turn("self", kind)
      BY <1>1, <1>2, <2>1, <2>2
         DEF Cycle!Turn, Cycle!power, Cycle!belief, One
    <2>3. CASE TxTurn = "first_atim"
      <3>1. psm_state = Cycle!WindowOf["ATIM"] /\ ConfPs /\ "ATIM" \in Kinds
        BY <2>3 DEF TxTurn, Cycle!WindowOf, Cycle!Kinds, CInv, Kinds
      <3>2. CurrentWork' = [kind |-> "ATIM", da |-> NoAddr]
        BY <2>3 DEF AsyncTxCheck, CurrentWork, Busy
      <3> QED
        BY <2>2, <3>1, <3>2
    <2>4. CASE TxTurn = "first_pkt"
      <3>1. psm_state = Cycle!WindowOf["DATA"] /\ ConfPs /\ "DATA" \in Kinds
        BY <2>4 DEF TxTurn, Cycle!WindowOf, Cycle!Kinds, Kinds
      <3>2. CurrentWork' = [kind |-> "DATA", da |-> NoAddr]
        BY <2>4 DEF AsyncTxCheck, CurrentWork, Busy
      <3> QED
        BY <2>2, <3>1, <3>2
    <2>5. CASE TxTurn = "soft_bcn"
      <3>1. psm_state = Cycle!WindowOf["BCN"] /\ ConfPs /\ "BCN" \in Kinds
        BY <2>5 DEF TxTurn, Cycle!WindowOf, Cycle!Kinds, CInv, Kinds
      <3>2. CurrentWork' = [kind |-> "BCN", da |-> NoAddr]
        BY <2>5 DEF AsyncTxCheck, CurrentWork, Busy
      <3> QED
        BY <2>2, <3>1, <3>2
    <2>6. CASE TxTurn = "async_tx"
      <3>1. psm_state = "TX" /\ ~ConfPs /\ tx_pending_pkts # <<>>
        BY <2>6 DEF TxTurn
      <3>2. Head(tx_pending_pkts) \in Addr
        BY <3>1, HeadTailProperties DEF IInv, TypeOK, QueuesOK, Addr
      <3>3. CurrentWork' = [kind |-> "DATA", da |-> Head(tx_pending_pkts)]
        BY <2>6 DEF AsyncTxCheck, CurrentWork, JobFrame, Busy, queues
      <3> QED
        BY <1>1, <1>2, <3>1, <3>2, <3>3
           DEF Cycle!PickAny, Cycle!power, Cycle!belief, One
    <2> QED
      BY <1>4, <2>3, <2>4, <2>5, <2>6 DEF TxTurn
  <1> QED
    BY <1>3, <1>4

\* The packet moved to the front is the chosen one, and so is the first of what
\* is left when those before it are dropped.
LEMMA ChosenAtHead ==
  ASSUME NEW S, NEW s \in Seq(S), NEW i \in 1 .. Len(s)
  PROVE  /\ Head(SubSeq(s, i, Len(s))) = s[i]
         /\ Head(MoveToFront(s, i)) = s[i]
         /\ s[i] \in S
  <1>1. Len(s) \in Nat /\ s[i] \in S
    BY ElementOfSeq, LenProperties
  <1>2. Head(SubSeq(s, i, Len(s))) = s[i]
    <2>1. /\ SubSeq(s, i, Len(s)) \in Seq(S)
          /\ Len(SubSeq(s, i, Len(s))) = Len(s) - i + 1
          /\ SubSeq(s, i, Len(s))[1] = s[i + 1 - 1]
      BY <1>1, SubSeqProperties
    <2> QED
      BY <1>1, <2>1
  <1>3. Head(MoveToFront(s, i)) = s[i]
    <2>1. MoveToFront(s, i) \in Seq(S) /\ MoveToFront(s, i)[1] = s[i]
          /\ Len(MoveToFront(s, i)) = Len(s)
      BY MoveToFrontType
    <2> QED
      BY <2>1
  <1> QED
    BY <1>1, <1>2, <1>3

\* Picking an ATIM for a station not known to be awake, or none.
LEMMA FirstAtimSimulated ==
  ASSUME IInv, FirstAtim
  PROVE  \/ \E d \in Addr : Cycle!Pick("self", d)
         \/ Cycle!DropWork("self")
  <1>1. UNCHANGED <<psm_state, off_override, DozePending, ps_state, ListStale,
                    wake_neighbors, HandedDown>>
    BY TxPathLeavesPower DEF TxPath, FirstAtim, HandedDown, usb
  <1>2. CurrentWork = [kind |-> "ATIM", da |-> NoAddr]
    BY DEF FirstAtim, CurrentWork, Busy
  <1>3. CASE pc' = "rx"
    <2>1. CurrentWork' = Cycle!Nothing
      BY <1>3, IdleWork DEF Idle
    <2> QED
      BY <1>1, <2>1 DEF Cycle!DropWork, Cycle!power, Cycle!belief, One
  <1>4. CASE pc' # "rx"
    <2>1. PICK i \in DOMAIN tx_pending_atims :
            /\ ~IsDaAwake(tx_pending_atims[i])
            /\ tx_pending_atims' =
                 SubSeq(tx_pending_atims, i, Len(tx_pending_atims))
            /\ pc' = "last_da" /\ job' = "ATIM"
      BY <1>4 DEF FirstAtim
    <2>2. tx_pending_atims \in Seq(Addr) /\ i \in 1 .. Len(tx_pending_atims)
      BY <2>1, LenProperties DEF IInv, TypeOK, QueuesOK
    <2>3. PICK d \in Addr : d = Head(tx_pending_atims') /\ ~IsDaAwake(d)
      BY <2>1, <2>2, ChosenAtHead
    <2>4. CurrentWork' = [kind |-> "ATIM", da |-> d]
      BY <2>1, <2>3 DEF CurrentWork, Busy, JobFrame
    <2>5. Cycle!Pick("self", d)
      BY <1>1, <1>2, <2>3, <2>4
         DEF Cycle!Pick, Cycle!Kinds, Cycle!power, Cycle!belief, One, IsDaAwake
    <2> QED
      BY <2>5
  <1> QED
    BY <1>3, <1>4

\* Picking data for a station known to be awake, or none.
LEMMA FirstPktSimulated ==
  ASSUME IInv, FirstPkt
  PROVE  \/ \E d \in Addr : Cycle!Pick("self", d)
         \/ Cycle!DropWork("self")
  <1>1. UNCHANGED <<psm_state, off_override, DozePending, ps_state, ListStale,
                    wake_neighbors, HandedDown>>
    BY TxPathLeavesPower DEF TxPath, FirstPkt, HandedDown, usb
  <1>2. CurrentWork = [kind |-> "DATA", da |-> NoAddr]
    BY DEF FirstPkt, CurrentWork, Busy
  <1>3. CASE pc' = "rx"
    <2>1. CurrentWork' = Cycle!Nothing
      BY <1>3, IdleWork DEF Idle
    <2> QED
      BY <1>1, <2>1 DEF Cycle!DropWork, Cycle!power, Cycle!belief, One
  <1>4. CASE pc' # "rx"
    <2>1. PICK i \in DOMAIN tx_pending_pkts :
            /\ IsDaAwake(tx_pending_pkts[i]) /\ psm_state = "TX"
            /\ tx_pending_pkts' = MoveToFront(tx_pending_pkts, i)
            /\ pc' = "async_tx" /\ job' = "DATA"
      BY <1>4 DEF FirstPkt
    <2>2. tx_pending_pkts \in Seq(Dest) /\ i \in 1 .. Len(tx_pending_pkts)
      BY <2>1, LenProperties DEF IInv, TypeOK, QueuesOK
    <2>3. PICK d \in Dest : d = Head(tx_pending_pkts') /\ IsDaAwake(d)
      BY <2>1, <2>2, ChosenAtHead
    <2>4. CurrentWork' = [kind |-> "DATA", da |-> d]
      BY <2>1, <2>3 DEF CurrentWork, Busy, JobFrame
    <2>5. Cycle!Pick("self", d) /\ d \in Addr
      BY <1>1, <1>2, <2>1, <2>3, <2>4
         DEF Cycle!Pick, Cycle!Kinds, Cycle!power, Cycle!belief, One, IsDaAwake,
             Addr
    <2> QED
      BY <2>5
  <1> QED
    BY <1>3, <1>4

\* A soft beacon goes to everyone.
LEMMA SoftBeaconSimulated ==
  ASSUME IInv, AsyncTxSoftBeacon
  PROVE  \/ \E d \in Addr : Cycle!Pick("self", d)
         \/ Cycle!DropWork("self")
  <1>1. UNCHANGED <<psm_state, off_override, DozePending, ps_state, ListStale,
                    wake_neighbors, HandedDown>>
    BY TxPathLeavesPower DEF TxPath, AsyncTxSoftBeacon, HandedDown, usb
  <1>2. CurrentWork = [kind |-> "BCN", da |-> NoAddr]
    BY DEF AsyncTxSoftBeacon, CurrentWork, Busy
  <1>3. CASE pc' = "rx"
    <2>1. CurrentWork' = Cycle!Nothing
      BY <1>3, IdleWork DEF Idle
    <2> QED
      BY <1>1, <2>1 DEF Cycle!DropWork, Cycle!power, Cycle!belief, One
  <1>4. CASE pc' # "rx"
    <2>1. CurrentWork' = [kind |-> "BCN", da |-> Bcast]
      BY <1>4 DEF AsyncTxSoftBeacon, CurrentWork, Busy, JobFrame
    <2>2. Cycle!Pick("self", Bcast) /\ Bcast \in Addr
      BY <1>1, <1>2, <2>1
         DEF Cycle!Pick, Cycle!Kinds, Cycle!power, Cycle!belief, One, Addr, Dest
    <2> QED
      BY <2>2
  <1> QED
    BY <1>3, <1>4

\* Handing the frame down, or giving it up on the way; what follows a frame
\* that is handed down or queued is bookkeeping.
LEMMA TransmitSimulated ==
  ASSUME IInv, RememberAtimDa \/ AsyncTx \/ WriteData \/ SendData
               \/ AppendChunk \/ Dequeue
  PROVE  \/ Cycle!HandDown("self") \/ Cycle!DropWork("self")
         \/ UNCHANGED Cycle!cycle
  <1>1. UNCHANGED <<psm_state, off_override, DozePending, ps_state, ListStale,
                    wake_neighbors>>
    BY TxPathLeavesPower DEF TxPath
  <1>2. ASSUME UNCHANGED <<CurrentWork, HandedDown>>
        PROVE  UNCHANGED Cycle!cycle
    BY <1>1, <1>2 DEF Cycle!cycle, Cycle!power, Cycle!belief, Cycle!frames, One
  <1>3. ASSUME pc' \in Idle, UNCHANGED HandedDown PROVE Cycle!DropWork("self")
    BY <1>1, <1>3, IdleWork
       DEF Cycle!DropWork, Cycle!power, Cycle!belief, One
  <1>4. AfterTx \in Idle
    BY DEF AfterTx, Idle
  <1>5. CASE RememberAtimDa
    <2>1. UNCHANGED HandedDown
      BY <1>5 DEF RememberAtimDa, HandedDown, usb
    <2>2. job = "ATIM" /\ job' = job
      BY <1>5 DEF RememberAtimDa, Goto, IInv, FrameQueued
    <2>3. UNCHANGED CurrentWork
      BY <1>5, <2>2 DEF RememberAtimDa, Goto, CurrentWork, Busy, JobFrame, queues
    <2> QED
      BY <1>2, <2>1, <2>3
  <1>6. CASE AsyncTx
    <2>1. UNCHANGED HandedDown
      BY <1>6 DEF AsyncTx, HandedDown, usb
    <2>2. CASE pc' = "write"
      <3>1. UNCHANGED CurrentWork
        BY <1>6, <2>2 DEF AsyncTx, Goto, CurrentWork, Busy, JobFrame, queues
      <3> QED
        BY <1>2, <2>1, <3>1
    <2>3. CASE pc' # "write"
      <3>1. pc' = AfterTx
        BY <1>6, <2>3 DEF AsyncTx, Goto
      <3> QED
        BY <1>3, <1>4, <2>1, <3>1
    <2> QED
      BY <2>2, <2>3
  <1>7. CASE WriteData
    <2>1. UNCHANGED HandedDown
      BY <1>7 DEF WriteData, HandedDown
    <2>2. CASE pc' = "send"
      <3>1. UNCHANGED CurrentWork
        BY <1>7, <2>2 DEF WriteData, Goto, CurrentWork, Busy, JobFrame, queues
      <3> QED
        BY <1>2, <2>1, <3>1
    <2>3. CASE pc' # "send"
      <3>1. pc' \in Idle
        BY <1>7, <2>3 DEF WriteData, Goto, Idle
      <3> QED
        BY <1>3, <2>1, <3>1
    <2> QED
      BY <2>2, <2>3
  <1>8. CASE SendData
    <2>1. pc' \in Idle
      BY <1>8 DEF SendData, Goto, Idle
    <2>2. CASE bulk_out = NoFrame
      <3>1. JobFrame \in Frame /\ CurrentWork = [kind |-> job, da |-> JobFrame.da]
        BY <1>8, JobFrameType DEF SendData, CurrentWork, Busy
      <3>2. /\ JobFrame.kind = job /\ job \in Cycle!Kinds
            /\ JobFrame.da \in Addr /\ JobFrame # NoFrame
        BY <3>1 DEF JobFrame, Frame, Kinds, NoFrame, Cycle!Kinds
      <3>3. /\ HandedDown = Cycle!Nothing
            /\ HandedDown' = [kind |-> job, da |-> JobFrame.da]
        BY <1>8, <2>2, <3>2
           DEF SendData, HandedDown, NoFrame, Cycle!Nothing
      <3> QED
        BY <1>1, <2>1, <3>1, <3>2, <3>3, IdleWork, NoAddrAssumption
           DEF Cycle!HandDown, Cycle!power, Cycle!belief, One
    <2>3. CASE bulk_out # NoFrame
      BY <1>3, <1>8, <2>1, <2>3 DEF SendData, HandedDown
    <2> QED
      BY <2>2, <2>3
  <1>9. CASE AppendChunk \/ Dequeue
    <2>1. UNCHANGED HandedDown
      BY <1>9 DEF AppendChunk, Dequeue, HandedDown, usb
    <2>2. pc' \in Idle
      BY <1>4, <1>9 DEF AppendChunk, Dequeue, Goto, Idle
    <2> QED
      BY <1>3, <2>1, <2>2
  <1> QED
    BY <1>5, <1>6, <1>7, <1>8, <1>9

\* The receive path and the creation of ATIMs, as far as the cycle sees them
Unseen == ReadOverride \/ AsyncRxCheck \/ ProcessAtim \/ AddAwakeNode
            \/ RemoveRx \/ CreateCheck \/ CreateAtimPkt
RxPath == Unseen \/ WriteOverride \/ LinkAwakeNode

LEMMA RxPathLeaves ==
  ASSUME RxPath
  PROVE  UNCHANGED <<psm_state, DozePending, ps_state, ListStale, CurrentWork,
                     HandedDown>>
  <1>1. UNCHANGED <<psm_state, ps_state, update_mask, erase_awake_nodes_flag,
                    bulk_out>>
    BY DEF RxPath, Unseen, ReadOverride, AsyncRxCheck, ProcessAtim,
           AddAwakeNode, RemoveRx, CreateCheck, CreateAtimPkt, WriteOverride,
           LinkAwakeNode, pm, flags, usb
  <1>2. \A step \in {pc, pc'} :
          step \in Idle \ {"sleep", "mask_clear", "erase_do"}
    BY DEF RxPath, Unseen, ReadOverride, AsyncRxCheck, ProcessAtim,
           AddAwakeNode, RemoveRx, CreateCheck, CreateAtimPkt, WriteOverride,
           LinkAwakeNode, Goto, Idle
  <1>3. UNCHANGED CurrentWork
    BY <1>2, IdleWork
  <1> QED
    BY <1>1, <1>2, <1>3 DEF DozePending, ListStale, HandedDown

\* Only the two writes of what was read before are seen.
LEMMA RxPathSimulated ==
  ASSUME IInv, CInv, RxPath
  PROVE  \/ Cycle!StayAwake("self", "ATIM", seen_override)
         \/ /\ seen_awake \subseteq wake_neighbors
            /\ \E a \in Addr : Cycle!Hear("self", a, seen_awake)
         \/ UNCHANGED Cycle!cycle
  <1>1. CASE Unseen
    <2>1. UNCHANGED <<off_override, wake_neighbors>>
      BY <1>1 DEF Unseen, ReadOverride, AsyncRxCheck, ProcessAtim,
                  AddAwakeNode, RemoveRx, CreateCheck, CreateAtimPkt, pm, peers
    <2> QED
      BY <2>1, RxPathLeaves
         DEF Cycle!cycle, Cycle!power, Cycle!belief, Cycle!frames, One, RxPath
  <1>2. CASE WriteOverride
    <2>1. /\ wake_neighbors' = wake_neighbors
          /\ off_override' = seen_override \cup {"ATIM"}
          /\ InTime => seen_override \subseteq off_override
      BY <1>2 DEF WriteOverride, CInv, peers
    <2> QED
      BY <2>1, RxPathLeaves
         DEF Cycle!StayAwake, Cycle!belief, Cycle!frames, One, RxPath, InTime
  <1>3. CASE LinkAwakeNode
    <2>1. Head(rx_pending_pkts) \in Addr
      BY <1>3, HeadTailProperties
         DEF LinkAwakeNode, IInv, TypeOK, QueuesOK, FrameQueued, Receiving,
             Addr, Dest
    <2>2. /\ off_override' = off_override /\ seen_awake \subseteq wake_neighbors
          /\ wake_neighbors' = seen_awake \cup {Head(rx_pending_pkts)}
      BY <1>3 DEF LinkAwakeNode, CInv, pm
    <2>3. Cycle!Hear("self", Head(rx_pending_pkts), seen_awake)
      BY <2>2, RxPathLeaves
         DEF Cycle!Hear, Cycle!power, Cycle!frames, One, RxPath
    <2> QED
      BY <2>1, <2>2, <2>3
  <1> QED
    BY <1>1, <1>2, <1>3 DEF RxPath

-----------------------------------------------------------------------------
(* The refinement *)

LEMMA CycleInit == Init => Cycle!Init
  <1> SUFFICES ASSUME Init PROVE Cycle!Init
    OBVIOUS
  <1>1. /\ CurrentWork = Cycle!Nothing /\ HandedDown = Cycle!Nothing
        /\ DozePending = FALSE /\ ListStale = FALSE
    BY IdleWork DEF Init, Idle, HandedDown, NoFrame, Cycle!Nothing,
                    DozePending, ListStale
  <1> QED
    BY <1>1 DEF Init, Cycle!Init, One

\* Every step of the driver is one of its station, or none.
LEMMA CycleStep ==
  IInv /\ WindowTimer /\ CInv /\ [Next]_vars => [Cycle!Next]_(Cycle!cycle)
  <1> SUFFICES ASSUME IInv, WindowTimer, CInv, [Next]_vars
               PROVE  Cycle!StationStep("self") \/ UNCHANGED Cycle!cycle
    BY DEF Cycle!Next
  <1>1. wake_neighbors \subseteq Addr /\ last_ATIM_DA \in Addr
        /\ off_override \subseteq Reasons /\ seen_override \subseteq Reasons
        /\ One(wake_neighbors)["self"] = wake_neighbors
    BY DEF IInv, TypeOK, PmOK, PeersOK, LoopOK, One
  <1> DEFINE Stay == \E reason \in Reasons, others \in SUBSET Reasons :
                       Cycle!StayAwake("self", reason, others)
             Heard == \E a \in Addr : \E kept \in SUBSET wake_neighbors :
                        Cycle!Hear("self", a, kept)
  <1>2. Stay \/ Heard => Cycle!StationStep("self")
    BY <1>1 DEF Cycle!StationStep, Cycle!Reasons, Reasons
  <1>3. CASE Device
    <2>1. CASE PreTbtt
      BY <2>1, TbttSimulated DEF Cycle!StationStep
    <2>2. CASE BeaconConfig
      <3>1. Stay
        BY <1>1, <2>2, BeaconConfigSimulated DEF Reasons
      <3> QED
        BY <1>2, <3>1
    <2>3. ASSUME NEW success \in BOOLEAN, TxComp(success)
          PROVE  Cycle!StationStep("self") \/ UNCHANGED Cycle!cycle
      BY <1>1, <1>2, <2>3, TxCompSimulated
    <2>4. CASE BulkOutDone \/ BulkOutError \/ LoseBulkOutDone
      BY <2>4, TransferEndSimulated DEF Cycle!StationStep
    <2> QED
      BY <1>3, <2>1, <2>2, <2>3, <2>4, OthersStutter DEF Device, Status
  <1>4. CASE Rtimer
    <2>1. CASE AtimWindowStart
      BY <2>1, AtimWindowStartSimulated DEF Cycle!StationStep
    <2>2. CASE AtimWindowEnd
      <3>1. DozePending' \in BOOLEAN
        BY DEF DozePending
      <3> QED
        BY <2>2, <3>1, AtimWindowEndSimulated DEF Cycle!StationStep
    <2> QED
      BY <1>4, <2>1, <2>2, OthersStutter DEF Rtimer
  <1>5. CASE \E d \in Receivers : EnqueueData(d)
    BY <1>5, EnqueueDataStutters
  <1>6. CASE UNCHANGED vars
    BY <1>6, OthersStutter
  <1>7. CASE Loop
    <2>1. CASE EraseNodesCheck \/ EraseAwakeNeighbors
      BY <2>1, EraseSimulated DEF Cycle!StationStep
    <2>2. CASE PowersaveCheck \/ Powersave \/ PowersaveMaskClear
      BY <2>2, PowersaveSimulated DEF Cycle!StationStep
    <2>3. CASE AsyncTxCheck
      BY <2>3, AsyncTxCheckSimulated
         DEF Cycle!StationStep, Cycle!Kinds, Kinds
    <2>4. CASE FirstAtim
      BY <2>4, FirstAtimSimulated DEF Cycle!StationStep
    <2>5. CASE FirstPkt
      BY <2>5, FirstPktSimulated DEF Cycle!StationStep
    <2>6. CASE AsyncTxSoftBeacon
      BY <2>6, SoftBeaconSimulated DEF Cycle!StationStep
    <2>7. CASE RememberAtimDa \/ AsyncTx \/ WriteData \/ SendData
               \/ AppendChunk \/ Dequeue
      BY <2>7, TransmitSimulated DEF Cycle!StationStep
    <2>8. CASE RxPath
      <3>1. CASE Cycle!StayAwake("self", "ATIM", seen_override)
        <4>1. Stay
          BY <1>1, <3>1 DEF Reasons
        <4> QED
          BY <1>2, <4>1
      <3>2. CASE /\ seen_awake \subseteq wake_neighbors
                 /\ \E a \in Addr : Cycle!Hear("self", a, seen_awake)
        <4>1. Heard
          BY <3>2
        <4> QED
          BY <1>2, <4>1
      <3> QED
        BY <2>8, <3>1, <3>2, RxPathSimulated
    <2> QED
      BY <1>7, <2>1, <2>2, <2>3, <2>4, <2>5, <2>6, <2>7, <2>8
         DEF Loop, RxPath, Unseen
  <1> QED
    BY <1>3, <1>4, <1>5, <1>6, <1>7 DEF Next

\* The driver implements the beacon interval of BeaconCycle, whatever interrupts
\* hit its main loop where: no data for a station not believed awake, no doze
\* against a reason to stay awake, nothing believed of a neighbour that was not
\* heard (ar9170_psm.c:69-475, ar9170_scheduler.c:59-430).
THEOREM DriverImplementsBeaconCycle == Spec => ImplementsBeaconCycle
  <1> DEFINE Inv == IInv /\ WindowTimer /\ CInv
  <1>1. Init => Inv
    BY TypeInit, WindowTimerInit, CInvInit
  <1>2. Inv /\ [Next]_vars => Inv'
    BY TypeStep, WindowTimerStep, CInvStep
  <1>3. Inv /\ [Next]_vars => [Cycle!Next]_(Cycle!cycle)
    BY CycleStep
  <1> QED
    BY <1>1, <1>2, <1>3, CycleInit, PTL
       DEF Spec, ImplementsBeaconCycle, Cycle!Spec

-----------------------------------------------------------------------------
(* Frames and neighbours in a beacon interval *)

\* What is proved elsewhere about every state of the driver
Base == IInv /\ WindowTimer /\ WaitDiscipline /\ BufferInFlight /\ CInv

LEMMA BaseInit == Init => Base
  <1>1. Init => BufferInFlight
    BY DEF Init, BufferInFlight
  <1> QED
    BY <1>1, TypeInit, WindowTimerInit, WaitDisciplineInit, CInvInit DEF Base

LEMMA BaseStep == Base /\ [Next]_vars => Base'
  BY TypeStep, WindowTimerStep, WaitDisciplineStep, BufferStep, CInvStep DEF Base

\* The steps of the loop that have to do with neither frames nor waits
Aside == EraseNodesCheck \/ EraseAwakeNeighbors \/ PowersaveCheck \/ Powersave
           \/ PowersaveMaskClear \/ ReadOverride \/ WriteOverride \/ AsyncRxCheck
           \/ ProcessAtim \/ AddAwakeNode \/ LinkAwakeNode \/ RemoveRx
           \/ CreateCheck \/ CreateAtimPkt

LEMMA AsideLeaves ==
  ASSUME IInv, Aside
  PROVE  /\ UNCHANGED <<psm_state, waits, locks, usb, device>>
         /\ pc \notin Busy /\ pc' \notin Busy \cup {"soft_bcn", "append", "dequeue"}
  BY DEF Aside, EraseNodesCheck, EraseAwakeNeighbors, PowersaveCheck, Powersave,
         PowersaveMaskClear, ReadOverride, WriteOverride, AsyncRxCheck,
         ProcessAtim, AddAwakeNode, LinkAwakeNode, RemoveRx, CreateCheck,
         CreateAtimPkt, Goto, Busy, IInv, TypeOK, PmOK, pm

-----------------------------------------------------------------------------
(* Sleep *)

\* A doze request is made in the transmission window and served in it.
LEMMA SleepStep ==
  ASSUME InTime
  PROVE  Base /\ SleepOnlyInTxWindow /\ [Next]_vars => SleepOnlyInTxWindow'
  <1> SUFFICES ASSUME Base, SleepOnlyInTxWindow, [Next]_vars
               PROVE  SleepOnlyInTxWindow'
    OBVIOUS
  <1> USE DEF SleepOnlyInTxWindow
  <1>1. CASE PreTbtt
    BY <1>1 DEF PreTbtt, TbttWindow
  <1>2. CASE Rtimer
    BY <1>2 DEF Rtimer, AtimWindowStart, AtimWindowEnd, SoftBeaconTx, Base,
                WindowTimer
  <1>3. CASE Powersave
    BY <1>3 DEF Powersave, Base, CInv, DozePending
  <1>4. CASE UNCHANGED <<psm_state, ps_state>>
    BY <1>4
  <1>5. Loop => Powersave \/ UNCHANGED <<psm_state, ps_state>>
    BY DEF Loop, EraseNodesCheck, EraseAwakeNeighbors, PowersaveCheck,
           PowersaveMaskClear, AsyncTxCheck, FirstAtim, RememberAtimDa, FirstPkt,
           AsyncTx, AsyncTxSoftBeacon, WriteData, SendData, AppendChunk, Dequeue,
           ReadOverride, WriteOverride, AsyncRxCheck, ProcessAtim, AddAwakeNode,
           LinkAwakeNode, RemoveRx, CreateCheck, CreateAtimPkt, pm
  <1>6. Device => PreTbtt \/ UNCHANGED <<psm_state, ps_state>>
    BY DEF Device, Status, TxComp, LoseStatus, BeaconConfig, DeviceTakes,
           BulkOutDone, BulkOutError, LoseBulkOutDone, RxAtim, pm
  <1>7. ASSUME NEW d \in Receivers, EnqueueData(d)
        PROVE  UNCHANGED <<psm_state, ps_state>>
    BY <1>7 DEF EnqueueData, pm
  <1>8. UNCHANGED vars => UNCHANGED <<psm_state, ps_state>>
    BY DEF vars, pm
  <1> QED
    BY <1>1, <1>2, <1>3, <1>4, <1>5, <1>6, <1>7, <1>8 DEF Next

\* Unless the loop is late, the node is asleep in the transmission window only,
\* whatever else goes wrong: a doze request does not outlive the window it was
\* made in, and each TBTT wakes the node (ar9170_scheduler.c:83-92,
\* ar9170rx.c:516-519).
THEOREM SleepOnlyInTxWindowHolds == InTime => (Spec => []SleepOnlyInTxWindow)
  <1> SUFFICES ASSUME InTime PROVE Spec => []SleepOnlyInTxWindow
    OBVIOUS
  <1>1. Init => SleepOnlyInTxWindow
    BY DEF Init, SleepOnlyInTxWindow
  <1>2. /\ Base /\ SleepOnlyInTxWindow /\ [Next]_vars
        => (Base /\ SleepOnlyInTxWindow)'
    BY BaseStep, SleepStep
  <1> QED
    BY <1>1, <1>2, BaseInit, PTL DEF Spec
-----------------------------------------------------------------------------
(* One frame at a time *)

\* Power-save mode without soft beacons, in which statuses may be lost and a
\* TBTT may come early, but nothing that is sent outlives its interval, no
\* callback is lost, late or overtaken, and the loop keeps up.
Orderly ==
    ConfPs /\ ~SoftBeacon /\ Faults \subseteq {"LostStatus", "EarlyTbtt"}

WaitFor(kind) == \/ kind = "ATIM" /\ tx_atim_wait
                 \/ kind = "DATA" /\ tx_data_wait

\* The frame that the wait flag is set for is with the loop, on the endpoint or
\* in the device, and the only one; its flag lasts as long as it is on its way,
\* since a data frame that is still with the loop when its wait is marked for
\* clearing leaves it before the next TBTT.
Flight ==
    /\ psm_state # "SOFT_BCN" /\ pc \notin {"soft_bcn", "append"}
    /\ pc \in Busy => WaitFor(job) /\ bulk_out = NoFrame /\ device = <<>>
    /\ bulk_out # NoFrame => WaitFor(bulk_out.kind) /\ device = <<>>
    /\ device # <<>> => WaitFor(device[1].kind) /\ Len(device) = 1
    /\ pc \in Busy /\ clear_tx_data_wait => create_atims_flag
    /\ NoOrphanChunk

LEMMA FlightInit == Init => Flight
  BY DEF Init, Flight, NoOrphanChunk, Busy

\* The main loop
LEMMA LoopKeepsFlight ==
  ASSUME Orderly, Base, Flight, Loop
  PROVE  Flight'
  <1> USE DEF Flight, NoOrphanChunk, Busy
  <1>1. CASE Aside
    <2>1. UNCHANGED <<psm_state, tx_atim_wait, tx_data_wait, clear_tx_data_wait,
                      tx_buffer, tx_chunks, bulk_out, device>>
          /\ pc \notin Busy /\ pc' \notin Busy \cup {"soft_bcn", "append"}
      BY <1>1, AsideLeaves DEF Base, waits, usb
    <2> QED
      BY <2>1 DEF WaitFor
  <1>2. CASE AsyncTxCheck
    BY <1>2 DEF AsyncTxCheck, TxTurn, Orderly, WaitFor, pm, waits, usb
  <1>3. CASE FirstAtim
    BY <1>3 DEF FirstAtim, NoWait, WaitFor, pm, flags, usb, Base, WaitDiscipline
  <1>4. CASE FirstPkt
    BY <1>4 DEF FirstPkt, NoWait, WaitFor, pm, flags, usb, Base, WaitDiscipline
  <1>5. CASE RememberAtimDa \/ AsyncTx
    BY <1>5 DEF RememberAtimDa, AsyncTx, AfterTx, Goto, WaitFor, pm, flags, waits,
                usb
  <1>6. CASE WriteData
    BY <1>6 DEF WriteData, Goto, WaitFor, pm, flags, waits
  <1>7. CASE SendData
    <2>1. /\ bulk_out = NoFrame /\ device = <<>> /\ tx_buffer = JobFrame
          /\ WaitFor(job)
      BY <1>7 DEF SendData, Base, BufferInFlight
    <2>2. JobFrame.kind = job
      BY DEF JobFrame
    <2>3. /\ bulk_out' = JobFrame /\ pc' = "dequeue"
          /\ UNCHANGED <<psm_state, tx_atim_wait, tx_data_wait, tx_buffer,
                         tx_chunks, device>>
      BY <1>7, <2>1 DEF SendData, Goto, pm, waits
    <2> QED
      BY <2>1, <2>2, <2>3 DEF WaitFor
  <1>8. CASE Dequeue
    BY <1>8 DEF Dequeue, AfterTx, WaitFor, pm, waits, usb
  <1>9. ~AppendChunk /\ ~AsyncTxSoftBeacon
    BY DEF AppendChunk, AsyncTxSoftBeacon
  <1> QED
    BY <1>1, <1>2, <1>3, <1>4, <1>5, <1>6, <1>7, <1>8, <1>9 DEF Loop, Aside

\* The interrupts
LEMMA InterruptsKeepFlight ==
  ASSUME Orderly, Base, Flight, Device \/ Rtimer
  PROVE  Flight'
  <1> USE DEF Flight, NoOrphanChunk, Busy
  <1>1. CASE PreTbtt
    <2>1. /\ device = <<>> /\ bulk_out = NoFrame /\ job # "ATIM"
          /\ ~create_atims_flag
      BY <1>1 DEF PreTbtt, TbttExpected, CaughtUp, Orderly
    <2>2. device' = <<>> /\ psm_state' = "PRE_TBTT" /\ create_atims_flag' = TRUE
      BY <1>1, <2>1 DEF PreTbtt, TbttWindow, Orderly
    <2>3. UNCHANGED <<pc, job, tx_buffer, tx_chunks, bulk_out>>
      BY <1>1 DEF PreTbtt, usb, loop
    <2>4. pc \in Busy => tx_data_wait' /\ job = "DATA"
      BY <1>1, <2>1 DEF PreTbtt, TbttWaits, WaitFor
    <2> QED
      BY <2>1, <2>2, <2>3, <2>4 DEF WaitFor
  <1>2. ASSUME NEW success \in BOOLEAN, TxComp(success) PROVE Flight'
    <2>1. /\ device # <<>> /\ device' = Tail(device)
          /\ UNCHANGED <<psm_state, pc, tx_buffer, tx_chunks, bulk_out>>
      BY <1>2 DEF TxComp, pm, usb, loop
    <2>2. pc \notin Busy /\ bulk_out = NoFrame /\ device' = <<>>
      BY <2>1 DEF Base, IInv, TypeOK, UsbOK
    <2> QED
      BY <2>1, <2>2
  <1>3. CASE LoseStatus
    <2>1. /\ device # <<>> /\ device' = Tail(device)
          /\ UNCHANGED <<psm_state, pc, tx_buffer, tx_chunks, bulk_out>>
      BY <1>3 DEF LoseStatus, pm, usb, loop
    <2>2. pc \notin Busy /\ bulk_out = NoFrame /\ device' = <<>>
      BY <2>1 DEF Base, IInv, TypeOK, UsbOK
    <2> QED
      BY <2>1, <2>2
  <1>4. CASE BulkOutDone
    <2>1. /\ bulk_out # NoFrame /\ bulk_out' = NoFrame
          /\ tx_buffer' = NoFrame /\ tx_chunks' = <<>>
          /\ UNCHANGED <<psm_state, pc, job, tx_atim_wait, tx_data_wait,
                         clear_tx_data_wait>>
      BY <1>4 DEF BulkOutDone, TransferEnds, pm, waits, loop
    <2>2. device = <<>> /\ WaitFor(bulk_out.kind) /\ pc \notin Busy
      BY <2>1
    <2>3. device' = <<>> \/ device' = <<bulk_out>>
      <3>1. device' = device \/ device' = Append(device, bulk_out)
        BY <1>4 DEF BulkOutDone, TransferEnds
      <3> QED
        BY <2>2, <3>1
    <2>4. device' # <<>> => device'[1] = bulk_out /\ Len(device') = 1
      BY <2>3
    <2> QED
      BY <2>1, <2>2, <2>4 DEF WaitFor
  <1>5. ~DeviceTakes /\ ~BulkOutError /\ ~LoseBulkOutDone
    BY DEF Orderly, DeviceTakes, BulkOutError, LoseBulkOutDone
  <1>6. CASE BeaconConfig \/ \E n \in Nodes : RxAtim(n)
    BY <1>6 DEF BeaconConfig, RxAtim, pm, flags, waits, usb, loop, WaitFor
  <1>7. CASE Rtimer
    <2>1. psm_state' # "SOFT_BCN"
      BY <1>7 DEF Rtimer, AtimWindowStart, AtimWindowEnd, SoftBeaconTx, Orderly
    <2>2. UNCHANGED <<pc, job, tx_atim_wait, tx_data_wait, clear_tx_data_wait,
                      create_atims_flag, tx_buffer, tx_chunks, bulk_out, device>>
      BY <1>7 DEF Rtimer, AtimWindowStart, AtimWindowEnd, SoftBeaconTx, flags,
                  waits, usb, loop
    <2> QED
      BY <2>1, <2>2 DEF WaitFor
  <1> QED
    BY <1>1, <1>2, <1>3, <1>4, <1>5, <1>6, <1>7 DEF Device, Status

LEMMA FlightStep ==
  ASSUME Orderly
  PROVE  Base /\ Flight /\ [Next]_vars => Flight'
  <1> SUFFICES ASSUME Base, Flight, [Next]_vars PROVE Flight'
    OBVIOUS
  <1>1. ASSUME NEW d \in Receivers, EnqueueData(d) PROVE Flight'
    BY <1>1 DEF EnqueueData, Flight, NoOrphanChunk, Busy, WaitFor, pm, flags,
                waits, usb, loop
  <1>2. CASE UNCHANGED vars
    BY <1>2 DEF vars, Flight, NoOrphanChunk, Busy, WaitFor, pm, flags, waits, usb,
                loop
  <1> QED
    BY <1>1, <1>2, LoopKeepsFlight, InterruptsKeepFlight DEF Next

LEMMA FlightInvariant ==
  ASSUME Orderly
  PROVE  Spec => [](Base /\ Flight)
  <1>1. Base /\ Flight /\ [Next]_vars => (Base /\ Flight)'
    BY BaseStep, FlightStep
  <1> QED
    BY <1>1, BaseInit, FlightInit, PTL DEF Spec

\* In an orderly interval no frame is left in tx_list with nobody to send it:
\* the wait flags keep the loop from choosing a second frame before the first
\* has left the endpoint, also where the lock was released under it
\* (usb_wrapper.c:640-656, ar9170rx.c:734-743).
THEOREM NoOrphanChunkHolds == Orderly => (Spec => []NoOrphanChunk)
  <1> SUFFICES ASSUME Orderly PROVE Spec => []NoOrphanChunk
    OBVIOUS
  <1>1. Flight => NoOrphanChunk
    BY DEF Flight
  <1> QED
    BY <1>1, FlightInvariant, PTL

\* ... and a status ends the wait of the frame it is the status of, never
\* another (ar9170tx.c:740-785).
THEOREM StatusOfItsFrameHolds == Orderly => (Spec => StatusOfItsFrame)
  <1> SUFFICES ASSUME Orderly PROVE Spec => StatusOfItsFrame
    OBVIOUS
  <1> DEFINE OfItsFrame ==
               device # <<>> /\ device' = Tail(device) =>
                 /\ tx_data_wait /\ ~tx_data_wait' => Head(device).kind = "DATA"
                 /\ tx_atim_wait /\ ~tx_atim_wait' => Head(device).kind = "ATIM"
  <1>1. Base /\ Flight /\ [Next]_vars => [OfItsFrame]_vars
    <2> SUFFICES ASSUME Base, Flight, Next, device # <<>>, device' = Tail(device),
                        \/ tx_data_wait /\ ~tx_data_wait'
                        \/ tx_atim_wait /\ ~tx_atim_wait'
                 PROVE  /\ tx_data_wait => Head(device).kind = "DATA"
                        /\ tx_atim_wait => Head(device).kind = "ATIM"
      OBVIOUS
    <2>1. WaitFor(Head(device).kind)
      BY DEF Flight, Base, IInv, TypeOK, UsbOK
    <2> QED
      BY <2>1 DEF WaitFor, Base, WaitDiscipline
  <1> QED
    BY <1>1, FlightInvariant, PTL DEF Spec, StatusOfItsFrame
-----------------------------------------------------------------------------
(* The history variables *)

\* They watch the driver: it does with them what it does without.
LEMMA HistoryStep == [HNext]_hvars => [Next]_vars
  <1>1. HNext => Next
    BY DEF HNext, HPreTbtt, HStatus, HRxAtim, HBulkOut, HAtimWindowStart,
           HCreateCheck, HDequeue, HOther, Next, Loop, Device, Rtimer, Status
  <1> QED
    BY <1>1 DEF hvars

\* The history variables restrict nothing: what is proved of the driver holds
\* where they are kept, too.
THEOREM HistoryIsBehaviour == HSpec => Spec
  BY HistoryStep, PTL DEF HSpec, HInit, Spec

\* How often a window began with the wait flag of one and the same data frame:
\* not yet while the flag is unmarked, which a TBTT does not leave it.
Waited ==
    /\ ~tx_data_wait => blocked = 0
    /\ ~clear_tx_data_wait => blocked = 0
    /\ psm_state = "PRE_TBTT" => blocked = 0 /\ (tx_data_wait => clear_tx_data_wait)
    /\ blocked \in {0, 1}

LEMMA WaitedStep ==
  Base /\ Waited /\ [HNext]_hvars => Waited'
  <1> SUFFICES ASSUME Base, Waited, [HNext]_hvars PROVE Waited'
    OBVIOUS
  <1> USE DEF Waited
  <1>1. CASE HPreTbtt
    BY <1>1 DEF HPreTbtt, PreTbtt, TbttWindow, TbttWaits, Base, IInv, TypeOK,
                FlagsOK
  <1>2. CASE HStatus
    BY <1>2 DEF HStatus, TxComp, pm, Base, IInv, TypeOK, FlagsOK
  <1>3. CASE HRxAtim \/ HBulkOut \/ HCreateCheck \/ HDequeue
    BY <1>3 DEF HRxAtim, HBulkOut, HCreateCheck, HDequeue, RxAtim, DeviceTakes,
                BulkOutDone, BulkOutError, LoseBulkOutDone, CreateCheck, Dequeue,
                pm, waits
  <1>4. CASE HAtimWindowStart
    BY <1>4 DEF HAtimWindowStart, AtimWindowStart, waits, Base, WindowTimer
  <1>5. CASE HOther
    <2>1. \/ UNCHANGED <<psm_state, tx_data_wait, clear_tx_data_wait>>
          \/ AtimWindowEnd \/ FirstPkt
      BY <1>5 DEF HOther, LoseStatus, BeaconConfig, SoftBeaconTx, EnqueueData,
           EraseNodesCheck, EraseAwakeNeighbors, PowersaveCheck, Powersave,
           PowersaveMaskClear, AsyncTxCheck, FirstAtim, RememberAtimDa, AsyncTx,
           AsyncTxSoftBeacon, WriteData, SendData, AppendChunk, ReadOverride,
           WriteOverride, AsyncRxCheck, ProcessAtim, AddAwakeNode, LinkAwakeNode,
           RemoveRx, CreateAtimPkt, pm, waits
    <2>2. blocked' = IF tx_data_wait' THEN blocked ELSE 0
      BY <1>5 DEF HOther
    <2>3. CASE UNCHANGED <<psm_state, tx_data_wait, clear_tx_data_wait>>
      BY <2>2, <2>3
    <2>4. CASE AtimWindowEnd
      BY <2>2, <2>4 DEF AtimWindowEnd, waits
    <2>5. CASE FirstPkt
      BY <2>2, <2>5 DEF FirstPkt, pm
    <2> QED
      BY <2>1, <2>3, <2>4, <2>5
  <1>6. CASE UNCHANGED hvars
    BY <1>6 DEF hvars, hist, vars, pm, waits
  <1> QED
    BY <1>1, <1>2, <1>3, <1>4, <1>5, <1>6 DEF HNext

\* Whatever is lost or late, a data wait holds up the window after it and no
\* more (ar9170rx.c:672-677).
THEOREM BlockedOneIntervalHolds == HSpec => []BlockedOneInterval
  <1>1. HInit => Base /\ Waited
    BY BaseInit DEF HInit, Init, Waited
  <1>2. Base /\ Waited /\ [HNext]_hvars => (Base /\ Waited)'
    BY HistoryStep, BaseStep, WaitedStep
  <1>3. Base /\ Waited => BlockedOneInterval
    BY DEF Waited, BlockedOneInterval
  <1> QED
    BY <1>1, <1>2, <1>3, PTL DEF HSpec
-----------------------------------------------------------------------------
(* The frame the loop has chosen *)

\* The first of some entries of a queue is the only one before all of them.
LEMMA FirstIsLeast ==
  ASSUME NEW q, NEW I \in SUBSET Nat, NEW i \in I, \A j \in I : i <= j
  PROVE  FirstOf(q, I) = q[i]
  <1> DEFINE k == CHOOSE k \in I : \A j \in I : k <= j
  <1>1. k \in I /\ \A j \in I : k <= j
    OBVIOUS
  <1>2. k \in Nat /\ i \in Nat /\ i <= k /\ k <= i
    BY <1>1
  <1> HIDE DEF k
  <1>3. k = i
    BY <1>2
  <1> QED
    BY <1>3 DEF FirstOf, k

\* Choosing an ATIM drops those before it.
LEMMA FirstAtimChooses ==
  ASSUME IInv, FirstAtim, chosen' = Choice
  PROVE  FrameAtHead'
  <1>1. CASE pc' = "rx"
    BY <1>1 DEF FrameAtHead, Sending, Receiving
  <1>2. CASE pc' # "rx"
    <2> DEFINE I == {i \in DOMAIN tx_pending_atims :
                       ~IsDaAwake(tx_pending_atims[i])}
    <2>1. /\ pc = "first_atim" /\ pc' = "last_da" /\ job' = "ATIM"
          /\ \E i \in I : /\ \A j \in I : i <= j
                         /\ tx_pending_atims' =
                              SubSeq(tx_pending_atims, i, Len(tx_pending_atims))
      BY <1>2, Zenon DEF FirstAtim
    <2>2. tx_pending_atims \in Seq(Addr) /\ Len(tx_pending_atims) \in Nat
          /\ DOMAIN tx_pending_atims = 1 .. Len(tx_pending_atims)
      BY LenProperties DEF IInv, TypeOK, QueuesOK
    <2>3. PICK i \in I :
            /\ \A j \in I : i <= j
            /\ tx_pending_atims' =
                 SubSeq(tx_pending_atims, i, Len(tx_pending_atims))
      BY <2>1
    <2>4. I \in SUBSET Nat /\ i \in 1 .. Len(tx_pending_atims)
      BY <2>2
    <2>5. chosen' = FirstOf(tx_pending_atims, I)
      BY <2>1 DEF Choice, Sending, Receiving
    <2>6. chosen' = tx_pending_atims[i]
      <3> HIDE DEF I
      <3> QED
        BY <2>3, <2>4, <2>5, FirstIsLeast
    <2>7. tx_pending_atims' # <<>> /\ Head(tx_pending_atims') = tx_pending_atims[i]
      BY <2>2, <2>3, <2>4, ChosenAtHead, SuffixType
    <2> QED
      BY <2>1, <2>6, <2>7 DEF FrameAtHead, Sending, Receiving
  <1> QED
    BY <1>1, <1>2

\* Choosing a packet moves it to the front.
LEMMA FirstPktChooses ==
  ASSUME IInv, FirstPkt, chosen' = Choice
  PROVE  FrameAtHead'
  <1>1. CASE pc' = "rx"
    BY <1>1 DEF FrameAtHead, Sending, Receiving
  <1>2. CASE pc' # "rx"
    <2> DEFINE I == {i \in DOMAIN tx_pending_pkts :
                       IsDaAwake(tx_pending_pkts[i])}
    <2>1. /\ pc = "first_pkt" /\ pc' = "async_tx" /\ job' = "DATA"
          /\ \E i \in I : /\ \A j \in I : i <= j
                         /\ tx_pending_pkts' = MoveToFront(tx_pending_pkts, i)
      BY <1>2, Zenon DEF FirstPkt
    <2>2. tx_pending_pkts \in Seq(Dest) /\ Len(tx_pending_pkts) \in Nat
          /\ DOMAIN tx_pending_pkts = 1 .. Len(tx_pending_pkts)
      BY LenProperties DEF IInv, TypeOK, QueuesOK
    <2>3. PICK i \in I :
            /\ \A j \in I : i <= j
            /\ tx_pending_pkts' = MoveToFront(tx_pending_pkts, i)
      BY <2>1
    <2>4. I \in SUBSET Nat /\ i \in 1 .. Len(tx_pending_pkts)
      BY <2>2
    <2>5. chosen' = FirstOf(tx_pending_pkts, I)
      BY <2>1 DEF Choice, Sending, Receiving
    <2>6. chosen' = tx_pending_pkts[i]
      <3> HIDE DEF I
      <3> QED
        BY <2>3, <2>4, <2>5, FirstIsLeast
    <2>7. Head(tx_pending_pkts') = tx_pending_pkts[i]
      BY <2>2, <2>3, <2>4, ChosenAtHead
    <2>8. tx_pending_pkts' # <<>>
      <3>1. tx_pending_pkts' \in Seq(Dest)
            /\ Len(tx_pending_pkts') = Len(tx_pending_pkts)
        BY <2>2, <2>3, <2>4, MoveToFrontType
      <3> QED
        BY <2>2, <2>4, <3>1, EmptySeq
    <2> QED
      BY <2>1, <2>6, <2>7, <2>8 DEF FrameAtHead, Sending, Receiving
  <1> QED
    BY <1>1, <1>2

\* What the main loop and the other interrupts do, without a choice.
LEMMA OthersKeepHead ==
  ASSUME IInv, FrameAtHead, HOther
  PROVE  FrameAtHead'
  <1>0. chosen' = Choice
    BY DEF HOther
  <1>1. CASE FirstAtim \/ FirstPkt
    BY <1>0, <1>1, FirstAtimChooses, FirstPktChooses
  <1>2. CASE AsyncTxCheck
    <2>1. CASE pc' = "async_tx"
      <3>1. pc = "tx" /\ job' = "DATA" /\ UNCHANGED queues
            /\ tx_pending_pkts # <<>>
        BY <1>2, <2>1 DEF AsyncTxCheck, TxTurn
      <3>2. chosen' = Head(tx_pending_pkts)
        BY <1>0, <2>1, <3>1 DEF Choice, Sending, Receiving
      <3> QED
        BY <2>1, <3>1, <3>2 DEF FrameAtHead, Sending, Receiving, queues
    <2>2. CASE pc' # "async_tx"
      BY <1>2, <2>2 DEF AsyncTxCheck, TxTurn, FrameAtHead, Sending, Receiving
    <2> QED
      BY <2>1, <2>2
  <1>3. CASE AsyncRxCheck
    <2>1. CASE pc' = "rx_atim"
      <3>1. pc = "rx" /\ rx_pending_pkts # <<>> /\ UNCHANGED queues
        BY <1>3, <2>1 DEF AsyncRxCheck
      <3>2. chosen' = Head(rx_pending_pkts)
        BY <1>0, <2>1, <3>1 DEF Choice, Sending, Receiving
      <3> QED
        BY <2>1, <3>1, <3>2 DEF FrameAtHead, Sending, Receiving, queues
    <2>2. CASE pc' # "rx_atim"
      BY <1>3, <2>2 DEF AsyncRxCheck, FrameAtHead, Sending, Receiving
    <2> QED
      BY <2>1, <2>2
  <1>4. CASE pc' \notin Sending \cup Receiving
    BY <1>4 DEF FrameAtHead
  <1>5. CASE AsyncTxSoftBeacon
    BY <1>5 DEF AsyncTxSoftBeacon, FrameAtHead, Sending, Receiving
  <1>6. CASE /\ UNCHANGED queues /\ UNCHANGED job
             /\ \/ {pc, pc'} \subseteq Sending
                \/ {pc, pc'} \subseteq Receiving
    <2>1. chosen' = chosen
      BY <1>0, <1>6 DEF Choice, Sending, Receiving
    <2> QED
      BY <1>6, <2>1 DEF FrameAtHead, queues, Sending, Receiving
  <1>7. CASE /\ UNCHANGED queues
             /\ {pc, pc'} \subseteq Receiving
    <2>1. chosen' = chosen
      BY <1>0, <1>7 DEF Choice, Sending, Receiving
    <2> QED
      BY <1>7, <2>1 DEF FrameAtHead, queues, Sending, Receiving
  <1>8. CASE UNCHANGED <<pc, job, queues>>
    <2>1. CASE pc \in Sending \cup Receiving
      BY <1>6, <1>7, <1>8, <2>1
    <2> QED
      BY <1>4, <1>8, <2>1
  <1>9. CASE /\ pc = "erase" /\ pc' = "erase"
    BY <1>4, <1>9 DEF Sending, Receiving
  <1>10. \/ LoseStatus \/ BeaconConfig \/ AtimWindowEnd \/ SoftBeaconTx
         => UNCHANGED <<pc, job, queues>>
    BY DEF LoseStatus, BeaconConfig, AtimWindowEnd, SoftBeaconTx, loop
  <1>11. ASSUME NEW d \in Receivers, EnqueueData(d)
         PROVE  pc = "erase" /\ pc' = "erase"
    BY <1>11 DEF EnqueueData, loop
  <1>12. \/ EraseNodesCheck \/ EraseAwakeNeighbors \/ PowersaveCheck \/ Powersave
         \/ PowersaveMaskClear \/ RemoveRx \/ CreateAtimPkt
         => pc' \notin Sending \cup Receiving
    BY DEF EraseNodesCheck, EraseAwakeNeighbors, PowersaveCheck, Powersave,
           PowersaveMaskClear, RemoveRx, CreateAtimPkt, Goto, Sending, Receiving,
           IInv, TypeOK, PmOK
  <1>13. \/ RememberAtimDa \/ WriteData \/ SendData \/ AppendChunk
         => UNCHANGED queues /\ UNCHANGED job /\ {pc, pc'} \subseteq Sending
    BY DEF RememberAtimDa, WriteData, SendData, AppendChunk, Goto, Sending
  <1>14. AsyncTx => \/ pc' \notin Sending \cup Receiving
                    \/ /\ UNCHANGED queues /\ UNCHANGED job
                       /\ {pc, pc'} \subseteq Sending
    BY DEF AsyncTx, AfterTx, Goto, Sending, Receiving
  <1>15. \/ ReadOverride \/ WriteOverride \/ ProcessAtim \/ AddAwakeNode
         \/ LinkAwakeNode
         => \/ pc' \notin Sending \cup Receiving
            \/ UNCHANGED queues /\ {pc, pc'} \subseteq Receiving
    BY DEF ReadOverride, WriteOverride, ProcessAtim, AddAwakeNode, LinkAwakeNode,
           Goto, Sending, Receiving
  <1> QED
    BY <1>1, <1>2, <1>3, <1>4, <1>5, <1>6, <1>7, <1>8, <1>9, <1>10, <1>11,
       <1>12, <1>13, <1>14, <1>15 DEF HOther

\* Between the choice and the removal nothing gets before the chosen frame:
\* received frames are appended, the rest of the queues is the loop's.
LEMMA FrameAtHeadStep ==
  IInv /\ FrameAtHead /\ [HNext]_hvars => FrameAtHead'
  <1> SUFFICES ASSUME IInv, FrameAtHead, [HNext]_hvars PROVE FrameAtHead'
    OBVIOUS
  <1>1. CASE UNCHANGED <<pc, job, queues, chosen>>
    BY <1>1 DEF FrameAtHead, queues
  <1>2. HPreTbtt \/ HStatus \/ HBulkOut \/ HAtimWindowStart \/ UNCHANGED hvars
        => UNCHANGED <<pc, job, queues, chosen>>
    BY DEF HPreTbtt, HStatus, HBulkOut, HAtimWindowStart, PreTbtt, TxComp,
           DeviceTakes, BulkOutDone, BulkOutError, LoseBulkOutDone,
           AtimWindowStart, loop, hvars, hist, vars
  <1>3. CASE HRxAtim
    <2>1. PICK n \in Nodes : RxAtim(n)
      BY <1>3 DEF HRxAtim
    <2>2. rx_pending_pkts \in Seq(Nodes)
      BY DEF IInv, TypeOK, QueuesOK
    <2>3. /\ rx_pending_pkts' = Append(rx_pending_pkts, n)
          /\ UNCHANGED <<pc, job, tx_pending_atims, tx_pending_pkts, chosen>>
      BY <1>3, <2>1 DEF HRxAtim, RxAtim, loop
    <2>4. rx_pending_pkts # <<>> => /\ rx_pending_pkts' # <<>>
                                    /\ Head(rx_pending_pkts') = Head(rx_pending_pkts)
      BY <2>2, <2>3, AppendProperties, LenProperties, EmptySeq
    <2> QED
      BY <2>3, <2>4 DEF FrameAtHead
  <1>4. CASE HCreateCheck \/ HDequeue
    BY <1>4 DEF HCreateCheck, HDequeue, CreateCheck, Dequeue, AfterTx, Goto,
                FrameAtHead, Sending, Receiving
  <1>5. CASE HOther
    BY <1>5, OthersKeepHead
  <1> QED
    BY <1>1, <1>2, <1>3, <1>4, <1>5 DEF HNext

\* In any state of any environment, whatever interrupts came in between, the
\* frame the main loop has turned to is the one at the head of its queue, which
\* its next reads and the removal take (ar9170_main.c:1708-1770, 1850-1887).
THEOREM FrameAtHeadHolds == HSpec => []FrameAtHead
  <1>1. HInit => IInv /\ FrameAtHead
    BY TypeInit DEF HInit, Init, FrameAtHead, Sending, Receiving
  <1>2. IInv /\ FrameAtHead /\ [HNext]_hvars => (IInv /\ FrameAtHead)'
    BY HistoryStep, TypeStep, FrameAtHeadStep
  <1> QED
    BY <1>1, <1>2, PTL DEF HSpec
-----------------------------------------------------------------------------
(* Who is awake *)

Picked == {"async_tx", "write", "send"}

\* An ATIM on its way is the one whose receiver the status will be credited to.
Credited(frame) ==
    frame.kind = "ATIM" =>
      frame.da = last_ATIM_DA /\ frame.da \in Dest /\ frame.fresh

Truth ==
    /\ pc \in Picked /\ job = "ATIM" => last_ATIM_DA = Head(tx_pending_atims)
    /\ Credited(bulk_out)
    /\ device # <<>> => Credited(device[1])
    /\ \A i \in DOMAIN rx_pending_pkts : rx_pending_pkts[i] \in heard
    /\ ListStale \/ wake_neighbors \subseteq heard

LEMMA TruthInit == HInit => Truth
  BY DEF HInit, Init, Truth, Credited, Picked, NoFrame

\* Interrupts that bring or take frames
LEMMA InterruptsKeepTruth ==
  ASSUME Orderly, Base, Flight, Truth,
         HPreTbtt \/ HStatus \/ HRxAtim \/ HBulkOut \/ HAtimWindowStart
  PROVE  Truth'
  <1> USE DEF Truth, Credited
  <1>0. /\ device \in Seq(Frame) /\ rx_pending_pkts \in Seq(Nodes)
        /\ bulk_out \in Frame \cup {NoFrame}
    BY DEF Base, IInv, TypeOK, UsbOK, QueuesOK
  <1>1. CASE HPreTbtt
    <2>1. /\ device' = <<>> /\ bulk_out' = NoFrame /\ job' # "ATIM"
          /\ rx_pending_pkts' = <<>> /\ erase_awake_nodes_flag'
      BY <1>1 DEF HPreTbtt, PreTbtt, TbttExpected, CaughtUp, TbttWindow, Orderly,
                  usb, queues, loop
    <2> QED
      BY <2>1 DEF NoFrame, ListStale
  <1>2. CASE HStatus
    <2>1. PICK success \in BOOLEAN :
            /\ TxComp(success)
            /\ heard' = IF /\ Head(device).kind = "ATIM" /\ Head(device).fresh
                           /\ Head(device).da \in Dest
                           /\ success \/ Head(device).da = Bcast
                        THEN heard \cup {Head(device).da} ELSE heard
      BY <1>2 DEF HStatus
    <2>2. /\ device # <<>> /\ device' = Tail(device)
          /\ UNCHANGED <<pc, job, erase_awake_nodes_flag, rx_pending_pkts,
                         tx_pending_atims, bulk_out>>
      BY <2>1 DEF TxComp, flags, queues, usb, loop
    <2>3. pc \notin Busy /\ bulk_out = NoFrame /\ device' = <<>>
      BY <1>0, <2>2 DEF Flight
    <2>4. Head(device) = device[1]
      BY <1>0, <2>2
    <2>5. wake_neighbors \subseteq heard => wake_neighbors' \subseteq heard'
      <3>1. CASE tx_atim_wait
        <4>1. device[1].kind = "ATIM"
          BY <2>2, <3>1 DEF Flight, WaitFor, Base, WaitDiscipline
        <4>2. \/ wake_neighbors' = wake_neighbors
              \/ /\ success \/ last_ATIM_DA = Bcast
                 /\ wake_neighbors' = wake_neighbors \cup {last_ATIM_DA}
          BY <2>1, <3>1 DEF TxComp, HandleAtimStatus, peers
        <4> QED
          BY <2>1, <2>2, <2>4, <4>1, <4>2
      <3>2. CASE ~tx_atim_wait
        BY <2>1, <3>2 DEF TxComp, peers
      <3> QED
        BY <3>1, <3>2
    <2>6. heard \subseteq heard'
      BY <2>1
    <2>7. UNCHANGED ListStale
      BY <2>2 DEF ListStale
    <2> QED
      BY <2>2, <2>3, <2>5, <2>6, <2>7 DEF Busy, Picked, NoFrame
  <1>3. CASE HRxAtim
    <2>1. PICK n \in Nodes :
            /\ rx_pending_pkts' = Append(rx_pending_pkts, n)
            /\ heard' = heard \cup {n}
            /\ UNCHANGED <<peers, loop, erase_awake_nodes_flag, tx_pending_atims,
                           bulk_out, device>>
      BY <1>3 DEF HRxAtim, RxAtim, flags, usb
    <2>2. \A i \in DOMAIN rx_pending_pkts' : rx_pending_pkts'[i] \in heard'
      BY <1>0, <2>1
    <2> QED
      BY <2>1, <2>2 DEF ListStale, peers, loop
  <1>4. CASE HBulkOut
    <2>1. BulkOutDone
      BY <1>4 DEF HBulkOut, Orderly, DeviceTakes, BulkOutError, LoseBulkOutDone
    <2>2. /\ bulk_out # NoFrame /\ bulk_out' = NoFrame /\ device = <<>>
          /\ device' \in {<<>>, <<bulk_out>>}
      BY <2>1 DEF BulkOutDone, TransferEnds, Flight
    <2>3. UNCHANGED <<peers, loop, queues, erase_awake_nodes_flag, heard>>
      BY <1>4, <2>1 DEF HBulkOut, BulkOutDone, flags
    <2>4. device' # <<>> => device'[1] = bulk_out
      BY <2>2
    <2> QED
      BY <2>2, <2>3, <2>4 DEF ListStale, peers, loop, queues, NoFrame
  <1>5. CASE HAtimWindowStart
    BY <1>5 DEF HAtimWindowStart, AtimWindowStart, ListStale, flags, peers, queues,
                usb, loop
  <1> QED
    BY <1>1, <1>2, <1>3, <1>4, <1>5

\* The main loop, and what leaves frames and neighbours alone
LEMMA OthersKeepTruth ==
  ASSUME Orderly, Base, Flight, Truth, AtimsForReceivers,
         HCreateCheck \/ HDequeue \/ HOther
  PROVE  Truth'
  <1> USE DEF Truth, Credited
  <1>0. /\ device \in Seq(Frame) /\ rx_pending_pkts \in Seq(Nodes)
        /\ tx_pending_atims \in Seq(Addr)
    BY DEF Base, IInv, TypeOK, UsbOK, QueuesOK
  <1>1. UNCHANGED heard
    BY DEF HCreateCheck, HDequeue, HOther
  <1>2. ASSUME UNCHANGED <<wake_neighbors, ListStale, rx_pending_pkts>>
        PROVE  /\ \A i \in DOMAIN rx_pending_pkts' : rx_pending_pkts'[i] \in heard'
               /\ ListStale' \/ wake_neighbors' \subseteq heard'
    BY <1>1, <1>2
  <1>3. ASSUME UNCHANGED <<bulk_out, device, last_ATIM_DA>>
        PROVE  Credited(bulk_out)' /\ (device' # <<>> => Credited(device[1])')
    BY <1>3
  <1>4. CASE EraseNodesCheck \/ EraseAwakeNeighbors
    <2>1. /\ UNCHANGED <<rx_pending_pkts, bulk_out, device, last_ATIM_DA>>
          /\ pc' \notin Picked
      BY <1>4 DEF EraseNodesCheck, EraseAwakeNeighbors, Goto, queues, usb, peers,
                  Picked
    <2>2. ListStale' \/ wake_neighbors' \subseteq heard
      BY <1>4 DEF EraseNodesCheck, EraseAwakeNeighbors, Goto, peers, ListStale,
                  Base, CInv, InTime, Orderly
    <2> QED
      BY <1>1, <1>3, <2>1, <2>2
  <1>5. CASE LinkAwakeNode
    <2>1. /\ UNCHANGED <<rx_pending_pkts, bulk_out, device, last_ATIM_DA,
                         ListStale>>
          /\ pc' \notin Picked
          /\ wake_neighbors' = seen_awake \cup {Head(rx_pending_pkts)}
      BY <1>5 DEF LinkAwakeNode, queues, usb, flags, Picked, ListStale
    <2>2. seen_awake \subseteq wake_neighbors
      BY <1>5 DEF LinkAwakeNode, Base, CInv
    <2>3. Head(rx_pending_pkts) \in heard
      <3>1. rx_pending_pkts # <<>>
        BY <1>5 DEF LinkAwakeNode, Base, IInv, FrameQueued, Receiving
      <3> QED
        BY <1>0, <3>1
    <2> QED
      BY <1>1, <1>3, <2>1, <2>2, <2>3
  <1>6. CASE RemoveRx
    <2>1. /\ UNCHANGED <<bulk_out, device, last_ATIM_DA, ListStale, wake_neighbors>>
          /\ pc' \notin Picked /\ rx_pending_pkts' = Tail(rx_pending_pkts)
      BY <1>6 DEF RemoveRx, Goto, usb, flags, peers, Picked, ListStale
    <2>2. rx_pending_pkts # <<>>
      BY <1>6 DEF RemoveRx, Base, IInv, FrameQueued, Receiving
    <2>3. \A i \in DOMAIN rx_pending_pkts' : rx_pending_pkts'[i] \in heard
      BY <1>0, <2>1, <2>2
    <2> QED
      BY <1>1, <1>3, <2>1, <2>3
  <1>7. CASE LoseStatus
    <2>1. device' = <<>>
      BY <1>0, <1>7 DEF LoseStatus, Flight
    <2> QED
      BY <1>2, <1>7, <2>1 DEF LoseStatus, ListStale, flags, peers, queues, usb, loop
  <1>8. CASE SendData
    <2>1. /\ UNCHANGED <<rx_pending_pkts, last_ATIM_DA, ListStale, wake_neighbors>>
          /\ bulk_out' = JobFrame /\ device' = <<>> /\ pc' \notin Picked
      BY <1>8 DEF SendData, Goto, Flight, Busy, queues, flags, peers, Picked,
                  ListStale
    <2>2. job = "ATIM" => /\ tx_pending_atims # <<>>
                          /\ Head(tx_pending_atims) = last_ATIM_DA
      BY <1>8 DEF SendData, Base, IInv, FrameQueued, Sending, Picked
    <2>3. job = "ATIM" => Head(tx_pending_atims) \in Receivers
      BY <1>0, <2>2 DEF AtimsForReceivers
    <2>4. Receivers \subseteq Dest
      BY ConstantsAssumption DEF Dest
    <2>5. Credited(bulk_out)'
      BY <2>1, <2>2, <2>3, <2>4 DEF JobFrame
    <2> QED
      BY <1>2, <2>1, <2>5
  <1>9. CASE RememberAtimDa
    <2>1. /\ UNCHANGED <<rx_pending_pkts, tx_pending_atims, bulk_out, device,
                         ListStale, wake_neighbors>>
          /\ bulk_out = NoFrame /\ device = <<>>
          /\ last_ATIM_DA' = Head(tx_pending_atims)
      BY <1>9 DEF RememberAtimDa, Goto, Flight, Busy, queues, usb, flags, ListStale
    <2> QED
      BY <1>2, <2>1 DEF NoFrame
  <1>10. CASE FirstPkt
    <2>1. /\ UNCHANGED <<rx_pending_pkts, bulk_out, device, last_ATIM_DA, ListStale,
                         wake_neighbors>>
          /\ pc' \in Picked => job' = "DATA"
      BY <1>10 DEF FirstPkt, usb, flags, peers, Picked, ListStale
    <2> QED
      BY <1>2, <1>3, <2>1
  <1>11. CASE AsyncTx \/ WriteData
    <2>1. UNCHANGED <<rx_pending_pkts, tx_pending_atims, bulk_out, device,
                      last_ATIM_DA, ListStale, wake_neighbors, job>>
          /\ pc \in Picked
      BY <1>11 DEF AsyncTx, WriteData, AfterTx, Goto, queues, usb, flags, peers,
                   Picked, ListStale
    <2> QED
      BY <1>2, <1>3, <2>1
  <1>12. CASE \/ PowersaveCheck \/ Powersave \/ PowersaveMaskClear \/ AsyncTxCheck
              \/ FirstAtim \/ AsyncTxSoftBeacon \/ AppendChunk \/ ReadOverride
              \/ WriteOverride \/ AsyncRxCheck \/ ProcessAtim \/ AddAwakeNode
              \/ CreateAtimPkt \/ CreateCheck \/ Dequeue
    <2>1. UNCHANGED <<rx_pending_pkts, bulk_out, device, last_ATIM_DA,
                      wake_neighbors, erase_awake_nodes_flag>>
      BY <1>12 DEF PowersaveCheck, Powersave, PowersaveMaskClear, AsyncTxCheck,
           FirstAtim, AsyncTxSoftBeacon, AppendChunk, ReadOverride, WriteOverride,
           AsyncRxCheck, ProcessAtim, AddAwakeNode, CreateAtimPkt, CreateCheck,
           Dequeue, queues, usb, flags, peers
    <2>2. pc' \notin Picked /\ pc' # "erase_do" /\ pc # "erase_do"
      BY <1>12 DEF PowersaveCheck, Powersave, PowersaveMaskClear, AsyncTxCheck,
           FirstAtim, AsyncTxSoftBeacon, AppendChunk, ReadOverride, WriteOverride,
           AsyncRxCheck, ProcessAtim, AddAwakeNode, CreateAtimPkt, CreateCheck,
           Dequeue, Goto, AfterTx, Picked, TxTurn, Flight, Orderly, Base, IInv,
           TypeOK, PmOK
    <2> QED
      BY <1>2, <1>3, <2>1, <2>2 DEF ListStale
  <1>13. CASE \/ BeaconConfig \/ AtimWindowEnd \/ SoftBeaconTx
              \/ \E d \in Receivers : EnqueueData(d)
    <2>1. UNCHANGED <<rx_pending_pkts, tx_pending_atims, bulk_out, device,
                      last_ATIM_DA, ListStale, wake_neighbors, pc, job>>
      BY <1>13 DEF BeaconConfig, AtimWindowEnd, SoftBeaconTx, EnqueueData, queues,
                   usb, flags, peers, loop, ListStale
    <2> QED
      BY <1>2, <1>3, <2>1
  <1> QED
    BY <1>4, <1>5, <1>6, <1>7, <1>8, <1>9, <1>10, <1>11, <1>12, <1>13
       DEF HCreateCheck, HDequeue, HOther

LEMMA TruthStep ==
  ASSUME Orderly
  PROVE  /\ Base /\ Flight /\ Truth /\ AtimsForReceivers /\ [HNext]_hvars
         => Truth'
  <1> SUFFICES ASSUME Base, Flight, Truth, AtimsForReceivers, [HNext]_hvars
               PROVE  Truth'
    OBVIOUS
  <1>1. CASE UNCHANGED hvars
    BY <1>1 DEF hvars, hist, vars, Truth, Credited, ListStale, flags, peers, queues,
                usb, loop
  <1> QED
    BY <1>1, InterruptsKeepTruth, OthersKeepTruth DEF HNext

LEMMA TruthImplied ==
  ASSUME Orderly
  PROVE  Base /\ Truth => AwakeTruthful
  BY DEF Base, CInv, InTime, Orderly, Truth, ListStale, AwakeTruthful

\* In an orderly interval nobody is taken to be awake who was not heard in it,
\* as long as no ATIM is read through a freed cell: no status is credited to
\* another ATIM than its own, no neighbour is carried over from the interval
\* before (ieee80211_rx.c:553-637, ar9170_scheduler.c:59-75).
THEOREM AwakeTruthfulHolds ==
  Orderly => (HSpec /\ []AtimsForReceivers => []AwakeTruthful)
  <1> SUFFICES ASSUME Orderly
               PROVE  HSpec /\ []AtimsForReceivers => []AwakeTruthful
    OBVIOUS
  <1>1. HInit => Base /\ Flight /\ Truth
    BY BaseInit, FlightInit, TruthInit DEF HInit
  <1>2. /\ Base /\ Flight /\ Truth /\ AtimsForReceivers /\ [HNext]_hvars
        => (Base /\ Flight /\ Truth)'
    BY HistoryStep, BaseStep, FlightStep, TruthStep
  <1> QED
    BY <1>1, <1>2, TruthImplied, PTL DEF HSpec

-----------------------------------------------------------------------------
(* Who is told *)

Holds(s, d) == \E i \in DOMAIN s : s[i] = d
Distinct(s) == \A i, j \in DOMAIN s : s[i] = s[j] => i = j

LEMMA DistinctSuffix ==
  ASSUME NEW S, NEW s \in Seq(S), Distinct(s), NEW i \in 1 .. Len(s)
  PROVE  /\ Distinct(SubSeq(s, i, Len(s)))
         /\ \A k \in i .. Len(s) : Holds(SubSeq(s, i, Len(s)), s[k])
         /\ \A d : Holds(SubSeq(s, i, Len(s)), d) => Holds(s, d)
  <1> DEFINE t == SubSeq(s, i, Len(s))
  <1>1. /\ Len(s) \in Nat /\ DOMAIN s = 1 .. Len(s) /\ i \in Nat /\ 1 <= i
    BY LenProperties
  <1>2. /\ t \in Seq(S) /\ Len(t) = Len(s) - i + 1
        /\ \A k \in 1 .. Len(s) - i + 1 : t[k] = s[i + k - 1]
    BY <1>1, SubSeqProperties
  <1>3. DOMAIN t = 1 .. Len(s) - i + 1
    BY <1>2, LenProperties
  <1> HIDE DEF t
  <1>4. Distinct(t)
    <2> SUFFICES ASSUME NEW j \in DOMAIN t, NEW k \in DOMAIN t, t[j] = t[k]
                 PROVE  j = k
      BY DEF Distinct
    <2>1. s[i + j - 1] = s[i + k - 1]
      BY <1>2, <1>3
    <2>2. i + j - 1 \in DOMAIN s /\ i + k - 1 \in DOMAIN s
      BY <1>1, <1>3
    <2>3. i + j - 1 = i + k - 1
      BY <2>1, <2>2 DEF Distinct
    <2> QED
      BY <1>1, <1>3, <2>3
  <1>5. ASSUME NEW k \in i .. Len(s) PROVE Holds(t, s[k])
    <2>1. k - i + 1 \in DOMAIN t /\ i + (k - i + 1) - 1 = k
      BY <1>1, <1>3
    <2> QED
      BY <1>2, <1>3, <2>1 DEF Holds
  <1>6. ASSUME NEW d, Holds(t, d) PROVE Holds(s, d)
    <2>1. PICK k \in DOMAIN t : t[k] = d
      BY <1>6 DEF Holds
    <2>2. i + k - 1 \in DOMAIN s /\ s[i + k - 1] = d
      BY <1>1, <1>2, <1>3, <2>1
    <2> QED
      BY <2>2 DEF Holds
  <1> QED
    BY <1>4, <1>5, <1>6 DEF t

LEMMA DistinctTail ==
  ASSUME NEW S, NEW s \in Seq(S), s # <<>>, Distinct(s)
  PROVE  /\ Distinct(Tail(s))
         /\ \A d : Holds(s, d) => d = Head(s) \/ Holds(Tail(s), d)
         /\ \A d : Holds(Tail(s), d) => Holds(s, d) /\ d # Head(s)
  <1>1. /\ Head(s) = s[1] /\ Tail(s) \in Seq(S) /\ Len(Tail(s)) = Len(s) - 1
        /\ Len(s) \in Nat \ {0}
        /\ \A k \in 1 .. Len(Tail(s)) : Tail(s)[k] = s[k + 1]
    BY HeadTailProperties, LenProperties, EmptySeq
  <1>2. DOMAIN s = 1 .. Len(s) /\ DOMAIN Tail(s) = 1 .. Len(s) - 1
    BY <1>1, LenProperties
  <1>3. Distinct(Tail(s))
    <2> SUFFICES ASSUME NEW j \in DOMAIN Tail(s), NEW k \in DOMAIN Tail(s),
                        Tail(s)[j] = Tail(s)[k]
                 PROVE  j = k
      BY DEF Distinct
    <2>1. s[j + 1] = s[k + 1] /\ j + 1 \in DOMAIN s /\ k + 1 \in DOMAIN s
      BY <1>1, <1>2
    <2>2. j + 1 = k + 1
      BY <2>1 DEF Distinct
    <2> QED
      BY <1>2, <2>2
  <1>4. ASSUME NEW d, Holds(s, d), d # Head(s) PROVE Holds(Tail(s), d)
    <2>1. PICK k \in DOMAIN s : s[k] = d
      BY <1>4 DEF Holds
    <2>2. k # 1
      BY <1>1, <1>4, <2>1
    <2>3. k - 1 \in DOMAIN Tail(s) /\ (k - 1) + 1 = k
      BY <1>1, <1>2, <2>2
    <2>4. Tail(s)[k - 1] = d
      BY <1>1, <1>2, <2>1, <2>3
    <2> QED
      BY <2>3, <2>4 DEF Holds
  <1>5. ASSUME NEW d, Holds(Tail(s), d) PROVE Holds(s, d) /\ d # Head(s)
    <2>1. PICK k \in DOMAIN Tail(s) : Tail(s)[k] = d
      BY <1>5 DEF Holds
    <2>2. k + 1 \in DOMAIN s /\ s[k + 1] = d /\ k + 1 # 1 /\ 1 \in DOMAIN s
      BY <1>1, <1>2, <2>1
    <2>3. d # Head(s)
      BY <1>1, <2>2 DEF Distinct
    <2> QED
      BY <2>2, <2>3 DEF Holds
  <1> QED
    BY <1>3, <1>4, <1>5

LEMMA DistinctAppend ==
  ASSUME NEW S, NEW s \in Seq(S), NEW e \in S, Distinct(s), ~Holds(s, e)
  PROVE  /\ Distinct(Append(s, e)) /\ Holds(Append(s, e), e)
         /\ \A d : Holds(s, d) => Holds(Append(s, e), d)
  <1>1. /\ Append(s, e) \in Seq(S) /\ Len(Append(s, e)) = Len(s) + 1
        /\ \A k \in 1 .. Len(s) : Append(s, e)[k] = s[k]
        /\ Append(s, e)[Len(s) + 1] = e
    BY AppendProperties
  <1>2. /\ Len(s) \in Nat /\ DOMAIN s = 1 .. Len(s)
        /\ DOMAIN Append(s, e) = 1 .. Len(s) + 1
    BY <1>1, LenProperties
  <1> QED
    BY <1>1, <1>2 DEF Distinct, Holds

\* A queue that is full of different announcements, if it has room for one to
\* every receiver, has one to each.
LEMMA FullQueue ==
  ASSUME IsFiniteSet(Receivers), Cardinality(Receivers) <= MaxPending,
         NEW s \in Seq(Receivers), Distinct(s), Len(s) >= MaxPending,
         NEW d \in Receivers
  PROVE  Holds(s, d)
  <1> DEFINE n == Len(s)
  <1>1. n \in Nat /\ MaxPending \in Nat /\ s \in [1 .. n -> Receivers]
    BY LenProperties, ConstantsAssumption
  <1>2. s \in Injection(1 .. n, Receivers)
    BY <1>1 DEF Injection, IsInjective, Distinct
  <1>3. Cardinality(1 .. n) = n
    <2> HIDE DEF n
    <2>1. Cardinality(1 .. n) = IF 1 > n THEN 0 ELSE n - 1 + 1
      BY <1>1, FS_Interval
    <2> QED
      BY <1>1, <2>1
  <1>4. Cardinality(Receivers) \in Nat
    BY FS_CardinalityType
  <1>5. Cardinality(1 .. n) <= Cardinality(Receivers)
    BY <1>2, FS_Injection
  <1>6. Cardinality(1 .. n) = Cardinality(Receivers)
    BY <1>1, <1>3, <1>4, <1>5
  <1>7. s \in Surjection(1 .. n, Receivers)
    BY <1>2, <1>6, FS_Injection
  <1> QED
    BY <1>1, <1>7 DEF Surjection, Holds

\* What both queues keep, whatever goes wrong: no receiver is announced twice,
\* and packets are for receivers.
Ordered == Distinct(tx_pending_atims) /\ tx_pending_pkts \in Seq(Receivers)

LEMMA OrderedInit == Init => Ordered
  <1>1. Distinct(<<>>) /\ <<>> \in Seq(Receivers)
    BY EmptySeq DEF Distinct
  <1> QED
    BY <1>1 DEF Init, Ordered

LEMMA OrderedStep == IInv /\ Ordered /\ [Next]_vars => Ordered'
  <1> SUFFICES ASSUME IInv, Ordered, [Next]_vars PROVE Ordered'
    OBVIOUS
  <1>0. /\ tx_pending_atims \in Seq(Addr)
        /\ DOMAIN tx_pending_atims = 1 .. Len(tx_pending_atims)
        /\ tx_pending_pkts \in Seq(Receivers)
        /\ DOMAIN tx_pending_pkts = 1 .. Len(tx_pending_pkts)
    BY LenProperties DEF IInv, TypeOK, QueuesOK, Ordered
  <1>1. CASE FirstAtim
    <2>1. CASE \E i \in DOMAIN tx_pending_atims : tx_pending_atims' =
                 SubSeq(tx_pending_atims, i, Len(tx_pending_atims))
      BY <1>0, <2>1, DistinctSuffix, <1>1 DEF Ordered, FirstAtim
    <2>2. CASE tx_pending_atims' \in {<<>>, <<NoNode>>}
      <3>1. Distinct(<<>>) /\ Distinct(<<NoNode>>)
        BY DEF Distinct
      <3> QED
        BY <1>1, <2>2, <3>1 DEF Ordered, FirstAtim
    <2> QED
      BY <1>1, <2>1, <2>2 DEF FirstAtim
  <1>2. CASE Dequeue
    <2>1. /\ pc = "dequeue"
          /\ tx_pending_atims' = tx_pending_atims \/
               (job = "ATIM" /\ tx_pending_atims' = Tail(tx_pending_atims))
          /\ tx_pending_pkts' = tx_pending_pkts \/
               (job = "DATA" /\ tx_pending_pkts' = Tail(tx_pending_pkts))
      BY <1>2 DEF Dequeue
    <2>2. /\ job = "ATIM" => tx_pending_atims # <<>>
          /\ job = "DATA" => tx_pending_pkts # <<>>
      BY <2>1 DEF IInv, FrameQueued, Sending
    <2>3. Distinct(tx_pending_atims')
      BY <1>0, <2>1, <2>2, DistinctTail DEF Ordered
    <2>4. tx_pending_pkts' \in Seq(Receivers)
      BY <1>0, <2>1, <2>2, HeadTailProperties
    <2> QED
      BY <2>3, <2>4 DEF Ordered
  <1>3. CASE CreateAtimPkt
    <2>1. /\ UNCHANGED tx_pending_pkts
          /\ \/ UNCHANGED tx_pending_atims
             \/ /\ idx <= Len(tx_pending_pkts)
                /\ ~Holds(tx_pending_atims, tx_pending_pkts[idx])
                /\ tx_pending_atims' =
                     Append(tx_pending_atims, tx_pending_pkts[idx])
      <3>1. idx \in Nat /\ Len(tx_pending_pkts) \in Nat
        BY <1>0, LenProperties DEF IInv, TypeOK, LoopOK
      <3> QED
        BY <1>3, <3>1 DEF CreateAtimPkt, Holds
    <2>2. CASE UNCHANGED <<tx_pending_atims, tx_pending_pkts>>
      BY <2>2 DEF Ordered
    <2>3. CASE ~UNCHANGED tx_pending_atims
      <3>1. idx \in 1 .. Len(tx_pending_pkts)
        BY <1>0, <2>1, <2>3, LenProperties DEF IInv, TypeOK, LoopOK
      <3>2. tx_pending_pkts[idx] \in Addr
        <4>1. tx_pending_pkts[idx] \in Receivers
          BY <1>0, <3>1, ElementOfSeq
        <4> QED
          BY <4>1, ConstantsAssumption DEF Addr, Dest
      <3>3. ASSUME NEW da \in Addr, ~Holds(tx_pending_atims, da),
                   tx_pending_atims' = Append(tx_pending_atims, da)
            PROVE  Distinct(tx_pending_atims')
        BY <1>0, <3>3, DistinctAppend DEF Ordered
      <3>4. Distinct(tx_pending_atims')
        BY <2>1, <2>3, <3>2, <3>3
      <3> QED
        BY <2>1, <3>4 DEF Ordered
    <2> QED
      BY <2>1, <2>2, <2>3
  <1>4. CASE FirstPkt
    BY <1>0, <1>4, MoveToFrontType DEF FirstPkt, Ordered
  <1>5. ASSUME NEW e \in Receivers, EnqueueData(e) PROVE Ordered'
    BY <1>0, <1>5, AppendProperties DEF EnqueueData, Ordered
  <1>6. CASE UNCHANGED <<tx_pending_atims, tx_pending_pkts>>
    BY <1>6 DEF Ordered
  <1>7. Loop => \/ FirstAtim \/ Dequeue \/ CreateAtimPkt \/ FirstPkt
                \/ UNCHANGED <<tx_pending_atims, tx_pending_pkts>>
    BY DEF Loop, EraseNodesCheck, EraseAwakeNeighbors, PowersaveCheck, Powersave,
           PowersaveMaskClear, AsyncTxCheck, RememberAtimDa, AsyncTx,
           AsyncTxSoftBeacon, WriteData, SendData, AppendChunk, ReadOverride,
           WriteOverride, AsyncRxCheck, ProcessAtim, AddAwakeNode, LinkAwakeNode,
           RemoveRx, CreateCheck, queues
  <1>8. Device \/ Rtimer \/ UNCHANGED vars
        => UNCHANGED <<tx_pending_atims, tx_pending_pkts>>
    BY DEF Device, PreTbtt, Status, TxComp, LoseStatus, BeaconConfig, DeviceTakes,
           BulkOutDone, BulkOutError, LoseBulkOutDone, RxAtim, Rtimer,
           AtimWindowStart, AtimWindowEnd, SoftBeaconTx, queues, vars
  <1> QED
    BY <1>1, <1>2, <1>3, <1>4, <1>5, <1>6, <1>7, <1>8 DEF Next

-----------------------------------------------------------------------------

InAtims(d) == Holds(tx_pending_atims, d)

\* d has been told that there is something for it, or will be, or knows.
Covered(d) == d \in announced \/ InAtims(d) \/ (d \in wake_neighbors /\ ~ListStale)

\* An ATIM on its way has left its queue for the record, or is about to.
Told(frame) ==
    frame.kind = "ATIM" =>
      IF pc = "dequeue" THEN job = "ATIM" /\ frame.da = Head(tx_pending_atims)
      ELSE frame.da \in announced

\* The packets that are to be announced: all of them once the queue has been
\* walked, those before idx while it is walked.
Walked ==
    IF pc = "create_atims"
    THEN /\ \A d \in owed : Holds(tx_pending_pkts, d)
         /\ \A i \in DOMAIN tx_pending_pkts : i < idx => InAtims(tx_pending_pkts[i])
    ELSE idx = 1 /\ \A d \in owed : Covered(d)

\* A neighbour linked while the loop was about to link another was announced.
LinkedMeanwhile ==
    pc = "rx_awake_set" => wake_neighbors \ seen_awake \subseteq announced

Announced ==
    /\ Walked /\ LinkedMeanwhile
    /\ Told(bulk_out) /\ (device # <<>> => Told(device[1]))

\* The conditions: a queue long enough for an ATIM to every receiver.
Roomy == IsFiniteSet(Receivers) /\ Cardinality(Receivers) <= MaxPending

LEMMA AnnouncedInit == HInit => Announced
  BY DEF HInit, Init, Announced, Walked, LinkedMeanwhile, Told, NoFrame

\* Steps that have to do with neither announcements nor neighbours
LEMMA QuietStep ==
  ASSUME Announced,
         UNCHANGED <<announced, owed, wake_neighbors, tx_pending_atims,
                     tx_pending_pkts, idx, bulk_out, device>>,
         ListStale' => ListStale,
         pc \notin {"create_atims", "dequeue"},
         pc' \notin {"create_atims", "dequeue", "rx_awake_set"}
  PROVE  Announced'
  <1>1. \A d : InAtims(d)' = InAtims(d)
    BY DEF InAtims
  <1>2. \A d : Covered(d) => Covered(d)'
    BY <1>1 DEF Covered
  <1>3. Walked'
    BY <1>2 DEF Announced, Walked
  <1>4. Told(bulk_out)' /\ (device' # <<>> => Told(device[1])')
    BY DEF Announced, Told
  <1> QED
    BY <1>3, <1>4 DEF Announced, LinkedMeanwhile

\* Interrupts that leave them alone
LEMMA QuietInterrupt ==
  ASSUME Announced,
         UNCHANGED <<announced, owed, wake_neighbors, tx_pending_atims,
                     tx_pending_pkts, erase_awake_nodes_flag, loop>>,
         bulk_out' \in {bulk_out, NoFrame},
         device' # <<>> => device'[1] = bulk_out \/ UNCHANGED device
  PROVE  Announced'
  <1>1. \A d : Covered(d)' = Covered(d)
    BY DEF Covered, InAtims, ListStale, loop
  <1>2. Walked'
    BY <1>1 DEF Announced, Walked, InAtims, loop
  <1>3. LinkedMeanwhile'
    BY DEF Announced, LinkedMeanwhile, loop
  <1>4. \A f : Told(f)' = Told(f)
    BY DEF Told, loop
  <1>5. Told(NoFrame)
    BY DEF Told, NoFrame
  <1>6. Told(bulk_out)'
    BY <1>4, <1>5 DEF Announced, Told, loop
  <1>7. device' # <<>> => Told(device[1])'
    BY <1>4 DEF Announced, Told, loop
  <1> QED
    BY <1>2, <1>3, <1>6, <1>7 DEF Announced

\* Interrupts
LEMMA InterruptsAnnounce ==
  ASSUME Orderly, Base, Flight, Truth, Announced,
         HPreTbtt \/ HStatus \/ HRxAtim \/ HBulkOut \/ HAtimWindowStart
  PROVE  Announced'
  <1>0. /\ device \in Seq(Frame) /\ bulk_out \in Frame \cup {NoFrame}
    BY DEF Base, IInv, TypeOK, UsbOK
  <1>1. CASE HPreTbtt
    <2>1. /\ device' = <<>> /\ bulk_out' = NoFrame /\ owed' = {}
          /\ pc' = pc /\ idx' = idx /\ pc \notin {"create_atims", "rx_awake_set"}
          /\ UNCHANGED <<tx_pending_atims, tx_pending_pkts>>
      BY <1>1 DEF HPreTbtt, PreTbtt, TbttExpected, CaughtUp, Orderly, usb, queues,
                  loop
    <2> QED
      BY <2>1 DEF Announced, Walked, LinkedMeanwhile, Told, NoFrame
  <1>2. CASE HStatus
    <2>1. PICK success \in BOOLEAN : TxComp(success)
      BY <1>2 DEF HStatus
    <2>2. /\ device # <<>> /\ device' = Tail(device)
          /\ UNCHANGED <<pc, job, idx, seen_awake, erase_awake_nodes_flag,
                         tx_pending_pkts, tx_pending_atims, bulk_out, announced,
                         owed>>
      BY <1>2, <2>1 DEF HStatus, TxComp, flags, queues, usb, loop
    <2>3. bulk_out = NoFrame /\ device' = <<>>
      BY <1>0, <2>2 DEF Flight
    <2>4. \/ wake_neighbors' = wake_neighbors
          \/ /\ tx_atim_wait
             /\ wake_neighbors' = wake_neighbors \cup {last_ATIM_DA}
      BY <2>1 DEF TxComp, HandleAtimStatus, peers
    <2>5. tx_atim_wait => device[1].kind = "ATIM" /\ last_ATIM_DA = device[1].da
      BY <2>2 DEF Flight, WaitFor, Base, WaitDiscipline, Truth, Credited
    <2>6. LinkedMeanwhile'
      <3> SUFFICES ASSUME pc = "rx_awake_set"
                   PROVE  wake_neighbors' \ seen_awake \subseteq announced
        BY <2>2 DEF LinkedMeanwhile
      <3>1. tx_atim_wait => last_ATIM_DA \in announced
        BY <2>2, <2>5 DEF Announced, Told
      <3> QED
        BY <2>4, <3>1 DEF Announced, LinkedMeanwhile
    <2>7. \A d : Covered(d) => Covered(d)'
      BY <2>2, <2>4 DEF Covered, InAtims, ListStale
    <2>8. Walked'
      BY <2>2, <2>7 DEF Announced, Walked, InAtims
    <2> QED
      BY <2>2, <2>3, <2>6, <2>8 DEF Announced, Told, NoFrame
  <1>3. CASE HRxAtim
    BY <1>3, QuietInterrupt DEF HRxAtim, RxAtim, flags, peers, usb
  <1>4. CASE HBulkOut
    <2>1. BulkOutDone
      BY <1>4 DEF HBulkOut, Orderly, DeviceTakes, BulkOutError, LoseBulkOutDone
    <2>2. /\ bulk_out' = NoFrame /\ device = <<>>
          /\ device' \in {<<>>, <<bulk_out>>}
      BY <2>1 DEF BulkOutDone, TransferEnds, Flight
    <2>3. UNCHANGED <<peers, loop, queues, erase_awake_nodes_flag, announced, owed>>
      BY <1>4, <2>1 DEF HBulkOut, BulkOutDone, flags
    <2>4. device' # <<>> => device'[1] = bulk_out
      BY <2>2
    <2> QED
      BY <2>2, <2>3, <2>4, QuietInterrupt DEF peers, queues
  <1>5. CASE HAtimWindowStart
    BY <1>5, QuietInterrupt DEF HAtimWindowStart, AtimWindowStart, flags, peers,
                                queues, usb
  <1> QED
    BY <1>1, <1>2, <1>3, <1>4, <1>5

\* The steps of the loop that choose, send and remove what is announced
LEMMA SendingAnnounces ==
  ASSUME Orderly, Base, Flight, Truth, Ordered, Announced, AtimsForReceivers,
         HDequeue \/ (HOther /\ (FirstAtim \/ SendData))
  PROVE  Announced'
  <1>0. /\ tx_pending_atims \in Seq(Addr)
        /\ DOMAIN tx_pending_atims = 1 .. Len(tx_pending_atims)
        /\ Len(tx_pending_atims) \in Nat
    BY LenProperties DEF Base, IInv, TypeOK, QueuesOK
  <1>1. CASE HOther /\ FirstAtim
    <2>1. /\ UNCHANGED <<wake_neighbors, ListStale, tx_pending_pkts, idx, bulk_out,
                         device, announced, owed>>
          /\ pc = "first_atim" /\ pc' \in {"last_da", "rx"}
      BY <1>1 DEF FirstAtim, HOther, flags, peers, usb, ListStale
    <2>2. \A d \in wake_neighbors : IsDaAwake(d) => ~ListStale
      BY DEF IsDaAwake, Base, CInv, InTime, Orderly, ListStale
    <2>3. \A j \in DOMAIN tx_pending_atims :
            ~IsDaAwake(tx_pending_atims[j])
            => Holds(tx_pending_atims', tx_pending_atims[j])
      <3>1. CASE \E i \in DOMAIN tx_pending_atims :
                   /\ \A j \in DOMAIN tx_pending_atims :
                        ~IsDaAwake(tx_pending_atims[j]) => i <= j
                   /\ tx_pending_atims' =
                        SubSeq(tx_pending_atims, i, Len(tx_pending_atims))
        <4>1. PICK i \in DOMAIN tx_pending_atims :
                   /\ \A j \in DOMAIN tx_pending_atims :
                        ~IsDaAwake(tx_pending_atims[j]) => i <= j
                   /\ tx_pending_atims' =
                        SubSeq(tx_pending_atims, i, Len(tx_pending_atims))
          BY <3>1
        <4>2. i \in 1 .. Len(tx_pending_atims) /\ Distinct(tx_pending_atims)
          BY <1>0 DEF Ordered
        <4>3. \A k \in i .. Len(tx_pending_atims) :
                Holds(tx_pending_atims', tx_pending_atims[k])
          BY <1>0, <4>1, <4>2, DistinctSuffix
        <4> QED
          BY <1>0, <4>1, <4>3
      <3>2. CASE \A j \in DOMAIN tx_pending_atims : IsDaAwake(tx_pending_atims[j])
        BY <3>2
      <3> QED
        BY <1>1, <3>1, <3>2 DEF FirstAtim
    <2>4. \A d : Covered(d) => Covered(d)'
      <3> SUFFICES ASSUME NEW d, InAtims(d)
                   PROVE  Covered(d)'
        BY <2>1 DEF Covered
      <3>1. PICK j \in DOMAIN tx_pending_atims : tx_pending_atims[j] = d
        BY DEF InAtims, Holds
      <3>2. CASE IsDaAwake(d)
        BY <2>1, <2>2, <3>2 DEF Covered, IsDaAwake
      <3>3. CASE ~IsDaAwake(d)
        BY <2>3, <3>1, <3>3 DEF Covered, InAtims
      <3> QED
        BY <3>2, <3>3
    <2>5. Walked' /\ LinkedMeanwhile'
      BY <2>1, <2>4 DEF Announced, Walked, LinkedMeanwhile
    <2>6. Told(bulk_out)' /\ (device' # <<>> => Told(device[1])')
      BY <2>1 DEF Announced, Told
    <2> QED
      BY <2>5, <2>6 DEF Announced
  <1>2. CASE HOther /\ SendData
    <2>1. /\ UNCHANGED <<wake_neighbors, ListStale, tx_pending_atims,
                         tx_pending_pkts, job, idx, announced, owed>>
          /\ pc = "send" /\ pc' = "dequeue"
          /\ bulk_out' = JobFrame /\ device' = <<>>
      BY <1>2 DEF SendData, HOther, Goto, Flight, Busy, queues,
                  flags, peers, ListStale
    <2>2. \A d : Covered(d)' = Covered(d)
      BY <2>1 DEF Covered, InAtims
    <2>3. Walked' /\ LinkedMeanwhile'
      BY <2>1, <2>2 DEF Announced, Walked, LinkedMeanwhile
    <2>4. Told(bulk_out)'
      BY <2>1 DEF Told, JobFrame
    <2> QED
      BY <2>1, <2>3, <2>4 DEF Announced
  <1>3. CASE HDequeue
    <2>1. /\ UNCHANGED <<wake_neighbors, ListStale, idx, bulk_out, device, owed>>
          /\ pc = "dequeue" /\ pc' \in {"override", "rx"}
      BY <1>3 DEF HDequeue, Dequeue, AfterTx, flags, peers, usb, ListStale
    <2>2. CASE job = "ATIM"
      <3>1. /\ tx_pending_atims' = Tail(tx_pending_atims)
            /\ UNCHANGED tx_pending_pkts
            /\ announced' = announced \cup {Head(tx_pending_atims)}
        BY <1>3, <2>2 DEF HDequeue, Dequeue
      <3>2. tx_pending_atims # <<>>
        BY <1>3, <2>2 DEF HDequeue, Dequeue, Base, IInv, FrameQueued, Sending
      <3>3. \A d : InAtims(d) => d = Head(tx_pending_atims) \/ InAtims(d)'
        BY <1>0, <3>1, <3>2, DistinctTail DEF Ordered, InAtims
      <3>4. \A d : Covered(d) => Covered(d)'
        BY <2>1, <3>1, <3>3 DEF Covered
      <3>5. Walked' /\ LinkedMeanwhile'
        BY <2>1, <3>4 DEF Announced, Walked, LinkedMeanwhile
      <3>6. Told(bulk_out)' /\ (device' # <<>> => Told(device[1])')
        BY <2>1, <3>1 DEF Announced, Told
      <3> QED
        BY <3>5, <3>6 DEF Announced
    <2>3. CASE job # "ATIM"
      <3>1. tx_pending_atims' = tx_pending_atims /\ announced' = announced
        BY <1>3, <2>3 DEF HDequeue, Dequeue
      <3>2. \A d : Covered(d) => Covered(d)'
        BY <2>1, <3>1 DEF Covered, InAtims
      <3>3. Walked' /\ LinkedMeanwhile'
        BY <2>1, <3>2 DEF Announced, Walked, LinkedMeanwhile
      <3>4. Told(bulk_out)' /\ (device' # <<>> => Told(device[1])')
        BY <2>1, <2>3, <3>1 DEF Announced, Told
      <3> QED
        BY <3>3, <3>4 DEF Announced
    <2> QED
      BY <2>2, <2>3
  <1> QED
    BY <1>1, <1>2, <1>3

\* The steps of the loop that walk the packets
LEMMA CreatingAnnounces ==
  ASSUME Roomy, Base, Ordered, Announced, AtimsForReceivers,
         HCreateCheck \/ (HOther /\ CreateAtimPkt)
  PROVE  Announced'
  <1>0. /\ tx_pending_atims \in Seq(Addr)
        /\ DOMAIN tx_pending_atims = 1 .. Len(tx_pending_atims)
        /\ tx_pending_pkts \in Seq(Receivers)
        /\ DOMAIN tx_pending_pkts = 1 .. Len(tx_pending_pkts)
        /\ Len(tx_pending_atims) \in Nat /\ Len(tx_pending_pkts) \in Nat
        /\ idx \in Nat \ {0}
    BY LenProperties DEF Base, IInv, TypeOK, QueuesOK, LoopOK, Ordered
  <1>1. CASE HCreateCheck
    <2>1. /\ UNCHANGED <<wake_neighbors, ListStale, tx_pending_atims,
                         tx_pending_pkts, job, idx, announced, bulk_out, device>>
          /\ pc = "create" /\ pc' \in {"create_atims", "erase"} /\ idx = 1
      BY <1>1 DEF HCreateCheck, CreateCheck, Goto, queues, peers, usb, ListStale,
                  Announced, Walked
    <2>2. Told(bulk_out)' /\ (device' # <<>> => Told(device[1])')
      BY <2>1 DEF Announced, Told
    <2>3. CASE pc' = "create_atims"
      <3>1. owed' = {tx_pending_pkts[i] : i \in DOMAIN tx_pending_pkts}
        BY <1>1, <2>3 DEF HCreateCheck, CreateCheck, Goto
      <3>2. \A d \in owed' : Holds(tx_pending_pkts', d)
        BY <2>1, <3>1 DEF Holds
      <3>3. \A i \in DOMAIN tx_pending_pkts' : ~(i < idx')
        BY <1>0, <2>1
      <3> QED
        BY <2>1, <2>2, <2>3, <3>2, <3>3 DEF Announced, Walked, LinkedMeanwhile
    <2>4. CASE pc' = "erase"
      <3>1. owed' = owed
        BY <1>1, <2>4 DEF HCreateCheck, CreateCheck, Goto
      <3>2. \A d : Covered(d)' = Covered(d)
        BY <2>1 DEF Covered, InAtims
      <3> QED
        BY <2>1, <2>2, <2>4, <3>1, <3>2 DEF Announced, Walked, LinkedMeanwhile
    <2> QED
      BY <2>1, <2>3, <2>4
  <1>2. CASE HOther /\ CreateAtimPkt
    <2>1. /\ UNCHANGED <<wake_neighbors, ListStale, tx_pending_pkts, bulk_out,
                         device, announced, owed>>
          /\ pc = "create_atims" /\ pc' \in {"create_atims", "erase"}
      BY <1>2 DEF CreateAtimPkt, HOther, peers, flags, usb, ListStale
    <2>2. Told(bulk_out)' /\ (device' # <<>> => Told(device[1])')
      BY <2>1 DEF Announced, Told
    <2>3. CASE idx > Len(tx_pending_pkts)
      <3>1. pc' = "erase" /\ idx' = 1 /\ UNCHANGED tx_pending_atims
        BY <1>2, <2>3 DEF CreateAtimPkt
      <3>2. \A i \in DOMAIN tx_pending_pkts : i < idx
        BY <1>0, <2>3
      <3>3. \A d \in owed : InAtims(d)
        BY <2>1, <3>2 DEF Announced, Walked, Holds
      <3>4. \A d : InAtims(d)' = InAtims(d)
        BY <3>1 DEF InAtims
      <3> QED
        BY <2>1, <2>2, <3>1, <3>3, <3>4
           DEF Announced, Walked, LinkedMeanwhile, Covered
    <2>4. CASE idx \in 1 .. Len(tx_pending_pkts)
      <3> DEFINE da == tx_pending_pkts[idx]
      <3>1. da \in Receivers /\ da \in Addr
        <4>1. da \in Receivers
          BY <1>0, <2>4, ElementOfSeq
        <4> QED
          BY <4>1, ConstantsAssumption DEF Addr, Dest
      <3>2. /\ pc' = pc /\ idx' = idx + 1
            /\ tx_pending_atims' =
                 IF InAtims(da) \/ Len(tx_pending_atims) >= MaxPending
                 THEN tx_pending_atims ELSE Append(tx_pending_atims, da)
        BY <1>0, <1>2, <2>4 DEF CreateAtimPkt, InAtims, Holds
      <3> HIDE DEF da
      <3>3. Holds(tx_pending_atims', da) /\ \A d : InAtims(d) => InAtims(d)'
        <4>1. CASE InAtims(da)
          BY <3>2, <4>1 DEF InAtims
        <4>2. CASE ~InAtims(da) /\ Len(tx_pending_atims) >= MaxPending
          <5>1. tx_pending_atims \in Seq(Receivers)
            <6>1. \A i \in 1 .. Len(tx_pending_atims) :
                     tx_pending_atims[i] \in Receivers
              BY <1>0 DEF AtimsForReceivers
            <6> QED
              BY <1>0, <6>1, SeqDef
          <5>2. InAtims(da)
            BY <3>1, <4>2, <5>1, FullQueue DEF Roomy, Ordered, InAtims
          <5> QED
            BY <4>2, <5>2
        <4>3. CASE ~InAtims(da) /\ ~(Len(tx_pending_atims) >= MaxPending)
          BY <1>0, <3>1, <3>2, <4>3, DistinctAppend DEF Ordered, InAtims
        <4> QED
          BY <4>1, <4>2, <4>3
      <3>4. ASSUME NEW i \in DOMAIN tx_pending_pkts, i < idx + 1
            PROVE  Holds(tx_pending_atims', tx_pending_pkts[i])
        <4>1. i < idx \/ i = idx
          BY <1>0, <3>4
        <4>2. CASE i < idx
          <5>1. InAtims(tx_pending_pkts[i])
            BY <2>1, <4>2 DEF Announced, Walked
          <5> QED
            BY <3>3, <5>1 DEF InAtims
        <4>3. CASE i = idx
          BY <3>3, <4>3 DEF da
        <4> QED
          BY <4>1, <4>2, <4>3
      <3>5. Walked'
        BY <2>1, <3>2, <3>4 DEF Announced, Walked, InAtims
      <3> QED
        BY <2>1, <2>2, <3>2, <3>5 DEF Announced, LinkedMeanwhile
    <2> QED
      BY <1>0, <2>3, <2>4
  <1> QED
    BY <1>1, <1>2

\* The steps that change the awake list, or the packets
LEMMA NeighboursAnnounced ==
  ASSUME Orderly, Base, Flight, Announced, HOther,
         \/ EraseNodesCheck \/ EraseAwakeNeighbors \/ AddAwakeNode
         \/ LinkAwakeNode \/ FirstPkt \/ \E d \in Receivers : EnqueueData(d)
  PROVE  Announced'
  <1>0. UNCHANGED <<announced, owed>>
    BY DEF HOther
  <1>1. CASE EraseNodesCheck
    <2>1. /\ UNCHANGED <<wake_neighbors, tx_pending_atims, tx_pending_pkts, idx,
                         bulk_out, device>>
          /\ pc = "erase" /\ pc' \in {"erase_do", "powersave"}
          /\ ListStale' => ListStale
      BY <1>1 DEF EraseNodesCheck, Goto, queues, peers, usb, ListStale
    <2> QED
      BY <1>0, <2>1, QuietStep
  <1>2. CASE EraseAwakeNeighbors
    <2>1. /\ UNCHANGED <<tx_pending_atims, tx_pending_pkts, idx, bulk_out, device>>
          /\ pc = "erase_do" /\ pc' = "powersave" /\ ListStale
      BY <1>2 DEF EraseAwakeNeighbors, Goto, queues, usb, ListStale
    <2>2. \A d : Covered(d) => Covered(d)'
      BY <1>0, <2>1 DEF Covered, InAtims
    <2> QED
      BY <1>0, <2>1, <2>2 DEF Announced, Walked, LinkedMeanwhile, Told
  <1>3. CASE AddAwakeNode
    <2>1. /\ UNCHANGED <<tx_pending_atims, tx_pending_pkts, idx, bulk_out, device,
                         wake_neighbors, ListStale>>
          /\ pc = "rx_awake" /\ pc' \in {"rx_remove", "rx_awake_set"}
          /\ pc' = "rx_awake_set" => seen_awake' = wake_neighbors
      BY <1>3 DEF AddAwakeNode, queues, peers, flags, usb, ListStale
    <2>2. \A d : Covered(d)' = Covered(d)
      BY <1>0, <2>1 DEF Covered, InAtims
    <2> QED
      BY <1>0, <2>1, <2>2 DEF Announced, Walked, LinkedMeanwhile, Told
  <1>4. CASE LinkAwakeNode
    <2>1. /\ UNCHANGED <<tx_pending_atims, tx_pending_pkts, idx, bulk_out, device,
                         ListStale>>
          /\ pc = "rx_awake_set" /\ pc' = "rx_remove"
          /\ seen_awake \subseteq wake_neighbors'
      BY <1>4 DEF LinkAwakeNode, queues, flags, usb, ListStale
    <2>2. \A d \in wake_neighbors : d \in wake_neighbors' \/ d \in announced
      BY <2>1 DEF Announced, LinkedMeanwhile
    <2>3. \A d : Covered(d) => Covered(d)'
      BY <1>0, <2>1, <2>2 DEF Covered, InAtims
    <2> QED
      BY <1>0, <2>1, <2>3 DEF Announced, Walked, LinkedMeanwhile, Told
  <1>5. CASE FirstPkt
    <2>1. /\ UNCHANGED <<tx_pending_atims, idx, bulk_out, device, wake_neighbors,
                         ListStale>>
          /\ pc = "first_pkt" /\ pc' \in {"async_tx", "rx"}
      BY <1>5 DEF FirstPkt, peers, flags, usb, ListStale
    <2>2. \A d : Covered(d)' = Covered(d)
      BY <1>0, <2>1 DEF Covered, InAtims
    <2> QED
      BY <1>0, <2>1, <2>2 DEF Announced, Walked, LinkedMeanwhile, Told
  <1>6. ASSUME NEW e \in Receivers, EnqueueData(e) PROVE Announced'
    <2>1. /\ UNCHANGED <<tx_pending_atims, bulk_out, device, wake_neighbors,
                         ListStale, loop>>
          /\ pc = "erase"
      BY <1>6 DEF EnqueueData, peers, flags, usb, loop, ListStale
    <2>2. \A d : Covered(d)' = Covered(d)
      BY <1>0, <2>1 DEF Covered, InAtims
    <2> QED
      BY <1>0, <2>1, <2>2 DEF Announced, Walked, LinkedMeanwhile, Told, loop
  <1> QED
    BY <1>1, <1>2, <1>3, <1>4, <1>5, <1>6

\* Every other step
LEMMA OthersAnnounce ==
  ASSUME Roomy, Orderly, Base, Flight, Truth, Ordered, Announced, AtimsForReceivers,
         HCreateCheck \/ HDequeue \/ HOther
  PROVE  Announced'
  <1>1. CASE \/ HCreateCheck \/ HDequeue
             \/ HOther /\ (CreateAtimPkt \/ FirstAtim \/ SendData)
             \/ HOther /\ \/ EraseNodesCheck \/ EraseAwakeNeighbors
                          \/ AddAwakeNode \/ LinkAwakeNode \/ FirstPkt
                          \/ \E d \in Receivers : EnqueueData(d)
    BY <1>1, SendingAnnounces, CreatingAnnounces, NeighboursAnnounced
  <1>2. CASE HOther /\ (BeaconConfig \/ AtimWindowEnd \/ SoftBeaconTx \/ LoseStatus)
    <2>1. /\ UNCHANGED <<announced, owed, wake_neighbors, tx_pending_atims,
                         tx_pending_pkts, erase_awake_nodes_flag, loop, bulk_out>>
          /\ device' = device \/ LoseStatus
      BY <1>2 DEF HOther, BeaconConfig, AtimWindowEnd, SoftBeaconTx, LoseStatus,
                  flags, peers, queues, usb
    <2>2. LoseStatus => device' = <<>>
      BY DEF LoseStatus, Flight, Base, IInv, TypeOK, UsbOK
    <2> QED
      BY <2>1, <2>2, QuietInterrupt
  <1>3. CASE HOther /\ \/ PowersaveCheck \/ Powersave \/ PowersaveMaskClear
                       \/ AsyncTxCheck \/ RememberAtimDa \/ AsyncTx
                       \/ AsyncTxSoftBeacon \/ AppendChunk \/ ReadOverride
                       \/ WriteOverride \/ AsyncRxCheck \/ ProcessAtim \/ RemoveRx
    <2>1. UNCHANGED <<announced, owed, wake_neighbors, tx_pending_atims,
                      tx_pending_pkts, idx, bulk_out, device,
                      erase_awake_nodes_flag>>
      BY <1>3 DEF HOther, PowersaveCheck, Powersave, PowersaveMaskClear,
           AsyncTxCheck, RememberAtimDa, AsyncTx, AsyncTxSoftBeacon, AppendChunk,
           ReadOverride, WriteOverride, AsyncRxCheck, ProcessAtim, RemoveRx, Goto,
           flags, peers, queues, usb
    <2>2. /\ pc \notin {"create_atims", "dequeue"}
          /\ pc' \notin {"create_atims", "dequeue", "rx_awake_set", "erase_do"}
      BY <1>3 DEF PowersaveCheck, Powersave, PowersaveMaskClear, AsyncTxCheck,
           RememberAtimDa, AsyncTx, AsyncTxSoftBeacon, AppendChunk, ReadOverride,
           WriteOverride, AsyncRxCheck, ProcessAtim, RemoveRx, Goto, AfterTx,
           TxTurn, Flight, Base, IInv, TypeOK, PmOK
    <2> QED
      BY <2>1, <2>2, QuietStep DEF ListStale
  <1>4. CASE HOther /\ WriteData
    <2>1. /\ UNCHANGED <<announced, owed, wake_neighbors, tx_pending_atims,
                         tx_pending_pkts, idx, bulk_out, device,
                         erase_awake_nodes_flag>>
          /\ pc = "write"
      BY <1>4 DEF HOther, WriteData, Goto, flags, peers, queues, usb
    <2>2. pc' \in {"send", "append"}
      BY <1>4 DEF WriteData, Goto, Flight, NoOrphanChunk
    <2> QED
      BY <2>1, <2>2, QuietStep DEF ListStale
  <1> QED
    BY <1>1, <1>2, <1>3, <1>4 DEF HOther

LEMMA AnnouncedStep ==
  ASSUME Roomy, Orderly
  PROVE  /\ Base /\ Flight /\ Truth /\ Ordered /\ Announced
         /\ AtimsForReceivers /\ [HNext]_hvars
         => Announced'
  <1> SUFFICES ASSUME Base, Flight, Truth, Ordered, Announced, AtimsForReceivers,
                      [HNext]_hvars
               PROVE  Announced'
    OBVIOUS
  <1>1. CASE UNCHANGED hvars
    BY <1>1, QuietInterrupt DEF hvars, hist, vars, flags, peers, queues, usb
  <1> QED
    BY <1>1, InterruptsAnnounce, OthersAnnounce DEF HNext

LEMMA AnnouncedImplied == Announced => EveryPacketAnnounced
  BY DEF Announced, Walked, Covered, InAtims, Holds, EveryPacketAnnounced

\* In an orderly interval, if the queue of ATIMs can hold one for every
\* receiver and none is read through a freed cell, no pending packet is
\* forgotten: its receiver was told, will be, or was heard, also if an
\* acknowledgement interrupts the loop while it links a neighbour
\* (ieee80211_psm.c:159-276, 368-456).
THEOREM EveryPacketAnnouncedHolds ==
  Roomy /\ Orderly => (HSpec /\ []AtimsForReceivers => []EveryPacketAnnounced)
  <1> SUFFICES ASSUME Roomy, Orderly
               PROVE  HSpec /\ []AtimsForReceivers => []EveryPacketAnnounced
    OBVIOUS
  <1>1. HInit => Base /\ Flight /\ Truth /\ Ordered /\ Announced
    BY BaseInit, FlightInit, TruthInit, OrderedInit, AnnouncedInit DEF HInit
  <1>2. /\ Base /\ Flight /\ Truth /\ Ordered /\ Announced /\ AtimsForReceivers
        /\ [HNext]_hvars
        => (Base /\ Flight /\ Truth /\ Ordered /\ Announced)'
    BY HistoryStep, BaseStep, FlightStep, TruthStep, OrderedStep, AnnouncedStep
       DEF Base
  <1> QED
    BY <1>1, <1>2, AnnouncedImplied, PTL DEF HSpec

-----------------------------------------------------------------------------
(* One neighbour *)

\* With a single neighbour the list cell of the ATIM queue is never read after
\* it was freed, which discharges the condition of the two theorems above.
OneNeighbour == \E n : Nodes = {n}

AtimUnderWay ==
    \/ pc \in Busy \cup {"dequeue"} /\ job = "ATIM"
    \/ bulk_out.kind = "ATIM"
    \/ device # <<>> /\ device[1].kind = "ATIM"

\* ATIMs are created before any of the interval is sent, while nobody is known
\* to have received a broadcast one.
CreatedFirst ==
    /\ create_atims_flag => psm_state = "PRE_TBTT"
    /\ AtimUnderWay => ~create_atims_flag /\ pc # "create_atims"
    /\ pc = "first_atim" => ~create_atims_flag /\ psm_state # "PRE_TBTT"
    /\ create_atims_flag \/ pc = "create_atims"
       => Bcast \notin wake_neighbors \/ ListStale

LEMMA CreatedFirstInit == Init => CreatedFirst
  BY DEF Init, CreatedFirst, AtimUnderWay, NoFrame, Busy

\* The list of awake neighbours changes in the loop only where it is erased or
\* linked.
LEMMA LoopKeepsList ==
  ASSUME Orderly, Base, Loop
  PROVE  /\ ListStale' = ListStale \/ wake_neighbors' = {}
         /\ Bcast \in wake_neighbors' => Bcast \in wake_neighbors
  <1>1. CASE EraseNodesCheck
    BY <1>1 DEF EraseNodesCheck, Goto, peers, ListStale, Base, CInv, InTime, Orderly
  <1>2. CASE EraseAwakeNeighbors
    BY <1>2 DEF EraseAwakeNeighbors
  <1>3. CASE LinkAwakeNode
    <2>1. Head(rx_pending_pkts) \in Nodes
      <3>1. rx_pending_pkts \in Seq(Nodes) /\ rx_pending_pkts # <<>>
        BY <1>3 DEF LinkAwakeNode, Base, IInv, TypeOK, QueuesOK, FrameQueued,
                    Receiving
      <3> QED
        BY <3>1, HeadTailProperties
    <2>2. seen_awake \subseteq wake_neighbors
      BY <1>3 DEF LinkAwakeNode, Base, CInv
    <2> QED
      BY <1>3, <2>1, <2>2, ConstantsAssumption
         DEF LinkAwakeNode, ListStale, flags
  <1>4. CASE UNCHANGED <<wake_neighbors, ListStale>>
    BY <1>4
  <1>5. UNCHANGED <<wake_neighbors, ListStale>>
        \/ EraseNodesCheck \/ EraseAwakeNeighbors \/ LinkAwakeNode
    BY DEF Loop, PowersaveCheck, Powersave, PowersaveMaskClear, AsyncTxCheck,
           TxTurn, FirstAtim, RememberAtimDa, FirstPkt, AsyncTx, AsyncTxSoftBeacon,
           WriteData, SendData, AppendChunk, Dequeue, AfterTx, ReadOverride,
           WriteOverride, AsyncRxCheck, ProcessAtim, AddAwakeNode, RemoveRx,
           CreateCheck, CreateAtimPkt, Goto, peers, flags, ListStale, Base, IInv,
           TypeOK, PmOK
  <1> QED
    BY <1>1, <1>2, <1>3, <1>4, <1>5

LEMMA LoopCreatesFirst ==
  ASSUME Orderly, Base, Flight, CreatedFirst, Loop
  PROVE  CreatedFirst'
  <1>1. UNCHANGED psm_state /\ (create_atims_flag' => create_atims_flag)
    BY DEF Loop, EraseNodesCheck, EraseAwakeNeighbors, PowersaveCheck, Powersave,
           PowersaveMaskClear, AsyncTxCheck, FirstAtim, RememberAtimDa, FirstPkt,
           AsyncTx, AsyncTxSoftBeacon, WriteData, SendData, AppendChunk, Dequeue,
           ReadOverride, WriteOverride, AsyncRxCheck, ProcessAtim, AddAwakeNode,
           LinkAwakeNode, RemoveRx, CreateCheck, CreateAtimPkt, pm, flags
  <1>2. AtimUnderWay' => AtimUnderWay \/ pc = "first_atim"
    <2>1. CASE SendData
      BY <2>1 DEF SendData, Goto, AtimUnderWay, JobFrame, Busy
    <2>2. CASE Loop /\ ~SendData
      <3>1. UNCHANGED <<bulk_out, device>>
        BY <2>2 DEF Loop, EraseNodesCheck, EraseAwakeNeighbors, PowersaveCheck,
           Powersave, PowersaveMaskClear, AsyncTxCheck, FirstAtim, RememberAtimDa,
           FirstPkt, AsyncTx, AsyncTxSoftBeacon, WriteData, AppendChunk, Dequeue,
           ReadOverride, WriteOverride, AsyncRxCheck, ProcessAtim, AddAwakeNode,
           LinkAwakeNode, RemoveRx, CreateCheck, CreateAtimPkt, usb
      <3>2. pc' \in Busy \cup {"dequeue"} /\ job' = "ATIM"
            => pc = "first_atim" \/ (pc \in Busy /\ job = "ATIM")
        BY <2>2 DEF Loop, EraseNodesCheck, EraseAwakeNeighbors, PowersaveCheck,
           Powersave, PowersaveMaskClear, AsyncTxCheck, TxTurn, FirstAtim,
           RememberAtimDa, FirstPkt, AsyncTx, AsyncTxSoftBeacon, WriteData,
           AppendChunk, Dequeue, AfterTx, ReadOverride, WriteOverride,
           AsyncRxCheck, ProcessAtim, AddAwakeNode, LinkAwakeNode, RemoveRx,
           CreateCheck, CreateAtimPkt, Goto, Busy, Base, IInv, TypeOK, PmOK, Flight
      <3> QED
        BY <3>1, <3>2 DEF AtimUnderWay
    <2> QED
      BY <2>1, <2>2
  <1>3. pc' = "create_atims" => create_atims_flag \/ pc = "create_atims"
    BY DEF Loop, EraseNodesCheck, EraseAwakeNeighbors, PowersaveCheck, Powersave,
           PowersaveMaskClear, AsyncTxCheck, TxTurn, FirstAtim, RememberAtimDa,
           FirstPkt, AsyncTx, AsyncTxSoftBeacon, WriteData, SendData, AppendChunk,
           Dequeue, AfterTx, ReadOverride, WriteOverride, AsyncRxCheck,
           ProcessAtim, AddAwakeNode, LinkAwakeNode, RemoveRx, CreateCheck,
           CreateAtimPkt, Goto, Base, IInv, TypeOK, PmOK
  <1>4. /\ pc' = "first_atim" => psm_state = "ATIM"
        /\ pc = "first_atim" => pc' # "create_atims"
    BY DEF Loop, EraseNodesCheck, EraseAwakeNeighbors, PowersaveCheck, Powersave,
           PowersaveMaskClear, AsyncTxCheck, TxTurn, FirstAtim, RememberAtimDa,
           FirstPkt, AsyncTx, AsyncTxSoftBeacon, WriteData, SendData, AppendChunk,
           Dequeue, AfterTx, ReadOverride, WriteOverride, AsyncRxCheck,
           ProcessAtim, AddAwakeNode, LinkAwakeNode, RemoveRx, CreateCheck,
           CreateAtimPkt, Goto, Base, IInv, TypeOK, PmOK
  <1>5. /\ ListStale' = ListStale \/ wake_neighbors' = {}
        /\ Bcast \in wake_neighbors' => Bcast \in wake_neighbors
    BY LoopKeepsList
  <1> QED
    BY <1>1, <1>2, <1>3, <1>4, <1>5 DEF CreatedFirst

LEMMA InterruptsCreateFirst ==
  ASSUME Orderly, Base, Flight, CreatedFirst, Device \/ Rtimer
  PROVE  CreatedFirst'
  <1>0. device \in Seq(Frame)
    BY DEF Base, IInv, TypeOK, UsbOK
  <1>1. CASE PreTbtt
    BY <1>1 DEF PreTbtt, TbttExpected, CaughtUp, TbttWindow, Orderly, usb, loop,
                CreatedFirst, AtimUnderWay, ListStale, NoFrame
  <1>2. ASSUME NEW success \in BOOLEAN, TxComp(success) PROVE CreatedFirst'
    <2>1. /\ device # <<>> /\ device' = Tail(device)
          /\ UNCHANGED <<psm_state, pc, job, create_atims_flag, ListStale,
                         bulk_out>>
          /\ tx_atim_wait \/ UNCHANGED wake_neighbors
      BY <1>2 DEF TxComp, pm, flags, usb, loop, peers, ListStale
    <2>2. device' = <<>>
      BY <1>0, <2>1 DEF Flight
    <2>3. tx_atim_wait => AtimUnderWay
      BY <2>1 DEF Flight, WaitFor, Base, WaitDiscipline, AtimUnderWay
    <2>4. AtimUnderWay' => AtimUnderWay
      BY <2>1, <2>2 DEF AtimUnderWay
    <2> QED
      BY <2>1, <2>3, <2>4 DEF CreatedFirst
  <1>3. CASE LoseStatus \/ BulkOutDone
    <2>1. UNCHANGED <<psm_state, pc, job, create_atims_flag, ListStale,
                      wake_neighbors>>
      BY <1>3 DEF LoseStatus, BulkOutDone, pm, flags, loop, peers, ListStale
    <2>2. AtimUnderWay' => AtimUnderWay
      <3>1. CASE LoseStatus
        <4>1. device' = <<>> /\ UNCHANGED <<bulk_out, pc, job>>
          BY <1>0, <3>1 DEF LoseStatus, Flight, usb, loop
        <4> QED
          BY <4>1 DEF AtimUnderWay
      <3>2. CASE BulkOutDone
        <4>1. /\ bulk_out' = NoFrame /\ device = <<>>
              /\ device' \in {<<>>, <<bulk_out>>} /\ UNCHANGED <<pc, job>>
          BY <3>2 DEF BulkOutDone, TransferEnds, Flight, loop
        <4>2. device' # <<>> => device'[1] = bulk_out
          BY <4>1
        <4> QED
          BY <4>1, <4>2 DEF AtimUnderWay, NoFrame
      <3> QED
        BY <1>3, <3>1, <3>2
    <2> QED
      BY <2>1, <2>2 DEF CreatedFirst
  <1>4. CASE BeaconConfig \/ \E n \in Nodes : RxAtim(n)
    BY <1>4 DEF BeaconConfig, RxAtim, pm, flags, usb, loop, peers, ListStale,
                CreatedFirst, AtimUnderWay
  <1>5. CASE Rtimer
    <2>1. UNCHANGED <<pc, job, create_atims_flag, ListStale, bulk_out, device,
                      wake_neighbors>>
      BY <1>5 DEF Rtimer, AtimWindowStart, AtimWindowEnd, SoftBeaconTx, flags, usb,
                  loop, peers, ListStale
    <2>2. AtimUnderWay' = AtimUnderWay
      BY <2>1 DEF AtimUnderWay
    <2>3. /\ create_atims_flag => UNCHANGED psm_state
          /\ psm_state' = "PRE_TBTT" => psm_state = "PRE_TBTT"
      BY <1>5 DEF Rtimer, AtimWindowStart, AtimWindowEnd, SoftBeaconTx, Orderly,
                  Base, WindowTimer, CreatedFirst
    <2> QED
      BY <2>1, <2>2, <2>3 DEF CreatedFirst
  <1>6. ~DeviceTakes /\ ~BulkOutError /\ ~LoseBulkOutDone
    BY DEF Orderly, DeviceTakes, BulkOutError, LoseBulkOutDone
  <1> QED
    BY <1>1, <1>2, <1>3, <1>4, <1>5, <1>6 DEF Device, Status

LEMMA CreatedFirstStep ==
  ASSUME Orderly
  PROVE  Base /\ Flight /\ CreatedFirst /\ [Next]_vars => CreatedFirst'
  <1> SUFFICES ASSUME Base, Flight, CreatedFirst, [Next]_vars
               PROVE  CreatedFirst'
    OBVIOUS
  <1>1. CASE UNCHANGED vars \/ \E d \in Receivers : EnqueueData(d)
    BY <1>1 DEF vars, EnqueueData, pm, flags, usb, loop, peers, ListStale,
                CreatedFirst, AtimUnderWay
  <1> QED
    BY <1>1, LoopCreatesFirst, InterruptsCreateFirst DEF Next

\* An ATIM that was handed down is not queued again in the interval, and so no
\* broadcast ATIM is queued once the broadcast address counts as awake.
Removed(frame) ==
    frame.kind = "ATIM" =>
      \/ ~InAtims(frame.da)
      \/ pc = "dequeue" /\ job = "ATIM" /\ frame.da = Head(tx_pending_atims)

AnnouncedOnce ==
    /\ Removed(bulk_out) /\ (device # <<>> => Removed(device[1]))
    /\ Bcast \in wake_neighbors /\ InAtims(Bcast) =>
         \/ ListStale
         \/ pc = "dequeue" /\ job = "ATIM" /\ Head(tx_pending_atims) = Bcast

LEMMA AnnouncedOnceInit == Init => AnnouncedOnce
  BY DEF Init, AnnouncedOnce, Removed, NoFrame

LEMMA LoopAnnouncesOnce ==
  ASSUME Orderly, Base, Flight, Truth, Ordered, CreatedFirst, AnnouncedOnce, Loop
  PROVE  AnnouncedOnce'
  <1>0. /\ tx_pending_atims \in Seq(Addr)
        /\ DOMAIN tx_pending_atims = 1 .. Len(tx_pending_atims)
        /\ Distinct(tx_pending_atims)
    BY LenProperties DEF Base, IInv, TypeOK, QueuesOK, Ordered
  <1>1. /\ ListStale' = ListStale \/ wake_neighbors' = {}
        /\ Bcast \in wake_neighbors' => Bcast \in wake_neighbors
    BY LoopKeepsList
  <1>2. CASE Dequeue
    <2>1. /\ pc = "dequeue" /\ pc' # "dequeue" /\ UNCHANGED <<bulk_out, device>>
          /\ \/ job = "ATIM" /\ tx_pending_atims' = Tail(tx_pending_atims)
             \/ job # "ATIM" /\ UNCHANGED tx_pending_atims
      BY <1>2 DEF Dequeue, AfterTx, usb
    <2>2. job = "ATIM" => tx_pending_atims # <<>>
      BY <2>1 DEF Base, IInv, FrameQueued, Sending
    <2>3. \A d : InAtims(d)' =>
                   InAtims(d) /\ (job = "ATIM" => d # Head(tx_pending_atims))
      BY <1>0, <2>1, <2>2, DistinctTail DEF InAtims
    <2> QED
      BY <1>1, <2>1, <2>3 DEF AnnouncedOnce, Removed
  <1>3. CASE CreateAtimPkt
    <2>1. /\ pc = "create_atims" /\ pc' \in {"create_atims", "erase"}
          /\ UNCHANGED <<bulk_out, device, job>>
      BY <1>3 DEF CreateAtimPkt, usb
    <2>2. ~AtimUnderWay /\ (Bcast \in wake_neighbors => ListStale)
      BY <2>1 DEF CreatedFirst
    <2> QED
      BY <1>1, <2>1, <2>2 DEF AnnouncedOnce, Removed, AtimUnderWay
  <1>4. CASE FirstAtim
    <2>1. /\ pc = "first_atim" /\ pc' \in {"last_da", "rx"}
          /\ UNCHANGED <<bulk_out, device>>
      BY <1>4 DEF FirstAtim, usb
    <2>2. ASSUME NEW d \in Dest, InAtims(d)' PROVE InAtims(d)
      <3>1. CASE \E i \in DOMAIN tx_pending_atims : tx_pending_atims' =
                   SubSeq(tx_pending_atims, i, Len(tx_pending_atims))
        BY <1>0, <2>2, <3>1, DistinctSuffix DEF InAtims
      <3>2. CASE tx_pending_atims' \in {<<>>, <<NoNode>>}
        <4>1. ~Holds(<<>>, d) /\ (Holds(<<NoNode>>, d) => d = NoNode)
          BY DEF Holds
        <4> QED
          BY <2>2, <3>2, <4>1, ConstantsAssumption DEF InAtims, Dest
      <3> QED
        BY <1>4, <3>1, <3>2 DEF FirstAtim
    <2>3. /\ bulk_out.kind = "ATIM" => bulk_out.da \in Dest
          /\ device # <<>> /\ device[1].kind = "ATIM" => device[1].da \in Dest
      BY DEF Truth, Credited
    <2> QED
      BY <1>1, <2>1, <2>2, <2>3 DEF AnnouncedOnce, Removed, Dest
  <1>5. CASE SendData
    <2>1. /\ pc = "send" /\ pc' = "dequeue"
          /\ bulk_out' = JobFrame /\ device' = <<>>
          /\ UNCHANGED <<tx_pending_atims, job>>
      BY <1>5 DEF SendData, Goto, Flight, Busy, queues
    <2> QED
      BY <1>1, <2>1 DEF AnnouncedOnce, Removed, JobFrame, InAtims
  <1>6. CASE /\ UNCHANGED <<tx_pending_atims, bulk_out, device>>
             /\ pc # "dequeue"
    <2>1. \A d : InAtims(d)' = InAtims(d)
      BY <1>6 DEF InAtims
    <2> QED
      BY <1>1, <1>6, <2>1 DEF AnnouncedOnce, Removed
  <1>7. \/ Dequeue \/ CreateAtimPkt \/ FirstAtim \/ SendData
        \/ UNCHANGED <<tx_pending_atims, bulk_out, device>> /\ pc # "dequeue"
    BY DEF Loop, EraseNodesCheck, EraseAwakeNeighbors, PowersaveCheck, Powersave,
           PowersaveMaskClear, AsyncTxCheck, RememberAtimDa, FirstPkt, AsyncTx,
           AsyncTxSoftBeacon, WriteData, AppendChunk, ReadOverride, WriteOverride,
           AsyncRxCheck, ProcessAtim, AddAwakeNode, LinkAwakeNode, RemoveRx,
           CreateCheck, queues, usb
  <1> QED
    BY <1>2, <1>3, <1>4, <1>5, <1>6, <1>7

LEMMA InterruptsAnnounceOnce ==
  ASSUME Orderly, Base, Flight, Truth, AnnouncedOnce, Device \/ Rtimer
  PROVE  AnnouncedOnce'
  <1>0. device \in Seq(Frame)
    BY DEF Base, IInv, TypeOK, UsbOK
  <1>1. CASE PreTbtt
    BY <1>1 DEF PreTbtt, TbttExpected, TbttWindow, Orderly, usb, ListStale,
                AnnouncedOnce, Removed, NoFrame
  <1>2. ASSUME NEW success \in BOOLEAN, TxComp(success) PROVE AnnouncedOnce'
    <2>1. /\ device # <<>> /\ device' = Tail(device)
          /\ UNCHANGED <<pc, job, ListStale, bulk_out, tx_pending_atims>>
          /\ \/ UNCHANGED wake_neighbors
             \/ /\ tx_atim_wait
                /\ wake_neighbors' = wake_neighbors \cup {last_ATIM_DA}
      BY <1>2 DEF TxComp, HandleAtimStatus, flags, usb, loop, peers, queues,
                  ListStale
    <2>2. device' = <<>>
      BY <1>0, <2>1 DEF Flight
    <2>3. tx_atim_wait => device[1].kind = "ATIM" /\ last_ATIM_DA = device[1].da
      BY <2>1 DEF Flight, WaitFor, Base, WaitDiscipline, Truth, Credited
    <2> QED
      BY <2>1, <2>2, <2>3 DEF AnnouncedOnce, Removed, InAtims
  <1>3. CASE LoseStatus
    <2>1. device' = <<>>
      BY <1>0, <1>3 DEF LoseStatus, Flight
    <2> QED
      BY <1>3, <2>1 DEF LoseStatus, flags, usb, loop, peers, queues, ListStale,
                        AnnouncedOnce, Removed, InAtims
  <1>4. CASE BulkOutDone
    <2>1. /\ bulk_out' = NoFrame /\ device = <<>>
          /\ device' \in {<<>>, <<bulk_out>>}
          /\ UNCHANGED <<pc, job, ListStale, wake_neighbors, tx_pending_atims>>
      BY <1>4 DEF BulkOutDone, TransferEnds, Flight, flags, loop, peers, queues,
                  ListStale
    <2>2. device' # <<>> => device'[1] = bulk_out
      BY <2>1
    <2> QED
      BY <2>1, <2>2 DEF AnnouncedOnce, Removed, InAtims, NoFrame
  <1>5. CASE \/ BeaconConfig \/ AtimWindowStart \/ AtimWindowEnd \/ SoftBeaconTx
             \/ \E n \in Nodes : RxAtim(n)
    BY <1>5 DEF BeaconConfig, RxAtim, AtimWindowStart, AtimWindowEnd, SoftBeaconTx,
                flags, usb, loop, peers, queues, ListStale, AnnouncedOnce, Removed,
                InAtims
  <1>6. ~DeviceTakes /\ ~BulkOutError /\ ~LoseBulkOutDone
    BY DEF Orderly, DeviceTakes, BulkOutError, LoseBulkOutDone
  <1> QED
    BY <1>1, <1>2, <1>3, <1>4, <1>5, <1>6 DEF Device, Status, Rtimer

LEMMA AnnouncedOnceStep ==
  ASSUME Orderly
  PROVE  /\ Base /\ Flight /\ Truth /\ Ordered /\ CreatedFirst /\ AnnouncedOnce
         /\ [Next]_vars
         => AnnouncedOnce'
  <1> SUFFICES ASSUME Base, Flight, Truth, Ordered, CreatedFirst, AnnouncedOnce,
                      [Next]_vars
               PROVE  AnnouncedOnce'
    OBVIOUS
  <1>1. CASE UNCHANGED vars \/ \E d \in Receivers : EnqueueData(d)
    BY <1>1 DEF vars, EnqueueData, flags, usb, loop, peers, queues, ListStale,
                AnnouncedOnce, Removed, InAtims
  <1> QED
    BY <1>1, LoopAnnouncesOnce, InterruptsAnnounceOnce DEF Next

LEMMA AtimsForReceiversStep ==
  ASSUME OneNeighbour, Orderly
  PROVE  /\ Base /\ Ordered /\ AnnouncedOnce /\ AtimsForReceivers /\ [Next]_vars
         => AtimsForReceivers'
  <1> SUFFICES ASSUME Base, Ordered, AnnouncedOnce, AtimsForReceivers, [Next]_vars
               PROVE  AtimsForReceivers'
    OBVIOUS
  <1>0. /\ tx_pending_atims \in Seq(Addr) /\ Len(tx_pending_atims) \in Nat
        /\ DOMAIN tx_pending_atims = 1 .. Len(tx_pending_atims)
        /\ Distinct(tx_pending_atims)
        /\ AtimsForReceivers <=> \A d : InAtims(d) => d \in Receivers
        /\ AtimsForReceivers' <=> \A d : InAtims(d)' => d \in Receivers
    BY LenProperties DEF Base, IInv, TypeOK, QueuesOK, Ordered, AtimsForReceivers,
                         InAtims, Holds
  <1>1. CASE FirstAtim
    <2>1. CASE \E i \in DOMAIN tx_pending_atims : tx_pending_atims' =
                 SubSeq(tx_pending_atims, i, Len(tx_pending_atims))
      <3>1. \A d : InAtims(d)' => InAtims(d)
        BY <1>0, <2>1, DistinctSuffix DEF InAtims
      <3> QED
        BY <1>0, <3>1
    <2>2. CASE /\ \A i \in DOMAIN tx_pending_atims : IsDaAwake(tx_pending_atims[i])
               /\ Len(tx_pending_atims) >= 2
      <3>1. 1 \in DOMAIN tx_pending_atims /\ 2 \in DOMAIN tx_pending_atims
        BY <1>0, <2>2
      <3>2. tx_pending_atims[1] # tx_pending_atims[2]
        BY <1>0, <3>1 DEF Distinct
      <3>3. \A i \in DOMAIN tx_pending_atims :
              tx_pending_atims[i] \in Nodes \cup {Bcast}
        BY ConstantsAssumption DEF AtimsForReceivers
      <3>4. PICK i \in DOMAIN tx_pending_atims : tx_pending_atims[i] = Bcast
        BY <3>1, <3>2, <3>3 DEF OneNeighbour
      <3>5. InAtims(Bcast) /\ Bcast \in wake_neighbors /\ psm_state # "PRE_TBTT"
        BY <2>2, <3>4 DEF InAtims, Holds, IsDaAwake
      <3>6. ~ListStale /\ pc = "first_atim"
        BY <1>1, <3>5 DEF FirstAtim, ListStale, Base, CInv, InTime, Orderly
      <3> QED
        BY <3>5, <3>6 DEF AnnouncedOnce
    <2>3. CASE tx_pending_atims' = <<>>
      BY <2>3 DEF AtimsForReceivers
    <2> QED
      BY <1>0, <1>1, <2>1, <2>2, <2>3 DEF FirstAtim
  <1>2. CASE Dequeue
    <2>1. /\ pc = "dequeue"
          /\ \/ job = "ATIM" /\ tx_pending_atims' = Tail(tx_pending_atims)
             \/ UNCHANGED tx_pending_atims
      BY <1>2 DEF Dequeue
    <2>2. job = "ATIM" => tx_pending_atims # <<>>
      BY <2>1 DEF Base, IInv, FrameQueued, Sending
    <2>3. \A d : InAtims(d)' => InAtims(d)
      BY <1>0, <2>1, <2>2, DistinctTail DEF InAtims
    <2> QED
      BY <1>0, <2>3
  <1>3. CASE CreateAtimPkt
    <2>1. CASE UNCHANGED tx_pending_atims
      BY <2>1 DEF AtimsForReceivers
    <2>2. CASE ~UNCHANGED tx_pending_atims
      <3>1. /\ idx \in Nat \ {0} /\ Len(tx_pending_pkts) \in Nat
            /\ DOMAIN tx_pending_pkts = 1 .. Len(tx_pending_pkts)
            /\ tx_pending_pkts \in Seq(Receivers)
        BY LenProperties DEF Base, IInv, TypeOK, LoopOK, Ordered
      <3>2. /\ idx \in 1 .. Len(tx_pending_pkts)
            /\ tx_pending_atims' = Append(tx_pending_atims, tx_pending_pkts[idx])
        BY <1>3, <2>2, <3>1 DEF CreateAtimPkt
      <3>3. tx_pending_pkts[idx] \in Receivers
        BY <3>1, <3>2, ElementOfSeq
      <3>4. ASSUME NEW da \in Receivers,
                   tx_pending_atims' = Append(tx_pending_atims, da)
            PROVE  AtimsForReceivers'
        <4>1. da \in Addr
          BY ConstantsAssumption DEF Addr, Dest
        <4>2. /\ tx_pending_atims' \in Seq(Addr)
              /\ Len(tx_pending_atims') = Len(tx_pending_atims) + 1
              /\ \A i \in 1 .. Len(tx_pending_atims) :
                   tx_pending_atims'[i] = tx_pending_atims[i]
              /\ tx_pending_atims'[Len(tx_pending_atims) + 1] = da
          BY <1>0, <3>4, <4>1, AppendProperties
        <4>3. DOMAIN tx_pending_atims' = 1 .. Len(tx_pending_atims) + 1
          BY <4>2, LenProperties
        <4> QED
          BY <1>0, <4>2, <4>3 DEF AtimsForReceivers
      <3> QED
        BY <3>2, <3>3, <3>4
    <2> QED
      BY <2>1, <2>2
  <1>4. CASE UNCHANGED tx_pending_atims
    BY <1>4 DEF AtimsForReceivers
  <1>5. Loop => FirstAtim \/ Dequeue \/ CreateAtimPkt \/ UNCHANGED tx_pending_atims
    BY DEF Loop, EraseNodesCheck, EraseAwakeNeighbors, PowersaveCheck, Powersave,
           PowersaveMaskClear, AsyncTxCheck, RememberAtimDa, FirstPkt, AsyncTx,
           AsyncTxSoftBeacon, WriteData, SendData, AppendChunk, ReadOverride,
           WriteOverride, AsyncRxCheck, ProcessAtim, AddAwakeNode, LinkAwakeNode,
           RemoveRx, CreateCheck, queues
  <1>6. Device \/ Rtimer \/ UNCHANGED vars \/ (\E d \in Receivers : EnqueueData(d))
        => UNCHANGED tx_pending_atims
    BY DEF Device, PreTbtt, Status, TxComp, LoseStatus, BeaconConfig, DeviceTakes,
           BulkOutDone, BulkOutError, LoseBulkOutDone, RxAtim, Rtimer,
           AtimWindowStart, AtimWindowEnd, SoftBeaconTx, EnqueueData, queues, vars
  <1> QED
    BY <1>1, <1>2, <1>3, <1>4, <1>5, <1>6 DEF Next

\* With one neighbour, in orderly intervals, an ATIM is only ever for a receiver:
\* that neighbour and the broadcast address cannot both be awake while both are
\* still announced, which is what frees the cell (ieee80211_psm.c:451). With
\* more neighbours they can.
THEOREM AtimsForReceiversHolds ==
  OneNeighbour /\ Orderly => (HSpec => []AtimsForReceivers)
  <1> SUFFICES ASSUME OneNeighbour, Orderly PROVE HSpec => []AtimsForReceivers
    OBVIOUS
  <1> DEFINE Inv == /\ Base /\ Flight /\ Truth /\ Ordered /\ CreatedFirst
                    /\ AnnouncedOnce /\ AtimsForReceivers
  <1>1. HInit => Inv
    <2>1. Init => AtimsForReceivers
      BY DEF Init, AtimsForReceivers
    <2> QED
      BY <2>1, BaseInit, FlightInit, TruthInit, OrderedInit, CreatedFirstInit,
         AnnouncedOnceInit DEF HInit
  <1>2. Inv /\ [HNext]_hvars => Inv'
    BY HistoryStep, BaseStep, FlightStep, TruthStep, OrderedStep, CreatedFirstStep,
       AnnouncedOnceStep, AtimsForReceiversStep DEF Base
  <1>3. Inv => AtimsForReceivers
    OBVIOUS
  <1> QED
    BY <1>1, <1>2, <1>3, PTL DEF HSpec

\* ... so that what the driver believes of that neighbour is true, and what is
\* pending for it is announced, without the condition.
THEOREM OneNeighbourIsTold ==
  OneNeighbour /\ Roomy /\ Orderly
  => (HSpec => [](AwakeTruthful /\ EveryPacketAnnounced))
  <1> SUFFICES ASSUME OneNeighbour, Roomy, Orderly
               PROVE  HSpec => [](AwakeTruthful /\ EveryPacketAnnounced)
    OBVIOUS
  <1>1. HSpec => []AtimsForReceivers
    BY AtimsForReceiversHolds
  <1>2. HSpec /\ []AtimsForReceivers => []AwakeTruthful
    BY AwakeTruthfulHolds
  <1>3. HSpec /\ []AtimsForReceivers => []EveryPacketAnnounced
    BY EveryPacketAnnouncedHolds
  <1> QED
    BY <1>1, <1>2, <1>3, PTL
===============================================================================
