----------------------------- MODULE Csma_proofs -----------------------------
(***************************************************************************)
(* One driver for each queue and one fate for each packet, whatever the    *)
(* numbers of packets, records, buffers and transmissions.                 *)
(***************************************************************************)
EXTENDS Csma, FiniteSetTheorems, TLAPS

USE CsmaAssumption

-----------------------------------------------------------------------------
(* The inductive invariants *)

Types ==
    /\ addr \in [Records -> Addresses \cup {None}]
    /\ queue \in [Records -> Seq(Packets)]
    /\ transmit_timer \in [Records -> BOOLEAN]
    /\ deferred \subseteq Records \X Packets
    /\ curr \in Packets \cup {None} /\ next \in Packets \cup {None}
    /\ burst \in Records \cup {None} /\ (curr # None => burst \in Records)
    /\ dest \in [Packets -> Addresses \cup {None}]
    /\ reports \in [Packets -> Nat]

\* No packet is in two places, those in a queue are its neighbour's and were
\* not reported, and every other one that was handed down was, once.
Places ==
    /\ \A n, m \in Records : \A i \in DOMAIN queue[n], j \in DOMAIN queue[m] :
         queue[n][i] = queue[m][j] => n = m /\ i = j
    /\ \A n \in Records : \A i \in DOMAIN queue[n] :
         /\ addr[n] # None /\ dest[queue[n][i]] = addr[n]
         /\ reports[queue[n][i]] = 0
    /\ \A p \in Packets :
         /\ dest[p] = None => reports[p] = 0
         /\ dest[p] # None => reports[p] = 1 \/ p \in Queued
         /\ reports[p] \in {0, 1}

\* A timer that is set has a packet to send.
Armed == \A n \in Records : transmit_timer[n] => queue[n] # <<>>

FateInv == Types /\ Places /\ Armed

Items(n) == {d \in deferred : d[1] = n}

\* A packet on its way is the head of its queue, which no deferral waits for,
\* and one that may still be deferred has no timer; between two rounds that
\* holds for the packet of the next one.
Rounds ==
    /\ curr # None =>
         /\ queue[burst] # <<>> /\ curr = queue[burst][1] /\ Items(burst) = {}
         /\ ~awake => ~transmit_timer[burst]
         /\ next # None => Len(queue[burst]) > 1 /\ next = queue[burst][2]
    /\ burst # None /\ curr = None /\ next # None =>
         /\ queue[burst] # <<>> /\ next = queue[burst][1] /\ Items(burst) = {}

Sending(n) == burst = n /\ curr # None

Drivers ==
    \A n \in Records :
      /\ queue[n] # <<>> <=> addr[n] # None
      /\ queue[n] = <<>> => Items(n) = {}
      /\ queue[n] # <<>> =>
           \/ Sending(n)
           \/ transmit_timer[n] /\ Items(n) = {}
           \/ ~transmit_timer[n] /\ Items(n) = {<<n, queue[n][1]>>}

DriverInv == FateInv /\ Rounds /\ Drivers

-----------------------------------------------------------------------------
(* Removal from a queue *)

\* A packet that occurs once is taken out of its place; the others keep theirs
\* or move up by one.
LEMMA Removal ==
  ASSUME NEW q \in Seq(Packets), NEW k \in DOMAIN q,
         \A i \in DOMAIN q : q[i] = q[k] => i = k
  PROVE  /\ Without(q, q[k]) \in Seq(Packets)
         /\ Len(Without(q, q[k])) = Len(q) - 1
         /\ \A i \in 1 .. Len(q) - 1 :
              Without(q, q[k])[i] = IF i < k THEN q[i] ELSE q[i + 1]
  <1> DEFINE P(i) == i \in DOMAIN q /\ q[i] = q[k] /\ \A j \in 1 .. i - 1 : q[j] # q[k]
             at == CHOOSE i \in DOMAIN q :
                     q[i] = q[k] /\ \A j \in 1 .. i - 1 : q[j] # q[k]
             r == [i \in 1 .. Len(q) - 1 |-> IF i < at THEN q[i] ELSE q[i + 1]]
  <1>1. DOMAIN q = 1 .. Len(q) /\ Len(q) \in Nat \ {0} /\ k \in 1 .. Len(q)
    OBVIOUS
  <1>2. \A j \in 1 .. k - 1 : q[j] # q[k]
    BY <1>1
  <1>3. at = k
    BY <1>2
  <1>4. Without(q, q[k]) = r
    BY DEF Without
  <1>5. r = [i \in 1 .. Len(q) - 1 |-> IF i < k THEN q[i] ELSE q[i + 1]]
    BY <1>3
  <1> HIDE DEF at, r
  <1>6. \A i \in 1 .. Len(q) - 1 : q[i] \in Packets /\ q[i + 1] \in Packets
    BY <1>1
  <1>7. Len(q) - 1 \in Nat
    BY <1>1
  <1>8. r \in Seq(Packets) /\ Len(r) = Len(q) - 1
    BY <1>5, <1>6, <1>7
  <1> QED
    BY <1>4, <1>5, <1>8

\* The same, as places: what remains was there, what is gone was it.
LEMMA RemovalPlaces ==
  ASSUME NEW q \in Seq(Packets), NEW k \in DOMAIN q,
         \A i, j \in DOMAIN q : q[i] = q[j] => i = j
  PROVE  LET r == Without(q, q[k]) IN
         /\ \A i, j \in DOMAIN r : r[i] = r[j] => i = j
         /\ \A i \in DOMAIN r : r[i] # q[k] /\ \E j \in DOMAIN q : r[i] = q[j]
         /\ \A j \in DOMAIN q : q[j] = q[k] \/ \E i \in DOMAIN r : r[i] = q[j]
  <1> DEFINE r == Without(q, q[k])
  <1>1. /\ DOMAIN r = 1 .. Len(q) - 1
        /\ \A i \in 1 .. Len(q) - 1 : r[i] = IF i < k THEN q[i] ELSE q[i + 1]
    BY Removal
  <1>2. DOMAIN q = 1 .. Len(q) /\ Len(q) \in Nat \ {0} /\ k \in 1 .. Len(q)
    OBVIOUS
  <1> HIDE DEF r
  <1>3. \A i, j \in DOMAIN r : r[i] = r[j] => i = j
    BY <1>1, <1>2
  <1>4. \A i \in DOMAIN r : r[i] # q[k] /\ \E j \in DOMAIN q : r[i] = q[j]
    BY <1>1, <1>2
  <1>5. \A j \in DOMAIN q : q[j] = q[k] \/ \E i \in DOMAIN r : r[i] = q[j]
    <2> SUFFICES ASSUME NEW j \in DOMAIN q, j # k PROVE \E i \in DOMAIN r : r[i] = q[j]
      OBVIOUS
    <2>1. CASE j < k
      <3>1. j \in DOMAIN r /\ r[j] = q[j]
        BY <1>1, <1>2, <2>1
      <3> QED
        BY <3>1
    <2>2. CASE j > k
      <3>1. j - 1 \in DOMAIN r /\ r[j - 1] = q[j - 1 + 1] /\ j - 1 + 1 = j
        BY <1>1, <1>2, <2>2
      <3> QED
        BY <3>1
    <2> QED
      BY <1>2, <2>1, <2>2
  <1> QED
    BY <1>3, <1>4, <1>5 DEF r

-----------------------------------------------------------------------------
(* One fate: every action keeps FateInv *)

\* A packet that was not handed down yet is in no queue.
LEMMA Fresh ==
  ASSUME FateInv, NEW p \in Packets, dest[p] = None
  PROVE  \A n \in Records : \A i \in DOMAIN queue[n] : queue[n][i] # p
  BY DEF FateInv, Places

\* The queue grows at one end by a packet that is nowhere else.
LEMMA AcceptKeepsFate ==
  ASSUME FateInv, NEW p \in Packets, NEW a \in Addresses, Accept(p, a)
  PROVE  FateInv'
  <1> USE DEF FateInv
  <1>1. PICK n \in Records :
          /\ addr[n] \in {a, None} /\ addr' = [addr EXCEPT ![n] = a]
          /\ queue' = [queue EXCEPT ![n] = IF p \in Urgent THEN <<p>> \o @ ELSE Append(@, p)]
          /\ transmit_timer' = [transmit_timer EXCEPT ![n] = @ \/ Head(queue'[n]) = p]
    BY DEF Accept, RecordFor
  <1>2. /\ dest[p] = None /\ dest' = [dest EXCEPT ![p] = a] /\ curr = None
        /\ UNCHANGED <<burst, curr, next, awake, deferred, reports>>
    BY DEF Accept, HandedDown, loop
  <1>3. \A m \in Records : \A i \in DOMAIN queue[m] : queue[m][i] # p
    BY <1>2, Fresh
  <1>4. PICK k \in {0, 1} :
          /\ queue'[n] \in Seq(Packets) /\ Len(queue'[n]) = Len(queue[n]) + 1
          /\ k = 1 => queue'[n][1] = p
          /\ k = 0 => queue'[n][Len(queue[n]) + 1] = p
          /\ \A i \in DOMAIN queue[n] : queue'[n][i + k] = queue[n][i]
    <2>1. queue[n] \in Seq(Packets)
      BY DEF Types
    <2>2. CASE p \in Urgent
      <3>1. queue'[n] = <<p>> \o queue[n]
        BY <1>1, <2>2 DEF Types
      <3> QED
        BY <2>1, <3>1
    <2>3. CASE p \notin Urgent
      <3>1. queue'[n] = Append(queue[n], p)
        BY <1>1, <2>3 DEF Types
      <3> QED
        BY <2>1, <3>1
    <2> QED
      BY <2>2, <2>3
  <1>5. \A m \in Records : m # n => queue'[m] = queue[m] /\ addr'[m] = addr[m]
    BY <1>1 DEF Types
  <1>6. Types'
    BY <1>1, <1>2, <1>4, <1>5 DEF Types
  <1>7. PICK pos \in DOMAIN queue'[n] :
          /\ queue'[n][pos] = p
          /\ \A i \in DOMAIN queue'[n] :
               i = pos \/ (i - k \in DOMAIN queue[n] /\ queue'[n][i] = queue[n][i - k])
    <2>1. queue[n] \in Seq(Packets)
      BY DEF Types
    <2>2. CASE k = 1
      <3>1. 1 \in DOMAIN queue'[n] /\ queue'[n][1] = p
        BY <1>4, <2>1, <2>2
      <3>2. \A i \in DOMAIN queue'[n] :
              i = 1 \/ (i - 1 \in DOMAIN queue[n] /\ queue'[n][i] = queue[n][i - 1])
        BY <1>4, <2>1, <2>2
      <3> QED
        BY <2>2, <3>1, <3>2
    <2>3. CASE k = 0
      <3> DEFINE last == Len(queue[n]) + 1
      <3>1. last \in DOMAIN queue'[n] /\ queue'[n][last] = p
        BY <1>4, <2>1, <2>3
      <3>2. \A i \in DOMAIN queue'[n] :
              i = last \/ (i - 0 \in DOMAIN queue[n] /\ queue'[n][i] = queue[n][i - 0])
        BY <1>4, <2>1, <2>3
      <3> HIDE DEF last
      <3> QED
        BY <2>3, <3>1, <3>2
    <2> QED
      BY <2>2, <2>3
  <1>8. \A m \in Records : \A i \in DOMAIN queue'[m] :
          \/ m = n /\ i = pos /\ queue'[m][i] = p
          \/ \E j \in DOMAIN queue[m] : queue'[m][i] = queue[m][j]
    BY <1>5, <1>7
  <1>9. Places'
    <2>1. \A i, j \in DOMAIN queue'[n] : queue'[n][i] = queue'[n][j] => i = j
      <3>1. \A i, j \in DOMAIN queue[n] : queue[n][i] = queue[n][j] => i = j
        BY DEF Places
      <3>2. \A i \in DOMAIN queue'[n] : i \in Int
        BY <1>4
      <3>3. \A i, j \in DOMAIN queue'[n] :
              i # pos /\ j # pos /\ queue'[n][i] = queue'[n][j] => i - k = j - k
        BY <1>7, <3>1
      <3>4. \A i \in DOMAIN queue'[n] : i # pos => queue'[n][i] # p
        BY <1>3, <1>7
      <3> QED
        BY <1>7, <3>2, <3>3, <3>4
    <2>2. \A l, m \in Records : \A i \in DOMAIN queue'[l], j \in DOMAIN queue'[m] :
            queue'[l][i] = queue'[m][j] => l = m
      BY <1>3, <1>8 DEF Places
    <2>3. \A l, m \in Records : \A i \in DOMAIN queue'[l], j \in DOMAIN queue'[m] :
            queue'[l][i] = queue'[m][j] => l = m /\ i = j
      <3> SUFFICES ASSUME NEW m \in Records, NEW i \in DOMAIN queue'[m],
                          NEW j \in DOMAIN queue'[m], queue'[m][i] = queue'[m][j]
                   PROVE  i = j
        BY <2>2
      <3>1. CASE m = n
        BY <2>1, <3>1
      <3>2. CASE m # n
        BY <1>5, <3>2 DEF Places
      <3> QED
        BY <3>1, <3>2
    <2>4. \A m \in Records : \A i \in DOMAIN queue'[m] :
            /\ addr'[m] # None /\ dest'[queue'[m][i]] = addr'[m]
            /\ reports'[queue'[m][i]] = 0
      <3> SUFFICES ASSUME NEW m \in Records, NEW i \in DOMAIN queue'[m]
                   PROVE  /\ addr'[m] # None /\ dest'[queue'[m][i]] = addr'[m]
                          /\ reports'[queue'[m][i]] = 0
        OBVIOUS
      <3>1. CASE m = n /\ queue'[m][i] = p
        BY <1>1, <1>2, <3>1 DEF Places, Types
      <3>2. CASE \E j \in DOMAIN queue[m] : queue'[m][i] = queue[m][j]
        <4>1. PICK j \in DOMAIN queue[m] : queue'[m][i] = queue[m][j]
          BY <3>2
        <4>2. addr[m] # None /\ dest[queue[m][j]] = addr[m] /\ reports[queue[m][j]] = 0
          BY DEF Places
        <4>3. addr'[m] = addr[m]
          BY <1>1, <1>5, <4>2 DEF Types
        <4>4. queue[m][j] # p /\ queue[m][j] \in Packets
          BY <1>3 DEF Types
        <4> QED
          BY <1>2, <4>1, <4>2, <4>3, <4>4 DEF Types
      <3> QED
        BY <1>8, <3>1, <3>2
    <2>5. \A x \in Packets : x \in Queued => x \in Queued'
      <3>1. \A i \in DOMAIN queue[n] : i + k \in DOMAIN queue'[n]
        BY <1>4 DEF Types
      <3>2. \A m \in Records : \A i \in DOMAIN queue[m] :
              \E j \in DOMAIN queue'[m] : queue'[m][j] = queue[m][i]
        BY <1>4, <1>5, <3>1
      <3>3. \A m \in Records : DOMAIN queue[m] = 1 .. Len(queue[m])
                               /\ DOMAIN queue'[m] = 1 .. Len(queue'[m])
        BY <1>6 DEF Types
      <3> QED
        BY <3>2, <3>3 DEF Queued, InQueue
    <2>6. p \in Queued'
      <3>1. DOMAIN queue'[n] = 1 .. Len(queue'[n])
        BY <1>6 DEF Types
      <3> QED
        BY <1>7, <3>1 DEF Queued, InQueue
    <2>7. \A x \in Packets : dest'[x] = IF x = p THEN a ELSE dest[x]
      BY <1>2 DEF Types
    <2>8. a # None
      OBVIOUS
    <2>9. \A x \in Packets :
            /\ dest'[x] = None => reports'[x] = 0
            /\ dest'[x] # None => reports'[x] = 1 \/ x \in Queued'
            /\ reports'[x] \in {0, 1}
      BY <1>2, <2>5, <2>6, <2>7, <2>8 DEF Places
    <2> QED
      BY <2>3, <2>4, <2>9 DEF Places
  <1>10. Armed'
    <2>1. /\ \A m \in Records : m # n => transmit_timer'[m] = transmit_timer[m]
          /\ queue'[n] # <<>>
      BY <1>1, <1>4 DEF Types
    <2> QED
      BY <1>5, <2>1 DEF Armed
  <1> QED
    BY <1>6, <1>9, <1>10

LEMMA RefuseKeepsFate ==
  ASSUME FateInv, NEW p \in Packets, NEW a \in Addresses, Refuse(p, a)
  PROVE  FateInv'
  <1> USE DEF FateInv
  <1>1. /\ dest[p] = None /\ dest' = [dest EXCEPT ![p] = a]
        /\ reports' = [reports EXCEPT ![p] = @ + 1]
        /\ UNCHANGED <<addr, queue, transmit_timer, burst, curr, next, deferred>>
    BY DEF Refuse, HandedDown, Report, records, loop
  <1>2. \A m \in Records : \A i \in DOMAIN queue[m] :
          queue[m][i] # p /\ queue[m][i] \in Packets
    BY <1>1, Fresh DEF Types
  <1>3. \A x \in Packets :
          /\ dest'[x] = IF x = p THEN a ELSE dest[x]
          /\ reports'[x] = IF x = p THEN 1 ELSE reports[x]
    BY <1>1 DEF Types, Places
  <1>4. Types'
    BY <1>1 DEF Types
  <1>5. Queued' = Queued
    BY <1>1 DEF Queued, InQueue
  <1>6. a # None
    OBVIOUS
  <1>7. Places'
    BY <1>1, <1>2, <1>3, <1>5, <1>6 DEF Places
  <1>8. Armed'
    BY <1>1 DEF Armed
  <1> QED
    BY <1>4, <1>7, <1>8

\* The packet leaves its place when it is reported.
LEMMA FreeKeepsPlaces ==
  ASSUME FateInv, NEW n \in Records, NEW p \in Packets, p \in InQueue(n),
         FreePacket(n, p), UNCHANGED dest
  PROVE  /\ Places' /\ Armed'
         /\ addr' \in [Records -> Addresses \cup {None}]
         /\ queue' \in [Records -> Seq(Packets)]
         /\ transmit_timer' \in [Records -> BOOLEAN]
         /\ reports' \in [Packets -> Nat]
  <1> USE DEF FateInv
  <1>1. PICK k \in DOMAIN queue[n] : queue[n][k] = p
    BY DEF InQueue, Types
  <1> DEFINE rest == Without(queue[n], queue[n][k])
  <1>2. /\ queue[n] \in Seq(Packets)
        /\ \A i, j \in DOMAIN queue[n] : queue[n][i] = queue[n][j] => i = j
    BY DEF Types, Places
  <1>3. rest \in Seq(Packets)
    BY <1>2, Removal
  <1>4. /\ \A i, j \in DOMAIN rest : rest[i] = rest[j] => i = j
        /\ \A i \in DOMAIN rest :
             rest[i] # queue[n][k] /\ \E j \in DOMAIN queue[n] : rest[i] = queue[n][j]
        /\ \A j \in DOMAIN queue[n] :
             queue[n][j] = queue[n][k] \/ \E i \in DOMAIN rest : rest[i] = queue[n][j]
    BY <1>2, RemovalPlaces
  <1>5. /\ queue' = [queue EXCEPT ![n] = rest]
        /\ transmit_timer' = [transmit_timer EXCEPT ![n] = (rest # <<>>)]
        /\ addr' = [addr EXCEPT ![n] = IF rest = <<>> THEN None ELSE @]
        /\ reports' = [reports EXCEPT ![p] = @ + 1]
    BY <1>1 DEF FreePacket, Report
  <1> HIDE DEF rest
  <1>6. /\ addr' \in [Records -> Addresses \cup {None}]
        /\ queue' \in [Records -> Seq(Packets)]
        /\ transmit_timer' \in [Records -> BOOLEAN]
        /\ reports' \in [Packets -> Nat]
    BY <1>3, <1>5 DEF Types
  <1>7. \A m \in Records :
          queue'[m] = IF m = n THEN rest ELSE queue[m]
    BY <1>5 DEF Types
  <1>8. \A m \in Records : \A i \in DOMAIN queue'[m] :
          queue'[m][i] # p /\ \E j \in DOMAIN queue[m] : queue'[m][i] = queue[m][j]
    <2>1. \A m \in Records : m # n => \A i \in DOMAIN queue[m] : queue[m][i] # p
      BY <1>1 DEF Places
    <2> QED
      BY <1>1, <1>4, <1>7, <2>1
  <1>9. \A x \in Packets : x # p /\ x \in Queued => x \in Queued'
    <2>1. \A m \in Records : \A j \in DOMAIN queue[m] :
            queue[m][j] = p \/ \E i \in DOMAIN queue'[m] : queue'[m][i] = queue[m][j]
      BY <1>1, <1>4, <1>7
    <2>2. \A m \in Records : DOMAIN queue[m] = 1 .. Len(queue[m])
                             /\ DOMAIN queue'[m] = 1 .. Len(queue'[m])
      BY <1>6 DEF Types
    <2> QED
      BY <2>1, <2>2 DEF Queued, InQueue
  <1>10. Places'
    <2>1. \A l, m \in Records : \A i \in DOMAIN queue'[l], j \in DOMAIN queue'[m] :
            queue'[l][i] = queue'[m][j] => l = m
      BY <1>8 DEF Places
    <2>2. \A m \in Records : \A i, j \in DOMAIN queue'[m] :
            queue'[m][i] = queue'[m][j] => i = j
      BY <1>4, <1>7 DEF Places
    <2>3. \A x \in Packets : reports'[x] = IF x = p THEN reports[p] + 1 ELSE reports[x]
      BY <1>5 DEF Types
    <2>4. \A m \in Records : \A i \in DOMAIN queue'[m] :
            /\ addr'[m] # None /\ dest[queue'[m][i]] = addr'[m]
            /\ reports'[queue'[m][i]] = 0
      <3> SUFFICES ASSUME NEW m \in Records, NEW i \in DOMAIN queue'[m]
                   PROVE  /\ addr'[m] # None /\ dest[queue'[m][i]] = addr'[m]
                          /\ reports'[queue'[m][i]] = 0
        OBVIOUS
      <3>1. PICK j \in DOMAIN queue[m] : queue'[m][i] = queue[m][j] /\ queue[m][j] # p
        BY <1>8
      <3>2. /\ addr[m] # None /\ dest[queue[m][j]] = addr[m]
            /\ reports[queue[m][j]] = 0 /\ queue[m][j] \in Packets
        BY DEF Places, Types
      <3>3. queue'[m] # <<>>
        OBVIOUS
      <3>4. addr'[m] = addr[m]
        BY <1>5, <1>7, <3>3 DEF Types
      <3> QED
        BY <2>3, <3>1, <3>2, <3>4
    <2>5. reports[p] = 0 /\ dest[p] # None
      BY <1>1 DEF Places
    <2>6. \A x \in Packets :
            /\ dest[x] = None => reports'[x] = 0
            /\ dest[x] # None => reports'[x] = 1 \/ x \in Queued'
            /\ reports'[x] \in {0, 1}
      BY <1>9, <2>3, <2>5 DEF Places
    <2> QED
      BY <2>1, <2>2, <2>4, <2>6 DEF Places
  <1>11. Armed'
    BY <1>5, <1>7 DEF Armed, Types
  <1> QED
    BY <1>6, <1>10, <1>11

\* Every outcome but the last of a packet leaves the packets where they are.
LEMMA SentKeepsFate ==
  ASSUME FateInv, curr # None, NEW result, PacketSent(burst, curr, result),
         curr' = None, burst' \in {burst, None}, next' \in {next, None},
         UNCHANGED <<deferred, dest>>
  PROVE  FateInv'
  <1> USE DEF FateInv
  <1>1. burst \in Records /\ curr \in Packets
    BY DEF Types
  <1>2. CASE /\ curr \in InQueue(burst)
             /\ FreePacket(burst, curr)
    BY <1>1, <1>2, FreeKeepsPlaces DEF Types
  <1>3. CASE /\ UNCHANGED <<addr, queue, reports>>
             /\ \/ UNCHANGED transmit_timer
                \/ /\ transmit_timer' = [transmit_timer EXCEPT ![burst] = TRUE]
                   /\ curr \in InQueue(burst)
    <2>1. Types'
      BY <1>1, <1>3 DEF Types
    <2>2. Places'
      BY <1>3 DEF Places, Queued, InQueue
    <2>3. curr \in InQueue(burst) => queue[burst] # <<>>
      BY <1>1 DEF InQueue, Types
    <2>4. Armed'
      BY <1>1, <1>3, <2>3 DEF Armed, Types
    <2> QED
      BY <2>1, <2>2, <2>4
  <1> QED
    BY <1>2, <1>3 DEF PacketSent, Retransmit

\* Steps that move no packet
LEMMA MovesNothing ==
  ASSUME FateInv, Types', UNCHANGED <<addr, queue, dest, reports>>,
         \A n \in Records : transmit_timer'[n] => transmit_timer[n]
  PROVE  FateInv'
  BY DEF FateInv, Places, Armed, Queued, InQueue

LEMMA BehindType ==
  ASSUME Types, NEW n \in Records, NEW p
  PROVE  Behind(n, p) \in Packets \cup {None}
  <1>1. CASE \E i \in 1 .. Len(queue[n]) - 1 : queue[n][i] = p
    <2> DEFINE at == CHOOSE i \in 2 .. Len(queue[n]) : queue[n][i - 1] = p
    <2>0. queue[n] \in Seq(Packets) /\ Len(queue[n]) \in Nat
      BY DEF Types
    <2>1. \E i \in 2 .. Len(queue[n]) : queue[n][i - 1] = p
      <3>1. PICK i \in 1 .. Len(queue[n]) - 1 : queue[n][i] = p
        BY <1>1
      <3>2. i + 1 \in 2 .. Len(queue[n]) /\ queue[n][i + 1 - 1] = p
        BY <2>0, <3>1
      <3> QED
        BY <3>2
    <2>2. at \in 2 .. Len(queue[n])
      BY <2>1
    <2> HIDE DEF at
    <2>3. queue[n][at] \in Packets
      BY <2>0, <2>2
    <2> QED
      BY <1>1, <2>3 DEF Behind, at
  <1>2. CASE ~ \E i \in 1 .. Len(queue[n]) - 1 : queue[n][i] = p
    BY <1>2 DEF Behind
  <1> QED
    BY <1>1, <1>2

LEMMA FateInvStep == FateInv /\ [Next]_vars => FateInv'
  <1> SUFFICES ASSUME FateInv, [Next]_vars PROVE FateInv'
    OBVIOUS
  <1>1. ASSUME NEW p \in Packets, NEW a \in Addresses, Accept(p, a) PROVE FateInv'
    BY <1>1, AcceptKeepsFate
  <1>2. ASSUME NEW p \in Packets, NEW a \in Addresses, Refuse(p, a) PROVE FateInv'
    BY <1>2, RefuseKeepsFate
  <1>3. ASSUME NEW n \in Records, TimerFires(n) PROVE FateInv'
    <2>1. Head(queue[n]) \in Packets
      BY <1>3 DEF TimerFires, FateInv, Armed, Types
    <2>2. Behind(n, Head(queue[n])) \in Packets \cup {None}
      BY BehindType DEF FateInv
    <2> QED
      BY <1>3, <2>1, <2>2, MovesNothing
         DEF TimerFires, StartBurst, FateInv, Types, upper
  <1>4. ASSUME NEW n \in Records, NEW p \in Packets, DeferralEnds(n, p) PROVE FateInv'
    BY <1>4, BehindType, MovesNothing
       DEF DeferralEnds, StartBurst, FateInv, Types, records, upper
  <1>5. CASE ReceivingBurst
    BY <1>5, SentKeepsFate DEF ReceivingBurst
  <1>6. CASE Defer
    BY <1>6, MovesNothing DEF Defer, FateInv, Types, records, upper
  <1>7. ASSUME NEW result, SendResult(result) PROVE FateInv'
    BY <1>7, SentKeepsFate DEF SendResult
  <1>8. CASE Continue
    <2>1. Behind(burst, next) \in Packets \cup {None}
      BY <1>8, BehindType DEF Continue, FateInv, Types
    <2> QED
      BY <1>8, <2>1, MovesNothing DEF Continue, FateInv, Types, records, upper
  <1>9. CASE UNCHANGED vars
    BY <1>9, MovesNothing DEF vars, FateInv, Types
  <1> QED
    BY <1>1, <1>2, <1>3, <1>4, <1>5, <1>6, <1>7, <1>8, <1>9 DEF Next

LEMMA FateInvInit == Init => FateInv
  BY DEF Init, FateInv, Types, Places, Armed, Queued, InQueue

LEMMA FateImplied == FateInv => OneFate
  <1> SUFFICES ASSUME FateInv, NEW p \in Packets
               PROVE  LET places == {x \in UNION {{n} \X DOMAIN queue[n] : n \in Records} :
                                       queue[x[1]][x[2]] = p}
                      IN  /\ dest[p] = None => places = {} /\ reports[p] = 0
                          /\ dest[p] # None => Cardinality(places) + reports[p] = 1
                          /\ \A x \in places : addr[x[1]] = dest[p]
    BY DEF OneFate
  <1> USE DEF FateInv
  <1> DEFINE places == {x \in UNION {{n} \X DOMAIN queue[n] : n \in Records} :
                          queue[x[1]][x[2]] = p}
  <1>1. \A x : x \in places <=>
                 \E n \in Records : \E i \in DOMAIN queue[n] :
                   x = <<n, i>> /\ queue[n][i] = p
    OBVIOUS
  <1> HIDE DEF places
  <1>2. \A x \in places : addr[x[1]] = dest[p] /\ dest[p] # None /\ reports[p] = 0
    BY <1>1 DEF Places
  <1>3. dest[p] = None => reports[p] = 0
    BY DEF Places
  <1>4. ASSUME dest[p] # None PROVE Cardinality(places) + reports[p] = 1
    <2>1. CASE places = {}
      <3>1. p \notin Queued
        <4>1. \A n \in Records : DOMAIN queue[n] = 1 .. Len(queue[n])
          BY DEF Types
        <4>2. \A n \in Records : \A i \in DOMAIN queue[n] : queue[n][i] # p
          BY <1>1, <2>1
        <4> QED
          BY <4>1, <4>2 DEF Queued, InQueue
      <3>2. reports[p] = 1 /\ Cardinality(places) = 0
        BY <1>4, <2>1, <3>1, FS_EmptySet DEF Places
      <3> QED
        BY <3>2
    <2>2. CASE places # {}
      <3>1. PICK x : x \in places
        BY <2>2
      <3>2. \A y \in places : y = x
        BY <1>1, <3>1 DEF Places
      <3>3. places = {x}
        BY <3>1, <3>2
      <3>4. reports[p] = 0 /\ Cardinality(places) = 1
        BY <1>2, <3>1, <3>3, FS_Singleton
      <3> QED
        BY <3>4
    <2> QED
      BY <2>1, <2>2
  <1> QED
    BY <1>2, <1>3, <1>4 DEF places

\* A packet is in one place of one queue, or its sender was told its fate, once
\* (csma.c:163-310), also where packets of type ACK are put before others.
THEOREM OneFateHolds == Spec => []OneFate
  BY FateInvInit, FateInvStep, FateImplied, PTL DEF Spec

-----------------------------------------------------------------------------
(* One driver, where no packet is put before another *)

\* The head of a queue stays when the queue grows.
LEMMA AcceptKeepsDrivers ==
  ASSUME Urgent = {}, DriverInv, FateInv', NEW p \in Packets, NEW a \in Addresses,
         Accept(p, a)
  PROVE  DriverInv'
  <1> USE DEF DriverInv, FateInv
  <1>1. PICK n \in Records :
          /\ addr[n] \in {a, None} /\ addr' = [addr EXCEPT ![n] = a]
          /\ queue' = [queue EXCEPT ![n] = Append(@, p)]
          /\ transmit_timer' = [transmit_timer EXCEPT ![n] = @ \/ Head(queue'[n]) = p]
    BY DEF Accept, RecordFor
  <1>2. /\ dest[p] = None /\ curr = None
        /\ UNCHANGED <<burst, curr, next, awake, deferred>>
    BY DEF Accept, HandedDown, loop
  <1>3. /\ queue[n] \in Seq(Packets) /\ queue'[n] = Append(queue[n], p)
        /\ queue'[n] # <<>>
        /\ queue[n] = <<>> => queue'[n][1] = p /\ Head(queue'[n]) = p
        /\ queue[n] # <<>> => queue'[n][1] = queue[n][1] /\ Head(queue'[n]) = queue[n][1]
    BY <1>1 DEF Types
  <1>4. queue[n] # <<>> => queue[n][1] # p
    <2>1. queue[n] # <<>> => 1 \in DOMAIN queue[n]
      BY <1>3
    <2> QED
      BY <1>2, <2>1, Fresh
  <1>5. \A m \in Records : m # n => /\ queue'[m] = queue[m] /\ addr'[m] = addr[m]
                                   /\ transmit_timer'[m] = transmit_timer[m]
    BY <1>1 DEF Types
  <1>6. addr'[n] = a /\ a # None
    BY <1>1 DEF Types
  <1>7. /\ queue[n] = <<>> => transmit_timer'[n]
        /\ queue[n] # <<>> => transmit_timer'[n] = transmit_timer[n]
    BY <1>1, <1>3, <1>4 DEF Types
  <1>8. \A m : Items(m)' = Items(m)
    BY <1>2 DEF Items
  <1>9. Rounds'
    BY <1>2, <1>3, <1>5, <1>8 DEF Rounds, Types
  <1>10. Drivers'
    <2> SUFFICES ASSUME NEW m \in Records
                 PROVE  /\ queue'[m] # <<>> <=> addr'[m] # None
                        /\ queue'[m] = <<>> => Items(m) = {}
                        /\ queue'[m] # <<>> =>
                             \/ transmit_timer'[m] /\ Items(m) = {}
                             \/ /\ ~transmit_timer'[m]
                                /\ Items(m) = {<<m, queue'[m][1]>>}
      BY <1>8 DEF Drivers
    <2>1. /\ queue[m] # <<>> <=> addr[m] # None
          /\ queue[m] = <<>> => Items(m) = {}
          /\ queue[m] # <<>> =>
               \/ transmit_timer[m] /\ Items(m) = {}
               \/ ~transmit_timer[m] /\ Items(m) = {<<m, queue[m][1]>>}
      BY <1>2 DEF Drivers, Sending
    <2>2. CASE m # n
      BY <1>5, <2>1, <2>2
    <2>3. CASE m = n
      BY <1>3, <1>6, <1>7, <2>1, <2>3
    <2> QED
      BY <2>2, <2>3
  <1> QED
    BY <1>9, <1>10

\* What a burst starts with
LEMMA BehindHead ==
  ASSUME FateInv, NEW n \in Records, queue[n] # <<>>,
         Behind(n, queue[n][1]) # None
  PROVE  Len(queue[n]) > 1 /\ Behind(n, queue[n][1]) = queue[n][2]
  <1> DEFINE at == CHOOSE i \in 2 .. Len(queue[n]) : queue[n][i - 1] = queue[n][1]
  <1>1. queue[n] \in Seq(Packets) /\ Len(queue[n]) \in Nat
    BY DEF FateInv, Types
  <1>2. /\ \E i \in 1 .. Len(queue[n]) - 1 : queue[n][i] = queue[n][1]
        /\ Behind(n, queue[n][1]) = queue[n][at]
    BY DEF Behind
  <1>3. Len(queue[n]) > 1
    BY <1>1, <1>2
  <1>4. \A i \in 2 .. Len(queue[n]) : queue[n][i - 1] = queue[n][1] => i - 1 = 1
    BY <1>1, <1>3 DEF FateInv, Places
  <1>5. 2 \in 2 .. Len(queue[n]) /\ queue[n][2 - 1] = queue[n][1]
    BY <1>1, <1>3
  <1>6. at \in 2 .. Len(queue[n]) /\ queue[n][at - 1] = queue[n][1]
    BY <1>5
  <1> HIDE DEF at
  <1>7. at = 2
    BY <1>4, <1>6
  <1> QED
    BY <1>2, <1>3, <1>7

\* The head's outcome: it leaves, and the timer is set for what is behind it,
\* or the timer is set for another attempt.
LEMMA SentKeepsDrivers ==
  ASSUME DriverInv, FateInv', curr # None, NEW result,
         PacketSent(burst, curr, result), curr' = None, burst' \in {burst, None},
         next' \in {next, None}, next' # None => result = "ok", UNCHANGED deferred
  PROVE  DriverInv'
  <1> USE DEF DriverInv, FateInv
  <1> DEFINE q == queue[burst]
             rest == Without(q, q[1])
  <1>1. /\ burst \in Records /\ q \in Seq(Packets)
        /\ q # <<>> /\ curr = q[1] /\ Items(burst) = {}
        /\ next # None => Len(q) > 1 /\ next = q[2]
        /\ addr[burst] # None
    BY DEF Types, Rounds, Drivers
  <1>2. 1 \in DOMAIN q /\ curr \in InQueue(burst)
    BY <1>1 DEF InQueue
  <1>3. \A i \in DOMAIN q : q[i] = q[1] => i = 1
    BY <1>1, <1>2 DEF Places
  <1>4. /\ rest \in Seq(Packets) /\ Len(rest) = Len(q) - 1
        /\ \A i \in 1 .. Len(q) - 1 : rest[i] = IF i < 1 THEN q[i] ELSE q[i + 1]
    BY <1>1, <1>2, <1>3, Removal
  <1>5. next # None => rest # <<>> /\ next = rest[1]
    BY <1>1, <1>4
  <1>6. \/ FreePacket(burst, curr)
        \/ Retransmit(burst) /\ result \in {"noack", "collision"}
    BY <1>2 DEF PacketSent
  <1>7. \A m : Items(m)' = Items(m)
    BY DEF Items
  <1>8. \A m \in Records :
          /\ queue[m] # <<>> <=> addr[m] # None
          /\ queue[m] = <<>> => Items(m) = {}
          /\ m # burst /\ queue[m] # <<>> =>
               \/ transmit_timer[m] /\ Items(m) = {}
               \/ ~transmit_timer[m] /\ Items(m) = {<<m, queue[m][1]>>}
    BY DEF Drivers, Sending
  <1>9. CASE FreePacket(burst, curr)
    <2>1. /\ queue' = [queue EXCEPT ![burst] = rest]
          /\ transmit_timer' = [transmit_timer EXCEPT ![burst] = (rest # <<>>)]
          /\ addr' = [addr EXCEPT ![burst] = IF rest = <<>> THEN None ELSE @]
      BY <1>1, <1>9 DEF FreePacket
    <2> HIDE DEF q, rest
    <2>2. \A m \in Records :
            /\ queue'[m] = IF m = burst THEN rest ELSE queue[m]
            /\ transmit_timer'[m] = IF m = burst THEN rest # <<>> ELSE transmit_timer[m]
            /\ addr'[m] = IF m = burst /\ rest = <<>> THEN None ELSE addr[m]
      BY <1>1, <2>1 DEF Types
    <2>3. Rounds'
      BY <1>1, <1>5, <1>7, <2>2 DEF Rounds
    <2>4. Drivers'
      BY <1>1, <1>7, <1>8, <2>2 DEF Drivers
    <2> QED
      BY <2>3, <2>4
  <1>10. CASE Retransmit(burst) /\ result \in {"noack", "collision"}
    <2>1. /\ UNCHANGED <<addr, queue>>
          /\ transmit_timer' = [transmit_timer EXCEPT ![burst] = TRUE]
      BY <1>10 DEF Retransmit
    <2>2. \A m \in Records :
            transmit_timer'[m] = IF m = burst THEN TRUE ELSE transmit_timer[m]
      BY <1>1, <2>1 DEF Types
    <2>3. next' = None
      BY <1>10
    <2>4. Rounds'
      BY <2>3 DEF Rounds
    <2>5. Drivers'
      BY <1>1, <1>7, <1>8, <2>1, <2>2 DEF Drivers
    <2> QED
      BY <2>4, <2>5
  <1> QED
    BY <1>6, <1>9, <1>10

\* What one queue gives up, the burst takes, with the head.
LEMMA StartKeepsDrivers ==
  ASSUME DriverInv, FateInv', burst = None, NEW n \in Records, queue[n] # <<>>,
         StartBurst(n, queue[n][1]), UNCHANGED <<addr, queue>>,
         Items(n)' = {}, ~transmit_timer'[n],
         \A m \in Records : m # n => /\ transmit_timer'[m] = transmit_timer[m]
                                     /\ Items(m)' = Items(m)
  PROVE  DriverInv'
  <1> USE DEF DriverInv
  <1>1. /\ burst' = n /\ curr' = queue[n][1] /\ next' = Behind(n, queue[n][1])
        /\ queue[n][1] \in Packets /\ queue[n][1] # None
    BY DEF StartBurst, FateInv, Types
  <1>2. next' # None => Len(queue[n]) > 1 /\ next' = queue[n][2]
    BY <1>1, BehindHead
  <1>3. Rounds'
    BY <1>1, <1>2 DEF Rounds
  <1>4. \A m \in Records :
          /\ queue[m] # <<>> <=> addr[m] # None
          /\ queue[m] = <<>> => Items(m) = {}
          /\ queue[m] # <<>> =>
               \/ transmit_timer[m] /\ Items(m) = {}
               \/ ~transmit_timer[m] /\ Items(m) = {<<m, queue[m][1]>>}
    <2>1. \A m \in Records : ~Sending(m)
      BY DEF Sending
    <2> QED
      BY <2>1 DEF Drivers
  <1>5. Drivers'
    BY <1>1, <1>4 DEF Drivers, Sending
  <1> QED
    BY <1>3, <1>5

LEMMA TimerFiresKeepsDrivers ==
  ASSUME DriverInv, FateInv', NEW n \in Records, TimerFires(n)
  PROVE  DriverInv'
  <1> USE DEF DriverInv, FateInv
  <1>1. /\ burst = None /\ transmit_timer[n] /\ queue[n] # <<>>
        /\ transmit_timer' = [transmit_timer EXCEPT ![n] = FALSE]
        /\ StartBurst(n, Head(queue[n])) /\ UNCHANGED <<addr, queue, deferred>>
    BY DEF TimerFires, Armed
  <1>2. Head(queue[n]) = queue[n][1]
    BY <1>1 DEF Types
  <1>3. \A m : Items(m)' = Items(m)
    BY <1>1 DEF Items
  <1>4. Items(n) = {}
    BY <1>1 DEF Drivers, Sending, Types
  <1>5. /\ ~transmit_timer'[n]
        /\ \A m \in Records : m # n => transmit_timer'[m] = transmit_timer[m]
    BY <1>1 DEF Types
  <1> QED
    BY <1>1, <1>2, <1>3, <1>4, <1>5, StartKeepsDrivers

LEMMA DeferralEndsKeepsDrivers ==
  ASSUME DriverInv, FateInv', NEW n \in Records, NEW p \in Packets, DeferralEnds(n, p)
  PROVE  DriverInv'
  <1> USE DEF DriverInv, FateInv
  <1>1. /\ burst = None /\ <<n, p>> \in deferred /\ deferred' = deferred \ {<<n, p>>}
        /\ StartBurst(n, p) /\ UNCHANGED <<addr, queue, transmit_timer>>
    BY DEF DeferralEnds, records
  <1>2. <<n, p>> \in Items(n)
    BY <1>1 DEF Items
  <1>3. /\ queue[n] # <<>> /\ ~transmit_timer[n]
        /\ Items(n) = {<<n, queue[n][1]>>}
    BY <1>1, <1>2 DEF Drivers, Sending
  <1>4. p = queue[n][1]
    BY <1>2, <1>3
  <1>5. Items(n)' = {}
    BY <1>1, <1>3, <1>4 DEF Items
  <1>6. \A m \in Records : m # n => Items(m)' = Items(m)
    BY <1>1 DEF Items
  <1> QED
    BY <1>1, <1>3, <1>4, <1>5, <1>6, StartKeepsDrivers

\* The packet that is deferred is the head, whose timer is not set.
LEMMA DeferKeepsDrivers ==
  ASSUME DriverInv, FateInv', Defer
  PROVE  DriverInv'
  <1> USE DEF DriverInv, FateInv
  <1>1. /\ curr # None /\ ~awake /\ deferred' = deferred \cup {<<burst, curr>>}
        /\ burst' = None /\ curr' = None /\ next' = None
        /\ UNCHANGED <<addr, queue, transmit_timer>>
    BY DEF Defer, records
  <1>2. /\ burst \in Records /\ queue[burst] # <<>> /\ curr = queue[burst][1]
        /\ Items(burst) = {} /\ ~transmit_timer[burst]
    BY <1>1 DEF Rounds, Types
  <1>3. PICK b \in Records : b = burst
    BY <1>2
  <1>4. /\ Items(b)' = {<<b, queue[b][1]>>}
        /\ \A m \in Records : m # b => Items(m)' = Items(m)
    BY <1>1, <1>2, <1>3 DEF Items
  <1>5. Rounds'
    BY <1>1 DEF Rounds
  <1>6. \A m \in Records :
          /\ queue[m] # <<>> <=> addr[m] # None
          /\ queue[m] = <<>> => Items(m) = {}
          /\ m # burst /\ queue[m] # <<>> =>
               \/ transmit_timer[m] /\ Items(m) = {}
               \/ ~transmit_timer[m] /\ Items(m) = {<<m, queue[m][1]>>}
    BY DEF Drivers, Sending
  <1>7. Drivers'
    <2> SUFFICES ASSUME NEW m \in Records
                 PROVE  /\ queue[m] # <<>> <=> addr[m] # None
                        /\ queue[m] = <<>> => Items(m)' = {}
                        /\ queue[m] # <<>> =>
                             \/ transmit_timer[m] /\ Items(m)' = {}
                             \/ /\ ~transmit_timer[m]
                                /\ Items(m)' = {<<m, queue[m][1]>>}
      BY <1>1 DEF Drivers
    <2>1. CASE m = b
      BY <1>2, <1>3, <1>4, <1>6, <2>1
    <2>2. CASE m # b
      BY <1>3, <1>4, <1>6, <2>2
    <2> QED
      BY <2>1, <2>2
  <1> QED
    BY <1>5, <1>7

LEMMA ContinueKeepsDrivers ==
  ASSUME DriverInv, FateInv', Continue
  PROVE  DriverInv'
  <1> USE DEF DriverInv, FateInv
  <1>1. /\ burst # None /\ curr = None
        /\ UNCHANGED <<addr, queue, transmit_timer, deferred>>
    BY DEF Continue, records
  <1>2. \A m : Items(m)' = Items(m)
    BY <1>1 DEF Items
  <1>3. \A m \in Records :
          /\ queue[m] # <<>> <=> addr[m] # None
          /\ queue[m] = <<>> => Items(m) = {}
          /\ queue[m] # <<>> =>
               \/ transmit_timer[m] /\ Items(m) = {}
               \/ ~transmit_timer[m] /\ Items(m) = {<<m, queue[m][1]>>}
    BY <1>1 DEF Drivers, Sending
  <1>4. Drivers'
    BY <1>1, <1>2, <1>3 DEF Drivers
  <1>5. CASE next = None
    <2>1. burst' = None /\ curr' = None
      BY <1>1, <1>5 DEF Continue
    <2>2. Rounds'
      BY <2>1 DEF Rounds
    <2> QED
      BY <1>4, <2>2
  <1>6. CASE next # None
    <2>1. /\ burst' = burst /\ curr' = next /\ next' = Behind(burst, next) /\ awake'
      BY <1>1, <1>6 DEF Continue
    <2>2. /\ burst \in Records /\ queue[burst] # <<>>
          /\ next = queue[burst][1] /\ Items(burst) = {}
      BY <1>1, <1>6 DEF Rounds, Types
    <2>3. next' # None => Len(queue[burst]) > 1 /\ next' = queue[burst][2]
      BY <2>1, <2>2, BehindHead
    <2>4. Rounds'
      BY <1>1, <1>2, <1>6, <2>1, <2>2, <2>3 DEF Rounds
    <2> QED
      BY <1>4, <2>4
  <1> QED
    BY <1>5, <1>6

LEMMA DriverInvStep ==
  ASSUME Urgent = {}
  PROVE  DriverInv /\ [Next]_vars => DriverInv'
  <1> SUFFICES ASSUME DriverInv, [Next]_vars PROVE DriverInv'
    OBVIOUS
  <1>0. FateInv'
    BY FateInvStep DEF DriverInv
  <1>1. ASSUME NEW p \in Packets, NEW a \in Addresses, Accept(p, a) PROVE DriverInv'
    BY <1>0, <1>1, AcceptKeepsDrivers
  <1>2. ASSUME UNCHANGED <<records, loop, deferred>> PROVE DriverInv'
    BY <1>0, <1>2 DEF DriverInv, Rounds, Drivers, Sending, Items, records, loop
  <1>3. ASSUME NEW p \in Packets, NEW a \in Addresses, Refuse(p, a) PROVE DriverInv'
    BY <1>2, <1>3 DEF Refuse
  <1>4. ASSUME NEW n \in Records, TimerFires(n) PROVE DriverInv'
    BY <1>0, <1>4, TimerFiresKeepsDrivers
  <1>5. ASSUME NEW n \in Records, NEW p \in Packets, DeferralEnds(n, p) PROVE DriverInv'
    BY <1>0, <1>5, DeferralEndsKeepsDrivers
  <1>6. CASE ReceivingBurst
    BY <1>0, <1>6, SentKeepsDrivers DEF ReceivingBurst
  <1>7. CASE Defer
    BY <1>0, <1>7, DeferKeepsDrivers
  <1>8. ASSUME NEW result, SendResult(result) PROVE DriverInv'
    BY <1>0, <1>8, SentKeepsDrivers DEF SendResult
  <1>9. CASE Continue
    BY <1>0, <1>9, ContinueKeepsDrivers
  <1>10. CASE UNCHANGED vars
    BY <1>2, <1>10 DEF vars, records, loop
  <1> QED
    BY <1>1, <1>3, <1>4, <1>5, <1>6, <1>7, <1>8, <1>9, <1>10 DEF Next

LEMMA DriverInvInit == Init => DriverInv
  BY FateInvInit DEF Init, DriverInv, Rounds, Drivers, Items

LEMMA DriverImplied == DriverInv => OneDriver
  <1> SUFFICES ASSUME DriverInv, NEW n \in Records
               PROVE  LET items == {d \in deferred : d[1] = n}
                          sending == burst = n /\ curr # None
                      IN  /\ queue[n] # <<>> <=> addr[n] # None
                          /\ \A d \in items : queue[n] # <<>> /\ d[2] = queue[n][1]
                          /\ sending =>
                               queue[n] # <<>> /\ curr = queue[n][1] /\ items = {}
                          /\ queue[n] = <<>> => ~transmit_timer[n]
                          /\ queue[n] # <<>> =>
                               \/ sending
                               \/ transmit_timer[n] /\ items = {}
                               \/ ~transmit_timer[n] /\ Cardinality(items) = 1
    BY DEF OneDriver
  <1> DEFINE items == {d \in deferred : d[1] = n}
  <1>1. items = Items(n)
    BY DEF Items
  <1> HIDE DEF items
  <1>2. Sending(n) => queue[n] # <<>> /\ curr = queue[n][1] /\ items = {}
    BY <1>1 DEF DriverInv, Rounds, Sending
  <1>3. /\ queue[n] # <<>> <=> addr[n] # None
        /\ queue[n] = <<>> => items = {}
        /\ queue[n] # <<>> =>
             \/ Sending(n)
             \/ transmit_timer[n] /\ items = {}
             \/ ~transmit_timer[n] /\ items = {<<n, queue[n][1]>>}
    BY <1>1 DEF DriverInv, Drivers
  <1>4. queue[n] = <<>> => ~transmit_timer[n]
    BY DEF DriverInv, FateInv, Armed
  <1>5. items = {<<n, queue[n][1]>>} => Cardinality(items) = 1
    BY FS_Singleton
  <1>6. \A d \in items : queue[n] # <<>> /\ d[2] = queue[n][1]
    BY <1>2, <1>3
  <1> QED
    BY <1>2, <1>3, <1>4, <1>5, <1>6 DEF Sending, items

\* Whoever drives a queue holds its head, and there is exactly one driver:
\* timer, deferral or burst (csma.c:163-310, mcphase.c:199-260, qsend_list).
\* Packets of type ACK, which are put before a head that may be on its way
\* (csma.c:333), are left out: with them it does not hold.
THEOREM OneDriverHolds == Urgent = {} => (Spec => []OneDriver)
  <1> SUFFICES ASSUME Urgent = {} PROVE Spec => []OneDriver
    OBVIOUS
  <1> QED
    BY DriverInvInit, DriverInvStep, DriverImplied, PTL DEF Spec
=============================================================================
