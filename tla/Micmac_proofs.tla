---------------------------- MODULE Micmac_proofs ----------------------------
(***************************************************************************)
(* Theorems about Micmac, for every cycle, guard time, table and clock.    *)
(***************************************************************************)
EXTENDS Micmac, FiniteSetTheorems, TLAPS

-----------------------------------------------------------------------------
(* Whole numbers of cycles and rounds *)

Multiple(x, c) == \E q \in Int : x = c * q

\* What is taken off by a remainder is a multiple.
LEMMA MultipleMod ==
  ASSUME NEW x \in Int, NEW c \in Nat \ {0}
  PROVE  Multiple(x - (x % c), c)
  <1>1. x = c * (x \div c) + (x % c) /\ x % c \in Int /\ x \div c \in Int
    BY SMT
  <1>2. x - (x % c) = c * (x \div c)
    BY <1>1, SMT
  <1> QED
    BY <1>1, <1>2 DEF Multiple

\* Multiples are closed under sums and differences,
LEMMA MultipleSum ==
  ASSUME NEW x \in Int, NEW y \in Int, NEW c \in Int,
         Multiple(x, c), Multiple(y, c)
  PROVE  Multiple(x + y, c) /\ Multiple(x - y, c)
  <1>1. PICK p \in Int : x = c * p
    BY DEF Multiple
  <1>2. PICK q \in Int : y = c * q
    BY DEF Multiple
  <1>3. /\ x + y = c * (p + q) /\ p + q \in Int
        /\ x - y = c * (p - q) /\ p - q \in Int
    BY <1>1, <1>2, SMT
  <1> QED
    BY <1>3 DEF Multiple

\* and the relation is transitive.
LEMMA MultipleOf ==
  ASSUME NEW x \in Int, NEW d \in Int, NEW c \in Int,
         Multiple(x, d), Multiple(d, c)
  PROVE  Multiple(x, c)
  <1>1. PICK p \in Int : x = d * p
    BY DEF Multiple
  <1>2. PICK q \in Int : d = c * q
    BY DEF Multiple
  <1>3. x = c * (q * p) /\ q * p \in Int
    BY <1>1, <1>2, SMT
  <1> QED
    BY <1>3 DEF Multiple

\* Quotient and remainder are unique.
LEMMA DivMod ==
  ASSUME NEW q \in Int, NEW c \in Nat \ {0}, NEW r \in 0 .. c - 1
  PROVE  (c * q + r) % c = r /\ (c * q + r) \div c = q
  BY SMT

\* Numbers a multiple apart leave the same remainder.
LEMMA SameMod ==
  ASSUME NEW x \in Int, NEW y \in Int, NEW c \in Nat \ {0}, Multiple(x - y, c)
  PROVE  x % c = y % c
  <1>1. PICK q \in Int : x - y = c * q
    BY DEF Multiple
  <1>2. y = c * (y \div c) + (y % c) /\ y % c \in 0 .. c - 1 /\ y \div c \in Int
    BY SMT
  <1>3. c * (q + (y \div c)) = c * q + c * (y \div c) /\ q + (y \div c) \in Int
    BY <1>2, SMT
  <1>4. x = c * (q + (y \div c)) + (y % c)
    BY <1>1, <1>2, <1>3, SMT
  <1> QED
    BY <1>2, <1>3, <1>4, DivMod

LEMMA MultipleZero ==
  ASSUME NEW x \in Int, NEW c \in Nat \ {0}, x % c = 0
  PROVE  Multiple(x, c)
  BY MultipleMod, SMT

-----------------------------------------------------------------------------
(* The hop sequence *)

LEMMA ColumnsNat == Columns \in Nat \ {0}
  BY MicmacAssumption, FS_CardinalityType, FS_EmptySet DEF Columns

\* The channel is that of the place in the row.
LEMMA SameChannel ==
  ASSUME NEW x \in Int, NEW y \in Int, Multiple(x - y, Columns)
  PROVE  ChannelAt(x) = ChannelAt(y)
  BY SameMod, ColumnsNat DEF ChannelAt

\* An index of IndexMod values wraps at the end of the row.
LEMMA IndexWraps ==
  ASSUME NEW x \in Int, IndexMod % Columns = 0
  PROVE  /\ x % IndexMod \in Nat
         /\ Multiple((x % IndexMod) - x, Columns)
  <1>1. x % IndexMod \in Nat
    BY MicmacAssumption, SMT
  <1>2. Multiple(x - (x % IndexMod), Columns)
    <2>1. Multiple(x - (x % IndexMod), IndexMod)
      BY MultipleMod, MicmacAssumption
    <2>2. Multiple(IndexMod, Columns)
      BY MultipleZero, MicmacAssumption, ColumnsNat
    <2> QED
      BY <1>1, <2>1, <2>2, MultipleOf, MicmacAssumption, ColumnsNat
  <1>3. Multiple(0, Columns)
    <2>1. 0 = Columns * 0
      BY ColumnsNat, SMT
    <2> QED
      BY <2>1 DEF Multiple
  <1>4. Multiple(0 - (x - (x % IndexMod)), Columns)
    BY <1>1, <1>2, <1>3, MultipleSum, ColumnsNat
  <1>5. 0 - (x - (x % IndexMod)) = (x % IndexMod) - x
    BY <1>1, SMT
  <1> QED
    BY <1>1, <1>4, <1>5

\* The receiver hops by one place.
LEMMA HopsOn ==
  ASSUME rec_channel_index \in Nat, IndexMod % Columns = 0,
         rec_channel_index' = (rec_channel_index + 1) % IndexMod
  PROVE  /\ rec_channel_index' \in Nat
         /\ Multiple(rec_channel_index' - (rec_channel_index + 1), Columns)
  <1>1. rec_channel_index + 1 \in Int
    OBVIOUS
  <1> QED
    BY <1>1, IndexWraps

\* The row has each channel once.
LEMMA RowOnto == \A c \in Channels : \E i \in 0 .. Columns - 1 : Row[i] = c
  <1> DEFINE I == 0 .. Columns - 1
  <1>1. Row \in Injection(I, Channels)
    BY MicmacAssumption DEF Injection, IsInjective
  <1>2. IsFiniteSet(I) /\ Cardinality(I) = Columns
    BY ColumnsNat, FS_Interval, SMT
  <1>3. Row \in Surjection(I, Channels)
    BY <1>1, <1>2, FS_Injection, MicmacAssumption DEF Columns
  <1> QED
    BY <1>3 DEF Surjection

\* Each channel comes within a round.
LEMMA EveryChannel ==
  ASSUME NEW c \in Channels, NEW i \in Int
  PROVE  \E k \in 0 .. Columns - 1 : c = ChannelAt(i + k)
  <1>1. PICK j \in 0 .. Columns - 1 : Row[j] = c
    BY RowOnto
  <1> DEFINE k == (j - i) % Columns
  <1>2. k \in 0 .. Columns - 1
    BY ColumnsNat, SMT
  <1>3. Multiple((j - i) - k, Columns)
    <2>1. j - i \in Int
      BY ColumnsNat, SMT
    <2> QED
      BY <2>1, MultipleMod, ColumnsNat
  <1>4. (j - i) - k = j - (i + k)
    BY <1>2, ColumnsNat, SMT
  <1>5. ChannelAt(j) = ChannelAt(i + k)
    BY <1>2, <1>3, <1>4, SameChannel, ColumnsNat
  <1>6. ChannelAt(j) = c
    BY <1>1, ColumnsNat, SMT DEF ChannelAt
  <1> QED
    BY <1>2, <1>5, <1>6

\* The place after that of the channel at i is i + 1, a few rounds aside.
LEMMA PlaceAfterIs ==
  ASSUME NEW i \in Int
  PROVE  /\ PlaceAfter(ChannelAt(i)) \in Nat
         /\ Multiple(i + 1 - PlaceAfter(ChannelAt(i)), Columns)
  <1>1. i % Columns \in 0 .. Columns - 1 /\ i % Columns \in Int
    BY ColumnsNat, SMT
  <1>2. (CHOOSE j \in 0 .. Columns - 1 : Row[j] = Row[i % Columns]) = i % Columns
    BY <1>1, MicmacAssumption
  <1>3. PlaceAfter(ChannelAt(i)) = (i % Columns) + 1
    BY <1>2 DEF PlaceAfter, ChannelAt
  <1>4. Multiple(i - (i % Columns), Columns)
    BY MultipleMod, ColumnsNat
  <1>5. i + 1 - ((i % Columns) + 1) = i - (i % Columns)
    BY <1>1, SMT
  <1> QED
    BY <1>1, <1>3, <1>4, <1>5, SMT

-----------------------------------------------------------------------------
(* The inductive invariant *)

MicmacTypeOK ==
    /\ to_wake \in 0 .. 2 * Cycle /\ rec_channel_index \in Nat /\ first \in BOOLEAN
    /\ known \in BOOLEAN /\ age \in 0 .. ClockMod - 1 /\ channelseed \in Nat
    /\ pc \in {"idle", "deferred", "waiting", "strobing"} /\ left \in Nat
    /\ is_known_receiver \in BOOLEAN /\ stale \in BOOLEAN /\ disturbed \in BOOLEAN
    /\ send_channel \in Channels \cup {NoChannel}
    /\ pc \in {"waiting", "strobing"} => send_channel \in Channels
    /\ answer \in Nat \cup {-1}
    /\ is_known_receiver => known

\* The strobe to be answered meets the receiver where it has just woken.
Answering ==
    answer # -1 =>
        /\ pc = "strobing" /\ ~first
        /\ \E g \in {Cycle, 2 * Cycle} : g - to_wake + answer \in 0 .. MaxDelay
        /\ send_channel = ChannelAt(rec_channel_index)

\* In its rhythm, m cycles after the wake-up that was acknowledged the receiver wakes next,
\* m - 1 places on.
PhaseAt(d, m) ==
    /\ age + to_wake + d = Cycle * m
    /\ Multiple(rec_channel_index + 1 - (channelseed + m - 1), Columns)

Phase ==
    known /\ ~stale =>
        InRhythm /\ \E d \in 0 .. MaxDelay, m \in Int : PhaseAt(d, m)

\* Nothing went wrong that a train could be missed for.
Clear == ~disturbed /\ ~(is_known_receiver /\ stale)

\* The predicted wake-up is the next one or the one after it.
Aims(d, j) ==
    /\ to_wake + j * Cycle + d = left + Guard - Lead
    /\ send_channel = ChannelAt(rec_channel_index + 1 + j)

Aimed ==
    pc = "waiting" /\ is_known_receiver /\ Clear =>
        \E d \in 0 .. MaxDelay, j \in {0, 1} : Aims(d, j)

\* The short train lasts beyond the next wake-up.
Covers(d) ==
    /\ to_wake + d + KnownTrain = left + Guard - Lead
    /\ send_channel = ChannelAt(rec_channel_index + 1)

Covered ==
    pc = "strobing" /\ answer = -1 /\ is_known_receiver /\ Clear =>
        \E d \in 0 .. MaxDelay : Covers(d)

\* The long train lasts beyond the wake-up on its channel.
Finds(k) ==
    /\ send_channel = ChannelAt(rec_channel_index + 1 + k)
    /\ to_wake + k * Cycle + MaxDelay < left

Searched ==
    pc = "strobing" /\ answer = -1 /\ ~is_known_receiver /\ Clear =>
        InRhythm /\ \E k \in 0 .. Columns - 1 : Finds(k)

\* The train lasts beyond the strobe to be answered.
InTrain == pc = "strobing" /\ answer # -1 /\ Clear => answer < left

MInv == /\ MicmacTypeOK /\ Answering /\ Phase
        /\ Aimed /\ Covered /\ Searched /\ InTrain

-----------------------------------------------------------------------------
(* Types *)

\* What mcphase_wait computes is not in the past.
LEMMA WaitOK ==
  ASSUME age \in Nat
  PROVE  /\ Remaining \in 0 .. Cycle
         /\ Wait.ticks \in Nat /\ Wait.ticks >= Guard
         /\ Wait.cycles \in Nat
         /\ Deferral \in Nat
  <1>1. /\ age % Cycle \in 0 .. Cycle - 1 /\ age \div Cycle \in Nat
        /\ (Cycle - (age % Cycle)) % Cycle \in 0 .. Cycle - 1
    BY MicmacAssumption, SMT
  <1>2. Remaining \in 0 .. Cycle
    BY <1>1, MicmacAssumption, SMT DEF Remaining
  <1>3. /\ Wait.ticks \in Nat /\ Wait.ticks >= Guard
        /\ Wait.cycles \in Nat
    <2>1. CASE Remaining < Guard
      <3>1. Wait.ticks = Remaining + 1 * Cycle /\ Wait.cycles = age \div Cycle + 1
        BY <2>1 DEF Wait
      <3> QED
        BY <1>1, <1>2, <3>1, MicmacAssumption, SMT
    <2>2. CASE ~(Remaining < Guard)
      <3>1. Wait.ticks = Remaining + 0 * Cycle /\ Wait.cycles = age \div Cycle + 0
        BY <2>2 DEF Wait
      <3> QED
        BY <1>1, <1>2, <2>2, <3>1, MicmacAssumption, SMT
    <2> QED
      BY <2>1, <2>2
  <1>4. Deferral \in Nat
    BY <1>3, MicmacAssumption, SMT DEF Deferral
  <1> QED
    BY <1>2, <1>3, <1>4

LEMMA MicmacTypeInit == Init => MicmacTypeOK
  <1> SUFFICES ASSUME Init PROVE MicmacTypeOK
    OBVIOUS
  <1>1. to_wake \in 0 .. 2 * Cycle /\ age \in 0 .. ClockMod - 1 /\ rec_channel_index \in Nat
    BY MicmacAssumption, SMT DEF Init, FirstIndex
  <1>2. channelseed \in Nat /\ left \in Nat /\ answer \in Nat \cup {-1}
    BY DEF Init
  <1>3. pc = "idle" /\ send_channel = NoChannel
    BY DEF Init
  <1> QED
    BY <1>1, <1>2, <1>3, Zenon DEF Init, MicmacTypeOK

LEMMA SleepAgainType ==
  ASSUME SleepAgain PROVE to_wake' \in 0 .. 2 * Cycle /\ first' \in BOOLEAN
  <1>1. Cycle \in 0 .. 2 * Cycle /\ 2 * Cycle \in 0 .. 2 * Cycle
    BY MicmacAssumption, SMT
  <1>2. to_wake' = Cycle \/ to_wake' = 2 * Cycle
    BY DEF SleepAgain
  <1>3. first' \in BOOLEAN
    BY DEF SleepAgain
  <1> QED
    BY <1>1, <1>2, <1>3, Zenon

\* Every step keeps the types.
LEMMA MicmacTypeStep ==
  ASSUME MicmacTypeOK, Answering, [Next]_vars
  PROVE  MicmacTypeOK'
  <1> USE MicmacAssumption DEF MicmacTypeOK
  <1>1. CASE Defer
    <2>1. PICK early \in 0 .. ClockTick - 1 : left' = Deferral * ClockTick - early
      BY <1>1 DEF Defer
    <2>2. Deferral \in Nat /\ Deferral > 1
      BY <1>1, WaitOK DEF Defer, PutOff
    <2>3. left' \in Nat
      BY <2>1, <2>2, SMT
    <2> QED
      BY <1>1, <2>3 DEF Defer, receiver, entry, history
  <1>2. CASE SendToKnown
    <2>1. left' \in Nat
      <3>1. left' = Wait.ticks - Guard + Lead /\ Wait.ticks \in Nat /\ Wait.ticks >= Guard
        BY <1>2, WaitOK DEF SendToKnown
      <3> QED
        BY <3>1, SMT
    <2>2. send_channel' \in Channels
      <3>1. (channelseed + Wait.cycles) % IndexMod \in Nat
        BY WaitOK, SMT
      <3>2. ((channelseed + Wait.cycles) % IndexMod) % Columns \in 0 .. Columns - 1
        BY <3>1, ColumnsNat, SMT
      <3> QED
        BY <1>2, <3>2 DEF SendToKnown, ChannelAt
    <2> QED
      BY <1>2, <2>1, <2>2 DEF SendToKnown, receiver, entry
  <1>3. CASE SendToUnknown
    BY <1>3 DEF SendToUnknown, receiver, entry
  <1>4. CASE StartTrain
    <2>1. UnknownTrain \in Nat
      BY ColumnsNat, SMT DEF UnknownTrain
    <2> QED
      BY <1>4, <2>1 DEF StartTrain, receiver, entry
  <1>5. CASE Acked
    <2>1. PlaceAfter(send_channel) \in Nat
      BY <1>5, PlaceAfterIs DEF Acked, Answering
    <2>2. age' \in 0 .. ClockMod - 1 /\ channelseed' \in Nat
      BY <1>5, <2>1 DEF Acked
    <2>3. pc' = "idle" /\ left' \in Nat /\ answer' \in Nat \cup {-1}
      BY <1>5 DEF Acked, Return
    <2> QED
      BY <1>5, <2>2, <2>3, Zenon DEF Acked, Return, receiver
  <1>6. CASE Missed
    <2>1. age' \in 0 .. ClockMod - 1 /\ channelseed' \in Nat
      BY <1>6 DEF Missed, entry
    <2>2. pc' = "idle" /\ left' \in Nat /\ answer' \in Nat \cup {-1}
      BY <1>6 DEF Missed, Return
    <2>3. known' \in BOOLEAN /\ stale' \in BOOLEAN
      BY <1>6, Zenon DEF Missed, entry
    <2> QED
      BY <1>6, <2>1, <2>2, <2>3, Zenon DEF Missed, Return, receiver
  <1>7. CASE Wake
    <2>1. (rec_channel_index + 1) % IndexMod \in Nat
      BY SMT
    <2>2. to_wake' \in 0 .. 2 * Cycle /\ first' \in BOOLEAN
      BY <1>7, SleepAgainType, Zenon DEF Wake
    <2>3. answer' \in Nat \cup {-1}
      BY <1>7 DEF Wake
    <2> QED
      BY <1>7, <2>1, <2>2, <2>3 DEF Wake, entry, sender, history
  <1>8. CASE Collide
    BY <1>8 DEF Collide, Return, receiver, entry
  <1>9. CASE AckLost
    BY <1>9 DEF AckLost, receiver, entry, sender
  <1>10. CASE WakeDeaf
    <2>1. (rec_channel_index + 1) % IndexMod \in Nat
      BY SMT
    <2>2. to_wake' \in 0 .. 2 * Cycle /\ first' \in BOOLEAN
      BY <1>10, SleepAgainType, Zenon DEF WakeDeaf
    <2> QED
      BY <1>10, <2>1, <2>2 DEF WakeDeaf, entry, sender
  <1>11. CASE Reboot
    BY <1>11 DEF Reboot, entry, sender, FirstIndex
  <1>12. CASE Ask
    BY <1>12 DEF Ask, receiver, entry, history
  <1>13. CASE Tick
    <2>1. (age + 1) % ClockMod \in 0 .. ClockMod - 1
      BY SMT
    <2>2. to_wake' \in 0 .. 2 * Cycle /\ left' \in Nat /\ answer' \in Nat \cup {-1}
      BY <1>13 DEF Tick, Less
    <2> QED
      BY <1>13, <2>1, <2>2 DEF Tick, history
  <1>14. CASE UNCHANGED vars
    BY <1>14 DEF vars
  <1> QED
    BY <1>1, <1>2, <1>3, <1>4, <1>5, <1>6, <1>7, <1>8, <1>9, <1>10, <1>11, <1>12,
       <1>13, <1>14 DEF Next, Send, Fault

-----------------------------------------------------------------------------
(* The phase *)

\* The clock wraps after whole rounds of the sequence.
LEMMA ClockWraps == \E w \in Int : ClockMod = Cycle * (Columns * w)
  <1>1. Cycle * Columns \in Nat \ {0}
    BY ColumnsNat, MicmacAssumption, SMT
  <1>2. Multiple(ClockMod, Cycle * Columns)
    BY <1>1, MultipleZero, MicmacAssumption
  <1>3. PICK w \in Int : ClockMod = (Cycle * Columns) * w
    BY <1>2 DEF Multiple
  <1>4. ClockMod = Cycle * (Columns * w)
    BY <1>3, ColumnsNat, MicmacAssumption, SMT
  <1> QED
    BY <1>4

\* As time passes, the moment of the acknowledgement and the next wake-up stay
\* where they are; the wrap of the clock takes rounds away.
LEMMA PhaseTick ==
  ASSUME MicmacTypeOK, Phase, Tick
  PROVE  Phase'
  <1> SUFFICES ASSUME known, ~stale PROVE Phase'
    BY DEF Phase, Tick, history
  <1>0. InRhythm'
    BY MicmacAssumption DEF Phase, InRhythm, Tick, MicmacTypeOK
  <1> USE MicmacAssumption, ColumnsNat DEF MicmacTypeOK
  <1>1. PICK d \in 0 .. MaxDelay, m \in Int : PhaseAt(d, m)
    BY DEF Phase
  <1>2. /\ to_wake' = to_wake - 1 /\ age' = (age + 1) % ClockMod
        /\ UNCHANGED <<rec_channel_index, channelseed>>
    BY DEF Tick
  <1>3. CASE age + 1 < ClockMod
    <2>1. age' = age + 1
      BY <1>2, <1>3, SMT
    <2>2. PhaseAt(d, m)'
      BY <1>1, <1>2, <2>1 DEF PhaseAt
    <2> QED
      BY <1>0, <2>2 DEF Phase
  <1>4. CASE age + 1 = ClockMod
    <2>1. age' = 0
      BY <1>2, <1>4, SMT
    <2>2. PICK w \in Int : ClockMod = Cycle * (Columns * w)
      BY ClockWraps
    <2> DEFINE n == m - Columns * w
    <2>3. n \in Int /\ Columns * w \in Int
      BY SMT
    <2>4. Cycle * n = Cycle * m - ClockMod
      BY <2>2, <2>3, SMT
    <2>5. age' + to_wake' + d = Cycle * n
      BY <1>1, <1>2, <1>4, <2>1, <2>4 DEF PhaseAt
    <2>6. Multiple(rec_channel_index + 1 - (channelseed + m - 1) + Columns * w, Columns)
      <3>1. Multiple(Columns * w, Columns)
        BY DEF Multiple
      <3>2. rec_channel_index + 1 - (channelseed + m - 1) \in Int
        OBVIOUS
      <3> QED
        BY <1>1, <2>3, <3>1, <3>2, MultipleSum DEF PhaseAt
    <2>7. rec_channel_index + 1 - (channelseed + m - 1) + Columns * w
             = rec_channel_index + 1 - (channelseed + n - 1)
      BY <2>3
    <2>8. PhaseAt(d, n)'
      BY <1>2, <2>5, <2>6, <2>7 DEF PhaseAt
    <2> QED
      BY <1>0, <2>3, <2>8 DEF Phase
  <1> QED
    BY <1>3, <1>4

\* When the receiver wakes, the next wake-up is a cycle and a place further.
LEMMA PhaseWakes ==
  ASSUME MicmacTypeOK, Phase, IndexMod % Columns = 0,
         SleepAgain,
         rec_channel_index' = (rec_channel_index + 1) % IndexMod,
         UNCHANGED <<known, age, channelseed, stale>>
  PROVE  Phase'
  <1> SUFFICES ASSUME known, ~stale PROVE Phase'
    BY DEF Phase
  <1> USE MicmacAssumption, ColumnsNat DEF MicmacTypeOK
  <1>0. to_wake = 0 /\ to_wake' = Cycle /\ InRhythm'
    BY DEF Phase, InRhythm, SleepAgain
  <1>1. PICK d \in 0 .. MaxDelay, m \in Int : PhaseAt(d, m)
    BY DEF Phase
  <1>2. m + 1 \in Int /\ Cycle * (m + 1) = Cycle * m + Cycle
    BY SMT
  <1>3. age' + to_wake' + d = Cycle * (m + 1)
    BY <1>0, <1>1, <1>2 DEF PhaseAt
  <1>4. /\ rec_channel_index' \in Nat
        /\ Multiple(rec_channel_index' - (rec_channel_index + 1), Columns)
    BY HopsOn
  <1>5. Multiple(rec_channel_index + 1 - (channelseed + m - 1)
                   + (rec_channel_index' - (rec_channel_index + 1)), Columns)
    <2>1. /\ rec_channel_index + 1 - (channelseed + m - 1) \in Int
          /\ rec_channel_index' - (rec_channel_index + 1) \in Int
      BY <1>4
    <2> QED
      BY <1>1, <1>4, <2>1, MultipleSum DEF PhaseAt
  <1>6. rec_channel_index + 1 - (channelseed + m - 1)
          + (rec_channel_index' - (rec_channel_index + 1))
        = rec_channel_index' + 1 - (channelseed + (m + 1) - 1)
    BY <1>4
  <1>7. PhaseAt(d, m + 1)'
    BY <1>3, <1>5, <1>6 DEF PhaseAt
  <1> QED
    BY <1>0, <1>2, <1>7 DEF Phase

\* An acknowledgement tells when the receiver woke last, and where.
LEMMA PhaseLearnt ==
  ASSUME MicmacTypeOK, Answering, Acked
  PROVE  Phase'
  <1> SUFFICES ASSUME InRhythm PROVE Phase'
    BY DEF Acked, Phase
  <1> USE MicmacAssumption, ColumnsNat DEF MicmacTypeOK
  <1>0. PICK d \in 0 .. MaxDelay : d = Cycle - to_wake
    BY DEF Acked, Answering, InRhythm
  <1>1. send_channel = ChannelAt(rec_channel_index)
    BY DEF Acked, Answering
  <1>2. /\ age' = 0 /\ channelseed' = PlaceAfter(send_channel)
        /\ UNCHANGED <<to_wake, rec_channel_index>> /\ InRhythm'
    BY DEF Acked, receiver, InRhythm
  <1>3. /\ channelseed' \in Nat
        /\ Multiple(rec_channel_index + 1 - channelseed', Columns)
    BY <1>1, <1>2, PlaceAfterIs
  <1>4. rec_channel_index' + 1 - (channelseed' + 1 - 1) = rec_channel_index + 1 - channelseed'
    BY <1>2, <1>3
  <1>5. age' + to_wake' + d = Cycle * 1
    BY <1>0, <1>2
  <1>6. PhaseAt(d, 1)'
    BY <1>3, <1>4, <1>5 DEF PhaseAt
  <1> QED
    BY <1>1, <1>2, <1>6 DEF Phase

LEMMA PhaseStep ==
  ASSUME MicmacTypeOK, Answering, Phase, IndexMod % Columns = 0, [Next]_vars
  PROVE  Phase'
  <1>1. CASE Tick
    BY <1>1, PhaseTick
  <1>2. CASE Wake
    BY <1>2, PhaseWakes DEF Wake, entry, history
  <1>3. CASE WakeDeaf
    BY <1>3, PhaseWakes DEF WakeDeaf, entry
  <1>4. CASE Acked
    BY <1>4, PhaseLearnt
  <1>5. CASE Reboot
    BY <1>5 DEF Reboot, entry, Phase
  <1>6. CASE Missed
    <2>1. known' => UNCHANGED <<known, age, channelseed, stale, receiver>>
      BY <1>6 DEF Missed, entry
    <2> QED
      BY <2>1 DEF Phase, PhaseAt, InRhythm, receiver
  <1>7. CASE UNCHANGED <<known, age, channelseed, stale, receiver>>
    BY <1>7 DEF Phase, PhaseAt, InRhythm, receiver
  <1>8. Send \/ StartTrain \/ Collide \/ AckLost \/ Ask \/ UNCHANGED vars
          => UNCHANGED <<known, age, channelseed, stale, receiver>>
    BY DEF Send, Defer, SendToKnown, SendToUnknown, StartTrain, Collide, AckLost, Ask,
           vars, receiver, entry, history
  <1> QED
    BY <1>1, <1>2, <1>3, <1>4, <1>5, <1>6, <1>7, <1>8 DEF Next, Fault

-----------------------------------------------------------------------------
(* Trains *)

\* The strobe that will be answered is sent where and when the receiver is.
LEMMA AnsweringStep ==
  ASSUME MicmacTypeOK, Answering, IndexMod % Columns = 0, [Next]_vars
  PROVE  Answering'
  <1> USE MicmacAssumption DEF MicmacTypeOK
  <1>1. CASE Wake
    <2>1. CASE Hears
      <3>1. /\ pc = "strobing" /\ pc' = pc /\ ~first' /\ to_wake' \in {Cycle, 2 * Cycle}
            /\ answer' \in 0 .. MaxDelay
            /\ send_channel' = ChannelAt(rec_channel_index + 1)
        BY <1>1, <2>1 DEF Wake, SleepAgain, Hears, sender
      <3>2. ChannelAt(rec_channel_index') = ChannelAt(rec_channel_index + 1)
        <4>1. /\ rec_channel_index' \in Nat
              /\ Multiple(rec_channel_index' - (rec_channel_index + 1), Columns)
          BY <1>1, HopsOn DEF Wake
        <4> QED
          BY <4>1, SameChannel
      <3>3. to_wake' - to_wake' + answer' \in 0 .. MaxDelay
        <4>1. \A x \in Int, y \in 0 .. MaxDelay : x - x + y \in 0 .. MaxDelay
          OBVIOUS
        <4>2. Cycle \in Int /\ 2 * Cycle \in Int
          OBVIOUS
        <4> QED
          BY <3>1, <4>1, <4>2, Zenon
      <3>4. send_channel' = ChannelAt(rec_channel_index')
        BY <3>1, <3>2
      <3> QED
        BY <3>1, <3>3, <3>4, Zenon DEF Answering
    <2>2. CASE ~Hears
      <3>1. answer = -1
        BY <1>1 DEF Wake, SleepAgain, Answering
      <3> QED
        BY <1>1, <2>2, <3>1 DEF Wake, Answering
    <2> QED
      BY <2>1, <2>2
  <1>2. CASE WakeDeaf
    BY <1>2 DEF WakeDeaf, Hears, Answering
  <1>3. CASE Tick
    BY <1>3 DEF Tick, Less, Answering
  <1>4. CASE answer' = -1
    BY <1>4 DEF Answering
  <1>5. Acked \/ Missed \/ Collide \/ AckLost \/ Reboot => answer' = -1
    BY DEF Acked, Missed, Collide, AckLost, Reboot, Return
  <1>6. Send \/ StartTrain \/ Ask => answer = -1 /\ answer' = answer
    BY DEF Send, Defer, SendToKnown, SendToUnknown, StartTrain, Ask, MaySend, Answering
  <1>7. CASE UNCHANGED vars
    BY <1>7 DEF vars, Answering
  <1> QED
    BY <1>1, <1>2, <1>3, <1>4, <1>5, <1>6, <1>7 DEF Next, Fault

\* The prediction: mcphase_wait names the next wake-up or the one after it,
\* and the channel of that one.
LEMMA Predicts ==
  ASSUME MicmacTypeOK, Phase, IndexMod % Columns = 0,
         PowerOfTwo => Guard + 2 * ClockTick <= Cycle,
         known, ~stale, ~PutOff
  PROVE  \E d \in 0 .. MaxDelay, j \in {0, 1} :
            /\ to_wake + j * Cycle + d = Wait.ticks
            /\ ChannelAt((channelseed + Wait.cycles) % IndexMod)
                  = ChannelAt(rec_channel_index + 1 + j)
  <1> USE MicmacAssumption, ColumnsNat DEF MicmacTypeOK
  <1>0. to_wake <= Cycle
    BY DEF Phase, InRhythm
  <1>1. PICK d \in 0 .. MaxDelay, m \in Int : PhaseAt(d, m)
    BY DEF Phase
  <1> DEFINE a == age \div Cycle
             r == age % Cycle
             n == m - a
             more == IF Remaining < Guard THEN 1 ELSE 0
             j == more + 1 - n
  <1>2. a \in Nat /\ r \in 0 .. Cycle - 1 /\ age = Cycle * a + r
    BY SMT
  <1>3. n \in Int /\ Cycle * n = Cycle * m - Cycle * a
    BY <1>2, SMT
  <1>4. to_wake + d = Cycle * n - r
    <2>1. age + to_wake + d = Cycle * m
      BY <1>1 DEF PhaseAt
    <2> HIDE DEF a, r, n
    <2> QED
      BY <1>2, <1>3, <2>1
  <1>5. Wait.ticks = Remaining + more * Cycle /\ Wait.cycles = a + more
    BY DEF Wait
  \* It is before the end of the next cycle but one.
  <1>6. n \in {0, 1, 2} /\ (n = 0 => r = 0) /\ (n = 2 => r >= Cycle - MaxDelay)
    <2> HIDE DEF a, r, n
    <2>1. Cycle * n <= 2 * Cycle + MaxDelay /\ Cycle * n >= 0
      BY <1>0, <1>2, <1>3, <1>4
    <2>2. n < 3
      <3> SUFFICES ASSUME n >= 3 PROVE FALSE
        BY <1>3
      <3>1. Cycle * n >= Cycle * 3
        BY <1>3, SMT
      <3> QED
        BY <1>3, <2>1, <3>1
    <2>3. n >= 0
      <3> SUFFICES ASSUME n <= -1 PROVE FALSE
        BY <1>3
      <3>1. Cycle * n <= Cycle * (-1)
        BY <1>3, SMT
      <3> QED
        BY <1>3, <2>1, <3>1
    <2>4. n = 0 \/ n = 1 \/ n = 2
      BY <1>3, <2>2, <2>3
    <2> QED
      BY <1>0, <1>2, <1>4, <2>4
  <1>7. /\ j \in {0, 1}
        /\ to_wake + j * Cycle + d = Wait.ticks
    <2> HIDE DEF a, n
    <2>1. CASE r # 0
      <3>1. Remaining = Cycle - r
        <4>1. Cycle - r \in 0 .. Cycle - 1
          BY <1>2, <2>1
        <4>2. (Cycle - r) % Cycle = Cycle - r
          BY <4>1, SMT
        <4> QED
          BY <4>2 DEF Remaining
      <3> HIDE DEF r
      <3>2. CASE Remaining < Guard
        BY <1>0, <1>2, <1>3, <1>4, <1>5, <1>6, <2>1, <3>1, <3>2
      <3>3. CASE ~(Remaining < Guard)
        BY <1>0, <1>2, <1>3, <1>4, <1>5, <1>6, <2>1, <3>1, <3>3
      <3> QED
        BY <3>2, <3>3
    <2>2. CASE r = 0 /\ ~PowerOfTwo
      <3>1. Remaining = Cycle /\ ~(Remaining < Guard)
        BY <2>2 DEF Remaining
      <3> HIDE DEF r
      <3> QED
        BY <1>0, <1>2, <1>3, <1>4, <1>5, <1>6, <2>2, <3>1
    \* The power of two is off by a cycle here, and the packet was put off.
    <2>3. CASE r = 0 /\ PowerOfTwo
      <3>1. Remaining = 0
        <4>1. (Cycle - 0) % Cycle = 0
          BY SMT
        <4> QED
          BY <2>3, <4>1 DEF Remaining
      <3>2. Wait.ticks = Cycle
        BY <1>5, <3>1
      <3>3. Cycle - Guard >= 2 * ClockTick
        BY <2>3
      <3>4. (Cycle - Guard) \div ClockTick > 1
        BY <3>3, SMT
      <3> QED
        BY <3>2, <3>4 DEF PutOff, Deferral
    <2> QED
      BY <2>1, <2>2, <2>3
  <1>8. ChannelAt((channelseed + Wait.cycles) % IndexMod)
           = ChannelAt(rec_channel_index + 1 + j)
    <2>1. more \in {0, 1}
      OBVIOUS
    <2> HIDE DEF a, more
    <2> DEFINE i == channelseed + (a + more)
               p == rec_channel_index + 1 - (channelseed + m - 1)
    <2>2. i \in Int /\ p \in Int /\ i % IndexMod \in Nat
      BY <1>2, <2>1, IndexWraps
    <2>3. Multiple(((i % IndexMod) - i) - p, Columns)
      <3>1. Multiple(p, Columns)
        BY <1>1 DEF PhaseAt
      <3>2. Multiple((i % IndexMod) - i, Columns)
        BY <2>2, IndexWraps
      <3> HIDE DEF i, p
      <3> QED
        BY <2>2, <3>1, <3>2, MultipleSum
    <2>4. ((i % IndexMod) - i) - p = (i % IndexMod) - (rec_channel_index + 1 + j)
      <3> DEFINE x == i % IndexMod
      <3>1. x \in Nat
        BY <2>2
      <3> HIDE DEF x
      <3> SUFFICES (x - i) - p = x - (rec_channel_index + 1 + j)
        BY DEF x
      <3> QED
        BY <1>2, <2>1, <3>1
    <2>5. rec_channel_index + 1 + j \in Int
      BY <1>2, <2>1
    <2>6. ChannelAt(i % IndexMod) = ChannelAt(rec_channel_index + 1 + j)
      BY <2>2, <2>3, <2>4, <2>5, SameChannel
    <2> QED
      BY <1>5, <2>6
  <1> QED
    BY <1>7, <1>8

\* Until its train begins, the sender stays aimed at a wake-up.
LEMMA AimedStep ==
  ASSUME MicmacTypeOK, Answering, Phase, Aimed, IndexMod % Columns = 0,
         PowerOfTwo => Guard + 2 * ClockTick <= Cycle, [Next]_vars
  PROVE  Aimed'
  <1> SUFFICES ASSUME (pc = "waiting" /\ is_known_receiver /\ Clear)'
               PROVE  (\E d \in 0 .. MaxDelay, j \in {0, 1} : Aims(d, j))'
    BY DEF Aimed
  <1> USE MicmacAssumption, ColumnsNat DEF MicmacTypeOK
  <1>1. CASE SendToKnown
    <2>1. known /\ ~stale /\ ~PutOff
      BY <1>1 DEF SendToKnown, Clear
    <2>2. PICK d \in 0 .. MaxDelay, j \in {0, 1} :
             /\ to_wake + j * Cycle + d = Wait.ticks
             /\ ChannelAt((channelseed + Wait.cycles) % IndexMod)
                   = ChannelAt(rec_channel_index + 1 + j)
      BY <2>1, Predicts
    <2>3. /\ to_wake' = to_wake /\ rec_channel_index' = rec_channel_index
          /\ left' = Wait.ticks - Guard + Lead
          /\ send_channel' = ChannelAt((channelseed + Wait.cycles) % IndexMod)
      BY <1>1 DEF SendToKnown, receiver
    <2>4. to_wake' + j * Cycle + d = left' + Guard - Lead
      <3>1. Wait.ticks \in Int
        BY WaitOK
      <3> QED
        BY <2>2, <2>3, <3>1
    <2>5. Aims(d, j)'
      BY <2>2, <2>3, <2>4, Zenon DEF Aims
    <2> QED
      BY <2>5
  <1>2. CASE Wake \/ WakeDeaf
    <2>0. /\ pc = "waiting" /\ is_known_receiver /\ Clear /\ SleepAgain
          /\ left' = left /\ send_channel' = send_channel
          /\ rec_channel_index' = (rec_channel_index + 1) % IndexMod
      BY <1>2 DEF Wake, WakeDeaf, Hears, sender, entry, history, Clear
    <2>1. to_wake = 0 /\ to_wake' = Cycle
      BY <2>0 DEF SleepAgain, Phase, InRhythm, Clear
    <2>2. PICK d \in 0 .. MaxDelay, j \in {0, 1} : Aims(d, j)
      BY <2>0, <2>1 DEF Aimed
    <2>3. j = 1
      BY <2>0, <2>1, <2>2 DEF Aims
    <2>4. to_wake' + 0 * Cycle + d = left' + Guard - Lead
      BY <2>0, <2>1, <2>2, <2>3 DEF Aims
    <2>5. send_channel' = ChannelAt(rec_channel_index' + 1 + 0)
      <3>2. /\ rec_channel_index' \in Nat
            /\ Multiple(rec_channel_index' - (rec_channel_index + 1), Columns)
        BY <2>0, <2>1, HopsOn
      <3>3. rec_channel_index' - (rec_channel_index + 1)
              = (rec_channel_index' + 1 + 0) - (rec_channel_index + 1 + 1)
        BY <3>2
      <3>4. ChannelAt(rec_channel_index' + 1 + 0) = ChannelAt(rec_channel_index + 1 + 1)
        BY <3>2, <3>3, SameChannel
      <3> QED
        BY <2>0, <2>1, <2>2, <2>3, <3>4 DEF Aims
    <2>6. Aims(d, 0)'
      BY <2>4, <2>5, Zenon DEF Aims
    <2> QED
      BY <2>6
  <1>3. CASE Tick
    <2>1. /\ to_wake' = to_wake - 1 /\ left' = left - 1
          /\ UNCHANGED <<rec_channel_index, send_channel>>
          /\ pc = "waiting" /\ is_known_receiver /\ Clear
      BY <1>3 DEF Tick, Less, history, Clear
    <2>2. PICK d \in 0 .. MaxDelay, j \in {0, 1} : Aims(d, j)
      BY <2>1 DEF Aimed
    <2>3. Aims(d, j)'
      BY <2>1, <2>2 DEF Aims
    <2> QED
      BY <2>3
  <1>4. CASE Defer \/ SendToUnknown \/ StartTrain \/ Collide \/ Acked \/ Missed \/ AckLost
             \/ Reboot \/ Ask
    BY <1>4 DEF Defer, SendToUnknown, StartTrain, Collide, Acked, Missed, AckLost, Reboot,
                Ask, Return, Clear, sender
  <1>5. CASE UNCHANGED vars
    BY <1>5 DEF vars, Aimed, Aims, Clear
  <1> QED
    BY <1>1, <1>2, <1>3, <1>4, <1>5 DEF Next, Send, Fault

\* A train to a known receiver begins before its wake-up and ends after it.
LEMMA CoveredStep ==
  ASSUME MicmacTypeOK, Aimed, Covered, [Next]_vars
  PROVE  Covered'
  <1> SUFFICES ASSUME (pc = "strobing" /\ answer = -1 /\ is_known_receiver /\ Clear)'
               PROVE  (\E d \in 0 .. MaxDelay : Covers(d))'
    BY DEF Covered
  <1> USE MicmacAssumption, ColumnsNat DEF MicmacTypeOK
  <1>1. CASE StartTrain
    <2>1. /\ left = 0 /\ left' = KnownTrain
          /\ UNCHANGED <<to_wake, rec_channel_index, send_channel>>
          /\ pc = "waiting" /\ is_known_receiver /\ Clear
      BY <1>1 DEF StartTrain, receiver, entry, Clear
    <2>2. PICK d \in 0 .. MaxDelay, j \in {0, 1} : Aims(d, j)
      BY <2>1 DEF Aimed
    <2>3. j = 0
      BY <2>1, <2>2 DEF Aims
    <2>4. to_wake' + d + KnownTrain = left' + Guard - Lead
      BY <2>1, <2>2, <2>3 DEF Aims
    <2>5. send_channel' = ChannelAt(rec_channel_index' + 1)
      <3>1. rec_channel_index + 1 + 0 = rec_channel_index + 1
        OBVIOUS
      <3> QED
        BY <2>1, <2>2, <2>3, <3>1 DEF Aims
    <2>6. Covers(d)'
      BY <2>4, <2>5, Zenon DEF Covers
    <2> QED
      BY <2>6
  <1>2. CASE Tick
    <2>1. /\ to_wake' = to_wake - 1 /\ left' = left - 1
          /\ UNCHANGED <<rec_channel_index, send_channel>>
          /\ pc = "strobing" /\ answer = -1 /\ is_known_receiver /\ Clear
      BY <1>2 DEF Tick, Less, history, Clear
    <2>2. PICK d \in 0 .. MaxDelay : Covers(d)
      BY <2>1 DEF Covered
    <2>3. Covers(d)'
      BY <2>1, <2>2 DEF Covers
    <2> QED
      BY <2>3
  \* The receiver wakes on the channel of the train, and hears it.
  <1>3. CASE Wake
    <2>1. pc = "strobing" /\ is_known_receiver /\ Clear
      BY <1>3 DEF Wake, sender, entry, history, Clear
    <2>2. answer = -1
      BY <1>3 DEF Wake, Hears
    <2>3. PICK d \in 0 .. MaxDelay : Covers(d)
      BY <2>1, <2>2 DEF Covered
    <2>4. Hears
      BY <2>1, <2>2, <2>3 DEF Covers, Hears
    <2>5. answer' # -1
      BY <1>3, <2>4 DEF Wake
    <2> QED
      BY <2>5
  <1>4. CASE Send \/ Collide \/ Acked \/ Missed \/ AckLost \/ WakeDeaf \/ Reboot \/ Ask
    BY <1>4 DEF Send, Defer, SendToKnown, SendToUnknown, Collide, Acked, Missed, AckLost,
                WakeDeaf, Reboot, Ask, Return, Clear, sender, entry
  <1>5. CASE UNCHANGED vars
    BY <1>5 DEF vars, Covered, Covers, Clear
  <1> QED
    BY <1>1, <1>2, <1>3, <1>4, <1>5 DEF Next, Fault

\* A train to an unknown one lasts until the receiver has been on its channel.
LEMMA SearchedStep ==
  ASSUME MicmacTypeOK, Searched, IndexMod % Columns = 0, [Next]_vars
  PROVE  Searched'
  <1> SUFFICES ASSUME (pc = "strobing" /\ answer = -1 /\ ~is_known_receiver /\ Clear)'
               PROVE  (InRhythm /\ \E k \in 0 .. Columns - 1 : Finds(k))'
    BY DEF Searched
  <1> USE MicmacAssumption, ColumnsNat DEF MicmacTypeOK
  <1>1. CASE StartTrain
    <2>1. /\ pc = "waiting" /\ left' = UnknownTrain
          /\ UNCHANGED <<to_wake, rec_channel_index, send_channel>>
          /\ to_wake <= Cycle /\ InRhythm'
      BY <1>1 DEF StartTrain, receiver, Clear, InRhythm
    <2>2. PICK k \in 0 .. Columns - 1 : send_channel = ChannelAt(rec_channel_index + 1 + k)
      <3>1. rec_channel_index + 1 \in Int /\ send_channel \in Channels
        BY <2>1
      <3> QED
        BY <3>1, EveryChannel
    <2>3. to_wake + k * Cycle + MaxDelay < UnknownTrain
      <3>1. k * Cycle + Cycle <= Columns * Cycle
        BY SMT
      <3>2. UnknownTrain = Columns * Cycle + Columns * Slack
        BY SMT DEF UnknownTrain
      <3>3. k * Cycle \in Int /\ Columns * Cycle \in Int /\ Columns * Slack \in Int
        BY SMT
      <3> DEFINE kc == k * Cycle
                 cc == Columns * Cycle
                 cs == Columns * Slack
      <3>4. MaxDelay < cs
        OBVIOUS
      <3> HIDE DEF kc, cc, cs
      <3> SUFFICES to_wake + kc + MaxDelay < UnknownTrain
        BY DEF kc
      <3>5. kc + Cycle <= cc /\ UnknownTrain = cc + cs /\ kc \in Int /\ cc \in Int /\ cs \in Int
        BY <3>1, <3>2, <3>3 DEF kc, cc, cs
      <3> QED
        BY <2>1, <3>4, <3>5
    <2>4. Finds(k)'
      BY <2>1, <2>2, <2>3 DEF Finds
    <2> QED
      BY <2>1, <2>4
  <1>2. CASE Tick
    <2>1. /\ to_wake' = to_wake - 1 /\ left' = left - 1
          /\ UNCHANGED <<rec_channel_index, send_channel>>
          /\ pc = "strobing" /\ answer = -1 /\ ~is_known_receiver /\ Clear
      BY <1>2 DEF Tick, Less, history, Clear
    <2>2. PICK k \in 0 .. Columns - 1 : Finds(k)
      BY <2>1 DEF Searched
    <2>3. k * Cycle \in Int
      BY SMT
    <2>4. to_wake' + k * Cycle + MaxDelay < left'
      BY <2>1, <2>2, <2>3 DEF Finds
    <2>5. Finds(k)'
      BY <2>1, <2>2, <2>4 DEF Finds
    <2>6. InRhythm'
      BY <1>2, <2>1 DEF Tick, Searched, InRhythm
    <2> QED
      BY <2>5, <2>6
  \* One place on, unless it hears.
  <1>3. CASE Wake
    <2>0. /\ pc = "strobing" /\ answer = -1 /\ ~is_known_receiver /\ Clear /\ ~Hears
          /\ left' = left /\ send_channel' = send_channel /\ SleepAgain
          /\ rec_channel_index' = (rec_channel_index + 1) % IndexMod
      BY <1>3 DEF Wake, Hears, sender, entry, history, Clear
    <2>1. to_wake = 0 /\ to_wake' = Cycle /\ InRhythm'
      BY <2>0 DEF Searched, InRhythm, SleepAgain
    <2>2. PICK k \in 0 .. Columns - 1 : Finds(k)
      BY <2>0, <2>1 DEF Searched
    <2>3. k # 0
      <3> SUFFICES ASSUME k = 0 PROVE Hears
        BY <2>0, <2>1
      <3>1. rec_channel_index + 1 + k = rec_channel_index + 1
        OBVIOUS
      <3> QED
        BY <2>0, <2>1, <2>2, <3>1 DEF Finds, Hears
    <2> DEFINE l == k - 1
    <2>4. l \in 0 .. Columns - 1 /\ k * Cycle = l * Cycle + Cycle /\ l * Cycle \in Int
      BY <2>3, SMT
    <2>5. to_wake' + l * Cycle + MaxDelay < left'
      BY <2>0, <2>1, <2>2, <2>4 DEF Finds
    <2>6. send_channel' = ChannelAt(rec_channel_index' + 1 + l)
      <3>2. /\ rec_channel_index' \in Nat
            /\ Multiple(rec_channel_index' - (rec_channel_index + 1), Columns)
        BY <2>0, <2>1, HopsOn
      <3>3. rec_channel_index' - (rec_channel_index + 1)
              = (rec_channel_index' + 1 + l) - (rec_channel_index + 1 + k)
        BY <3>2
      <3>4. ChannelAt(rec_channel_index' + 1 + l) = ChannelAt(rec_channel_index + 1 + k)
        BY <3>2, <3>3, SameChannel
      <3> QED
        BY <2>0, <2>1, <2>2, <3>4 DEF Finds
    <2>7. Finds(l)'
      BY <2>5, <2>6, Zenon DEF Finds
    <2> QED
      BY <2>1, <2>4, <2>7
  <1>4. CASE Send \/ Collide \/ Acked \/ Missed \/ AckLost \/ WakeDeaf \/ Reboot \/ Ask
    BY <1>4 DEF Send, Defer, SendToKnown, SendToUnknown, Collide, Acked, Missed, AckLost,
                WakeDeaf, Reboot, Ask, Return, Clear, sender, entry
  <1>5. CASE UNCHANGED vars
    BY <1>5 DEF vars, Searched, Finds, Clear, InRhythm
  <1> QED
    BY <1>1, <1>2, <1>3, <1>4, <1>5 DEF Next, Fault

\* What is heard is answered before the train is over.
LEMMA InTrainStep ==
  ASSUME MicmacTypeOK, Answering, Covered, Searched, InTrain, [Next]_vars
  PROVE  InTrain'
  <1> SUFFICES ASSUME (pc = "strobing" /\ answer # -1 /\ Clear)' PROVE answer' < left'
    BY DEF InTrain
  <1> USE MicmacAssumption, ColumnsNat DEF MicmacTypeOK
  <1>1. CASE Wake
    <2>1. pc = "strobing" /\ Clear /\ left' = left /\ to_wake = 0
      BY <1>1 DEF Wake, SleepAgain, sender, entry, history, Clear
    <2>2. CASE ~Hears
      BY <1>1, <2>1, <2>2 DEF Wake, InTrain
    <2>3. CASE Hears /\ is_known_receiver
      <3>1. PICK d \in 0 .. MaxDelay : Covers(d)
        BY <2>1, <2>3 DEF Covered, Hears
      <3>2. answer' \in 0 .. MaxDelay
        BY <1>1, <2>3 DEF Wake
      <3> QED
        BY <2>1, <3>1, <3>2 DEF Covers
    <2>4. CASE Hears /\ ~is_known_receiver
      <3>1. PICK k \in 0 .. Columns - 1 : Finds(k)
        BY <2>1, <2>4 DEF Searched, Hears
      <3>2. k * Cycle \in Nat
        BY SMT
      <3>3. answer' \in 0 .. MaxDelay
        BY <1>1, <2>4 DEF Wake
      <3> QED
        BY <2>1, <3>1, <3>2, <3>3 DEF Finds
    <2> QED
      BY <2>2, <2>3, <2>4
  <1>2. CASE Tick
    BY <1>2 DEF Tick, Less, history, Clear, InTrain
  <1>3. CASE Send \/ StartTrain \/ Ask
    BY <1>3 DEF Send, Defer, SendToKnown, SendToUnknown, StartTrain, Ask, Answering, MaySend
  <1>4. CASE Collide \/ Acked \/ Missed \/ AckLost \/ WakeDeaf \/ Reboot
    BY <1>4 DEF Collide, Acked, Missed, AckLost, WakeDeaf, Reboot, Return, Clear
  <1>5. CASE UNCHANGED vars
    BY <1>5 DEF vars, InTrain, Clear
  <1> QED
    BY <1>1, <1>2, <1>3, <1>4, <1>5 DEF Next, Fault

-----------------------------------------------------------------------------
(* The theorems *)

LEMMA MInvInit == Init => MInv
  <1> SUFFICES ASSUME Init PROVE MInv
    OBVIOUS
  <1>1. pc = "idle" /\ answer = -1 /\ known = FALSE
    BY DEF Init
  <1> QED
    BY <1>1, MicmacTypeInit DEF MInv, Answering, Phase, Aimed, Covered, Searched, InTrain

\* The number of channels divides that of the values of an index, as 1, 2, 4, 8 and
\* 16 do.  And where the cycle is a power of two, a wait of a whole cycle is put off,
\* as it is at up to 16 checks a second.
Fits == /\ IndexMod % Columns = 0
        /\ PowerOfTwo => Guard + 2 * ClockTick <= Cycle

LEMMA MInvStep == Fits /\ MInv /\ [Next]_vars => MInv'
  BY MicmacTypeStep, AnsweringStep, PhaseStep, AimedStep, CoveredStep, SearchedStep,
     InTrainStep DEF MInv, Fits

\* However often the clock and the indices wrap, in a table, a cycle and a clock of
\* any size, the entry tells when and on which channel a receiver wakes next that
\* was learnt in its rhythm, after the double cycle it starts with, and has not
\* rebooted since (mcphase.c:204-213, mccontikimac.c:336-350, 383-393, 547, 661-665).
THEOREM PhaseTruthfulHolds == Fits /\ Spec => []PhaseTruthful
  <1> SUFFICES ASSUME Fits PROVE Spec => []PhaseTruthful
    OBVIOUS
  <1>1. MInv => PhaseTruthful
    <2> SUFFICES ASSUME MInv, known, ~stale PROVE Truthful
      BY DEF PhaseTruthful
    <2> USE MicmacAssumption, ColumnsNat DEF MicmacTypeOK
    <2>1. MicmacTypeOK
      BY DEF MInv
    <2>2. PICK d \in 0 .. MaxDelay, m \in Int : PhaseAt(d, m)
      BY DEF MInv, Phase
    <2> DEFINE since == age + to_wake + d
               i == channelseed + m - 1
               p == rec_channel_index + 1
    <2>3. since = Cycle * m + 0 /\ 0 \in 0 .. Cycle - 1
      <3>1. Cycle * m \in Int
        BY SMT
      <3> QED
        BY <2>2, <3>1 DEF PhaseAt
    <2>4. since % Cycle = 0 /\ since \div Cycle = m
      BY <2>3, DivMod
    <2>5. i \in Int /\ p \in Int /\ i % IndexMod \in Int
      BY <2>1, IndexWraps DEF Fits
    <2>6. Multiple((p - i) - ((i % IndexMod) - i), Columns)
      <3>1. Multiple(p - i, Columns)
        <4>1. p - i = rec_channel_index + 1 - (channelseed + m - 1)
          BY <2>1
        <4> QED
          BY <2>2, <4>1, Zenon DEF PhaseAt
      <3>2. Multiple((i % IndexMod) - i, Columns)
        BY <2>5, IndexWraps DEF Fits
      <3>3. p - i \in Int /\ (i % IndexMod) - i \in Int
        BY <2>5
      <3> QED
        BY <3>1, <3>2, <3>3, MultipleSum
    <2>7. (p - i) - ((i % IndexMod) - i) = p - (i % IndexMod)
      <3> DEFINE x == i % IndexMod
      <3>1. x \in Int
        BY <2>5
      <3> HIDE DEF i, p, x
      <3>2. (p - i) - (x - i) = p - x
        BY <2>5, <3>1
      <3> QED
        BY <3>2 DEF x
    <2>8. ChannelAt(p) = ChannelAt(i % IndexMod)
      BY <2>5, <2>6, <2>7, SameChannel
    <2> QED
      BY <2>4, <2>8 DEF Truthful
  <1>2. MInv /\ [Next]_vars => MInv'
    BY MInvStep
  <1> QED
    BY <1>1, <1>2, MInvInit, PTL DEF Spec

\* No train misses a receiver that is in its rhythm, was when it was learnt, has not
\* rebooted since and of which nothing was lost, be it a short train sent by
\* prediction or one that searches (mcphase.c:204-243, mccontikimac.c:547, 661-665,
\* 874-893 and 980-1008).
THEOREM MissedForCauseHolds == Fits /\ Spec => MissedForCause
  <1> SUFFICES ASSUME Fits PROVE Spec => MissedForCause
    OBVIOUS
  <1> DEFINE Caused == TrainEnds => disturbed \/ (is_known_receiver /\ stale)
  <1>1. MInv => Caused
    <2> SUFFICES ASSUME MInv, TrainEnds, Clear PROVE FALSE
      BY DEF Clear
    <2> USE MicmacAssumption, ColumnsNat DEF MicmacTypeOK
    <2>1. MicmacTypeOK /\ pc = "strobing" /\ left = 0
      BY DEF MInv, TrainEnds
    <2>2. CASE answer # -1
      BY <2>1, <2>2 DEF MInv, InTrain
    <2>3. CASE answer = -1 /\ is_known_receiver
      <3>1. PICK d \in 0 .. MaxDelay : Covers(d)
        BY <2>1, <2>3 DEF MInv, Covered
      <3> QED
        BY <2>1, <3>1 DEF Covers
    <2>4. CASE answer = -1 /\ ~is_known_receiver
      <3>1. PICK k \in 0 .. Columns - 1 : Finds(k)
        BY <2>1, <2>4 DEF MInv, Searched
      <3>2. k * Cycle \in Nat
        BY SMT
      <3> QED
        BY <2>1, <3>1, <3>2 DEF Finds
    <2> QED
      BY <2>2, <2>3, <2>4
  <1>2. Caused => [TrainEnds /\ pc' = "idle"
                     => disturbed \/ (is_known_receiver /\ stale)]_vars
    OBVIOUS
  <1>3. MInv /\ [Next]_vars => MInv'
    BY MInvStep
  <1> QED
    BY <1>1, <1>2, <1>3, MInvInit, PTL DEF Spec, MissedForCause
==============================================================================
