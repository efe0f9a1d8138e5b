-------------------------- MODULE PsmNetwork_proofs --------------------------
(***************************************************************************)
(* Belief and fact in a network of any number of stations, with queues of  *)
(* any length: BothKnow and ReceiverIsAwake; types and bounds of the       *)
(* queues; and that the network implements BeaconCycle.                    *)
(***************************************************************************)
EXTENDS PsmNetwork, SequenceTheorems, FiniteSetTheorems, TLAPS

USE NetworkAssumption, CycleAssumption

-----------------------------------------------------------------------------
(* The inductive invariant *)

\* What is needed of the types.  The receivers in the queues do not matter: a
\* station is believed only after it acknowledged or was heard.
Types ==
    /\ window \in [Stations -> Windows]
    /\ reasons \in [Stations -> SUBSET Reasons]
    /\ toSleep \in [Stations -> BOOLEAN]
    /\ asleep \in [Stations -> BOOLEAN]
    /\ stale \in [Stations -> BOOLEAN]
    /\ awake \in [Stations -> SUBSET Addr]
    /\ inbox \in [Stations -> Seq(Stations)]
    /\ task \in [Stations -> {"idle", "announced", "noted"}]
    /\ DOMAIN work = Stations /\ DOMAIN onAir = Stations /\ DOMAIN status = Stations
    /\ \A n \in Stations : status[n].acked => status[n].da \in Stations

\* A station that is about to doze, or does, is in its transmission window
\* without a reason not to; what it knew of the last interval is left with the
\* pre-TBTT period.
Phases ==
    \A n \in Stations :
      /\ asleep[n] \/ toSleep[n] => window[n] = "TX" /\ reasons[n] = {}
      /\ window[n] = "SOFT_BCN" => reasons[n] # {}
      /\ stale[n] => window[n] = "PRE_TBTT"
      /\ window[n] = "PRE_TBTT" /\ ~stale[n] => awake[n] = {}
      /\ work[n].kind = "DATA" => window[n] = "TX" \/ stale[n]
      /\ onAir[n].kind = "DATA" => window[n] \in {"TX", "PRE_TBTT"}

Announcing(n) ==
    work[n].kind = "ATIM" \/ onAir[n].kind = "ATIM" \/ status[n] # NoStatus
      \/ task[n] # "idle"

UnderWay == \E n \in Stations : Announcing(n) \/ inbox[n] # <<>>

\* Announcements are made in the ATIM window, before any station closes its own,
\* and who sends one will note it.
Announced ==
    /\ UnderWay => AllIn({"PRE_TBTT", "ATIM"})
    /\ \A n \in Stations :
      /\ Announcing(n) => window[n] = "ATIM"
      /\ onAir[n].kind = "ATIM" => task[n] = "announced" \/ reasons[n] # {}
      /\ task[n] = "noted" => reasons[n] # {} /\ inbox[n] # <<>>
      /\ \A i \in DOMAIN inbox[n] :
           LET m == inbox[n][i] IN task[m] = "announced" \/ reasons[m] # {}

Promised(d) == reasons[d] # {} \/ inbox[d] # <<>> \/ task[d] = "announced"

\* n may count on d: in its ATIM window because d has a reason to stay awake or
\* is about to get one, later because it had one in this interval, and until n
\* forgets because it had one in the last.
Reliable(n, d) ==
    CASE window[n] = "ATIM" -> Promised(d)
      [] window[n] = "PRE_TBTT" -> window[d] \in {"TX", "SOFT_BCN"} => reasons[d] # {}
      [] OTHER -> window[d] = "PRE_TBTT" \/ reasons[d] # {}

Belief ==
    \A n, d \in Stations :
      /\ status[n].acked /\ status[n].da = d => Promised(d)
      /\ d \in awake[n] => Reliable(n, d)
      /\ work[n].kind = "DATA" /\ work[n].da = d => d \in awake[n]
      /\ onAir[n].kind = "DATA" /\ onAir[n].da = d => Reliable(n, d)

IInv == Types /\ Phases /\ Announced /\ Belief

-----------------------------------------------------------------------------
(* The clock *)

LEMMA PreTbttKeeps == \A n \in Stations : IInv /\ PreTbtt(n) => IInv'
  <1> SUFFICES ASSUME IInv, NEW n \in Stations, PreTbtt(n) PROVE IInv'
    OBVIOUS
  <1> USE DEF IInv, AllIn, InWindow
  <1>1. /\ window[n] \in {"TX", "SOFT_BCN"} /\ ~Announcing(n) /\ inbox[n] = <<>>
        /\ onAir[n] = Nothing
        /\ \A m \in Stations : window[m] # "ATIM"
    BY DEF PreTbtt, Quiet, Types, Windows, Phases, Announced
  <1>2. /\ window' = [window EXCEPT ![n] = "PRE_TBTT"]
        /\ reasons' = [reasons EXCEPT ![n] = {}]
        /\ asleep' = [asleep EXCEPT ![n] = FALSE]
        /\ stale' = [stale EXCEPT ![n] = TRUE]
        /\ UNCHANGED <<toSleep, awake, work, onAir, inbox, status, task>>
        /\ ~toSleep[n]
    BY DEF PreTbtt, Tbtt, queues, frames
  <1>3. ~UnderWay
    BY <1>1 DEF UnderWay, Announced
  <1>4. Types'
    BY <1>2 DEF Types, Windows
  <1>5. Phases'
    BY <1>1, <1>2 DEF Types, Phases
  <1>6. Announced'
    <2>1. \A m \in Stations : Announcing(m)' = Announcing(m)
      BY <1>2 DEF Announcing
    <2>2. ~UnderWay'
      BY <1>2, <1>3, <2>1 DEF UnderWay
    <2> QED
      BY <1>2, <1>3, <2>1, <2>2 DEF Announced, UnderWay, Announcing, Types
  <1>7. Belief'
    <2>1. \A m \in Stations : ~status[m].acked
      BY <1>3 DEF UnderWay, Announcing, NoStatus
    <2>2. \A m, d \in Stations : Reliable(m, d) => Reliable(m, d)'
      BY <1>1, <1>2 DEF Reliable, Promised, Types, Windows
    <2> QED
      BY <1>2, <2>1, <2>2 DEF Belief
  <1> QED
    BY <1>4, <1>5, <1>6, <1>7

LEMMA WindowStartKeeps == \A n \in Stations : IInv /\ WindowStart(n) => IInv'
  <1> SUFFICES ASSUME IInv, NEW n \in Stations, WindowStart(n) PROVE IInv'
    OBVIOUS
  <1> USE DEF IInv, AllIn, InWindow
  <1>1. /\ window[n] = "PRE_TBTT" /\ ~stale[n] /\ onAir[n] = Nothing
        /\ \A m \in Stations : window[m] \in {"PRE_TBTT", "ATIM"}
    BY DEF WindowStart, OpenAtim, Quiet
  <1>2. /\ window' = [window EXCEPT ![n] = "ATIM"]
        /\ \/ reasons' = reasons
           \/ reasons' = [reasons EXCEPT ![n] = reasons[n] \cup {"DATA"}]
        /\ UNCHANGED <<toSleep, asleep, stale, awake, work, onAir, inbox, status, task>>
    BY DEF WindowStart, OpenAtim, Types, queues, frames, belief
  <1>3. /\ reasons' \in [Stations -> SUBSET Reasons]
        /\ \A m \in Stations : reasons[m] # {} => reasons'[m] # {}
    <2>1. CASE reasons' = reasons
      BY <2>1 DEF Types
    <2>2. CASE reasons' = [reasons EXCEPT ![n] = reasons[n] \cup {"DATA"}]
      <3>1. reasons[n] \cup {"DATA"} \in SUBSET Reasons
        BY DEF Types, Reasons
      <3> QED
        BY <2>2, <3>1 DEF Types
    <2> QED
      BY <1>2, <2>1, <2>2
  <1>4. Types'
    BY <1>2, <1>3 DEF Types, Windows
  <1>5. Phases'
    BY <1>1, <1>2, <1>3 DEF Types, Phases, Nothing
  <1>6. Announced'
    <2>1. \A m \in Stations : Announcing(m)' = Announcing(m)
      BY <1>2 DEF Announcing
    <2>2. AllIn({"PRE_TBTT", "ATIM"})'
      BY <1>1, <1>2 DEF Types
    <2>3. \A m \in Stations : Announcing(m) => m # n
      BY <1>1 DEF Announced
    <2>4. \A m \in Stations : m # n => window'[m] = window[m]
      BY <1>2 DEF Types
    <2>5. \A m \in Stations : \A i \in DOMAIN inbox[m] : inbox[m][i] \in Stations
      BY DEF Types
    <2> QED
      BY <1>2, <1>3, <2>1, <2>2, <2>3, <2>4, <2>5 DEF Announced, UnderWay
  <1>7. Belief'
    <2>1. \A d \in Stations : Promised(d) => Promised(d)'
      BY <1>2, <1>3 DEF Promised
    <2>2. \A m, d \in Stations : m # n /\ Reliable(m, d) => Reliable(m, d)'
      BY <1>1, <1>2, <1>3, <2>1 DEF Reliable, Types
    <2>3. awake[n] = {} /\ onAir[n].kind # "DATA"
      BY <1>1 DEF Phases, Nothing
    <2> QED
      BY <1>2, <2>1, <2>2, <2>3 DEF Belief
  <1> QED
    BY <1>4, <1>5, <1>6, <1>7

LEMMA WindowEndKeeps == \A n \in Stations : IInv /\ WindowEnd(n) => IInv'
  <1> SUFFICES ASSUME IInv, NEW n \in Stations, WindowEnd(n) PROVE IInv'
    OBVIOUS
  <1> USE DEF IInv, AllIn, InWindow
  <1>0. \A m \in Stations : /\ work[m].kind # "ATIM" /\ inbox[m] = <<>>
                            /\ status[m] = NoStatus /\ onAir[m] = Nothing
                            /\ task[m] = "idle"
    BY DEF WindowEnd, AtimUnderWay, Quiet
  <1>1. /\ \A m \in Stations : window[m] # "PRE_TBTT"
        /\ window[n] = "ATIM" /\ ~UnderWay
    BY <1>0 DEF WindowEnd, CloseAtim, UnderWay, Announcing, Nothing
  <1>2. PICK next \in {"TX", "SOFT_BCN"} :
          /\ window' = [window EXCEPT ![n] = next]
          /\ next = "SOFT_BCN" => reasons[n] = {"BCN"}
          /\ toSleep' = [toSleep EXCEPT ![n] = (reasons[n] = {})]
          /\ UNCHANGED <<reasons, asleep, stale, awake, work, onAir, inbox, status, task>>
    BY DEF WindowEnd, CloseAtim, queues, frames, belief
  <1>3. \A m \in Stations : Announcing(m)' = Announcing(m)
    BY <1>2 DEF Announcing
  <1>4. Types'
    BY <1>2 DEF Types, Windows
  <1>5. Phases'
    <2>1. /\ reasons[n] = {} => window'[n] = "TX"
          /\ window'[n] \in {"TX", "SOFT_BCN"}
          /\ toSleep'[n] = (reasons[n] = {})
      BY <1>2 DEF Types
    <2>2. ~asleep[n] /\ ~stale[n] /\ onAir[n].kind # "DATA" /\ work[n].kind # "DATA"
      BY <1>0, <1>1 DEF Phases, Nothing
    <2>3. \A m \in Stations \ {n} : window'[m] = window[m] /\ toSleep'[m] = toSleep[m]
      BY <1>2 DEF Types
    <2>4. reasons[n] = {"BCN"} => reasons[n] # {}
      OBVIOUS
    <2> QED
      BY <1>2, <2>1, <2>2, <2>3, <2>4 DEF Phases, Types
  <1>6. Announced'
    BY <1>1, <1>2, <1>3 DEF Announced, UnderWay, Types
  <1>7. Belief'
    <2>1. /\ \A m \in Stations : ~status[m].acked
          /\ \A m \in Stations : onAir[m].kind # "DATA"
      BY <1>0 DEF NoStatus, Nothing
    <2>2. \A d \in Stations : Promised(d) => reasons[d] # {}
      BY <1>1 DEF Promised, UnderWay, Announcing
    <2>3. \A m, d \in Stations : Reliable(m, d) => Reliable(m, d)'
      BY <1>1, <1>2, <2>2 DEF Reliable, Promised, Types
    <2> QED
      BY <1>2, <2>1, <2>3 DEF Belief
  <1> QED
    BY <1>4, <1>5, <1>6, <1>7

\* A station's own beacon, or the ATIM it sent, is one more reason.
LEMMA StayAwakeKeeps ==
  ASSUME IInv, NEW n \in Stations, NEW reason \in {"BCN", "ATIM"},
         StayAwake(n, reason, reasons[n]), window[n] # "TX",
         UNCHANGED <<inbox, status>>,
         \/ UNCHANGED task
         \/ task' = [task EXCEPT ![n] = "idle"] /\ task[n] = "announced"
         \/ task' = [task EXCEPT ![n] = "noted"] /\ window[n] = "ATIM" /\ inbox[n] # <<>>
  PROVE  IInv'
  <1> USE DEF IInv, AllIn, InWindow
  <1>1. /\ reasons' = [reasons EXCEPT ![n] = reasons[n] \cup {reason}]
        /\ UNCHANGED <<window, toSleep, asleep, stale, awake, work, onAir>>
    BY DEF StayAwake, belief, frames
  <1>2. \A m \in Stations : reasons[m] # {} => reasons'[m] # {}
    BY <1>1 DEF Types
  <1>3. \A m \in Stations : task[m] = "announced" => task'[m] = "announced" \/ reasons'[m] # {}
    BY <1>1 DEF Types
  <1>4. Types'
    BY <1>1 DEF Types, Reasons
  <1>5. Phases'
    BY <1>1, <1>2 DEF Phases, Types
  <1>6. Announced'
    <2>1. \A m \in Stations \ {n} : Announcing(m)' = Announcing(m) /\ task'[m] = task[m]
      BY <1>1 DEF Announcing, Types
    <2>2. Announcing(n)' => Announcing(n) \/ window[n] = "ATIM"
      BY <1>1 DEF Announcing, Types
    <2>3. task'[n] = "noted" => inbox[n] # <<>>
      BY DEF Types, Announced
    <2>4. UnderWay' => UnderWay
      BY <1>1, <2>1, <2>2, <2>3 DEF UnderWay, Announcing, Types
    <2>5. reasons'[n] # {}
      BY <1>1 DEF Types
    <2>6. \A m \in Stations : Announcing(m)' => window[m] = "ATIM"
      BY <2>1, <2>2 DEF Announced
    <2>7. \A m \in Stations : task'[m] = "noted" => reasons'[m] # {} /\ inbox[m] # <<>>
      BY <1>2, <2>1, <2>3, <2>5 DEF Announced
    <2>8. \A m \in Stations : \A i \in DOMAIN inbox[m] : inbox[m][i] \in Stations
      BY DEF Types
    <2> QED
      BY <1>1, <1>2, <1>3, <2>4, <2>6, <2>7, <2>8 DEF Announced
  <1>7. Belief'
    <2>1. \A d \in Stations : Promised(d) => Promised(d)'
      BY <1>2, <1>3 DEF Promised
    <2>2. \A m, d \in Stations : Reliable(m, d) => Reliable(m, d)'
      BY <1>1, <1>2, <2>1 DEF Reliable
    <2> QED
      BY <1>1, <2>1, <2>2 DEF Belief
  <1> QED
    BY <1>4, <1>5, <1>6, <1>7

LEMMA BeaconSentKeeps == \A n \in Stations : IInv /\ BeaconSent(n) => IInv'
  BY StayAwakeKeeps DEF BeaconSent, InWindow, queues

LEMMA NoteOwnAtimKeeps == \A n \in Stations : IInv /\ NoteOwnAtim(n) => IInv'
  <1> SUFFICES ASSUME IInv, NEW n \in Stations, NoteOwnAtim(n) PROVE IInv'
    OBVIOUS
  <1>1. window[n] # "TX"
    BY DEF NoteOwnAtim, IInv, Announced, Announcing
  <1> QED
    BY <1>1, StayAwakeKeeps DEF NoteOwnAtim, queues

LEMMA ProcessAtimKeeps == \A n \in Stations : IInv /\ ProcessAtim(n) => IInv'
  <1> SUFFICES ASSUME IInv, NEW n \in Stations, ProcessAtim(n) PROVE IInv'
    OBVIOUS
  <1>1. window[n] = "ATIM" /\ inbox[n] # <<>>
    BY DEF ProcessAtim, IInv, Announced, UnderWay, AllIn, InWindow
  <1> QED
    BY <1>1, StayAwakeKeeps DEF ProcessAtim, InWindow

-----------------------------------------------------------------------------
(* The main loop *)

LEMMA NewIntervalKeeps == \A n \in Stations : IInv /\ NewInterval(n) => IInv'
  <1> SUFFICES ASSUME IInv, NEW n \in Stations, NewInterval(n) PROVE IInv'
    OBVIOUS
  <1> USE DEF IInv, AllIn, InWindow
  <1>1. /\ stale[n] /\ work[n].kind # "DATA"
        /\ awake' = [awake EXCEPT ![n] = {}]
        /\ stale' = [stale EXCEPT ![n] = FALSE]
        /\ UNCHANGED <<window, reasons, toSleep, asleep, work, onAir, inbox, status, task>>
    BY DEF NewInterval, Forget, power, frames, Nothing
  <1>2. Types' /\ Phases'
    BY <1>1 DEF Types, Phases
  <1>3. Announced'
    BY <1>1 DEF Announced, UnderWay, Announcing
  <1>4. Belief'
    <2>1. \A m, d \in Stations : Reliable(m, d)' = Reliable(m, d)
      BY <1>1 DEF Reliable, Promised
    <2> QED
      BY <1>1, <2>1 DEF Belief, Types, Promised
  <1> QED
    BY <1>2, <1>3, <1>4

LEMMA GoToSleepKeeps == \A n \in Stations : IInv /\ GoToSleep(n) => IInv'
  <1> SUFFICES ASSUME IInv, NEW n \in Stations, GoToSleep(n) PROVE IInv'
    OBVIOUS
  <1> USE DEF IInv, AllIn, InWindow
  <1>1. /\ toSleep[n]
        /\ asleep' = [asleep EXCEPT ![n] = TRUE]
        /\ toSleep' = [toSleep EXCEPT ![n] = FALSE]
        /\ UNCHANGED <<window, reasons, stale, awake, work, onAir, inbox, status, task>>
    BY DEF GoToSleep, Doze, belief, frames, queues
  <1>2. Types' /\ Phases'
    BY <1>1 DEF Types, Phases
  <1>3. Announced'
    BY <1>1 DEF Announced, UnderWay, Announcing
  <1>4. Belief'
    BY <1>1 DEF Belief, Reliable, Promised
  <1> QED
    BY <1>2, <1>3, <1>4

\* The frame the loop works on, when everything else stays: another kind in its
\* own window, an ATIM that is given up or gets its receiver, a data frame that
\* does or gets one that is believed awake.
LEMMA WorkKeeps ==
  ASSUME IInv, NEW n \in Stations, NEW w, work' = [work EXCEPT ![n] = w],
         UNCHANGED <<window, reasons, toSleep, asleep, stale, awake, onAir, inbox,
                     status, task>>,
         w.kind = "ATIM" => /\ window[n] = "ATIM"
                            /\ AllIn({"PRE_TBTT", "ATIM"}),
         w.kind = "DATA" => /\ window[n] = "TX" \/ stale[n]
                            /\ w.da \in awake[n] \cup {NoAddr}
  PROVE  IInv'
  <1> USE DEF IInv, AllIn, InWindow
  <1>1. \A m \in Stations : work'[m] = IF m = n THEN w ELSE work[m]
    BY DEF Types
  <1>2. Types' /\ Phases'
    BY <1>1 DEF Types, Phases
  <1>3. Announced'
    <2>1. \A m \in Stations : Announcing(m)' =>
             Announcing(m) \/ (m = n /\ w.kind = "ATIM")
      <3> SUFFICES ASSUME NEW m \in Stations, Announcing(m)'
                   PROVE  Announcing(m) \/ (m = n /\ w.kind = "ATIM")
        OBVIOUS
      <3>1. work'[m].kind = work[m].kind \/ (m = n /\ work'[m] = w)
        BY <1>1
      <3> QED
        BY <3>1 DEF Announcing
    <2> QED
      BY <2>1 DEF Announced, UnderWay
  <1>4. Belief'
    <2>1. NoAddr \notin Stations
      OBVIOUS
    <2> QED
      BY <1>1, <2>1 DEF Belief, Reliable, Promised
  <1> QED
    BY <1>2, <1>3, <1>4

LEMMA TurnToKeeps ==
  \A n \in Stations, kind \in {"ATIM", "DATA"} : IInv /\ TurnTo(n, kind) => IInv'
  <1> SUFFICES ASSUME IInv, NEW n \in Stations, NEW kind \in {"ATIM", "DATA"},
                      TurnTo(n, kind)
               PROVE  IInv'
    OBVIOUS
  <1> DEFINE w == [kind |-> kind, da |-> NoAddr]
  <1>1. /\ work' = [work EXCEPT ![n] = w]
        /\ UNCHANGED <<window, reasons, toSleep, asleep, stale, awake, onAir, inbox,
                       status, task>>
    BY DEF TurnTo, Turn, power, belief, queues
  <1>2. /\ w.kind = "ATIM" => window[n] = "ATIM" /\ AllIn({"PRE_TBTT", "ATIM"})
        /\ w.kind = "DATA" => window[n] = "TX"
        /\ w.da = NoAddr
    BY DEF TurnTo, Turn, WindowOf, Kinds
  <1> HIDE DEF w
  <1> QED
    BY <1>1, <1>2, WorkKeeps

LEMMA PickAtimKeeps == \A n \in Stations : IInv /\ PickAtim(n) => IInv'
  <1> SUFFICES ASSUME IInv, NEW n \in Stations, PickAtim(n) PROVE IInv'
    OBVIOUS
  <1>1. PICK w : w.kind \in {"ATIM", "NONE"} /\ work' = [work EXCEPT ![n] = w]
    BY DEF PickAtim, Pick, DropWork, Nothing
  <1>2. UNCHANGED <<window, reasons, toSleep, asleep, stale, awake, onAir, inbox,
                    status, task>>
    BY DEF PickAtim, Pick, DropWork, power, belief
  <1>3. window[n] = "ATIM" /\ AllIn({"PRE_TBTT", "ATIM"})
    BY DEF PickAtim, IInv, Announced, UnderWay, Announcing
  <1> QED
    BY <1>1, <1>2, <1>3, WorkKeeps

LEMMA PickDataKeeps == \A n \in Stations : IInv /\ PickData(n) => IInv'
  <1> SUFFICES ASSUME IInv, NEW n \in Stations, PickData(n) PROVE IInv'
    OBVIOUS
  <1>1. PICK w : /\ \/ w.kind = "NONE"
                    \/ w.kind = "DATA" /\ window[n] = "TX" /\ w.da \in awake[n]
                 /\ work' = [work EXCEPT ![n] = w]
    <2>1. CASE \E d : Pick(n, d)
      <3>1. PICK d : Pick(n, d)
        BY <2>1
      <3>2. work[n].kind = "DATA"
        BY DEF PickData
      <3>3. [kind |-> work[n].kind, da |-> d].kind = "DATA"
        BY <3>2
      <3> QED
        BY <3>1, <3>2, <3>3 DEF Pick
    <2>2. CASE DropWork(n)
      BY <2>2 DEF DropWork, Nothing
    <2> QED
      BY <2>1, <2>2 DEF PickData
  <1>2. UNCHANGED <<window, reasons, toSleep, asleep, stale, awake, onAir, inbox,
                    status, task>>
    BY DEF PickData, Pick, DropWork, power, belief
  <1> QED
    BY <1>1, <1>2, WorkKeeps

LEMMA SendKeeps == \A n \in Stations : IInv /\ Send(n) => IInv'
  <1> SUFFICES ASSUME IInv, NEW n \in Stations, Send(n) PROVE IInv'
    OBVIOUS
  <1> USE DEF IInv, AllIn, InWindow
  <1>1. /\ work[n].kind \in {"ATIM", "DATA"}
        /\ onAir' = [onAir EXCEPT ![n] = work[n]]
        /\ work' = [work EXCEPT ![n] = Nothing]
        /\ UNCHANGED <<window, reasons, toSleep, asleep, stale, awake, inbox, status>>
    BY DEF Send, HandDown, power, belief
  <1>2. \/ task' = task /\ work[n].kind = "DATA"
        \/ task' = [task EXCEPT ![n] = "announced"] /\ work[n].kind = "ATIM"
    BY DEF Send, HandDown
  <1>3. \A m \in Stations : m # n => work'[m] = work[m] /\ onAir'[m] = onAir[m] /\ task'[m] = task[m]
    BY <1>1, <1>2 DEF Types
  <1>4. /\ work'[n].kind = "NONE" /\ onAir'[n] = work[n]
        /\ work[n].kind = "ATIM" => task'[n] = "announced"
        /\ work[n].kind = "DATA" => task'[n] = task[n]
    BY <1>1, <1>2 DEF Types, Nothing
  <1>5. Types'
    BY <1>1, <1>2 DEF Types
  <1>6. Phases'
    BY <1>1, <1>3, <1>4 DEF Phases
  <1>7. Announced'
    <2>1. \A m \in Stations : Announcing(m)' => Announcing(m)
      BY <1>1, <1>2, <1>3, <1>4 DEF Announcing
    <2>2. \A m \in Stations : \A i \in DOMAIN inbox[m] : inbox[m][i] \in Stations
      BY DEF Types
    <2>3. \A m \in Stations : task[m] = "announced" => task'[m] = "announced"
      BY <1>1, <1>3, <1>4
    <2>4. \A m \in Stations : task'[m] = "noted" => task[m] = "noted"
      BY <1>1, <1>3, <1>4
    <2>5. \A m \in Stations : onAir'[m].kind = "ATIM" => onAir[m].kind = "ATIM" \/ task'[m] = "announced"
      BY <1>1, <1>3, <1>4
    <2> QED
      BY <1>1, <2>1, <2>2, <2>3, <2>4, <2>5 DEF Announced, UnderWay
  <1>8. Belief'
    <2>1. \A d \in Stations : Promised(d) => Promised(d)'
      BY <1>1, <1>3, <1>4 DEF Promised
    <2>2. \A m, d \in Stations : Reliable(m, d) => Reliable(m, d)'
      BY <1>1, <2>1 DEF Reliable
    <2> QED
      BY <1>1, <1>3, <1>4, <2>1, <2>2 DEF Belief
  <1> QED
    BY <1>5, <1>6, <1>7, <1>8

LEMMA HearSenderKeeps == \A n \in Stations : IInv /\ HearSender(n) => IInv'
  <1> SUFFICES ASSUME IInv, NEW n \in Stations, HearSender(n) PROVE IInv'
    OBVIOUS
  <1> USE DEF IInv, AllIn, InWindow
  <1>0. PICK s : s = Head(inbox[n])
    OBVIOUS
  <1>1. /\ task[n] = "noted" /\ task' = [task EXCEPT ![n] = "idle"]
        /\ awake' = [awake EXCEPT ![n] = awake[n] \cup {s}]
        /\ inbox' = [inbox EXCEPT ![n] = Tail(inbox[n])]
        /\ UNCHANGED <<window, reasons, toSleep, asleep, stale, work, onAir, status>>
    BY <1>0 DEF HearSender, Hear, power, frames
  <1>2. /\ inbox[n] # <<>> /\ reasons[n] # {} /\ window[n] = "ATIM"
    BY <1>1 DEF Announced, Announcing
  <1>3. /\ s \in Stations /\ s = inbox[n][1] /\ 1 \in DOMAIN inbox[n]
        /\ Tail(inbox[n]) \in Seq(Stations)
        /\ \A i \in DOMAIN Tail(inbox[n]) :
             \E j \in DOMAIN inbox[n] : Tail(inbox[n])[i] = inbox[n][j]
    BY <1>0, <1>2 DEF Types
  <1>4. Types'
    BY <1>1, <1>3 DEF Types
  <1>5. Phases'
    BY <1>1, <1>2 DEF Phases, Types
  <1>6. \A m \in Stations :
          /\ task'[m] = "noted" => task[m] = "noted" /\ m # n
          /\ m # n => inbox'[m] = inbox[m]
          /\ task[m] = "announced" => task'[m] = "announced"
    BY <1>1 DEF Types
  <1>7. Announced'
    <2>1. \A m \in Stations : Announcing(m)' => Announcing(m)
      BY <1>1 DEF Announcing, Types
    <2>2. UnderWay' => UnderWay
      BY <1>1, <1>2, <1>6, <2>1 DEF UnderWay
    <2>3. \A m \in Stations : onAir[m].kind = "ATIM" => task'[m] = "announced" \/ reasons[m] # {}
      BY <1>6 DEF Announced
    <2>4. \A m \in Stations : \A i \in DOMAIN inbox'[m] :
            \E j \in DOMAIN inbox[m] : inbox'[m][i] = inbox[m][j]
      BY <1>1, <1>3, <1>6 DEF Types
    <2>5. \A m \in Stations : \A i \in DOMAIN inbox[m] : inbox[m][i] \in Stations
      BY DEF Types
    <2>6. \A m \in Stations : \A i \in DOMAIN inbox'[m] :
            task'[inbox'[m][i]] = "announced" \/ reasons[inbox'[m][i]] # {}
      BY <1>6, <2>4, <2>5 DEF Announced
    <2>7. \A m \in Stations : Announcing(m)' => window[m] = "ATIM"
      BY <2>1 DEF Announced
    <2>8. \A m \in Stations : task'[m] = "noted" => reasons[m] # {} /\ inbox'[m] # <<>>
      BY <1>6 DEF Announced
    <2>9. UnderWay' => AllIn({"PRE_TBTT", "ATIM"})
      BY <2>2 DEF Announced
    <2> QED
      BY <1>1, <2>3, <2>6, <2>7, <2>8, <2>9 DEF Announced
  <1>8. Belief'
    <2>1. \A d \in Stations : Promised(d) => Promised(d)'
      BY <1>1, <1>2, <1>6 DEF Promised
    <2>2. \A m, d \in Stations : Reliable(m, d) => Reliable(m, d)'
      BY <1>1, <2>1 DEF Reliable
    <2>3. Promised(s)'
      <3>1. task[inbox[n][1]] = "announced" \/ reasons[inbox[n][1]] # {}
        BY <1>3 DEF Announced
      <3> QED
        BY <1>3, <2>1, <3>1 DEF Promised
    <2>4. Reliable(n, s)'
      BY <1>1, <1>2, <2>3 DEF Reliable
    <2>5. \A m, d \in Stations : d \in awake'[m] => d \in awake[m] \/ (m = n /\ d = s)
      BY <1>1 DEF Types
    <2>6. \A m \in Stations : awake[m] \subseteq awake'[m]
      BY <1>1 DEF Types
    <2>7. \A m, d \in Stations : d \in awake'[m] => Reliable(m, d)'
      BY <2>2, <2>4, <2>5 DEF Belief
    <2>8. \A m, d \in Stations :
            work[m].kind = "DATA" /\ work[m].da = d => d \in awake'[m]
      BY <2>6 DEF Belief
    <2>9. \A m, d \in Stations : status[m].acked /\ status[m].da = d => Promised(d)'
      BY <2>1 DEF Belief
    <2>10. \A m, d \in Stations :
             onAir[m].kind = "DATA" /\ onAir[m].da = d => Reliable(m, d)'
      BY <2>2 DEF Belief
    <2> QED
      BY <1>1, <2>7, <2>8, <2>9, <2>10 DEF Belief
  <1> QED
    BY <1>4, <1>5, <1>7, <1>8

LEMMA EnqueueKeeps ==
  \A n \in Stations : IInv /\ (\E d \in Receivers : Enqueue(n, d)) => IInv'
  <1> SUFFICES ASSUME IInv, NEW n \in Stations, NEW d \in Receivers, Enqueue(n, d)
               PROVE  IInv'
    OBVIOUS
  <1>1. UNCHANGED <<cycle, inbox, status, task>>
    BY DEF Enqueue
  <1> QED
    BY <1>1 DEF IInv, Types, Phases, Announced, UnderWay, Announcing, Belief,
                Reliable, Promised, AllIn, InWindow, cycle, power, belief, frames

-----------------------------------------------------------------------------
(* The channel *)

LEMMA DataOnAirKeeps == \A n \in Stations : IInv /\ DataOnAir(n) => IInv'
  <1> SUFFICES ASSUME IInv, NEW n \in Stations, DataOnAir(n) PROVE IInv'
    OBVIOUS
  <1> USE DEF IInv, AllIn, InWindow
  <1>1. /\ onAir' = [onAir EXCEPT ![n] = Nothing]
        /\ UNCHANGED <<window, reasons, toSleep, asleep, stale, awake, work, inbox,
                       status, task>>
    BY DEF DataOnAir, Done, power, belief, queues
  <1>2. \A m \in Stations : onAir'[m] = onAir[m] \/ onAir'[m].kind = "NONE"
    BY <1>1 DEF Types, Nothing
  <1>3. Types' /\ Phases'
    BY <1>1, <1>2 DEF Types, Phases
  <1>4. Announced'
    <2>1. \A m \in Stations : Announcing(m)' => Announcing(m)
      BY <1>1, <1>2 DEF Announcing
    <2> QED
      BY <1>1, <1>2, <2>1 DEF Announced, UnderWay
  <1>5. Belief'
    BY <1>1, <1>2 DEF Belief, Reliable, Promised
  <1> QED
    BY <1>3, <1>4, <1>5

LEMMA AtimOnAirKeeps ==
  \A n \in Stations, reached \in SUBSET Stations, acked \in BOOLEAN :
    IInv /\ AtimOnAir(n, reached, acked) => IInv'
  <1> SUFFICES ASSUME IInv, NEW n \in Stations, NEW reached \in SUBSET Stations,
                      NEW acked \in BOOLEAN, AtimOnAir(n, reached, acked)
               PROVE  IInv'
    OBVIOUS
  <1> USE DEF IInv, AllIn, InWindow
  <1> DEFINE s == [da |-> onAir[n].da, acked |-> acked]
  <1>1. /\ onAir[n].kind = "ATIM"
        /\ acked => onAir[n].da \in reached
        /\ onAir' = [onAir EXCEPT ![n] = Nothing]
        /\ status' = [status EXCEPT ![n] = s]
        /\ UNCHANGED <<window, reasons, toSleep, asleep, stale, awake, work, task>>
    BY DEF AtimOnAir, Done, power, belief
  <1>2. \A m \in Stations : window[m] \in {"PRE_TBTT", "ATIM"}
    BY <1>1 DEF Announced, UnderWay, Announcing
  <1>3. /\ DOMAIN inbox' = Stations
        /\ \A m \in Stations :
             inbox'[m] = IF m \in reached /\ Len(inbox[m]) < MaxInbox
                         THEN Append(inbox[m], n) ELSE inbox[m]
        /\ inbox' = [m \in Stations |-> inbox'[m]]
    BY <1>2 DEF AtimOnAir, Room
  <1>4. \A m \in Stations :
          /\ inbox'[m] \in Seq(Stations)
          /\ m \in reached \/ inbox[m] # <<>> => inbox'[m] # <<>>
          /\ \A i \in DOMAIN inbox'[m] :
               inbox'[m][i] = n \/ (i \in DOMAIN inbox[m] /\ inbox'[m][i] = inbox[m][i])
    <2>1. \A q \in Seq(Stations) :
            /\ Append(q, n) \in Seq(Stations) /\ Append(q, n) # <<>>
            /\ \A i \in DOMAIN Append(q, n) :
                 Append(q, n)[i] = n \/ (i \in DOMAIN q /\ Append(q, n)[i] = q[i])
      OBVIOUS
    <2>2. \A q \in Seq(Stations) : q # <<>> \/ Len(q) < MaxInbox
      OBVIOUS
    <2>3. \A m \in Stations : inbox[m] \in Seq(Stations)
      BY DEF Types
    <2> SUFFICES ASSUME NEW m \in Stations
                 PROVE  /\ inbox'[m] \in Seq(Stations)
                        /\ m \in reached \/ inbox[m] # <<>> => inbox'[m] # <<>>
                        /\ \A i \in DOMAIN inbox'[m] :
                             inbox'[m][i] = n \/ (i \in DOMAIN inbox[m] /\ inbox'[m][i] = inbox[m][i])
      OBVIOUS
    <2>4. CASE m \in reached /\ Len(inbox[m]) < MaxInbox
      <3>1. inbox'[m] = Append(inbox[m], n)
        BY <1>3, <2>4
      <3> QED
        BY <2>1, <2>3, <3>1
    <2>5. CASE ~(m \in reached /\ Len(inbox[m]) < MaxInbox)
      <3>1. inbox'[m] = inbox[m]
        BY <1>3, <2>5
      <3> QED
        BY <2>2, <2>3, <2>5, <3>1
    <2> QED
      BY <2>4, <2>5
  <1>5. \A m \in Stations :
          /\ (onAir'[m] = onAir[m] /\ m # n) \/ (onAir'[m].kind = "NONE" /\ m = n)
          /\ status'[m] = IF m = n THEN s ELSE status[m]
    BY <1>1 DEF Types, Nothing
  <1>6. Types' /\ Phases'
    BY <1>1, <1>3, <1>4, <1>5 DEF Types, Phases
  <1>7. Announced'
    <2>1. task[n] = "announced" \/ reasons[n] # {}
      BY <1>1 DEF Announced
    <2>2. \A m \in Stations : Announcing(m)' => Announcing(m)
      BY <1>1, <1>5 DEF Announcing
    <2>3. \A m \in Stations : onAir'[m].kind = "ATIM" => onAir[m].kind = "ATIM"
      BY <1>5
    <2> QED
      BY <1>1, <1>2, <1>4, <2>1, <2>2, <2>3 DEF Announced
  <1>8. Belief'
    <2>1. \A d \in Stations : Promised(d) => Promised(d)'
      BY <1>1, <1>4 DEF Promised
    <2>2. \A m, d \in Stations : Reliable(m, d) => Reliable(m, d)'
      BY <1>1, <2>1 DEF Reliable
    <2>3. s.acked = acked /\ s.da = onAir[n].da
      OBVIOUS
    <2>4. \A d \in Stations : s.acked /\ s.da = d => Promised(d)'
      BY <1>1, <1>4, <2>3 DEF Promised
    <2> HIDE DEF s
    <2> QED
      BY <1>1, <1>5, <2>1, <2>2, <2>4 DEF Belief
  <1> QED
    BY <1>6, <1>7, <1>8

\* The status of an ATIM is taken, or lost.
LEMMA HandleStatusKeeps ==
  \A n \in Stations : IInv /\ (HandleStatus(n) \/ LoseStatus(n)) => IInv'
  <1> SUFFICES ASSUME IInv, NEW n \in Stations, HandleStatus(n) \/ LoseStatus(n)
               PROVE  IInv'
    OBVIOUS
  <1> USE DEF IInv, AllIn, InWindow
  <1>1. /\ status[n] # NoStatus
        /\ status' = [status EXCEPT ![n] = NoStatus]
        /\ UNCHANGED <<window, reasons, toSleep, asleep, stale, work, onAir, inbox, task>>
    BY DEF HandleStatus, LoseStatus, Hear, queues, cycle, power, belief, frames
  <1>2. window[n] = "ATIM"
    BY <1>1 DEF Announced, Announcing
  <1> DEFINE b == IF UNCHANGED awake THEN {} ELSE {status[n].da}
  <1>3. /\ awake' = [awake EXCEPT ![n] = awake[n] \cup b]
        /\ b \subseteq Addr
        /\ \A d \in b : d \in Stations => Promised(d)
    <2>1. CASE UNCHANGED awake
      BY <2>1 DEF Types
    <2>2. CASE ~UNCHANGED awake
      <3>1. /\ awake' = [awake EXCEPT ![n] = awake[n] \cup {status[n].da}]
            /\ status[n].acked \/ status[n].da = Bcast
        BY <2>2 DEF HandleStatus, LoseStatus, Hear, Credited, cycle, belief
      <3>2. status[n].da \in Addr
        BY <3>1 DEF Types
      <3>3. status[n].da \in Stations => Promised(status[n].da)
        BY <3>1 DEF Belief
      <3> QED
        BY <2>2, <3>1, <3>2, <3>3
    <2> QED
      BY <2>1, <2>2
  <1> HIDE DEF b
  <1>4. \A m \in Stations :
          /\ awake[m] \subseteq awake'[m]
          /\ \A d \in awake'[m] : d \in awake[m] \/ (m = n /\ d \in b)
          /\ status'[m] = status[m] \/ status'[m] = NoStatus
    BY <1>1, <1>3 DEF Types
  <1>5. Types'
    <2>1. awake' \in [Stations -> SUBSET Addr]
      BY <1>3 DEF Types
    <2>2. ~NoStatus.acked
      BY DEF NoStatus
    <2> QED
      BY <1>1, <1>4, <2>1, <2>2 DEF Types
  <1>6. Phases'
    BY <1>1, <1>2, <1>4 DEF Phases
  <1>7. Announced'
    <2>1. \A m \in Stations : Announcing(m)' => Announcing(m)
      BY <1>1, <1>4 DEF Announcing
    <2> QED
      BY <1>1, <2>1 DEF Announced, UnderWay
  <1>8. Belief'
    <2>1. \A m, d \in Stations : Reliable(m, d)' = Reliable(m, d)
      BY <1>1 DEF Reliable, Promised
    <2>2. \A d \in b : d \in Stations => Reliable(n, d)
      BY <1>2, <1>3 DEF Reliable
    <2>3. ~NoStatus.acked
      BY DEF NoStatus
    <2> QED
      BY <1>1, <1>4, <2>1, <2>2, <2>3 DEF Belief, Promised
  <1> QED
    BY <1>5, <1>6, <1>7, <1>8

-----------------------------------------------------------------------------
(* The theorems *)

LEMMA IInvInit == NetworkInit => IInv
  BY DEF NetworkInit, Init, IInv, Types, Phases, Announced, UnderWay, Announcing,
         Belief, Windows, Nothing, NoStatus

LEMMA IInvStep == IInv /\ [NetworkNext]_vars => IInv'
  <1> SUFFICES ASSUME IInv, [NetworkNext]_vars PROVE IInv'
    OBVIOUS
  <1>1. CASE UNCHANGED vars
    BY <1>1 DEF IInv, Types, Phases, Announced, UnderWay, Announcing, Belief, Reliable,
                Promised, AllIn, InWindow, vars, queues, cycle, power, belief, frames
  <1>2. ASSUME NEW n \in Stations, Clock(n) \/ BeaconSent(n) PROVE IInv'
    BY <1>2, PreTbttKeeps, WindowStartKeeps, WindowEndKeeps, BeaconSentKeeps DEF Clock
  <1>3. ASSUME NEW n \in Stations, MainLoop(n) PROVE IInv'
    BY <1>3, NewIntervalKeeps, GoToSleepKeeps, PickAtimKeeps, PickDataKeeps, SendKeeps,
       NoteOwnAtimKeeps, ProcessAtimKeeps, HearSenderKeeps, TurnToKeeps DEF MainLoop
  <1>4. ASSUME NEW n \in Stations, Transmission(n) PROVE IInv'
    BY <1>4, DataOnAirKeeps, AtimOnAirKeeps DEF Transmission
  <1>5. ASSUME NEW n \in Stations, HandleStatus(n) \/ LoseStatus(n) PROVE IInv'
    BY <1>5, HandleStatusKeeps
  <1>6. ASSUME NEW n \in Stations, \E d \in Receivers : Enqueue(n, d) PROVE IInv'
    BY <1>6, EnqueueKeeps
  <1> QED
    BY <1>1, <1>2, <1>3, <1>4, <1>5, <1>6 DEF NetworkNext

\* The inductive invariant holds in every behaviour of the network.
THEOREM NetworkInvariant == NetworkSpec => []IInv
  BY IInvInit, IInvStep, PTL DEF NetworkSpec

\* Belief and fact agree (ieee80211_rx.c:513-526, ar9170_psm.c:347-360): in the
\* transmission window, whom a station believes awake has a reason of its own to
\* stay awake, whichever acknowledgements, statuses and ATIMs were lost.
THEOREM BothKnowHolds == NetworkSpec => []BothKnow
  <1>1. IInv => BothKnow
    BY DEF IInv, Belief, Reliable, BothKnow
  <1> QED
    BY <1>1, NetworkInvariant, PTL

\* No data frame is on the air for a station that dozes
\* (ieee80211_rx.c:501-526, 553-637, ar9170_psm.c:201-242).
THEOREM ReceiverIsAwakeHolds == NetworkSpec => []ReceiverIsAwake
  <1>1. IInv => ReceiverIsAwake
    <2> SUFFICES ASSUME IInv, NEW n \in Stations, onAir[n].kind = "DATA",
                        onAir[n].da \in Stations
                 PROVE  ~asleep[onAir[n].da]
      BY DEF ReceiverIsAwake
    <2>1. Reliable(n, onAir[n].da) /\ window[n] \in {"TX", "PRE_TBTT"}
      BY DEF IInv, Belief, Phases
    <2> QED
      BY <2>1 DEF IInv, Reliable, Phases
  <1> QED
    BY <1>1, NetworkInvariant, PTL

-----------------------------------------------------------------------------
(* Numbers and walks *)

\* A set of numbers that is not empty has a least one.
LEMMA LeastNumber ==
  ASSUME NEW T, T \subseteq Nat, T # {}
  PROVE  \E x \in T : \A y \in T : x <= y
  <1> DEFINE I == {1 .. n : n \in T}
             F == FiniteSubsetsOf(Nat)
  <1>1. I \subseteq F
    <2> SUFFICES ASSUME NEW n \in T PROVE 1 .. n \in F
      OBVIOUS
    <2>1. IsFiniteSet(1 .. n)
      BY FS_Interval
    <2> QED
      BY <2>1 DEF FiniteSubsetsOf
  <1>2. IsWellFoundedOn(StrictSubsetOrdering(Nat), F)
    BY FS_StrictSubsetOrderingWellFounded
  <1>3. \E s \in I : \A t \in I : ~(<<t, s>> \in StrictSubsetOrdering(Nat))
    <2> HIDE DEF F
    <2>1. I # {}
      <3>1. PICK n \in T : TRUE
        OBVIOUS
      <3>2. 1 .. n \in I
        OBVIOUS
      <3> QED
        BY <3>2
    <2> HIDE DEF I
    <2> QED
      BY <1>1, <1>2, <2>1, WFMin
  <1>4. \A s \in I : s \subseteq Nat
    BY <1>1 DEF FiniteSubsetsOf
  <1>5. PICK s \in I : \A t \in I : ~(t \subseteq s /\ t # s)
    BY <1>3, <1>4 DEF StrictSubsetOrdering
  <1>6. PICK x \in T : s = 1 .. x
    OBVIOUS
  <1>7. ASSUME NEW y \in T, y < x PROVE FALSE
    <2>1. 1 .. y \subseteq 1 .. x
      BY <1>7
    <2>2. x \in 1 .. x /\ x \notin 1 .. y
      BY <1>7
    <2>3. 1 .. y \in I
      OBVIOUS
    <2> QED
      BY <1>5, <1>6, <2>1, <2>2, <2>3
  <1> QED
    BY <1>7

\* What holds at the start and is kept by each step holds to the end.
LEMMA AlongWalk ==
  ASSUME NEW N \in Nat, NEW S, 0 \in S, \A n \in 0 .. N - 1 : n \in S => n + 1 \in S
  PROVE  0 .. N \subseteq S
  <1> DEFINE T == {n \in 0 .. N : n \notin S}
  <1> SUFFICES ASSUME T # {} PROVE FALSE
    OBVIOUS
  <1>1. PICK x \in T : \A y \in T : x <= y
    <2>1. T \subseteq Nat
      OBVIOUS
    <2> HIDE DEF T
    <2> QED
      BY <2>1, LeastNumber
  <1>2. x # 0 /\ x \in 0 .. N /\ x - 1 \in 0 .. N - 1 /\ (x - 1) + 1 = x
    OBVIOUS
  <1>3. x - 1 \in S
    BY <1>1, <1>2
  <1> QED
    BY <1>2, <1>3

\* h[i] is what step i makes of the result before it.
Follows(h, N, x0, F) == h[0] = x0 /\ \A i \in 1 .. N : h[i] = F[i][h[i - 1]]

\* A walk of N steps, each a function of the one before, exists.
LEMMA WalkExists ==
  ASSUME NEW N \in Nat, NEW S, NEW x0 \in S, NEW F \in [1 .. N -> [S -> S]]
  PROVE  \E h \in [0 .. N -> S] : Follows(h, N, x0, F)
  <1> DEFINE Steps(h, n) == /\ h \in [0 .. n -> S] /\ h[0] = x0
                           /\ \A i \in 1 .. n : h[i] = F[i][h[i - 1]]
             W == {n \in Nat : \E h : Steps(h, n)}
  <1>1. 0 \in W
    <2>1. Steps([i \in 0 .. 0 |-> x0], 0)
      OBVIOUS
    <2> QED
      BY <2>1
  <1>2. ASSUME NEW n \in 0 .. N - 1, n \in W PROVE n + 1 \in W
    <2>1. PICK g : Steps(g, n)
      BY <1>2
    <2> DEFINE next == F[n + 1][g[n]]
               h == [i \in 0 .. n + 1 |-> IF i <= n THEN g[i] ELSE next]
    <2>2. next \in S
      <3>1. n + 1 \in 1 .. N /\ g[n] \in S
        BY <2>1
      <3> QED
        BY <3>1
    <2> HIDE DEF next
    <2>3. /\ h \in [0 .. n + 1 -> S]
          /\ \A i \in 0 .. n : h[i] = g[i]
          /\ h[n + 1] = next
      BY <2>1, <2>2
    <2> HIDE DEF h
    <2>4. ASSUME NEW i \in 1 .. n + 1 PROVE h[i] = F[i][h[i - 1]]
      <3>1. CASE i = n + 1
        <4>1. i - 1 = n /\ n \in 0 .. n
          BY <3>1
        <4>2. h[i - 1] = g[n]
          BY <2>3, <4>1
        <4> QED
          BY <2>3, <3>1, <4>2 DEF next
      <3>2. CASE i # n + 1
        <4>1. i \in 1 .. n /\ i \in 0 .. n /\ i - 1 \in 0 .. n
          BY <3>2
        <4> QED
          BY <2>1, <2>3, <4>1
      <3> QED
        BY <3>1, <3>2
    <2>5. Steps(h, n + 1)
      BY <2>1, <2>3, <2>4
    <2> HIDE DEF Steps
    <2>6. n + 1 \in Nat
      OBVIOUS
    <2> QED
      BY <2>5, <2>6
  <1> HIDE DEF W
  <1>3. 0 .. N \subseteq W
    BY <1>1, <1>2, AlongWalk
  <1> QED
    BY <1>3 DEF W, Follows

-----------------------------------------------------------------------------
(* The types of the cycle, for whatever its stations do *)

LEMMA CycleTypeInit == Init => CycleTypeOK
  BY DEF Init, CycleTypeOK, Windows, Nothing, Frames

LEMMA NothingIsFrame == Nothing \in Frames
  BY DEF Nothing, Frames

LEMMA CycleTypeStep == CycleTypeOK /\ [Next]_cycle => CycleTypeOK'
  <1> SUFFICES ASSUME CycleTypeOK, [Next]_cycle PROVE CycleTypeOK'
    OBVIOUS
  <1> USE DEF CycleTypeOK, power, belief, frames
  <1>1. CASE UNCHANGED cycle
    BY <1>1 DEF cycle
  <1>2. ASSUME NEW n \in Stations,
               Tbtt(n) \/ SkipForget(n) \/ Doze(n) \/ DropDoze(n)
        PROVE  CycleTypeOK'
    <2>0. {toSleep, asleep, stale} \subseteq [Stations -> BOOLEAN]
      OBVIOUS
    <2>1. CASE Tbtt(n)
      <3>1. asleep' \in [Stations -> BOOLEAN] /\ stale' \in [Stations -> BOOLEAN]
        BY <2>0, <2>1 DEF Tbtt
      <3>2. window' \in [Stations -> Windows] /\ reasons' \in [Stations -> SUBSET Reasons]
        BY <2>1 DEF Tbtt, Windows
      <3> QED
        BY <2>0, <2>1, <3>1, <3>2 DEF Tbtt
    <2>2. CASE SkipForget(n)
      BY <2>2 DEF SkipForget
    <2>3. CASE Doze(n) \/ DropDoze(n)
      <3>1. asleep' \in [Stations -> BOOLEAN] /\ toSleep' \in [Stations -> BOOLEAN]
        BY <2>0, <2>3 DEF Doze, DropDoze
      <3> QED
        BY <2>0, <2>3, <3>1 DEF Doze, DropDoze
    <2> QED
      BY <1>2, <2>1, <2>2, <2>3
  <1>3. ASSUME NEW n \in Stations, DropWork(n) \/ HandDown(n) \/ Done(n)
        PROVE  CycleTypeOK'
    <2>1. work[n] \in Frames
      OBVIOUS
    <2> QED
      BY <1>3, <2>1, NothingIsFrame DEF DropWork, HandDown, Done
  <1>4. ASSUME NEW n \in Stations, NEW reason \in Reasons, NEW others \in SUBSET Reasons,
               StayAwake(n, reason, others)
        PROVE  CycleTypeOK'
    BY <1>4 DEF StayAwake
  <1>5. ASSUME NEW n \in Stations, NEW b \in BOOLEAN, Forget(n, b) \/ OpenAtim(n, b)
        PROVE  CycleTypeOK'
    <2>1. CASE Forget(n, b)
      BY <2>1 DEF Forget
    <2>2. CASE OpenAtim(n, b)
      BY <2>2 DEF OpenAtim, Windows, Reasons
    <2> QED
      BY <1>5, <2>1, <2>2
  <1>6. ASSUME NEW n \in Stations, NEW next \in Windows, NEW doze \in BOOLEAN,
               CloseAtim(n, next, doze)
        PROVE  CycleTypeOK'
    BY <1>6 DEF CloseAtim
  <1>7. ASSUME NEW n \in Stations, NEW a \in Addr, NEW kept \in SUBSET awake[n],
               Hear(n, a, kept)
        PROVE  CycleTypeOK'
    BY <1>7 DEF Hear
  <1>8. ASSUME NEW n \in Stations, NEW kind \in Kinds, Turn(n, kind)
        PROVE  CycleTypeOK'
    <2>1. [kind |-> kind, da |-> NoAddr] \in Frames
      BY DEF Frames
    <2> QED
      BY <1>8, <2>1 DEF Turn
  <1>9. ASSUME NEW n \in Stations, NEW d \in Addr, Pick(n, d) \/ PickAny(n, d)
        PROVE  CycleTypeOK'
    <2>1. CASE Pick(n, d)
      <3>1. [kind |-> work[n].kind, da |-> d] \in Frames
        BY DEF Frames
      <3> QED
        BY <2>1, <3>1 DEF Pick
    <2>2. CASE PickAny(n, d)
      <3>1. [kind |-> "DATA", da |-> d] \in Frames
        BY DEF Frames, Kinds
      <3> QED
        BY <2>2, <3>1 DEF PickAny
    <2> QED
      BY <1>9, <2>1, <2>2
  <1> QED
    BY <1>1, <1>2, <1>3, <1>4, <1>5, <1>6, <1>7, <1>8, <1>9 DEF Next, StationStep

-----------------------------------------------------------------------------
(* Queues *)

QueueTypes ==
    /\ packets \in [Stations -> Seq(Receivers)]
    /\ announce \in [Stations -> Seq(Receivers)]
    /\ inbox \in [Stations -> Seq(Stations)]
    /\ \A n \in Stations :
         /\ Len(packets[n]) <= MaxPending /\ Len(announce[n]) <= MaxPending
         /\ Len(inbox[n]) <= MaxInbox
    /\ status \in [Stations -> [da : Addr \cup {NoAddr}, acked : BOOLEAN]]
    /\ task \in [Stations -> {"idle", "announced", "noted"}]

\* The frame that was picked is at the head of the queue it will be taken from.
AtHead(n) ==
    /\ work[n].kind = "ATIM" /\ work[n].da # NoAddr
         => announce[n] # <<>> /\ Head(announce[n]) = work[n].da
    /\ work[n].kind = "DATA" /\ work[n].da # NoAddr
         => packets[n] # <<>> /\ Head(packets[n]) = work[n].da

QInv == CycleTypeOK /\ QueueTypes /\ \A n \in Stations : AtHead(n)

\* The first element that is in a set is one.
LEMMA FirstInIs ==
  ASSUME NEW R, NEW s \in Seq(R), NEW S, {s[i] : i \in DOMAIN s} \cap S # {}
  PROVE  FirstIn(s, S) \in 1 .. Len(s) /\ s[FirstIn(s, S)] \in S \cap R
  <1> DEFINE T == {i \in DOMAIN s : s[i] \in S}
  <1>1. DOMAIN s = 1 .. Len(s) /\ Len(s) \in Nat /\ \A i \in 1 .. Len(s) : s[i] \in R
    BY LenProperties, ElementOfSeq
  <1>2. T \subseteq Nat /\ T # {}
    BY <1>1
  <1>3. PICK x \in T : \A y \in T : x <= y
    <2> HIDE DEF T
    <2> QED
      BY <1>2, LeastNumber
  <1>4. x \in 1 .. Len(s) /\ \A j \in 1 .. x - 1 : s[j] \notin S
    BY <1>1, <1>3
  <1>5. \E i \in DOMAIN s : s[i] \in S /\ \A j \in 1 .. i - 1 : s[j] \notin S
    BY <1>3, <1>4
  <1>6. FirstIn(s, S) \in DOMAIN s /\ s[FirstIn(s, S)] \in S
    BY <1>5 DEF FirstIn
  <1> QED
    BY <1>1, <1>6

LEMMA TailIs ==
  ASSUME NEW R, NEW s \in Seq(R), s # <<>>
  PROVE  /\ Tail(s) \in Seq(R) /\ Len(Tail(s)) = Len(s) - 1
         /\ Head(s) \in R /\ Len(s) \in Nat
  BY HeadTailProperties, LenProperties, EmptySeq

LEMMA AppendIs ==
  ASSUME NEW R, NEW s \in Seq(R), NEW x \in R
  PROVE  /\ Append(s, x) \in Seq(R) /\ Len(Append(s, x)) = Len(s) + 1
         /\ Len(s) \in Nat
  BY AppendProperties, LenProperties

\* From an element on, and with one element before the others.
LEMMA SuffixIs ==
  ASSUME NEW R, NEW s \in Seq(R), NEW i \in 1 .. Len(s)
  PROVE  LET t == SubSeq(s, i, Len(s))
         IN  t \in Seq(R) /\ t # <<>> /\ Head(t) = s[i] /\ Len(t) <= Len(s)
  <1> DEFINE t == SubSeq(s, i, Len(s))
  <1>1. Len(s) \in Nat
    BY LenProperties
  <1>2. t \in Seq(R) /\ Len(t) = Len(s) - i + 1 /\ t[1] = s[i]
    BY <1>1, SubSeqProperties
  <1>3. Len(t) > 0 /\ Len(t) <= Len(s) /\ Len(t) \in Nat
    BY <1>1, <1>2
  <1> HIDE DEF t
  <1>4. t # <<>>
    <2> SUFFICES ASSUME t = <<>> PROVE FALSE
      OBVIOUS
    <2>1. Len(t) = 0
      OBVIOUS
    <2> QED
      BY <1>3, <2>1
  <1>5. Head(t) = s[i]
    BY <1>2, <1>4, HeadTailProperties
  <1> QED
    BY <1>2, <1>3, <1>4, <1>5 DEF t

LEMMA ToFrontIs ==
  ASSUME NEW R, NEW s \in Seq(R), NEW i \in 1 .. Len(s)
  PROVE  LET t == <<s[i]>> \o Without(s, i)
         IN  t \in Seq(R) /\ t # <<>> /\ Head(t) = s[i] /\ Len(t) = Len(s)
  <1> DEFINE a == SubSeq(s, 1, i - 1)
             b == SubSeq(s, i + 1, Len(s))
             t == <<s[i]>> \o (a \o b)
  <1>1. Len(s) \in Nat /\ s[i] \in R
    BY LenProperties, ElementOfSeq
  <1>2. a \in Seq(R) /\ Len(a) = i - 1
    BY <1>1, SubSeqProperties
  <1>3. b \in Seq(R) /\ Len(b) = Len(s) - i
    BY <1>1, SubSeqProperties
  <1> HIDE DEF a, b
  <1>4. a \o b \in Seq(R) /\ Len(a \o b) = Len(s) - 1
    <2>1. a \o b \in Seq(R) /\ Len(a \o b) = Len(a) + Len(b)
      BY <1>2, <1>3, ConcatProperties
    <2>2. (i - 1) + (Len(s) - i) = Len(s) - 1
      BY <1>1
    <2> QED
      BY <1>2, <1>3, <2>1, <2>2
  <1>5. <<s[i]>> \in Seq(R) /\ Len(<<s[i]>>) = 1 /\ <<s[i]>>[1] = s[i]
    BY <1>1
  <1> DEFINE c == a \o b
             d == <<s[i]>>
  <1> HIDE DEF c, d
  <1>6. d \o c \in Seq(R) /\ Len(d \o c) = Len(s) /\ (d \o c)[1] = s[i]
    BY <1>1, <1>4, <1>5, ConcatProperties DEF c, d
  <1>7. d \o c # <<>> /\ Head(d \o c) = s[i]
    BY <1>1, <1>6, HeadTailProperties, EmptySeq
  <1> QED
    BY <1>6, <1>7 DEF Without, a, b, c, d

\* What upTo in Announcements follows, and the queue it adds an element to.
Adding(pkts, atims, h) ==
    h = [i \in 0 .. Len(pkts) |->
           IF i = 0 THEN atims
           ELSE IF pkts[i] \in Elements(h[i - 1]) \/ Len(h[i - 1]) >= MaxPending
           THEN h[i - 1] ELSE Append(h[i - 1], pkts[i])]

\* New announcements fit their queue.
LEMMA AnnouncementsIs ==
  ASSUME NEW atims \in Seq(Receivers), NEW pkts \in Seq(Receivers),
         Len(atims) <= MaxPending
  PROVE  /\ Announcements(atims, pkts) \in Seq(Receivers)
         /\ Len(Announcements(atims, pkts)) <= MaxPending
  <1> DEFINE N == Len(pkts)
             S == {q \in Seq(Receivers) : Len(q) <= MaxPending}
             Add(q, d) == IF d \in Elements(q) \/ Len(q) >= MaxPending
                          THEN q ELSE Append(q, d)
             F == [i \in 1 .. N |-> [q \in S |-> Add(q, pkts[i])]]
  <1>1. N \in Nat /\ \A i \in 1 .. N : pkts[i] \in Receivers
    BY LenProperties, ElementOfSeq
  <1>2. ASSUME NEW q \in S, NEW d \in Receivers PROVE Add(q, d) \in S
    <2>1. Append(q, d) \in Seq(Receivers) /\ Len(Append(q, d)) = Len(q) + 1 /\ Len(q) \in Nat
      BY AppendIs
    <2>2. MaxPending \in Nat
      OBVIOUS
    <2> QED
      BY <2>1, <2>2
  <1> HIDE DEF N
  <1>3. F \in [1 .. N -> [S -> S]]
    <2> SUFFICES ASSUME NEW i \in 1 .. N, NEW q \in S PROVE Add(q, pkts[i]) \in S
      BY DEF F
    <2> QED
      BY <1>1, <1>2
  <1>4. \A i \in 1 .. N, q \in S : F[i][q] = Add(q, pkts[i])
    OBVIOUS
  <1>5. PICK h \in [0 .. N -> S] : Follows(h, N, atims, F)
    <2>1. atims \in S /\ N \in Nat
      BY <1>1
    <2> HIDE DEF F, S
    <2> QED
      BY <1>3, <2>1, WalkExists
  <1> HIDE DEF F
  <1>6. Adding(pkts, atims, h)
    <2>1. ASSUME NEW i \in 0 .. N
          PROVE  h[i] = IF i = 0 THEN atims ELSE Add(h[i - 1], pkts[i])
      <3>1. CASE i = 0
        BY <1>5, <3>1 DEF Follows
      <3>2. CASE i # 0
        <4>1. i \in 1 .. N /\ i - 1 \in 0 .. N
          BY <1>1, <3>2
        <4>2. h[i - 1] \in S
          BY <1>5, <4>1
        <4> HIDE DEF S, Add
        <4> QED
          BY <1>4, <1>5, <3>2, <4>1, <4>2 DEF Follows
      <3> QED
        BY <3>1, <3>2
    <2>2. h = [i \in 0 .. N |-> h[i]]
      BY <1>5
    <2>3. h = [i \in 0 .. N |-> IF i = 0 THEN atims ELSE Add(h[i - 1], pkts[i])]
      <3> HIDE DEF Add
      <3> QED
        BY <2>1, <2>2
    <2> QED
      BY <2>3 DEF Adding, N
  <1> DEFINE c == CHOOSE g : Adding(pkts, atims, g)
             G == {i \in 0 .. N : c[i] \in S}
  <1>7. Adding(pkts, atims, c)
    BY <1>6
  <1>8. Announcements(atims, pkts) = c[N]
    BY DEF Announcements, Adding, N
  <1> HIDE DEF c
  <1>9. \A i \in 0 .. N : c[i] = IF i = 0 THEN atims ELSE Add(c[i - 1], pkts[i])
    BY <1>7 DEF Adding, N
  <1>10. 0 \in G
    BY <1>1, <1>9
  <1>11. ASSUME NEW n \in 0 .. N - 1, n \in G PROVE n + 1 \in G
    <2>1. n + 1 \in 0 .. N /\ n + 1 \in 1 .. N /\ n + 1 # 0 /\ (n + 1) - 1 = n
      BY <1>1
    <2>2. c[n] \in S
      BY <1>11
    <2>3. c[n + 1] = Add(c[n], pkts[n + 1])
      <3> HIDE DEF Add
      <3> QED
        BY <1>9, <2>1
    <2>4. Add(c[n], pkts[n + 1]) \in S
      BY <1>1, <1>2, <2>1, <2>2
    <2> HIDE DEF Add, S
    <2> QED
      BY <2>1, <2>3, <2>4
  <1>12. N \in G
    <2> HIDE DEF G
    <2>1. 0 .. N \subseteq G
      BY <1>1, <1>10, <1>11, AlongWalk
    <2> QED
      BY <1>1, <2>1
  <1> QED
    BY <1>8, <1>12

-----------------------------------------------------------------------------
(* Every step of the network is a step of BeaconCycle, or leaves it alone *)

\* Picking takes the receiver from a queue.
LEMMA PickImplements ==
  \A n \in Stations : QInv /\ (PickAtim(n) \/ PickData(n)) => StationStep(n)
  <1> SUFFICES ASSUME NEW n \in Stations, QInv, PickAtim(n) \/ PickData(n)
               PROVE  StationStep(n)
    OBVIOUS
  <1>1. ASSUME DropWork(n) PROVE StationStep(n)
    BY <1>1 DEF StationStep
  <1>2. ASSUME NEW d \in Addr, Pick(n, d) PROVE StationStep(n)
    BY <1>2 DEF StationStep
  <1>3. announce[n] \in Seq(Receivers) /\ packets[n] \in Seq(Receivers)
    BY DEF QInv, QueueTypes
  <1>4. CASE PickAtim(n)
    <2> DEFINE untold == Elements(announce[n]) \ awake[n]
               d == announce[n][FirstIn(announce[n], untold)]
    <2>1. CASE untold = {}
      BY <1>1, <1>4, <2>1 DEF PickAtim
    <2>2. CASE untold # {}
      <3>1. d \in Receivers
        BY <1>3, <2>2, FirstInIs DEF Elements
      <3>2. Pick(n, d)
        BY <1>4, <2>2 DEF PickAtim
      <3> QED
        BY <1>2, <3>1, <3>2
    <2> QED
      BY <2>1, <2>2
  <1>5. CASE PickData(n)
    <2> DEFINE told == Elements(packets[n]) \cap awake[n]
               d == packets[n][FirstIn(packets[n], told)]
    <2>1. CASE ~(InWindow(n, {"TX"}) /\ told # {})
      BY <1>1, <1>5, <2>1 DEF PickData
    <2>2. CASE InWindow(n, {"TX"}) /\ told # {}
      <3>1. d \in Receivers
        BY <1>3, <2>2, FirstInIs DEF Elements
      <3>2. Pick(n, d)
        BY <1>5, <2>2 DEF PickData
      <3> QED
        BY <1>2, <3>1, <3>2
    <2> QED
      BY <2>1, <2>2
  <1> QED
    BY <1>4, <1>5

LEMMA StayAwakeImplements ==
  ASSUME NEW n \in Stations, NEW reason \in Reasons, QInv,
         StayAwake(n, reason, reasons[n])
  PROVE  StationStep(n)
  <1>1. reasons[n] \in SUBSET Reasons
    BY DEF QInv, CycleTypeOK
  <1> QED
    BY <1>1 DEF StationStep

LEMMA HearImplements ==
  ASSUME NEW n \in Stations, NEW a \in Addr, Hear(n, a, awake[n])
  PROVE  StationStep(n)
  BY DEF StationStep

LEMMA ClockImplements == \A n \in Stations : Clock(n) => StationStep(n)
  <1> SUFFICES ASSUME NEW n \in Stations, Clock(n) PROVE StationStep(n)
    OBVIOUS
  <1>1. CASE PreTbtt(n)
    BY <1>1 DEF PreTbtt, StationStep
  <1>2. CASE WindowStart(n)
    <2>1. PICK b \in BOOLEAN : OpenAtim(n, b)
      BY <1>2 DEF WindowStart
    <2> QED
      BY <2>1 DEF StationStep
  <1>3. CASE WindowEnd(n)
    <2>1. PICK next \in Windows, doze \in BOOLEAN : CloseAtim(n, next, doze)
      BY <1>3 DEF WindowEnd, Windows
    <2> QED
      BY <2>1 DEF StationStep
  <1> QED
    BY <1>1, <1>2, <1>3 DEF Clock

LEMMA MainLoopImplements ==
  \A n \in Stations :
    IInv /\ QInv /\ MainLoop(n) => StationStep(n) \/ UNCHANGED cycle
  <1> SUFFICES ASSUME NEW n \in Stations, IInv, QInv, MainLoop(n)
               PROVE  StationStep(n) \/ UNCHANGED cycle
    OBVIOUS
  <1>1. CASE NewInterval(n) \/ GoToSleep(n) \/ Send(n)
    BY <1>1 DEF NewInterval, GoToSleep, Send, StationStep
  <1>2. CASE PickAtim(n) \/ PickData(n)
    BY <1>2, PickImplements
  <1>3. CASE NoteOwnAtim(n) \/ ProcessAtim(n)
    <2>1. StayAwake(n, "ATIM", reasons[n]) \/ UNCHANGED cycle
      BY <1>3 DEF NoteOwnAtim, ProcessAtim
    <2> QED
      BY <2>1, StayAwakeImplements DEF Reasons
  <1>4. CASE HearSender(n)
    <2>1. inbox[n] # <<>> /\ inbox[n] \in Seq(Stations)
      BY <1>4 DEF HearSender, IInv, Announced, QInv, QueueTypes
    <2>2. Head(inbox[n]) \in Addr
      BY <2>1, TailIs
    <2> QED
      BY <1>4, <2>2, HearImplements DEF HearSender
  <1>5. ASSUME NEW kind \in {"ATIM", "DATA"}, TurnTo(n, kind) PROVE StationStep(n)
    BY <1>5 DEF TurnTo, StationStep, Kinds
  <1> QED
    BY <1>1, <1>2, <1>3, <1>4, <1>5 DEF MainLoop

LEMMA ReceptionImplements ==
  \A n \in Stations :
    IInv /\ QInv /\ (Transmission(n) \/ HandleStatus(n) \/ LoseStatus(n))
      => StationStep(n) \/ UNCHANGED cycle
  <1> SUFFICES ASSUME NEW n \in Stations, IInv, QInv,
                      Transmission(n) \/ HandleStatus(n) \/ LoseStatus(n)
               PROVE  StationStep(n) \/ UNCHANGED cycle
    OBVIOUS
  <1>1. CASE Transmission(n)
    BY <1>1 DEF Transmission, DataOnAir, AtimOnAir, StationStep
  <1>2. CASE HandleStatus(n)
    <2>1. CASE Credited(n)
      <3>1. status[n].da \in Addr
        BY <2>1 DEF Credited, IInv, Types
      <3>2. Hear(n, status[n].da, awake[n])
        BY <1>2, <2>1 DEF HandleStatus
      <3> QED
        BY <3>1, <3>2, HearImplements
    <2>2. CASE ~Credited(n)
      BY <1>2, <2>2 DEF HandleStatus
    <2> QED
      BY <2>1, <2>2
  <1>3. CASE LoseStatus(n)
    BY <1>3 DEF LoseStatus
  <1> QED
    BY <1>1, <1>2, <1>3

LEMMA NetworkImplements == IInv /\ QInv /\ [NetworkNext]_vars => [Next]_cycle
  <1> SUFFICES ASSUME IInv, QInv, [NetworkNext]_vars PROVE [Next]_cycle
    OBVIOUS
  <1>1. CASE UNCHANGED vars
    BY <1>1 DEF vars
  <1>2. ASSUME NEW n \in Stations,
               Clock(n) \/ MainLoop(n) \/ Transmission(n) \/ HandleStatus(n)
                 \/ LoseStatus(n) \/ BeaconSent(n) \/ \E d \in Receivers : Enqueue(n, d)
        PROVE  StationStep(n) \/ UNCHANGED cycle
    <2>1. CASE BeaconSent(n)
      <3>1. StayAwake(n, "BCN", reasons[n])
        BY <2>1 DEF BeaconSent
      <3> QED
        BY <3>1, StayAwakeImplements DEF Reasons
    <2>2. CASE \E d \in Receivers : Enqueue(n, d)
      BY <2>2 DEF Enqueue
    <2> QED
      BY <1>2, <2>1, <2>2, ClockImplements, MainLoopImplements, ReceptionImplements
  <1> QED
    BY <1>1, <1>2 DEF NetworkNext, Next

-----------------------------------------------------------------------------
(* The queues keep their types and their bounds *)

QueuesAre(p, a, i) ==
    /\ p \in [Stations -> Seq(Receivers)]
    /\ a \in [Stations -> Seq(Receivers)]
    /\ i \in [Stations -> Seq(Stations)]
    /\ \A n \in Stations :
         Len(p[n]) <= MaxPending /\ Len(a[n]) <= MaxPending /\ Len(i[n]) <= MaxInbox

LEMMA QueuesOf ==
  QueueTypes <=> /\ QueuesAre(packets, announce, inbox)
                 /\ status \in [Stations -> [da : Addr \cup {NoAddr}, acked : BOOLEAN]]
                 /\ task \in [Stations -> {"idle", "announced", "noted"}]
  BY DEF QueueTypes, QueuesAre

\* One queue of one station is replaced by another within the bound.
LEMMA QueueReplaced ==
  ASSUME NEW p, NEW a, NEW i, QueuesAre(p, a, i), NEW n \in Stations
  PROVE  /\ \A q \in Seq(Receivers) : Len(q) <= MaxPending =>
              /\ QueuesAre([p EXCEPT ![n] = q], a, i)
              /\ QueuesAre(p, [a EXCEPT ![n] = q], i)
         /\ \A q \in Seq(Stations) : Len(q) <= MaxInbox =>
              QueuesAre(p, a, [i EXCEPT ![n] = q])
  BY DEF QueuesAre

\* The queue without its head is no longer.
LEMMA Shorter ==
  ASSUME NEW R, NEW s \in Seq(R), s # <<>>, NEW max \in Nat, Len(s) <= max
  PROVE  Tail(s) \in Seq(R) /\ Len(Tail(s)) <= max
  <1>1. Tail(s) \in Seq(R) /\ Len(Tail(s)) = Len(s) - 1 /\ Len(s) \in Nat
    BY TailIs
  <1> QED
    BY <1>1

LEMMA NewIntervalQueues ==
  \A n \in Stations : QueueTypes /\ NewInterval(n) => QueueTypes'
  <1> SUFFICES ASSUME NEW n \in Stations, QueueTypes, NewInterval(n) PROVE QueueTypes'
    OBVIOUS
  <1> DEFINE q == Announcements(announce[n], packets[n])
  <1>1. announce[n] \in Seq(Receivers) /\ packets[n] \in Seq(Receivers)
          /\ Len(announce[n]) <= MaxPending
    BY DEF QueueTypes
  <1>2. q \in Seq(Receivers) /\ Len(q) <= MaxPending
    BY <1>1, AnnouncementsIs
  <1>3. announce' = [announce EXCEPT ![n] = q] /\ UNCHANGED <<packets, inbox, status, task>>
    BY DEF NewInterval
  <1> HIDE DEF q
  <1> QED
    BY <1>2, <1>3, QueueReplaced, QueuesOf DEF QueueTypes, QueuesAre

LEMMA PickQueues ==
  \A n \in Stations : QInv /\ (PickAtim(n) \/ PickData(n)) => QueueTypes' /\ AtHead(n)'
  <1> SUFFICES ASSUME NEW n \in Stations, QInv, PickAtim(n) \/ PickData(n)
               PROVE  QueueTypes' /\ AtHead(n)'
    OBVIOUS
  <1>1. /\ announce[n] \in Seq(Receivers) /\ packets[n] \in Seq(Receivers)
        /\ Len(announce[n]) <= MaxPending /\ Len(packets[n]) <= MaxPending
        /\ QueuesAre(packets, announce, inbox) /\ QueueTypes
    BY QueuesOf DEF QInv, QueueTypes
  <1>2. work \in [Stations -> Frames]
    BY DEF QInv, CycleTypeOK
  <1>3. ASSUME DropWork(n) PROVE AtHead(n)'
    BY <1>2, <1>3 DEF DropWork, AtHead, Nothing
  <1>4. CASE PickAtim(n)
    <2> DEFINE untold == Elements(announce[n]) \ awake[n]
               first == FirstIn(announce[n], untold)
    <2>1. CASE untold = {}
      <3>1. DropWork(n) /\ announce' = [announce EXCEPT ![n] = <<>>]
              /\ UNCHANGED <<packets, inbox, status, task>>
        BY <1>4, <2>1 DEF PickAtim
      <3>2. <<>> \in Seq(Receivers) /\ Len(<<>>) <= MaxPending
        OBVIOUS
      <3>3. QueuesAre(packets', announce', inbox')
        BY <1>1, <3>1, <3>2, QueueReplaced
      <3> QED
        BY <1>1, <1>3, <3>1, <3>3 DEF QueueTypes, QueuesAre
    <2>2. CASE untold # {}
      <3> DEFINE q == SubSeq(announce[n], first, Len(announce[n]))
                 d == announce[n][first]
      <3>1. first \in 1 .. Len(announce[n])
        BY <1>1, <2>2, FirstInIs DEF Elements
      <3>2. q \in Seq(Receivers) /\ q # <<>> /\ Head(q) = d /\ Len(q) <= MaxPending
        <4>1. q \in Seq(Receivers) /\ q # <<>> /\ Head(q) = d /\ Len(q) <= Len(announce[n])
          <5> HIDE DEF first
          <5> QED
            BY <1>1, <3>1, SuffixIs
        <4> HIDE DEF q
        <4>2. Len(q) \in Nat /\ Len(announce[n]) \in Nat
          BY <1>1, <4>1, LenProperties
        <4> QED
          BY <1>1, <4>1, <4>2
      <3>3. Pick(n, d) /\ announce' = [announce EXCEPT ![n] = q]
              /\ UNCHANGED <<packets, inbox, status, task>>
        BY <1>4, <2>2 DEF PickAtim
      <3>4. work[n].kind = "ATIM"
        BY <1>4 DEF PickAtim
      <3> HIDE DEF q, d
      <3>5. QueuesAre(packets', announce', inbox')
        BY <1>1, <3>2, <3>3, QueueReplaced
      <3>6. announce'[n] = q /\ work'[n] = [kind |-> "ATIM", da |-> d]
        BY <1>1, <1>2, <3>3, <3>4 DEF Pick, QueuesAre
      <3>7. AtHead(n)'
        BY <3>2, <3>6 DEF AtHead
      <3> QED
        BY <1>1, <3>3, <3>5, <3>7 DEF QueueTypes, QueuesAre
    <2> QED
      BY <2>1, <2>2
  <1>5. CASE PickData(n)
    <2> DEFINE told == Elements(packets[n]) \cap awake[n]
               first == FirstIn(packets[n], told)
    <2>1. CASE ~(InWindow(n, {"TX"}) /\ told # {})
      <3>1. DropWork(n) /\ UNCHANGED <<packets, announce, inbox, status, task>>
        BY <1>5, <2>1 DEF PickData
      <3> QED
        BY <1>1, <1>3, <3>1 DEF QueueTypes
    <2>2. CASE InWindow(n, {"TX"}) /\ told # {}
      <3> DEFINE q == <<packets[n][first]>> \o Without(packets[n], first)
                 d == packets[n][first]
      <3>1. first \in 1 .. Len(packets[n])
        BY <1>1, <2>2, FirstInIs DEF Elements
      <3>2. q \in Seq(Receivers) /\ q # <<>> /\ Head(q) = d /\ Len(q) = Len(packets[n])
        <4> HIDE DEF first
        <4> QED
          BY <1>1, <3>1, ToFrontIs
      <3>3. Pick(n, d) /\ packets' = [packets EXCEPT ![n] = q]
              /\ UNCHANGED <<announce, inbox, status, task>>
        BY <1>5, <2>2 DEF PickData
      <3>4. work[n].kind = "DATA"
        BY <1>5 DEF PickData
      <3> HIDE DEF q, d
      <3>5. QueuesAre(packets', announce', inbox')
        BY <1>1, <3>2, <3>3, QueueReplaced
      <3>6. packets'[n] = q /\ work'[n] = [kind |-> "DATA", da |-> d]
        BY <1>1, <1>2, <3>3, <3>4 DEF Pick, QueuesAre
      <3>7. AtHead(n)'
        BY <3>2, <3>6 DEF AtHead
      <3> QED
        BY <1>1, <3>3, <3>5, <3>7 DEF QueueTypes, QueuesAre
    <2> QED
      BY <2>1, <2>2
  <1> QED
    BY <1>4, <1>5

\* What leaves a queue is the frame that was picked: the queue is not empty.
LEMMA SendQueues ==
  \A n \in Stations : QInv /\ Send(n) => QueueTypes' /\ AtHead(n)'
  <1> SUFFICES ASSUME NEW n \in Stations, QInv, Send(n)
               PROVE  QueueTypes' /\ AtHead(n)'
    OBVIOUS
  <1>1. /\ announce[n] \in Seq(Receivers) /\ packets[n] \in Seq(Receivers)
        /\ Len(announce[n]) <= MaxPending /\ Len(packets[n]) <= MaxPending
        /\ QueuesAre(packets, announce, inbox) /\ QueueTypes /\ MaxPending \in Nat
    BY QueuesOf DEF QInv, QueueTypes
  <1>2. work[n].da # NoAddr /\ AtHead(n)
    BY DEF Send, HandDown, QInv
  <1>3. AtHead(n)'
    BY DEF QInv, CycleTypeOK, Send, HandDown, AtHead, Nothing
  <1>4. CASE work[n].kind = "ATIM"
    <2>1. announce' = [announce EXCEPT ![n] = Tail(announce[n])]
            /\ task' = [task EXCEPT ![n] = "announced"]
            /\ UNCHANGED <<packets, inbox, status>>
      BY <1>4 DEF Send
    <2>2. Tail(announce[n]) \in Seq(Receivers) /\ Len(Tail(announce[n])) <= MaxPending
      BY <1>1, <1>2, <1>4, Shorter DEF AtHead
    <2>3. QueuesAre(packets', announce', inbox')
      BY <1>1, <2>1, <2>2, QueueReplaced
    <2> QED
      BY <1>1, <1>3, <2>1, <2>3 DEF QueueTypes, QueuesAre
  <1>5. CASE work[n].kind = "DATA"
    <2>1. packets' = [packets EXCEPT ![n] = Tail(packets[n])]
            /\ UNCHANGED <<announce, inbox, status, task>>
      BY <1>5 DEF Send
    <2>2. Tail(packets[n]) \in Seq(Receivers) /\ Len(Tail(packets[n])) <= MaxPending
      BY <1>1, <1>2, <1>5, Shorter DEF AtHead
    <2>3. QueuesAre(packets', announce', inbox')
      BY <1>1, <2>1, <2>2, QueueReplaced
    <2> QED
      BY <1>1, <1>3, <2>1, <2>3 DEF QueueTypes, QueuesAre
  <1> QED
    BY <1>4, <1>5 DEF Send

LEMMA EnqueueQueues ==
  \A n \in Stations, d \in Receivers : QInv /\ Enqueue(n, d) => QueueTypes' /\ AtHead(n)'
  <1> SUFFICES ASSUME NEW n \in Stations, NEW d \in Receivers, QInv, Enqueue(n, d)
               PROVE  QueueTypes' /\ AtHead(n)'
    OBVIOUS
  <1> DEFINE q == Append(packets[n], d)
  <1>1. packets[n] \in Seq(Receivers) /\ QueuesAre(packets, announce, inbox) /\ QueueTypes
    BY QueuesOf DEF QInv, QueueTypes
  <1>2. q \in Seq(Receivers) /\ Len(q) <= MaxPending
    <2>1. Len(packets[n]) < MaxPending /\ MaxPending \in Nat
      BY DEF Enqueue
    <2>2. q \in Seq(Receivers) /\ Len(q) = Len(packets[n]) + 1 /\ Len(packets[n]) \in Nat
      BY <1>1, AppendIs
    <2> HIDE DEF q
    <2> QED
      BY <2>1, <2>2
  <1>3. packets' = [packets EXCEPT ![n] = q] /\ UNCHANGED <<announce, inbox, status, task>>
    BY DEF Enqueue
  <1>4. work'[n] = Nothing
    BY DEF Enqueue, cycle, frames
  <1> HIDE DEF q
  <1>5. QueuesAre(packets', announce', inbox')
    BY <1>1, <1>2, <1>3, QueueReplaced
  <1> QED
    BY <1>1, <1>3, <1>4, <1>5 DEF QueueTypes, QueuesAre, AtHead, Nothing

\* The main loop takes an ATIM it received from the reception queue.
LEMMA InboxQueues ==
  \A n \in Stations :
    IInv /\ QInv /\ (ProcessAtim(n) \/ HearSender(n)) => QueueTypes'
  <1> SUFFICES ASSUME NEW n \in Stations, IInv, QInv, ProcessAtim(n) \/ HearSender(n)
               PROVE  QueueTypes'
    OBVIOUS
  <1>1. /\ inbox[n] \in Seq(Stations) /\ Len(inbox[n]) <= MaxInbox /\ MaxInbox \in Nat
        /\ QueuesAre(packets, announce, inbox) /\ QueueTypes
    BY QueuesOf DEF QInv, QueueTypes
  <1>2. inbox[n] # <<>>
    BY DEF ProcessAtim, HearSender, IInv, Announced
  <1>3. Tail(inbox[n]) \in Seq(Stations) /\ Len(Tail(inbox[n])) <= MaxInbox
    BY <1>1, <1>2, Shorter
  <1>4. QueuesAre(packets, announce, [inbox EXCEPT ![n] = Tail(inbox[n])])
    BY <1>1, <1>3, QueueReplaced
  <1>5. /\ inbox' = inbox \/ inbox' = [inbox EXCEPT ![n] = Tail(inbox[n])]
        /\ \/ task' = task
           \/ \E t \in {"idle", "noted"} : task' = [task EXCEPT ![n] = t]
        /\ UNCHANGED <<packets, announce, status>>
    BY DEF ProcessAtim, HearSender
  <1>6. QueuesAre(packets', announce', inbox')
    BY <1>1, <1>4, <1>5
  <1>7. task' \in [Stations -> {"idle", "announced", "noted"}]
    BY <1>1, <1>5 DEF QueueTypes
  <1> QED
    BY <1>1, <1>5, <1>6, <1>7 DEF QueueTypes, QueuesAre

LEMMA ReceptionQueues ==
  \A n \in Stations :
    QInv /\ (Transmission(n) \/ HandleStatus(n) \/ LoseStatus(n)) => QueueTypes'
  <1> SUFFICES ASSUME NEW n \in Stations, QInv,
                      Transmission(n) \/ HandleStatus(n) \/ LoseStatus(n)
               PROVE  QueueTypes'
    OBVIOUS
  <1>1. QueueTypes /\ onAir \in [Stations -> Frames] /\ MaxInbox \in Nat
    BY DEF QInv, CycleTypeOK
  <1>2. CASE HandleStatus(n) \/ LoseStatus(n)
    <2>1. NoStatus \in [da : Addr \cup {NoAddr}, acked : BOOLEAN]
      BY DEF NoStatus
    <2>2. status' = [status EXCEPT ![n] = NoStatus] /\ UNCHANGED <<queues, task>>
      BY <1>2 DEF HandleStatus, LoseStatus
    <2> QED
      BY <1>1, <2>1, <2>2 DEF QueueTypes, queues
  <1>3. CASE DataOnAir(n)
    BY <1>1, <1>3 DEF QueueTypes, DataOnAir, queues
  <1>4. ASSUME NEW reached \in SUBSET Stations, NEW acked \in BOOLEAN,
               AtimOnAir(n, reached, acked)
        PROVE  QueueTypes'
    <2>1. [da |-> onAir[n].da, acked |-> acked] \in [da : Addr \cup {NoAddr}, acked : BOOLEAN]
      BY <1>1 DEF Frames
    <2>2. status' = [status EXCEPT ![n] = [da |-> onAir[n].da, acked |-> acked]]
            /\ UNCHANGED <<packets, announce, task>>
      BY <1>4 DEF AtimOnAir
    <2>3. ASSUME NEW m \in Stations
          PROVE  inbox'[m] \in Seq(Stations) /\ Len(inbox'[m]) <= MaxInbox
      <3>1. inbox[m] \in Seq(Stations) /\ Len(inbox[m]) <= MaxInbox
        BY <1>1 DEF QueueTypes
      <3>2. \/ inbox'[m] = inbox[m]
            \/ Len(inbox[m]) < MaxInbox /\ inbox'[m] = Append(inbox[m], n)
        <4>1. inbox' = [k \in Stations |->
                IF k \in reached /\ Len(inbox[k]) < MaxInbox /\ InWindow(k, {"PRE_TBTT", "ATIM"})
                THEN Append(inbox[k], n) ELSE inbox[k]]
          BY <1>4 DEF AtimOnAir, Room
        <4> QED
          BY <4>1
      <3>3. /\ Append(inbox[m], n) \in Seq(Stations) /\ Len(inbox[m]) \in Nat
            /\ Len(Append(inbox[m], n)) = Len(inbox[m]) + 1
        BY <3>1, AppendIs
      <3>4. Len(inbox[m]) < MaxInbox => Len(Append(inbox[m], n)) <= MaxInbox
        BY <1>1, <3>3
      <3> QED
        BY <3>1, <3>2, <3>3, <3>4
    <2>4. inbox' = [m \in Stations |-> inbox'[m]]
      BY <1>4 DEF AtimOnAir
    <2>5. inbox' \in [Stations -> Seq(Stations)]
      BY <2>3, <2>4
    <2>6. status' \in [Stations -> [da : Addr \cup {NoAddr}, acked : BOOLEAN]]
      BY <1>1, <2>1, <2>2 DEF QueueTypes
    <2> QED
      BY <1>1, <2>2, <2>3, <2>5, <2>6 DEF QueueTypes
  <1> QED
    BY <1>2, <1>3, <1>4 DEF Transmission

\* The frame that was picked stays where it is until it is sent.
LEMMA AtHeadElsewhere ==
  ASSUME NEW n \in Stations, AtHead(n),
         work'[n] = work[n], packets'[n] = packets[n], announce'[n] = announce[n]
  PROVE  AtHead(n)'
  BY DEF AtHead

LEMMA WorkStays ==
  \A n \in Stations :
    QInv /\ (Clock(n) \/ GoToSleep(n) \/ NoteOwnAtim(n) \/ ProcessAtim(n) \/ HearSender(n)
               \/ Transmission(n) \/ HandleStatus(n) \/ LoseStatus(n) \/ BeaconSent(n))
      => UNCHANGED <<work, packets, announce>>
  <1> SUFFICES ASSUME NEW n \in Stations, QInv,
                      Clock(n) \/ GoToSleep(n) \/ NoteOwnAtim(n) \/ ProcessAtim(n)
                        \/ HearSender(n) \/ Transmission(n) \/ HandleStatus(n)
                        \/ LoseStatus(n) \/ BeaconSent(n)
               PROVE  UNCHANGED <<work, packets, announce>>
    OBVIOUS
  <1> USE DEF queues, cycle, frames
  <1>1. CASE Clock(n)
    BY <1>1 DEF Clock, PreTbtt, Tbtt, WindowStart, OpenAtim, WindowEnd, CloseAtim
  <1>2. CASE GoToSleep(n) \/ NoteOwnAtim(n) \/ BeaconSent(n)
    BY <1>2 DEF GoToSleep, Doze, NoteOwnAtim, BeaconSent, StayAwake
  <1>3. CASE ProcessAtim(n) \/ HearSender(n)
    BY <1>3 DEF ProcessAtim, HearSender, StayAwake, Hear
  <1>4. CASE Transmission(n)
    BY <1>4 DEF Transmission, DataOnAir, AtimOnAir, Done
  <1>5. CASE HandleStatus(n) \/ LoseStatus(n)
    BY <1>5 DEF HandleStatus, LoseStatus, Hear
  <1> QED
    BY <1>1, <1>2, <1>3, <1>4, <1>5

LEMMA StepStaysAtHome ==
  \A n \in Stations :
    QInv /\ (NewInterval(n) \/ PickAtim(n) \/ PickData(n) \/ Send(n)
              \/ (\E kind \in {"ATIM", "DATA"} : TurnTo(n, kind))
              \/ \E d \in Receivers : Enqueue(n, d))
      => \A m \in Stations \ {n} : work'[m] = work[m] /\ packets'[m] = packets[m]
                                     /\ announce'[m] = announce[m]
  <1> SUFFICES ASSUME NEW n \in Stations, NEW m \in Stations \ {n}, QInv,
                      NewInterval(n) \/ PickAtim(n) \/ PickData(n) \/ Send(n)
                        \/ (\E kind \in {"ATIM", "DATA"} : TurnTo(n, kind))
                        \/ \E d \in Receivers : Enqueue(n, d)
               PROVE  work'[m] = work[m] /\ packets'[m] = packets[m]
                        /\ announce'[m] = announce[m]
    OBVIOUS
  <1> USE DEF queues, cycle, frames, QInv, QueueTypes, CycleTypeOK
  <1>1. CASE NewInterval(n)
    BY <1>1 DEF NewInterval, Forget
  <1>2. CASE PickAtim(n)
    BY <1>2 DEF PickAtim, Pick, DropWork
  <1>3. CASE PickData(n)
    BY <1>3 DEF PickData, Pick, DropWork
  <1>4. CASE Send(n)
    BY <1>4 DEF Send, HandDown
  <1>5. CASE \E kind \in {"ATIM", "DATA"} : TurnTo(n, kind)
    BY <1>5 DEF TurnTo, Turn
  <1>6. CASE \E d \in Receivers : Enqueue(n, d)
    BY <1>6 DEF Enqueue
  <1> QED
    BY <1>1, <1>2, <1>3, <1>4, <1>5, <1>6

-----------------------------------------------------------------------------
LEMMA QInvInit == NetworkInit => QInv
  <1> SUFFICES ASSUME NetworkInit PROVE QInv
    OBVIOUS
  <1>1. CycleTypeOK
    BY CycleTypeInit DEF NetworkInit
  <1>2. QueueTypes
    <2>1. <<>> \in Seq(Receivers) /\ <<>> \in Seq(Stations) /\ Len(<<>>) = 0
            /\ MaxPending >= 0 /\ MaxInbox >= 0
      OBVIOUS
    <2>2. NoStatus \in [da : Addr \cup {NoAddr}, acked : BOOLEAN]
      BY DEF NoStatus
    <2> QED
      BY <2>1, <2>2 DEF NetworkInit, QueueTypes
  <1>3. \A n \in Stations : AtHead(n)
    BY DEF NetworkInit, Init, AtHead, Nothing
  <1> QED
    BY <1>1, <1>2, <1>3 DEF QInv

LEMMA QInvStep == IInv /\ QInv /\ [NetworkNext]_vars => QInv'
  <1> SUFFICES ASSUME IInv, QInv, [NetworkNext]_vars PROVE QInv'
    OBVIOUS
  <1>1. CycleTypeOK'
    BY NetworkImplements, CycleTypeStep DEF QInv
  <1>2. CASE UNCHANGED vars
    BY <1>2 DEF vars, queues, cycle, power, belief, frames, QInv, QueueTypes, CycleTypeOK, AtHead
  <1>3. ASSUME NEW n \in Stations, PickAtim(n) \/ PickData(n) \/ Send(n)
                                     \/ \E d \in Receivers : Enqueue(n, d)
        PROVE  QInv'
    <2>1. QueueTypes' /\ AtHead(n)'
      BY <1>3, PickQueues, SendQueues, EnqueueQueues
    <2>2. \A m \in Stations \ {n} : AtHead(m)'
      BY <1>3, StepStaysAtHome, AtHeadElsewhere DEF QInv
    <2> QED
      BY <1>1, <2>1, <2>2 DEF QInv
  <1>4. ASSUME NEW n \in Stations, NewInterval(n) PROVE QInv'
    <2>1. QueueTypes'
      BY <1>4, NewIntervalQueues DEF QInv
    <2>2. AtHead(n)'
      BY <1>4 DEF NewInterval, Forget, frames, AtHead, Nothing
    <2>3. \A m \in Stations \ {n} : AtHead(m)'
      BY <1>4, StepStaysAtHome, AtHeadElsewhere DEF QInv
    <2> QED
      BY <1>1, <2>1, <2>2, <2>3 DEF QInv
  <1>5. ASSUME NEW n \in Stations, NEW kind \in {"ATIM", "DATA"}, TurnTo(n, kind)
        PROVE  QInv'
    <2>1. QueueTypes'
      BY <1>5 DEF TurnTo, queues, QueueTypes, QInv
    <2>2. AtHead(n)'
      BY <1>5 DEF TurnTo, Turn, QInv, CycleTypeOK, AtHead
    <2>3. \A m \in Stations \ {n} : AtHead(m)'
      BY <1>5, StepStaysAtHome, AtHeadElsewhere DEF QInv
    <2> QED
      BY <1>1, <2>1, <2>2, <2>3 DEF QInv
  <1>6. ASSUME NEW n \in Stations,
               Clock(n) \/ GoToSleep(n) \/ NoteOwnAtim(n) \/ ProcessAtim(n) \/ HearSender(n)
                 \/ Transmission(n) \/ HandleStatus(n) \/ LoseStatus(n) \/ BeaconSent(n)
        PROVE  QInv'
    <2>1. \A m \in Stations : AtHead(m)'
      BY <1>6, WorkStays, AtHeadElsewhere DEF QInv
    <2>2. QueueTypes'
      <3>1. CASE Clock(n) \/ GoToSleep(n) \/ NoteOwnAtim(n) \/ BeaconSent(n)
        BY <3>1 DEF QInv, QueueTypes, queues, Clock, PreTbtt, WindowStart, WindowEnd,
                    GoToSleep, NoteOwnAtim, BeaconSent
      <3> QED
        BY <1>6, <3>1, InboxQueues, ReceptionQueues
    <2> QED
      BY <1>1, <2>1, <2>2 DEF QInv
  <1> QED
    BY <1>2, <1>3, <1>4, <1>5, <1>6 DEF NetworkNext, MainLoop

\* The state keeps its types: no queue of pending packets, announcements or
\* received ATIMs outgrows the buffer the driver gives it
\* (ieee80211_psm.c:159-276, ieee80211_rx.c:553-637), for any bounds.
THEOREM NetworkTypeOKHolds == NetworkSpec => []NetworkTypeOK
  <1>1. IInv /\ QInv /\ [NetworkNext]_vars => (IInv /\ QInv)'
    BY IInvStep, QInvStep
  <1>2. QInv => NetworkTypeOK
    BY DEF QInv, QueueTypes, NetworkTypeOK
  <1> QED
    BY <1>1, <1>2, IInvInit, QInvInit, PTL DEF NetworkSpec

\* What the main loop is about to send is still the head of its queue when the
\* frame leaves it: neither a TBTT, nor a new packet, nor the next interval's
\* announcements come in between, so that the head that is dropped is the frame
\* that went down (ar9170_psm.c:290-430, ieee80211_psm.c:159-276).
THEOREM SentIsHead == NetworkSpec => [](\A n \in Stations : AtHead(n))
  <1>1. IInv /\ QInv /\ [NetworkNext]_vars => (IInv /\ QInv)'
    BY IInvStep, QInvStep
  <1>2. QInv => \A n \in Stations : AtHead(n)
    BY DEF QInv
  <1> QED
    BY <1>1, <1>2, IInvInit, QInvInit, PTL DEF NetworkSpec

\* The network implements BeaconCycle: with queues, losses and acknowledgements,
\* each station does only what the power-save manager of one station promises
\* (ar9170_psm.c:69-430), which Ar9170Psm is shown to keep as well.
THEOREM NetworkRefinesCycle == NetworkSpec => Spec
  <1>1. IInv /\ QInv /\ [NetworkNext]_vars => (IInv /\ QInv)'
    BY IInvStep, QInvStep
  <1>2. NetworkInit => Init
    BY DEF NetworkInit
  <1> QED
    BY <1>1, <1>2, IInvInit, QInvInit, NetworkImplements, PTL DEF NetworkSpec, Spec
=============================================================================
