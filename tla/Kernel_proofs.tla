---------------------------- MODULE Kernel_proofs ----------------------------
(***************************************************************************)
(* Theorems about Kernel, for every set of processes and of timers, every  *)
(* length of the event queue and every depth of the stack: no poll is      *)
(* lost, a process that can be called is on the list, and no timer         *)
(* outlives its process.                                                   *)
(***************************************************************************)
EXTENDS Kernel, FiniteSetTheorems, SequenceTheorems, WellFoundedInduction, TLAPS

-----------------------------------------------------------------------------
(* The inductive invariant *)

Node == Procs \cup {First}

Kinds == {"poll", "bcast", "deliver", "thread", "exit", "bye", "unlink"}
Evs == {"-", "POLL", "EXIT", "EXITED", "INIT", "CONTINUE", "TIMER", NoProc} \cup Procs
Frames == [kind : Kinds, p : Position, q : Position, ev : Evs,
           back : Procs \cup {NoProc}]
Events == [p : Apps \cup {Broadcast}, ev : {"EXIT", "CONTINUE", "TIMER"}]

EventsOK ==
    /\ events \in Seq(Events)
    /\ \A i \in DOMAIN events : events[i].p = Broadcast => events[i].ev = "CONTINUE"

Types ==
    /\ nxt \in [Node -> Procs \cup {NoProc}]
    /\ state \in [Procs -> {"none", "running", "called"}]
    /\ needspoll \in [Procs -> BOOLEAN] /\ asked \in [Procs -> BOOLEAN]
    /\ poll_requested \in BOOLEAN
    /\ EventsOK
    /\ process_current \in Procs \cup {NoProc}
    /\ timerlist \in Seq(Timers)
    /\ timer_p \in [Timers -> Apps \cup {NoProc}]
    /\ stack \in Seq(Frames)

\* The list, and every walk over it, ends at the event timer process.
EndsAtEtimer ==
    /\ nxt[Etimer] = NoProc
    /\ \A x \in Node \ {Etimer} : Etimer \in Ahead(x)

\* Frames of the main loop, of a thread that may call the kernel, and of the
\* threads that run while a process exits.
Base(f)  == f.kind \in {"poll", "bcast", "deliver"}
Loud(f)  == f.kind = "thread" /\ f.ev # "EXITED"
Exits(f) == f.kind \in {"exit", "unlink"}
Quiet(f) == f.kind \in {"exit", "unlink", "bye"} \/ (f.kind = "thread" /\ f.ev = "EXITED")

\* What a frame says of its process, given the states st and the list L.
FrameOK(f, st, L) ==
    /\ f.kind = "poll" => f.p \in Node
    /\ f.kind = "bcast" => f.p \in Node /\ f.ev = "CONTINUE"
    /\ f.kind = "deliver" => f.p \in Procs /\ f.ev = "CONTINUE"
    /\ f.kind = "thread" =>
         f.p \in Procs /\ st[f.p] = "called" /\ (f.p = Etimer => f.ev # "EXIT")
    /\ Exits(f) => f.p \in Apps /\ st[f.p] = "none" /\ f.p \in L
    /\ f.kind = "exit" => f.q \in Node
    /\ f.kind = "bye" => f.p \in Apps

\* What holds between a frame f and one below it, g.
PairOK(f, g) ==
    /\ f.kind = "thread" /\ g.kind = "thread" => f.p # g.p
    /\ Exits(f) /\ Exits(g) => f.p # g.p
    /\ Exits(g) => Quiet(f)
    /\ Base(f) => Base(g)
    /\ ~(g.kind = "thread" /\ g.p = Etimer)

\* ... and between f and the one next below: the walk of do_poll stands at the
\* process whose thread it has called; whoever returns to a thread restores
\* process_current.
NextOK(f, g, L) ==
    /\ g.kind = "poll" => f.kind \in {"thread", "exit", "unlink"} /\ f.p = g.p /\ g.p \in L
    /\ Loud(g) => f.kind \in {"thread", "exit", "unlink"} /\ f.back = g.p
    /\ f.kind = "bye" => g.kind = "unlink"
    /\ g.kind = "bye" => FALSE

StackOK(s, st, L) ==
    /\ \A i \in DOMAIN s : FrameOK(s[i], st, L)
    /\ \A i, j \in DOMAIN s : i < j => PairOK(s[i], s[j])
    /\ \A i, j \in DOMAIN s : j = i + 1 => NextOK(s[i], s[j], L)

\* What the innermost frame relies on.
TopOK(s, cur, nx, L) ==
    s # <<>> =>
      /\ s[1].kind = "poll" => nx[s[1].p] \in L \cup {NoProc}
      /\ Loud(s[1]) => cur = s[1].p

\* The event timer process never ends, and calls nobody.
EtimerRunsAlone ==
    /\ state[Etimer] # "none"
    /\ state[Etimer] = "called" =>
         stack # <<>> /\ stack[1].kind = "thread" /\ stack[1].p = Etimer

InStack(f) == \E i \in DOMAIN stack : stack[i] = f

\* A poll that was accepted will be served.
PollsKept ==
    \A p \in Procs : asked[p] =>
        /\ needspoll[p]
        /\ state[p] # "none" =>
             \/ poll_requested
             \/ \E f \in Frames : InStack(f) /\ f.kind = "poll" /\ p \in Ahead(f.p)

\* etimer_process is yet to be told that p exits, or is being told.
Telling(p) ==
    \/ \E f \in Frames : InStack(f) /\ f.kind = "exit" /\ f.p = p /\ Etimer \in Ahead(f.q)
    \/ /\ stack # <<>> /\ stack[1].kind = "thread" /\ stack[1].p = Etimer
       /\ stack[1].ev = "EXITED" /\ stack[1].q = p
       /\ \E i \in DOMAIN stack : i > 1 /\ stack[i].kind = "exit" /\ stack[i].p = p

TimersOwned ==
    /\ \A i, j \in DOMAIN timerlist : timerlist[i] = timerlist[j] => i = j
    /\ \A i \in DOMAIN timerlist : timer_p[timerlist[i]] # NoProc
    /\ \A i \in DOMAIN timerlist, p \in Apps :
         timer_p[timerlist[i]] = p => state[p] # "none" \/ Telling(p)

KInv ==
    /\ Types /\ EndsAtEtimer /\ RunningIsListed
    /\ StackOK(stack, state, Ahead(First))
    /\ TopOK(stack, process_current, nxt, Ahead(First))
    /\ EtimerRunsAlone /\ PollsKept /\ TimersOwned

-----------------------------------------------------------------------------
(* Walks over the list *)

LEMMA Names ==
  /\ Etimer \in Procs /\ Etimer \notin Apps /\ First \notin Procs /\ NoProc \notin Procs
  /\ First # NoProc /\ Broadcast \notin Procs /\ First # Etimer
  BY KernelAssumption DEF Procs

\* A walk goes on at what it has reached, and reaches nothing else.
LEMMA AheadNext ==
  ASSUME Types, NEW x \in Node, NEW y \in Ahead(x)
  PROVE  nxt[y] \in Ahead(x) \cup {NoProc}
  <1> SUFFICES ASSUME nxt[y] # NoProc PROVE nxt[y] \in Ahead(x)
    OBVIOUS
  <1>1. y \in Procs /\ nxt[y] \in Procs
    BY DEF Ahead, Types, Node
  <1>2. ASSUME NEW S \in SUBSET Procs, nxt[x] \in S \cup {NoProc}, Closed(S)
        PROVE  nxt[y] \in S
    BY <1>2 DEF Ahead, Closed
  <1> QED
    BY <1>1, <1>2 DEF Ahead

LEMMA AheadWithin ==
  ASSUME NEW x \in Node, NEW S \in SUBSET Procs, nxt[x] \in S \cup {NoProc},
         Types, \A y \in S \cap Ahead(x) : nxt[y] \in S \cup {NoProc}
  PROVE  Ahead(x) \subseteq S
  <1> DEFINE R == S \cap Ahead(x)
  <1>1. nxt[x] \in Ahead(x) \cup {NoProc}
    BY DEF Ahead, Types
  <1>2. Closed(R)
    BY AheadNext DEF Closed
  <1>3. R \in SUBSET Procs /\ nxt[x] \in R \cup {NoProc}
    BY <1>1 DEF Ahead
  <1> HIDE DEF R
  <1>4. Ahead(x) \subseteq R
    BY <1>2, <1>3 DEF Ahead
  <1> QED
    BY <1>4 DEF R

LEMMA AheadStep ==
  ASSUME Types, NEW x \in Node
  PROVE  /\ Ahead(x) \subseteq Procs
         /\ nxt[x] = NoProc => Ahead(x) = {}
         /\ nxt[x] # NoProc =>
              /\ nxt[x] \in Ahead(x) /\ nxt[x] \in Procs
              /\ Ahead(x) = {nxt[x]} \cup Ahead(nxt[x])
  <1>1. Ahead(x) \subseteq Procs
    BY DEF Ahead
  <1>2. ASSUME nxt[x] = NoProc PROVE Ahead(x) = {}
    <2>1. {} \in SUBSET Procs /\ nxt[x] \in {} \cup {NoProc} /\ Closed({})
      BY <1>2 DEF Closed
    <2> QED
      BY <2>1 DEF Ahead
  <1>3. ASSUME nxt[x] # NoProc
        PROVE  /\ nxt[x] \in Ahead(x) /\ nxt[x] \in Procs
               /\ Ahead(x) = {nxt[x]} \cup Ahead(nxt[x])
    <2> DEFINE y == nxt[x]
    <2>1. y \in Procs /\ y \in Node /\ y \in Ahead(x)
      BY <1>3 DEF Ahead, Types, Node
    <2>2. Ahead(y) \subseteq Ahead(x)
      BY <1>1, <2>1, AheadNext, AheadWithin
    <2>3. Ahead(x) \subseteq {y} \cup Ahead(y)
      <3> DEFINE S == {y} \cup Ahead(y)
      <3>1. S \in SUBSET Procs
        BY <2>1 DEF Ahead
      <3>2. \A z \in S : nxt[z] \in S \cup {NoProc}
        <4>1. nxt[y] \in Ahead(y) \cup {NoProc}
          BY <2>1 DEF Ahead, Types
        <4>2. \A z \in Ahead(y) : nxt[z] \in Ahead(y) \cup {NoProc}
          BY <2>1, AheadNext
        <4> QED
          BY <4>1, <4>2
      <3>3. nxt[x] \in S \cup {NoProc}
        OBVIOUS
      <3> HIDE DEF S
      <3>4. Ahead(x) \subseteq S
        BY <3>1, <3>2, <3>3, AheadWithin
      <3> QED
        BY <3>4 DEF S
    <2> QED
      BY <2>1, <2>2, <2>3
  <1> QED
    BY <1>1, <1>2, <1>3

\* No walk comes back to where it stands.
LEMMA NoLoop ==
  ASSUME Types, EndsAtEtimer, NEW x \in Node PROVE x \notin Ahead(x)
  <1>1. x = Etimer => Ahead(x) = {}
    BY AheadStep DEF EndsAtEtimer
  <1>2. x = First => x \notin Ahead(x)
    BY AheadStep, Names
  <1>3. ASSUME x \in Ahead(x), x \in Procs, x # Etimer PROVE FALSE
    <2> DEFINE S == {y \in Ahead(x) : x \in Ahead(y)}
    <2>1. ASSUME NEW y \in Ahead(x), x \in Ahead(y) PROVE nxt[y] \in S
      <3>1. y \in Node
        BY <2>1 DEF Ahead, Node
      <3>2. nxt[y] # NoProc
        BY <2>1, <3>1, AheadStep
      <3>3. nxt[y] \in Ahead(x)
        BY <3>2, AheadNext
      <3>4. x = nxt[y] \/ x \in Ahead(nxt[y])
        BY <2>1, <3>1, <3>2, AheadStep
      <3> QED
        BY <1>3, <3>3, <3>4
    <2>2. S \in SUBSET Procs
      BY DEF Ahead
    <2>3. nxt[x] \in S
      BY <1>3, <2>1
    <2>4. \A y \in S : nxt[y] \in S
      BY <2>1
    <2> HIDE DEF S
    <2>5. Ahead(x) \subseteq S
      BY <2>2, <2>3, <2>4, AheadWithin
    <2>6. Etimer \in Ahead(x)
      BY <1>3 DEF EndsAtEtimer
    <2>7. x \in Ahead(Etimer)
      BY <2>5, <2>6 DEF S
    <2>8. Ahead(Etimer) = {}
      BY Names, AheadStep DEF EndsAtEtimer, Node
    <2> QED
      BY <2>7, <2>8
  <1> QED
    BY <1>1, <1>2, <1>3 DEF Node

\* Where a walk goes on from, the list continues.
LEMMA NextListed ==
  ASSUME Types, NEW x \in Node, x = First \/ Listed(x)
  PROVE  nxt[x] \in Ahead(First) \cup {NoProc}
  <1>1. First \in Node
    BY DEF Node
  <1>2. CASE x = First
    BY <1>1, <1>2, AheadStep
  <1>3. CASE Listed(x)
    BY <1>1, <1>3, AheadNext DEF Listed
  <1> QED
    BY <1>2, <1>3

\* A process that is removed from the list is missed by no walk to another.
LEMMA UnlinkKeeps ==
  ASSUME Types, EndsAtEtimer, NEW p \in Apps, nxt' = Unlinked(p)
  PROVE  /\ nxt' \in [Node -> Procs \cup {NoProc}]
         /\ nxt'[p] = nxt[p]
         /\ \A x \in Node : \A q \in Ahead(x) \ {p} : q \in Ahead(x)'
         /\ EndsAtEtimer'
  <1>0. p \in Procs /\ p \in Node /\ DOMAIN nxt = Node /\ p # Etimer /\ First \in Node
        /\ p # NoProc
    BY Names DEF Procs, Node, Types
  <1>1. \A x \in Node :
          nxt'[x] = IF nxt[x] = p /\ (x = First \/ Listed(x)) THEN nxt[p] ELSE nxt[x]
    BY <1>0 DEF Unlinked
  <1>2. nxt' \in [Node -> Procs \cup {NoProc}]
    BY <1>0 DEF Unlinked, Types
  <1>3. nxt'[p] = nxt[p]
    BY <1>0, <1>1
  <1>4. ASSUME NEW x \in Node, NEW q \in Ahead(x), q # p PROVE q \in Ahead(x)'
    <2>1. q \in Procs
      BY DEF Ahead
    <2>2. ASSUME NEW S \in SUBSET Procs, nxt'[x] \in S \cup {NoProc},
                 \A y \in S : nxt'[y] \in S \cup {NoProc}
          PROVE  q \in S
      <3> DEFINE R == {y \in Procs : (y # p => y \in S) /\ (y = p => nxt[p] \in S \cup {NoProc})}
      <3>1. ASSUME NEW y \in Node, nxt'[y] \in S \cup {NoProc} PROVE nxt[y] \in R \cup {NoProc}
        <4>1. nxt[y] \in Procs \cup {NoProc}
          BY DEF Types
        <4>2. CASE nxt[y] = p
          <5>1. nxt'[y] = nxt[p] \/ nxt'[y] = p
            BY <1>1, <4>2
          <5>2. nxt'[y] = p => nxt[p] \in S \cup {NoProc}
            BY <1>0, <1>3, <2>2, <3>1
          <5> QED
            BY <1>0, <3>1, <4>2, <5>1, <5>2
        <4>3. CASE nxt[y] # p
          BY <1>1, <3>1, <4>1, <4>3
        <4> QED
          BY <4>2, <4>3
      <3>2. \A y \in R : nxt[y] \in R \cup {NoProc}
        <4> SUFFICES ASSUME NEW y \in R PROVE nxt[y] \in R \cup {NoProc}
          OBVIOUS
        <4>1. y \in Node
          BY DEF Node
        <4>2. nxt'[y] \in S \cup {NoProc}
          <5>1. CASE y = p
            BY <1>3, <5>1
          <5>2. CASE y # p
            BY <2>2, <5>2
          <5> QED
            BY <5>1, <5>2
        <4> QED
          BY <3>1, <4>1, <4>2
      <3>3. nxt[x] \in R \cup {NoProc} /\ R \in SUBSET Procs
        BY <2>2, <3>1
      <3>4. q \in R => q \in S
        BY <1>4
      <3> HIDE DEF R
      <3>5. Ahead(x) \subseteq R
        BY <3>2, <3>3, AheadWithin
      <3> QED
        BY <3>4, <3>5
    <2> QED
      BY <2>1, <2>2 DEF Ahead, Closed
  <1>5. EndsAtEtimer'
    <2>1. nxt'[Etimer] = NoProc
      BY <1>0, <1>1, Names DEF EndsAtEtimer, Node
    <2>2. \A x \in Node \ {Etimer} : Etimer \in Ahead(x)'
      BY <1>0, <1>4 DEF EndsAtEtimer
    <2> QED
      BY <2>1, <2>2 DEF EndsAtEtimer, Node
  <1> QED
    BY <1>2, <1>3, <1>4, <1>5

\* A process that is put at the head of the list hides none of the others.
LEMMA StartKeeps ==
  ASSUME Types, EndsAtEtimer, NEW r \in Apps, ~Listed(r),
         nxt' = [nxt EXCEPT ![r] = nxt[First], ![First] = r]
  PROVE  /\ nxt' \in [Node -> Procs \cup {NoProc}]
         /\ Listed(r)'
         /\ \A x \in Node : \A q \in Ahead(x) \cap Ahead(First) : q \in Ahead(x)'
         /\ EndsAtEtimer'
  <1>0. r \in Procs /\ r \in Node /\ First \in Node /\ r # First /\ r # Etimer /\ r # NoProc
    BY Names DEF Procs, Node
  <1>1. /\ nxt' \in [Node -> Procs \cup {NoProc}]
        /\ nxt'[First] = r /\ nxt'[r] = nxt[First]
        /\ \A y \in Node \ {First, r} : nxt'[y] = nxt[y]
    BY <1>0 DEF Types
  <1>2. Listed(r)'
    BY <1>0, <1>1 DEF Listed, Ahead
  <1>3. ASSUME NEW x \in Node, NEW q \in Ahead(x), q \in Ahead(First) PROVE q \in Ahead(x)'
    <2>1. q \in Procs
      BY DEF Ahead
    <2>2. ASSUME NEW S \in SUBSET Procs, nxt'[x] \in S \cup {NoProc},
                 \A y \in S : nxt'[y] \in S \cup {NoProc}
          PROVE  q \in S
      <3>1. CASE r \in S \/ x = r
        <4>1. nxt[First] \in S \cup {NoProc}
          BY <1>1, <2>2, <3>1
        <4>2. \A y \in S \cap Ahead(First) : nxt[y] \in S \cup {NoProc}
          <5> SUFFICES ASSUME NEW y \in S, y \in Ahead(First) PROVE nxt[y] \in S \cup {NoProc}
            OBVIOUS
          <5>1. y # r /\ y # First /\ y \in Node
            BY Names DEF Listed, Node
          <5> QED
            BY <1>1, <2>2, <5>1
        <4> QED
          BY <1>0, <1>3, <4>1, <4>2, AheadWithin
      <3>2. CASE r \notin S /\ x # r
        <4>1. x # First
          BY <1>0, <1>1, <2>2, <3>2
        <4>2. nxt[x] \in S \cup {NoProc}
          BY <1>1, <2>2, <3>2, <4>1
        <4>3. \A y \in S : nxt[y] \in S \cup {NoProc}
          <5> SUFFICES ASSUME NEW y \in S PROVE nxt[y] \in S \cup {NoProc}
            OBVIOUS
          <5>1. y # r /\ y # First /\ y \in Node
            BY <3>2, Names DEF Node
          <5> QED
            BY <1>1, <2>2, <5>1
        <4> QED
          BY <4>2, <4>3, AheadWithin
      <3> QED
        BY <3>1, <3>2
    <2> QED
      BY <2>1, <2>2 DEF Ahead, Closed
  <1>4. EndsAtEtimer'
    <2>1. nxt'[Etimer] = NoProc
      BY <1>0, <1>1, Names DEF EndsAtEtimer, Node
    <2>2. \A x \in Node \ {Etimer} : Etimer \in Ahead(x)'
      BY <1>0, <1>3, Names DEF EndsAtEtimer
    <2> QED
      BY <2>1, <2>2 DEF EndsAtEtimer, Node
  <1> QED
    BY <1>1, <1>2, <1>3, <1>4

-----------------------------------------------------------------------------
(* The stack *)

\* A sequence with one element more at its front, and with one less.
LEMMA Cons ==
  ASSUME NEW F, NEW s \in Seq(F), NEW f \in F
  PROVE  /\ <<f>> \o s \in Seq(F) /\ <<f>> \o s # <<>>
         /\ Len(s) \in Nat /\ DOMAIN s = 1 .. Len(s)
         /\ DOMAIN (<<f>> \o s) = 1 .. Len(s) + 1
         /\ (<<f>> \o s)[1] = f
         /\ \A i \in 1 .. Len(s) : (<<f>> \o s)[i + 1] = s[i] /\ s[i] \in F
  <1>1. <<f>> \in Seq(F) /\ Len(<<f>>) = 1 /\ <<f>>[1] = f
    OBVIOUS
  <1>2. Len(s) \in Nat /\ DOMAIN s = 1 .. Len(s) /\ \A i \in 1 .. Len(s) : s[i] \in F
    BY LenProperties, ElementOfSeq
  <1>3. /\ <<f>> \o s \in Seq(F) /\ Len(<<f>> \o s) = 1 + Len(s)
        /\ \A i \in 1 .. 1 + Len(s) :
              (<<f>> \o s)[i] = IF i <= 1 THEN <<f>>[i] ELSE s[i - 1]
    BY <1>1, ConcatProperties
  <1>4. DOMAIN (<<f>> \o s) = 1 .. Len(s) + 1
    BY <1>2, <1>3, LenProperties
  <1>5. <<f>> \o s # <<>>
    BY <1>2, <1>3
  <1> QED
    BY <1>1, <1>2, <1>3, <1>4, <1>5

LEMMA Uncons ==
  ASSUME NEW F, NEW s \in Seq(F), s # <<>>
  PROVE  /\ Tail(s) \in Seq(F) /\ s[1] \in F
         /\ Len(s) \in Nat /\ Len(s) >= 1 /\ DOMAIN s = 1 .. Len(s)
         /\ DOMAIN Tail(s) = 1 .. Len(s) - 1
         /\ \A i \in 1 .. Len(s) - 1 : Tail(s)[i] = s[i + 1]
  BY HeadTailProperties, LenProperties, EmptySeq

Has(s, f) == \E i \in DOMAIN s : s[i] = f

LEMMA HasCons ==
  ASSUME NEW F, NEW s \in Seq(F), NEW f \in F, NEW g
  PROVE  Has(<<f>> \o s, g) <=> (g = f \/ Has(s, g))
  <1> DEFINE t == <<f>> \o s
  <1>1. /\ Len(s) \in Nat /\ DOMAIN s = 1 .. Len(s) /\ DOMAIN t = 1 .. Len(s) + 1
        /\ t[1] = f /\ \A i \in 1 .. Len(s) : t[i + 1] = s[i]
    BY Cons
  <1> HIDE DEF t
  <1>2. ASSUME Has(t, g) PROVE g = f \/ Has(s, g)
    <2>1. PICK i \in 1 .. Len(s) + 1 : t[i] = g
      BY <1>1, <1>2 DEF Has
    <2>2. CASE i = 1
      BY <1>1, <2>1, <2>2
    <2>3. CASE i # 1
      <3>1. i - 1 \in 1 .. Len(s) /\ (i - 1) + 1 = i
        BY <1>1, <2>3
      <3>2. s[i - 1] = g
        BY <1>1, <2>1, <3>1
      <3> QED
        BY <1>1, <3>1, <3>2 DEF Has
    <2> QED
      BY <2>2, <2>3
  <1>3. ASSUME Has(s, g) PROVE Has(t, g)
    <2>1. PICK i \in 1 .. Len(s) : s[i] = g
      BY <1>1, <1>3 DEF Has
    <2>2. i + 1 \in DOMAIN t /\ t[i + 1] = g
      BY <1>1, <2>1
    <2> QED
      BY <2>2 DEF Has
  <1>4. Has(t, f)
    BY <1>1 DEF Has
  <1> QED
    BY <1>2, <1>3, <1>4 DEF t

LEMMA HasUncons ==
  ASSUME NEW F, NEW s \in Seq(F), s # <<>>, NEW g
  PROVE  Has(s, g) <=> (g = s[1] \/ Has(Tail(s), g))
  <1>1. /\ Len(s) \in Nat /\ Len(s) >= 1 /\ DOMAIN s = 1 .. Len(s)
        /\ DOMAIN Tail(s) = 1 .. Len(s) - 1
        /\ \A i \in 1 .. Len(s) - 1 : Tail(s)[i] = s[i + 1]
    BY Uncons
  <1>2. ASSUME Has(s, g), g # s[1] PROVE Has(Tail(s), g)
    <2>1. PICK i \in 1 .. Len(s) : s[i] = g
      BY <1>1, <1>2 DEF Has
    <2>2. i - 1 \in 1 .. Len(s) - 1 /\ (i - 1) + 1 = i
      BY <1>1, <1>2, <2>1
    <2>3. Tail(s)[i - 1] = g
      BY <1>1, <2>1, <2>2
    <2> QED
      BY <1>1, <2>2, <2>3 DEF Has
  <1>3. ASSUME Has(Tail(s), g) PROVE Has(s, g)
    <2>1. PICK i \in 1 .. Len(s) - 1 : Tail(s)[i] = g
      BY <1>1, <1>3 DEF Has
    <2>2. i + 1 \in DOMAIN s /\ s[i + 1] = g
      BY <1>1, <2>1
    <2> QED
      BY <2>2 DEF Has
  <1>4. Has(s, s[1])
    BY <1>1 DEF Has
  <1> QED
    BY <1>2, <1>3, <1>4

\* A stack stays in order when its innermost frame is left, when a frame that
\* fits is put on it, and when what its frames rely on is kept.
LEMMA StackPop ==
  ASSUME NEW s \in Seq(Frames), s # <<>>, NEW st, NEW L, StackOK(s, st, L)
  PROVE  StackOK(Tail(s), st, L)
  <1>1. /\ Len(s) \in Nat /\ Len(s) >= 1 /\ DOMAIN s = 1 .. Len(s)
        /\ DOMAIN Tail(s) = 1 .. Len(s) - 1
        /\ \A i \in 1 .. Len(s) - 1 : Tail(s)[i] = s[i + 1]
    BY Uncons
  <1>2. \A i \in 1 .. Len(s) - 1 : i + 1 \in 1 .. Len(s)
    BY <1>1
  <1>3. \A i \in DOMAIN Tail(s) : FrameOK(Tail(s)[i], st, L)
    BY <1>1, <1>2 DEF StackOK
  <1>4. \A i, j \in DOMAIN Tail(s) : i < j => PairOK(Tail(s)[i], Tail(s)[j])
    <2> SUFFICES ASSUME NEW i \in 1 .. Len(s) - 1, NEW j \in 1 .. Len(s) - 1, i < j
                 PROVE  PairOK(s[i + 1], s[j + 1])
      BY <1>1
    <2>1. i + 1 \in DOMAIN s /\ j + 1 \in DOMAIN s /\ i + 1 < j + 1
      BY <1>1
    <2> QED
      BY <2>1 DEF StackOK
  <1>5. \A i, j \in DOMAIN Tail(s) : j = i + 1 => NextOK(Tail(s)[i], Tail(s)[j], L)
    <2> SUFFICES ASSUME NEW i \in 1 .. Len(s) - 1, NEW j \in 1 .. Len(s) - 1, j = i + 1
                 PROVE  NextOK(s[i + 1], s[j + 1], L)
      BY <1>1
    <2>1. i + 1 \in DOMAIN s /\ j + 1 \in DOMAIN s /\ j + 1 = (i + 1) + 1
      BY <1>1
    <2> QED
      BY <2>1 DEF StackOK
  <1> QED
    BY <1>3, <1>4, <1>5 DEF StackOK

LEMMA StackPush ==
  ASSUME NEW s \in Seq(Frames), NEW st, NEW L, StackOK(s, st, L),
         NEW f \in Frames, FrameOK(f, st, L),
         \A g \in Frames : Has(s, g) => PairOK(f, g),
         s # <<>> => NextOK(f, s[1], L)
  PROVE  StackOK(<<f>> \o s, st, L)
  <1> DEFINE t == <<f>> \o s
  <1>1. /\ Len(s) \in Nat /\ DOMAIN s = 1 .. Len(s) /\ DOMAIN t = 1 .. Len(s) + 1
        /\ t[1] = f /\ \A i \in 1 .. Len(s) : t[i + 1] = s[i] /\ s[i] \in Frames
    BY Cons
  <1> HIDE DEF t
  <1>2. \A i \in DOMAIN t : i = 1 \/ (i - 1 \in DOMAIN s /\ t[i] = s[i - 1])
    <2> SUFFICES ASSUME NEW i \in DOMAIN t, i # 1
                 PROVE  i - 1 \in DOMAIN s /\ t[i] = s[i - 1]
      OBVIOUS
    <2>1. i - 1 \in 1 .. Len(s) /\ (i - 1) + 1 = i
      BY <1>1
    <2> QED
      BY <1>1, <2>1
  <1>3. \A i \in DOMAIN t : FrameOK(t[i], st, L)
    BY <1>1, <1>2 DEF StackOK
  <1>4. \A i, j \in DOMAIN t : i < j => PairOK(t[i], t[j])
    <2> SUFFICES ASSUME NEW i \in DOMAIN t, NEW j \in DOMAIN t, i < j
                 PROVE  PairOK(t[i], t[j])
      OBVIOUS
    <2>1. j # 1 /\ i \in Int /\ j \in Int
      BY <1>1
    <2>2. j - 1 \in DOMAIN s /\ t[j] = s[j - 1] /\ t[j] \in Frames
      BY <1>1, <1>2, <2>1
    <2>3. CASE i = 1
      BY <1>1, <2>2, <2>3 DEF Has
    <2>4. CASE i # 1
      <3>1. i - 1 \in DOMAIN s /\ t[i] = s[i - 1] /\ i - 1 < j - 1
        BY <1>1, <1>2, <2>1, <2>4
      <3> QED
        BY <2>2, <3>1 DEF StackOK
    <2> QED
      BY <2>3, <2>4
  <1>5. \A i, j \in DOMAIN t : j = i + 1 => NextOK(t[i], t[j], L)
    <2> SUFFICES ASSUME NEW i \in DOMAIN t, NEW j \in DOMAIN t, j = i + 1
                 PROVE  NextOK(t[i], t[j], L)
      OBVIOUS
    <2>1. j # 1 /\ i \in Int /\ j \in Int
      BY <1>1
    <2>2. j - 1 \in DOMAIN s /\ t[j] = s[j - 1]
      BY <1>1, <1>2, <2>1
    <2>3. CASE i = 1
      <3>1. s # <<>> /\ t[j] = s[1]
        BY <1>1, <2>1, <2>2, <2>3
      <3> QED
        BY <1>1, <2>3, <3>1
    <2>4. CASE i # 1
      <3>1. i - 1 \in DOMAIN s /\ t[i] = s[i - 1] /\ j - 1 = (i - 1) + 1
        BY <1>1, <1>2, <2>1, <2>4
      <3> QED
        BY <2>2, <3>1 DEF StackOK
    <2> QED
      BY <2>3, <2>4
  <1>6. StackOK(t, st, L)
    BY <1>3, <1>4, <1>5 DEF StackOK
  <1> QED
    BY <1>6 DEF t

LEMMA StackMap ==
  ASSUME NEW s \in Seq(Frames), NEW st, NEW L, StackOK(s, st, L), NEW nst, NEW M,
         \A f \in Frames : Has(s, f) /\ f.kind = "thread" => nst[f.p] = st[f.p],
         \A f \in Frames : Has(s, f) /\ Exits(f) => nst[f.p] = st[f.p] /\ f.p \in M,
         \A f, g \in Frames : Has(s, f) /\ Has(s, g) /\ f.kind = "poll" /\ f.p \in L
                                 /\ g.kind \in {"thread", "exit", "unlink"} /\ g.p = f.p
                                 => f.p \in M
  PROVE  StackOK(s, nst, M)
  <1>1. \A i \in DOMAIN s : s[i] \in Frames /\ Has(s, s[i])
    BY ElementOfSeq, LenProperties DEF Has
  <1>2. \A i \in DOMAIN s : FrameOK(s[i], nst, M)
    <2> SUFFICES ASSUME NEW i \in DOMAIN s PROVE FrameOK(s[i], nst, M)
      OBVIOUS
    <2>1. FrameOK(s[i], st, L) /\ s[i] \in Frames /\ Has(s, s[i])
      BY <1>1 DEF StackOK
    <2> QED
      BY <2>1 DEF FrameOK
  <1>3. \A i, j \in DOMAIN s : j = i + 1 => NextOK(s[i], s[j], M)
    <2> SUFFICES ASSUME NEW i \in DOMAIN s, NEW j \in DOMAIN s, j = i + 1
                 PROVE  NextOK(s[i], s[j], M)
      OBVIOUS
    <2>1. NextOK(s[i], s[j], L)
      BY DEF StackOK
    <2>2. s[i] \in Frames /\ Has(s, s[i]) /\ s[j] \in Frames /\ Has(s, s[j])
      BY <1>1
    <2> QED
      BY <2>1, <2>2 DEF NextOK
  <1> QED
    BY <1>2, <1>3 DEF StackOK

-----------------------------------------------------------------------------
(* What the parts of the invariant rest on *)

\* The innermost frame and those below it.
LEMMA TopFacts ==
  ASSUME KInv, stack # <<>>
  PROVE  /\ Top \in Frames /\ Top = stack[1] /\ Tail(stack) \in Seq(Frames)
         /\ StackOK(Tail(stack), state, Ahead(First))
         /\ FrameOK(Top, state, Ahead(First))
         /\ \A g \in Frames : Has(Tail(stack), g) => PairOK(Top, g)
         /\ Tail(stack) # <<>> =>
              /\ NextOK(Top, Tail(stack)[1], Ahead(First))
              /\ Tail(stack)[1] \in Frames /\ Has(Tail(stack), Tail(stack)[1])
         /\ \A g : Has(stack, g) <=> g = Top \/ Has(Tail(stack), g)
  <1> DEFINE t == Tail(stack)
  <1>1. stack \in Seq(Frames) /\ StackOK(stack, state, Ahead(First))
    BY DEF KInv, Types
  <1>2. /\ t \in Seq(Frames) /\ stack[1] \in Frames
        /\ Len(stack) \in Nat /\ Len(stack) >= 1 /\ DOMAIN stack = 1 .. Len(stack)
        /\ DOMAIN t = 1 .. Len(stack) - 1
        /\ \A i \in 1 .. Len(stack) - 1 : t[i] = stack[i + 1]
    BY <1>1, Uncons
  <1>3. StackOK(t, state, Ahead(First))
    BY <1>1, StackPop
  <1>4. FrameOK(stack[1], state, Ahead(First))
    BY <1>1, <1>2 DEF StackOK
  <1>5. \A g \in Frames : Has(t, g) => PairOK(stack[1], g)
    <2> SUFFICES ASSUME NEW g \in Frames, Has(t, g) PROVE PairOK(stack[1], g)
      OBVIOUS
    <2>1. PICK i \in 1 .. Len(stack) - 1 : t[i] = g
      BY <1>2 DEF Has
    <2>2. i + 1 \in DOMAIN stack /\ 1 \in DOMAIN stack /\ 1 < i + 1 /\ stack[i + 1] = g
      BY <1>2, <2>1
    <2> QED
      BY <1>1, <2>2 DEF StackOK
  <1>6. ASSUME t # <<>>
        PROVE  NextOK(stack[1], t[1], Ahead(First)) /\ t[1] \in Frames /\ Has(t, t[1])
    <2>1. Len(stack) - 1 >= 1 /\ t[1] \in Frames
      BY <1>2, <1>6, Uncons
    <2>2. 1 \in DOMAIN t /\ 2 \in DOMAIN stack /\ 1 \in DOMAIN stack /\ t[1] = stack[2]
      BY <1>2, <2>1
    <2>3. NextOK(stack[1], stack[2], Ahead(First))
      <3>1. 2 = 1 + 1
        OBVIOUS
      <3> QED
        BY <1>1, <2>2, <3>1 DEF StackOK
    <2> QED
      BY <2>1, <2>2, <2>3 DEF Has
  <1>7. \A g : Has(stack, g) <=> g = stack[1] \/ Has(t, g)
    BY <1>1, HasUncons
  <1> HIDE DEF t
  <1>8. Top = stack[1]
    BY DEF Top
  <1>9. /\ stack[1] \in Frames /\ t \in Seq(Frames)
        /\ StackOK(t, state, Ahead(First)) /\ FrameOK(stack[1], state, Ahead(First))
        /\ \A g \in Frames : Has(t, g) => PairOK(stack[1], g)
        /\ t # <<>> => /\ NextOK(stack[1], t[1], Ahead(First))
                       /\ t[1] \in Frames /\ Has(t, t[1])
        /\ \A g : Has(stack, g) <=> g = stack[1] \/ Has(t, g)
    BY <1>2, <1>3, <1>4, <1>5, <1>6, <1>7
  <1> QED
    BY <1>8, <1>9 DEF t

\* Nobody exits while the main loop or a thread that may call the kernel is
\* innermost.
LEMMA NoExits ==
  ASSUME KInv, stack = <<>> \/ Base(Top) \/ Loud(Top)
  PROVE  /\ \A f \in Frames : Has(stack, f) => ~Exits(f)
         /\ \A p : ~Telling(p)
  <1>1. \A f \in Frames : Has(stack, f) => ~Exits(f)
    <2> SUFFICES ASSUME NEW f \in Frames, Has(stack, f), Exits(f) PROVE FALSE
      OBVIOUS
    <2>1. stack # <<>>
      <3>1. DOMAIN <<>> = {}
        OBVIOUS
      <3> QED
        BY <3>1 DEF Has
    <2>2. f = Top \/ PairOK(Top, f)
      BY <2>1, TopFacts
    <2> QED
      BY <2>1, <2>2 DEF PairOK, Base, Loud, Exits, Quiet
  <1>2. \A i \in DOMAIN stack : stack[i] \in Frames /\ Has(stack, stack[i])
    BY ElementOfSeq, LenProperties DEF Has, KInv, Types
  <1> QED
    BY <1>1, <1>2 DEF Telling, InStack, Has, Exits

\* Unless the list changes, what a walk has still to reach does not.
LEMMA AheadSame ==
  ASSUME nxt' = nxt PROVE \A x : Ahead(x)' = Ahead(x)
  BY DEF Ahead, Closed

LEMMA ListSame ==
  ASSUME KInv, nxt' = nxt, Types',
         StackOK(stack', state', Ahead(First)),
         TopOK(stack', process_current', nxt, Ahead(First)),
         \A p \in Procs : state'[p] # "none" => state[p] # "none" \/ Listed(p),
         EtimerRunsAlone', PollsKept', TimersOwned'
  PROVE  KInv'
  <1>1. Ahead(First)' = Ahead(First) /\ \A x : Ahead(x)' = Ahead(x)
    BY AheadSame
  <1>2. StackOK(stack, state, Ahead(First))'
    BY <1>1
  <1>3. TopOK(stack, process_current, nxt, Ahead(First))'
    BY <1>1
  <1>4. EndsAtEtimer'
    BY <1>1 DEF KInv, EndsAtEtimer, Node
  <1>5. RunningIsListed'
    BY <1>1 DEF KInv, RunningIsListed, Listed
  <1> QED
    BY <1>2, <1>3, <1>4, <1>5 DEF KInv

LEMMA KeepPolls ==
  ASSUME KInv,
         \A p \in Procs : asked'[p] =>
            asked[p] /\ needspoll'[p] = needspoll[p] /\ (state'[p] # "none" => state[p] # "none"),
         poll_requested' = poll_requested,
         \A p \in Procs, x \in Node :
            asked'[p] /\ state[p] # "none" /\ p \in Ahead(x) => p \in Ahead(x)',
         \A f \in Frames : Has(stack, f) /\ f.kind = "poll" => Has(stack', f)
  PROVE  PollsKept'
  <1>1. PollsKept
    BY DEF KInv
  <1>2. \A f \in Frames : Has(stack, f) /\ f.kind = "poll" => f.p \in Node
    <2>1. \A i \in DOMAIN stack : FrameOK(stack[i], state, Ahead(First))
      BY DEF KInv, StackOK
    <2> QED
      BY <2>1 DEF Has, FrameOK
  <1>3. ASSUME NEW p \in Procs, asked'[p], state'[p] # "none", ~poll_requested'
        PROVE  \E f \in Frames : InStack(f)' /\ f.kind = "poll" /\ p \in Ahead(f.p)'
    <2>1. PICK f \in Frames : Has(stack, f) /\ f.kind = "poll" /\ p \in Ahead(f.p)
      BY <1>1, <1>3 DEF PollsKept, InStack, Has
    <2>2. Has(stack', f) /\ p \in Ahead(f.p)'
      BY <1>2, <1>3, <2>1
    <2> QED
      BY <2>1, <2>2 DEF InStack, Has
  <1>4. \A p \in Procs : asked'[p] => needspoll'[p]
    BY <1>1 DEF PollsKept
  <1> QED
    BY <1>3, <1>4 DEF PollsKept

LEMMA KeepTimers ==
  ASSUME KInv, timerlist' = timerlist, timer_p' = timer_p,
         \A p \in Apps : state[p] # "none" \/ Telling(p) => state'[p] # "none" \/ Telling(p)'
  PROVE  TimersOwned'
  <1>1. TimersOwned
    BY DEF KInv
  <1>2. /\ \A i, j \in DOMAIN timerlist' : timerlist'[i] = timerlist'[j] => i = j
        /\ \A i \in DOMAIN timerlist' : timer_p'[timerlist'[i]] # NoProc
    BY <1>1 DEF TimersOwned
  <1>3. ASSUME NEW p \in Apps, NEW i \in DOMAIN timerlist', timer_p'[timerlist'[i]] = p
        PROVE  state'[p] # "none" \/ Telling(p)'
    BY <1>1, <1>3 DEF TimersOwned
  <1> QED
    BY <1>2, <1>3 DEF TimersOwned

-----------------------------------------------------------------------------
(* Calls and returns *)

States == [Procs -> {"none", "running", "called"}]

LEMMA FrameIs ==
  ASSUME NEW kind \in Kinds, NEW p \in Position, NEW q \in Position, NEW ev \in Evs,
         NEW back \in Procs \cup {NoProc}
  PROVE  LET f == Frame(kind, p, q, ev, back)
         IN  /\ f \in Frames /\ f.kind = kind /\ f.p = p /\ f.q = q /\ f.ev = ev
             /\ f.back = back
  BY DEF Frame, Frames

\* While another frame is innermost the event timer process waits.
LEMMA EtimerWaits ==
  ASSUME KInv, stack = <<>> \/ Top.kind # "thread" \/ Top.p # Etimer
  PROVE  state[Etimer] = "running"
  BY Names DEF KInv, Types, EtimerRunsAlone, Top

\* What a call of a thread needs of the frames rest below it, of the states st,
\* of the next pointers nx and the list L.
CanCall(p, ev, q, back, rest, st, nx, L) ==
  /\ p \in Procs /\ ev \in Evs /\ q \in Position /\ back \in Procs \cup {NoProc}
  /\ rest \in Seq(Frames) /\ st \in States /\ process_current \in Procs \cup {NoProc}
  /\ StackOK(rest, st, L) /\ TopOK(rest, process_current, nx, L)
  /\ st[Etimer] = "running"
  /\ p = Etimer => ev # "EXIT"
  /\ \A g \in Frames : Has(rest, g) =>
        /\ ~(g.kind = "thread" /\ g.p = Etimer)
        /\ Exits(g) => ev = "EXITED"
  /\ rest # <<>> => NextOK(Frame("thread", p, q, ev, back), rest[1], L)

\* A call of a thread, on top of frames that fit the states.
LEMMA CallOK ==
  ASSUME NEW p, NEW ev, NEW q, NEW back, NEW rest, NEW st, NEW nx, NEW L,
         CanCall(p, ev, q, back, rest, st, nx, L),
         CallProcess(p, ev, q, back, rest, st)
  PROVE  /\ stack' \in Seq(Frames) /\ state' \in States
         /\ process_current' \in Procs \cup {NoProc}
         /\ StackOK(stack', state', L) /\ TopOK(stack', process_current', nx, L)
         /\ EtimerRunsAlone'
         /\ \A r \in Procs : state'[r] = "none" <=> st[r] = "none"
         /\ \A g : Has(rest, g) => Has(stack', g)
         /\ st[p] = "running" =>
               stack' # <<>> /\ stack'[1] = Frame("thread", p, q, ev, back)
  <1> DEFINE f == Frame("thread", p, q, ev, back)
  <1>4. /\ p \in Procs /\ ev \in Evs /\ q \in Position /\ back \in Procs \cup {NoProc}
        /\ rest \in Seq(Frames) /\ st \in States /\ process_current \in Procs \cup {NoProc}
        /\ st[Etimer] = "running"
        /\ p = Etimer => ev # "EXIT"
    BY DEF CanCall
  <1>0. /\ StackOK(rest, st, L) /\ TopOK(rest, process_current, nx, L)
        /\ \A g \in Frames : Has(rest, g) =>
              /\ ~(g.kind = "thread" /\ g.p = Etimer)
              /\ Exits(g) => ev = "EXITED"
        /\ rest # <<>> => NextOK(f, rest[1], L)
    BY DEF CanCall
  <1>1. /\ f \in Frames /\ f.kind = "thread" /\ f.p = p /\ f.ev = ev
    <2>1. "thread" \in Kinds /\ p \in Position
      BY <1>4 DEF Kinds, Position
    <2> QED
      BY <1>4, <2>1, FrameIs
  <1>5. f = Frame("thread", p, q, ev, back)
    OBVIOUS
  <1> HIDE DEF f
  <1>2. CASE st[p] # "running"
    <2>1. state' = st /\ stack' = rest /\ process_current' = process_current
      BY <1>2 DEF CallProcess
    <2> QED
      BY <1>4, <1>0, <1>2, <2>1 DEF EtimerRunsAlone
  <1>3. CASE st[p] = "running"
    <2>1. /\ state' = [st EXCEPT ![p] = "called"] /\ stack' = <<f>> \o rest
          /\ process_current' = p
      BY <1>3, <1>5 DEF CallProcess
    <2>2. /\ state' \in States /\ state'[p] = "called"
          /\ \A r \in Procs : r # p => state'[r] = st[r]
      BY <1>4, <1>0, <2>1 DEF States
    <2>3. /\ stack' \in Seq(Frames) /\ stack' # <<>> /\ stack'[1] = f
      BY <1>4, <1>0, <1>1, <2>1, Cons
    <2>4. \A g \in Frames : Has(rest, g) => FrameOK(g, st, L)
      BY <1>0 DEF Has, StackOK
    <2>5. StackOK(rest, state', L)
      <3>1. \A g \in Frames : Has(rest, g) /\ g.kind = "thread" =>
                g.p \in Procs /\ g.p # p
        BY <1>3, <2>4 DEF FrameOK
      <3>2. \A g \in Frames : Has(rest, g) /\ Exits(g) => g.p \in Procs /\ g.p # p /\ g.p \in L
        BY <1>3, <2>4 DEF FrameOK, Procs
      <3>3. \A g \in Frames : Has(rest, g) /\ g.kind = "thread" => state'[g.p] = st[g.p]
        BY <2>2, <3>1
      <3>4. \A g \in Frames : Has(rest, g) /\ Exits(g) => state'[g.p] = st[g.p] /\ g.p \in L
        BY <2>2, <3>2
      <3> QED
        BY <1>4, <1>0, <3>3, <3>4, StackMap
    <2>6. FrameOK(f, state', L)
      BY <1>4, <1>0, <1>1, <2>2 DEF FrameOK, Exits
    <2>7. \A g \in Frames : Has(rest, g) => PairOK(f, g)
      <3> SUFFICES ASSUME NEW g \in Frames, Has(rest, g) PROVE PairOK(f, g)
        OBVIOUS
      <3>1. g.kind = "thread" => g.p # p
        BY <1>3, <2>4 DEF FrameOK
      <3>2. /\ ~(g.kind = "thread" /\ g.p = Etimer)
            /\ Exits(g) => Quiet(f)
        BY <1>4, <1>0, <1>1 DEF Quiet
      <3> QED
        BY <1>1, <3>1, <3>2, KernelAssumption DEF PairOK, Exits, Base
    <2>8. rest # <<>> => NextOK(f, rest[1], L)
      BY <1>0
    <2>9. StackOK(stack', state', L)
      BY <1>4, <1>0, <1>1, <2>1, <2>5, <2>6, <2>7, <2>8, StackPush
    <2>10. TopOK(stack', process_current', nx, L)
      BY <1>1, <2>1, <2>3 DEF TopOK, Loud
    <2>11. EtimerRunsAlone'
      <3>1. state'[Etimer] # "none"
        BY <1>4, <2>2, Names
      <3>2. p # Etimer => state'[Etimer] = "running"
        BY <1>4, <2>2, Names
      <3> QED
        BY <1>1, <2>3, <3>1, <3>2 DEF EtimerRunsAlone
    <2>12. \A r \in Procs : state'[r] = "none" <=> st[r] = "none"
      BY <1>3, <2>2
    <2>13. \A g : Has(rest, g) => Has(stack', g)
      BY <1>4, <1>0, <1>1, <2>1, HasCons
    <2>14. stack' # <<>> /\ stack'[1] = Frame("thread", p, q, ev, back)
      BY <2>3 DEF f
    <2>15. process_current' \in Procs \cup {NoProc}
      BY <1>4, <2>1
    <2> QED
      BY <2>2, <2>3, <2>9, <2>10, <2>11, <2>12, <2>13, <2>14, <2>15
  <1> QED
    BY <1>2, <1>3

\* What call_process restores.
Back == IF Top.back = NoProc THEN process_current ELSE Top.back

\* The frames below the thread that returns.
LEMMA BelowThread ==
  ASSUME KInv, Running("thread")
  PROVE  /\ Top \in Frames /\ Top.p \in Procs /\ state[Top.p] = "called"
         /\ Tail(stack) \in Seq(Frames) /\ StackOK(Tail(stack), state, Ahead(First))
         /\ \A g \in Frames : Has(Tail(stack), g) =>
              /\ g.kind = "thread" => g.p \in Procs /\ g.p # Top.p /\ g.p # Etimer
              /\ Exits(g) => g.p \in Procs /\ g.p # Top.p /\ g.p \in Ahead(First)
              /\ Exits(g) => Quiet(Top)
         /\ Tail(stack) # <<>> => NextOK(Top, Tail(stack)[1], Ahead(First))
         /\ Back \in Procs \cup {NoProc}
         /\ TopOK(Tail(stack), Back, nxt, Ahead(First))
         /\ \A g : g.kind # "thread" => (Has(stack, g) <=> Has(Tail(stack), g))
  <1> DEFINE t == Tail(stack)
  <1>1. stack # <<>> /\ Top.kind = "thread"
    BY DEF Running
  <1>2. /\ Top \in Frames /\ t \in Seq(Frames) /\ StackOK(t, state, Ahead(First))
        /\ FrameOK(Top, state, Ahead(First))
        /\ \A g \in Frames : Has(t, g) => PairOK(Top, g)
        /\ t # <<>> => NextOK(Top, t[1], Ahead(First)) /\ t[1] \in Frames
        /\ \A g : Has(stack, g) <=> g = Top \/ Has(t, g)
    BY <1>1, TopFacts
  <1> HIDE DEF t
  <1>3. Top.p \in Procs /\ state[Top.p] = "called"
    BY <1>1, <1>2 DEF FrameOK
  <1>4. \A g \in Frames : Has(t, g) => FrameOK(g, state, Ahead(First))
    BY <1>2 DEF Has, StackOK
  <1>5. ASSUME NEW g \in Frames, Has(t, g)
        PROVE  /\ g.kind = "thread" => g.p \in Procs /\ g.p # Top.p /\ g.p # Etimer
               /\ Exits(g) => g.p \in Procs /\ g.p # Top.p /\ g.p \in Ahead(First)
               /\ Exits(g) => Quiet(Top)
    <2>1. PairOK(Top, g) /\ FrameOK(g, state, Ahead(First))
      BY <1>2, <1>4, <1>5
    <2> QED
      BY <1>1, <1>3, <2>1 DEF PairOK, FrameOK, Procs
  <1>6. Back \in Procs \cup {NoProc}
    BY <1>2 DEF Back, Frames, KInv, Types
  <1>7. TopOK(t, Back, nxt, Ahead(First))
    <2> SUFFICES ASSUME t # <<>>
                 PROVE  /\ t[1].kind = "poll" => nxt[t[1].p] \in Ahead(First) \cup {NoProc}
                        /\ Loud(t[1]) => Back = t[1].p
      BY DEF TopOK
    <2>1. NextOK(Top, t[1], Ahead(First)) /\ t[1] \in Frames /\ FrameOK(t[1], state, Ahead(First))
      <3>1. Has(t, t[1])
        BY <1>2, Uncons DEF Has
      <3> QED
        BY <1>2, <1>4, <3>1
    <2>2. ASSUME t[1].kind = "poll" PROVE nxt[t[1].p] \in Ahead(First) \cup {NoProc}
      <3>1. t[1].p \in Ahead(First) /\ t[1].p \in Node
        BY <2>1, <2>2 DEF NextOK, FrameOK
      <3> QED
        BY <3>1, NextListed DEF KInv, Listed
    <2>3. ASSUME Loud(t[1]) PROVE Back = t[1].p
      <3>1. Top.back = t[1].p /\ t[1].p \in Procs
        BY <2>1, <2>3 DEF NextOK, FrameOK, Loud
      <3> QED
        BY <3>1, Names DEF Back
    <2> QED
      BY <2>2, <2>3
  <1>8. \A g : g.kind # "thread" => (Has(stack, g) <=> Has(t, g))
    BY <1>1, <1>2
  <1> QED
    BY <1>2, <1>3, <1>5, <1>6, <1>7, <1>8 DEF t

\* A thread yields to call_process.
LEMMA ReturnOK ==
  ASSUME KInv, Running("thread"), NEW p, p = Top.p, Top.ev # "EXIT", Returns(p, FALSE)
  PROVE  /\ stack' = Tail(stack) /\ stack' \in Seq(Frames) /\ state' \in States
         /\ process_current' \in Procs \cup {NoProc} /\ nxt' = nxt
         /\ StackOK(stack', state', Ahead(First))
         /\ TopOK(stack', process_current', nxt, Ahead(First))
         /\ EtimerRunsAlone'
         /\ \A r \in Procs : state'[r] = "none" <=> state[r] = "none"
         /\ \A g : g.kind # "thread" => (Has(stack, g) <=> Has(stack', g))
  <1>1. /\ Top.p \in Procs /\ state[Top.p] = "called" /\ state \in States
        /\ Top.kind = "thread" /\ stack # <<>>
    BY BelowThread DEF KInv, Types, States, Running
  <1>2. /\ state' = [state EXCEPT ![Top.p] = "running"] /\ stack' = Tail(stack)
        /\ process_current' = Back /\ nxt' = nxt
    BY <1>1 DEF Returns, Back
  <1>3. /\ state' \in States /\ state'[Top.p] = "running"
        /\ \A r \in Procs : r # Top.p => state'[r] = state[r]
    BY <1>1, <1>2 DEF States
  <1>4. /\ stack' \in Seq(Frames) /\ StackOK(stack', state, Ahead(First))
        /\ \A g \in Frames : Has(stack', g) /\ g.kind = "thread" => g.p \in Procs /\ g.p # Top.p
        /\ \A g \in Frames : Has(stack', g) /\ Exits(g) =>
              g.p \in Procs /\ g.p # Top.p /\ g.p \in Ahead(First)
    BY <1>2, BelowThread
  <1>5. StackOK(stack', state', Ahead(First))
    <2>1. \A g \in Frames : Has(stack', g) /\ g.kind = "thread" => state'[g.p] = state[g.p]
      BY <1>3, <1>4
    <2>2. \A g \in Frames : Has(stack', g) /\ Exits(g) =>
              state'[g.p] = state[g.p] /\ g.p \in Ahead(First)
      BY <1>3, <1>4
    <2> QED
      BY <1>4, <2>1, <2>2, StackMap
  <1>6. EtimerRunsAlone'
    <2>1. Top.p # Etimer => state[Etimer] = "running"
      BY EtimerWaits
    <2> QED
      BY <1>3, <2>1, Names DEF EtimerRunsAlone
  <1> QED
    BY <1>1, <1>2, <1>3, <1>4, <1>5, <1>6, BelowThread

\* A step that keeps the list, the polls, the events and the timers.
LEMMA StackStep ==
  ASSUME KInv, nxt' = nxt, UNCHANGED <<pollVars, timerVars>>,
         events' = events \/ EventsOK',
         stack' \in Seq(Frames), state' \in States,
         process_current' \in Procs \cup {NoProc},
         StackOK(stack', state', Ahead(First)),
         TopOK(stack', process_current', nxt, Ahead(First)),
         EtimerRunsAlone',
         \A r \in Procs : state'[r] # "none" => state[r] # "none",
         \A g \in Frames : Has(stack, g) /\ g.kind = "poll" => Has(stack', g),
         \A r \in Apps : state[r] # "none" \/ Telling(r) => state'[r] # "none" \/ Telling(r)'
  PROVE  KInv'
  <1>0. EventsOK'
    BY DEF KInv, Types, EventsOK
  <1>1. Types'
    BY <1>0 DEF KInv, Types, pollVars, timerVars, States
  <1>2. \A x : Ahead(x)' = Ahead(x)
    BY AheadSame
  <1>3. PollsKept'
    <2>1. needspoll' = needspoll /\ asked' = asked /\ poll_requested' = poll_requested
      BY DEF pollVars
    <2> QED
      BY <1>2, <2>1, KeepPolls
  <1>4. TimersOwned'
    BY KeepTimers DEF timerVars
  <1> QED
    BY <1>1, <1>3, <1>4, ListSame

\* Who is being told of an exit goes on being told, if the frames of the walks
\* stay.
LEMMA TellingKept ==
  ASSUME KInv, nxt' = nxt, stack = <<>> \/ Top.kind # "thread" \/ Top.p # Etimer,
         NEW r, Telling(r),
         \A g \in Frames : Has(stack, g) /\ g.kind = "exit" /\ g.p = r => Has(stack', g)
  PROVE  Telling(r)'
  <1>1. \A x : Ahead(x)' = Ahead(x)
    BY AheadSame
  <1>2. PICK f \in Frames : InStack(f) /\ f.kind = "exit" /\ f.p = r /\ Etimer \in Ahead(f.q)
    BY DEF Telling, Top
  <1>3. Has(stack', f)
    BY <1>2 DEF InStack, Has
  <1> QED
    BY <1>1, <1>2, <1>3 DEF Telling, InStack, Has

\* exit_process of a process that was not exiting.
LEMMA ExitOK ==
  ASSUME KInv, NEW p \in Apps, Listed(p), state[p] # "none",
         NEW from \in Procs, NEW back \in Procs \cup {NoProc}, NEW rest \in Seq(Frames),
         ExitProcess(p, from, back, rest),
         UNCHANGED <<pollVars, events, timerVars>>,
         StackOK(rest, state, Ahead(First)),
         \A g \in Frames : Has(rest, g) =>
              /\ g.kind = "thread" => g.p \in Procs /\ g.p # p /\ g.p # Etimer
              /\ Exits(g) => g.p \in Procs /\ g.p # p /\ g.p \in Ahead(First),
         rest # <<>> => NextOK(Frame("exit", p, First, from, back), rest[1], Ahead(First)),
         \A g \in Frames : Has(stack, g) /\ g.kind # "thread" => Has(rest, g),
         stack = <<>> \/ Top.kind # "thread" \/ Top.p # Etimer
  PROVE  KInv'
  <1> DEFINE f == Frame("exit", p, First, from, back)
  <1>0. p \in Procs /\ p # Etimer /\ state \in States
    BY Names DEF Procs, KInv, Types, States
  <1>1. /\ f \in Frames /\ f.kind = "exit" /\ f.p = p /\ f.q = First /\ f.ev = from
        /\ f.back = back
    <2>1. "exit" \in Kinds /\ p \in Position /\ First \in Position /\ from \in Evs
      BY <1>0 DEF Kinds, Position, Evs
    <2> QED
      BY <2>1, FrameIs
  <1>2. /\ state' = [state EXCEPT ![p] = "none"] /\ stack' = <<f>> \o rest /\ nxt' = nxt
        /\ process_current' = process_current
    BY DEF ExitProcess
  <1>3. state' \in States /\ state'[p] = "none" /\ \A r \in Procs : r # p => state'[r] = state[r]
    BY <1>0, <1>2 DEF States
  <1>4. /\ stack' \in Seq(Frames) /\ stack' # <<>> /\ stack'[1] = f
        /\ \A g : Has(stack', g) <=> (g = f \/ Has(rest, g))
    BY <1>1, <1>2, Cons, HasCons
  <1>5. rest # <<>> => NextOK(f, rest[1], Ahead(First))
    OBVIOUS
  <1> HIDE DEF f
  <1>6. StackOK(rest, state', Ahead(First))
    <2>1. \A g \in Frames : Has(rest, g) /\ g.kind = "thread" => state'[g.p] = state[g.p]
      BY <1>3
    <2>2. \A g \in Frames : Has(rest, g) /\ Exits(g) =>
              state'[g.p] = state[g.p] /\ g.p \in Ahead(First)
      BY <1>3
    <2> QED
      BY <2>1, <2>2, StackMap
  <1>7. FrameOK(f, state', Ahead(First))
    BY <1>1, <1>3 DEF FrameOK, Listed, Node
  <1>8. \A g \in Frames : Has(rest, g) => PairOK(f, g)
    BY <1>1 DEF PairOK, Base, Quiet, Exits
  <1>9. StackOK(stack', state', Ahead(First))
    BY <1>1, <1>2, <1>5, <1>6, <1>7, <1>8, StackPush
  <1>10. TopOK(stack', process_current', nxt, Ahead(First))
    BY <1>1, <1>4 DEF TopOK, Loud
  <1>11. EtimerRunsAlone'
    <2>1. state[Etimer] = "running"
      BY EtimerWaits
    <2>2. state'[Etimer] = "running"
      BY <1>0, <1>3, <2>1, Names
    <2> QED
      BY <2>2 DEF EtimerRunsAlone
  <1>12. ASSUME NEW r \in Apps, state[r] # "none" \/ Telling(r)
         PROVE  state'[r] # "none" \/ Telling(r)'
    <2>1. r \in Procs
      BY DEF Procs
    <2>2. ASSUME Telling(r) PROVE Telling(r)'
      BY <1>2, <1>4, <2>2, TellingKept
    <2>3. CASE r = p
      <3>1. Etimer \in Ahead(First)
        BY Names DEF KInv, EndsAtEtimer, Node
      <3>2. Etimer \in Ahead(First)'
        BY <1>2, <3>1, AheadSame
      <3>3. Has(stack', f)
        BY <1>4
      <3>4. \E g \in Frames : InStack(g)' /\ g.kind = "exit" /\ g.p = r /\ Etimer \in Ahead(g.q)'
        BY <1>1, <2>3, <3>2, <3>3 DEF InStack, Has
      <3> QED
        BY <3>4 DEF Telling
    <2>4. CASE r # p
      BY <1>3, <1>12, <2>1, <2>2, <2>4
    <2> QED
      BY <2>3, <2>4
  <1>13. process_current' \in Procs \cup {NoProc}
    BY <1>2 DEF KInv, Types
  <1>14. \A r \in Procs : state'[r] # "none" => state[r] # "none"
    BY <1>3
  <1>15. \A g \in Frames : Has(stack, g) /\ g.kind = "poll" => Has(stack', g)
    BY <1>4
  <1> QED
    BY <1>2, <1>3, <1>4, <1>9, <1>10, <1>11, <1>12, <1>13, <1>14, <1>15, StackStep

-----------------------------------------------------------------------------
(* What the thread of an application does *)

\* The thread of an exiting process returns to exit_process.
LEMMA ByeReturns ==
  ASSUME KInv, Running("bye"), NEW p, NEW ended, Returns(p, ended),
         UNCHANGED <<pollVars, events, timerVars>>
  PROVE  KInv'
  <1>1. stack # <<>> /\ Top.kind = "bye"
    BY DEF Running
  <1>2. stack' = Tail(stack) /\ nxt' = nxt /\ state' = state /\ process_current' = process_current
    BY <1>1 DEF Returns, listVars
  <1>3. /\ stack' \in Seq(Frames) /\ StackOK(stack', state, Ahead(First))
        /\ stack' # <<>> => NextOK(Top, stack'[1], Ahead(First))
        /\ \A g : Has(stack, g) <=> g = Top \/ Has(stack', g)
    BY <1>1, <1>2, TopFacts
  <1>4. TopOK(stack', process_current', nxt, Ahead(First))
    BY <1>1, <1>3 DEF TopOK, NextOK, Loud
  <1>5. EtimerRunsAlone'
    <2>1. state[Etimer] = "running"
      BY <1>1, EtimerWaits
    <2> QED
      BY <1>2, <2>1 DEF EtimerRunsAlone
  <1>6. \A r \in Apps : state[r] # "none" \/ Telling(r) => state'[r] # "none" \/ Telling(r)'
    BY <1>1, <1>2, <1>3, TellingKept
  <1>7. state' \in States /\ process_current' \in Procs \cup {NoProc}
    BY <1>2 DEF KInv, Types, States
  <1>8. \A g \in Frames : Has(stack, g) /\ g.kind = "poll" => Has(stack', g)
    BY <1>1, <1>3
  <1> QED
    BY <1>2, <1>3, <1>4, <1>5, <1>6, <1>7, <1>8, StackStep

LEMMA ThreadReturns ==
  ASSUME KInv, NEW p \in Apps, AppRuns(p), NEW ended \in BOOLEAN, Returns(p, ended),
         UNCHANGED <<pollVars, events, timerVars>>
  PROVE  KInv'
  <1>1. Running("bye") \/ Running("thread")
    BY DEF AppRuns, InThread, Running
  <1>2. CASE Running("bye")
    BY <1>2, ByeReturns
  <1>3. CASE Running("thread")
    <2>0. Top.p = p /\ p # Etimer /\ Top.kind = "thread" /\ stack # <<>>
      BY <1>3, Names DEF AppRuns, Running
    <2>1. CASE ended \/ Top.ev = "EXIT"
      <3>1. ExitProcess(p, p, Back, Tail(stack))
        BY <2>0, <2>1 DEF Returns, Back
      <3>2. /\ p \in Procs /\ state[p] = "called" /\ Back \in Procs \cup {NoProc}
            /\ Tail(stack) \in Seq(Frames) /\ StackOK(Tail(stack), state, Ahead(First))
            /\ \A g \in Frames : Has(Tail(stack), g) =>
                 /\ g.kind = "thread" => g.p \in Procs /\ g.p # p /\ g.p # Etimer
                 /\ Exits(g) => g.p \in Procs /\ g.p # p /\ g.p \in Ahead(First)
            /\ \A g \in Frames : Has(stack, g) /\ g.kind # "thread" => Has(Tail(stack), g)
        BY <1>3, <2>0, BelowThread
      <3>3. Listed(p)
        BY <3>2 DEF KInv, RunningIsListed
      <3>4. ASSUME Tail(stack) # <<>>
            PROVE  NextOK(Frame("exit", p, First, p, Back), Tail(stack)[1], Ahead(First))
        <4> DEFINE g == Tail(stack)[1]
        <4> DEFINE f == Frame("exit", p, First, p, Back)
        <4>1. NextOK(Top, g, Ahead(First)) /\ g \in Frames /\ Has(Tail(stack), g)
          BY <2>0, <3>4, TopFacts
        <4>2. f.kind = "exit" /\ f.p = p /\ f.back = Back
          <5>1. "exit" \in Kinds /\ p \in Position /\ First \in Position /\ p \in Evs
            BY <3>2 DEF Kinds, Position, Evs
          <5> QED
            BY <3>2, <5>1, FrameIs
        <4>3. Loud(g) => Back = g.p
          <5>1. TopOK(Tail(stack), Back, nxt, Ahead(First))
            BY <1>3, BelowThread
          <5> QED
            BY <3>4, <5>1 DEF TopOK
        <4> HIDE DEF f, g
        <4>4. NextOK(f, g, Ahead(First))
          BY <2>0, <4>1, <4>2, <4>3 DEF NextOK
        <4> QED
          BY <4>4 DEF f, g
      <3> QED
        BY <2>0, <3>1, <3>2, <3>3, <3>4, ExitOK
    <2>2. CASE ~ended /\ Top.ev # "EXIT"
      <3>1. Returns(p, FALSE)
        BY <2>2 DEF Returns
      <3>2. /\ stack' \in Seq(Frames) /\ state' \in States
            /\ process_current' \in Procs \cup {NoProc} /\ nxt' = nxt
            /\ StackOK(stack', state', Ahead(First))
            /\ TopOK(stack', process_current', nxt, Ahead(First))
            /\ EtimerRunsAlone'
            /\ \A r \in Procs : state'[r] = "none" <=> state[r] = "none"
            /\ \A g : g.kind # "thread" => (Has(stack, g) <=> Has(stack', g))
        BY <1>3, <2>0, <2>2, <3>1, ReturnOK
      <3>3. \A r \in Apps : state[r] # "none" \/ Telling(r) => state'[r] # "none" \/ Telling(r)'
        <4> SUFFICES ASSUME NEW r \in Apps, state[r] # "none" \/ Telling(r)
                     PROVE  state'[r] # "none" \/ Telling(r)'
          OBVIOUS
        <4>1. CASE state[r] # "none"
          BY <3>2, <4>1 DEF Procs
        <4>2. CASE Telling(r)
          BY <2>0, <3>2, <4>2, TellingKept
        <4> QED
          BY <4>1, <4>2
      <3>4. \A r \in Procs : state'[r] # "none" => state[r] # "none"
        BY <3>2
      <3>5. \A g \in Frames : Has(stack, g) /\ g.kind = "poll" => Has(stack', g)
        BY <3>2
      <3> QED
        BY <3>2, <3>3, <3>4, <3>5, StackStep
    <2> QED
      BY <2>1, <2>2
  <1> QED
    BY <1>1, <1>2, <1>3

-----------------------------------------------------------------------------
(* The main loop *)

\* Below a loop of the kernel there is nothing but such loops.
LEMMA BaseBelow ==
  ASSUME KInv, stack # <<>>, Base(Top)
  PROVE  /\ Top \in Frames /\ Tail(stack) \in Seq(Frames)
         /\ StackOK(Tail(stack), state, Ahead(First))
         /\ FrameOK(Top, state, Ahead(First))
         /\ \A g \in Frames : Has(Tail(stack), g) => Base(g)
         /\ TopOK(Tail(stack), process_current, nxt, Ahead(First))
         /\ \A g : Has(stack, g) <=> g = Top \/ Has(Tail(stack), g)
         /\ \A r : ~Telling(r)
         /\ \A f \in Frames : f.kind # "bye" /\ FrameOK(f, state, Ahead(First)) =>
              /\ <<f>> \o Tail(stack) \in Seq(Frames)
              /\ StackOK(<<f>> \o Tail(stack), state, Ahead(First))
  <1> DEFINE t == Tail(stack)
  <1>1. /\ Top \in Frames /\ t \in Seq(Frames) /\ StackOK(t, state, Ahead(First))
        /\ FrameOK(Top, state, Ahead(First))
        /\ \A g \in Frames : Has(t, g) => PairOK(Top, g)
        /\ t # <<>> => NextOK(Top, t[1], Ahead(First)) /\ t[1] \in Frames /\ Has(t, t[1])
        /\ \A g : Has(stack, g) <=> g = Top \/ Has(t, g)
    BY TopFacts
  <1> HIDE DEF t
  <1>2. \A g \in Frames : Has(t, g) => Base(g)
    BY <1>1 DEF PairOK
  <1>3. TopOK(t, process_current, nxt, Ahead(First))
    BY <1>1, <1>2 DEF TopOK, NextOK, Base, Loud
  <1>4. \A r : ~Telling(r)
    BY NoExits
  <1>5. ASSUME NEW f \in Frames, f.kind # "bye", FrameOK(f, state, Ahead(First))
        PROVE  <<f>> \o t \in Seq(Frames) /\ StackOK(<<f>> \o t, state, Ahead(First))
    <2>1. \A g \in Frames : Has(t, g) => PairOK(f, g)
      BY <1>2 DEF PairOK, Base, Exits
    <2>2. t # <<>> => NextOK(f, t[1], Ahead(First))
      BY <1>1, <1>2, <1>5 DEF NextOK, Base, Loud
    <2>3. StackOK(<<f>> \o t, state, Ahead(First))
      BY <1>1, <1>5, <2>1, <2>2, StackPush
    <2>4. <<f>> \o t \in Seq(Frames)
      BY <1>1, <1>5, Cons
    <2> QED
      BY <2>3, <2>4
  <1> QED
    BY <1>1, <1>2, <1>3, <1>4, <1>5 DEF t

\* The walk of do_poll starts, or would start, at the head of the list.
LEMMA PollStarts ==
  LET f == Frame("poll", First, NoProc, "-", NoProc)
  IN  /\ f \in Frames /\ f.kind = "poll" /\ f.p = First
      /\ \A st, L : FrameOK(f, st, L)
  <1> DEFINE f == Frame("poll", First, NoProc, "-", NoProc)
  <1>1. "poll" \in Kinds /\ First \in Position /\ NoProc \in Position /\ "-" \in Evs
    BY DEF Kinds, Position, Evs
  <1>2. f \in Frames /\ f.kind = "poll" /\ f.p = First
    BY <1>1, FrameIs
  <1> HIDE DEF f
  <1>3. \A st, L : FrameOK(f, st, L)
    BY <1>2 DEF FrameOK, Exits, Node
  <1> QED
    BY <1>2, <1>3 DEF f

LEMMA ProcessRunOK ==
  ASSUME KInv, ProcessRun PROVE KInv'
  <1>1. /\ stack = <<>> /\ nxt' = nxt /\ state' = state /\ needspoll' = needspoll
        /\ asked' = asked /\ events' = events /\ process_current' = process_current
        /\ timerlist' = timerlist /\ timer_p' = timer_p
    BY DEF ProcessRun, listVars, timerVars
  <1>2. \A x : Ahead(x)' = Ahead(x)
    BY <1>1, AheadSame
  <1>3. state[Etimer] = "running"
    BY <1>1, EtimerWaits
  <1>4. EtimerRunsAlone'
    BY <1>1, <1>3 DEF EtimerRunsAlone
  <1>5. TimersOwned'
    <2>1. \A r : ~Telling(r)
      BY <1>1, NoExits
    <2> QED
      BY <1>1, <2>1, KeepTimers
  <1>6. CASE poll_requested
    <2> DEFINE f == Frame("poll", First, NoProc, "-", NoProc)
    <2>1. f \in Frames /\ f.kind = "poll" /\ f.p = First /\ FrameOK(f, state', Ahead(First))
      BY PollStarts
    <2>2. stack' = <<f>> /\ poll_requested' = FALSE
      BY <1>6 DEF ProcessRun
    <2> HIDE DEF f
    <2>3. /\ stack' \in Seq(Frames) /\ stack' # <<>> /\ DOMAIN stack' = {1} /\ stack'[1] = f
      BY <2>1, <2>2
    <2>4. StackOK(stack', state', Ahead(First))
      <3>1. \A i, j \in DOMAIN stack' : ~(i < j) /\ j # i + 1
        BY <2>3
      <3> QED
        BY <2>1, <2>3, <3>1 DEF StackOK
    <2>5. TopOK(stack', process_current', nxt, Ahead(First))
      <3>1. nxt[First] \in Ahead(First) \cup {NoProc}
        BY NextListed DEF Node, KInv
      <3> QED
        BY <2>1, <2>3, <3>1 DEF TopOK, Loud
    <2>6. PollsKept'
      <3>1. \A p \in Procs : asked[p] => needspoll[p]
        BY DEF KInv, PollsKept
      <3>2. \A p \in Procs : state[p] # "none" => p \in Ahead(First)'
        BY <1>2 DEF KInv, RunningIsListed, Listed
      <3>3. InStack(f)'
        BY <2>3 DEF InStack
      <3> QED
        BY <1>1, <2>1, <3>1, <3>2, <3>3 DEF PollsKept
    <2>7. Types'
      BY <1>1, <2>2, <2>3 DEF KInv, Types, EventsOK
    <2>8. \A p \in Procs : state'[p] # "none" => state[p] # "none" \/ Listed(p)
      BY <1>1
    <2> QED
      BY <1>1, <1>4, <1>5, <2>4, <2>5, <2>6, <2>7, <2>8, ListSame
  <1>7. CASE ~poll_requested
    <2>1. stack' = stack /\ poll_requested' = poll_requested
      BY <1>7 DEF ProcessRun
    <2>2. PollsKept'
      BY <1>1, <1>2, <2>1, KeepPolls
    <2>3. Types'
      BY <1>1, <2>1 DEF KInv, Types, EventsOK
    <2>4. StackOK(stack', state', Ahead(First)) /\ TopOK(stack', process_current', nxt, Ahead(First))
      BY <1>1, <2>1 DEF KInv
    <2>5. \A p \in Procs : state'[p] # "none" => state[p] # "none" \/ Listed(p)
      BY <1>1
    <2> QED
      BY <1>1, <1>4, <1>5, <2>2, <2>3, <2>4, <2>5, ListSame
  <1> QED
    BY <1>6, <1>7

LEMMA DoPollOK ==
  ASSUME KInv, DoPoll PROVE KInv'
  <1> DEFINE p == nxt[Top.p]
  <1> DEFINE f == [Top EXCEPT !.p = p]
  <1>1. /\ stack # <<>> /\ Top.kind = "poll" /\ Base(Top)
        /\ nxt' = nxt /\ poll_requested' = poll_requested /\ events' = events
        /\ timerlist' = timerlist /\ timer_p' = timer_p
    BY DEF DoPoll, Running, Base, timerVars
  <1>2. /\ Top \in Frames /\ Tail(stack) \in Seq(Frames)
        /\ StackOK(Tail(stack), state, Ahead(First))
        /\ FrameOK(Top, state, Ahead(First))
        /\ \A g \in Frames : Has(Tail(stack), g) => Base(g)
        /\ TopOK(Tail(stack), process_current, nxt, Ahead(First))
        /\ \A g : Has(stack, g) <=> g = Top \/ Has(Tail(stack), g)
        /\ \A r : ~Telling(r)
        /\ FrameOK(f, state, Ahead(First)) /\ f \in Frames /\ f.kind # "bye" =>
              /\ <<f>> \o Tail(stack) \in Seq(Frames)
              /\ StackOK(<<f>> \o Tail(stack), state, Ahead(First))
    BY <1>1, BaseBelow
  <1>3. Top.p \in Node /\ p \in Ahead(First) \cup {NoProc}
    BY <1>1, <1>2 DEF FrameOK, KInv, TopOK, Top
  <1>4. \A x : Ahead(x)' = Ahead(x)
    BY <1>1, AheadSame
  <1>5. state[Etimer] = "running" /\ state \in States /\ process_current \in Procs \cup {NoProc}
    BY <1>1, EtimerWaits DEF KInv, Types, States, EventsOK
  <1>6. ASSUME \A r \in Procs : state'[r] # "none" => state[r] # "none" \/ Listed(r),
               \A r \in Procs : state[r] # "none" => state'[r] # "none",
               Types', StackOK(stack', state', Ahead(First)),
               TopOK(stack', process_current', nxt, Ahead(First)), EtimerRunsAlone', PollsKept'
        PROVE  KInv'
    <2>1. TimersOwned'
      BY <1>1, <1>2, <1>6, KeepTimers DEF Procs
    <2> QED
      BY <1>1, <1>6, <2>1, ListSame
  <1>7. CASE p = NoProc
    <2>1. /\ stack' = Tail(stack) /\ state' = state /\ needspoll' = needspoll /\ asked' = asked
          /\ process_current' = process_current
      BY <1>7 DEF DoPoll
    <2>2. Ahead(Top.p) = {}
      BY <1>3, <1>7, AheadStep DEF KInv
    <2>3. PollsKept'
      <3>1. ASSUME NEW r \in Procs, asked[r], state[r] # "none", ~poll_requested
            PROVE  \E g \in Frames : InStack(g)' /\ g.kind = "poll" /\ r \in Ahead(g.p)'
        <4>1. PICK g \in Frames : Has(stack, g) /\ g.kind = "poll" /\ r \in Ahead(g.p)
          BY <3>1 DEF KInv, PollsKept, InStack, Has
        <4>2. Has(stack', g) /\ r \in Ahead(g.p)'
          BY <1>2, <1>4, <2>1, <2>2, <4>1
        <4> QED
          BY <4>1, <4>2 DEF InStack, Has
      <3>2. \A r \in Procs : asked[r] => needspoll[r]
        BY DEF KInv, PollsKept
      <3> QED
        BY <1>1, <2>1, <3>1, <3>2 DEF PollsKept
    <2>4. Types'
      BY <1>1, <1>2, <2>1 DEF KInv, Types, EventsOK
    <2>5. EtimerRunsAlone'
      BY <1>5, <2>1 DEF EtimerRunsAlone
    <2> QED
      BY <1>2, <1>6, <2>1, <2>3, <2>4, <2>5
  <1>8. CASE p # NoProc
    <2>1. p \in Ahead(First) /\ p \in Procs /\ Ahead(Top.p) = {p} \cup Ahead(p)
      BY <1>3, <1>8, AheadStep DEF KInv
    <2>2. f \in Frames /\ f.kind = "poll" /\ f.p = p
      BY <1>1, <1>2, <2>1 DEF Frames, Position
    <2> HIDE DEF f, p
    <2>3. FrameOK(f, state, Ahead(First))
      BY <2>1, <2>2 DEF FrameOK, Exits, Node
    <2> DEFINE rest == <<f>> \o Tail(stack)
    <2>4. /\ rest \in Seq(Frames) /\ StackOK(rest, state, Ahead(First))
          /\ rest # <<>> /\ rest[1] = f
          /\ \A g : Has(rest, g) <=> (g = f \/ Has(Tail(stack), g))
      <3>1. rest \in Seq(Frames) /\ StackOK(rest, state, Ahead(First))
        BY <1>1, <2>2, <2>3, BaseBelow
      <3>2. rest # <<>> /\ rest[1] = f
        BY <1>2, <2>2, Cons
      <3>3. \A g : Has(rest, g) <=> (g = f \/ Has(Tail(stack), g))
        BY <1>2, <2>2, HasCons
      <3> QED
        BY <3>1, <3>2, <3>3
    <2>5. \A g \in Frames : Has(rest, g) => Base(g)
      BY <1>2, <2>2, <2>4 DEF Base
    <2>6. TopOK(rest, process_current, nxt, Ahead(First))
      <3>1. nxt[p] \in Ahead(First) \cup {NoProc}
        BY <2>1, NextListed DEF KInv, Node, Listed
      <3> QED
        BY <2>2, <2>4, <3>1 DEF TopOK, Loud
    <2>7. ASSUME \A r \in Procs : asked'[r] => r # p /\ asked[r] /\ needspoll'[r] = needspoll[r],
                 \A r \in Procs : r # p => (state'[r] = "none" <=> state[r] = "none"),
                 \A g : Has(rest, g) => Has(stack', g)
          PROVE  PollsKept'
      <3>1. ASSUME NEW r \in Procs, asked'[r], state'[r] # "none", ~poll_requested'
            PROVE  \E g \in Frames : Has(stack', g) /\ g.kind = "poll" /\ r \in Ahead(g.p)
        <4>1. PICK g \in Frames : Has(stack, g) /\ g.kind = "poll" /\ r \in Ahead(g.p)
          BY <1>1, <2>7, <3>1 DEF KInv, PollsKept, InStack, Has
        <4>2. CASE g = Top
          <5>1. r \in Ahead(p)
            BY <2>1, <2>7, <3>1, <4>1, <4>2
          <5> QED
            BY <2>2, <2>4, <2>7, <5>1
        <4>3. CASE g # Top
          BY <1>2, <2>4, <2>7, <4>1, <4>3
        <4> QED
          BY <4>2, <4>3
      <3>2. \A r \in Procs : asked'[r] => needspoll'[r]
        BY <2>7 DEF KInv, PollsKept
      <3>3. ASSUME NEW r \in Procs, asked'[r], state'[r] # "none", ~poll_requested'
            PROVE  \E g \in Frames : InStack(g)' /\ g.kind = "poll" /\ r \in Ahead(g.p)'
        <4>1. PICK g \in Frames : Has(stack', g) /\ g.kind = "poll" /\ r \in Ahead(g.p)
          BY <3>1, <3>3
        <4> QED
          BY <1>4, <4>1 DEF InStack, Has
      <3> QED
        BY <3>2, <3>3 DEF PollsKept
    <2>8. CASE ~needspoll[p]
      <3> HIDE DEF rest
      <3>1. /\ stack' = rest /\ state' = state /\ needspoll' = needspoll /\ asked' = asked
            /\ process_current' = process_current
        BY <1>8, <2>8 DEF DoPoll, rest, f, p
      <3>2. ~asked[p]
        BY <2>1, <2>8 DEF KInv, PollsKept
      <3>3. PollsKept'
        BY <2>7, <3>1, <3>2
      <3>4. Types'
        BY <1>1, <2>4, <3>1 DEF KInv, Types, EventsOK
      <3>5. EtimerRunsAlone'
        BY <1>5, <3>1 DEF EtimerRunsAlone
      <3> QED
        BY <1>6, <2>4, <2>6, <3>1, <3>3, <3>4, <3>5
    <2>9. CASE needspoll[p]
      <3> DEFINE st == [state EXCEPT ![p] = "running"]
      <3>1. /\ needspoll' = [needspoll EXCEPT ![p] = FALSE]
            /\ asked' = [asked EXCEPT ![p] = FALSE]
            /\ CallProcess(p, "POLL", NoProc, NoProc, rest, st)
        BY <1>8, <2>9 DEF DoPoll, f, p
      <3>2. /\ st \in States /\ st[p] = "running" /\ st[Etimer] = "running"
            /\ \A r \in Procs : r # p => st[r] = state[r]
        BY <1>5, <2>1, Names DEF States
      <3> HIDE DEF st, rest
      <3>3. StackOK(rest, st, Ahead(First))
        <4>1. \A g \in Frames : Has(rest, g) => g.kind # "thread" /\ ~Exits(g)
          BY <2>5 DEF Base, Exits
        <4> QED
          BY <2>4, <4>1, StackMap
      <3>4. "POLL" \in Evs /\ NoProc \in Position /\ "thread" \in Kinds /\ p \in Position
        BY <2>1 DEF Evs, Position, Kinds
      <3>5. NextOK(Frame("thread", p, NoProc, "POLL", NoProc), rest[1], Ahead(First))
        <4> DEFINE h == Frame("thread", p, NoProc, "POLL", NoProc)
        <4>1. h.kind = "thread" /\ h.p = p
          BY <3>4, FrameIs
        <4> HIDE DEF h
        <4>2. NextOK(h, f, Ahead(First))
          BY <2>1, <2>2, <4>1 DEF NextOK, Loud
        <4> QED
          BY <2>4, <4>2 DEF h
      <3>6. \A g \in Frames : Has(rest, g) =>
              /\ ~(g.kind = "thread" /\ g.p = Etimer)
              /\ Exits(g) => "POLL" = "EXITED"
        BY <2>5 DEF Base, Exits
      <3>20. CanCall(p, "POLL", NoProc, NoProc, rest, st, nxt, Ahead(First))
        BY <1>5, <2>1, <2>4, <2>6, <3>2, <3>3, <3>4, <3>5, <3>6 DEF CanCall
      <3>7. /\ stack' \in Seq(Frames) /\ state' \in States
            /\ process_current' \in Procs \cup {NoProc}
            /\ StackOK(stack', state', Ahead(First))
            /\ TopOK(stack', process_current', nxt, Ahead(First))
            /\ EtimerRunsAlone'
            /\ \A r \in Procs : state'[r] = "none" <=> st[r] = "none"
            /\ \A g : Has(rest, g) => Has(stack', g)
        BY <3>1, <3>20, CallOK
      <3>8. /\ \A r \in Procs : asked'[r] => r # p /\ asked[r] /\ needspoll'[r] = needspoll[r]
            /\ needspoll' \in [Procs -> BOOLEAN] /\ asked' \in [Procs -> BOOLEAN]
        BY <2>1, <3>1 DEF KInv, Types, EventsOK
      <3>9. \A r \in Procs : r # p => (state'[r] = "none" <=> state[r] = "none")
        BY <3>2, <3>7
      <3>10. PollsKept'
        BY <2>7, <3>7, <3>8, <3>9
      <3>11. Types'
        BY <1>1, <3>7, <3>8 DEF KInv, Types, States, EventsOK
      <3>12. \A r \in Procs : state'[r] # "none" => state[r] # "none" \/ Listed(r)
        BY <2>1, <3>9 DEF Listed
      <3>13. \A r \in Procs : state[r] # "none" => state'[r] # "none"
        BY <3>2, <3>7
      <3> QED
        BY <1>6, <3>7, <3>10, <3>11, <3>12, <3>13
    <2> QED
      BY <2>8, <2>9
  <1> QED
    BY <1>7, <1>8

LEMMA DoEventOK ==
  ASSUME KInv, DoEvent PROVE KInv'
  <1>1. /\ stack = <<>> /\ nxt' = nxt /\ UNCHANGED <<pollVars, timerVars>>
    BY DEF DoEvent
  <1>2. state[Etimer] = "running" /\ state \in States /\ process_current \in Procs \cup {NoProc}
    BY <1>1, EtimerWaits DEF KInv, Types, States
  <1>3. \A g : ~Has(stack, g) /\ ~Has(<<>>, g)
    <2>1. DOMAIN <<>> = {}
      OBVIOUS
    <2> QED
      BY <1>1, <2>1 DEF Has
  <1>4. \A r : ~Telling(r)
    BY <1>1, NoExits
  <1>5. <<>> \in Seq(Frames) /\ StackOK(<<>>, state, Ahead(First))
        /\ TopOK(<<>>, process_current, nxt, Ahead(First))
    <2>1. DOMAIN <<>> = {}
      OBVIOUS
    <2> QED
      BY <2>1 DEF StackOK, TopOK
  <1>6. CASE events = <<>>
    <2>1. stack' = <<>> /\ state' = state /\ process_current' = process_current /\ events' = events
      BY <1>1, <1>6 DEF DoEvent
    <2>2. EtimerRunsAlone'
      BY <1>2, <2>1 DEF EtimerRunsAlone
    <2> QED
      BY <1>1, <1>2, <1>3, <1>4, <1>5, <2>1, <2>2, StackStep
  <1>7. CASE events # <<>>
    <2> DEFINE e == events[1]
    <2>1. /\ e \in Events
          /\ e.p = Broadcast => e.ev = "CONTINUE"
      <3>1. events \in Seq(Events)
        BY DEF KInv, Types, EventsOK
      <3>2. 1 \in DOMAIN events /\ events[1] \in Events
        BY <1>7, <3>1, Uncons
      <3> QED
        BY <3>2 DEF KInv, Types, EventsOK
    <2>2. EventsOK'
      <3>1. events \in Seq(Events) /\ events' = Tail(events)
        BY <1>7 DEF KInv, Types, EventsOK, DoEvent
      <3>2. /\ Tail(events) \in Seq(Events)
            /\ Len(events) \in Nat /\ Len(events) >= 1 /\ DOMAIN events = 1 .. Len(events)
            /\ DOMAIN Tail(events) = 1 .. Len(events) - 1
            /\ \A i \in 1 .. Len(events) - 1 : Tail(events)[i] = events[i + 1]
        BY <1>7, <3>1, Uncons
      <3>3. \A i \in 1 .. Len(events) - 1 : i + 1 \in DOMAIN events
        BY <3>2
      <3> QED
        BY <3>1, <3>2, <3>3 DEF KInv, Types, EventsOK
    <2>3. CASE e.p = Broadcast
      <3> DEFINE f == Frame("bcast", First, NoProc, e.ev, NoProc)
      <3>1. stack' = <<f>> /\ state' = state /\ process_current' = process_current
        BY <1>7, <2>3 DEF DoEvent
      <3>2. /\ f \in Frames /\ f.kind = "bcast" /\ f.p = First /\ f.ev = "CONTINUE"
        <4>1. /\ "bcast" \in Kinds /\ First \in Position /\ NoProc \in Position
              /\ "CONTINUE" \in Evs /\ e.ev = "CONTINUE"
          BY <2>1, <2>3 DEF Kinds, Position, Evs
        <4> QED
          BY <4>1, FrameIs
      <3> HIDE DEF f
      <3>3. stack' \in Seq(Frames) /\ stack' # <<>> /\ DOMAIN stack' = {1} /\ stack'[1] = f
        BY <3>1, <3>2
      <3>4. StackOK(stack', state', Ahead(First))
        <4>1. FrameOK(f, state', Ahead(First))
          BY <3>2 DEF FrameOK, Exits, Node
        <4>2. \A i, j \in DOMAIN stack' : ~(i < j) /\ j # i + 1
          BY <3>3
        <4> QED
          BY <3>3, <4>1, <4>2 DEF StackOK
      <3>5. TopOK(stack', process_current', nxt, Ahead(First))
        BY <3>2, <3>3 DEF TopOK, Loud
      <3>6. EtimerRunsAlone'
        BY <1>2, <3>1 DEF EtimerRunsAlone
      <3>7. state' \in States /\ process_current' \in Procs \cup {NoProc}
            /\ \A r \in Procs : state'[r] = state[r]
        BY <1>2, <3>1
      <3> QED
        BY <1>1, <1>3, <1>4, <2>2, <3>3, <3>4, <3>5, <3>6, <3>7, StackStep DEF Procs
    <2>4. CASE e.p # Broadcast
      <3>1. CallProcess(e.p, e.ev, NoProc, NoProc, <<>>, state)
        BY <1>7, <2>4 DEF DoEvent
      <3>2. e.p \in Procs /\ e.p # Etimer /\ e.ev \in Evs /\ NoProc \in Position
        BY <2>1, <2>4, Names DEF Events, Evs, Procs, Position
      <3> HIDE DEF e
      <3>3. CanCall(e.p, e.ev, NoProc, NoProc, <<>>, state, nxt, Ahead(First))
        BY <1>2, <1>3, <1>5, <3>2 DEF CanCall
      <3>4. /\ stack' \in Seq(Frames) /\ state' \in States
            /\ process_current' \in Procs \cup {NoProc}
            /\ StackOK(stack', state', Ahead(First))
            /\ TopOK(stack', process_current', nxt, Ahead(First)) /\ EtimerRunsAlone'
            /\ \A r \in Procs : state'[r] = "none" <=> state[r] = "none"
        BY <3>1, <3>3, CallOK
      <3> QED
        BY <1>1, <1>3, <1>4, <2>2, <3>4, StackStep DEF Procs
    <2> QED
      BY <2>3, <2>4
  <1> QED
    BY <1>6, <1>7

LEMMA BroadcastDeliversOK ==
  ASSUME KInv, BroadcastDelivers PROVE KInv'
  <1> DEFINE f == [Top EXCEPT !.kind = "bcast"]
  <1> DEFINE rest == <<f>> \o Tail(stack)
  <1>1. /\ stack # <<>> /\ Top.kind = "deliver" /\ Base(Top) /\ nxt' = nxt /\ events' = events
        /\ UNCHANGED <<pollVars, timerVars>>
        /\ CallProcess(Top.p, Top.ev, NoProc, NoProc, rest, state)
    BY DEF BroadcastDelivers, Running, Base
  <1>2. /\ Top \in Frames /\ Tail(stack) \in Seq(Frames)
        /\ FrameOK(Top, state, Ahead(First))
        /\ \A g \in Frames : Has(Tail(stack), g) => Base(g)
        /\ \A g : Has(stack, g) <=> g = Top \/ Has(Tail(stack), g)
        /\ \A r : ~Telling(r)
    BY <1>1, BaseBelow
  <1>3. Top.p \in Procs /\ Top.ev = "CONTINUE"
    BY <1>1, <1>2 DEF FrameOK
  <1>4. f \in Frames /\ f.kind = "bcast" /\ f.p = Top.p /\ f.ev = "CONTINUE"
    BY <1>2, <1>3 DEF Frames, Kinds
  <1> HIDE DEF f
  <1>5. FrameOK(f, state, Ahead(First))
    BY <1>3, <1>4 DEF FrameOK, Exits, Node
  <1>6. rest \in Seq(Frames) /\ StackOK(rest, state, Ahead(First))
    BY <1>1, <1>4, <1>5, BaseBelow
  <1>7. rest # <<>> /\ rest[1] = f
    BY <1>2, <1>4, Cons
  <1>8. \A g : Has(rest, g) <=> (g = f \/ Has(Tail(stack), g))
    BY <1>2, <1>4, HasCons
  <1> HIDE DEF rest
  <1>9. \A g \in Frames : Has(rest, g) => Base(g)
    BY <1>2, <1>4, <1>8 DEF Base
  <1>10. TopOK(rest, process_current, nxt, Ahead(First))
    BY <1>4, <1>7 DEF TopOK, Loud
  <1>11. /\ state[Etimer] = "running" /\ state \in States
         /\ process_current \in Procs \cup {NoProc}
    BY <1>1, EtimerWaits DEF KInv, Types, States
  <1>12. Top.ev \in Evs /\ NoProc \in Position
    BY <1>3 DEF Evs, Position
  <1>13. CanCall(Top.p, Top.ev, NoProc, NoProc, rest, state, nxt, Ahead(First))
    <2>1. \A g \in Frames : Has(rest, g) => g.kind # "thread" /\ ~Exits(g)
      BY <1>9 DEF Base, Exits
    <2>2. NextOK(Frame("thread", Top.p, NoProc, Top.ev, NoProc), rest[1], Ahead(First))
      <3> DEFINE h == Frame("thread", Top.p, NoProc, Top.ev, NoProc)
      <3>1. h.kind = "thread"
        <4>1. "thread" \in Kinds /\ Top.p \in Position
          BY <1>3 DEF Kinds, Position
        <4> QED
          BY <1>12, <4>1, FrameIs
      <3> HIDE DEF h
      <3>2. NextOK(h, rest[1], Ahead(First))
        BY <1>4, <1>7, <3>1 DEF NextOK, Loud
      <3> QED
        BY <3>2 DEF h
    <2>3. Top.ev # "EXIT"
      BY <1>3
    <2> QED
      BY <1>3, <1>6, <1>10, <1>11, <1>12, <2>1, <2>2, <2>3 DEF CanCall
  <1>14. /\ stack' \in Seq(Frames) /\ state' \in States
         /\ process_current' \in Procs \cup {NoProc}
         /\ StackOK(stack', state', Ahead(First))
         /\ TopOK(stack', process_current', nxt, Ahead(First)) /\ EtimerRunsAlone'
         /\ \A r \in Procs : state'[r] = "none" <=> state[r] = "none"
         /\ \A g : Has(rest, g) => Has(stack', g)
    BY <1>1, <1>13, CallOK
  <1>15. \A g \in Frames : Has(stack, g) /\ g.kind = "poll" => Has(stack', g)
    BY <1>1, <1>2, <1>8, <1>14
  <1> QED
    BY <1>1, <1>2, <1>14, <1>15, StackStep DEF Procs

LEMMA BroadcastPollsOK ==
  ASSUME KInv, BroadcastPolls PROVE KInv'
  <1> DEFINE p == nxt[Top.p]
  <1> DEFINE f == [Top EXCEPT !.p = p, !.kind = "deliver"]
  <1>1. /\ stack # <<>> /\ Top.kind = "bcast" /\ Base(Top) /\ nxt' = nxt /\ events' = events
        /\ state' = state /\ process_current' = process_current
        /\ needspoll' = needspoll /\ asked' = asked
        /\ timerlist' = timerlist /\ timer_p' = timer_p /\ left' = left
    BY DEF BroadcastPolls, Running, Base, listVars, timerVars
  <1>2. /\ Top \in Frames /\ Tail(stack) \in Seq(Frames)
        /\ StackOK(Tail(stack), state, Ahead(First))
        /\ TopOK(Tail(stack), process_current, nxt, Ahead(First))
        /\ FrameOK(Top, state, Ahead(First))
        /\ \A g \in Frames : Has(Tail(stack), g) => Base(g)
        /\ \A g : Has(stack, g) <=> g = Top \/ Has(Tail(stack), g)
        /\ \A r : ~Telling(r)
    BY <1>1, BaseBelow
  <1>3. Top.p \in Node /\ Top.ev = "CONTINUE" /\ p \in Procs \cup {NoProc}
    BY <1>1, <1>2 DEF FrameOK, KInv, Types
  <1>4. /\ state[Etimer] = "running" /\ state \in States
        /\ process_current \in Procs \cup {NoProc}
    BY <1>1, EtimerWaits DEF KInv, Types, States
  <1>5. EtimerRunsAlone'
    BY <1>1, <1>4 DEF EtimerRunsAlone
  <1>6. CASE p = NoProc
    <2>1. stack' = Tail(stack) /\ poll_requested' = poll_requested
      BY <1>6 DEF BroadcastPolls
    <2>2. \A g \in Frames : Has(stack, g) /\ g.kind = "poll" => Has(stack', g)
      BY <1>1, <1>2, <2>1
    <2>3. UNCHANGED <<pollVars, timerVars>>
      BY <1>1, <2>1 DEF pollVars, timerVars
    <2> QED
      BY <1>1, <1>2, <1>4, <1>5, <2>1, <2>2, <2>3, StackStep
  <1>7. CASE p # NoProc
    <2>1. f \in Frames /\ f.kind = "deliver" /\ f.p = p /\ f.ev = "CONTINUE" /\ p \in Procs
      BY <1>2, <1>3, <1>7 DEF Frames, Kinds, Position
    <2>2. stack' = ((IF poll_requested
                     THEN <<Frame("poll", First, NoProc, "-", NoProc)>>
                     ELSE <<>>) \o <<f>>) \o Tail(stack) /\ poll_requested' = FALSE
      BY <1>7 DEF BroadcastPolls
    <2> HIDE DEF f, p
    <2> DEFINE rest == <<f>> \o Tail(stack)
    <2>3. FrameOK(f, state, Ahead(First))
      BY <2>1 DEF FrameOK, Exits
    <2>4. rest \in Seq(Frames) /\ StackOK(rest, state, Ahead(First))
      BY <1>1, <2>1, <2>3, BaseBelow
    <2>5. rest # <<>> /\ rest[1] = f
      BY <1>2, <2>1, Cons
    <2>6. \A g : Has(rest, g) <=> (g = f \/ Has(Tail(stack), g))
      <3>1. f \in Frames /\ Tail(stack) \in Seq(Frames)
        BY <1>2, <2>1
      <3> QED
        BY <3>1, HasCons
    <2>7. \A g \in Frames : Has(rest, g) => Base(g)
      BY <1>2, <2>1, <2>6 DEF Base
    <2>8. <<f>> \in Seq(Frames) /\ <<>> \in Seq(Frames)
      BY <2>1
    <2>9. \A g \in Frames : Has(stack, g) /\ g.kind = "poll" => Has(rest, g)
      BY <1>1, <1>2, <2>6
    <2>10. \A r \in Procs : asked[r] => needspoll[r]
      BY DEF KInv, PollsKept
    <2>11. CASE ~poll_requested
      <3>1. stack' = rest
        <4>1. <<>> \o <<f>> = <<f>>
          BY <2>8, ConcatEmptySeq
        <4> QED
          BY <2>2, <2>11, <4>1
      <3> HIDE DEF rest
      <3>2. TopOK(stack', process_current', nxt, Ahead(First))
        BY <2>1, <2>5, <3>1 DEF TopOK, Loud
      <3>3. UNCHANGED <<pollVars, timerVars>>
        <4>1. poll_requested \in BOOLEAN
          BY DEF KInv, Types
        <4> QED
          BY <1>1, <2>2, <2>11, <4>1 DEF pollVars, timerVars
      <3> QED
        BY <1>1, <1>2, <1>4, <1>5, <2>4, <2>9, <3>1, <3>2, <3>3, StackStep
    <2>12. CASE poll_requested
      <3> DEFINE h == Frame("poll", First, NoProc, "-", NoProc)
      <3>1. h \in Frames /\ h.kind = "poll" /\ h.p = First /\ FrameOK(h, state, Ahead(First))
        BY PollStarts
      <3>2. stack' = (<<h>> \o <<f>>) \o Tail(stack)
        BY <2>2, <2>12
      <3> HIDE DEF h
      <3>3. stack' = <<h>> \o rest
        <4>1. <<h>> \in Seq(Frames)
          BY <3>1
        <4> QED
          BY <1>2, <2>8, <3>2, <4>1, ConcatAssociative
      <3> HIDE DEF rest
      <3>4. /\ stack' \in Seq(Frames) /\ stack' # <<>> /\ stack'[1] = h
        BY <2>4, <3>1, <3>3, Cons
      <3>5. \A g : Has(stack', g) <=> (g = h \/ Has(rest, g))
        BY <2>4, <3>1, <3>3, HasCons
      <3>6. StackOK(stack', state', Ahead(First))
        <4>1. \A g \in Frames : Has(rest, g) => PairOK(h, g)
          BY <2>7, <3>1 DEF PairOK, Base, Exits
        <4>2. NextOK(h, rest[1], Ahead(First))
          BY <2>1, <2>5, <3>1 DEF NextOK, Loud
        <4>3. StackOK(<<h>> \o rest, state, Ahead(First))
          BY <2>4, <3>1, <4>1, <4>2, StackPush
        <4> QED
          BY <1>1, <3>3, <4>3
      <3>7. TopOK(stack', process_current', nxt, Ahead(First))
        <4>1. nxt[First] \in Ahead(First) \cup {NoProc}
          BY NextListed DEF KInv, Node
        <4> QED
          BY <3>1, <3>4, <4>1 DEF TopOK, Loud
      <3>8. PollsKept'
        <4>1. \A r \in Procs : state[r] # "none" => r \in Ahead(First)'
          BY <1>1, AheadSame DEF KInv, RunningIsListed, Listed
        <4>2. InStack(h)'
          BY <3>5 DEF InStack, Has
        <4> QED
          BY <1>1, <2>10, <3>1, <4>1, <4>2 DEF PollsKept
      <3>9. TimersOwned'
        BY <1>1, <1>2, KeepTimers
      <3>10. Types'
        BY <1>1, <2>2, <3>4 DEF KInv, Types, EventsOK
      <3>11. \A r \in Procs : state'[r] # "none" => state[r] # "none" \/ Listed(r)
        BY <1>1
      <3> QED
        BY <1>1, <1>5, <3>6, <3>7, <3>8, <3>9, <3>10, <3>11, ListSame
    <2> QED
      BY <2>11, <2>12
  <1> QED
    BY <1>6, <1>7

-----------------------------------------------------------------------------
(* exit_process *)

\* Below the walk of an exit: a frame of the same exit may take its place.
LEMMA ExitBelow ==
  ASSUME KInv, stack # <<>>, Exits(Top)
  PROVE  /\ Top \in Frames /\ Tail(stack) \in Seq(Frames)
         /\ Top.p \in Apps /\ Top.p \in Procs /\ Top.p # Etimer /\ Top.p # NoProc
         /\ state[Top.p] = "none" /\ Top.p \in Ahead(First)
         /\ Top.kind = "exit" => Top.q \in Node
         /\ \A g \in Frames : Has(Tail(stack), g) =>
              /\ g.kind = "thread" => g.p \in Procs /\ g.p # Etimer /\ state[g.p] = "called"
              /\ Exits(g) => g.p \in Procs /\ g.p # Top.p
         /\ \A g : Has(stack, g) <=> g = Top \/ Has(Tail(stack), g)
         /\ \A f \in Frames : Exits(f) /\ f.p = Top.p /\ f.back = Top.back
                                 /\ (f.kind = "exit" => f.q \in Node) =>
              /\ <<f>> \o Tail(stack) \in Seq(Frames)
              /\ StackOK(<<f>> \o Tail(stack), state, Ahead(First))
  <1> DEFINE t == Tail(stack)
  <1>1. /\ Top \in Frames /\ t \in Seq(Frames) /\ StackOK(t, state, Ahead(First))
        /\ FrameOK(Top, state, Ahead(First))
        /\ \A g \in Frames : Has(t, g) => PairOK(Top, g)
        /\ t # <<>> => NextOK(Top, t[1], Ahead(First)) /\ t[1] \in Frames /\ Has(t, t[1])
        /\ \A g : Has(stack, g) <=> g = Top \/ Has(t, g)
    BY TopFacts
  <1> HIDE DEF t
  <1>2. /\ Top.p \in Apps /\ state[Top.p] = "none" /\ Top.p \in Ahead(First)
        /\ Top.kind = "exit" => Top.q \in Node
    BY <1>1 DEF FrameOK
  <1>3. Top.p \in Procs /\ Top.p # Etimer /\ Top.p # NoProc
    BY <1>2, Names DEF Procs
  <1>4. \A g \in Frames : Has(t, g) => FrameOK(g, state, Ahead(First))
    BY <1>1 DEF Has, StackOK
  <1>5. \A g \in Frames : Has(t, g) =>
              /\ g.kind = "thread" => g.p \in Procs /\ g.p # Etimer /\ state[g.p] = "called"
              /\ Exits(g) => g.p \in Procs /\ g.p # Top.p
    BY <1>1, <1>4 DEF PairOK, FrameOK, Procs
  <1>6. ASSUME NEW f \in Frames, Exits(f), f.p = Top.p, f.back = Top.back,
               f.kind = "exit" => f.q \in Node
        PROVE  /\ <<f>> \o t \in Seq(Frames)
               /\ StackOK(<<f>> \o t, state, Ahead(First))
    <2>1. FrameOK(f, state, Ahead(First))
      BY <1>2, <1>6 DEF FrameOK, Exits
    <2>2. \A g \in Frames : Has(t, g) => PairOK(f, g)
      BY <1>1, <1>6 DEF PairOK, Exits, Base, Quiet
    <2>3. t # <<>> => NextOK(f, t[1], Ahead(First))
      BY <1>1, <1>6 DEF NextOK, Exits
    <2>4. <<f>> \o t \in Seq(Frames)
      BY <1>1, Cons
    <2>5. StackOK(<<f>> \o t, state, Ahead(First))
      BY <1>1, <2>1, <2>2, <2>3, StackPush
    <2> QED
      BY <2>4, <2>5
  <1> QED
    BY <1>1, <1>2, <1>3, <1>5, <1>6 DEF t

LEMMA ExitWalkOK ==
  ASSUME KInv, ExitWalk PROVE KInv'
  <1> DEFINE p == Top.p
  <1> DEFINE q == nxt[Top.q]
  <1>1. /\ stack # <<>> /\ Top.kind = "exit" /\ Exits(Top) /\ nxt' = nxt /\ events' = events
        /\ UNCHANGED <<pollVars, timerVars>>
    BY DEF ExitWalk, Running, Exits
  <1>2. /\ Top \in Frames /\ Tail(stack) \in Seq(Frames)
        /\ p \in Apps /\ p \in Procs /\ p # Etimer /\ p # NoProc
        /\ Top.q \in Node
        /\ \A g \in Frames : Has(Tail(stack), g) =>
              /\ g.kind = "thread" => g.p \in Procs /\ g.p # Etimer /\ state[g.p] = "called"
              /\ Exits(g) => g.p \in Procs /\ g.p # Top.p
        /\ \A g : Has(stack, g) <=> g = Top \/ Has(Tail(stack), g)
    BY <1>1, ExitBelow
  <1>3. /\ state[Etimer] = "running" /\ state \in States
        /\ process_current \in Procs \cup {NoProc}
    BY <1>1, EtimerWaits DEF KInv, Types, States
  <1>4. q \in Procs \cup {NoProc}
    BY <1>2 DEF KInv, Types
  <1>5. CASE q = NoProc
    <2> DEFINE end == Frame("unlink", p, NoProc, "-", Top.back)
    <2> DEFINE bye == Frame("bye", p, NoProc, "EXIT", NoProc)
    <2> DEFINE rest == <<end>> \o Tail(stack)
    <2>1. /\ end \in Frames /\ end.kind = "unlink" /\ end.p = Top.p /\ end.back = Top.back
          /\ bye \in Frames /\ bye.kind = "bye" /\ bye.p = p
      <3>1. /\ "unlink" \in Kinds /\ "bye" \in Kinds /\ p \in Position /\ NoProc \in Position
            /\ "-" \in Evs /\ "EXIT" \in Evs /\ Top.back \in Procs \cup {NoProc}
        BY <1>2 DEF Kinds, Position, Evs, Frames
      <3>2. /\ end \in Frames /\ end.kind = "unlink" /\ end.p = p /\ end.back = Top.back
        BY <3>1, FrameIs
      <3>3. bye \in Frames /\ bye.kind = "bye" /\ bye.p = p
        BY <3>1, FrameIs
      <3> QED
        BY <3>2, <3>3
    <2>2. /\ state' = state
          /\ \/ process_current' = p /\ stack' = <<bye, end>> \o Tail(stack)
             \/ process_current' = process_current /\ stack' = rest
      BY <1>5 DEF ExitWalk
    <2> HIDE DEF end, bye
    <2>3. rest \in Seq(Frames) /\ StackOK(rest, state, Ahead(First))
      BY <1>1, <2>1, ExitBelow DEF Exits
    <2>4. /\ rest # <<>> /\ rest[1] = end
          /\ \A g : Has(rest, g) <=> (g = end \/ Has(Tail(stack), g))
      <3>1. Tail(stack) \in Seq(Frames) /\ end \in Frames
        BY <1>2, <2>1
      <3>2. rest # <<>> /\ rest[1] = end
        BY <3>1, Cons
      <3>3. \A g : Has(rest, g) <=> (g = end \/ Has(Tail(stack), g))
        BY <3>1, HasCons
      <3> QED
        BY <3>2, <3>3
    <2> HIDE DEF rest
    <2>5. /\ stack' \in Seq(Frames) /\ StackOK(stack', state', Ahead(First))
          /\ TopOK(stack', process_current', nxt, Ahead(First))
          /\ \A g : Has(rest, g) => Has(stack', g)
          /\ process_current' \in Procs \cup {NoProc}
      <3>1. CASE process_current' = process_current /\ stack' = rest
        BY <1>3, <2>1, <2>2, <2>3, <2>4, <3>1 DEF TopOK, Loud
      <3>2. CASE process_current' = p /\ stack' = <<bye, end>> \o Tail(stack)
        <4>1. stack' = <<bye>> \o rest
          <5>1. /\ <<bye>> \in Seq(Frames) /\ <<end>> \in Seq(Frames)
                /\ <<bye, end>> = <<bye>> \o <<end>>
            BY <2>1
          <5>2. (<<bye>> \o <<end>>) \o Tail(stack) = <<bye>> \o (<<end>> \o Tail(stack))
            BY <1>2, <5>1, ConcatAssociative
          <5> QED
            BY <3>2, <5>1, <5>2 DEF rest
        <4>2. FrameOK(bye, state, Ahead(First))
          BY <1>2, <2>1 DEF FrameOK, Exits
        <4>3. \A g \in Frames : Has(rest, g) => PairOK(bye, g)
          BY <1>2, <2>1, <2>4 DEF PairOK, Exits, Base, Quiet
        <4>4. NextOK(bye, rest[1], Ahead(First))
          BY <2>1, <2>4 DEF NextOK, Loud
        <4>5. StackOK(<<bye>> \o rest, state, Ahead(First))
          BY <2>1, <2>3, <4>2, <4>3, <4>4, StackPush
        <4>6. /\ stack' \in Seq(Frames) /\ stack' # <<>> /\ stack'[1] = bye
              /\ \A g : Has(rest, g) => Has(stack', g)
          BY <2>1, <2>3, <4>1, Cons, HasCons
        <4>7. TopOK(stack', process_current', nxt, Ahead(First))
          BY <2>1, <4>6 DEF TopOK, Loud
        <4> QED
          BY <1>2, <2>2, <3>2, <4>1, <4>5, <4>6, <4>7
      <3> QED
        BY <2>2, <3>1, <3>2
    <2>6. EtimerRunsAlone'
      BY <1>3, <2>2 DEF EtimerRunsAlone
    <2>7. \A g \in Frames : Has(stack, g) /\ g.kind = "poll" => Has(stack', g)
      BY <1>1, <1>2, <2>4, <2>5
    <2>8. ASSUME NEW r \in Apps, Telling(r) PROVE Telling(r)'
      <3>1. PICK g \in Frames : Has(stack, g) /\ g.kind = "exit" /\ g.p = r
                                  /\ Etimer \in Ahead(g.q)
        BY <1>1, <2>8 DEF Telling, InStack, Has, Top
      <3>2. g # Top
        <4>1. Ahead(Top.q) = {}
          BY <1>2, <1>5, AheadStep DEF KInv
        <4> QED
          BY <3>1, <4>1
      <3>3. Has(stack', g)
        BY <1>2, <2>4, <2>5, <3>1, <3>2
      <3>4. Etimer \in Ahead(g.q)'
        BY <1>1, <3>1, AheadSame
      <3> QED
        BY <3>1, <3>3, <3>4 DEF Telling, InStack, Has
    <2>9. state' \in States /\ \A r \in Procs : state'[r] = state[r]
      BY <1>3, <2>2
    <2> QED
      BY <1>1, <2>5, <2>6, <2>7, <2>8, <2>9, StackStep DEF Procs
  <1>6. CASE q # NoProc
    <2> DEFINE f == [Top EXCEPT !.q = q]
    <2> DEFINE rest == <<f>> \o Tail(stack)
    <2>1. /\ f \in Frames /\ f.kind = "exit" /\ f.p = Top.p /\ f.back = Top.back /\ f.q = q
          /\ q \in Procs /\ q \in Node
      BY <1>1, <1>2, <1>4, <1>6 DEF Frames, Position, Node
    <2>2. \/ q # p /\ CallProcess(q, "EXITED", p, NoProc, rest, state)
          \/ q = p /\ stack' = rest /\ state' = state /\ process_current' = process_current
      BY <1>6 DEF ExitWalk
    <2>3. Ahead(Top.q) = {q} \cup Ahead(q)
      BY <1>2, <1>6, AheadStep DEF KInv
    <2> HIDE DEF f, q
    <2>4. rest \in Seq(Frames) /\ StackOK(rest, state, Ahead(First))
      BY <1>1, <2>1, ExitBelow DEF Exits
    <2>5. /\ rest # <<>> /\ rest[1] = f
          /\ \A g : Has(rest, g) <=> (g = f \/ Has(Tail(stack), g))
      <3>1. Tail(stack) \in Seq(Frames) /\ f \in Frames
        BY <1>2, <2>1
      <3>2. rest # <<>> /\ rest[1] = f
        BY <3>1, Cons
      <3>3. \A g : Has(rest, g) <=> (g = f \/ Has(Tail(stack), g))
        BY <3>1, HasCons
      <3> QED
        BY <3>2, <3>3
    <2> HIDE DEF rest
    <2>6. TopOK(rest, process_current, nxt, Ahead(First))
      BY <2>1, <2>5 DEF TopOK, Loud
    <2>7. \A g \in Frames : Has(rest, g) => ~(g.kind = "thread" /\ g.p = Etimer)
      BY <1>2, <2>1, <2>5
    <2> DEFINE h == Frame("thread", q, p, "EXITED", NoProc)
    <2>8. h.kind = "thread" /\ h.p = q /\ h.q = p /\ h.ev = "EXITED"
      <3>1. "thread" \in Kinds /\ p \in Position /\ q \in Position /\ "EXITED" \in Evs
        BY <1>2, <2>1 DEF Kinds, Position, Evs
      <3> QED
        BY <3>1, FrameIs
    <2>9. h = Frame("thread", q, p, "EXITED", NoProc)
      OBVIOUS
    <2> HIDE DEF h
    <2>10. CanCall(q, "EXITED", p, NoProc, rest, state, nxt, Ahead(First))
      <3>1. p \in Position /\ "EXITED" \in Evs
        BY <1>2 DEF Position, Evs
      <3>2. NextOK(h, rest[1], Ahead(First))
        BY <2>1, <2>5, <2>8 DEF NextOK, Loud
      <3> QED
        BY <1>3, <2>1, <2>4, <2>6, <2>7, <2>9, <3>1, <3>2 DEF CanCall
    <2>11. /\ stack' \in Seq(Frames) /\ state' \in States
           /\ process_current' \in Procs \cup {NoProc}
           /\ StackOK(stack', state', Ahead(First))
           /\ TopOK(stack', process_current', nxt, Ahead(First)) /\ EtimerRunsAlone'
           /\ \A r \in Procs : state'[r] = "none" <=> state[r] = "none"
           /\ \A g : Has(rest, g) => Has(stack', g)
           /\ q # p /\ state[q] = "running" => stack' # <<>> /\ stack'[1] = h
      <3>1. CASE q # p
        <4>1. CallProcess(q, "EXITED", p, NoProc, rest, state)
          BY <2>2, <3>1
        <4> QED
          BY <2>9, <2>10, <4>1, CallOK
      <3>2. CASE q = p
        <4>1. stack' = rest /\ state' = state /\ process_current' = process_current
          BY <2>2, <3>2
        <4>2. EtimerRunsAlone'
          BY <1>3, <4>1 DEF EtimerRunsAlone
        <4> QED
          BY <1>3, <2>4, <2>6, <3>2, <4>1, <4>2
      <3> QED
        BY <3>1, <3>2
    <2>12. \A g \in Frames : Has(stack, g) /\ g.kind = "poll" => Has(stack', g)
      BY <1>1, <1>2, <2>5, <2>11
    <2>13. ASSUME NEW r \in Apps, Telling(r) PROVE Telling(r)'
      <3>1. PICK g \in Frames : Has(stack, g) /\ g.kind = "exit" /\ g.p = r
                                  /\ Etimer \in Ahead(g.q)
        BY <1>1, <2>13 DEF Telling, InStack, Has, Top
      <3>2. CASE g # Top
        <4>1. Has(stack', g)
          BY <1>2, <2>5, <2>11, <3>1, <3>2
        <4>2. Etimer \in Ahead(g.q)'
          BY <1>1, <3>1, AheadSame
        <4> QED
          BY <3>1, <4>1, <4>2 DEF Telling, InStack, Has
      <3>3. CASE g = Top /\ q # Etimer
        <4>1. /\ Has(stack', f) /\ f.kind = "exit" /\ f.p = r /\ Etimer \in Ahead(f.q)
          BY <2>1, <2>3, <2>5, <2>11, <3>1, <3>3
        <4>2. \E k \in Frames : Has(stack', k) /\ k.kind = "exit" /\ k.p = r
                                  /\ Etimer \in Ahead(k.q)
          BY <2>1, <4>1
        <4>3. PICK k \in Frames : Has(stack', k) /\ k.kind = "exit" /\ k.p = r
                                    /\ Etimer \in Ahead(k.q)
          BY <4>2
        <4>4. Etimer \in Ahead(k.q)'
          BY <1>1, <4>3, AheadSame
        <4> QED
          BY <4>3, <4>4 DEF Telling, InStack, Has
      <3>4. CASE g = Top /\ q = Etimer
        <4>1. stack' # <<>> /\ stack'[1] = h
          BY <1>2, <1>3, <2>11, <3>4
        <4>2. stack'[1].kind = "thread" /\ stack'[1].p = Etimer /\ stack'[1].ev = "EXITED"
              /\ stack'[1].q = r
          BY <2>8, <3>1, <3>4, <4>1
        <4>3. PICK i \in DOMAIN stack' : stack'[i] = f
          BY <2>5, <2>11 DEF Has
        <4>4. i > 1 /\ stack'[i].kind = "exit" /\ stack'[i].p = r
          <5>1. i # 1
            BY <2>1, <2>8, <4>1, <4>3
          <5>2. DOMAIN stack' = 1 .. Len(stack') /\ Len(stack') \in Nat
            BY <2>11, LenProperties
          <5> QED
            BY <2>1, <3>1, <3>4, <4>3, <5>1, <5>2
        <4> QED
          BY <4>1, <4>2, <4>4 DEF Telling
      <3> QED
        BY <3>2, <3>3, <3>4
    <2> QED
      BY <1>1, <2>11, <2>12, <2>13, StackStep DEF Procs
  <1> QED
    BY <1>5, <1>6

LEMMA UnlinkOK ==
  ASSUME KInv, Unlink PROVE KInv'
  <1> DEFINE p == Top.p
  <1>1. /\ stack # <<>> /\ Top.kind = "unlink" /\ Exits(Top)
        /\ nxt' = Unlinked(Top.p) /\ process_current' = Top.back /\ stack' = Tail(stack)
        /\ state' = state /\ events' = events
        /\ needspoll' = needspoll /\ asked' = asked /\ poll_requested' = poll_requested
        /\ timerlist' = timerlist /\ timer_p' = timer_p
    BY DEF Unlink, Running, Exits, pollVars, timerVars
  <1>2. /\ Top \in Frames /\ Tail(stack) \in Seq(Frames)
        /\ p \in Apps /\ p \in Procs /\ p # Etimer /\ p # NoProc
        /\ state[p] = "none" /\ p \in Ahead(First)
        /\ \A g \in Frames : Has(Tail(stack), g) =>
              /\ g.kind = "thread" => g.p \in Procs /\ g.p # Etimer /\ state[g.p] = "called"
              /\ Exits(g) => g.p \in Procs /\ g.p # Top.p
        /\ \A g : Has(stack, g) <=> g = Top \/ Has(Tail(stack), g)
    BY <1>1, ExitBelow
  <1>3. /\ nxt' \in [Node -> Procs \cup {NoProc}] /\ nxt'[p] = nxt[p]
        /\ \A x \in Node : \A r \in Ahead(x) \ {p} : r \in Ahead(x)'
        /\ EndsAtEtimer'
    BY <1>1, <1>2, UnlinkKeeps DEF KInv
  <1>4. /\ StackOK(Tail(stack), state, Ahead(First))
        /\ Tail(stack) # <<>> => /\ NextOK(Top, Tail(stack)[1], Ahead(First))
                                 /\ Has(Tail(stack), Tail(stack)[1]) /\ Tail(stack)[1] \in Frames
    BY <1>1, TopFacts
  <1>5. First \in Node
    BY DEF Node
  <1>6. \A g \in Frames : Has(Tail(stack), g) => FrameOK(g, state, Ahead(First))
    BY <1>4 DEF Has, StackOK
  <1>7. \A r \in Ahead(First) : r # p => r \in Ahead(First)'
    BY <1>3, <1>5
  <1> HIDE DEF p
  <1>8. p = Top.p
    BY DEF p
  <1>9. StackOK(stack, state, Ahead(First))'
    <2> DEFINE M == Ahead(First)'
    <2> DEFINE t == Tail(stack)
    <2>1. \A g \in Frames : Has(t, g) /\ g.kind = "thread" => state[g.p] = state[g.p]
      OBVIOUS
    <2>2. \A g \in Frames : Has(t, g) /\ Exits(g) => state[g.p] = state[g.p] /\ g.p \in M
      BY <1>2, <1>6, <1>7, <1>8 DEF FrameOK
    <2>3. \A g, h \in Frames :
             Has(t, g) /\ Has(t, h) /\ g.kind = "poll" /\ g.p \in Ahead(First)
               /\ h.kind \in {"thread", "exit", "unlink"} /\ h.p = g.p => g.p \in M
      <3> SUFFICES ASSUME NEW g \in Frames, NEW h \in Frames, Has(t, h), g.p \in Ahead(First),
                          h.kind \in {"thread", "exit", "unlink"}, h.p = g.p
                   PROVE  g.p \in M
        OBVIOUS
      <3>1. h.p # p
        <4>1. CASE h.kind = "thread"
          BY <1>2, <4>1
        <4>2. CASE Exits(h)
          BY <1>2, <1>8, <4>2
        <4> QED
          BY <4>1, <4>2 DEF Exits
      <3> QED
        BY <1>7, <3>1
    <2> HIDE DEF M, t
    <2>4. StackOK(t, state, M)
      <3>1. t \in Seq(Frames) /\ StackOK(t, state, Ahead(First))
        BY <1>2, <1>4 DEF t
      <3> QED
        BY <2>1, <2>2, <2>3, <3>1, StackMap
    <2> QED
      BY <1>1, <2>4 DEF M, t
  <1>10. TopOK(stack, process_current, nxt, Ahead(First))'
    <2> DEFINE t == Tail(stack)
    <2>0. t = stack'
      BY <1>1
    <2>1. ASSUME t # <<>>, t[1].kind = "poll" PROVE nxt'[t[1].p] \in Ahead(First)' \cup {NoProc}
      <3>1. t[1].p = p /\ t[1].p \in Ahead(First)
        BY <1>1, <1>4, <1>8, <2>1 DEF NextOK
      <3>2. p \in Node /\ Listed(p)
        BY <1>2 DEF Node, Listed
      <3>3. nxt[p] \in Ahead(First) \cup {NoProc}
        BY <3>2, NextListed DEF KInv
      <3>4. nxt[p] # p
        <4>1. p \notin Ahead(p)
          BY <3>2, NoLoop DEF KInv
        <4> QED
          BY <1>2, <3>2, <4>1, AheadStep DEF KInv
      <3>5. nxt'[p] \in Ahead(First)' \cup {NoProc}
        BY <1>3, <1>7, <3>3, <3>4
      <3> QED
        BY <3>1, <3>5
    <2>2. ASSUME t # <<>>, Loud(t[1]) PROVE process_current' = t[1].p
      BY <1>1, <1>4, <2>2 DEF NextOK
    <2> HIDE DEF t
    <2>3. TopOK(stack', process_current', nxt', Ahead(First)')
      BY <2>0, <2>1, <2>2 DEF TopOK
    <2> QED
      BY <2>3
  <1>11. Types'
    BY <1>1, <1>2, <1>3 DEF KInv, Types, EventsOK, Frames
  <1>12. RunningIsListed'
    BY <1>1, <1>2, <1>7 DEF KInv, RunningIsListed, Listed
  <1>13. EtimerRunsAlone'
    <2>1. state[Etimer] = "running"
      BY <1>1, EtimerWaits
    <2> QED
      BY <1>1, <2>1 DEF EtimerRunsAlone
  <1>14. PollsKept'
    <2>1. \A r \in Procs, x \in Node : asked'[r] /\ state[r] # "none" /\ r \in Ahead(x)
                                          => r \in Ahead(x)'
      BY <1>2, <1>3
    <2>2. \A g \in Frames : Has(stack, g) /\ g.kind = "poll" => Has(stack', g)
      BY <1>1, <1>2
    <2> QED
      BY <1>1, <2>1, <2>2, KeepPolls
  <1>15. TimersOwned'
    <2>1. ASSUME NEW r \in Apps, Telling(r) PROVE Telling(r)'
      <3>1. PICK g \in Frames : Has(stack, g) /\ g.kind = "exit" /\ g.p = r
                                  /\ Etimer \in Ahead(g.q)
        BY <1>1, <2>1 DEF Telling, InStack, Has, Top
      <3>2. Has(stack', g) /\ Has(Tail(stack), g)
        BY <1>1, <1>2, <3>1
      <3>3. g.q \in Node
        BY <1>6, <3>1, <3>2 DEF FrameOK
      <3>4. Etimer \in Ahead(g.q)'
        BY <1>2, <1>3, <3>1, <3>3
      <3> QED
        BY <3>1, <3>2, <3>4 DEF Telling, InStack, Has
    <2> QED
      BY <1>1, <2>1, KeepTimers
  <1> QED
    BY <1>3, <1>9, <1>10, <1>11, <1>12, <1>13, <1>14, <1>15 DEF KInv

-----------------------------------------------------------------------------
(* The calls that threads and interrupts make *)

LEMMA Caller ==
  ASSUME KInv, NEW p \in Apps, Calls(p)
  PROVE  /\ stack # <<>> /\ Loud(Top) /\ Top.kind = "thread" /\ Top.p = p
         /\ p \in Procs /\ p # Etimer /\ p # NoProc
         /\ process_current = p /\ state[p] = "called"
         /\ stack \in Seq(Frames) /\ StackOK(stack, state, Ahead(First))
         /\ \A g \in Frames : Has(stack, g) =>
              /\ ~(g.kind = "thread" /\ g.p = Etimer)
              /\ ~Exits(g)
         /\ \A r : ~Telling(r)
         /\ state[Etimer] = "running"
  <1>1. /\ stack # <<>> /\ Loud(Top) /\ Top.kind = "thread" /\ Top.p = p
    BY DEF Calls, AppRuns, InThread, Loud
  <1>2. p \in Procs /\ p # Etimer /\ p # NoProc
    BY Names DEF Procs
  <1>3. /\ FrameOK(Top, state, Ahead(First))
        /\ \A g \in Frames : Has(Tail(stack), g) => PairOK(Top, g)
        /\ \A g : Has(stack, g) <=> g = Top \/ Has(Tail(stack), g)
    BY <1>1, TopFacts
  <1>4. state[p] = "called"
    BY <1>1, <1>3 DEF FrameOK
  <1>5. process_current = p
    BY <1>1 DEF KInv, TopOK, Top
  <1>6. \A g \in Frames : Has(stack, g) => ~(g.kind = "thread" /\ g.p = Etimer)
    BY <1>1, <1>2, <1>3 DEF PairOK
  <1>7. /\ \A g \in Frames : Has(stack, g) => ~Exits(g)
        /\ \A r : ~Telling(r)
    BY <1>1, NoExits
  <1>8. state[Etimer] = "running"
    BY <1>1, <1>2, EtimerWaits
  <1> QED
    BY <1>1, <1>2, <1>4, <1>5, <1>6, <1>7, <1>8 DEF KInv, Types

\* An accepted poll will be served.
LEMMA PolledOK ==
  ASSUME KInv, NEW p \in Procs, PollProcess(p) \/ UNCHANGED pollVars, nxt' = nxt,
         \A r \in Procs : state'[r] # "none" => state[r] # "none",
         \A f \in Frames : Has(stack, f) /\ f.kind = "poll" => Has(stack', f)
  PROVE  /\ PollsKept'
         /\ needspoll' \in [Procs -> BOOLEAN] /\ asked' \in [Procs -> BOOLEAN]
         /\ poll_requested' \in BOOLEAN
  <1>1. needspoll \in [Procs -> BOOLEAN] /\ asked \in [Procs -> BOOLEAN]
        /\ poll_requested \in BOOLEAN
    BY DEF KInv, Types
  <1>2. CASE UNCHANGED pollVars
    <2>1. needspoll' = needspoll /\ asked' = asked /\ poll_requested' = poll_requested
      BY <1>2 DEF pollVars
    <2>2. \A x : Ahead(x)' = Ahead(x)
      BY AheadSame
    <2>3. PollsKept'
      BY <2>1, <2>2, KeepPolls
    <2> QED
      BY <1>1, <2>1, <2>3
  <1>3. CASE ~UNCHANGED pollVars
    <2>1. /\ needspoll' = [needspoll EXCEPT ![p] = TRUE] /\ poll_requested' = TRUE
          /\ asked' = [asked EXCEPT ![p] = TRUE]
      BY <1>3 DEF PollProcess
    <2>2. \A r \in Procs : asked'[r] => needspoll'[r]
      BY <1>1, <2>1 DEF KInv, PollsKept
    <2>3. PollsKept'
      BY <2>1, <2>2 DEF PollsKept
    <2> QED
      BY <1>1, <2>1, <2>3
  <1> QED
    BY <1>2, <1>3

\* A step that leaves the stack, the list and the states.
LEMMA OtherStep ==
  ASSUME KInv, NEW p \in Procs, PollProcess(p) \/ UNCHANGED pollVars,
         nxt' = nxt, state' = state, stack' = stack, process_current' = process_current,
         EventsOK', timerlist' \in Seq(Timers), timer_p' \in [Timers -> Apps \cup {NoProc}],
         TimersOwned'
  PROVE  KInv'
  <1>1. /\ PollsKept'
        /\ needspoll' \in [Procs -> BOOLEAN] /\ asked' \in [Procs -> BOOLEAN]
        /\ poll_requested' \in BOOLEAN
    BY PolledOK
  <1>2. Types'
    BY <1>1 DEF KInv, Types
  <1>3. EtimerRunsAlone'
    BY DEF KInv, EtimerRunsAlone
  <1>4. /\ StackOK(stack', state', Ahead(First))
        /\ TopOK(stack', process_current', nxt, Ahead(First))
    BY DEF KInv
  <1>5. \A r \in Procs : state'[r] # "none" => state[r] # "none" \/ Listed(r)
    OBVIOUS
  <1> QED
    BY <1>1, <1>2, <1>3, <1>4, <1>5, ListSame

LEMMA SameTelling ==
  ASSUME nxt' = nxt, stack' = stack PROVE \A r : Telling(r)' <=> Telling(r)
  BY AheadSame DEF Telling, InStack

\* ... and the timers.
LEMMA TimersSame ==
  ASSUME KInv, nxt' = nxt, state' = state, stack' = stack,
         timerlist' = timerlist, timer_p' = timer_p
  PROVE  /\ timerlist' \in Seq(Timers) /\ timer_p' \in [Timers -> Apps \cup {NoProc}]
         /\ TimersOwned'
  <1>1. \A r : Telling(r)' <=> Telling(r)
    BY SameTelling
  <1>2. TimersOwned'
    BY <1>1, KeepTimers
  <1> QED
    BY <1>2 DEF KInv, Types

LEMMA AppendEvent ==
  ASSUME KInv, NEW e \in Events, e.p = Broadcast => e.ev = "CONTINUE", events' = Append(events, e)
  PROVE  EventsOK'
  <1>1. events \in Seq(Events) /\ Len(events) \in Nat /\ DOMAIN events = 1 .. Len(events)
    BY LenProperties DEF KInv, Types, EventsOK
  <1>2. /\ events' \in Seq(Events) /\ Len(events') = Len(events) + 1
        /\ \A i \in 1 .. Len(events) : events'[i] = events[i]
        /\ events'[Len(events) + 1] = e
    BY <1>1, AppendProperties
  <1>3. DOMAIN events' = 1 .. Len(events) + 1
    BY <1>2, LenProperties
  <1>4. ASSUME NEW i \in DOMAIN events', events'[i].p = Broadcast PROVE events'[i].ev = "CONTINUE"
    <2>1. CASE i = Len(events) + 1
      BY <1>2, <1>4, <2>1
    <2>2. CASE i # Len(events) + 1
      <3>1. i \in DOMAIN events
        BY <1>1, <1>3, <2>2
      <3> QED
        BY <1>1, <1>2, <1>4, <3>1 DEF KInv, Types, EventsOK
    <2> QED
      BY <2>1, <2>2
  <1> QED
    BY <1>2, <1>4 DEF EventsOK

LEMMA PostOK ==
  ASSUME KInv, NEW p \in Apps, NEW to \in Apps \cup {Broadcast}, NEW ev \in {"EXIT", "CONTINUE"},
         to = Broadcast => ev = "CONTINUE", Post(p, to, ev)
  PROVE  KInv'
  <1>1. /\ nxt' = nxt /\ state' = state /\ stack' = stack /\ process_current' = process_current
        /\ UNCHANGED pollVars /\ timerlist' = timerlist /\ timer_p' = timer_p
        /\ events' = Append(events, [p |-> to, ev |-> ev])
    BY DEF Post, listVars, timerVars
  <1>2. EventsOK'
    BY <1>1, AppendEvent DEF Events
  <1> QED
    BY <1>1, <1>2, Names, TimersSame, OtherStep

LEMMA SameEvents ==
  ASSUME KInv, events' = events PROVE EventsOK'
  BY DEF KInv, Types, EventsOK

LEMMA PollingOK ==
  ASSUME KInv, NEW r \in Procs, PollProcess(r) \/ UNCHANGED pollVars,
         UNCHANGED <<listVars, events, process_current, timerlist, timer_p, stack>>
  PROVE  KInv'
  <1>1. /\ nxt' = nxt /\ state' = state /\ stack' = stack /\ process_current' = process_current
        /\ timerlist' = timerlist /\ timer_p' = timer_p /\ events' = events
    BY DEF listVars
  <1> QED
    BY <1>1, SameEvents, TimersSame, OtherStep

LEMMA ProcessPollOK ==
  ASSUME KInv, NEW p \in Apps, NEW r \in Apps, ProcessPoll(p, r) \/ InterruptPolls(r)
  PROVE  KInv'
  BY PollingOK DEF ProcessPoll, InterruptPolls, timerVars, Procs

LEMMA TickOK ==
  ASSUME KInv, Tick PROVE KInv'
  BY Names, PollingOK DEF Tick

LEMMA PostSynchOK ==
  ASSUME KInv, NEW p \in Apps, NEW to \in Apps, PostSynch(p, to) PROVE KInv'
  <1>1. /\ Calls(p) /\ nxt' = nxt /\ events' = events /\ UNCHANGED <<pollVars, timerVars>>
        /\ CallProcess(to, "CONTINUE", NoProc, process_current, stack, state)
    BY DEF PostSynch
  <1>2. /\ stack # <<>> /\ Loud(Top) /\ Top.kind = "thread" /\ Top.p = p
        /\ p \in Procs /\ process_current = p
        /\ stack \in Seq(Frames) /\ StackOK(stack, state, Ahead(First))
        /\ \A g \in Frames : Has(stack, g) => ~(g.kind = "thread" /\ g.p = Etimer) /\ ~Exits(g)
        /\ \A r : ~Telling(r)
        /\ state[Etimer] = "running"
    BY <1>1, Caller
  <1>3. /\ to \in Procs /\ to # Etimer /\ "CONTINUE" \in Evs /\ NoProc \in Position
        /\ state \in States
    BY Names DEF Procs, Evs, Position, KInv, Types, States
  <1>4. CanCall(to, "CONTINUE", NoProc, process_current, stack, state, nxt, Ahead(First))
    <2>1. NextOK(Frame("thread", to, NoProc, "CONTINUE", process_current), stack[1], Ahead(First))
      <3> DEFINE h == Frame("thread", to, NoProc, "CONTINUE", process_current)
      <3>1. h.kind = "thread" /\ h.back = p
        <4>1. "thread" \in Kinds /\ to \in Position
          BY <1>3 DEF Kinds, Position
        <4> QED
          BY <1>2, <1>3, <4>1, FrameIs
      <3> HIDE DEF h
      <3>2. NextOK(h, stack[1], Ahead(First))
        BY <1>2, <3>1 DEF NextOK, Top
      <3> QED
        BY <3>2 DEF h
    <2>2. TopOK(stack, process_current, nxt, Ahead(First))
      BY DEF KInv
    <2> QED
      BY <1>2, <1>3, <2>1, <2>2 DEF CanCall
  <1>5. /\ stack' \in Seq(Frames) /\ state' \in States
        /\ process_current' \in Procs \cup {NoProc}
        /\ StackOK(stack', state', Ahead(First))
        /\ TopOK(stack', process_current', nxt, Ahead(First)) /\ EtimerRunsAlone'
        /\ \A r \in Procs : state'[r] = "none" <=> state[r] = "none"
        /\ \A g : Has(stack, g) => Has(stack', g)
    BY <1>1, <1>4, CallOK
  <1> QED
    BY <1>1, <1>2, <1>5, StackStep DEF Procs

LEMMA ProcessStartOK ==
  ASSUME KInv, NEW p \in Apps, NEW r \in Apps, ProcessStart(p, r) PROVE KInv'
  <1> DEFINE st == [state EXCEPT ![r] = "running"]
  <1>1. /\ Calls(p) /\ ~Listed(r) /\ nxt' = [nxt EXCEPT ![r] = nxt[First], ![First] = r]
        /\ CallProcess(r, "INIT", NoProc, process_current, stack, st)
        /\ asked' = [asked EXCEPT ![r] = FALSE]
        /\ needspoll' = needspoll /\ poll_requested' = poll_requested /\ events' = events
        /\ timerlist' = timerlist /\ timer_p' = timer_p
    BY DEF ProcessStart, timerVars
  <1>2. /\ stack # <<>> /\ Loud(Top) /\ Top.kind = "thread" /\ Top.p = p
        /\ p \in Procs /\ process_current = p
        /\ stack \in Seq(Frames) /\ StackOK(stack, state, Ahead(First))
        /\ \A g \in Frames : Has(stack, g) => ~(g.kind = "thread" /\ g.p = Etimer) /\ ~Exits(g)
        /\ \A q : ~Telling(q)
        /\ state[Etimer] = "running"
    BY <1>1, Caller
  <1>3. /\ nxt' \in [Node -> Procs \cup {NoProc}]
        /\ Listed(r)'
        /\ \A x \in Node : \A q \in Ahead(x) \cap Ahead(First) : q \in Ahead(x)'
        /\ EndsAtEtimer'
    BY <1>1, StartKeeps DEF KInv
  <1>4. /\ r \in Procs /\ r # Etimer /\ "INIT" \in Evs /\ NoProc \in Position
        /\ First \in Node
    BY Names DEF Procs, Evs, Position, Node
  <1>5. state[r] = "none"
    BY <1>1, <1>4 DEF KInv, RunningIsListed
  <1>6. /\ st \in States /\ st[r] = "running" /\ \A q \in Procs : q # r => st[q] = state[q]
    BY <1>4 DEF KInv, Types, States
  <1>7. Ahead(First) \subseteq Ahead(First)'
    BY <1>3, <1>4
  <1>8. \A g \in Frames : Has(stack, g) => FrameOK(g, state, Ahead(First))
    BY <1>2 DEF Has, StackOK
  <1> HIDE DEF st
  <1>9. CanCall(r, "INIT", NoProc, process_current, stack, st, nxt', Ahead(First)')
    <2>1. StackOK(stack, st, Ahead(First)')
      <3> DEFINE M == Ahead(First)'
      <3>1. \A g \in Frames : Has(stack, g) /\ g.kind = "thread" => st[g.p] = state[g.p]
        BY <1>5, <1>6, <1>8 DEF FrameOK
      <3>2. \A g \in Frames : Has(stack, g) /\ Exits(g) => st[g.p] = state[g.p] /\ g.p \in M
        BY <1>2
      <3>3. \A g \in Frames : g.p \in Ahead(First) => g.p \in M
        BY <1>7
      <3> HIDE DEF M
      <3>4. StackOK(stack, st, M)
        BY <1>2, <3>1, <3>2, <3>3, StackMap
      <3> QED
        BY <3>4 DEF M
    <2>2. NextOK(Frame("thread", r, NoProc, "INIT", process_current), stack[1], Ahead(First)')
      <3> DEFINE h == Frame("thread", r, NoProc, "INIT", process_current)
      <3> DEFINE M == Ahead(First)'
      <3>1. h.kind = "thread" /\ h.back = p
        <4>1. "thread" \in Kinds /\ r \in Position
          BY <1>4 DEF Kinds, Position
        <4> QED
          BY <1>2, <1>4, <4>1, FrameIs
      <3> HIDE DEF h, M
      <3>2. NextOK(h, stack[1], M)
        BY <1>2, <3>1 DEF NextOK, Top
      <3> QED
        BY <3>2 DEF h, M
    <2>3. TopOK(stack, process_current, nxt', Ahead(First)')
      BY <1>2 DEF KInv, TopOK, Top
    <2>4. st[Etimer] = "running"
      BY <1>2, <1>4, <1>6, Names
    <2> QED
      BY <1>2, <1>4, <1>6, <2>1, <2>2, <2>3, <2>4 DEF CanCall
  <1>10. /\ stack' \in Seq(Frames) /\ state' \in States
         /\ process_current' \in Procs \cup {NoProc}
         /\ StackOK(stack', state', Ahead(First)')
         /\ TopOK(stack', process_current', nxt', Ahead(First)') /\ EtimerRunsAlone'
         /\ \A q \in Procs : state'[q] = "none" <=> st[q] = "none"
         /\ \A g : Has(stack, g) => Has(stack', g)
    <2> DEFINE M == Ahead(First)'
    <2> DEFINE nx == nxt'
    <2>1. CanCall(r, "INIT", NoProc, process_current, stack, st, nx, M)
      BY <1>9
    <2> HIDE DEF M, nx
    <2>2. /\ stack' \in Seq(Frames) /\ state' \in States
          /\ process_current' \in Procs \cup {NoProc}
          /\ StackOK(stack', state', M)
          /\ TopOK(stack', process_current', nx, M) /\ EtimerRunsAlone'
          /\ \A q \in Procs : state'[q] = "none" <=> st[q] = "none"
          /\ \A g : Has(stack, g) => Has(stack', g)
      BY <1>1, <2>1, CallOK
    <2> QED
      BY <2>2 DEF M, nx
  <1>11. \A q \in Procs : q # r => (state'[q] = "none" <=> state[q] = "none")
    BY <1>6, <1>10
  <1>12. asked' \in [Procs -> BOOLEAN] /\ \A q \in Procs : asked'[q] => q # r /\ asked[q]
    BY <1>1, <1>4 DEF KInv, Types
  <1>13. Types'
    BY <1>1, <1>3, <1>10, <1>12 DEF KInv, Types, EventsOK, States
  <1>14. RunningIsListed'
    <2>1. \A q \in Procs : q # r /\ state'[q] # "none" => q \in Ahead(First)'
      BY <1>7, <1>11 DEF KInv, RunningIsListed, Listed
    <2> QED
      BY <1>3, <2>1 DEF RunningIsListed, Listed
  <1>15. PollsKept'
    <2>1. \A q \in Procs, x \in Node : asked'[q] /\ state[q] # "none" /\ q \in Ahead(x)
                                          => q \in Ahead(x)'
      BY <1>3 DEF KInv, RunningIsListed, Listed
    <2>2. \A q \in Procs : asked'[q] =>
             asked[q] /\ needspoll'[q] = needspoll[q] /\ (state'[q] # "none" => state[q] # "none")
      BY <1>1, <1>11, <1>12
    <2> QED
      BY <1>1, <1>10, <2>1, <2>2, KeepPolls
  <1>16. TimersOwned'
    <2>1. \A q \in Apps : state[q] # "none" => state'[q] # "none"
      BY <1>5, <1>11 DEF Procs
    <2> QED
      BY <1>1, <1>2, <2>1, KeepTimers
  <1> QED
    BY <1>3, <1>10, <1>13, <1>14, <1>15, <1>16 DEF KInv

LEMMA ProcessExitOK ==
  ASSUME KInv, NEW p \in Apps, NEW r \in Apps, ProcessExit(p, r) PROVE KInv'
  <1>1. /\ Calls(p) /\ ~OnStack(r) /\ ExitProcess(r, process_current, process_current, stack)
        /\ UNCHANGED <<pollVars, events, timerVars>>
        /\ events' = events /\ needspoll' = needspoll /\ asked' = asked
        /\ poll_requested' = poll_requested /\ timerlist' = timerlist /\ timer_p' = timer_p
    BY DEF ProcessExit, pollVars, timerVars
  <1>2. /\ stack # <<>> /\ Loud(Top) /\ Top.kind = "thread" /\ Top.p = p
        /\ p \in Procs /\ process_current = p /\ p # Etimer
        /\ stack \in Seq(Frames) /\ StackOK(stack, state, Ahead(First))
        /\ \A g \in Frames : Has(stack, g) => ~(g.kind = "thread" /\ g.p = Etimer) /\ ~Exits(g)
        /\ \A q : ~Telling(q)
        /\ state[Etimer] = "running"
    BY <1>1, Caller
  <1>3. r \in Procs /\ r # Etimer /\ First \in Node
    BY Names DEF Procs, Node
  <1>4. \A g \in Frames : Has(stack, g) => FrameOK(g, state, Ahead(First))
    BY <1>2 DEF Has, StackOK
  <1>5. \A g \in Frames : Has(stack, g) /\ g.kind = "thread" => g.p \in Procs /\ g.p # r
    BY <1>1, <1>4 DEF Has, OnStack, FrameOK
  <1>6. CASE ~Listed(r)
    <2>1. stack' = stack /\ process_current' = process_current /\ state' = state /\ nxt' = nxt
      BY <1>1, <1>6 DEF ExitProcess, listVars
    <2> QED
      BY <1>1, <1>3, <2>1, PollingOK DEF listVars
  <1>7. CASE Listed(r) /\ state[r] = "none"
    <2>1. /\ stack' = stack /\ process_current' = process_current /\ state' = state
          /\ nxt' = Unlinked(r)
      BY <1>1, <1>7 DEF ExitProcess
    <2>2. /\ nxt' \in [Node -> Procs \cup {NoProc}]
          /\ \A x \in Node : \A q \in Ahead(x) \ {r} : q \in Ahead(x)'
          /\ EndsAtEtimer'
      BY <2>1, UnlinkKeeps DEF KInv
    <2>3. \A q \in Ahead(First) : q # r => q \in Ahead(First)'
      BY <1>3, <2>2
    <2>4. StackOK(stack, state, Ahead(First)')
      <3> DEFINE M == Ahead(First)'
      <3>1. \A g, h \in Frames :
               Has(stack, g) /\ Has(stack, h) /\ g.kind = "poll" /\ g.p \in Ahead(First)
                 /\ h.kind \in {"thread", "exit", "unlink"} /\ h.p = g.p => g.p \in M
        BY <1>2, <1>5, <2>3 DEF Exits
      <3>2. \A g \in Frames : Has(stack, g) /\ Exits(g) => state[g.p] = state[g.p] /\ g.p \in M
        BY <1>2
      <3> HIDE DEF M
      <3>3. StackOK(stack, state, M)
        BY <1>2, <3>1, <3>2, StackMap
      <3> QED
        BY <3>3 DEF M
    <2>5. StackOK(stack, state, Ahead(First))'
      BY <2>1, <2>4
    <2>6. TopOK(stack, process_current, nxt, Ahead(First))'
      BY <1>2, <2>1 DEF TopOK, Loud, Top
    <2>7. Types'
      BY <1>1, <2>1, <2>2 DEF KInv, Types, EventsOK
    <2>8. RunningIsListed'
      BY <1>7, <2>1, <2>3 DEF KInv, RunningIsListed, Listed
    <2>9. EtimerRunsAlone'
      BY <2>1 DEF KInv, EtimerRunsAlone
    <2>10. PollsKept'
      <3>1. \A q \in Procs, x \in Node : asked'[q] /\ state[q] # "none" /\ q \in Ahead(x)
                                          => q \in Ahead(x)'
        BY <1>7, <2>2
      <3> QED
        BY <1>1, <2>1, <3>1, KeepPolls
    <2>11. TimersOwned'
      BY <1>1, <1>2, <2>1, KeepTimers
    <2> QED
      BY <2>2, <2>5, <2>6, <2>7, <2>8, <2>9, <2>10, <2>11 DEF KInv
  <1>8. CASE Listed(r) /\ state[r] # "none"
    <2>1. NextOK(Frame("exit", r, First, process_current, process_current), stack[1], Ahead(First))
      <3> DEFINE f == Frame("exit", r, First, process_current, process_current)
      <3>1. f.kind = "exit" /\ f.back = p
        <4>1. "exit" \in Kinds /\ r \in Position /\ First \in Position /\ process_current \in Evs
          BY <1>2, <1>3 DEF Kinds, Position, Evs
        <4> QED
          BY <1>2, <4>1, FrameIs
      <3> HIDE DEF f
      <3>2. NextOK(f, stack[1], Ahead(First))
        BY <1>2, <3>1 DEF NextOK, Top
      <3> QED
        BY <3>2 DEF f
    <2>2. \A g \in Frames : Has(stack, g) =>
              /\ g.kind = "thread" => g.p \in Procs /\ g.p # r /\ g.p # Etimer
              /\ Exits(g) => g.p \in Procs /\ g.p # r /\ g.p \in Ahead(First)
      BY <1>2, <1>5
    <2>3. process_current \in Procs
      BY <1>2
    <2> QED
      BY <1>1, <1>2, <1>8, <2>1, <2>2, <2>3, ExitOK
  <1> QED
    BY <1>6, <1>7, <1>8

-----------------------------------------------------------------------------
(* The list of timers *)

\* A set of numbers that is not empty has a least one.
LEMMA Least ==
  ASSUME NEW T, T \subseteq Nat, T # {}
  PROVE  \E x \in T : \A y \in T : x <= y
  <1> DEFINE I == {1 .. n : n \in T}
  <1> DEFINE F == FiniteSubsetsOf(Nat)
  <1>1. I \subseteq F
    <2> SUFFICES ASSUME NEW n \in T PROVE 1 .. n \in F
      OBVIOUS
    <2>1. IsFiniteSet(1 .. n)
      BY FS_Interval
    <2> QED
      BY <2>1 DEF FiniteSubsetsOf
  <1>2. IsWellFoundedOn(StrictSubsetOrdering(Nat), F)
    BY FS_StrictSubsetOrderingWellFounded
  <1>3. \E s \in I : \A t \in I : ~(<<t, s>> \in StrictSubsetOrdering(Nat))
    <2> HIDE DEF F
    <2>1. I # {}
      OBVIOUS
    <2> HIDE DEF I
    <2> QED
      BY <1>1, <1>2, <2>1, WFMin
  <1>4. \A s \in I : s \subseteq Nat
    BY <1>1 DEF FiniteSubsetsOf
  <1>5. PICK s \in I : \A t \in I : ~(t \subseteq s /\ t # s)
    BY <1>3, <1>4 DEF StrictSubsetOrdering
  <1>6. PICK x \in T : s = 1 .. x
    OBVIOUS
  <1>7. ASSUME NEW y \in T, y < x PROVE FALSE
    <2>1. 1 .. y \subseteq 1 .. x
      BY <1>7
    <2>2. x \in 1 .. x /\ x \notin 1 .. y
      BY <1>7
    <2>3. 1 .. y \in I
      OBVIOUS
    <2> QED
      BY <1>5, <1>6, <2>1, <2>2, <2>3
  <1> QED
    BY <1>7

LEMMA Induct ==
  ASSUME NEW N \in Nat, NEW S, 0 \in S, \A n \in 0 .. N - 1 : n \in S => n + 1 \in S
  PROVE  0 .. N \subseteq S
  <1> DEFINE T == {n \in 0 .. N : n \notin S}
  <1> SUFFICES ASSUME T # {} PROVE FALSE
    OBVIOUS
  <1>1. PICK x \in T : \A y \in T : x <= y
    <2>1. T \subseteq Nat
      OBVIOUS
    <2> HIDE DEF T
    <2> QED
      BY <2>1, Least
  <1>2. x # 0 /\ x \in 0 .. N /\ x - 1 \in 0 .. N - 1 /\ (x - 1) + 1 = x
    OBVIOUS
  <1>3. x - 1 \in S
    BY <1>1, <1>2
  <1> QED
    BY <1>2, <1>3

Kept(h, n, T) ==
  h = [i \in 0 .. n |->
         IF i = 0 THEN <<>>
         ELSE IF timerlist[i] \in T THEN h[i - 1]
         ELSE Append(h[i - 1], timerlist[i])]

LEMMA WithoutIs ==
  ASSUME NEW T, timerlist \in Seq(Timers)
  PROVE  \E h : Kept(h, Len(timerlist), T) /\ Without(T) = h[Len(timerlist)]
  <1> DEFINE N == Len(timerlist)
  <1> DEFINE S == {n \in Nat : \E h : Kept(h, n, T)}
  <1>0. N \in Nat
    BY LenProperties
  <1>1. 0 \in S
    <2>1. Kept([i \in 0 .. 0 |-> <<>>], 0, T)
      BY DEF Kept
    <2> QED
      BY <2>1
  <1>2. ASSUME NEW n \in 0 .. N - 1, n \in S PROVE n + 1 \in S
    <2>1. PICK g : Kept(g, n, T)
      BY <1>2
    <2> DEFINE h == [i \in 0 .. n + 1 |->
                       IF i <= n THEN g[i]
                       ELSE IF timerlist[n + 1] \in T THEN g[n]
                       ELSE Append(g[n], timerlist[n + 1])]
    <2>2. /\ \A i \in 0 .. n + 1 : h[i] = IF i <= n THEN g[i]
                       ELSE IF timerlist[n + 1] \in T THEN g[n]
                       ELSE Append(g[n], timerlist[n + 1])
          /\ h = [i \in 0 .. n + 1 |-> h[i]]
      OBVIOUS
    <2>3. n \in Nat
      BY <1>0
    <2> HIDE DEF h
    <2>4. \A i \in 0 .. n : g[i] = IF i = 0 THEN <<>>
             ELSE IF timerlist[i] \in T THEN g[i - 1]
             ELSE Append(g[i - 1], timerlist[i])
      BY <2>1 DEF Kept
    <2>5. ASSUME NEW i \in 0 .. n + 1
          PROVE  h[i] = IF i = 0 THEN <<>>
             ELSE IF timerlist[i] \in T THEN h[i - 1]
             ELSE Append(h[i - 1], timerlist[i])
      <3>1. CASE i = n + 1
        <4>1. i # 0 /\ i - 1 = n /\ n \in 0 .. n + 1 /\ ~(i <= n)
          BY <2>3, <3>1
        <4>2. h[n] = g[n]
          BY <2>2, <2>3, <4>1
        <4> QED
          BY <2>2, <3>1, <4>1, <4>2
      <3>2. CASE i = 0
        BY <2>2, <2>3, <2>4, <3>2
      <3>3. CASE i # n + 1 /\ i # 0
        <4>1. i \in 0 .. n /\ i - 1 \in 0 .. n /\ i <= n /\ i - 1 <= n /\ i - 1 \in 0 .. n + 1
          BY <2>3, <3>3
        <4>2. h[i] = g[i] /\ h[i - 1] = g[i - 1]
          BY <2>2, <4>1
        <4> QED
          BY <2>4, <3>3, <4>1, <4>2
      <3> QED
        BY <3>1, <3>2, <3>3
    <2>6. Kept(h, n + 1, T)
      BY <2>2, <2>5 DEF Kept
    <2> QED
      BY <2>3, <2>6
  <1> HIDE DEF N
  <1>3. N \in S
    <2> HIDE DEF S
    <2>1. 0 .. N \subseteq S
      BY <1>0, <1>1, <1>2, Induct
    <2> QED
      BY <1>0, <2>1
  <1> DEFINE c == CHOOSE h : Kept(h, N, T)
  <1>4. Kept(c, N, T)
    BY <1>3
  <1>5. Without(T) = c[N]
    BY DEF Without, Kept, N
  <1> QED
    BY <1>4, <1>5 DEF N

Distinct(s) == \A i, j \in DOMAIN s : s[i] = s[j] => i = j

LEMMA HasAppend ==
  ASSUME NEW F, NEW s \in Seq(F), NEW e \in F
  PROVE  /\ Append(s, e) \in Seq(F)
         /\ \A g : Has(Append(s, e), g) <=> (Has(s, g) \/ g = e)
         /\ Distinct(s) /\ ~Has(s, e) => Distinct(Append(s, e))
  <1> DEFINE t == Append(s, e)
  <1>1. /\ t \in Seq(F) /\ Len(s) \in Nat /\ DOMAIN s = 1 .. Len(s) /\ DOMAIN t = 1 .. Len(s) + 1
        /\ \A i \in 1 .. Len(s) : t[i] = s[i]
        /\ t[Len(s) + 1] = e
    BY AppendProperties, LenProperties
  <1> HIDE DEF t
  <1>2. \A g : Has(t, g) <=> (Has(s, g) \/ g = e)
    <2> SUFFICES ASSUME NEW g PROVE Has(t, g) <=> (Has(s, g) \/ g = e)
      OBVIOUS
    <2>1. ASSUME Has(t, g) PROVE Has(s, g) \/ g = e
      <3>1. PICK i \in 1 .. Len(s) + 1 : t[i] = g
        BY <1>1, <2>1 DEF Has
      <3>2. i = Len(s) + 1 \/ i \in 1 .. Len(s)
        BY <1>1
      <3> QED
        BY <1>1, <3>1, <3>2 DEF Has
    <2>2. ASSUME Has(s, g) PROVE Has(t, g)
      <3>1. PICK i \in 1 .. Len(s) : s[i] = g
        BY <1>1, <2>2 DEF Has
      <3>2. i \in 1 .. Len(s) + 1
        BY <1>1
      <3> QED
        BY <1>1, <3>1, <3>2 DEF Has
    <2>3. Has(t, e)
      <3>1. Len(s) + 1 \in 1 .. Len(s) + 1
        BY <1>1
      <3> QED
        BY <1>1, <3>1 DEF Has
    <2> QED
      BY <2>1, <2>2, <2>3
  <1>3. ASSUME Distinct(s), ~Has(s, e), NEW i \in DOMAIN t, NEW j \in DOMAIN t, t[i] = t[j]
        PROVE  i = j
    <2>1. /\ i = Len(s) + 1 \/ i \in 1 .. Len(s)
          /\ j = Len(s) + 1 \/ j \in 1 .. Len(s)
      BY <1>1
    <2>2. \A k \in 1 .. Len(s) : t[k] # e
      BY <1>1, <1>3 DEF Has
    <2> QED
      BY <1>1, <1>3, <2>1, <2>2 DEF Distinct
  <1>4. Distinct(s) /\ ~Has(s, e) => Distinct(t)
    BY <1>3 DEF Distinct
  <1> QED
    BY <1>1, <1>2, <1>4 DEF t

\* The timers that are removed are those of T, and the others stay.
LEMMA WithoutOK ==
  ASSUME NEW T, timerlist \in Seq(Timers), Distinct(timerlist)
  PROVE  /\ Without(T) \in Seq(Timers) /\ Distinct(Without(T))
         /\ \A x : Has(Without(T), x) <=> (Has(timerlist, x) /\ x \notin T)
  <1> DEFINE N == Len(timerlist)
  <1>0. N \in Nat /\ DOMAIN timerlist = 1 .. N /\ \A i \in 1 .. N : timerlist[i] \in Timers
    BY LenProperties, ElementOfSeq
  <1>1. PICK h : Kept(h, N, T) /\ Without(T) = h[N]
    BY WithoutIs
  <1> HIDE DEF N
  <1>2. \A i \in 0 .. N : h[i] = IF i = 0 THEN <<>>
             ELSE IF timerlist[i] \in T THEN h[i - 1]
             ELSE Append(h[i - 1], timerlist[i])
    BY <1>1 DEF Kept
  <1> DEFINE Good(n) ==
        /\ h[n] \in Seq(Timers) /\ Distinct(h[n])
        /\ \A x : Has(h[n], x) <=> \E i \in 1 .. n : timerlist[i] = x /\ x \notin T
  <1> DEFINE S == {n \in 0 .. N : Good(n)}
  <1>3. 0 \in S
    <2>1. h[0] = <<>> /\ DOMAIN <<>> = {} /\ 1 .. 0 = {} /\ 0 \in 0 .. N
      BY <1>0, <1>2
    <2>2. <<>> \in Seq(Timers) /\ Distinct(<<>>) /\ \A x : ~Has(<<>>, x)
      BY <2>1 DEF Distinct, Has
    <2> QED
      BY <2>1, <2>2
  <1>4. ASSUME NEW n \in 0 .. N - 1, n \in S PROVE n + 1 \in S
    <2>1. /\ n \in Nat /\ n + 1 \in 0 .. N /\ n + 1 \in 1 .. N /\ n + 1 # 0 /\ (n + 1) - 1 = n
          /\ 1 .. n + 1 = (1 .. n) \cup {n + 1} /\ 1 .. n \subseteq 1 .. N
      BY <1>0
    <2>2. Good(n)
      BY <1>4
    <2> DEFINE e == timerlist[n + 1]
    <2>3. h[n + 1] = IF e \in T THEN h[n] ELSE Append(h[n], e)
      BY <1>2, <2>1
    <2>4. e \in Timers
      BY <1>0, <2>1
    <2>5. CASE e \in T
      <3>1. h[n + 1] = h[n]
        BY <2>3, <2>5
      <3>2. \A x : (\E i \in 1 .. n + 1 : timerlist[i] = x /\ x \notin T)
                      <=> (\E i \in 1 .. n : timerlist[i] = x /\ x \notin T)
        BY <2>1, <2>5
      <3> QED
        BY <2>1, <2>2, <3>1, <3>2
    <2>6. CASE e \notin T
      <3>1. h[n + 1] = Append(h[n], e)
        BY <2>3, <2>6
      <3>2. ~Has(h[n], e)
        <4> SUFFICES ASSUME Has(h[n], e) PROVE FALSE
          OBVIOUS
        <4>1. PICK i \in 1 .. n : timerlist[i] = e
          BY <2>2
        <4>2. i \in DOMAIN timerlist /\ n + 1 \in DOMAIN timerlist /\ i # n + 1
          BY <1>0, <2>1
        <4> QED
          BY <4>1, <4>2 DEF Distinct
      <3>3. \A x : (\E i \in 1 .. n + 1 : timerlist[i] = x /\ x \notin T)
                      <=> (x = e \/ \E i \in 1 .. n : timerlist[i] = x /\ x \notin T)
        BY <2>1, <2>6
      <3> HIDE DEF e
      <3>4. /\ h[n + 1] \in Seq(Timers) /\ Distinct(h[n + 1])
            /\ \A x : Has(h[n + 1], x) <=> (Has(h[n], x) \/ x = e)
        BY <2>2, <2>4, <3>1, <3>2, HasAppend
      <3> QED
        BY <2>1, <2>2, <3>3, <3>4
    <2> QED
      BY <2>5, <2>6
  <1>5. Good(N)
    <2> HIDE DEF Good
    <2>1. N \in S
      <3> HIDE DEF S
      <3>1. 0 .. N \subseteq S
        BY <1>0, <1>3, <1>4, Induct
      <3> QED
        BY <1>0, <3>1
    <2> QED
      BY <2>1
  <1> QED
    BY <1>0, <1>1, <1>5 DEF Has

\* Timers leave the list.
LEMMA TimersLeave ==
  ASSUME KInv, NEW T, timerlist' = Without(T),
         timer_p' \in [Timers -> Apps \cup {NoProc}],
         \A t \in Timers : t \notin T => timer_p'[t] = timer_p[t],
         \A p \in Apps, t \in Timers :
            t \notin T /\ timer_p[t] = p /\ (state[p] # "none" \/ Telling(p))
               => state'[p] # "none" \/ Telling(p)'
  PROVE  timerlist' \in Seq(Timers) /\ TimersOwned'
  <1>1. timerlist \in Seq(Timers) /\ Distinct(timerlist)
    BY DEF KInv, Types, TimersOwned, Distinct
  <1>2. /\ timerlist' \in Seq(Timers) /\ Distinct(timerlist')
        /\ \A x : Has(timerlist', x) <=> (Has(timerlist, x) /\ x \notin T)
    BY <1>1, WithoutOK
  <1>3. ASSUME NEW i \in DOMAIN timerlist'
        PROVE  \E j \in DOMAIN timerlist : timerlist[j] = timerlist'[i]
                  /\ timerlist[j] \notin T /\ timerlist[j] \in Timers
    <2>1. Has(timerlist', timerlist'[i])
      BY DEF Has
    <2>2. Has(timerlist, timerlist'[i]) /\ timerlist'[i] \notin T
      BY <1>2, <2>1
    <2> QED
      BY <1>1, <2>2, ElementOfSeq, LenProperties DEF Has
  <1>4. \A i, j \in DOMAIN timerlist' : timerlist'[i] = timerlist'[j] => i = j
    BY <1>2 DEF Distinct
  <1>5. \A i \in DOMAIN timerlist' : timer_p'[timerlist'[i]] # NoProc
    BY <1>3 DEF KInv, TimersOwned
  <1>6. ASSUME NEW i \in DOMAIN timerlist', NEW p \in Apps, timer_p'[timerlist'[i]] = p
        PROVE  state'[p] # "none" \/ Telling(p)'
    <2>1. PICK j \in DOMAIN timerlist : timerlist[j] = timerlist'[i]
                  /\ timerlist[j] \notin T /\ timerlist[j] \in Timers
      BY <1>3
    <2>2. timer_p[timerlist[j]] = p
      BY <1>6, <2>1
    <2>3. state[p] # "none" \/ Telling(p)
      BY <2>2 DEF KInv, TimersOwned
    <2> QED
      BY <2>1, <2>2, <2>3
  <1> QED
    BY <1>2, <1>4, <1>5, <1>6 DEF TimersOwned

LEMMA EtimerSetOK ==
  ASSUME KInv, NEW p \in Apps, NEW t \in Timers, NEW interval, EtimerSet(p, t, interval)
  PROVE  KInv'
  <1>1. /\ Calls(p) /\ PollProcess(Etimer) /\ nxt' = nxt /\ state' = state /\ events' = events
        /\ process_current' = process_current /\ stack' = stack
        /\ timer_p' = [timer_p EXCEPT ![t] = process_current]
        /\ timerlist' = IF timer_p[t] # NoProc /\ InList(t) THEN timerlist ELSE <<t>> \o timerlist
    BY DEF EtimerSet, listVars
  <1>2. process_current = p /\ p # NoProc /\ state[p] = "called" /\ \A r : ~Telling(r)
    BY <1>1, Caller
  <1>3. /\ timer_p' \in [Timers -> Apps \cup {NoProc}] /\ timer_p'[t] = p
        /\ \A u \in Timers : u # t => timer_p'[u] = timer_p[u]
    BY <1>1, <1>2 DEF KInv, Types
  <1>4. /\ timerlist \in Seq(Timers) /\ Len(timerlist) \in Nat
        /\ DOMAIN timerlist = 1 .. Len(timerlist)
        /\ \A i \in DOMAIN timerlist : timerlist[i] \in Timers
    BY ElementOfSeq, LenProperties DEF KInv, Types
  <1>5. \A i \in DOMAIN timerlist : timer_p'[timerlist[i]] # NoProc
                                      /\ \A q \in Apps : timer_p'[timerlist[i]] = q => state[q] # "none"
    <2> SUFFICES ASSUME NEW i \in DOMAIN timerlist
                 PROVE  timer_p'[timerlist[i]] # NoProc
                          /\ \A q \in Apps : timer_p'[timerlist[i]] = q => state[q] # "none"
      OBVIOUS
    <2>1. CASE timerlist[i] = t
      BY <1>2, <1>3, <2>1
    <2>2. CASE timerlist[i] # t
      BY <1>2, <1>3, <1>4, <2>2 DEF KInv, TimersOwned
    <2> QED
      BY <2>1, <2>2
  <1>6. timerlist' \in Seq(Timers) /\ TimersOwned'
    <2>1. CASE timerlist' = timerlist
      BY <1>1, <1>4, <1>5, <2>1 DEF KInv, TimersOwned
    <2>2. CASE timerlist' = <<t>> \o timerlist /\ ~(timer_p[t] # NoProc /\ InList(t))
      <3>1. ~InList(t)
        BY <2>2 DEF KInv, TimersOwned, InList
      <3>2. /\ timerlist' \in Seq(Timers) /\ DOMAIN timerlist' = 1 .. Len(timerlist) + 1
            /\ timerlist'[1] = t
            /\ \A i \in 1 .. Len(timerlist) : timerlist'[i + 1] = timerlist[i]
        BY <1>4, <2>2, Cons
      <3>3. ASSUME NEW i \in DOMAIN timerlist', i # 1
            PROVE  i - 1 \in DOMAIN timerlist /\ timerlist'[i] = timerlist[i - 1] /\ i \in Nat
                     /\ timerlist'[i] # t
        <4>1. i - 1 \in 1 .. Len(timerlist) /\ (i - 1) + 1 = i /\ i \in Nat
          BY <1>4, <3>2, <3>3
        <4> QED
          BY <1>4, <3>1, <3>2, <4>1 DEF InList
      <3>4. ASSUME NEW i \in DOMAIN timerlist', NEW j \in DOMAIN timerlist',
                   timerlist'[i] = timerlist'[j]
            PROVE  i = j
        <4>1. CASE i = 1 \/ j = 1
          BY <3>2, <3>3, <3>4, <4>1
        <4>2. CASE i # 1 /\ j # 1
          <5>1. i - 1 = j - 1
            BY <3>3, <3>4, <4>2 DEF KInv, TimersOwned
          <5> QED
            BY <3>3, <4>2, <5>1
        <4> QED
          BY <4>1, <4>2
      <3>5. ASSUME NEW i \in DOMAIN timerlist'
            PROVE  timer_p'[timerlist'[i]] # NoProc
                     /\ \A q \in Apps : timer_p'[timerlist'[i]] = q => state[q] # "none"
        <4>1. CASE i = 1
          BY <1>2, <1>3, <3>2, <4>1
        <4>2. CASE i # 1
          BY <1>5, <3>3, <4>2
        <4> QED
          BY <4>1, <4>2
      <3>6. TimersOwned'
        BY <1>1, <3>4, <3>5 DEF TimersOwned
      <3> QED
        BY <3>2, <3>6
    <2> QED
      BY <1>1, <2>1, <2>2
  <1> QED
    BY <1>1, <1>3, <1>6, Names, SameEvents, OtherStep

LEMMA EtimerStopOK ==
  ASSUME KInv, NEW p \in Apps, NEW t \in Timers, EtimerStop(p, t) PROVE KInv'
  <1>1. /\ nxt' = nxt /\ state' = state /\ events' = events /\ UNCHANGED pollVars
        /\ process_current' = process_current /\ stack' = stack
        /\ timer_p' = [timer_p EXCEPT ![t] = NoProc] /\ timerlist' = Without({t})
    BY DEF EtimerStop, listVars
  <1>2. /\ timer_p' \in [Timers -> Apps \cup {NoProc}]
        /\ \A u \in Timers : u \notin {t} => timer_p'[u] = timer_p[u]
    BY <1>1 DEF KInv, Types
  <1>3. timerlist' \in Seq(Timers) /\ TimersOwned'
    <2>1. \A r : Telling(r)' <=> Telling(r)
      BY <1>1, SameTelling
    <2> QED
      BY <1>1, <1>2, <2>1, TimersLeave
  <1> QED
    BY <1>1, <1>2, <1>3, Names, SameEvents, OtherStep

LEMMA EtimerExpiresOK ==
  ASSUME KInv, EtimerExpires PROVE KInv'
  <1> DEFINE i == CHOOSE i \in Expired : \A j \in Expired : i <= j
  <1> DEFINE t == timerlist[i]
  <1>1. /\ nxt' = nxt /\ state' = state /\ UNCHANGED pollVars
        /\ process_current' = process_current /\ stack' = stack /\ Expired # {}
        /\ timer_p' = [timer_p EXCEPT ![t] = NoProc] /\ timerlist' = Without({t})
        /\ events' = Append(events, [p |-> timer_p[t], ev |-> "TIMER"])
    BY DEF EtimerExpires, listVars
  <1>2. /\ timerlist \in Seq(Timers) /\ DOMAIN timerlist \subseteq Nat
        /\ \A k \in DOMAIN timerlist : timerlist[k] \in Timers
    BY ElementOfSeq, LenProperties DEF KInv, Types
  <1>3. i \in Expired
    <2>1. \E k \in Expired : \A j \in Expired : k <= j
      BY <1>1, <1>2, Least DEF Expired
    <2> QED
      BY <2>1
  <1>4. i \in DOMAIN timerlist /\ t \in Timers
    BY <1>2, <1>3 DEF Expired
  <1> HIDE DEF i
  <1>5. timer_p[t] \in Apps
    BY <1>4 DEF KInv, Types, TimersOwned
  <1> HIDE DEF t
  <1>6. /\ timer_p' \in [Timers -> Apps \cup {NoProc}]
        /\ \A u \in Timers : u \notin {t} => timer_p'[u] = timer_p[u]
    BY <1>1 DEF KInv, Types
  <1>7. timerlist' \in Seq(Timers) /\ TimersOwned'
    <2>1. \A r : Telling(r)' <=> Telling(r)
      BY <1>1, SameTelling
    <2> QED
      BY <1>1, <1>6, <2>1, TimersLeave
  <1>8. EventsOK'
    <2> DEFINE e == [p |-> timer_p[t], ev |-> "TIMER"]
    <2>1. e \in Events /\ e.p # Broadcast
      BY <1>5, Names DEF Events, Procs
    <2>2. events' = Append(events, e)
      BY <1>1
    <2> HIDE DEF e
    <2> QED
      BY <2>1, <2>2, AppendEvent
  <1> QED
    BY <1>1, <1>6, <1>7, <1>8, Names, OtherStep

\* The thread of the event timer process returns.
LEMMA EtimerReturns ==
  ASSUME KInv, Running("thread"), Top.p = Etimer, Returns(Etimer, FALSE), events' = events,
         PollProcess(Etimer) \/ UNCHANGED pollVars,
         timer_p' = timer_p,
         \/ Top.ev # "EXITED" /\ timerlist' = timerlist
         \/ Top.ev = "EXITED" /\ timerlist' = Without(OfProcess(Top.q))
  PROVE  KInv'
  <1>0. stack # <<>> /\ Top.kind = "thread" /\ FrameOK(Top, state, Ahead(First))
    BY TopFacts DEF Running
  <1>1. Top.ev # "EXIT"
    BY <1>0 DEF FrameOK
  <1>2. /\ stack' \in Seq(Frames) /\ state' \in States
        /\ process_current' \in Procs \cup {NoProc} /\ nxt' = nxt
        /\ StackOK(stack', state', Ahead(First))
        /\ TopOK(stack', process_current', nxt, Ahead(First))
        /\ EtimerRunsAlone'
        /\ \A r \in Procs : state'[r] = "none" <=> state[r] = "none"
        /\ \A g : g.kind # "thread" => (Has(stack, g) <=> Has(stack', g))
    BY <1>1, ReturnOK
  <1>3. /\ PollsKept'
        /\ needspoll' \in [Procs -> BOOLEAN] /\ asked' \in [Procs -> BOOLEAN]
        /\ poll_requested' \in BOOLEAN
    BY <1>2, Names, PolledOK
  <1>4. ASSUME NEW r \in Apps, Telling(r), Top.ev = "EXITED" => Top.q # r PROVE Telling(r)'
    <2>1. PICK f \in Frames : InStack(f) /\ f.kind = "exit" /\ f.p = r /\ Etimer \in Ahead(f.q)
      BY <1>0, <1>4 DEF Telling, Top
    <2>2. Has(stack', f)
      BY <1>2, <2>1 DEF InStack, Has
    <2>3. Etimer \in Ahead(f.q)'
      BY <1>2, <2>1, AheadSame
    <2> QED
      BY <2>1, <2>2, <2>3 DEF Telling, InStack, Has
  <1>5. \A r \in Apps : state[r] # "none" => state'[r] # "none"
    BY <1>2 DEF Procs
  <1>6. timerlist' \in Seq(Timers) /\ TimersOwned'
    <2>1. CASE Top.ev # "EXITED" /\ timerlist' = timerlist
      <3>1. TimersOwned'
        BY <1>4, <1>5, <2>1, KeepTimers
      <3> QED
        BY <2>1, <3>1 DEF KInv, Types
    <2>2. CASE Top.ev = "EXITED" /\ timerlist' = Without(OfProcess(Top.q))
      <3>1. timer_p' \in [Timers -> Apps \cup {NoProc}]
        BY DEF KInv, Types
      <3>2. \A t \in Timers : t \notin OfProcess(Top.q) => timer_p[t] # Top.q
        BY DEF OfProcess
      <3> QED
        BY <1>4, <1>5, <2>2, <3>1, <3>2, TimersLeave
    <2> QED
      BY <2>1, <2>2
  <1>7. Types'
    BY <1>2, <1>3, <1>6, SameEvents DEF KInv, Types, States
  <1>8. \A r \in Procs : state'[r] # "none" => state[r] # "none" \/ Listed(r)
    BY <1>2
  <1> QED
    BY <1>2, <1>3, <1>6, <1>7, <1>8, ListSame

LEMMA EtimerThreadOK ==
  ASSUME KInv, EtimerScanned \/ EtimerExited \/ EtimerIgnores PROVE KInv'
  <1>1. ASSUME EtimerScanned PROVE KInv'
    BY <1>1, EtimerReturns DEF EtimerScanned, EtimerRuns, timerVars
  <1>2. ASSUME EtimerExited PROVE KInv'
    BY <1>2, EtimerReturns DEF EtimerExited, EtimerRuns
  <1>3. ASSUME EtimerIgnores PROVE KInv'
    BY <1>3, EtimerReturns DEF EtimerIgnores, timerVars
  <1> QED
    BY <1>1, <1>2, <1>3

-----------------------------------------------------------------------------
(* The theorems *)

LEMMA KInit ==
  ASSUME Init PROVE KInv
  <1>1. /\ nxt \in [Node -> Procs \cup {NoProc}] /\ \A p \in Procs : Listed(p)
        /\ nxt[Etimer] = NoProc
    BY DEF Init, Node
  <1>2. /\ state = [p \in Procs |-> "running"] /\ needspoll = [p \in Procs |-> FALSE]
        /\ asked = [p \in Procs |-> FALSE] /\ poll_requested = FALSE /\ events = <<>>
        /\ process_current = NoProc /\ timerlist = <<>> /\ timer_p = [t \in Timers |-> NoProc]
        /\ stack = <<>>
    BY DEF Init
  <1>3. DOMAIN <<>> = {} /\ \A F : <<>> \in Seq(F)
    OBVIOUS
  <1>4. EventsOK
    BY <1>2, <1>3 DEF EventsOK
  <1>5. Types
    BY <1>1, <1>2, <1>3, <1>4 DEF Types
  <1>6. ASSUME NEW x \in Procs, x # Etimer PROVE Etimer \in Ahead(x)
    <2> DEFINE B == {y \in Procs : y = Etimer \/ Etimer \in Ahead(y)}
    <2>1. ASSUME NEW y \in Node, Etimer \in Ahead(y) PROVE nxt[y] \in B
      BY <1>5, <2>1, AheadStep
    <2>2. \A y \in B : nxt[y] \in B \cup {NoProc}
      BY <1>1, <2>1 DEF Node
    <2>3. nxt[First] \in B
      BY <1>1, <2>1, Names DEF Listed, Node
    <2>4. B \in SUBSET Procs /\ First \in Node
      BY DEF Node
    <2> HIDE DEF B
    <2>5. Ahead(First) \subseteq B
      BY <1>5, <2>2, <2>3, <2>4, AheadWithin
    <2>6. x \in B
      BY <1>1, <2>5 DEF Listed
    <2> QED
      BY <1>6, <2>6 DEF B
  <1>7. EndsAtEtimer
    BY <1>1, <1>6, Names DEF EndsAtEtimer, Listed, Node
  <1>8. RunningIsListed
    BY <1>1 DEF RunningIsListed
  <1>9. StackOK(stack, state, Ahead(First)) /\ TopOK(stack, process_current, nxt, Ahead(First))
    BY <1>2, <1>3 DEF StackOK, TopOK
  <1>10. EtimerRunsAlone
    BY <1>2, Names DEF EtimerRunsAlone
  <1>11. PollsKept
    BY <1>2 DEF PollsKept
  <1>12. TimersOwned
    BY <1>2, <1>3 DEF TimersOwned
  <1> QED
    BY <1>5, <1>7, <1>8, <1>9, <1>10, <1>11, <1>12 DEF KInv

LEMMA KStutters ==
  ASSUME KInv, UNCHANGED vars PROVE KInv'
  <1>1. UNCHANGED pollVars
    BY DEF vars, pollVars
  <1> QED
    BY <1>1, Names, PollingOK DEF vars, listVars

LEMMA KNext ==
  ASSUME KInv, [Next]_vars PROVE KInv'
  <1>1. ASSUME MainStep PROVE KInv'
    <2>1. CASE ProcessRun \/ DoPoll \/ DoEvent
      BY <2>1, ProcessRunOK, DoPollOK, DoEventOK
    <2>2. CASE BroadcastPolls \/ BroadcastDelivers
      BY <2>2, BroadcastPollsOK, BroadcastDeliversOK
    <2>3. CASE ExitWalk \/ Unlink
      BY <2>3, ExitWalkOK, UnlinkOK
    <2>4. CASE EtimerExpires \/ EtimerScanned \/ EtimerExited \/ EtimerIgnores
      BY <2>4, EtimerExpiresOK, EtimerThreadOK
    <2> QED
      BY <1>1, <2>1, <2>2, <2>3, <2>4 DEF MainStep
  <1>2. ASSUME NEW p \in Apps, AppStep(p) PROVE KInv'
    <2>1. ASSUME Yield(p) PROVE KInv'
      BY <2>1, ThreadReturns DEF Yield
    <2>2. ASSUME End(p) PROVE KInv'
      BY <2>2, ThreadReturns DEF End
    <2>3. ASSUME NEW to \in Apps, NEW ev \in {"EXIT", "CONTINUE"}, Post(p, to, ev) PROVE KInv'
      <3>1. to # Broadcast
        BY Names DEF Procs
      <3> QED
        BY <2>3, <3>1, PostOK
    <2>4. ASSUME Post(p, Broadcast, "CONTINUE") PROVE KInv'
      BY <2>4, PostOK
    <2>5. ASSUME NEW r \in Apps,
                 PostSynch(p, r) \/ ProcessStart(p, r) \/ ProcessExit(p, r) \/ ProcessPoll(p, r)
          PROVE  KInv'
      BY <2>5, PostSynchOK, ProcessStartOK, ProcessExitOK, ProcessPollOK
    <2>6. ASSUME NEW t \in Timers, EtimerStop(p, t) PROVE KInv'
      BY <2>6, EtimerStopOK
    <2>7. ASSUME NEW t \in Timers, NEW i \in 0 .. MaxInterval, EtimerSet(p, t, i) PROVE KInv'
      BY <2>7, EtimerSetOK
    <2> QED
      BY <1>2, <2>1, <2>2, <2>3, <2>4, <2>5, <2>6, <2>7 DEF AppStep
  <1>3. ASSUME Tick PROVE KInv'
    BY <1>3, TickOK
  <1>4. ASSUME NEW p \in Apps, InterruptPolls(p) PROVE KInv'
    BY <1>4, ProcessPollOK
  <1>5. ASSUME UNCHANGED vars PROVE KInv'
    BY <1>5, KStutters
  <1> QED
    BY <1>1, <1>2, <1>3, <1>4, <1>5 DEF Next

\* The inductive invariant holds in every behaviour.
THEOREM KernelInvariant == Spec => []KInv
  <1>1. Init => KInv
    BY KInit
  <1>2. KInv /\ [Next]_vars => KInv'
    BY KNext
  <1> QED
    BY <1>1, <1>2, PTL DEF Spec

\* No poll that was accepted is lost: whoever calls process_poll, at whatever
\* point of do_poll's walk, of a broadcast or of a thread, and whatever is
\* started, exits or is removed from the list meanwhile (process.c:224-238).
THEOREM PollNotLostHolds == Spec => []PollNotLost
  <1>1. KInv => PollNotLost
    BY DEF KInv, PollsKept, PollNotLost, InStack
  <1> QED
    BY <1>1, KernelInvariant, PTL

\* A process whose state is not PROCESS_STATE_NONE is on the process list, in
\* every step of process_start and exit_process (process.c:98-172).
THEOREM RunningIsListedHolds == Spec => []RunningIsListed
  <1>1. KInv => RunningIsListed
    BY DEF KInv
  <1> QED
    BY <1>1, KernelInvariant, PTL

\* A timer is on the list once, and its process runs or is exiting with its
\* timers about to be removed (etimer.c:91-107, process.c:142-151).
THEOREM TimersOfTheLivingHolds == Spec => []TimersOfTheLiving
  <1>1. ASSUME KInv, NEW p \in Apps, Telling(p) PROVE ExitPending(p)
    <2>1. stack \in Seq(Frames) /\ DOMAIN stack = 1 .. Len(stack) /\ Len(stack) \in Nat
      BY <1>1, LenProperties DEF KInv, Types
    <2>2. CASE \E f \in Frames : InStack(f) /\ f.kind = "exit" /\ f.p = p /\ Etimer \in Ahead(f.q)
      BY <2>2 DEF InStack, ExitPending
    <2>3. CASE /\ stack # <<>> /\ stack[1].kind = "thread" /\ stack[1].p = Etimer
               /\ stack[1].ev = "EXITED" /\ stack[1].q = p
               /\ \E i \in DOMAIN stack : i > 1 /\ stack[i].kind = "exit" /\ stack[i].p = p
      <3>1. PICK i \in DOMAIN stack : i > 1 /\ stack[i].kind = "exit" /\ stack[i].p = p
        BY <2>3
      <3>2. 1 \in 1 .. i - 1
        BY <2>1, <3>1
      <3> QED
        BY <2>3, <3>1, <3>2 DEF ExitPending
    <2> QED
      BY <1>1, <2>2, <2>3 DEF Telling
  <1>2. ASSUME KInv, NEW i \in DOMAIN timerlist
        PROVE  LET p == timer_p[timerlist[i]]
               IN  p # NoProc /\ (state[p] # "none" \/ ExitPending(p))
    <2>1. timer_p[timerlist[i]] \in Apps
      <3>1. timerlist[i] \in Timers
        BY <1>2, ElementOfSeq, LenProperties DEF KInv, Types
      <3> QED
        BY <1>2, <3>1 DEF KInv, Types, TimersOwned
    <2> QED
      BY <1>1, <1>2, <2>1, Names DEF KInv, TimersOwned, Procs
  <1>3. KInv => TimersOfTheLiving
    BY <1>2 DEF TimersOfTheLiving, KInv, TimersOwned
  <1> QED
    BY <1>3, KernelInvariant, PTL
=============================================================================
