------------------------------ MODULE Rpl_proofs ------------------------------
(***************************************************************************)
(* Theorems about Rpl, for every set of stations and all bounds.           *)
(***************************************************************************)
EXTENDS Rpl, FiniteSetTheorems, TLAPS

-----------------------------------------------------------------------------
(* The inductive invariant, per station *)

\* The record has its fields,
Fields(v) ==
    v = [joined |-> v.joined, version |-> v.version, rank |-> v.rank,
         min_rank |-> v.min_rank, preferred |-> v.preferred, route |-> v.route,
         parents |-> v.parents]

\* of their types; parents are in D.
Typed(v, D) ==
    /\ Fields(v)
    /\ v.joined \in BOOLEAN /\ v.version \in Versions
    /\ v.rank \in Ranks /\ v.min_rank \in Ranks
    /\ v.preferred \in DOMAIN v.parents \cup {None}
    /\ v.route \in DOMAIN v.parents \cup {None}
    /\ DOMAIN v.parents \subseteq D
    /\ \A p \in DOMAIN v.parents : v.parents[p] \in Entry

RankGiven(v) ==
    v.preferred # None /\ ~v.parents[v.preferred].updated
        => v.rank = CalculateRank(v.parents[v.preferred])

\* A parent without a route waits for the next recalculation, and has no rank
\* then: nothing but that can make it usable again.
RouteKept(v) ==
    \/ v.route = v.preferred
    \/ /\ v.route = None
       /\ v.parents[v.preferred].updated
       /\ v.parents[v.preferred].rank = InfiniteRank

Good(v) == RankGiven(v) /\ RouteKept(v)

RInv ==
    /\ node = [n \in Nodes |-> node[n]]
    /\ up \subseteq Pairs /\ faults \in 0 .. MaxFaults
    /\ \A n \in Nodes : Typed(node[n], Nodes \ {n}) /\ Good(node[n])

-----------------------------------------------------------------------------
(* Ranks *)

LEMMA CalculateRankIs ==
  ASSUME NEW e \in Entry
  PROVE  CalculateRank(e) \in Ranks
  <1>1. e.rank \in Ranks /\ e.metric \in Metrics \cup {InitMetric}
    BY DEF Entry
  <1>2. e.rank \in Nat /\ e.rank <= InfiniteRank
    BY <1>1, RplAssumption DEF Ranks
  <1>3. e.metric \in Nat
    BY <1>1, RplAssumption
  <1> QED
    BY <1>2, <1>3, RplAssumption DEF Ranks, CalculateRank

-----------------------------------------------------------------------------
(* The entries of the table *)

LEMMA WithParentIs ==
  ASSUME NEW v, Fields(v), NEW p, NEW e
  PROVE  LET w == WithParent(v, p, e)
         IN  /\ Fields(w)
             /\ w.joined = v.joined /\ w.version = v.version /\ w.rank = v.rank
             /\ w.min_rank = v.min_rank /\ w.preferred = v.preferred /\ w.route = v.route
             /\ DOMAIN w.parents = DOMAIN v.parents \cup {p}
             /\ w.parents[p] = e
             /\ \A q \in DOMAIN v.parents : q # p => w.parents[q] = v.parents[q]
  <1> DEFINE ps == [q \in DOMAIN v.parents \cup {p} |-> IF q = p THEN e ELSE v.parents[q]]
             w == WithParent(v, p, e)
  <1>1. w = [v EXCEPT !.parents = ps]
    BY DEF WithParent
  <1>2. /\ DOMAIN ps = DOMAIN v.parents \cup {p} /\ ps[p] = e
        /\ \A q \in DOMAIN v.parents : q # p => ps[q] = v.parents[q]
    OBVIOUS
  <1> HIDE DEF ps, w
  <1>3. w = [joined |-> v.joined, version |-> v.version, rank |-> v.rank,
             min_rank |-> v.min_rank, preferred |-> v.preferred, route |-> v.route,
             parents |-> ps]
    BY <1>1 DEF Fields
  <1>4. /\ w.joined = v.joined /\ w.version = v.version /\ w.rank = v.rank
        /\ w.min_rank = v.min_rank /\ w.preferred = v.preferred /\ w.route = v.route
        /\ w.parents = ps
    BY <1>3
  <1>5. Fields(w)
    BY <1>3, <1>4 DEF Fields
  <1> QED
    BY <1>2, <1>4, <1>5 DEF w

LEMMA WithParentTyped ==
  ASSUME NEW D, NEW v, Typed(v, D), NEW p \in D, NEW e \in Entry
  PROVE  Typed(WithParent(v, p, e), D)
  <1> DEFINE w == WithParent(v, p, e)
  <1>1. /\ Fields(w)
        /\ w.joined = v.joined /\ w.version = v.version /\ w.rank = v.rank
        /\ w.min_rank = v.min_rank /\ w.preferred = v.preferred /\ w.route = v.route
        /\ DOMAIN w.parents = DOMAIN v.parents \cup {p}
        /\ w.parents[p] = e
        /\ \A q \in DOMAIN v.parents : q # p => w.parents[q] = v.parents[q]
    BY WithParentIs DEF Typed
  <1> HIDE DEF w
  <1>2. \A q \in DOMAIN w.parents : w.parents[q] \in Entry
    BY <1>1 DEF Typed
  <1> QED
    BY <1>1, <1>2 DEF Typed, w

\* What is true of the preferred parent does not depend on the other entries.
LEMMA WithParentGood ==
  ASSUME NEW D, NEW v, Typed(v, D), Good(v), NEW p, NEW e, v.preferred # p
  PROVE  Good(WithParent(v, p, e))
  <1> DEFINE w == WithParent(v, p, e)
  <1>1. /\ w.rank = v.rank /\ w.min_rank = v.min_rank
        /\ w.preferred = v.preferred /\ w.route = v.route
        /\ \A q \in DOMAIN v.parents : q # p => w.parents[q] = v.parents[q]
    BY WithParentIs DEF Typed
  <1> HIDE DEF w
  <1>2. v.preferred # None => w.parents[v.preferred] = v.parents[v.preferred]
    BY <1>1 DEF Typed
  <1>3. RankGiven(w)
    BY <1>1, <1>2 DEF Good, RankGiven
  <1>4. RouteKept(w)
    BY <1>1, <1>2 DEF Good, RouteKept
  <1> QED
    BY <1>3, <1>4 DEF Good, w

-----------------------------------------------------------------------------
(* Walks over the table *)

\* A set of numbers that is not empty has a least one.
LEMMA LeastNumber ==
  ASSUME NEW T, T \subseteq Nat, T # {}
  PROVE  \E x \in T : \A y \in T : x <= y
  <1> DEFINE I == {1 .. n : n \in T}
             F == FiniteSubsetsOf(Nat)
  <1>1. I \subseteq F
    <2> SUFFICES ASSUME NEW n \in T PROVE 1 .. n \in F
      OBVIOUS
    <2>1. IsFiniteSet(1 .. n)
      BY FS_Interval
    <2> QED
      BY <2>1 DEF FiniteSubsetsOf
  <1>2. IsWellFoundedOn(StrictSubsetOrdering(Nat), F)
    BY FS_StrictSubsetOrderingWellFounded
  <1>3. \E s \in I : \A t \in I : ~(<<t, s>> \in StrictSubsetOrdering(Nat))
    <2> HIDE DEF F
    <2>1. I # {}
      OBVIOUS
    <2> HIDE DEF I
    <2> QED
      BY <1>1, <1>2, <2>1, WFMin
  <1>4. \A s \in I : s \subseteq Nat
    BY <1>1 DEF FiniteSubsetsOf
  <1>5. PICK s \in I : \A t \in I : ~(t \subseteq s /\ t # s)
    BY <1>3, <1>4 DEF StrictSubsetOrdering
  <1>6. PICK x \in T : s = 1 .. x
    OBVIOUS
  <1>7. ASSUME NEW y \in T, y < x PROVE FALSE
    <2>1. 1 .. y \subseteq 1 .. x
      BY <1>7
    <2>2. x \in 1 .. x /\ x \notin 1 .. y
      BY <1>7
    <2>3. 1 .. y \in I
      OBVIOUS
    <2> QED
      BY <1>5, <1>6, <2>1, <2>2, <2>3
  <1> QED
    BY <1>7

\* What holds at the start and is kept by each step holds to the end.
LEMMA AlongWalk ==
  ASSUME NEW N \in Nat, NEW S, 0 \in S, \A n \in 0 .. N - 1 : n \in S => n + 1 \in S
  PROVE  0 .. N \subseteq S
  <1> DEFINE T == {n \in 0 .. N : n \notin S}
  <1> SUFFICES ASSUME T # {} PROVE FALSE
    OBVIOUS
  <1>1. PICK x \in T : \A y \in T : x <= y
    <2>1. T \subseteq Nat
      OBVIOUS
    <2> HIDE DEF T
    <2> QED
      BY <2>1, LeastNumber
  <1>2. x # 0 /\ x \in 0 .. N /\ x - 1 \in 0 .. N - 1 /\ (x - 1) + 1 = x
    OBVIOUS
  <1>3. x - 1 \in S
    BY <1>1, <1>2
  <1> QED
    BY <1>2, <1>3

\* h[i] is what step i makes of the result before it.
Follows(h, N, x0, F) == h[0] = x0 /\ \A i \in 1 .. N : h[i] = F[i][h[i - 1]]

\* A walk of N steps, each a function of the one before, exists.
LEMMA WalkExists ==
  ASSUME NEW N \in Nat, NEW S, NEW x0 \in S, NEW F \in [1 .. N -> [S -> S]]
  PROVE  \E h \in [0 .. N -> S] : Follows(h, N, x0, F)
  <1> DEFINE Steps(h, n) == /\ h \in [0 .. n -> S] /\ h[0] = x0
                           /\ \A i \in 1 .. n : h[i] = F[i][h[i - 1]]
             W == {n \in Nat : \E h : Steps(h, n)}
  <1>1. 0 \in W
    <2>1. Steps([i \in 0 .. 0 |-> x0], 0)
      OBVIOUS
    <2> QED
      BY <2>1
  <1>2. ASSUME NEW n \in 0 .. N - 1, n \in W PROVE n + 1 \in W
    <2>1. PICK g : Steps(g, n)
      BY <1>2
    <2> DEFINE next == F[n + 1][g[n]]
               h == [i \in 0 .. n + 1 |-> IF i <= n THEN g[i] ELSE next]
    <2>2. next \in S
      <3>1. n + 1 \in 1 .. N /\ g[n] \in S
        BY <2>1
      <3> QED
        BY <3>1
    <2> HIDE DEF next
    <2>3. /\ h \in [0 .. n + 1 -> S]
          /\ \A i \in 0 .. n : h[i] = g[i]
          /\ h[n + 1] = next
      BY <2>1, <2>2
    <2> HIDE DEF h
    <2>4. ASSUME NEW i \in 1 .. n + 1 PROVE h[i] = F[i][h[i - 1]]
      <3>1. CASE i = n + 1
        <4>1. i - 1 = n /\ n \in 0 .. n
          BY <3>1
        <4>2. h[i - 1] = g[n]
          BY <2>3, <4>1
        <4> QED
          BY <2>3, <3>1, <4>2 DEF next
      <3>2. CASE i # n + 1
        <4>1. i \in 1 .. n /\ i \in 0 .. n /\ i - 1 \in 0 .. n
          BY <3>2
        <4> QED
          BY <2>1, <2>3, <4>1
      <3> QED
        BY <3>1, <3>2
    <2>5. Steps(h, n + 1)
      BY <2>1, <2>3, <2>4
    <2> HIDE DEF Steps
    <2>6. n + 1 \in Nat
      OBVIOUS
    <2> QED
      BY <2>5, <2>6
  <1> HIDE DEF W
  <1>3. 0 .. N \subseteq W
    BY <1>1, <1>2, AlongWalk
  <1> QED
    BY <1>3 DEF W, Follows

\* The sequences of a finite set have its members in them.
LEMMA SeqsOf ==
  ASSUME NEW T, IsFiniteSet(T), NEW walk \in SetToSeqs(T)
  PROVE  Len(walk) \in Nat /\ \A i \in 1 .. Len(walk) : walk[i] \in T
  <1>1. Cardinality(T) \in Nat
    BY FS_CardinalityType
  <1>2. walk \in [1 .. Cardinality(T) -> T]
    BY DEF SetToSeqs
  <1>3. Len(walk) = Cardinality(T)
    BY <1>1, <1>2
  <1> QED
    BY <1>1, <1>2, <1>3

Usable(v) == {p \in DOMAIN v.parents : v.parents[p].rank # InfiniteRank}

Walk(v, walk, best) ==
    best = [i \in 0 .. Len(walk) |->
              IF i = 0 THEN None
              ELSE IF best[i - 1] = None THEN walk[i]
              ELSE BetterParent(v, best[i - 1], walk[i])]

\* The walk for the best parent comes back with one that has a rank, or none.
LEMMA BestParentsIs ==
  ASSUME NEW v, IsFiniteSet(DOMAIN v.parents), NEW b \in BestParents(v)
  PROVE  b = None \/ b \in Usable(v)
  <1>1. IsFiniteSet(Usable(v))
    BY FS_Subset DEF Usable
  <1>2. PICK walk \in SetToSeqs(Usable(v)) : b = (CHOOSE h : Walk(v, walk, h))[Len(walk)]
    BY DEF BestParents, Usable, Walk
  <1> DEFINE N == Len(walk)
             S == Usable(v) \cup {None}
             F == [i \in 1 .. N |-> [p \in S |->
                     IF p = None THEN walk[i] ELSE BetterParent(v, p, walk[i])]]
  <1>3. N \in Nat /\ \A i \in 1 .. N : walk[i] \in Usable(v)
    BY <1>1, SeqsOf
  <1>4. \A p, q \in Usable(v) : BetterParent(v, p, q) \in Usable(v)
    BY DEF BetterParent
  <1> HIDE DEF N
  <1>5. F \in [1 .. N -> [S -> S]]
    <2> SUFFICES ASSUME NEW i \in 1 .. N, NEW p \in S
                 PROVE  (IF p = None THEN walk[i] ELSE BetterParent(v, p, walk[i])) \in S
      OBVIOUS
    <2> QED
      BY <1>3, <1>4
  <1>6. \A i \in 1 .. N, p \in S :
          F[i][p] = IF p = None THEN walk[i] ELSE BetterParent(v, p, walk[i])
    OBVIOUS
  <1>7. PICK h \in [0 .. N -> S] : Follows(h, N, None, F)
    <2>1. None \in S /\ N \in Nat
      BY <1>3
    <2> HIDE DEF F, S
    <2> QED
      BY <1>5, <2>1, WalkExists
  <1> HIDE DEF F
  <1>8. Walk(v, walk, h)
    <2>1. ASSUME NEW i \in 0 .. N
          PROVE  h[i] = IF i = 0 THEN None
                        ELSE IF h[i - 1] = None THEN walk[i]
                        ELSE BetterParent(v, h[i - 1], walk[i])
      <3>1. CASE i = 0
        BY <1>7, <3>1 DEF Follows
      <3>2. CASE i # 0
        <4>1. i \in 1 .. N /\ i - 1 \in 0 .. N
          BY <1>3, <3>2
        <4>2. h[i - 1] \in S
          BY <1>7, <4>1
        <4> QED
          BY <1>6, <1>7, <3>2, <4>1, <4>2 DEF Follows
      <3> QED
        BY <3>1, <3>2
    <2>2. h = [i \in 0 .. N |-> h[i]]
      BY <1>7
    <2>3. h = [i \in 0 .. N |-> IF i = 0 THEN None
                        ELSE IF h[i - 1] = None THEN walk[i]
                        ELSE BetterParent(v, h[i - 1], walk[i])]
      BY <2>1, <2>2
    <2> QED
      BY <2>3 DEF Walk, N
  <1> DEFINE c == CHOOSE g : Walk(v, walk, g)
             G == {i \in 0 .. N : c[i] \in S}
  <1>9. Walk(v, walk, c)
    BY <1>8
  <1> HIDE DEF c
  <1>10. \A i \in 0 .. N : c[i] = IF i = 0 THEN None
                        ELSE IF c[i - 1] = None THEN walk[i]
                        ELSE BetterParent(v, c[i - 1], walk[i])
    BY <1>9 DEF Walk, N
  <1>11. 0 \in G
    BY <1>3, <1>10
  <1>12. ASSUME NEW n \in 0 .. N - 1, n \in G PROVE n + 1 \in G
    <2>1. n + 1 \in 0 .. N /\ n + 1 \in 1 .. N /\ n + 1 # 0 /\ (n + 1) - 1 = n
      BY <1>3
    <2>2. c[n] \in S
      BY <1>12
    <2>3. c[n + 1] = IF c[n] = None THEN walk[n + 1] ELSE BetterParent(v, c[n], walk[n + 1])
      BY <1>10, <2>1
    <2> QED
      BY <1>3, <1>4, <2>1, <2>2, <2>3
  <1>13. N \in G
    <2> HIDE DEF G
    <2>1. 0 .. N \subseteq G
      BY <1>3, <1>11, <1>12, AlongWalk
    <2> QED
      BY <1>3, <2>1
  <1> QED
    BY <1>2, <1>13 DEF c, N

-----------------------------------------------------------------------------
(* The preferred parent *)

\* A station without a parent keeps what is expected of it.
LEMMA AloneIsGood ==
  ASSUME NEW v, v.preferred = None, v.route = None
  PROVE  Good(v)
  BY DEF Good, RankGiven, RouteKept

\* rpl_local_repair leaves the parents, and none is preferred.
LEMMA LocalRepairIs ==
  ASSUME NEW D, NEW v, Typed(v, D)
  PROVE  LET w == LocalRepair(v)
         IN  /\ Typed(w, D) /\ w.preferred = None /\ w.route = None
             /\ w.joined = v.joined /\ w.version = v.version /\ w.parents = v.parents
             /\ w.min_rank = v.min_rank /\ w.rank = InfiniteRank
  <1> DEFINE w == LocalRepair(v)
  <1>1. DOMAIN v.parents = {} => v.preferred = None /\ v.route = None
    BY DEF Typed
  <1>2. w = [joined |-> v.joined, version |-> v.version, rank |-> InfiniteRank,
             min_rank |-> v.min_rank, preferred |-> None, route |-> None,
             parents |-> v.parents]
    <2>1. CASE DOMAIN v.parents = {}
      <3>1. w = [v EXCEPT !.rank = InfiniteRank]
        BY <2>1 DEF LocalRepair
      <3> HIDE DEF w
      <3> QED
        BY <1>1, <2>1, <3>1 DEF Typed, Fields
    <2>2. CASE DOMAIN v.parents # {}
      <3>1. w = [v EXCEPT !.rank = InfiniteRank, !.preferred = None, !.route = None]
        BY <2>2 DEF LocalRepair
      <3> HIDE DEF w
      <3> QED
        BY <3>1 DEF Typed, Fields
    <2> QED
      BY <2>1, <2>2
  <1> HIDE DEF w
  <1>3. /\ w.joined = v.joined /\ w.version = v.version /\ w.rank = InfiniteRank
        /\ w.min_rank = v.min_rank /\ w.preferred = None /\ w.route = None
        /\ w.parents = v.parents
    BY <1>2
  <1>4. Fields(w)
    BY <1>2, <1>3 DEF Fields
  <1>5. InfiniteRank \in Ranks
    BY RplAssumption DEF Ranks
  <1> QED
    BY <1>3, <1>4, <1>5 DEF Typed, w

\* rpl_nullify_parent does that to a preferred parent only.
LEMMA NullifyParentIs ==
  ASSUME NEW D, NEW v, Typed(v, D), NEW p
  PROVE  LET w == NullifyParent(v, p)
         IN  IF v.preferred \in {p, None}
             THEN /\ Typed(w, D) /\ w.preferred = None /\ w.route = None
                  /\ w.joined = v.joined /\ w.version = v.version
                  /\ w.parents = v.parents
             ELSE w = v
  <1> SUFFICES ASSUME v.preferred \in {p, None}
               PROVE  LET w == NullifyParent(v, p)
                      IN  /\ Typed(w, D) /\ w.preferred = None /\ w.route = None
                          /\ w.joined = v.joined /\ w.version = v.version
                          /\ w.parents = v.parents
    BY DEF NullifyParent
  <1> DEFINE w == NullifyParent(v, p)
  <1>1. w = [v EXCEPT !.preferred = None, !.rank = InfiniteRank, !.route = None]
    BY DEF NullifyParent
  <1> HIDE DEF w
  <1>2. w = [joined |-> v.joined, version |-> v.version, rank |-> InfiniteRank,
             min_rank |-> v.min_rank, preferred |-> None, route |-> None,
             parents |-> v.parents]
    BY <1>1 DEF Typed, Fields
  <1>3. /\ w.joined = v.joined /\ w.version = v.version /\ w.rank = InfiniteRank
        /\ w.min_rank = v.min_rank /\ w.preferred = None /\ w.route = None
        /\ w.parents = v.parents
    BY <1>2
  <1>4. Fields(w)
    BY <1>2, <1>3 DEF Fields
  <1>5. InfiniteRank \in Ranks
    BY RplAssumption DEF Ranks
  <1> QED
    BY <1>3, <1>4, <1>5 DEF Typed, w

\* rpl_select_dag takes the best parent with the rank it gives, and the route to it;
\* or it has no parent that will do.
LEMMA SelectDagIs ==
  ASSUME NEW D, NEW v, Typed(v, D), NEW best, best = None \/ best \in DOMAIN v.parents
  PROVE  LET s == SelectDag(v, best)
             w == s.dag
         IN  /\ s = [kept |-> s.kept, dag |-> w] /\ s.kept \in BOOLEAN
             /\ Typed(w, D)
             /\ w.joined = v.joined /\ w.version = v.version /\ w.parents = v.parents
             /\ s.kept => /\ best # None /\ w.preferred = best
                          /\ w.rank = CalculateRank(v.parents[best])
                          /\ w.route = IF best # v.preferred THEN best ELSE v.route
  <1> DEFINE rank == CalculateRank(v.parents[best])
             s == SelectDag(v, best)
             w == s.dag
  <1>1. CASE best = None
    <2>1. s = [kept |-> FALSE, dag |-> v]
      BY <1>1 DEF SelectDag
    <2> HIDE DEF s
    <2>2. w = v /\ s.kept = FALSE
      BY <2>1
    <2> QED
      BY <2>1, <2>2 DEF s
  <1>2. CASE best # None
    <2>1. best \in DOMAIN v.parents /\ rank \in Ranks
      BY <1>2, CalculateRankIs DEF Typed
    <2> DEFINE route == IF best # v.preferred THEN best ELSE v.route
               chosen == [v EXCEPT !.preferred = best, !.rank = rank,
                            !.route = IF best # v.preferred THEN best ELSE @]
               lowest == [chosen EXCEPT !.min_rank = rank]
               none == [v EXCEPT !.preferred = None, !.rank = rank]
    <2>2. s = IF v.preferred = None \/ rank < v.min_rank
              THEN [kept |-> TRUE, dag |-> lowest]
              ELSE IF AcceptableRank(v, rank) THEN [kept |-> TRUE, dag |-> chosen]
              ELSE [kept |-> FALSE, dag |-> none]
      <3>1. rank \in Int /\ v.min_rank \in Int
        BY <2>1, RplAssumption DEF Typed, Ranks
      <3>2. CASE v.preferred = None \/ rank < v.min_rank
        <4>1. (v.preferred = None \/ rank < v.min_rank)
                /\ ~(v.preferred # None /\ rank >= v.min_rank)
          <5> HIDE DEF rank
          <5> QED
            BY <3>1, <3>2
        <4>2. s = [kept |-> TRUE, dag |-> lowest]
          BY <1>2, <4>1, Zenon DEF SelectDag
        <4> QED
          BY <3>2, <4>2, Zenon
      <3>3. CASE ~(v.preferred = None \/ rank < v.min_rank)
        <4>1. v.preferred # None /\ rank >= v.min_rank /\ ~(rank < v.min_rank)
          <5> HIDE DEF rank
          <5> QED
            BY <3>1, <3>3
        <4> QED
          BY <1>2, <3>3, <4>1, Zenon DEF SelectDag
      <3> QED
        BY <3>2, <3>3
    <2> HIDE DEF s, rank
    <2>3. route \in DOMAIN v.parents \cup {None}
      BY <2>1 DEF Typed
    <2>4. chosen = [joined |-> v.joined, version |-> v.version, rank |-> rank,
                    min_rank |-> v.min_rank, preferred |-> best, route |-> route,
                    parents |-> v.parents]
      <3>1. chosen = [v EXCEPT !.preferred = best, !.rank = rank, !.route = route]
        OBVIOUS
      <3> HIDE DEF route, chosen
      <3> QED
        BY <3>1 DEF Typed, Fields
    <2>5. none = [joined |-> v.joined, version |-> v.version, rank |-> rank,
                  min_rank |-> v.min_rank, preferred |-> None, route |-> v.route,
                  parents |-> v.parents]
      <3>1. none = [v EXCEPT !.preferred = None, !.rank = rank]
        OBVIOUS
      <3> HIDE DEF none
      <3> QED
        BY <3>1 DEF Typed, Fields
    <2> HIDE DEF route, chosen, none
    <2>6. lowest = [joined |-> v.joined, version |-> v.version, rank |-> rank,
                    min_rank |-> rank, preferred |-> best, route |-> route,
                    parents |-> v.parents]
      BY <2>4
    <2> HIDE DEF lowest
    <2>7. CASE v.preferred = None \/ rank < v.min_rank
      <3>1. s = [kept |-> TRUE, dag |-> lowest] /\ w = lowest /\ s.kept = TRUE
        BY <2>2, <2>7
      <3>2. /\ w.joined = v.joined /\ w.version = v.version /\ w.rank = rank
            /\ w.min_rank = rank /\ w.preferred = best /\ w.route = route
            /\ w.parents = v.parents
        BY <2>6, <3>1
      <3> HIDE DEF w
      <3>3. Fields(w)
        BY <2>6, <3>1, <3>2 DEF Fields
      <3>4. Typed(w, D)
        BY <2>1, <2>3, <3>2, <3>3 DEF Typed
      <3> QED
        BY <1>2, <3>1, <3>2, <3>4 DEF s, w, rank, route
    <2>8. CASE ~(v.preferred = None \/ rank < v.min_rank) /\ AcceptableRank(v, rank)
      <3>1. s = [kept |-> TRUE, dag |-> chosen] /\ w = chosen /\ s.kept = TRUE
        BY <2>2, <2>8
      <3>2. /\ w.joined = v.joined /\ w.version = v.version /\ w.rank = rank
            /\ w.min_rank = v.min_rank /\ w.preferred = best /\ w.route = route
            /\ w.parents = v.parents
        BY <2>4, <3>1
      <3> HIDE DEF w
      <3>3. Fields(w)
        BY <2>4, <3>1, <3>2 DEF Fields
      <3>4. Typed(w, D)
        BY <2>1, <2>3, <3>2, <3>3 DEF Typed
      <3> QED
        BY <1>2, <3>1, <3>2, <3>4 DEF s, w, rank, route
    <2>9. CASE ~(v.preferred = None \/ rank < v.min_rank) /\ ~AcceptableRank(v, rank)
      <3>1. s = [kept |-> FALSE, dag |-> none] /\ w = none /\ s.kept = FALSE
        BY <2>2, <2>9
      <3>2. /\ w.joined = v.joined /\ w.version = v.version /\ w.rank = rank
            /\ w.min_rank = v.min_rank /\ w.preferred = None /\ w.route = v.route
            /\ w.parents = v.parents
        BY <2>5, <3>1
      <3> HIDE DEF w
      <3>3. Fields(w)
        BY <2>5, <3>1, <3>2 DEF Fields
      <3>4. Typed(w, D)
        BY <2>1, <3>2, <3>3 DEF Typed
      <3> QED
        BY <3>1, <3>2, <3>4 DEF s, w
    <2> QED
      BY <2>7, <2>8, <2>9
  <1> QED
    BY <1>1, <1>2

\* What may be wrong when the entry of p has just changed: the rank given by p, and
\* that there is no route to it although it may be usable again.
Changed(v, p) ==
    /\ p \in DOMAIN v.parents
    /\ v.preferred # p => RankGiven(v) /\ RouteKept(v)
    /\ v.preferred = p => v.route \in {p, None}

\* The route is still missing: the parent without one is usable again.
Unrouted(v, p, s) ==
    /\ s.kept /\ s.dag.preferred = p /\ v.preferred = p
    /\ v.route = None /\ v.parents[p].rank # InfiniteRank

\* rpl_process_parent_event puts right what the change of an entry upset.
LEMMA ProcessParentEventIs ==
  ASSUME NEW D, D \subseteq Nodes, NEW v, Typed(v, D), NEW p, Changed(v, p),
         NEW s \in ProcessParentEvent(v, p)
  PROVE  /\ Typed(s.dag, D)
         /\ s.dag.joined = v.joined /\ s.dag.version = v.version
         /\ s.dag.parents = v.parents
         /\ RankGiven(s.dag)
         /\ RouteKept(s.dag) \/ (Unrouted(v, p, s) /\ s.dag.route = None)
  <1>1. p \in DOMAIN v.parents /\ None \notin DOMAIN v.parents /\ IsFiniteSet(DOMAIN v.parents)
    <2>1. DOMAIN v.parents \subseteq Nodes
      BY DEF Typed
    <2> QED
      BY <2>1, RplAssumption, FS_Subset DEF Changed
  <1>2. CASE ~AcceptableRank(v, v.parents[p].rank)
    <2>1. s = [kept |-> FALSE, dag |-> NullifyParent(v, p)]
      BY <1>2 DEF ProcessParentEvent
    <2>2. s.dag = NullifyParent(v, p)
      BY <2>1
    <2>3. CASE v.preferred \in {p, None}
      <3>1. /\ Typed(s.dag, D) /\ s.dag.preferred = None /\ s.dag.route = None
            /\ s.dag.joined = v.joined /\ s.dag.version = v.version
            /\ s.dag.parents = v.parents
        BY <2>2, <2>3, NullifyParentIs
      <3> QED
        BY <3>1, AloneIsGood DEF Good
    <2>4. CASE v.preferred \notin {p, None}
      <3>1. s.dag = v
        BY <2>2, <2>4, NullifyParentIs
      <3> QED
        BY <2>4, <3>1 DEF Changed
    <2> QED
      BY <2>3, <2>4
  <1>3. CASE AcceptableRank(v, v.parents[p].rank)
    <2>1. v.parents[p].rank # InfiniteRank
      BY <1>3 DEF AcceptableRank
    <2>2. PICK best \in BestParents(v) :
             s = IF SelectDag(v, best).kept THEN SelectDag(v, best)
                 ELSE [SelectDag(v, best) EXCEPT !.dag = LocalRepair(@)]
      BY <1>3 DEF ProcessParentEvent
    <2>3. best = None \/ best \in Usable(v)
      BY <1>1, BestParentsIs
    <2> DEFINE t == SelectDag(v, best)
    <2>4. best = None \/ best \in DOMAIN v.parents
      BY <2>3 DEF Usable
    <2>5. /\ t = [kept |-> t.kept, dag |-> t.dag] /\ t.kept \in BOOLEAN
          /\ Typed(t.dag, D)
          /\ t.dag.joined = v.joined /\ t.dag.version = v.version /\ t.dag.parents = v.parents
          /\ t.kept => /\ best # None /\ t.dag.preferred = best
                       /\ t.dag.rank = CalculateRank(v.parents[best])
                       /\ t.dag.route = IF best # v.preferred THEN best ELSE v.route
      BY <2>4, SelectDagIs
    <2> HIDE DEF t
    <2>6. s = IF t.kept THEN t ELSE [t EXCEPT !.dag = LocalRepair(t.dag)]
      BY <2>2 DEF t
    <2>7. CASE t.kept
      <3>1. s = t
        BY <2>6, <2>7
      <3>2. RankGiven(s.dag)
        BY <2>5, <2>7, <3>1 DEF RankGiven
      <3>3. RouteKept(s.dag) \/ (Unrouted(v, p, s) /\ s.dag.route = None)
        <4>1. CASE best # v.preferred
          BY <2>5, <2>7, <3>1, <4>1 DEF RouteKept
        <4>2. CASE best = v.preferred /\ v.preferred = p
          BY <2>1, <2>5, <2>7, <3>1, <4>2 DEF RouteKept, Unrouted, Changed
        <4>3. CASE best = v.preferred /\ v.preferred # p
          <5>1. v.parents[v.preferred].rank # InfiniteRank
            BY <2>3, <2>5, <2>7, <4>3 DEF Usable
          <5> QED
            BY <2>5, <2>7, <3>1, <4>3, <5>1 DEF RouteKept, Changed
        <4> QED
          BY <4>1, <4>2, <4>3
      <3> QED
        BY <2>5, <2>7, <3>1, <3>2, <3>3
    <2>8. CASE ~t.kept
      <3>1. s.dag = LocalRepair(t.dag)
        BY <2>5, <2>6, <2>8
      <3>2. /\ Typed(s.dag, D) /\ s.dag.preferred = None /\ s.dag.route = None
            /\ s.dag.joined = v.joined /\ s.dag.version = v.version
            /\ s.dag.parents = v.parents
        BY <2>5, <3>1, LocalRepairIs
      <3> QED
        BY <3>2, AloneIsGood DEF Good
    <2> QED
      BY <2>7, <2>8
  <1> QED
    BY <1>2, <1>3

-----------------------------------------------------------------------------
(* The handlers *)

Fine(v, D) == Typed(v, D) /\ Good(v)

\* An entry that is not the preferred parent's may be filled in anew.
LEMMA NewEntryIsChanged ==
  ASSUME NEW D, D \subseteq Nodes, NEW v, Fine(v, D), NEW p \in D, NEW e \in Entry,
         v.preferred # p
  PROVE  LET w == WithParent(v, p, e)
         IN  /\ Typed(w, D) /\ Changed(w, p)
             /\ w.preferred = v.preferred
  <1> DEFINE w == WithParent(v, p, e)
  <1>1. Typed(w, D) /\ Good(w)
    BY WithParentTyped, WithParentGood DEF Fine
  <1>2. w.preferred = v.preferred /\ DOMAIN w.parents = DOMAIN v.parents \cup {p}
    BY WithParentIs DEF Fine, Typed
  <1> HIDE DEF w
  <1> QED
    BY <1>1, <1>2 DEF Changed, Good, w

\* So may the preferred parent's, and what it upsets is said by Changed.
LEMMA EntryIsChanged ==
  ASSUME NEW D, D \subseteq Nodes, NEW v, Fine(v, D), NEW p \in DOMAIN v.parents,
         NEW e \in Entry
  PROVE  LET w == WithParent(v, p, e)
         IN  /\ Typed(w, D) /\ Changed(w, p)
             /\ w.preferred = v.preferred /\ w.route = v.route
             /\ w.parents[p] = e
             /\ DOMAIN w.parents = DOMAIN v.parents
  <1> DEFINE w == WithParent(v, p, e)
  <1>0. p \in D /\ Typed(v, D) /\ Good(v) /\ Fields(v)
    BY DEF Fine, Typed
  <1>1. Typed(w, D)
    BY <1>0, WithParentTyped
  <1>2. v.preferred # p => Good(w)
    BY <1>0, WithParentGood
  <1>3. /\ w.rank = v.rank /\ w.min_rank = v.min_rank
        /\ w.preferred = v.preferred /\ w.route = v.route
        /\ w.parents[p] = e
        /\ DOMAIN w.parents = DOMAIN v.parents \cup {p}
        /\ \A q \in DOMAIN v.parents : q # p => w.parents[q] = v.parents[q]
    BY <1>0, WithParentIs
  <1> HIDE DEF w
  <1>4. DOMAIN w.parents = DOMAIN v.parents
    BY <1>3
  <1>6. v.preferred = p => w.route \in {p, None}
    BY <1>0, <1>3 DEF Good, RouteKept
  <1>7. Changed(w, p)
    BY <1>2, <1>3, <1>4, <1>6 DEF Changed, Good
  <1> QED
    BY <1>1, <1>3, <1>4, <1>7 DEF w

\* An entry that is looked at again leaves all as it should be.
LEMMA RefreshedIs ==
  ASSUME NEW D, D \subseteq Nodes, NEW v, Fine(v, D), NEW p \in DOMAIN v.parents,
         NEW w \in Refreshed(v, p)
  PROVE  Fine(w, D) /\ DOMAIN w.parents = DOMAIN v.parents
  <1> DEFINE e == [v.parents[p] EXCEPT !.updated = FALSE]
             u == WithParent(v, p, e)
  <1>1. PICK s \in ProcessParentEvent(u, p) : w = s.dag
    BY DEF Refreshed
  <1>2. v.parents[p] \in Entry
    BY DEF Fine, Typed
  <1>3. e \in Entry /\ e.rank = v.parents[p].rank
    BY <1>2 DEF Entry
  <1> HIDE DEF e
  <1>4. /\ Typed(u, D) /\ Changed(u, p)
        /\ u.preferred = v.preferred /\ u.route = v.route
        /\ u.parents[p] = e /\ DOMAIN u.parents = DOMAIN v.parents
    BY <1>3, EntryIsChanged
  <1> HIDE DEF u
  <1>5. /\ Typed(s.dag, D) /\ s.dag.parents = u.parents
        /\ RankGiven(s.dag)
        /\ RouteKept(s.dag) \/ Unrouted(u, p, s)
    BY <1>4, ProcessParentEventIs
  <1>6. ~Unrouted(u, p, s)
    <2>1. p # None
      BY RplAssumption DEF Fine, Typed
    <2> QED
      BY <1>3, <1>4, <2>1 DEF Unrouted, Fine, Good, RouteKept
  <1> QED
    BY <1>1, <1>4, <1>5, <1>6 DEF Fine, Good

Dags(v, walk, h, n) ==
    h = [i \in 0 .. n |->
           IF i = 0 THEN {v} ELSE UNION {Refreshed(w, walk[i]) : w \in h[i - 1]}]

\* The recursion over the marked entries has its value.
LEMMA DagsExist ==
  ASSUME NEW v, NEW walk, NEW N \in Nat
  PROVE  \E h : Dags(v, walk, h, N)
  <1> DEFINE W == {n \in Nat : \E h : Dags(v, walk, h, n)}
  <1>1. 0 \in W
    <2>1. Dags(v, walk, [i \in 0 .. 0 |-> {v}], 0)
      BY DEF Dags
    <2> QED
      BY <2>1
  <1>2. ASSUME NEW n \in 0 .. N - 1, n \in W PROVE n + 1 \in W
    <2>1. PICK g : Dags(v, walk, g, n)
      BY <1>2
    <2> DEFINE next == UNION {Refreshed(w, walk[n + 1]) : w \in g[n]}
               h == [i \in 0 .. n + 1 |-> IF i <= n THEN g[i] ELSE next]
    <2>2. /\ n \in Nat /\ h = [i \in 0 .. n + 1 |-> h[i]]
          /\ \A i \in 0 .. n : h[i] = g[i]
          /\ h[n + 1] = next
      OBVIOUS
    <2> HIDE DEF h
    <2>3. \A i \in 0 .. n : g[i] =
            IF i = 0 THEN {v} ELSE UNION {Refreshed(w, walk[i]) : w \in g[i - 1]}
      BY <2>1 DEF Dags
    <2>4. ASSUME NEW i \in 0 .. n + 1
          PROVE  h[i] = IF i = 0 THEN {v} ELSE UNION {Refreshed(w, walk[i]) : w \in h[i - 1]}
      <3>1. CASE i = n + 1
        <4>1. i # 0 /\ i - 1 = n /\ n \in 0 .. n
          BY <2>2, <3>1
        <4>2. h[i - 1] = g[n]
          BY <2>2, <4>1
        <4> QED
          BY <2>2, <3>1, <4>1, <4>2
      <3>2. CASE i = 0
        <4>1. 0 \in 0 .. n /\ h[0] = g[0]
          BY <2>2
        <4>2. g[0] = {v}
          BY <2>3, <4>1
        <4> QED
          BY <3>2, <4>1, <4>2
      <3>3. CASE i # n + 1 /\ i # 0
        <4>1. i \in 0 .. n /\ i - 1 \in 0 .. n
          BY <2>2, <3>3
        <4>2. h[i] = g[i] /\ h[i - 1] = g[i - 1]
          BY <2>2, <4>1
        <4> QED
          BY <2>3, <3>3, <4>1, <4>2
      <3> QED
        BY <3>1, <3>2, <3>3
    <2> HIDE DEF next
    <2>5. Dags(v, walk, h, n + 1)
      BY <2>2, <2>4 DEF Dags
    <2>6. n + 1 \in Nat
      OBVIOUS
    <2> QED
      BY <2>5, <2>6
  <1> HIDE DEF W
  <1>3. 0 .. N \subseteq W
    BY <1>1, <1>2, AlongWalk
  <1>4. N \in W
    BY <1>3
  <1> QED
    BY <1>4 DEF W

\* rpl_recalculate_ranks leaves all as it should be, whatever the order.
LEMMA RecalculateRanksIs ==
  ASSUME NEW D, D \subseteq Nodes, NEW v, Fine(v, D),
         NEW walk \in SetToSeqs(Marked(v)), NEW w \in RecalculateRanks(v, walk)
  PROVE  Fine(w, D)
  <1> DEFINE N == Len(walk)
             Ok(u) == Fine(u, D) /\ DOMAIN u.parents = DOMAIN v.parents
  <1>1. N \in Nat /\ \A i \in 1 .. N : walk[i] \in DOMAIN v.parents
    <2>1. DOMAIN v.parents \subseteq Nodes
      BY DEF Fine, Typed
    <2>2. IsFiniteSet(Marked(v))
      BY <2>1, RplAssumption, FS_Subset DEF Marked
    <2> QED
      BY <2>2, SeqsOf DEF Marked
  <1> HIDE DEF N
  <1> DEFINE h == CHOOSE g : Dags(v, walk, g, N)
             G == {i \in 0 .. N : \A u \in h[i] : Ok(u)}
  <1>2. w \in h[N]
    BY DEF RecalculateRanks, Dags, N
  <1>3. Dags(v, walk, h, N)
    BY <1>1, DagsExist
  <1> HIDE DEF h
  <1>4. \A i \in 0 .. N : h[i] =
          IF i = 0 THEN {v} ELSE UNION {Refreshed(u, walk[i]) : u \in h[i - 1]}
    BY <1>3 DEF Dags
  <1>5. 0 \in G
    <2>1. 0 \in 0 .. N
      BY <1>1
    <2>2. h[0] = {v}
      BY <1>4, <2>1
    <2> QED
      BY <2>1, <2>2
  <1>6. ASSUME NEW n \in 0 .. N - 1, n \in G PROVE n + 1 \in G
    <2>1. n + 1 \in 0 .. N /\ n + 1 \in 1 .. N /\ n + 1 # 0 /\ (n + 1) - 1 = n
      BY <1>1
    <2>2. h[n + 1] = UNION {Refreshed(u, walk[n + 1]) : u \in h[n]}
      BY <1>4, <2>1
    <2>3. ASSUME NEW x \in h[n + 1] PROVE Ok(x)
      <3>1. PICK u \in h[n] : x \in Refreshed(u, walk[n + 1])
        BY <2>2, <2>3
      <3>2. Ok(u) /\ walk[n + 1] \in DOMAIN u.parents
        BY <1>1, <1>6, <2>1
      <3> QED
        BY <3>1, <3>2, RefreshedIs
    <2> QED
      BY <2>1, <2>3
  <1>7. N \in G
    <2> HIDE DEF G
    <2>1. 0 .. N \subseteq G
      BY <1>1, <1>5, <1>6, AlongWalk
    <2> QED
      BY <1>1, <2>1
  <1> QED
    BY <1>2, <1>7

\* Callbacks of the neighbour cache and of the link.
LEMMA MarkedEntry ==
  ASSUME NEW D, D \subseteq Nodes, NEW v, Fine(v, D), NEW p \in DOMAIN v.parents,
         NEW e \in Entry, e.updated = TRUE,
         e.rank = v.parents[p].rank \/ e.rank = InfiniteRank
  PROVE  Fine(WithParent(v, p, e), D)
  <1> DEFINE w == WithParent(v, p, e)
  <1>1. /\ Typed(w, D) /\ Changed(w, p)
        /\ w.preferred = v.preferred /\ w.route = v.route
        /\ w.parents[p] = e
    <2> HIDE DEF w
    <2>1. \A x \in Entry : /\ Typed(WithParent(v, p, x), D) /\ Changed(WithParent(v, p, x), p)
                            /\ WithParent(v, p, x).preferred = v.preferred
                            /\ WithParent(v, p, x).route = v.route
                            /\ WithParent(v, p, x).parents[p] = x
      BY EntryIsChanged
    <2> QED
      BY <2>1 DEF w
  <1> HIDE DEF w
  <1>2. CASE v.preferred # p
    BY <1>1, <1>2 DEF Fine, Good, Changed, w
  <1>3. CASE v.preferred = p
    <2>1. RankGiven(w)
      BY <1>1, <1>3 DEF RankGiven
    <2>2. RouteKept(w)
      BY <1>1, <1>3 DEF RouteKept, Fine, Good
    <2> QED
      BY <1>1, <2>1, <2>2 DEF Fine, Good, Changed, w
  <1> QED
    BY <1>2, <1>3

LEMMA SuspectIs ==
  ASSUME NEW D, D \subseteq Nodes, NEW v, Fine(v, D), NEW p
  PROVE  Fine(Suspect(v, p), D)
  <1>1. CASE p \in DOMAIN v.parents /\ v.parents[p].known
    <2> DEFINE e == [v.parents[p] EXCEPT !.rank = InfiniteRank, !.updated = TRUE]
    <2>1. v.parents[p] \in Entry /\ InfiniteRank \in Ranks
      BY <1>1, RplAssumption DEF Fine, Typed, Ranks
    <2>2. e \in Entry /\ e.updated = TRUE /\ e.rank = InfiniteRank
      BY <2>1 DEF Entry
    <2>3. Suspect(v, p) = WithParent(v, p, e)
      BY <1>1 DEF Suspect
    <2> HIDE DEF e
    <2> QED
      BY <1>1, <2>2, <2>3, MarkedEntry
  <1>2. CASE ~(p \in DOMAIN v.parents /\ v.parents[p].known)
    BY <1>2 DEF Suspect
  <1> QED
    BY <1>1, <1>2

LEMMA KnownIs ==
  ASSUME NEW D, D \subseteq Nodes, NEW v, Fine(v, D), NEW p
  PROVE  /\ Fine(Known(v, p), D)
  <1>1. CASE p \in DOMAIN v.parents /\ ~v.parents[p].known
    <2> DEFINE a == [v.parents[p] EXCEPT !.known = TRUE]
               u == WithParent(v, p, a)
               e == [u.parents[p] EXCEPT !.rank = InfiniteRank, !.updated = TRUE]
    <2>1. v.parents[p] \in Entry /\ InfiniteRank \in Ranks
      BY <1>1, RplAssumption DEF Fine, Typed, Ranks
    <2>2. a \in Entry /\ a.known /\ a.rank = v.parents[p].rank
            /\ a.metric = v.parents[p].metric /\ a.updated = v.parents[p].updated
      BY <2>1 DEF Entry
    <2>3. Known(v, p) = Suspect(u, p)
      BY <1>1 DEF Known
    <2> HIDE DEF a
    <2>4. /\ Typed(u, D) /\ Changed(u, p)
          /\ u.preferred = v.preferred /\ u.route = v.route
          /\ u.rank = v.rank
          /\ u.parents[p] = a
      <3>1. u.rank = v.rank
        BY WithParentIs DEF Fine, Typed
      <3> HIDE DEF u
      <3> QED
        BY <1>1, <2>2, <3>1, EntryIsChanged DEF u
    <2> HIDE DEF u
    \* Whether a neighbour is known matters to none of the properties.
    <2>5. Good(u)
      <3>1. CASE v.preferred # p
        BY <2>4, <3>1 DEF Changed, Good
      <3>2. CASE v.preferred = p
        <4>1. CalculateRank(a) = CalculateRank(v.parents[p])
          BY <2>2 DEF CalculateRank
        <4>2. RankGiven(u)
          BY <2>2, <2>4, <3>2, <4>1 DEF RankGiven, Fine, Good
        <4>3. RouteKept(u)
          BY <2>2, <2>4, <3>2 DEF RouteKept, Fine, Good
        <4> QED
          BY <2>4, <4>2, <4>3 DEF Changed, Good
      <3> QED
        BY <3>1, <3>2
    <2> QED
      BY <2>3, <2>4, <2>5, SuspectIs DEF Fine
  <1>2. CASE ~(p \in DOMAIN v.parents /\ ~v.parents[p].known)
    BY <1>2 DEF Known
  <1> QED
    BY <1>1, <1>2

LEMMA WithVersion ==
  ASSUME NEW D, NEW v, Fine(v, D), NEW x \in Versions
  PROVE  LET w == [v EXCEPT !.version = x]
         IN  /\ Fine(w, D) /\ w.preferred = v.preferred /\ w.route = v.route
             /\ w.parents = v.parents
  <1> DEFINE w == [v EXCEPT !.version = x]
  <1>0. w = [v EXCEPT !.version = x]
    OBVIOUS
  <1> HIDE DEF w
  <1>1. w = [joined |-> v.joined, version |-> x, rank |-> v.rank,
             min_rank |-> v.min_rank, preferred |-> v.preferred, route |-> v.route,
             parents |-> v.parents]
    BY <1>0 DEF Fine, Typed, Fields
  <1>2. /\ w.joined = v.joined /\ w.version = x /\ w.rank = v.rank
        /\ w.min_rank = v.min_rank /\ w.preferred = v.preferred /\ w.route = v.route
        /\ w.parents = v.parents
    BY <1>1
  <1>3. Fields(w)
    BY <1>1, <1>2 DEF Fields
  <1>4. Typed(w, D)
    BY <1>2, <1>3 DEF Fine, Typed
  <1>5. Good(w)
    BY <1>2 DEF Fine, Good, RankGiven, RouteKept
  <1> QED
    BY <1>2, <1>4, <1>5 DEF Fine, w

LEMMA WithRoute ==
  ASSUME NEW D, NEW v, Typed(v, D), NEW r \in DOMAIN v.parents \cup {None}
  PROVE  LET w == [v EXCEPT !.route = r]
         IN  /\ Typed(w, D) /\ w.route = r
             /\ w.rank = v.rank /\ w.min_rank = v.min_rank
             /\ w.preferred = v.preferred /\ w.parents = v.parents
  <1> DEFINE w == [v EXCEPT !.route = r]
  <1>0. w = [v EXCEPT !.route = r]
    OBVIOUS
  <1> HIDE DEF w
  <1>1. w = [joined |-> v.joined, version |-> v.version, rank |-> v.rank,
             min_rank |-> v.min_rank, preferred |-> v.preferred, route |-> r,
             parents |-> v.parents]
    BY <1>0 DEF Typed, Fields
  <1>2. /\ w.joined = v.joined /\ w.version = v.version /\ w.rank = v.rank
        /\ w.min_rank = v.min_rank /\ w.preferred = v.preferred /\ w.route = r
        /\ w.parents = v.parents
    BY <1>1
  <1>3. Fields(w)
    BY <1>1, <1>2 DEF Fields
  <1>4. Typed(w, D)
    BY <1>2, <1>3 DEF Typed
  <1> QED
    BY <1>2, <1>4 DEF w

LEMMA EntryIsFilled ==
  ASSUME NEW D, NEW v, Typed(v, D), NEW p \in DOMAIN v.parents
  PROVE  \A e \in Entry : /\ WithParent(v, p, e).parents[p] = e
                          /\ DOMAIN WithParent(v, p, e).parents = DOMAIN v.parents
  <1> SUFFICES ASSUME NEW e \in Entry
               PROVE  /\ WithParent(v, p, e).parents[p] = e
                      /\ DOMAIN WithParent(v, p, e).parents = DOMAIN v.parents
    OBVIOUS
  <1> DEFINE w == WithParent(v, p, e)
  <1>1. w.parents[p] = e /\ DOMAIN w.parents = DOMAIN v.parents \cup {p}
    BY WithParentIs DEF Typed
  <1> HIDE DEF w
  <1>2. DOMAIN w.parents = DOMAIN v.parents
    BY <1>1
  <1> QED
    BY <1>1, <1>2 DEF w

\* The end of the probes takes the route away with the neighbour.
LEMMA ForgottenIs ==
  ASSUME NEW D, D \subseteq Nodes, NEW v, Fine(v, D), NEW p \in DOMAIN v.parents,
         v.parents[p].known
  PROVE  Fine(Forgotten(v, p), D)
  <1> DEFINE e == [v.parents[p] EXCEPT !.rank = InfiniteRank, !.updated = TRUE]
             u == WithParent(v, p, e)
             f == [u.parents[p] EXCEPT !.known = FALSE]
             w == WithParent(u, p, f)
             r == IF w.route = p THEN None ELSE w.route
             x == [w EXCEPT !.route = r]
  <1>1. Forgotten(v, p) = x
    BY DEF Forgotten, Suspect
  <1>2. v.parents[p] \in Entry /\ InfiniteRank \in Ranks
    BY RplAssumption DEF Fine, Typed, Ranks
  <1>3. e \in Entry /\ e.updated = TRUE /\ e.rank = InfiniteRank
    BY <1>2 DEF Entry
  <1>4. u.parents[p] = e /\ p \in DOMAIN u.parents
    <2> HIDE DEF e
    <2> QED
      BY <1>3, EntryIsFilled DEF Fine
  <1>5. Fine(u, D)
    <2> HIDE DEF e
    <2> QED
      BY <1>3, MarkedEntry
  <1> HIDE DEF e, u
  <1>6. f \in Entry /\ f.updated = TRUE /\ f.rank = InfiniteRank
    BY <1>3, <1>4 DEF Entry
  <1>7. w.parents[p] = f /\ p \in DOMAIN w.parents
    <2> HIDE DEF f
    <2> QED
      BY <1>4, <1>5, <1>6, EntryIsFilled DEF Fine
  <1>8. Fine(w, D)
    <2> HIDE DEF f
    <2> QED
      BY <1>4, <1>5, <1>6, MarkedEntry
  <1> HIDE DEF f, w
  <1>9. r \in DOMAIN w.parents \cup {None}
    BY <1>8 DEF Fine, Typed
  <1> HIDE DEF r
  <1>10. /\ Typed(x, D) /\ x.route = r
         /\ x.rank = w.rank /\ x.min_rank = w.min_rank
         /\ x.preferred = w.preferred /\ x.parents = w.parents
    BY <1>8, <1>9, WithRoute DEF Fine
  <1> HIDE DEF x
  <1>11. RankGiven(x)
    BY <1>8, <1>10 DEF Fine, Good, RankGiven
  <1>12. RouteKept(x)
    <2>1. CASE w.route = p
      <3>1. p # None
        BY <1>5, <1>4, RplAssumption DEF Fine, Typed
      <3>2. w.preferred = p
        BY <1>8, <2>1, <3>1 DEF Fine, Good, RouteKept
      <3> QED
        BY <1>6, <1>7, <1>10, <2>1, <3>2 DEF RouteKept, r
    <2>2. CASE w.route # p
      BY <1>8, <1>10, <2>2 DEF Fine, Good, RouteKept, r
    <2> QED
      BY <2>1, <2>2
  <1> QED
    BY <1>1, <1>10, <1>11, <1>12 DEF Fine, Good

LEMMA OutsideIs ==
  ASSUME NEW D
  PROVE  Fine(Outside, D) /\ Fine(RootDag, D)
  <1> USE RplAssumption
  <1>1. /\ Outside.joined = FALSE /\ Outside.version = 0 /\ Outside.rank = InfiniteRank
        /\ Outside.min_rank = InfiniteRank /\ Outside.preferred = None
        /\ Outside.route = None /\ Outside.parents = <<>> /\ Fields(Outside)
    BY DEF Outside, Fields
  <1>2. RootDag = [joined |-> TRUE, version |-> InitVersion, rank |-> MinHopRankInc,
                   min_rank |-> InfiniteRank, preferred |-> None, route |-> None,
                   parents |-> <<>>]
    <2> DEFINE o == Outside
    <2>1. RootDag = [o EXCEPT !.joined = TRUE, !.version = InitVersion,
                              !.rank = MinHopRankInc]
      BY DEF RootDag
    <2>2. o = [joined |-> FALSE, version |-> 0, rank |-> InfiniteRank,
               min_rank |-> InfiniteRank, preferred |-> None, route |-> None,
               parents |-> <<>>]
      BY DEF Outside
    <2> HIDE DEF o
    <2> QED
      BY <2>1, <2>2
  <1>3. /\ RootDag.joined = TRUE /\ RootDag.version = InitVersion
        /\ RootDag.rank = MinHopRankInc /\ RootDag.min_rank = InfiniteRank
        /\ RootDag.preferred = None /\ RootDag.route = None /\ RootDag.parents = <<>>
    BY <1>2
  <1>4. Fields(RootDag)
    BY <1>2, <1>3 DEF Fields
  <1>5. DOMAIN <<>> = {}
    OBVIOUS
  <1>6. /\ 0 \in Versions /\ InitVersion \in Versions
        /\ InfiniteRank \in Ranks /\ MinHopRankInc \in Ranks
    BY DEF Versions, InitVersion, Ranks
  <1>7. Typed(Outside, D)
    BY <1>1, <1>5, <1>6 DEF Typed
  <1>8. Typed(RootDag, D)
    BY <1>3, <1>4, <1>5, <1>6 DEF Typed
  <1> QED
    BY <1>1, <1>3, <1>7, <1>8, AloneIsGood DEF Fine

\* The DIO as the handlers see it.
Dio(d) == d.version \in Versions /\ d.rank \in Ranks

LEMMA AddParentFills ==
  ASSUME NEW D, NEW v, NEW p \in D, NEW d, Dio(d)
  PROVE  \E e \in Entry : AddParent(v, p, d) = WithParent(v, p, e)
  <1> DEFINE e == [rank |-> d.rank, metric |-> InitMetric,
                   updated |-> FALSE, known |-> TRUE]
  <1>1. e \in Entry
    BY DEF Dio, Entry
  <1>2. AddParent(v, p, d) = WithParent(v, p, e)
    BY DEF AddParent
  <1> HIDE DEF e
  <1> QED
    BY <1>1, <1>2

LEMMA AddParentIs ==
  ASSUME NEW D, NEW v, Typed(v, D), NEW p \in D, NEW d, Dio(d)
  PROVE  LET w == AddParent(v, p, d)
         IN  /\ Typed(w, D) /\ p \in DOMAIN w.parents /\ w.parents[p] \in Entry
             /\ w.preferred = v.preferred /\ w.route = v.route
  <1> DEFINE w == AddParent(v, p, d)
  <1>1. PICK e \in Entry : w = WithParent(v, p, e)
    BY AddParentFills
  <1> HIDE DEF w
  <1>2. /\ w.preferred = v.preferred /\ w.route = v.route
        /\ DOMAIN w.parents = DOMAIN v.parents \cup {p} /\ w.parents[p] = e
    BY <1>1, WithParentIs DEF Typed
  <1>3. Typed(w, D)
    BY <1>1, WithParentTyped
  <1> QED
    BY <1>2, <1>3 DEF w

\* rpl_join_instance: the first parent has the only rank there is.
LEMMA JoinInstanceIs ==
  ASSUME NEW D, D \subseteq Nodes, NEW p \in D, NEW d, Dio(d)
  PROVE  Fine(JoinInstance(p, d), D)
  <1> DEFINE v == AddParent(Outside, p, d)
             rank == CalculateRank(v.parents[p])
             w == JoinInstance(p, d)
  <1>1. w = [v EXCEPT !.joined = TRUE, !.version = d.version, !.preferred = p,
                      !.rank = rank, !.min_rank = rank, !.route = p]
    BY DEF JoinInstance
  <1>2. Typed(v, D) /\ p \in DOMAIN v.parents /\ v.parents[p] \in Entry
    <2>1. Typed(Outside, D)
      BY OutsideIs DEF Fine
    <2> QED
      BY <2>1, AddParentIs
  <1>3. rank \in Ranks
    BY <1>2, CalculateRankIs
  <1> HIDE DEF v, w
  <1>4. w = [joined |-> TRUE, version |-> d.version, rank |-> rank, min_rank |-> rank,
             preferred |-> p, route |-> p, parents |-> v.parents]
    <2> HIDE DEF rank
    <2> QED
      BY <1>1, <1>2 DEF Typed, Fields
  <1>5. /\ w.joined = TRUE /\ w.version = d.version /\ w.rank = rank /\ w.min_rank = rank
        /\ w.preferred = p /\ w.route = p /\ w.parents = v.parents
    BY <1>4
  <1>6. Fields(w)
    BY <1>4, <1>5 DEF Fields
  <1>7. Typed(w, D)
    BY <1>2, <1>3, <1>5, <1>6 DEF Typed, Dio
  <1>8. RankGiven(w) /\ RouteKept(w)
    BY <1>5 DEF RankGiven, RouteKept
  <1> QED
    BY <1>7, <1>8 DEF Fine, Good, w

\* The removal of all parents, before the one that is heard is added.
LEMMA RemoveParentsIs ==
  ASSUME NEW D, NEW v, Typed(v, D), NEW x \in Versions
  PROVE  LET w == [RemoveParents(v) EXCEPT !.version = x]
         IN  /\ Fine(w, D) /\ w.preferred = None /\ w.route = None
             /\ DOMAIN w.parents = {}
  <1> DEFINE u == LocalRepair(v)
             r == RemoveParents(v)
             w == [r EXCEPT !.version = x]
  <1>1. Typed(u, D) /\ u.preferred = None /\ u.route = None
    BY LocalRepairIs
  <1>2. r = [u EXCEPT !.parents = <<>>]
    BY DEF RemoveParents
  <1> HIDE DEF u, r
  <1>3. r = [joined |-> u.joined, version |-> u.version, rank |-> u.rank,
             min_rank |-> u.min_rank, preferred |-> u.preferred, route |-> u.route,
             parents |-> <<>>]
    BY <1>1, <1>2 DEF Typed, Fields
  <1>4. /\ r.joined = u.joined /\ r.version = u.version /\ r.rank = u.rank
        /\ r.min_rank = u.min_rank /\ r.preferred = None /\ r.route = None
        /\ r.parents = <<>>
    BY <1>1, <1>3
  <1>5. DOMAIN <<>> = {}
    OBVIOUS
  <1>6. Fields(r)
    BY <1>3, <1>4 DEF Fields
  <1>7. Typed(r, D)
    BY <1>1, <1>4, <1>5, <1>6 DEF Typed
  <1>8. Fine(r, D)
    BY <1>4, <1>7, AloneIsGood DEF Fine
  <1>9. Fine(w, D) /\ w.preferred = None /\ w.route = None /\ w.parents = <<>>
    BY <1>4, <1>8, WithVersion
  <1> QED
    BY <1>5, <1>9 DEF r

\* A new version starts over, with the parent that announces it.
LEMMA GlobalRepairIs ==
  ASSUME NEW D, D \subseteq Nodes, NEW v, Typed(v, D), NEW p \in D, NEW d, Dio(d),
         NEW w \in GlobalRepair(v, p, d)
  PROVE  Fine(w, D)
  <1> DEFINE base == [RemoveParents(v) EXCEPT !.version = d.version]
             added == AddParent(base, p, d)
             rank == CalculateRank(added.parents[p])
             repaired == [added EXCEPT !.rank = rank, !.min_rank = rank]
  <1>1. PICK s \in ProcessParentEvent(repaired, p) : w = s.dag
    BY DEF GlobalRepair
  <1>2. Typed(base, D) /\ base.preferred = None /\ base.route = None
    BY RemoveParentsIs DEF Fine, Dio
  <1> HIDE DEF base
  <1>3. /\ Typed(added, D) /\ p \in DOMAIN added.parents /\ added.parents[p] \in Entry
        /\ added.preferred = None /\ added.route = None
    BY <1>2, AddParentIs
  <1>4. rank \in Ranks
    BY <1>3, CalculateRankIs
  <1> HIDE DEF added, rank
  <1>5. repaired = [added EXCEPT !.rank = rank, !.min_rank = rank]
    OBVIOUS
  <1> HIDE DEF repaired
  <1>6. repaired = [joined |-> added.joined, version |-> added.version, rank |-> rank,
                    min_rank |-> rank, preferred |-> added.preferred,
                    route |-> added.route, parents |-> added.parents]
    BY <1>3, <1>5 DEF Typed, Fields
  <1>7. /\ repaired.joined = added.joined /\ repaired.version = added.version
        /\ repaired.rank = rank /\ repaired.min_rank = rank
        /\ repaired.preferred = None /\ repaired.route = None
        /\ repaired.parents = added.parents
    BY <1>3, <1>6
  <1>8. Fields(repaired)
    BY <1>6, <1>7, <1>3 DEF Fields
  <1>9. Typed(repaired, D)
    BY <1>3, <1>4, <1>7, <1>8 DEF Typed
  <1>10. p # None
    BY RplAssumption
  <1>11. Changed(repaired, p)
    BY <1>3, <1>7, <1>10, AloneIsGood DEF Changed, Good
  <1>12. /\ Typed(s.dag, D) /\ RankGiven(s.dag)
         /\ RouteKept(s.dag) \/ Unrouted(repaired, p, s)
    BY <1>9, <1>11, ProcessParentEventIs
  <1> QED
    BY <1>1, <1>7, <1>10, <1>12 DEF Fine, Good, Unrouted

\* The DIO of a parent: the route is set again when the parent is the preferred one.
LEMMA CandidateDioIs ==
  ASSUME NEW D, D \subseteq Nodes, NEW v, Fine(v, D), NEW p \in D, NEW d, Dio(d),
         NEW w \in CandidateDio(v, p, d)
  PROVE  Fine(w, D)
  <1> DEFINE heard == IF p \in DOMAIN v.parents
                      THEN WithParent(v, p, [v.parents[p] EXCEPT !.rank = d.rank])
                      ELSE AddParent(v, p, d)
  <1>1. PICK s \in ProcessParentEvent(heard, p) :
          w = IF s.kept /\ s.dag.preferred = p THEN [s.dag EXCEPT !.route = p] ELSE s.dag
    BY DEF CandidateDio
  <1>2. Typed(heard, D) /\ Changed(heard, p)
    <2>1. CASE p \in DOMAIN v.parents
      <3> DEFINE e == [v.parents[p] EXCEPT !.rank = d.rank]
      <3>1. v.parents[p] \in Entry
        BY <2>1 DEF Fine, Typed
      <3>2. e \in Entry
        BY <3>1 DEF Entry, Dio
      <3>3. heard = WithParent(v, p, e)
        BY <2>1
      <3> HIDE DEF e, heard
      <3> QED
        BY <2>1, <3>2, <3>3, EntryIsChanged
    <2>2. CASE p \notin DOMAIN v.parents
      <3>1. v.preferred # p
        BY <2>2, RplAssumption DEF Fine, Typed
      <3>2. PICK e \in Entry : AddParent(v, p, d) = WithParent(v, p, e)
        BY AddParentFills
      <3>3. heard = WithParent(v, p, e)
        BY <2>2, <3>2
      <3> HIDE DEF heard
      <3> QED
        BY <3>1, <3>3, NewEntryIsChanged
    <2> QED
      BY <2>1, <2>2
  <1> HIDE DEF heard
  <1> DEFINE u == s.dag
  <1>3. /\ Typed(u, D) /\ u.parents = heard.parents /\ RankGiven(u)
        /\ RouteKept(u) \/ Unrouted(heard, p, s)
    BY <1>2, ProcessParentEventIs
  <1>4. p \in DOMAIN u.parents
    BY <1>2, <1>3 DEF Changed
  <1>5. CASE s.kept /\ u.preferred = p
    <2>1. w = [u EXCEPT !.route = p]
      BY <1>1, <1>5
    <2> HIDE DEF u
    <2>2. /\ Typed(w, D) /\ w.route = p
          /\ w.rank = u.rank /\ w.min_rank = u.min_rank
          /\ w.preferred = u.preferred /\ w.parents = u.parents
      BY <1>3, <1>4, <2>1, WithRoute
    <2>3. RankGiven(w) /\ RouteKept(w)
      BY <1>3, <1>5, <2>2 DEF RankGiven, RouteKept
    <2> QED
      BY <2>2, <2>3 DEF Fine, Good
  <1>6. CASE ~(s.kept /\ u.preferred = p)
    BY <1>1, <1>3, <1>6 DEF Fine, Good, Unrouted
  <1> QED
    BY <1>5, <1>6

LEMMA LollipopIncrementIs ==
  ASSUME NEW c \in Versions
  PROVE  LollipopIncrement(c) \in Versions
  BY RplAssumption, SMT DEF Versions, LollipopIncrement

LEMMA ProcessDioIs ==
  ASSUME NEW D, D \subseteq Nodes, NEW v, Fine(v, D), NEW p \in D, NEW d, Dio(d),
         NEW w \in ProcessDio(v, p, d)
  PROVE  Fine(w, D)
  <1>1. CASE ~v.joined
    <2>1. w = JoinInstance(p, d)
      BY <1>1 DEF ProcessDio
    <2> QED
      BY <2>1, JoinInstanceIs
  <1>2. CASE v.joined /\ LollipopGreaterThan(d.version, v.version)
    <2>1. ProcessDio(v, p, d) =
            IF IsRoot(v) THEN {[v EXCEPT !.version = LollipopIncrement(d.version)]}
            ELSE GlobalRepair(v, p, d)
      BY <1>2 DEF ProcessDio
    <2>2. CASE IsRoot(v)
      <3>1. LollipopIncrement(d.version) \in Versions
        BY LollipopIncrementIs DEF Dio
      <3>2. w = [v EXCEPT !.version = LollipopIncrement(d.version)]
        BY <2>1, <2>2
      <3> QED
        BY <3>1, <3>2, WithVersion
    <2>3. CASE ~IsRoot(v)
      BY <2>1, <2>3, GlobalRepairIs DEF Fine
    <2> QED
      BY <2>2, <2>3
  <1>3. CASE v.joined /\ ~LollipopGreaterThan(d.version, v.version)
    <2>1. w = v \/ w \in CandidateDio(v, p, d)
      BY <1>3 DEF ProcessDio
    <2> QED
      BY <2>1, CandidateDioIs
  <1> QED
    BY <1>1, <1>2, <1>3

-----------------------------------------------------------------------------
(* The network *)

\* Stations hear others, not themselves.
LEMMA LinkIsPair ==
  ASSUME up \subseteq Pairs, NEW n, NEW m, <<n, m>> \in Links
  PROVE  n \in Nodes /\ m \in Nodes /\ n # m
  <1>1. n \in Nodes /\ m \in Nodes /\ {n, m} \in Pairs
    BY DEF Links
  <1>2. PICK a, b \in {n, m} : a # b
    BY <1>1 DEF Pairs
  <1> QED
    BY <1>1, <1>2

\* A step that changes one station.
LEMMA OneStation ==
  ASSUME RInv, NEW n \in Nodes, NEW x, Fine(x, Nodes \ {n}),
         node' = [node EXCEPT ![n] = x],
         up' \subseteq Pairs, faults' \in 0 .. MaxFaults
  PROVE  RInv'
  <1>1. /\ node' = [k \in Nodes |-> node'[k]] /\ node'[n] = x
        /\ \A k \in Nodes : k # n => node'[k] = node[k]
    BY DEF RInv
  <1>2. ASSUME NEW k \in Nodes PROVE Fine(node'[k], Nodes \ {k})
    BY <1>1 DEF RInv, Fine
  <1> QED
    BY <1>1, <1>2 DEF RInv, Fine

LEMMA FaultIs ==
  ASSUME faults \in 0 .. MaxFaults, Fault
  PROVE  faults' \in 0 .. MaxFaults
  BY RplAssumption DEF Fault

LEMMA RInvInit ==
  Init => RInv
  <1> SUFFICES ASSUME Init PROVE RInv
    OBVIOUS
  <1>1. node = [n \in Nodes |-> node[n]]
    BY DEF Init
  <1>2. ASSUME NEW n \in Nodes PROVE Fine(node[n], Nodes \ {n})
    <2>1. node[n] = RootDag \/ node[n] = Outside
      BY DEF Init
    <2> QED
      BY <2>1, OutsideIs
  <1>3. up \subseteq Pairs /\ faults \in 0 .. MaxFaults
    BY RplAssumption DEF Init
  <1> QED
    BY <1>1, <1>2, <1>3 DEF RInv, Fine

LEMMA RInvStep ==
  RInv /\ [Next]_vars => RInv'
  <1> SUFFICES ASSUME RInv, [Next]_vars PROVE RInv'
    OBVIOUS
  <1>1. /\ up \subseteq Pairs /\ faults \in 0 .. MaxFaults
        /\ node = [k \in Nodes |-> node[k]]
        /\ \A k \in Nodes : Fine(node[k], Nodes \ {k}) /\ Nodes \ {k} \subseteq Nodes
    BY DEF RInv, Fine
  <1>2. ASSUME NEW n \in Nodes, NEW m \in Nodes, HearDio(n, m) PROVE RInv'
    <2> DEFINE u == Known(node[m], n)
               d == [version |-> node[n].version, rank |-> node[n].rank]
    <2>1. n \in Nodes \ {m}
      BY <1>1, <1>2, LinkIsPair DEF HearDio
    <2>2. PICK x \in ProcessDio(u, n, d) : Update(m, x)
      BY <1>2 DEF HearDio
    <2>3. Fine(u, Nodes \ {m})
      BY <1>1, KnownIs
    <2>4. Dio(d)
      BY <1>1 DEF Dio, Fine, Typed
    <2> HIDE DEF u, d
    <2>5. Fine(x, Nodes \ {m})
      BY <2>1, <2>2, <2>3, <2>4, ProcessDioIs
    <2>6. up' \subseteq Pairs /\ faults' \in 0 .. MaxFaults
      BY <1>1, <1>2 DEF HearDio
    <2> QED
      BY <2>2, <2>5, <2>6, OneStation DEF Update
  <1>3. ASSUME NEW n \in Nodes, Recalculate(n) PROVE RInv'
    <2>1. PICK walk \in SetToSeqs(Marked(node[n])) :
            \E x \in RecalculateRanks(node[n], walk) : Update(n, x)
      BY <1>3 DEF Recalculate
    <2>2. PICK x \in RecalculateRanks(node[n], walk) : Update(n, x)
      BY <2>1
    <2>3. Fine(x, Nodes \ {n})
      BY <1>1, <2>2, RecalculateRanksIs
    <2>4. up' \subseteq Pairs /\ faults' \in 0 .. MaxFaults
      BY <1>1, <1>3 DEF Recalculate
    <2> QED
      BY <2>2, <2>3, <2>4, OneStation DEF Update
  <1>4. ASSUME NEW n \in Nodes, NEW p \in Nodes, LinkFeedback(n, p) PROVE RInv'
    <2> DEFINE e == [node[n].parents[p] EXCEPT !.updated = TRUE]
               x == WithParent(node[n], p, e)
    <2>1. p \in DOMAIN node[n].parents /\ Update(n, x)
      BY <1>4 DEF LinkFeedback
    <2>2. node[n].parents[p] \in Entry
      BY <1>1, <2>1 DEF Fine, Typed
    <2>3. e \in Entry /\ e.updated = TRUE /\ e.rank = node[n].parents[p].rank
      BY <2>2 DEF Entry
    <2>4. Fine(x, Nodes \ {n})
      <3> HIDE DEF e
      <3> QED
        BY <1>1, <2>1, <2>3, MarkedEntry
    <2>5. up' \subseteq Pairs /\ faults' \in 0 .. MaxFaults
      BY <1>1, <1>4 DEF LinkFeedback
    <2> HIDE DEF x
    <2> QED
      BY <2>1, <2>4, <2>5, OneStation DEF Update
  <1>5. ASSUME NEW n \in Nodes, NEW p \in Nodes, MetricChanges(n, p) PROVE RInv'
    <2>1. p \in DOMAIN node[n].parents /\ Fault /\ UNCHANGED up
      BY <1>5 DEF MetricChanges
    <2>2. PICK metric \in Metrics :
            Update(n, WithParent(node[n], p, [node[n].parents[p] EXCEPT
                                                !.metric = metric, !.updated = TRUE]))
      BY <1>5 DEF MetricChanges
    <2> DEFINE e == [node[n].parents[p] EXCEPT !.metric = metric, !.updated = TRUE]
               x == WithParent(node[n], p, e)
    <2>3. node[n].parents[p] \in Entry
      BY <1>1, <2>1 DEF Fine, Typed
    <2>4. e \in Entry /\ e.updated = TRUE /\ e.rank = node[n].parents[p].rank
      BY <2>3 DEF Entry
    <2>5. Fine(x, Nodes \ {n})
      <3> HIDE DEF e
      <3> QED
        BY <1>1, <2>1, <2>4, MarkedEntry
    <2>6. Update(n, x)
      BY <2>2
    <2>7. up' \subseteq Pairs /\ faults' \in 0 .. MaxFaults
      BY <1>1, <2>1, FaultIs
    <2> HIDE DEF x
    <2> QED
      BY <2>5, <2>6, <2>7, OneStation DEF Update
  <1>6. ASSUME NEW n \in Nodes, ProbesEnd(n) PROVE RInv'
    <2> DEFINE p == node[n].preferred
               x == Forgotten(node[n], p)
    <2>1. p # None /\ node[n].parents[p].known /\ Update(n, x)
      BY <1>6 DEF ProbesEnd
    <2>2. p \in DOMAIN node[n].parents
      BY <1>1, <2>1 DEF Fine, Typed
    <2>3. Fine(x, Nodes \ {n})
      <3> HIDE DEF p
      <3> QED
        BY <1>1, <2>1, <2>2, ForgottenIs
    <2>4. up' \subseteq Pairs /\ faults' \in 0 .. MaxFaults
      BY <1>1, <1>6 DEF ProbesEnd
    <2> HIDE DEF x
    <2> QED
      BY <2>1, <2>3, <2>4, OneStation DEF Update
  <1>7. ASSUME NEW n \in Nodes, NEW p \in Nodes, ProbesLost(n, p) PROVE RInv'
    <2> DEFINE x == Forgotten(node[n], p)
    <2>1. /\ p \in DOMAIN node[n].parents /\ node[n].parents[p].known
          /\ Update(n, x) /\ Fault /\ UNCHANGED up
      BY <1>7 DEF ProbesLost
    <2>2. Fine(x, Nodes \ {n})
      BY <1>1, <2>1, ForgottenIs
    <2>3. up' \subseteq Pairs /\ faults' \in 0 .. MaxFaults
      BY <1>1, <2>1, FaultIs
    <2> HIDE DEF x
    <2> QED
      BY <2>1, <2>2, <2>3, OneStation DEF Update
  <1>8. ASSUME NEW m \in Nodes, NEW n \in Nodes, ReceiveDao(m, n) PROVE RInv'
    <2> DEFINE x == DaoInput(node[n], m)
    <2>1. Update(n, x) /\ UNCHANGED up /\ (Fault \/ UNCHANGED faults)
      BY <1>8 DEF ReceiveDao
    <2>2. Fine(x, Nodes \ {n})
      BY <1>1, SuspectIs, KnownIs DEF DaoInput
    <2>3. up' \subseteq Pairs /\ faults' \in 0 .. MaxFaults
      BY <1>1, <2>1, FaultIs
    <2> HIDE DEF x
    <2> QED
      BY <2>1, <2>2, <2>3, OneStation DEF Update
  <1>9. ASSUME RepairRoot PROVE RInv'
    <2> DEFINE x == [node[Root] EXCEPT !.version = LollipopIncrement(node[Root].version)]
    <2>1. node' = [node EXCEPT ![Root] = x]
      BY <1>9 DEF RepairRoot
    <2>2. Root \in Nodes
      BY RplAssumption
    <2>3. LollipopIncrement(node[Root].version) \in Versions
      BY <1>1, <2>2, LollipopIncrementIs DEF Fine, Typed
    <2>4. Fine(x, Nodes \ {Root})
      BY <1>1, <2>2, <2>3, WithVersion
    <2>5. up' \subseteq Pairs /\ faults' \in 0 .. MaxFaults
      BY <1>1, <1>9, FaultIs DEF RepairRoot
    <2> HIDE DEF x
    <2> QED
      BY <2>1, <2>2, <2>4, <2>5, OneStation
  <1>10. ASSUME NEW n \in Nodes, Restart(n) PROVE RInv'
    <2> DEFINE x == IF n = Root THEN RootDag ELSE Outside
    <2>1. node' = [node EXCEPT ![n] = x] /\ Fault /\ UNCHANGED up
      BY <1>10 DEF Restart
    <2>2. Fine(x, Nodes \ {n})
      BY OutsideIs
    <2>3. up' \subseteq Pairs /\ faults' \in 0 .. MaxFaults
      BY <1>1, <2>1, FaultIs
    <2> HIDE DEF x
    <2> QED
      BY <2>1, <2>2, <2>3, OneStation
  <1>11. ASSUME NEW p \in Pairs, LinkChanges(p) PROVE RInv'
    <2>1. UNCHANGED node /\ up' \subseteq Pairs
      BY <1>1, <1>11 DEF LinkChanges
    <2>2. faults' \in 0 .. MaxFaults
      BY <1>1, <1>11, FaultIs DEF LinkChanges
    <2> QED
      BY <2>1, <2>2 DEF RInv
  <1>12. ASSUME UNCHANGED vars PROVE RInv'
    BY <1>12 DEF vars, RInv
  <1> QED
    BY <1>2, <1>3, <1>4, <1>5, <1>6, <1>7, <1>8, <1>9, <1>10, <1>11, <1>12 DEF Next

LEMMA RInvHolds ==
  Spec => []RInv
  <1> QED
    BY RInvInit, RInvStep, PTL DEF Spec

-----------------------------------------------------------------------------
(* The theorems *)

\* Every record of a DAG has its types in every state: a preferred parent and the
\* next hop of the default route are in the table of parents (rpl-dag.c:595-683,
\* 715-767), and no handler makes a station its own parent.
THEOREM RplTypeOKHolds ==
  Spec => []TypeOK
  <1>1. RInv => TypeOK
    <2> SUFFICES ASSUME RInv PROVE TypeOK
      OBVIOUS
    <2>1. ASSUME NEW n \in Nodes
          PROVE  LET v == node[n]
                 IN  /\ v.joined \in BOOLEAN /\ v.version \in Versions
                     /\ {v.rank, v.min_rank} \subseteq Ranks
                     /\ {v.preferred, v.route} \subseteq DOMAIN v.parents \cup {None}
                     /\ DOMAIN v.parents \subseteq Nodes \ {n}
                     /\ \A p \in DOMAIN v.parents : v.parents[p] \in Entry
      BY DEF RInv, Typed
    <2> QED
      BY <2>1 DEF RInv, TypeOK
  <1> QED
    BY <1>1, RInvHolds, PTL

\* A station announces the rank its preferred parent gives it, or is about to
\* recalculate it, after every DIO, link metric, lost neighbour, DAO loop and repair
\* in any order (rpl_select_dag, rpl-dag.c:667-680).
THEOREM RankThroughParentHolds ==
  Spec => []RankThroughParent
  <1>1. RInv => RankThroughParent
    BY DEF RInv, Good, RankGiven, RankThroughParent
  <1> QED
    BY <1>1, RInvHolds, PTL

\* The default route leads to the preferred parent, except while a parent that does
\* not answer waits for the next recalculation (rpl-dag.c:682, 754-766, 930 and
\* uip-ds6-nbr.c:259-264).
THEOREM RouteIsParentHolds ==
  Spec => []RouteIsParent
  <1>1. RInv => RouteIsParent
    BY DEF RInv, Good, RouteKept, RouteIsParent
  <1> QED
    BY <1>1, RInvHolds, PTL

\* A usable parent gives a rank higher than its own, the cap included.
LEMMA RankRises ==
  ASSUME NEW e \in Entry, e.rank # InfiniteRank
  PROVE  e.rank < CalculateRank(e)
  <1>1. e.rank \in Ranks /\ e.metric \in Metrics \cup {InitMetric}
    BY DEF Entry
  <1>2. e.rank \in Nat /\ e.rank < InfiniteRank
    BY <1>1, RplAssumption DEF Ranks
  <1>3. e.metric \in Nat \ {0}
    BY <1>1, RplAssumption
  <1> QED
    BY <1>2, <1>3, RplAssumption DEF CalculateRank

\* A station that is up to date is farther from the root than its next hop.
LEMMA NextHopIsNearer ==
  ASSUME RInv, NEW n \in Nodes, UpToDate(n)
  PROVE  node[node[n].route].rank < node[n].rank
  <1> DEFINE v == node[n]
             e == v.parents[v.route]
  <1>1. v.route # None /\ ~e.updated /\ e.rank # InfiniteRank
        /\ e.rank = node[v.route].rank
    BY DEF UpToDate
  <1>2. v.route = v.preferred /\ v.rank = CalculateRank(e) /\ e \in Entry
    BY <1>1 DEF RInv, Good, RankGiven, RouteKept, Typed
  <1> HIDE DEF e
  <1> QED
    BY <1>1, <1>2, RankRises

\* In every loop of default routes, of any number of stations and after any
\* disturbances, some station has not heard its next hop's rank, is to recalculate
\* its own, or has no usable entry: the one nearest to the root, whose next hop
\* would otherwise be nearer still (rpl-dag.c:667-680, rpl-mrhof.c:137-164).
THEOREM LoopsAreStaleHolds ==
  Spec => []LoopsAreStale
  <1>1. RInv => LoopsAreStale
    <2> SUFFICES ASSUME RInv,
                        NEW S \in (SUBSET Nodes) \ {{}},
                        \A n \in S : node[n].route \in S,
                        ~ \E n \in S : ~UpToDate(n)
                 PROVE  FALSE
      BY Zenon DEF LoopsAreStale
    <2> DEFINE T == {node[n].rank : n \in S}
    <2>1. \A n \in S : node[n].rank \in Nat
      BY RplAssumption DEF RInv, Typed, Ranks
    <2>2. T \subseteq Nat /\ T # {}
      BY <2>1
    <2>3. PICK x \in T : \A y \in T : x <= y
      <3> HIDE DEF T
      <3> QED
        BY <2>2, LeastNumber
    <2>4. PICK n \in S : x = node[n].rank
      OBVIOUS
    <2>5. node[node[n].route].rank \in T
      OBVIOUS
    <2>6. node[node[n].route].rank < node[n].rank
      BY NextHopIsNearer
    <2>7. node[n].rank <= node[node[n].route].rank
      BY <2>3, <2>4, <2>5
    <2>8. node[n].rank \in Nat /\ node[node[n].route].rank \in Nat
      BY <2>1
    <2> HIDE DEF T
    <2> QED
      BY <2>6, <2>7, <2>8
  <1> QED
    BY <1>1, RInvHolds, PTL
===============================================================================
