--------------------------------- MODULE Rpl ---------------------------------
(***************************************************************************)
(* The routing protocol of the mesh: Contiki's RPL (core/net/rpl), with    *)
(* one instance and one DAG, as contiki-conf.h configures it.  A node      *)
(* learns the ranks of its neighbours from their DIOs, prefers the parent  *)
(* with the best path by the objective function MRHOF, and keeps the       *)
(* default route to it.  The root starts a new version to have everyone    *)
(* choose again.                                                           *)
(*                                                                         *)
(* Handlers run to completion in the tcpip process, so each is one action; *)
(* what interleaves is the nodes.  Trickle only decides when a DIO is      *)
(* sent, which is left open; a DIO is heard when it is sent or never, its  *)
(* delay being short against the shortest interval of four seconds.  DAOs  *)
(* count for the loop check of their receiver; the routes to the leaves    *)
(* are left out.                                                           *)
(***************************************************************************)
EXTENDS Integers, SequencesExt

CONSTANTS
    Nodes,          \* the stations
    Root,           \* the one that called rpl_set_root
    None,           \* no station
    MaxFaults,      \* bound: disturbances, of any kind, in a behaviour
    MinHopRankInc,  \* min_hoprankinc, also the root's rank
    MaxRankInc,     \* max_rankinc
    InfiniteRank,   \* 0xffff, one less than a power of two
    InitMetric,     \* the metric of a link nothing is known of
    Metrics,        \* the metrics the moving average can yield
    SwitchThreshold,\* a half of RPL_DAG_MC_ETX_DIVISOR
    MaxVersion, CircularRegion, SequenceWindow  \* the lollipop's sizes

ASSUME RplAssumption ==
    /\ IsFiniteSet(Nodes) /\ Root \in Nodes /\ None \notin Nodes
    /\ MaxFaults \in Nat /\ MinHopRankInc \in Nat \ {0} /\ MaxRankInc \in Nat \ {0}
    /\ InfiniteRank \in Nat /\ MinHopRankInc < InfiniteRank
    /\ InitMetric \in Nat \ {0} /\ Metrics \subseteq Nat \ {0} /\ SwitchThreshold \in Nat \ {0}
    /\ MaxVersion \in Nat /\ CircularRegion \in 0 .. MaxVersion
    /\ SequenceWindow \in 1 .. MaxVersion

VARIABLES
    node,     \* rpl_dag_t, its instance and the entries of rpl_parents, per station
    up,       \* the pairs of stations that hear each other
    faults    \* disturbances so far

vars == <<node, up, faults>>

Ranks == 0 .. InfiniteRank
Versions == 0 .. MaxVersion
Pairs == {p \in SUBSET Nodes : \E a, b \in p : a # b /\ p = {a, b}}
Links == {l \in Nodes \X Nodes : {l[1], l[2]} \in up}

-----------------------------------------------------------------------------
(* Version numbers: rpl-private.h:203-213 and the comparison *)

InitVersion == MaxVersion - SequenceWindow + 1

LollipopIncrement(c) ==
    IF c > CircularRegion THEN (c + 1) % (MaxVersion + 1)
    ELSE (c + 1) % (CircularRegion + 1)

LollipopGreaterThan(a, b) ==
    IF a > CircularRegion /\ b <= CircularRegion
    THEN MaxVersion + 1 + b - a > SequenceWindow
    ELSE \/ a > b /\ a - b < SequenceWindow
         \/ a < b /\ b - a > CircularRegion + 1 - SequenceWindow

-----------------------------------------------------------------------------
(* MRHOF *)

DagRank(rank) == rank \div MinHopRankInc

\* A sum of 16 bits.
PathMetric(e) == (e.rank + e.metric) % (InfiniteRank + 1)

\* Variant: at the end of the ranks the parent's own is taken.
CalculateRankAtEnd(e) ==
    IF InfiniteRank - e.rank < e.metric THEN e.rank ELSE e.rank + e.metric

CalculateRank(e) ==
    IF InfiniteRank - e.rank < e.metric THEN InfiniteRank ELSE e.rank + e.metric

\* The better of two parents; between similar ones the present one stays.
BetterParent(v, p, q) ==
    LET diff == PathMetric(v.parents[p]) - PathMetric(v.parents[q])
    IN  IF v.preferred \in {p, q} /\ diff < SwitchThreshold /\ diff > -SwitchThreshold
        THEN v.preferred
        ELSE IF diff < 0 THEN p ELSE q

\* rpl_select_parent: the walk over the table, in any order, for it is that of
\* arrival; best[i] is what it has found after i parents.
BestParents(v) ==
    LET usable == {p \in DOMAIN v.parents : v.parents[p].rank # InfiniteRank}
        Best(walk) ==
          LET best[i \in 0 .. Len(walk)] ==
                IF i = 0 THEN None
                ELSE IF best[i - 1] = None THEN walk[i]
                ELSE BetterParent(v, best[i - 1], walk[i])
          IN  best[Len(walk)]
    IN  {Best(walk) : walk \in SetToSeqs(usable)}

-----------------------------------------------------------------------------
(* The DAG of one station, as a record *)

\* Nothing allocated: after a restart, before the first DIO.
Outside == [joined |-> FALSE, version |-> 0, rank |-> InfiniteRank,
            min_rank |-> InfiniteRank, preferred |-> None, route |-> None,
            parents |-> <<>>]

\* rpl_set_root on a station without a DAG.
RootDag == [Outside EXCEPT !.joined = TRUE, !.version = InitVersion,
                           !.rank = MinHopRankInc]

IsRoot(v) == v.rank = MinHopRankInc

AcceptableRank(v, rank) ==
    /\ rank # InfiniteRank
    /\ DagRank(rank) <= DagRank(v.min_rank + MaxRankInc)

WithParent(v, p, e) ==
    [v EXCEPT !.parents = [q \in DOMAIN @ \cup {p} |-> IF q = p THEN e ELSE @[q]]]

\* rpl_add_parent: the entry is zeroed, then filled in.
AddParent(v, p, d) ==
    WithParent(v, p, [rank |-> d.rank, metric |-> InitMetric,
                      updated |-> FALSE, known |-> TRUE])

\* Variant: the default route stays.
NullifyParentKeepsRoute(v, p) ==
    IF v.preferred \in {p, None}
    THEN [v EXCEPT !.preferred = None, !.rank = InfiniteRank]
    ELSE v

\* rpl_nullify_parent leaves the entry and its rank.
NullifyParent(v, p) ==
    IF v.preferred \in {p, None}
    THEN [v EXCEPT !.preferred = None, !.rank = InfiniteRank, !.route = None]
    ELSE v

\* rpl_local_repair: once the preferred parent is nullified, so are all.
LocalRepair(v) ==
    IF DOMAIN v.parents = {} THEN [v EXCEPT !.rank = InfiniteRank]
    ELSE [v EXCEPT !.rank = InfiniteRank, !.preferred = None, !.route = None]

\* remove_parents with rank 0, which removes them all.
RemoveParents(v) == [LocalRepair(v) EXCEPT !.parents = <<>>]

\* rpl_select_dag with the best parent found.  "kept" is whether it returns the
\* DAG; the present parent cannot save one with no usable parent, for its own
\* rank is infinite then.
SelectDag(v, best) ==
    LET rank == CalculateRank(v.parents[best])
        chosen == [v EXCEPT !.preferred = best, !.rank = rank,
                            !.route = IF best # v.preferred THEN best ELSE @]
    IN  CASE best = None -> [kept |-> FALSE, dag |-> v]
          [] best # None /\ (v.preferred = None \/ rank < v.min_rank) ->
               [kept |-> TRUE, dag |-> [chosen EXCEPT !.min_rank = rank]]
          [] best # None /\ v.preferred # None /\ rank >= v.min_rank ->
               IF AcceptableRank(v, rank) THEN [kept |-> TRUE, dag |-> chosen]
               ELSE [kept |-> FALSE,
                     dag |-> [v EXCEPT !.preferred = None, !.rank = rank]]

\* rpl_process_parent_event, whose outcomes are several when parents are equally
\* good.  A parent of unacceptable rank is not preferred any more once it is
\* nullified, so nothing is selected.
ProcessParentEvent(v, p) ==
    IF ~AcceptableRank(v, v.parents[p].rank)
    THEN {[kept |-> FALSE, dag |-> NullifyParent(v, p)]}
    ELSE {IF s.kept THEN s ELSE [s EXCEPT !.dag = LocalRepair(@)] :
            s \in {SelectDag(v, best) : best \in BestParents(v)}}

\* rpl_join_instance takes whatever rank the first DIO has.
JoinInstance(p, d) ==
    LET v == AddParent(Outside, p, d)
        rank == CalculateRank(v.parents[p])
    IN  [v EXCEPT !.joined = TRUE, !.version = d.version, !.preferred = p,
                  !.rank = rank, !.min_rank = rank, !.route = p]

GlobalRepair(v, p, d) ==
    LET added == AddParent([RemoveParents(v) EXCEPT !.version = d.version], p, d)
        rank == CalculateRank(added.parents[p])
        repaired == [added EXCEPT !.rank = rank, !.min_rank = rank]
    IN  {e.dag : e \in ProcessParentEvent(repaired, p)}

\* Variant: a parent that is known keeps the rank it has.
CandidateDioOldRank(v, p, d) ==
    LET heard == IF p \in DOMAIN v.parents THEN v ELSE AddParent(v, p, d)
    IN  {IF e.kept /\ e.dag.preferred = p THEN [e.dag EXCEPT !.route = p] ELSE e.dag :
            e \in ProcessParentEvent(heard, p)}

\* The DIO of a candidate parent in this version; the default route through the
\* preferred one is set again.
CandidateDio(v, p, d) ==
    LET heard == IF p \in DOMAIN v.parents
                 THEN WithParent(v, p, [v.parents[p] EXCEPT !.rank = d.rank])
                 ELSE AddParent(v, p, d)
    IN  {IF e.kept /\ e.dag.preferred = p THEN [e.dag EXCEPT !.route = p] ELSE e.dag :
            e \in ProcessParentEvent(heard, p)}

ProcessDio(v, p, d) ==
    CASE ~v.joined -> {JoinInstance(p, d)}
      [] v.joined /\ LollipopGreaterThan(d.version, v.version) ->
           IF IsRoot(v) THEN {[v EXCEPT !.version = LollipopIncrement(d.version)]}
           ELSE GlobalRepair(v, p, d)
      [] v.joined /\ ~LollipopGreaterThan(d.version, v.version) ->
           IF \/ LollipopGreaterThan(v.version, d.version)
              \/ d.rank < MinHopRankInc \/ IsRoot(v)
           THEN {v}
           ELSE CandidateDio(v, p, d)

\* Variant: the entry is not marked.
SuspectUnmarked(v, p) ==
    IF p \in DOMAIN v.parents /\ v.parents[p].known
    THEN WithParent(v, p, [v.parents[p] EXCEPT !.rank = InfiniteRank])
    ELSE v

\* The neighbour's entry in the parents' table loses its rank, and the periodic
\* timer looks at it.
Suspect(v, p) ==
    IF p \in DOMAIN v.parents /\ v.parents[p].known
    THEN WithParent(v, p, [v.parents[p] EXCEPT !.rank = InfiniteRank, !.updated = TRUE])
    ELSE v

\* One marked entry.
Refreshed(v, p) ==
    {e.dag : e \in ProcessParentEvent(
                      WithParent(v, p, [v.parents[p] EXCEPT !.updated = FALSE]), p)}

\* rpl_recalculate_ranks, from the periodic timer: every entry marked, in turn;
\* dags[i] are the outcomes after i entries.
RecalculateRanks(v, walk) ==
    LET dags[i \in 0 .. Len(walk)] ==
          IF i = 0 THEN {v} ELSE UNION {Refreshed(w, walk[i]) : w \in dags[i - 1]}
    IN  dags[Len(walk)]

\* uip_ds6_nbr_add for a neighbour that has been removed calls back as well.
Known(v, p) ==
    IF p \in DOMAIN v.parents /\ ~v.parents[p].known
    THEN Suspect(WithParent(v, p, [v.parents[p] EXCEPT !.known = TRUE]), p)
    ELSE v

\* The end of the probes in uip_ds6_neighbor_periodic.
Forgotten(v, p) ==
    LET w == Suspect(v, p)
    IN  [WithParent(w, p, [w.parents[p] EXCEPT !.known = FALSE])
            EXCEPT !.route = IF @ = p THEN None ELSE @]

\* dao_input: a DAO from a station of lower rank, or from the own parent.
DaoLoop(v, p) ==
    /\ p \in DOMAIN v.parents /\ v.parents[p].known
    /\ \/ DagRank(v.parents[p].rank) < DagRank(v.rank)
       \/ v.preferred = p

DaoInput(v, p) == IF DaoLoop(v, p) THEN Suspect(v, p) ELSE Known(v, p)

-----------------------------------------------------------------------------
(* The network *)

Marked(v) == {p \in DOMAIN v.parents : v.parents[p].updated}

Update(n, v) ==
    /\ v # node[n]
    /\ node' = [node EXCEPT ![n] = v]

Fault == faults < MaxFaults /\ faults' = faults + 1

\* handle_dio_timer, dio_output at n and dio_input at m.  A lost DIO is none.
HearDio(n, m) ==
    /\ <<n, m>> \in Links /\ node[n].joined
    /\ \E v \in ProcessDio(Known(node[m], n), n,
                           [version |-> node[n].version, rank |-> node[n].rank]) :
         Update(m, v)
    /\ UNCHANGED <<up, faults>>

\* handle_periodic_timer, once a second.
Recalculate(n) ==
    /\ Marked(node[n]) # {}
    /\ \E walk \in SetToSeqs(Marked(node[n])) :
         \E v \in RecalculateRanks(node[n], walk) : Update(n, v)
    /\ UNCHANGED <<up, faults>>

\* rpl_link_neighbor_callback after a unicast to p, the metric as it was ...
LinkFeedback(n, p) ==
    /\ p \in DOMAIN node[n].parents /\ node[n].parents[p].known
    /\ Update(n, WithParent(node[n], p, [node[n].parents[p] EXCEPT !.updated = TRUE]))
    /\ UNCHANGED <<up, faults>>

\* ... or changed by what the link has become.
MetricChanges(n, p) ==
    /\ Fault
    /\ p \in DOMAIN node[n].parents /\ node[n].parents[p].known
    /\ \E metric \in Metrics \ {node[n].parents[p].metric} :
         Update(n, WithParent(node[n], p, [node[n].parents[p] EXCEPT
                                             !.metric = metric, !.updated = TRUE]))
    /\ UNCHANGED up

\* A neighbour that does not answer any more is removed; the probes go to the
\* next hop of the traffic.
ProbesEnd(n) ==
    LET p == node[n].preferred
    IN  /\ p # None /\ <<n, p>> \notin Links /\ node[n].parents[p].known
        /\ Update(n, Forgotten(node[n], p))
        /\ UNCHANGED <<up, faults>>

\* So is one whose answers were lost, and one that other traffic went to.
ProbesLost(n, p) ==
    /\ Fault
    /\ p \in DOMAIN node[n].parents /\ node[n].parents[p].known
    /\ Update(n, Forgotten(node[n], p))
    /\ UNCHANGED up

\* m's DAO to its parent n; one that was long on the way comes from a station
\* with another parent by now.
ReceiveDao(m, n) ==
    /\ <<m, n>> \in Links /\ node[m].joined /\ node[n].joined
    /\ IF node[m].preferred = n THEN UNCHANGED faults ELSE Fault
    /\ Update(n, DaoInput(node[n], m))
    /\ UNCHANGED up

\* rpl_repair_root: a packet came back, or the user asked for it.
RepairRoot ==
    /\ Fault
    /\ node' = [node EXCEPT ![Root].version = LollipopIncrement(@)]
    /\ UNCHANGED up

Restart(n) ==
    /\ Fault
    /\ node' = [node EXCEPT ![n] = IF n = Root THEN RootDag ELSE Outside]
    /\ UNCHANGED up

LinkChanges(p) ==
    /\ Fault
    /\ up' = IF p \in up THEN up \ {p} ELSE up \cup {p}
    /\ UNCHANGED node

Init ==
    /\ node = [n \in Nodes |-> IF n = Root THEN RootDag ELSE Outside]
    /\ up \in SUBSET Pairs
    /\ faults = 0

Next ==
    \/ \E n \in Nodes : ProbesEnd(n) \/ Recalculate(n) \/ Restart(n)
    \/ \E n, m \in Nodes :
         \/ HearDio(n, m) \/ ReceiveDao(n, m)
         \/ LinkFeedback(n, m) \/ MetricChanges(n, m) \/ ProbesLost(n, m)
    \/ RepairRoot
    \/ \E p \in Pairs : LinkChanges(p)

Spec == Init /\ [][Next]_vars

\* Timers fire, what is under way arrives, and a station that keeps sending over
\* its default route finds out that nobody answers.
FairSpec ==
    /\ Spec
    /\ WF_vars(\E n \in Nodes : Recalculate(n))
    /\ WF_vars(\E n \in Nodes : ProbesEnd(n))
    /\ \A n \in Nodes : WF_vars(\E m \in Nodes : HearDio(n, m))

-----------------------------------------------------------------------------

Entry == [rank : Ranks, metric : Metrics \cup {InitMetric},
          updated : BOOLEAN, known : BOOLEAN]

TypeOK ==
    /\ up \subseteq Pairs /\ faults \in 0 .. MaxFaults
    /\ \A n \in Nodes :
         LET v == node[n]
         IN  /\ v.joined \in BOOLEAN /\ v.version \in Versions
             /\ {v.rank, v.min_rank} \subseteq Ranks
             /\ {v.preferred, v.route} \subseteq DOMAIN v.parents \cup {None}
             /\ DOMAIN v.parents \subseteq Nodes \ {n}
             /\ \A p \in DOMAIN v.parents : v.parents[p] \in Entry

\* A station's rank is the one its preferred parent gives it, whatever was heard
\* of the others: else it would announce a rank nobody stands behind
\* (rpl_select_dag, rpl-dag.c:667-680, and every place that changes an entry).
RankThroughParent ==
    \A n \in Nodes :
      LET v == node[n]
      IN  v.preferred # None /\ ~v.parents[v.preferred].updated
            => v.rank = CalculateRank(v.parents[v.preferred])

\* The packets go where the rank says: the default route leads to the preferred
\* parent (rpl-dag.c:682, 754-766, 930), except while a parent that does not answer
\* waits for the next recalculation (uip-ds6-nbr.c:259-264).
RouteIsParent ==
    \A n \in Nodes :
      LET v == node[n]
      IN  \/ v.route = v.preferred
          \/ v.route = None /\ v.parents[v.preferred].updated

\* What a station has of its next hop is usable and as the next hop announces it.
UpToDate(n) ==
    LET v == node[n]
        e == v.parents[v.route]
    IN  v.route # None /\ ~e.updated /\ e.rank # InfiniteRank
        /\ e.rank = node[v.route].rank

\* Loops of default routes live on what stations have not heard yet: in every one
\* some station takes its next hop for nearer than it is, has it marked for the
\* next recalculation, or has nothing usable of it and drops it at the next event.
\* So the DIOs that keep coming find a loop and raise it, however long it is and
\* however high it has counted, the cap at INFINITE_RANK included
\* (rpl-dag.c:667-680, 745-766, rpl-mrhof.c:137-164).
LoopsAreStale ==
    \A S \in (SUBSET Nodes) \ {{}} :
      (\A n \in S : node[n].route \in S) => \E n \in S : ~UpToDate(n)

\* rpl.h:132: min_rank "should be reset per DAG iteration!".  It is set anew within
\* one too, whenever there was no parent before (rpl-dag.c:670).
MinRankPerIteration ==
    [][\A n \in Nodes : node[n].joined /\ node'[n].joined
                          /\ node'[n].version = node[n].version
                          => node'[n].min_rank <= node[n].min_rank]_vars

Reachable == \* the stations connected to the root
    {n \in Nodes : \E k \in 1 .. Cardinality(Nodes) : \E path \in [1 .. k -> Nodes] :
        /\ path[1] = n /\ path[k] = Root
        /\ \A i \in 1 .. k - 1 : <<path[i], path[i + 1]>> \in Links}

Served == \* those whose packets get there
    {n \in Nodes : \E k \in 1 .. Cardinality(Nodes) : \E path \in [1 .. k -> Nodes] :
        /\ path[1] = n /\ path[k] = Root
        /\ \A i \in 1 .. k - 1 : node[path[i]].route = path[i + 1]
                                 /\ <<path[i], path[i + 1]>> \in Links}

\* Once disturbances cease, the packets of every connected station reach the root for
\* good, over parents that form no loop, and the others have no route left: local and
\* global repair, poisoned ranks and the end of the probes together see to it.
Converges ==
    <>[](/\ Served = Reachable
         /\ \A n \in Nodes \ Reachable : node[n].route = None)
=============================================================================
