------------------------------ MODULE Ar9170Cycle ------------------------------
(***************************************************************************)
(* How the driver of Ar9170Psm is a station of BeaconCycle.                *)
(***************************************************************************)
EXTENDS Ar9170Psm

NoAddr == "no receiver yet"

ASSUME NoAddrAssumption == NoAddr \notin Addr

\* What the main loop is busy with, read off its program counter
Busy == {"last_da", "async_tx", "write", "send"}
CurrentWork ==
    [kind |-> CASE pc \in Busy -> job
                [] pc = "first_atim" -> "ATIM"
                [] pc = "first_pkt" -> "DATA"
                [] pc = "soft_bcn" -> "BCN"
                [] OTHER -> "NONE",
     da |-> IF pc \in Busy THEN JobFrame.da ELSE NoAddr]

HandedDown == [kind |-> bulk_out.kind,
               da |-> IF bulk_out = NoFrame THEN NoAddr ELSE bulk_out.da]

\* A doze request is pending until the loop acts on it; one that comes while
\* the mask is about to be cleared is lost.
DozePending == pc = "sleep" \/ (update_mask = "sleep" /\ pc # "mask_clear")

\* The awake list is still that of the last interval.
ListStale == erase_awake_nodes_flag \/ pc = "erase_do"

One(value) == [n \in {"self"} |-> value]

Cycle == INSTANCE BeaconCycle
           WITH Stations <- {"self"}, NoAddr <- NoAddr, Ps <- ConfPs,
                Timely <- "SlowLoop" \notin Faults,
                window <- One(psm_state), reasons <- One(off_override),
                toSleep <- One(DozePending), asleep <- One(ps_state),
                stale <- One(ListStale), awake <- One(wake_neighbors),
                work <- One(CurrentWork), onAir <- One(HandedDown)

\* Whatever interrupts hit the main loop where, the driver goes through beacon
\* intervals as BeaconCycle says: windows in order, a doze only on a decision
\* taken without a reason to stay awake, knowledge of neighbours only lost or
\* heard, data only for stations believed awake at that moment, one frame at a
\* time (ar9170_psm.c:69-475, ar9170_scheduler.c:59-430).
ImplementsBeaconCycle == Cycle!Spec
=============================================================================
