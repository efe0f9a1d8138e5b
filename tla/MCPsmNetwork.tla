---------------------------- MODULE MCPsmNetwork ----------------------------
(***************************************************************************)
(* PsmNetwork for TLC: the addresses of a few stations.                    *)
(***************************************************************************)
EXTENDS PsmNetwork

CONSTANTS s1, s2
One == {s1}
Two == {s1, s2}
Addresses == Two \cup {Bcast}
Targets == {s2, Bcast}
=============================================================================
