------------------------------- MODULE MCRpl --------------------------------
(* The root and two more stations, in any topology. *)
EXTENDS Rpl
CONSTANTS r, n1, n2
=============================================================================
