------------------------------- MODULE MCMicmac -------------------------------
(* Micmac with the first channels of the four-channel table
   (mccontikimac-hopseq.h), in their places of one row. *)
EXTENDS Micmac

FourChannels == {20, 26, 15, 25}
FourRow == [i \in 0 .. 3 |-> CASE i = 0 -> 20 [] i = 1 -> 26 [] i = 2 -> 15 [] OTHER -> 25]
ThreeChannels == {25, 26, 15}
ThreeRow == [i \in 0 .. 2 |-> CASE i = 0 -> 25 [] i = 1 -> 26 [] OTHER -> 15]
===============================================================================
