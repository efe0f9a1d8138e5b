------------------------ MODULE MCAr9170PsmHistory ------------------------
(***************************************************************************)
(* Ar9170PsmHistory for TLC: what each run lets the environment do.        *)
(***************************************************************************)
EXTENDS Ar9170PsmHistory, Ar9170Cycle

NoFaults    == {}
LostAnswers == {"LostStatus"}
LateAnswers == {"LateStatus"}
=============================================================================
