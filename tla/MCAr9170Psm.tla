---------------------------- MODULE MCAr9170Psm ----------------------------
(***************************************************************************)
(* Ar9170Psm for TLC: what each run lets the environment do.               *)
(***************************************************************************)
EXTENDS Ar9170Psm

NoFaults      == {}
LostAnswers   == {"LostStatus"}
LateAnswers   == {"LostStatus", "LateStatus"}
LostResponses == {"LostStatus", "LostDone"}
UsbRaces      == {"UsbRace"}
DeviceFaults  == {"EarlyTbtt", "UsbRace", "LostDone", "UsbError", "SlowUsb"}
=============================================================================
