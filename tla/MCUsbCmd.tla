------------------------------- MODULE MCUsbCmd -------------------------------
(***************************************************************************)
(* UsbCmd for TLC: environments with one thing wrong, or two that meet.     *)
(***************************************************************************)
EXTENDS UsbCmd

Single == {{}, {"Paced"}} \cup {{c} : c \in Conditions}
Mixed == {{"IntError", "LostReply"}, {"LostDone", "LostReply"},
          {"SlowUsb", "TxStatus"}}
AllEnvs == Single \cup Mixed
FaultFree == {{}}
=============================================================================
