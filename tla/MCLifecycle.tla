---------------------------- MODULE MCLifecycle ----------------------------
(* Lifecycle in environments with none, some and all of the conditions. *)
EXTENDS Lifecycle

AllEnvs == SUBSET Conditions
UnplugOnly == {{"unplug"}}
=============================================================================
