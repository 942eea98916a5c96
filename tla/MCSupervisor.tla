---------------------------- MODULE MCSupervisor ----------------------------
(* Small instances of Supervisor; the configurations choose the constants.   *)
EXTENDS Supervisor
==============================================================================
