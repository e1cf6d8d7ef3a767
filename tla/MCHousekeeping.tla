---------------------------- MODULE MCHousekeeping ----------------------------
(* Housekeeping for model checking: Housekeeping.cfg, and for the diagnostics *)
(* during a fault, with handlers that are never late, FaultDiagnostics.cfg. *)
EXTENDS Housekeeping
=============================================================================
