-------------------------- MODULE MCMonotonicClock --------------------------
(* The cleanup of the clock: see ClockCleanup.cfg.  The rest of the clock is *)
(* checked in MCSamplePath.                                                 *)
EXTENDS MonotonicClock
=============================================================================
