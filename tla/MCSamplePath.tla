----------------------------- MODULE MCSamplePath -----------------------------
(* What a sample passes through around the IMU thread:                        *)
(*   driver    the sensors' initialisation and reads (SensorDriver), with two *)
(*             registers per chip, so that one can be left behind the other;  *)
(*   sample    what is made of its bytes (BodyFrame), for all axis maps with  *)
(*             a wrong axis and wrong signs among them, and the ends of the   *)
(*             range, the saturation limit and a small value;                 *)
(*   clock     its time stamp (MonotonicClock), over a counter of six ticks   *)
(*             and a high word that wraps after three periods;                *)
(*   latch     how it reaches the thread (SampleLatch), over sequence numbers *)
(*             of four values, which nine samples wrap twice;                 *)
(*   snapshot  what readers see of it (SnapshotBuffer): two of them, and      *)
(*             snapshots of two words.                                        *)
(* These share no state: a behaviour follows one of them, and the others rest. *)
EXTENDS MCSnapshotBuffer, MCSensorDriver, MonotonicClock

pathVars == <<allVars, sensorVars, clockVars>>

(* A part that rests does so in one initial state. *)
PathInit ==
  /\ MCInit /\ SensorStart /\ ClockStart
  /\ subject = "latch" \/ consumed = 0

SharingStep == MCNext /\ UNCHANGED <<driverVars, bodyVars, clockVars>>
SensorStep  == SensorNext /\ UNCHANGED <<vars, latchVars, clockVars>>
ClockStep ==
  /\ subject = "clock" /\ ClockNext
  /\ UNCHANGED <<allVars, driverVars, bodyVars>>

PathNext == SharingStep \/ SensorStep \/ ClockStep

(* The driver goes on, as in DriverFairSpec; of the other parts no liveness   *)
(* is asked.                                                                *)
PathSpec ==
  PathInit /\ [][PathNext]_pathVars
    /\ WF_pathVars(subject = "driver" /\ SensorStep)

PathSigns     == {-1, 0, 1}
PathAxisBytes == {<<0, 128>>, <<255, 127>>, <<154, 121>>, <<255, 255>>}
=============================================================================
