--------------------------- MODULE MCSensorDriver ---------------------------
(* The driver of the BMI088: its conversation with the sensors (SensorDriver) *)
(* and what it makes of the bytes of a sample (BodyFrame).  The two share no *)
(* state: a behaviour follows one of them, its subject, and the other one   *)
(* rests.  SensorDriverProofs is about it, MCSamplePath model-checks it.    *)
EXTENDS SensorDriver, Integers, Subject

CONSTANTS SourceAxes, Signs, AxisBytes, Limit

ASSUME SampleAssumption ==
  /\ SourceAxes \subseteq Nat /\ Signs \subseteq Int /\ Limit \in Int
  /\ AxisBytes \subseteq (0 .. 255) \X (0 .. 255)

VARIABLES map, bytes, raw, body, verdict

B == INSTANCE BodyFrame WITH data <- bytes, result <- verdict

bodyVars   == <<map, bytes, raw, body, verdict>>
sensorVars == <<subject, driverVars, bodyVars>>

SensorStart ==
  /\ subject \in Subjects /\ DriverStart
  /\ subject = "driver" \/ (fitted = {} /\ configured = {})
  /\ \/ subject = "sample" /\ B!Init
     \/ /\ subject # "sample"
        /\ map = "none" /\ bytes = "none"
        /\ raw = B!Origin /\ body = B!Origin /\ verdict = "none"

DriverStep == subject = "driver" /\ DriverNext /\ UNCHANGED <<subject, bodyVars>>
SampleStep == subject = "sample" /\ B!Next /\ UNCHANGED <<subject, driverVars>>

(* The sample has been read. *)
HasBeenRead == subject = "sample" /\ verdict # "none" /\ UNCHANGED sensorVars

SensorNext == DriverStep \/ SampleStep \/ HasBeenRead
SensorSpec == SensorStart /\ [][SensorNext]_sensorVars
-----------------------------------------------------------------------------
(* What is asked of BodyFrame *)

(* bmi088_axis_map_is_right_handed: the maps accepted are the rotations;      *)
(* imu_gyro_saturated: a sample with a component at an end of the range is  *)
(* reported, and no other is, whatever the axis map.                        *)
BodySampleSound == B!TypeOK /\ B!OnlyRotations /\ B!SaturationIsReported
=============================================================================
