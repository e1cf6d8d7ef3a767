--------------------------- MODULE SnapshotRegister ---------------------------
(***************************************************************************)
(* What the IMU service promises the readers of its snapshot               *)
(* (imu_snapshot.h, imu_service.h): one register that is published and     *)
(* read in one piece.  A snapshot is a value and the telemetry drop count  *)
(* at the moment it was published.                                         *)
(***************************************************************************)
EXTENDS Naturals

CONSTANTS
  Readers,  \* the threads that call imu_snapshot_read
  Values,   \* what the IMU thread publishes
  Zero,     \* the all-zero snapshot of a service that has just started
  MaxDrops  \* where the drop counter saturates

VARIABLES
  published, \* the current snapshot
  drops,     \* telemetry_drop_count
  result     \* what each reader got last

vars == <<published, drops, result>>

Snapshot == [value : Values, drops : 0 .. MaxDrops]
Fresh    == [value |-> Zero, drops |-> 0]

Publish(v) ==
  /\ published' = [value |-> v, drops |-> drops]
  /\ UNCHANGED <<drops, result>>

Read(r) ==
  /\ result' = [result EXCEPT ![r] = published]
  /\ UNCHANGED <<published, drops>>

CountDrop ==
  /\ drops < MaxDrops
  /\ drops' = drops + 1
  /\ UNCHANGED <<published, result>>

Restart ==
  /\ published' = Fresh
  /\ drops' = 0
  /\ UNCHANGED result

Init ==
  /\ published = Fresh
  /\ drops = 0
  /\ result = [r \in Readers |-> Fresh]

Next ==
  \/ \E v \in Values : Publish(v)
  \/ \E r \in Readers : Read(r)
  \/ CountDrop
  \/ Restart

Spec == Init /\ [][Next]_vars
=============================================================================
