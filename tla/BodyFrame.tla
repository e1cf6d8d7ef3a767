------------------------------- MODULE BodyFrame -------------------------------
(***************************************************************************)
(* From the data registers of the BMI088 to a vector in the frame of the   *)
(* vehicle: bmi088_axis_map_is_right_handed and read_sample of             *)
(* modules/devices/bmi088/bmi088.c, and the saturation check of            *)
(* imu_policy.c.  The scaling by a positive constant is left out.          *)
(***************************************************************************)
EXTENDS Integers, Sequences, FiniteSets, FiniteSetsExt

CONSTANTS
  SourceAxes, Signs,  \* what an axis map may name, wrong values included
  AxisBytes,          \* what the two data registers of an axis may hold
  Limit               \* of imu_gyro_saturated

VARIABLES map, data, raw, body, result

vars == <<map, data, raw, body, result>>

Axes == 0 .. 2
Vectors(S) == [Axes -> S]

(* bmi088_axis_map_is_right_handed.  Faulty form: the signs do not count. *)
Inversions(m) ==
  Cardinality({p \in Axes \X Axes :
                 p[2] < p[1] /\ m.source_axis[p[2]] > m.source_axis[p[1]]})

ParityOfAxes(m) == IF Inversions(m) % 2 = 0 THEN 1 ELSE -1
ParityOfMap(m)  == ParityOfAxes(m) * (m.sign[0] * m.sign[1] * m.sign[2])
Handedness(m)   == ParityOfMap(m)

RightHanded(m) ==
  /\ \A i \in Axes : m.source_axis[i] < 3 /\ m.sign[i] \in {1, -1}
  /\ \A i, j \in Axes : i # j => m.source_axis[i] # m.source_axis[j]
  /\ Handedness(m) = 1

(* read_i16_le, the faulty form without the sign *)
TwoBytes   == 256 * 256
Highest == 128 * 256 - 1
ReadU16(b) == b[1] + 256 * b[2]
ReadI16(b) == LET u == b[1] + 256 * b[2] IN IF u > Highest THEN u - TwoBytes ELSE u

(* The axis permutation *)
MapAxes(m, v) == [i \in Axes |-> v[m.source_axis[i]] * m.sign[i]]

(* imu_gyro_saturated; the width is that of int, so -32768 has an absolute   *)
(* value.  Faulty form: it has none.                                        *)
AbsI16(n) == IF n = -Highest - 1 THEN n ELSE IF n < 0 THEN -n ELSE n
SaturatedI16(v) == \E i \in Axes : AbsI16(v[i]) >= Limit
Saturated(v) == \E i \in Axes : v[i] >= Limit \/ -v[i] >= Limit

ReadSample ==
  /\ result = "none"
  /\ IF RightHanded(map)
     THEN /\ raw' = [i \in Axes |-> ReadI16(data[i])]
          /\ body' = MapAxes(map, raw')
          /\ result' = IF Saturated(raw') THEN "saturated" ELSE "ok"
     ELSE result' = "bad argument" /\ UNCHANGED <<raw, body>>
  /\ UNCHANGED <<map, data>>

Origin == [i \in Axes |-> 0]

Init ==
  /\ map \in [source_axis : Vectors(SourceAxes), sign : Vectors(Signs)]
  /\ data \in Vectors(AxisBytes)
  /\ raw = Origin /\ body = Origin /\ result = "none"

Next == ReadSample

Spec == Init /\ [][Next]_vars
-----------------------------------------------------------------------------
(* Properties *)

(* The values fit the 16 bits they were read from. *)
TypeOK ==
  /\ raw \in Vectors(-Highest - 1 .. Highest)
  /\ body \in Vectors(-Highest - 1 .. Highest + 1)
  /\ result \in {"none", "ok", "saturated", "bad argument"}

Unit(k) == [i \in Axes |-> IF i = k THEN 1 ELSE 0]

Cross(a, b) ==
  [i \in Axes |-> LET j == (i + 1) % 3  k == (i + 2) % 3
                  IN  a[j] * b[k] - a[k] * b[j]]

Image(m, a)   == MapAxes(m, Unit(a))
KeepsCross(m) ==
  \A i \in Axes : Cross(Image(m, (i + 1) % 3), Image(m, (i + 2) % 3)) = Image(m, i)

(* bmi088.h: a right-handed map.  The maps accepted are the rotations: they   *)
(* keep the cross product, so angular rates keep their sense; every other   *)
(* permutation with signs is refused.                                       *)
OnlyRotations ==
  result # "none" =>
    (result # "bad argument" <=>
       /\ map.source_axis \in Vectors(Axes) /\ map.sign \in Vectors({1, -1})
       /\ KeepsCross(map))

(* The check for saturation looks at the sensor's axes, its readers at the    *)
(* vehicle's: a sample with a component at either end of the range is       *)
(* reported, and no other is, for every pair of bytes and every map.        *)
SaturationIsReported ==
  result \in {"ok", "saturated"} =>
    /\ \A i \in Axes : (raw[i] - (data[i][1] + 256 * data[i][2])) % TwoBytes = 0
    /\ (result = "saturated")
         <=> Max({body[i] : i \in Axes} \cup {-body[i] : i \in Axes}) >= Limit
=============================================================================
