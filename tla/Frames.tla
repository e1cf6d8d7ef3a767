-------------------------------- MODULE Frames --------------------------------
(***************************************************************************)
(* The two frames the firmware sends: imu_telemetry_encode of              *)
(* modules/protocols/imu_telemetry and foxglove_debug_frame_encode of      *)
(* debug/foxglove_debug_frame.c, byte by byte into a buffer that still     *)
(* holds an earlier frame, and what damage on the line does to them.       *)
(*                                                                         *)
(* Measured values are exact multiples of 1/Den of their unit: rounding of *)
(* the float32 arithmetic itself is left out.  NonFinite stands for NaN    *)
(* and the infinities.  A 32-bit word is the pair of its halves.           *)
(***************************************************************************)
EXTENDS Integers, Sequences, FiniteSetsExt

CONSTANTS
  Samples,   \* what the encoders are given
  Damages,   \* pairs of bit patterns that damage two adjacent bytes
  NonFinite

Den == 1000

VARIABLES
  sample,  \* the sample that is encoded
  frame,   \* the buffer: offset -> byte
  damaged  \* the line has damaged it

vars == <<sample, frame, damaged>>

-----------------------------------------------------------------------------
(* put_u16, put_u32 and put_f32: bytes and where they go.  Faulty form: the  *)
(* halves are swapped.                                                      *)

PutByte(at, v) == <<at, <<v>>>>
PutU16(at, v)  == <<at, <<v % 256, v \div 256>>>>
PutU32Swapped(at, w) == <<at, <<w[1] % 256, w[1] \div 256, w[2] % 256, w[2] \div 256>>>>
PutU32(at, w)  == <<at, <<w[2] % 256, w[2] \div 256, w[1] % 256, w[1] \div 256>>>>

Covers(write, i) == i - write[1] + 1 \in DOMAIN write[2]

(* Written one after the other: the last write to a byte counts. *)
Apply(f, writes) ==
  [i \in DOMAIN f |->
     LET to == {k \in DOMAIN writes : Covers(writes[k], i)}
         last == writes[Max(to)]
     IN  IF to = {} THEN f[i] ELSE last[2][i - last[1] + 1]]

(* What the bits of a word are worth. *)
Weight == <<1, 2, 4, 8, 16, 32, 64, 128, 256, 512, 1024, 2048, 4096, 8192, 16384, 32768>>
Bit(word, i) == (word \div Weight[i]) % 2

(* Exclusive or of two words: the bits in which they differ.  (The operators  *)
(* of Bitwise are RECURSIVE, which the prover does not read.)               *)
Xor(a, b) ==
  LET low[i \in 0 .. 16] ==
        IF i = 0 THEN 0
        ELSE low[i - 1] + (IF Bit(a, i) = Bit(b, i) THEN 0 ELSE Weight[i])
  IN  low[16]

(* imu_telemetry_crc16_ccitt_false and foxglove_debug_crc16_ccitt_false *)
CrcBit(crc) ==
  IF crc >= 2^15 THEN Xor((2 * crc) % 2^16, 4129) ELSE 2 * crc

CrcByte(crc, byte) ==
  LET after[bits \in 0 .. 8] ==
        IF bits = 0 THEN Xor(crc, 256 * byte) ELSE CrcBit(after[bits - 1])
  IN  after[8]

Words == 0 .. 2^16 - 1
CrcInit == 65535

(* The step is a function so that TLC evaluates the CRC so far first. *)
CrcOf(bytes) ==
  LET after[n \in 0 .. Len(bytes)] ==
        IF n = 0 THEN CrcInit
        ELSE [crc \in Words |-> CrcByte(crc, bytes[n])][after[n - 1]]
  IN  after[Len(bytes)]

Crc(f, first, length) == CrcOf([n \in 1 .. length |-> f[first + n - 1]])

-----------------------------------------------------------------------------
(* wrap_deg.  C's remainder has the sign of the dividend.  Faulty form: as    *)
(* if it were never negative.                                               *)
Remainder(a, b) == IF a >= 0 THEN a % b ELSE -((-a) % b)

WrapNonNegative(angle) ==
  IF angle = NonFinite THEN angle
  ELSE Remainder(angle + 180 * Den, 360 * Den) - 180 * Den

WrapDeg(angle) ==
  IF angle = NonFinite THEN angle
  ELSE LET wrapped == Remainder(angle + 180 * Den, 360 * Den)
       IN  (IF wrapped < 0 THEN wrapped + 360 * Den ELSE wrapped) - 180 * Den

(* encode_i16.  lroundf rounds halves away from zero. *)
Round(n) == IF n >= 0 THEN (2 * n + Den) \div (2 * Den) ELSE -((2 * (-n) + Den) \div (2 * Den))

INT16_MAX == 32767
INT16_MIN == -32768

EncodeI16(value, scale) ==
  IF value = NonFinite THEN 0
  ELSE IF value * scale >= INT16_MAX * Den THEN INT16_MAX
  ELSE IF value * scale <= INT16_MIN * Den THEN INT16_MIN
  ELSE Round(value * scale)

(* The cast to uint16_t.  Faulty form: without it. *)
PutSigned(at, value, scale) == PutU16(at, EncodeI16(value, scale))
PutI16(at, value, scale) == PutU16(at, EncodeI16(value, scale) % 2^16)

(* imu_telemetry_encode *)
TelemetryWrites(s) ==
  << PutByte(0, 165), PutByte(1, 90), PutByte(2, 2), PutByte(3, 34),
     PutU16(4, s.sequence), PutU32(6, s.timestamp), PutU16(10, s.status % 512),
     PutI16(12, WrapDeg(s.euler[1]), 100), PutI16(14, WrapDeg(s.euler[2]), 100),
     PutI16(16, WrapDeg(s.euler[3]), 100),
     PutI16(18, s.gyro[1], 10), PutI16(20, s.gyro[2], 10), PutI16(22, s.gyro[3], 10),
     PutI16(24, s.accel[1], 1000), PutI16(26, s.accel[2], 1000),
     PutI16(28, s.accel[3], 1000),
     PutI16(30, s.quaternion[1], 32767), PutI16(32, s.quaternion[2], 32767),
     PutI16(34, s.quaternion[3], 32767), PutI16(36, s.quaternion[4], 32767) >>

(* foxglove_debug_frame_encode: floats and counters are copied as they are.  *)
DebugWrites(s) ==
  << PutByte(0, 211), PutByte(1, 145), PutByte(2, 1), PutByte(3, 1),
     PutU16(4, 96), PutU16(6, s.sequence), PutU32(8, s.timestamp),
     PutU16(12, s.status) >>
  \o [i \in 1 .. 13 |-> PutU32(10 + 4 * i, s.floats[i])]
  \o [i \in 1 .. 9 |-> PutU32(62 + 4 * i, s.counters[i])]

Sizes == [telemetry |-> 40, debug |-> 104]

(* The bytes the CRC covers.  Faulty form: the last one is missing. *)
CrcShort(kind) == Sizes[kind] - 5
CrcLength(kind) == Sizes[kind] - 4

Encoded(s, f) ==
  LET body == Apply(f, IF s.kind = "telemetry" THEN TelemetryWrites(s)
                                               ELSE DebugWrites(s))
  IN  Apply(body, <<PutU16(Sizes[s.kind] - 2, Crc(body, 2, CrcLength(s.kind)))>>)

-----------------------------------------------------------------------------

Stale(kind, byte) == [i \in 0 .. Sizes[kind] - 1 |-> byte]

NoSample == [kind |-> "none"]

Init == sample = NoSample /\ frame = <<>> /\ damaged = FALSE

Encode ==
  /\ sample = NoSample
  /\ \E s \in Samples, byte \in {0, 255} : sample' = s /\ frame' = Encoded(s, Stale(s.kind, byte))
  /\ UNCHANGED damaged

(* Two adjacent bytes, both of the covered part or both of the CRC field:    *)
(* the field is sent low byte first, so that damage across its border is no  *)
(* burst in the order of the division.                                      *)
Damage ==
  /\ sample # NoSample /\ ~damaged
  /\ \E at \in 0 .. Sizes[sample.kind] - 2, d \in Damages :
       /\ at # Sizes[sample.kind] - 3
       /\ frame' = [frame EXCEPT ![at] = Xor(@, d[1]), ![at + 1] = Xor(@, d[2])]
  /\ damaged' = TRUE
  /\ UNCHANGED sample

Next == Encode \/ Damage
Spec == Init /\ [][Next]_vars
-----------------------------------------------------------------------------
(* What a receiver does, after docs/protocols *)

U16(at) == frame[at] + 256 * frame[at + 1]
I16(at) == IF U16(at) >= 2^15 THEN U16(at) - 2^16 ELSE U16(at)
U32(at) == <<U16(at + 2), U16(at)>>

Header(kind) ==
  IF kind = "telemetry" THEN <<165, 90, 2, 34>> ELSE <<211, 145, 1, 1, 96, 0>>

Accepted ==
  LET kind == sample.kind IN
  /\ \A i \in DOMAIN Header(kind) : frame[i - 1] = Header(kind)[i]
  /\ U16(Sizes[kind] - 2) = Crc(frame, 2, Sizes[kind] - 4)

-----------------------------------------------------------------------------
(* Properties *)

TypeOK ==
  /\ sample \in Samples \cup {NoSample} /\ damaged \in BOOLEAN
  /\ sample # NoSample => /\ DOMAIN frame = 0 .. Sizes[sample.kind] - 1
                          /\ \A i \in DOMAIN frame : frame[i] \in 0 .. 255

Sent(kind) == sample.kind = kind /\ ~damaged

(* The code of a quantity is the nearest one, saturated; 0 if not finite. *)
Nearest(code, value, scale) ==
  IF value = NonFinite THEN code = 0
  ELSE IF value * scale >= INT16_MAX * Den THEN code = INT16_MAX
  ELSE IF value * scale <= INT16_MIN * Den THEN code = INT16_MIN
  ELSE LET error == code * Den - value * scale IN 2 * error <= Den /\ -2 * error <= Den

(* The code of an angle stays within half a turn and is off by at most half  *)
(* a hundredth of a degree modulo full turns, however often it was turned.   *)
NearestAngle(code, angle) ==
  IF angle = NonFinite THEN code = 0
  ELSE /\ -18000 <= code /\ code <= 18000
       /\ LET error == (code * 10 - angle) % (360 * Den)
          IN  error <= 5 \/ error >= 360 * Den - 5

(* docs/protocols/imu-telemetry-v2.md: read at the documented offsets, a      *)
(* frame holds the sample, whatever the buffer held before.                 *)
TelemetryDecodes ==
  Sent("telemetry") =>
    /\ Accepted
    /\ U16(4) = sample.sequence /\ U32(6) = sample.timestamp
    /\ \A i \in 1 .. 16 : Bit(U16(10), i) = IF i <= 9 THEN Bit(sample.status, i) ELSE 0
    /\ \A i \in 1 .. 3 : /\ NearestAngle(I16(10 + 2 * i), sample.euler[i])
                         /\ Nearest(I16(16 + 2 * i), sample.gyro[i], 10)
                         /\ Nearest(I16(22 + 2 * i), sample.accel[i], 1000)
    /\ \A i \in 1 .. 4 : Nearest(I16(28 + 2 * i), sample.quaternion[i], 32767)

(* docs/protocols/foxglove-debug-v1.md, in the same way. *)
DebugDecodes ==
  Sent("debug") =>
    /\ Accepted
    /\ U16(6) = sample.sequence /\ U32(8) = sample.timestamp /\ U16(12) = sample.status
    /\ \A i \in 1 .. 3 : /\ U32(10 + 4 * i) = sample.floats[i]
                         /\ U32(22 + 4 * i) = sample.floats[3 + i]
                         /\ U32(34 + 4 * i) = sample.floats[6 + i]
    /\ \A i \in 1 .. 4 : U32(46 + 4 * i) = sample.floats[9 + i]
    /\ \A i \in 1 .. 9 : U32(62 + 4 * i) = sample.counters[i]

(* Damage confined to two adjacent bytes never passes for a frame. *)
DamageDetected == damaged => ~Accepted
=============================================================================
