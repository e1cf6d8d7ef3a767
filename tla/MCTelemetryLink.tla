--------------------------- MODULE MCTelemetryLink ---------------------------
(* What leaves the firmware over the two serial lines: the telemetry path    *)
(* (TelemetryLink), the contents of its frames (Frames), and the debug       *)
(* stream with its receiver (DebugStream).  The three share no state, so a   *)
(* behaviour follows one of them, its subject, and the others rest.          *)
EXTENDS TelemetryLink, Integers, Sequences

CONSTANTS Subjects, Samples, Damages, NonFinite, SeqRange, MaxFrames, MaxDamage, Chunks

(* A frame has a sequence number, and a read returns some number of bytes.   *)
ASSUME StreamAssumption ==
  /\ SeqRange \in Nat \ {0} /\ MaxFrames \in Nat /\ MaxDamage \in Nat
  /\ Chunks \subseteq Nat

(* The samples are of the types of the two structs; what is measured is a     *)
(* number or not finite.  Damage changes a bit.                              *)
Word     == 0 .. 2^16 - 1
Quantity == Int \cup {NonFinite}

ASSUME FrameAssumption ==
  /\ NonFinite \notin Int
  /\ Samples \subseteq
       [kind : {"telemetry"}, sequence : Word, timestamp : Word \X Word, status : Word,
        euler : [1 .. 3 -> Quantity], gyro : [1 .. 3 -> Quantity],
        accel : [1 .. 3 -> Quantity], quaternion : [1 .. 4 -> Quantity]]
       \cup
       [kind : {"debug"}, sequence : Word, timestamp : Word \X Word, status : Word,
        floats : [1 .. 13 -> Word \X Word], counters : [1 .. 9 -> Word \X Word]]
  /\ Damages \subseteq ((0 .. 255) \X (0 .. 255)) \ {<<0, 0>>}

VARIABLES
  subject,
  sample, frame, damaged,                                 \* of Frames
  sequence, drop_count, sent, intact, damage, line,       \* of DebugStream
  buffer, feeding, last_sequence, dropped_frames, delivered

F == INSTANCE Frames
D == INSTANCE DebugStream

frameVars  == <<sample, frame, damaged>>
streamVars == <<sequence, drop_count, sent, intact, damage, line, buffer, feeding,
                last_sequence, dropped_frames, delivered>>
allVars    == <<subject, vars, frameVars, streamVars>>

MCInit == subject \in Subjects /\ Init /\ F!Init /\ D!Init

LinkStep   == subject = "link" /\ Next /\ UNCHANGED <<subject, frameVars, streamVars>>
FrameStep  == subject = "frames" /\ F!Next /\ UNCHANGED <<subject, vars, streamVars>>
StreamStep == subject = "stream" /\ D!Next /\ UNCHANGED <<subject, vars, frameVars>>

(* The inputs of the bounded parts are used up; the link must never stop.    *)
Rests == subject # "link" /\ UNCHANGED allVars

MCNext == LinkStep \/ FrameStep \/ StreamStep \/ Rests

(* The fairness of a part that rests asks for nothing. *)
MCSpec == MCInit /\ [][MCNext]_allVars /\ Fairness /\ WF_streamVars(D!Loop)

-----------------------------------------------------------------------------
(* Samples: every channel takes every value of its list, each channel        *)
(* another one at a time.                                                   *)

Angles == <<0, 179999, 180000, -180000, 540004, -400000, 5, -5, 359994, NonFinite>>
Rates  == <<0, 49, 50, -50, 3276649, 3276700, -3276850, -99999, 1, NonFinite>>
Accels == <<0, 1, -1, 32766, 32767, -32768, 40000, -40000, 981, NonFinite>>
Quats  == <<1000, -1000, 0, 500, -707, 1, -1, 1100, -1100, NonFinite>>

Pick(list, i) == list[(i % 10) + 1]

TelemetrySample(i) ==
  [kind |-> "telemetry", sequence |-> (i * 28387) % 65536,
   timestamp |-> <<(i * 40961) % 65536, 65535 - i>>, status |-> (i * 7919) % 65536,
   euler |-> [k \in 1 .. 3 |-> Pick(Angles, i + k)],
   gyro |-> [k \in 1 .. 3 |-> Pick(Rates, i + k)],
   accel |-> [k \in 1 .. 3 |-> Pick(Accels, i + k)],
   quaternion |-> [k \in 1 .. 4 |-> Pick(Quats, i + k)]]

DebugSample(i) ==
  [kind |-> "debug", sequence |-> 65535 - i, timestamp |-> <<i, 258>>,
   status |-> (i * 7919) % 65536,
   floats |-> [k \in 1 .. 13 |-> <<(k * 771 + i) % 65536, 65535 - k>>],
   counters |-> [k \in 1 .. 9 |-> <<65535 - k, k * 513 + i>>]]

MCSamples == {TelemetrySample(i) : i \in 0 .. 9} \cup {DebugSample(i) : i \in 0 .. 1}

(* The middle one is a multiple of the generator without its constant term. *)
MCDamages == {<<1, 0>>, <<0, 128>>, <<1, 128>>, <<128, 1>>, <<8, 129>>, <<255, 255>>}

-----------------------------------------------------------------------------
(* What is asked of Frames and DebugStream *)

(* imu_telemetry_encode, foxglove_debug_frame_encode: read at the documented  *)
(* offsets a frame holds the sample, whatever the buffer held before; and    *)
(* damage confined to two adjacent bytes never passes for a frame.          *)
FramesDecode ==
  F!TypeOK /\ F!TelemetryDecodes /\ F!DebugDecodes /\ F!DamageDetected

(* FrameParser.feed: a frame that came through whole is delivered or still    *)
(* lies whole ahead of the parser, whatever wreckage came before it; none is *)
(* delivered twice or after a later one; the frames missing between those   *)
(* delivered are counted, over the wrap of the sequence number.              *)
StreamRecovers ==
  D!TypeOK /\ D!NoIntactFrameLost /\ D!OnceInOrder /\ D!GapsCounted

(* FrameParser.feed returns, whatever bytes it is given. *)
FeedReturns == D!FeedReturns
=============================================================================
