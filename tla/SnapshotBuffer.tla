---------------------------- MODULE SnapshotBuffer ----------------------------
(***************************************************************************)
(* The double-buffered IMU snapshot of kernel/imu/imu_service.c:           *)
(* publish_snapshot fills the inactive buffer word by word with interrupts *)
(* on, then stores the drop count and flips active_snapshot with           *)
(* interrupts off; imu_snapshot_read copies the active buffer word by word *)
(* with interrupts off.  The telemetry thread also counts its drops here.  *)
(*                                                                         *)
(* Masking interrupts on the single core stops every other context, which  *)
(* is what masked_by stands for.  Thread priorities are not used: the      *)
(* threads may interleave at every step that is not masked.                *)
(***************************************************************************)
EXTENDS Naturals

CONSTANTS
  Readers, Values, Zero, MaxDrops,
  Words,   \* the words of a snapshot, copied one at a time
  Imu,     \* the publishing thread
  Nobody   \* interrupts are enabled

ASSUME SnapshotAssumption ==
  /\ Zero \in Values
  /\ MaxDrops \in Nat
  /\ Imu \notin Readers
  /\ Nobody \notin Readers \cup {Imu}

VARIABLES
  snapshots,            \* the two buffers
  active_snapshot,      \* which of them readers copy
  telemetry_drop_count,
  masked_by,            \* who runs with interrupts disabled
  publisher,            \* where publish_snapshot is
  value,                \* the snapshot it publishes
  to_write,             \* the words it has not copied yet
  reader,               \* where each reader is
  to_read,              \* the words it has not copied yet
  copy,                 \* its *out while it is being filled
  result                \* its *out after the last completed call

vars == <<snapshots, active_snapshot, telemetry_drop_count, masked_by,
          publisher, value, to_write, reader, to_read, copy, result>>

publisherVars == <<publisher, value, to_write>>
readerVars    == <<reader, to_read, copy, result>>

Index  == {0, 1}
Buffer == [words : [Words -> Values], drops : 0 .. MaxDrops]

Filled(v)   == [w \in Words |-> v]
ZeroBuffer  == [words |-> Filled(Zero), drops |-> 0]

(* Faulty form: the publisher fills the buffer readers copy. *)
ActiveBuffer(active) == active
Inactive(active)     == 1 - active

(* A context runs unless another one has masked interrupts. *)
Runs(c) == masked_by \in {Nobody, c}

-----------------------------------------------------------------------------
(* publish_snapshot *)

(* The copy carries the drop field of the private snapshot, which nobody    *)
(* ever sets: zero until the masked store.                                  *)
BeginPublish(v) ==
  /\ Runs(Imu) /\ publisher = "idle"
  /\ publisher' = "copy"
  /\ value' = v
  /\ to_write' = Words
  /\ snapshots' = [snapshots EXCEPT ![Inactive(active_snapshot)].drops = 0]
  /\ UNCHANGED <<active_snapshot, telemetry_drop_count, masked_by, readerVars>>

WriteWord(w) ==
  /\ Runs(Imu) /\ publisher = "copy" /\ w \in to_write
  /\ snapshots' = [snapshots EXCEPT ![Inactive(active_snapshot)].words[w] = value]
  /\ to_write' = to_write \ {w}
  /\ UNCHANGED <<active_snapshot, telemetry_drop_count, masked_by, publisher,
                 value, readerVars>>

MaskPublish ==
  /\ Runs(Imu) /\ publisher = "copy" /\ to_write = {}
  /\ masked_by' = Imu
  /\ publisher' = "drops"
  /\ UNCHANGED <<snapshots, active_snapshot, telemetry_drop_count, value,
                 to_write, readerVars>>

(* Faulty form: the count goes to the buffer that is about to retire. *)
StoreDropsActive ==
  /\ Runs(Imu) /\ publisher = "drops"
  /\ snapshots' = [snapshots EXCEPT ![active_snapshot].drops = telemetry_drop_count]
  /\ publisher' = "flip"
  /\ UNCHANGED <<active_snapshot, telemetry_drop_count, masked_by, value,
                 to_write, readerVars>>

StoreDrops ==
  /\ Runs(Imu) /\ publisher = "drops"
  /\ snapshots' = [snapshots EXCEPT
                     ![Inactive(active_snapshot)].drops = telemetry_drop_count]
  /\ publisher' = "flip"
  /\ UNCHANGED <<active_snapshot, telemetry_drop_count, masked_by, value,
                 to_write, readerVars>>

FlipActive ==
  /\ Runs(Imu) /\ publisher = "flip"
  /\ active_snapshot' = 1 - active_snapshot
  /\ masked_by' = Nobody
  /\ publisher' = "idle"
  /\ UNCHANGED <<snapshots, telemetry_drop_count, value, to_write, readerVars>>

-----------------------------------------------------------------------------
(* imu_snapshot_read *)

(* Faulty form: the copy is made with interrupts enabled. *)
BeginReadUnmasked(r) ==
  /\ Runs(r) /\ reader[r] = "idle"
  /\ reader' = [reader EXCEPT ![r] = "copy"]
  /\ to_read' = [to_read EXCEPT ![r] = Words]
  /\ copy' = [copy EXCEPT ![r].drops = snapshots[active_snapshot].drops]
  /\ UNCHANGED <<snapshots, active_snapshot, telemetry_drop_count, masked_by,
                 publisherVars, result>>

BeginRead(r) ==
  /\ masked_by = Nobody /\ reader[r] = "idle"
  /\ masked_by' = r
  /\ reader' = [reader EXCEPT ![r] = "copy"]
  /\ to_read' = [to_read EXCEPT ![r] = Words]
  /\ copy' = [copy EXCEPT ![r].drops = snapshots[active_snapshot].drops]
  /\ UNCHANGED <<snapshots, active_snapshot, telemetry_drop_count,
                 publisherVars, result>>

ReadWord(r, w) ==
  /\ Runs(r) /\ reader[r] = "copy" /\ w \in to_read[r]
  /\ copy' = [copy EXCEPT ![r].words[w] = snapshots[active_snapshot].words[w]]
  /\ to_read' = [to_read EXCEPT ![r] = @ \ {w}]
  /\ UNCHANGED <<snapshots, active_snapshot, telemetry_drop_count, masked_by,
                 publisherVars, reader, result>>

EndRead(r) ==
  /\ Runs(r) /\ reader[r] = "copy" /\ to_read[r] = {}
  /\ result' = [result EXCEPT ![r] = copy[r]]
  /\ reader' = [reader EXCEPT ![r] = "idle"]
  /\ masked_by' = Nobody
  /\ UNCHANGED <<snapshots, active_snapshot, telemetry_drop_count,
                 publisherVars, to_read, copy>>

-----------------------------------------------------------------------------

(* imu_service_record_telemetry_drop: one masked saturating increment.  The  *)
(* faulty form does not saturate.                                           *)
RecordDropUnbounded ==
  /\ masked_by = Nobody
  /\ telemetry_drop_count' = telemetry_drop_count + 1
  /\ UNCHANGED <<snapshots, active_snapshot, masked_by, publisherVars, readerVars>>

RecordTelemetryDrop ==
  /\ masked_by = Nobody
  /\ telemetry_drop_count < MaxDrops
  /\ telemetry_drop_count' = telemetry_drop_count + 1
  /\ UNCHANGED <<snapshots, active_snapshot, masked_by, publisherVars, readerVars>>

(* imu_service_init of a stopped service.  Its caller runs above the        *)
(* readers and masks nothing: no reader is inside its copy meanwhile.       *)
ServiceRestart ==
  /\ masked_by = Nobody /\ publisher = "idle"
  /\ \A r \in Readers : reader[r] = "idle"
  /\ snapshots' = [i \in Index |-> ZeroBuffer]
  /\ active_snapshot' = 0
  /\ telemetry_drop_count' = 0
  /\ UNCHANGED <<masked_by, publisherVars, readerVars>>

Init ==
  /\ snapshots = [i \in Index |-> ZeroBuffer]
  /\ active_snapshot = 0
  /\ telemetry_drop_count = 0
  /\ masked_by = Nobody
  /\ publisher = "idle" /\ value = Zero /\ to_write = {}
  /\ reader = [r \in Readers |-> "idle"]
  /\ to_read = [r \in Readers |-> {}]
  /\ copy = [r \in Readers |-> ZeroBuffer]
  /\ result = [r \in Readers |-> ZeroBuffer]

PublisherStep ==
  \/ \E v \in Values : BeginPublish(v)
  \/ \E w \in Words : WriteWord(w)
  \/ MaskPublish \/ StoreDrops \/ FlipActive

ReaderStep(r) == BeginRead(r) \/ (\E w \in Words : ReadWord(r, w)) \/ EndRead(r)

Next ==
  \/ PublisherStep
  \/ \E r \in Readers : ReaderStep(r)
  \/ RecordTelemetryDrop
  \/ ServiceRestart

Spec == Init /\ [][Next]_vars
-----------------------------------------------------------------------------
(* Properties *)

TypeOK ==
  /\ snapshots \in [Index -> Buffer]
  /\ active_snapshot \in Index
  /\ telemetry_drop_count \in 0 .. MaxDrops
  /\ masked_by \in Readers \cup {Imu, Nobody}
  /\ publisher \in {"idle", "copy", "drops", "flip"}
  /\ value \in Values
  /\ to_write \in SUBSET Words
  /\ reader \in [Readers -> {"idle", "copy"}]
  /\ to_read \in [Readers -> SUBSET Words]
  /\ copy \in [Readers -> Buffer]
  /\ result \in [Readers -> Buffer]

(* imu_snapshot_read never returns words of two snapshots. *)
NoTornRead == \A r \in Readers : \E v \in Values : result[r].words = Filled(v)

(* The drop count readers can see does not go back, although every          *)
(* publication first overwrites the buffer's count; only a restart of the   *)
(* service, which also resets the counter, lowers it.                       *)
VisibleDrops == snapshots[active_snapshot].drops

DropsNeverGoBack ==
  [][ \/ VisibleDrops' >= VisibleDrops
      \/ telemetry_drop_count' < telemetry_drop_count ]_vars

(* The double buffer implements the register: publication takes effect when *)
(* active_snapshot flips, a read when it completes.                         *)
AsSnapshot(b) == [value |-> b.words, drops |-> b.drops]

Register ==
  INSTANCE SnapshotRegister
    WITH Values    <- {Filled(v) : v \in Values},
         Zero      <- Filled(Zero),
         published <- AsSnapshot(snapshots[active_snapshot]),
         drops     <- telemetry_drop_count,
         result    <- [r \in Readers |-> AsSnapshot(result[r])]

ImplementsRegister == Register!Spec
=============================================================================
