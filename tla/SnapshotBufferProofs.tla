------------------------- MODULE SnapshotBufferProofs -------------------------
(***************************************************************************)
(* For any readers, words and values: no read is torn, the visible drop    *)
(* count does not go back, and the double buffer implements the atomic     *)
(* register of SnapshotRegister.  For any range of the sequence numbers:   *)
(* the sample latch accounts for every sample.                             *)
(***************************************************************************)
EXTENDS MCSnapshotBuffer, TLAPS

-----------------------------------------------------------------------------
(* The inductive invariant *)

Active   == snapshots[active_snapshot]
Spare    == snapshots[1 - active_snapshot]
Uniform(b) == \E v \in Values : b.words = Filled(v)

(* Whoever is inside a masked section is the one that masked. *)
MaskInv ==
  /\ masked_by = Imu <=> publisher \in {"drops", "flip"}
  /\ \A r \in Readers : reader[r] = "copy" <=> masked_by = r

(* The words written so far are those of the snapshot being published, and  *)
(* all of them once the section is masked.                                  *)
PublishInv ==
  /\ publisher = "copy" =>
       \A w \in Words : w \notin to_write => Spare.words[w] = value
  /\ publisher \in {"drops", "flip"} => Spare.words = Filled(value)
  /\ publisher = "flip" => Spare.drops = telemetry_drop_count

(* What readers copy is one publication, with a count that was once right. *)
ActiveInv == Uniform(Active) /\ Active.drops <= telemetry_drop_count

(* The words copied so far are those of the active buffer. *)
ReadInv ==
  \A r \in Readers : reader[r] = "copy" =>
    /\ copy[r].drops = Active.drops
    /\ \A w \in Words : w \notin to_read[r] => copy[r].words[w] = Active.words[w]

IInv == TypeOK /\ MaskInv /\ PublishInv /\ ActiveInv /\ ReadInv /\ NoTornRead

-----------------------------------------------------------------------------

(* The snapshot of a service that has just started. *)
LEMMA ZeroBufferType ==
  ZeroBuffer \in Buffer /\ Uniform(ZeroBuffer) /\ ZeroBuffer.drops = 0
  BY SnapshotAssumption DEF ZeroBuffer, Buffer, Filled, Uniform

(* The publisher is the other buffer's only writer. *)
LEMMA OtherIndex ==
  ASSUME active_snapshot \in Index
  PROVE  /\ 1 - active_snapshot \in Index
         /\ 1 - active_snapshot # active_snapshot
         /\ 1 - (1 - active_snapshot) = active_snapshot
  BY DEF Index

(* Words that agree everywhere are the same words. *)
LEMMA SameWords ==
  ASSUME NEW f \in [Words -> Values], NEW v \in Values,
         \A w \in Words : f[w] = v
  PROVE  f = Filled(v)
  BY DEF Filled

LEMMA SameFunction ==
  ASSUME NEW f \in [Words -> Values], NEW g \in [Words -> Values],
         \A w \in Words : f[w] = g[w]
  PROVE  f = g
  OBVIOUS

(* What a write to one field of a buffer does. *)
LEMMA SetDrops ==
  ASSUME NEW b \in Buffer, NEW d \in 0 .. MaxDrops
  PROVE  /\ [b EXCEPT !.drops = d] \in Buffer
         /\ [b EXCEPT !.drops = d].words = b.words
         /\ [b EXCEPT !.drops = d].drops = d
  BY DEF Buffer

LEMMA SetWord ==
  ASSUME NEW b \in Buffer, NEW w \in Words, NEW v \in Values
  PROVE  /\ [b EXCEPT !.words[w] = v] \in Buffer
         /\ [b EXCEPT !.words[w] = v].drops = b.drops
         /\ \A x \in Words :
              [b EXCEPT !.words[w] = v].words[x] = IF x = w THEN v ELSE b.words[x]
<1>1. b.words \in [Words -> Values] /\ b.drops \in 0 .. MaxDrops
  BY DEF Buffer
<1>2. [b.words EXCEPT ![w] = v] \in [Words -> Values]
  BY <1>1
<1>3. [b EXCEPT !.words[w] = v] = [words |-> [b.words EXCEPT ![w] = v],
                                   drops |-> b.drops]
  BY DEF Buffer
<1> QED BY <1>1, <1>2, <1>3 DEF Buffer

LEMMA InitIInv == Init => IInv
<1> SUFFICES ASSUME Init PROVE IInv
  OBVIOUS
<1>1. TypeOK
  BY ZeroBufferType, SnapshotAssumption DEF Init, TypeOK, Index
<1>2. MaskInv
  BY SnapshotAssumption DEF Init, MaskInv
<1>3. PublishInv /\ ActiveInv /\ ReadInv /\ NoTornRead
  BY ZeroBufferType
  DEF Init, PublishInv, ActiveInv, ReadInv, NoTornRead, Active, Index, Uniform
<1> QED BY <1>1, <1>2, <1>3 DEF IInv

-----------------------------------------------------------------------------
(* The steps of publish_snapshot *)

LEMMA BeginPublishIInv ==
  ASSUME IInv, NEW v \in Values, BeginPublish(v)
  PROVE  IInv'
<1> USE DEF IInv
<1>1. /\ snapshots' \in [Index -> Buffer]
      /\ Active' = Active
  <2>1. Spare \in Buffer /\ 0 \in 0 .. MaxDrops
    BY OtherIndex, SnapshotAssumption DEF TypeOK, Spare
  <2>2. snapshots' = [snapshots EXCEPT ![1 - active_snapshot] =
                        [Spare EXCEPT !.drops = 0]]
    BY DEF BeginPublish, Inactive, Spare
  <2>3. [Spare EXCEPT !.drops = 0] \in Buffer
    BY <2>1, SetDrops
  <2> QED BY <2>2, <2>3, OtherIndex DEF TypeOK, BeginPublish, Active
<1>2. TypeOK'
  BY <1>1 DEF TypeOK, BeginPublish, readerVars
<1>3. MaskInv'
  BY DEF MaskInv, BeginPublish, readerVars
<1>4. PublishInv'
  BY DEF PublishInv, BeginPublish
<1>5. ActiveInv' /\ ReadInv' /\ NoTornRead'
  BY <1>1 DEF ActiveInv, ReadInv, NoTornRead, BeginPublish, readerVars
<1> QED BY <1>2, <1>3, <1>4, <1>5

LEMMA WriteWordIInv ==
  ASSUME IInv, NEW w \in Words, WriteWord(w)
  PROVE  IInv'
<1> USE DEF IInv
<1>1. /\ snapshots' \in [Index -> Buffer]
      /\ Active' = Active
      /\ \A x \in Words : Spare'.words[x] = IF x = w THEN value ELSE Spare.words[x]
  <2> DEFINE written == [Spare EXCEPT !.words[w] = value]
  <2>1. Spare \in Buffer /\ value \in Values
    BY OtherIndex DEF TypeOK, Spare
  <2>2. snapshots' = [snapshots EXCEPT ![1 - active_snapshot] = written]
    BY DEF WriteWord, Inactive, Spare
  <2>3. /\ written \in Buffer
        /\ \A x \in Words : written.words[x] = IF x = w THEN value ELSE Spare.words[x]
    BY <2>1, SetWord
  <2> HIDE DEF written
  <2>4. Spare' = written
    BY <2>2, OtherIndex DEF TypeOK, WriteWord, Spare
  <2> QED BY <2>2, <2>3, <2>4, OtherIndex DEF TypeOK, WriteWord, Active
<1>2. TypeOK'
  BY <1>1 DEF TypeOK, WriteWord, readerVars
<1>3. MaskInv'
  BY DEF MaskInv, WriteWord, readerVars
<1>4. PublishInv'
  BY <1>1 DEF PublishInv, WriteWord
<1>5. ActiveInv' /\ ReadInv' /\ NoTornRead'
  BY <1>1 DEF ActiveInv, ReadInv, NoTornRead, WriteWord, readerVars
<1> QED BY <1>2, <1>3, <1>4, <1>5

LEMMA MaskPublishIInv == ASSUME IInv, MaskPublish PROVE IInv'
<1> USE DEF IInv
<1>1. TypeOK'
  BY DEF TypeOK, MaskPublish, readerVars
<1>2. MaskInv'
  BY SnapshotAssumption DEF MaskInv, MaskPublish, Runs, readerVars
<1>3. Spare.words = Filled(value)
  BY OtherIndex, SameWords DEF TypeOK, PublishInv, MaskPublish, Spare, Buffer
<1>4. PublishInv'
  BY <1>3 DEF PublishInv, MaskPublish, Spare
<1>5. ActiveInv' /\ ReadInv' /\ NoTornRead'
  BY DEF ActiveInv, ReadInv, NoTornRead, MaskPublish, readerVars, Active
<1> QED BY <1>1, <1>2, <1>4, <1>5

LEMMA StoreDropsIInv == ASSUME IInv, StoreDrops PROVE IInv'
<1> USE DEF IInv
<1>1. /\ snapshots' \in [Index -> Buffer]
      /\ Active' = Active
      /\ Spare'.words = Spare.words /\ Spare'.drops = telemetry_drop_count
  <2> DEFINE stored == [Spare EXCEPT !.drops = telemetry_drop_count]
  <2>1. Spare \in Buffer /\ telemetry_drop_count \in 0 .. MaxDrops
    BY OtherIndex DEF TypeOK, Spare
  <2>2. snapshots' = [snapshots EXCEPT ![1 - active_snapshot] = stored]
    BY DEF StoreDrops, Inactive, Spare
  <2>3. /\ stored \in Buffer
        /\ stored.words = Spare.words /\ stored.drops = telemetry_drop_count
    BY <2>1, SetDrops
  <2> HIDE DEF stored
  <2>4. Spare' = stored
    BY <2>2, OtherIndex DEF TypeOK, StoreDrops, Spare
  <2> QED BY <2>2, <2>3, <2>4, OtherIndex DEF TypeOK, StoreDrops, Active
<1>2. TypeOK'
  BY <1>1 DEF TypeOK, StoreDrops, readerVars
<1>3. MaskInv'
  BY DEF MaskInv, StoreDrops, readerVars
<1>4. PublishInv'
  BY <1>1 DEF PublishInv, StoreDrops
<1>5. ActiveInv' /\ ReadInv' /\ NoTornRead'
  BY <1>1 DEF ActiveInv, ReadInv, NoTornRead, StoreDrops, readerVars
<1> QED BY <1>2, <1>3, <1>4, <1>5

(* No reader is inside its copy when the index flips. *)
LEMMA FlipActiveIInv == ASSUME IInv, FlipActive PROVE IInv'
<1> USE DEF IInv
<1>1. Active' = Spare /\ Active'.words = Filled(value)
      /\ Active'.drops = telemetry_drop_count
  BY DEF PublishInv, FlipActive, Active, Spare
<1>2. masked_by = Imu /\ \A r \in Readers : reader[r] # "copy"
  BY SnapshotAssumption DEF MaskInv, FlipActive
<1>3. TypeOK'
  BY OtherIndex DEF TypeOK, FlipActive, readerVars
<1>4. MaskInv'
  BY <1>2, SnapshotAssumption DEF MaskInv, FlipActive, readerVars
<1>5. PublishInv' /\ ReadInv' /\ NoTornRead'
  BY <1>2 DEF PublishInv, ReadInv, NoTornRead, FlipActive, readerVars
<1>6. ActiveInv'
  BY <1>1, SnapshotAssumption DEF ActiveInv, TypeOK, FlipActive, Uniform
<1> QED BY <1>3, <1>4, <1>5, <1>6

-----------------------------------------------------------------------------
(* The steps of imu_snapshot_read *)

LEMMA BeginReadIInv ==
  ASSUME IInv, NEW r \in Readers, BeginRead(r)
  PROVE  IInv'
<1> USE DEF IInv
<1>1. copy' \in [Readers -> Buffer] /\ copy'[r].drops = Active.drops
  BY DEF TypeOK, BeginRead, Buffer, Active
<1>2. TypeOK'
  BY <1>1 DEF TypeOK, BeginRead, publisherVars
<1>3. MaskInv'
  BY SnapshotAssumption DEF TypeOK, MaskInv, BeginRead, publisherVars
<1>4. PublishInv' /\ ActiveInv' /\ NoTornRead'
  BY DEF PublishInv, ActiveInv, NoTornRead, BeginRead, publisherVars, Active, Spare
<1>5. ReadInv'
  <2> SUFFICES ASSUME NEW q \in Readers, reader'[q] = "copy"
               PROVE  /\ copy'[q].drops = Active'.drops
                      /\ \A w \in Words : w \notin to_read'[q] =>
                            copy'[q].words[w] = Active'.words[w]
    BY DEF ReadInv
  <2>1. q = r
    BY SnapshotAssumption, <1>3 DEF TypeOK, MaskInv, BeginRead
  <2>2. to_read'[r] = Words /\ Active' = Active
    BY DEF TypeOK, BeginRead, Active
  <2> QED BY <2>1, <2>2, <1>1
<1> QED BY <1>2, <1>3, <1>4, <1>5

LEMMA ReadWordIInv ==
  ASSUME IInv, NEW r \in Readers, NEW w \in Words, ReadWord(r, w)
  PROVE  IInv'
<1> USE DEF IInv
<1>1. /\ copy' \in [Readers -> Buffer]
      /\ copy'[r].drops = copy[r].drops
      /\ \A x \in Words :
           copy'[r].words[x] = IF x = w THEN Active.words[w] ELSE copy[r].words[x]
      /\ \A q \in Readers : q # r => copy'[q] = copy[q]
  <2> DEFINE v == Active.words[w]
             copied == [copy[r] EXCEPT !.words[w] = v]
  <2>1. Active \in Buffer /\ copy[r] \in Buffer
    BY DEF TypeOK, Active
  <2>2. v \in Values
    BY <2>1 DEF Buffer
  <2>3. copy' = [copy EXCEPT ![r] = copied]
    BY DEF ReadWord, Active
  <2> HIDE DEF v
  <2>4. /\ copied \in Buffer /\ copied.drops = copy[r].drops
        /\ \A x \in Words : copied.words[x] = IF x = w THEN v ELSE copy[r].words[x]
    BY <2>1, <2>2, SetWord
  <2> HIDE DEF copied
  <2> QED BY <2>3, <2>4 DEF TypeOK, v
<1>2. /\ to_read' \in [Readers -> SUBSET Words]
      /\ to_read'[r] = to_read[r] \ {w}
      /\ \A q \in Readers : q # r => to_read'[q] = to_read[q]
  BY DEF TypeOK, ReadWord
<1>3. TypeOK'
  BY <1>1, <1>2 DEF TypeOK, ReadWord, publisherVars
<1>4. MaskInv' /\ PublishInv' /\ ActiveInv' /\ NoTornRead'
  BY DEF MaskInv, PublishInv, ActiveInv, NoTornRead, ReadWord, publisherVars,
         Active, Spare
<1>5. ReadInv'
  BY <1>1, <1>2 DEF ReadInv, ReadWord, Active
<1> QED BY <1>3, <1>4, <1>5

(* The finished copy is the active buffer. *)
LEMMA EndReadCopies ==
  ASSUME IInv, NEW r \in Readers, EndRead(r)
  PROVE  copy[r] = Active
<1> USE DEF IInv
<1>1. copy[r] \in Buffer /\ Active \in Buffer
  BY DEF TypeOK, Active
<1>2. \A w \in Words : copy[r].words[w] = Active.words[w]
  BY DEF ReadInv, EndRead
<1>3. copy[r].words = Active.words
  <2>1. copy[r].words \in [Words -> Values] /\ Active.words \in [Words -> Values]
    BY <1>1 DEF Buffer
  <2> QED BY <2>1, <1>2, SameFunction
<1>4. copy[r].drops = Active.drops
  BY DEF ReadInv, EndRead
<1> QED BY <1>1, <1>3, <1>4 DEF Buffer

LEMMA EndReadIInv ==
  ASSUME IInv, NEW r \in Readers, EndRead(r)
  PROVE  IInv'
<1> USE DEF IInv
<1>1. TypeOK'
  BY DEF TypeOK, EndRead, publisherVars
<1>2. MaskInv'
  BY SnapshotAssumption DEF TypeOK, MaskInv, EndRead, publisherVars
<1>3. PublishInv' /\ ActiveInv'
  BY DEF PublishInv, ActiveInv, EndRead, publisherVars, Active, Spare
<1>4. ReadInv'
  BY SnapshotAssumption DEF TypeOK, ReadInv, EndRead, Active
<1>5. NoTornRead'
  BY EndReadCopies DEF TypeOK, NoTornRead, ActiveInv, Uniform, EndRead
<1> QED BY <1>1, <1>2, <1>3, <1>4, <1>5

-----------------------------------------------------------------------------

LEMMA RecordDropIInv == ASSUME IInv, RecordTelemetryDrop PROVE IInv'
<1> USE DEF IInv
<1>1. TypeOK'
  BY SnapshotAssumption DEF TypeOK, RecordTelemetryDrop, publisherVars, readerVars
<1>2. MaskInv' /\ ReadInv' /\ NoTornRead'
  BY DEF MaskInv, ReadInv, NoTornRead, RecordTelemetryDrop, publisherVars,
         readerVars, Active
<1>3. publisher # "flip"
  BY SnapshotAssumption DEF MaskInv, RecordTelemetryDrop
<1>4. PublishInv'
  BY <1>3 DEF PublishInv, RecordTelemetryDrop, publisherVars, Spare
<1>5. ActiveInv'
  <2>1. Active \in Buffer
    BY DEF TypeOK, Active
  <2>2. Active.drops \in Nat /\ telemetry_drop_count \in Nat
    BY <2>1, SnapshotAssumption DEF TypeOK, Buffer
  <2> QED BY <2>2 DEF ActiveInv, RecordTelemetryDrop, Active
<1> QED BY <1>1, <1>2, <1>4, <1>5

LEMMA RestartIInv == ASSUME IInv, ServiceRestart PROVE IInv'
<1> USE DEF IInv
<1>1. Active' = ZeroBuffer
  BY DEF ServiceRestart, Active, Index
<1>2. TypeOK'
  BY ZeroBufferType, SnapshotAssumption
  DEF TypeOK, ServiceRestart, publisherVars, readerVars, Index
<1>3. MaskInv' /\ PublishInv' /\ ReadInv' /\ NoTornRead'
  BY DEF MaskInv, PublishInv, ReadInv, NoTornRead, ServiceRestart,
         publisherVars, readerVars
<1>4. ActiveInv'
  BY <1>1, ZeroBufferType DEF ActiveInv, ServiceRestart
<1> QED BY <1>2, <1>3, <1>4

LEMMA NextIInv == IInv /\ [Next]_vars => IInv'
<1> SUFFICES ASSUME IInv, [Next]_vars
             PROVE  IInv'
  OBVIOUS
<1>1. CASE PublisherStep
  BY <1>1, BeginPublishIInv, WriteWordIInv, MaskPublishIInv, StoreDropsIInv,
     FlipActiveIInv DEF PublisherStep
<1>2. CASE \E r \in Readers : ReaderStep(r)
  BY <1>2, BeginReadIInv, ReadWordIInv, EndReadIInv DEF ReaderStep
<1>3. CASE UNCHANGED vars
  BY <1>3 DEF vars, IInv, TypeOK, MaskInv, PublishInv, ActiveInv, ReadInv,
              NoTornRead, Active, Spare
<1> QED BY <1>1, <1>2, <1>3, RecordDropIInv, RestartIInv DEF Next

LEMMA Invariance == Spec => []IInv
  BY InitIInv, NextIInv, PTL DEF Spec

-----------------------------------------------------------------------------

(* Every variable of the double buffer stays in its range. *)
THEOREM SnapshotTypeOK == Spec => []TypeOK
<1>1. IInv => TypeOK
  BY DEF IInv
<1> QED BY <1>1, Invariance, PTL

(* imu_snapshot_read: what a completed read returned are the words of one    *)
(* publication, wherever publisher and readers were preempted.              *)
THEOREM SnapshotNoTornRead == Spec => []NoTornRead
<1>1. IInv => NoTornRead
  BY DEF IInv
<1> QED BY <1>1, Invariance, PTL

(* Only the flip and the restart change what readers would see: the flip to *)
(* the current count, at least the visible one, the restart to zero.        *)
LEMMA DropsStep ==
  ASSUME IInv, [Next]_vars
  PROVE  VisibleDrops' >= VisibleDrops \/ telemetry_drop_count' < telemetry_drop_count
<1> USE DEF IInv
<1>1. /\ Active.drops \in Nat /\ telemetry_drop_count \in Nat
      /\ Active.drops <= telemetry_drop_count /\ VisibleDrops = Active.drops
  <2>1. Active \in Buffer
    BY DEF TypeOK, Active
  <2> QED BY <2>1, SnapshotAssumption
          DEF TypeOK, ActiveInv, Buffer, VisibleDrops, Active
<1>2. CASE FlipActive
  BY <1>1, <1>2 DEF PublishInv, FlipActive, Spare, VisibleDrops
<1>3. CASE ServiceRestart
  <2>1. telemetry_drop_count' = 0 /\ VisibleDrops' = 0
    BY <1>3 DEF ServiceRestart, VisibleDrops, Index, ZeroBuffer
  <2> QED BY <1>1, <2>1
<1>4. CASE StoreDrops
  <2>1. VisibleDrops' = VisibleDrops
    BY <1>4, OtherIndex DEF TypeOK, StoreDrops, Inactive, VisibleDrops
  <2> QED BY <1>1, <2>1
<1>5. ASSUME NEW v \in Values, BeginPublish(v)
      PROVE  VisibleDrops' = VisibleDrops
  BY <1>5, OtherIndex DEF TypeOK, BeginPublish, Inactive, VisibleDrops
<1>6. ASSUME NEW w \in Words, WriteWord(w)
      PROVE  VisibleDrops' = VisibleDrops
  BY <1>6, OtherIndex DEF TypeOK, WriteWord, Inactive, VisibleDrops
<1>7. CASE MaskPublish \/ RecordTelemetryDrop \/ UNCHANGED vars
  BY <1>1, <1>7 DEF MaskPublish, RecordTelemetryDrop, VisibleDrops, vars
<1>8. ASSUME NEW r \in Readers, ReaderStep(r)
      PROVE  VisibleDrops' = VisibleDrops
  BY <1>8 DEF ReaderStep, BeginRead, ReadWord, EndRead, VisibleDrops
<1> QED
  BY <1>1, <1>2, <1>3, <1>4, <1>5, <1>6, <1>7, <1>8 DEF Next, PublisherStep

(* The telemetry drop count in the snapshot never goes back while the        *)
(* service runs: no publication takes back a drop readers have seen.        *)
THEOREM SnapshotDropsNeverGoBack == Spec => DropsNeverGoBack
<1>1. IInv /\ [Next]_vars =>
        [VisibleDrops' >= VisibleDrops \/ telemetry_drop_count' < telemetry_drop_count]_vars
  BY DropsStep
<1> QED BY <1>1, Invariance, PTL DEF Spec, DropsNeverGoBack

-----------------------------------------------------------------------------
(* The refinement *)

LEMMA RegisterInit == Init => Register!Init
<1> SUFFICES ASSUME Init PROVE Register!Init
  OBVIOUS
<1>1. AsSnapshot(ZeroBuffer) = Register!Fresh
  BY DEF AsSnapshot, ZeroBuffer, Register!Fresh
<1>2. snapshots[active_snapshot] = ZeroBuffer
  BY DEF Init, Index
<1> QED BY <1>1, <1>2 DEF Init, Register!Init

LEMMA RegisterStep ==
  ASSUME IInv, [Next]_vars
  PROVE  [Register!Next]_(Register!vars)
<1> USE DEF IInv
<1>1. CASE FlipActive
  <2>1. Spare.words = Filled(value) /\ Spare.drops = telemetry_drop_count
    BY <1>1 DEF PublishInv, FlipActive
  <2>2. Filled(value) \in {Filled(v) : v \in Values}
    BY DEF TypeOK
  <2>3. Register!Publish(Filled(value))
    BY <1>1, <2>1 DEF FlipActive, readerVars, Spare, Register!Publish, AsSnapshot
  <2> QED BY <2>2, <2>3 DEF Register!Next
<1>2. ASSUME NEW r \in Readers, EndRead(r)
      PROVE  Register!Next
  <2>1. copy[r] = Active
    BY <1>2, EndReadCopies
  <2>2. Register!Read(r)
    BY <1>2, <2>1 DEF EndRead, TypeOK, Active, Register!Read
  <2> QED BY <2>2 DEF Register!Next
<1>3. CASE RecordTelemetryDrop
  BY <1>3 DEF RecordTelemetryDrop, readerVars, Register!Next, Register!CountDrop
<1>4. CASE ServiceRestart
  <2>1. snapshots'[active_snapshot'] = ZeroBuffer
    BY <1>4 DEF ServiceRestart, Index
  <2>2. AsSnapshot(ZeroBuffer) = Register!Fresh
    BY DEF AsSnapshot, ZeroBuffer, Register!Fresh
  <2> QED BY <1>4, <2>1, <2>2
          DEF ServiceRestart, readerVars, Register!Next, Register!Restart
<1>5. ASSUME NEW v \in Values, BeginPublish(v)
      PROVE  UNCHANGED Register!vars
  BY <1>5, OtherIndex
  DEF TypeOK, BeginPublish, Inactive, readerVars, Register!vars
<1>6. ASSUME NEW w \in Words, WriteWord(w)
      PROVE  UNCHANGED Register!vars
  BY <1>6, OtherIndex DEF TypeOK, WriteWord, Inactive, readerVars, Register!vars
<1>7. CASE StoreDrops
  BY <1>7, OtherIndex DEF TypeOK, StoreDrops, Inactive, readerVars, Register!vars
<1>8. CASE MaskPublish \/ UNCHANGED vars
  BY <1>8 DEF MaskPublish, vars, readerVars, Register!vars
<1>9. ASSUME NEW r \in Readers, BeginRead(r) \/ \E w \in Words : ReadWord(r, w)
      PROVE  UNCHANGED Register!vars
  BY <1>9 DEF BeginRead, ReadWord, Register!vars
<1> QED
  BY <1>1, <1>2, <1>3, <1>4, <1>5, <1>6, <1>7, <1>8, <1>9
  DEF Next, PublisherStep, ReaderStep

(* imu_snapshot.h: the double buffer is one register, published when         *)
(* active_snapshot flips and read when the masked copy completes.           *)
THEOREM SnapshotImplementsRegister == Spec => ImplementsRegister
  BY RegisterInit, RegisterStep, Invariance, PTL
  DEF Spec, ImplementsRegister, Register!Spec
-----------------------------------------------------------------------------
(* The latch of a sensor (SampleLatch) *)

Unread  == latch.sample - last
Reading == pc \in {"read", "compare"}

(* An interrupt that is pending is the one of the newest sample; there are   *)
(* never so many unread samples that the sequence number comes round.       *)
LatchOrder ==
  /\ newest = latch.sample + (IF irq THEN 1 ELSE 0)
  /\ last <= latch.sample /\ newest - last < SeqRange

(* The sequence numbers count on from the one consumed last. *)
LatchNumbers ==
  /\ L!Ahead(latch.sequence) = Unread
  /\ Reading => /\ last <= before.sample /\ before.sample <= latch.sample
                /\ L!Ahead(before.sequence) = before.sample - last

(* The data were read after the latch, and are not older than it says. *)
LatchData == pc = "compare" => before.sample <= data /\ data <= newest

(* A gap is counted when the read that finds it begins. *)
LatchCounted ==
  /\ uncounted <= overruns
  /\ Reading /\ before.sample > last + 1 => uncounted < overruns

(* Overruns the samples that have come will still make the thread count: the *)
(* discard of a read that has been disturbed, and a gap.                    *)
Owed == IF Reading THEN (IF newest > before.sample THEN 2 ELSE 0)
                   ELSE (IF newest - last > 1 THEN 1 ELSE 0)

LatchBudget == overruns + Owed <= 2 * disturbing

LatchInv == /\ L!TypeOK /\ LatchOrder /\ LatchNumbers /\ LatchData
            /\ LatchCounted /\ LatchBudget

(* Differences modulo the range of the sequence numbers: their range, that   *)
(* the next number is one further, and that equal distances are equal       *)
(* numbers.                                                                 *)
LEMMA Remainder ==
  ASSUME NEW M \in Nat \ {0}
  PROVE  /\ \A x \in 0 .. M - 1 : x % M = x
         /\ \A x \in M .. 2 * M - 1 : x % M = x - M
         /\ \A x \in -M .. -1 : x % M = x + M
  OBVIOUS

LEMMA Distance ==
  ASSUME NEW M \in Nat \ {0}, NEW c \in 0 .. M - 1, NEW n \in 0 .. M - 1
  PROVE  /\ (n - c) % M = IF n < c THEN n - c + M ELSE n - c
         /\ (n + 1) % M = IF n + 1 = M THEN 0 ELSE n + 1
<1> USE Remainder
<1>1. n < c => (n - c) % M = n - c + M
  <2> SUFFICES ASSUME n < c PROVE (n - c) % M = n - c + M
    OBVIOUS
  <2> n - c \in -M .. -1
    OBVIOUS
  <2> QED OBVIOUS
<1>2. n >= c => (n - c) % M = n - c
  <2> SUFFICES ASSUME n >= c PROVE (n - c) % M = n - c
    OBVIOUS
  <2> n - c \in 0 .. M - 1
    OBVIOUS
  <2> QED OBVIOUS
<1>3. n + 1 = M => (n + 1) % M = 0
  <2> M % M = 0
    OBVIOUS
  <2> QED OBVIOUS
<1>4. n + 1 < M => (n + 1) % M = n + 1
  <2> SUFFICES ASSUME n + 1 < M PROVE (n + 1) % M = n + 1
    OBVIOUS
  <2> n + 1 \in 0 .. M - 1
    OBVIOUS
  <2> QED OBVIOUS
<1> QED BY <1>1, <1>2, <1>3, <1>4

LEMMA NextDistance ==
  ASSUME NEW M \in Nat \ {0}, NEW c \in 0 .. M - 1, NEW n \in 0 .. M - 1,
         ((n - c) % M) + 1 < M
  PROVE  /\ (n + 1) % M \in 0 .. M - 1
         /\ (((n + 1) % M) - c) % M = ((n - c) % M) + 1
<1> DEFINE m == IF n + 1 = M THEN 0 ELSE n + 1
<1>1. (n + 1) % M = m /\ m \in 0 .. M - 1
  BY Distance
<1> HIDE DEF m
<1>2. (m - c) % M = IF m < c THEN m - c + M ELSE m - c
  BY <1>1, Distance
<1>3. (n - c) % M = IF n < c THEN n - c + M ELSE n - c
  BY Distance
<1> QED BY <1>1, <1>2, <1>3 DEF m

LEMMA SameDistance ==
  ASSUME NEW M \in Nat \ {0}, NEW c \in 0 .. M - 1,
         NEW n \in 0 .. M - 1, NEW m \in 0 .. M - 1, (n - c) % M = (m - c) % M
  PROVE  n = m
  BY Distance

LEMMA LatchInit == L!Init => LatchInv
<1> SUFFICES ASSUME L!Init PROVE LatchInv
  OBVIOUS
<1> USE LatchAssumption DEF L!Init
<1>1. PICK n \in 0 .. SeqRange - 1 :
        consumed = n /\ latch = [sequence |-> n, sample |-> 0]
  OBVIOUS
<1>2. L!Ahead(n) = 0
  BY <1>1, Remainder DEF L!Ahead
<1>3. L!TypeOK
  BY <1>1 DEF L!TypeOK, L!Latch
<1> QED
  BY <1>1, <1>2, <1>3
  DEF LatchInv, LatchOrder, LatchNumbers, LatchData, LatchCounted, LatchBudget,
      Unread, Reading, Owed

LEMMA LatchTypes ==
  ASSUME L!TypeOK
  PROVE  /\ latch.sequence \in 0 .. SeqRange - 1 /\ latch.sample \in Nat
         /\ before.sequence \in 0 .. SeqRange - 1 /\ before.sample \in Nat
         /\ newest \in Nat /\ last \in Nat /\ data \in Nat
         /\ consumed \in 0 .. SeqRange - 1
         /\ overruns \in Nat /\ uncounted \in Nat /\ disturbing \in Nat
         /\ samples \in Nat
  BY DEF L!TypeOK, L!Latch

(* The sensor: a sample uses up what it may make the thread count, and its   *)
(* interrupt moves the latch by one.                                        *)
LEMMA ArrivalKeeps == ASSUME LatchInv, L!SampleArrives PROVE LatchInv'
<1> USE LatchAssumption DEF LatchInv, L!SampleArrives, L!threadVars
<1> USE LatchTypes
<1>1. disturbing' \in Nat /\ newest' \in Nat
  OBVIOUS
<1>2. L!TypeOK'
  BY <1>1 DEF L!TypeOK, L!Latch
<1>3. LatchOrder' /\ LatchData' /\ LatchCounted'
  BY DEF LatchOrder, LatchData, LatchCounted, Reading
<1>4. LatchNumbers'
  BY DEF LatchNumbers, Unread, Reading, L!Ahead
<1>5. LatchBudget'
  BY DEF LatchBudget, Owed, Reading, LatchOrder
<1> QED BY <1>2, <1>3, <1>4, <1>5

LEMMA InterruptKeeps == ASSUME LatchInv, L!DataReady PROVE LatchInv'
<1> USE LatchAssumption DEF LatchInv, L!DataReady, L!threadVars
<1> USE LatchTypes
<1>1. /\ latch.sample + 1 = newest /\ newest - last < SeqRange
      /\ L!Ahead(latch.sequence) = latch.sample - last
  BY DEF LatchOrder, LatchNumbers, Unread
<1>2. /\ latch'.sequence \in 0 .. SeqRange - 1 /\ latch'.sample = newest
      /\ latch' \in L!Latch
      /\ L!Ahead(latch'.sequence) = newest - last
  <2> DEFINE n == (latch.sequence + 1) % SeqRange
  <2>1. n \in 0 .. SeqRange - 1 /\ (n - consumed) % SeqRange = newest - last
    <3>1. ((latch.sequence - consumed) % SeqRange) + 1 < SeqRange
      BY <1>1 DEF L!Ahead
    <3>2. latch.sequence \in 0 .. SeqRange - 1 /\ consumed \in 0 .. SeqRange - 1
      OBVIOUS
    <3>3. /\ n \in 0 .. SeqRange - 1
          /\ (n - consumed) % SeqRange = ((latch.sequence - consumed) % SeqRange) + 1
      BY <3>1, <3>2, NextDistance, Zenon
    <3> QED BY <1>1, <3>3 DEF L!Ahead
  <2>2. latch' = [sequence |-> n, sample |-> newest]
    BY DEF L!NextSequence
  <2> HIDE DEF n
  <2> QED BY <2>1, <2>2 DEF L!Ahead, L!Latch
<1>3. L!TypeOK'
  BY <1>2 DEF L!TypeOK
<1>4. LatchOrder' /\ LatchData' /\ LatchCounted' /\ LatchBudget'
  BY <1>1, <1>2
  DEF LatchOrder, LatchData, LatchCounted, LatchBudget, Reading, Owed
<1>5. LatchNumbers'
  BY <1>1, <1>2 DEF LatchNumbers, Unread, Reading, L!Ahead
<1> QED BY <1>3, <1>4, <1>5

(* The thread *)
LEMMA BeginKeeps == ASSUME LatchInv, L!BeginSample PROVE LatchInv'
<1> USE LatchAssumption DEF LatchInv, L!BeginSample, L!sensorVars
<1> USE LatchTypes
<1>1. L!Ahead(latch.sequence) = latch.sample - last /\ last <= latch.sample
  BY DEF LatchOrder, LatchNumbers, Unread
<1>2. /\ overruns' = IF latch.sample - last > 1 THEN overruns + 1 ELSE overruns
      /\ overruns' \in Nat
  BY <1>1 DEF L!Overrun
<1>3. L!TypeOK'
  BY <1>2 DEF L!TypeOK
<1>4. LatchOrder' /\ LatchData'
  BY DEF LatchOrder, LatchData
<1>5. LatchNumbers'
  BY <1>1 DEF LatchNumbers, Unread, Reading, L!Ahead
<1>6. LatchCounted'
  BY <1>2 DEF LatchCounted, Reading
<1>7. LatchBudget'
  BY <1>2 DEF LatchBudget, Owed, Reading, LatchOrder
<1> QED BY <1>3, <1>4, <1>5, <1>6, <1>7

LEMMA DiscardKeeps == ASSUME LatchInv, L!DiscardSample PROVE LatchInv'
<1> USE LatchAssumption DEF LatchInv, L!DiscardSample, L!sensorVars
<1> USE LatchTypes
<1>1. before.sample < newest
  <2>1. before.sample # latch.sample
    <3> SUFFICES ASSUME before.sample = latch.sample PROVE FALSE
      OBVIOUS
    <3>1. latch.sequence = before.sequence
      BY SameDistance DEF LatchNumbers, Unread, Reading, L!Ahead
    <3> QED BY <3>1 DEF L!Torn
  <2> QED BY <2>1 DEF LatchNumbers, LatchOrder, Reading
<1>2. L!TypeOK'
  BY DEF L!TypeOK
<1>3. LatchOrder' /\ LatchData' /\ LatchNumbers' /\ LatchCounted'
  BY DEF LatchOrder, LatchData, LatchNumbers, LatchCounted, Unread, Reading, L!Ahead
<1>4. LatchBudget'
  BY <1>1 DEF LatchBudget, Owed, Reading
<1> QED BY <1>2, <1>3, <1>4

(* A read that no sample disturbed got the sample the latch says. *)
LEMMA UndisturbedRead ==
  ASSUME LatchInv, L!ConsumeSample
  PROVE  /\ before.sample = latch.sample /\ latch.sample = newest
         /\ data = before.sample
<1> USE LatchAssumption DEF LatchInv, L!ConsumeSample
<1> USE LatchTypes
<1>1. latch.sequence = before.sequence
  BY DEF L!Torn
<1>2. before.sample = latch.sample
  BY <1>1 DEF LatchNumbers, Unread, Reading, L!Ahead
<1> QED BY <1>2 DEF LatchOrder, LatchData

LEMMA ConsumeKeeps == ASSUME LatchInv, L!ConsumeSample PROVE LatchInv'
<1> USE LatchAssumption DEF LatchInv, L!ConsumeSample, L!sensorVars
<1> USE LatchTypes, UndisturbedRead
<1>1. L!TypeOK'
  BY DEF L!TypeOK
<1>2. LatchOrder' /\ LatchData' /\ LatchCounted'
  BY DEF LatchOrder, LatchData, LatchCounted, Reading
<1>3. LatchNumbers'
  <2>1. latch.sequence = before.sequence
    BY DEF L!Torn
  <2>2. (latch.sequence - latch.sequence) % SeqRange = 0
    BY Distance
  <2> QED BY <2>1, <2>2 DEF LatchNumbers, Unread, Reading, L!Ahead
<1>4. LatchBudget'
  BY DEF LatchBudget, Owed, Reading
<1> QED BY <1>1, <1>2, <1>3, <1>4

LEMMA LatchNext == ASSUME LatchInv, [L!Next]_(L!vars) PROVE LatchInv'
<1>1. CASE L!ReceiveEvent
  BY <1>1
  DEF L!ReceiveEvent, LatchInv, L!TypeOK, LatchOrder, LatchNumbers, LatchData,
      LatchCounted, LatchBudget, Unread, Reading, Owed, L!Ahead
<1>2. CASE L!ReadData
  <2> USE <1>2, LatchTypes DEF LatchInv, L!ReadData, L!sensorVars
  <2>1. L!TypeOK'
    BY DEF L!TypeOK
  <2>2. LatchData'
    BY DEF LatchData, LatchOrder, LatchNumbers, Reading
  <2>3. LatchOrder' /\ LatchNumbers' /\ LatchCounted' /\ LatchBudget'
    BY DEF LatchOrder, LatchNumbers, LatchCounted, LatchBudget, Unread, Reading,
           Owed, L!Ahead
  <2> QED BY <2>1, <2>2, <2>3
<1>3. CASE UNCHANGED L!vars
  BY <1>3
  DEF L!vars, L!sensorVars, L!threadVars, LatchInv, L!TypeOK, LatchOrder,
      LatchNumbers, LatchData, LatchCounted, LatchBudget, Unread, Reading, Owed,
      L!Ahead
<1> QED
  BY <1>1, <1>2, <1>3, ArrivalKeeps, InterruptKeeps, BeginKeeps, DiscardKeeps,
     ConsumeKeeps DEF L!Next

(* A behaviour of the two together is one of the latch. *)
LEMMA LatchBehaviour == MCSpec => L!Spec
<1>1. MCInit => L!Init
  BY DEF MCInit
<1>2. [MCNext]_allVars => [L!Next]_(L!vars)
  BY DEF MCNext, SnapshotStep, LatchStep, Rests, allVars, latchVars, L!vars,
         L!sensorVars, L!threadVars
<1> QED BY <1>1, <1>2, PTL DEF MCSpec, L!Spec

LEMMA LatchInvariance == MCSpec => []LatchInv
  BY LatchBehaviour, LatchInit, LatchNext, PTL DEF L!Spec

(* process_accel, process_gyro: a sample the thread goes on with is the one   *)
(* its time stamp was taken of, none is missed without an overrun being     *)
(* counted, none counts more than twice, over every wrap of the numbers.    *)
THEOREM LatchSamplesAccounted == MCSpec => SamplesAccounted
<1>1. LatchInv => L!TypeOK /\ L!DifferenceIsUnread /\ L!CountedAtMostTwice
  <2> SUFFICES ASSUME LatchInv
               PROVE  L!TypeOK /\ L!DifferenceIsUnread /\ L!CountedAtMostTwice
    OBVIOUS
  <2>1. Owed \in Nat
    BY DEF Owed
  <2> QED BY <2>1, LatchTypes
          DEF LatchInv, LatchNumbers, Unread, LatchBudget, L!DifferenceIsUnread,
              L!CountedAtMostTwice
<1>2. LatchInv /\ [L!Next]_(L!vars) =>
        [consumed' # consumed \/ samples' # samples => data = before.sample]_(L!vars)
  BY UndisturbedRead
  DEF L!Next, L!SampleArrives, L!DataReady, L!ReceiveEvent, L!BeginSample,
      L!ReadData, L!DiscardSample, L!sensorVars, L!threadVars
<1>3. LatchInv /\ [L!Next]_(L!vars) =>
        [last' > last + 1 => overruns > uncounted]_(L!vars)
  <2> SUFFICES ASSUME LatchInv, L!Next, last' > last + 1
               PROVE  overruns > uncounted
    OBVIOUS
  <2> USE LatchTypes DEF LatchInv
  <2>1. CASE L!ConsumeSample
    BY <2>1 DEF L!ConsumeSample, LatchCounted, Reading
  <2>2. CASE ~L!ConsumeSample
    BY <2>2
    DEF L!Next, L!SampleArrives, L!DataReady, L!ReceiveEvent, L!BeginSample,
        L!ReadData, L!DiscardSample, L!sensorVars, L!threadVars
  <2> QED BY <2>1, <2>2
<1> QED
  BY <1>1, <1>2, <1>3, LatchBehaviour, LatchInvariance, PTL
  DEF L!Spec, SamplesAccounted, L!SampleHasItsTimestamp, L!MissedIsCounted
=============================================================================
