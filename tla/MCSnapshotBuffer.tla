-------------------------- MODULE MCSnapshotBuffer --------------------------
(* The two ways data pass between the IMU thread and others without a queue: *)
(* the snapshot it publishes (SnapshotBuffer), read by telemetry and by the   *)
(* Foxglove debug thread, and the latch a sensor's interrupt fills for it    *)
(* (SampleLatch).  The two share no state: a behaviour follows one of them,  *)
(* its subject, and the other one rests.  MCSamplePath model-checks both.    *)
EXTENDS SnapshotBuffer, Integers, Subject

CONSTANTS SeqRange, MaxSamples

VARIABLES
  newest, irq, latch, event, pc, before, data, consumed,  \* of SampleLatch
  overruns, samples, last, uncounted, disturbing

ASSUME LatchAssumption == SeqRange \in Nat \ {0} /\ MaxSamples \in Nat

L == INSTANCE SampleLatch

latchVars == <<newest, irq, latch, event, pc, before, data, consumed,
               overruns, samples, last, uncounted, disturbing>>
allVars == <<subject, vars, latchVars>>

MCInit == subject \in Subjects /\ Init /\ L!Init

SnapshotStep == subject = "snapshot" /\ Next /\ UNCHANGED <<subject, latchVars>>
LatchStep    == subject = "latch" /\ L!Next /\ UNCHANGED <<subject, vars>>

(* No more samples come. *)
Rests == subject = "latch" /\ newest = MaxSamples /\ UNCHANGED allVars

MCNext == SnapshotStep \/ LatchStep \/ Rests
MCSpec == MCInit /\ [][MCNext]_allVars
-----------------------------------------------------------------------------
(* What is asked of SampleLatch *)

(* process_accel, process_gyro: the sample they go on with is the one its     *)
(* time stamp was taken of, and none is missed without an overrun being     *)
(* counted; record_overrun and the torn reads count a sample twice at most; *)
(* all this over every wrap of the sequence numbers.                        *)
SamplesAccounted ==
  []L!TypeOK /\ []L!DifferenceIsUnread /\ []L!CountedAtMostTwice
    /\ L!SampleHasItsTimestamp /\ L!MissedIsCounted
=============================================================================
