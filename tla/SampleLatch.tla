------------------------------ MODULE SampleLatch ------------------------------
(***************************************************************************)
(* How a sample gets from a sensor of the BMI088 to the IMU thread: the    *)
(* data-ready interrupt latches its time and a sequence number             *)
(* (platform/devices/bmi088_stm32.c), and the thread reads the latch, the  *)
(* sample over SPI and the latch again, and keeps account of what it       *)
(* missed (process_accel and process_gyro of kernel/imu/imu_service.c).    *)
(* ImuService models the same steps with the number of unread samples in   *)
(* place of the sequence numbers; here they wrap.                          *)
(*                                                                         *)
(* A sample is known by the order of its arrival, its time stamp by the    *)
(* sample it was taken of.                                                 *)
(***************************************************************************)
EXTENDS Integers

CONSTANTS
  SeqRange,   \* range of the sequence number: 2^32 in the code
  MaxSamples  \* bound on the samples that arrive

VARIABLES
  newest,     \* the sample in the data registers of the sensor
  irq,        \* its data-ready interrupt has not been served
  latch,      \* accel_latch or gyro_latch
  event,      \* the sensor's flag of imu_event
  pc,         \* where the thread is
  before,     \* before_latch
  data,       \* the sample that was read
  consumed,   \* consumed_accel_sequence or consumed_gyro_sequence
  overruns, samples,  \* the sensor's diagnostics
  last,       \* history: the sample consumed last
  uncounted,  \* history: overruns when that was
  disturbing  \* history: samples that came before the last was consumed or
              \* during a read

sensorVars == <<newest, irq, latch, event, disturbing>>
threadVars == <<pc, before, data, consumed, overruns, samples, last, uncounted>>
vars == <<sensorVars, threadVars>>

-----------------------------------------------------------------------------
(* Sequence numbers.  Faulty forms: the number does not wrap; it saturates;  *)
(* the numbers are compared as they stand; every sample is an overrun.      *)
NextUnbounded(n)  == n + 1
NextSaturating(n) == IF n = SeqRange - 1 THEN n ELSE n + 1
NextSequence(n)   == (n + 1) % SeqRange

Ahead(n) == (n - consumed) % SeqRange

(* record_overrun *)
OverrunUnwrapped(n) == n > consumed + 1
OverrunAlways(n)    == Ahead(n) > 0
Overrun(n)          == Ahead(n) > 1

(* imu_classify_sample_read.  Faulty form: the latch is not compared. *)
NeverTorn(l) == FALSE
Torn(l)      == l.sequence # before.sequence

-----------------------------------------------------------------------------
(* The sensor and EXTI15_10_IRQHandler.  An interrupt is served before the   *)
(* next sample, and before the thread goes on.                              *)

SampleArrives ==
  /\ ~irq /\ newest < MaxSamples /\ newest - last < SeqRange - 1
  /\ newest' = newest + 1
  /\ irq' = TRUE
  /\ disturbing' = IF last < newest \/ pc \in {"read", "compare"}
                   THEN disturbing + 1 ELSE disturbing
  /\ UNCHANGED <<latch, event, threadVars>>

DataReady ==
  /\ irq
  /\ irq' = FALSE
  /\ latch' = [sequence |-> NextSequence(latch.sequence), sample |-> newest]
  /\ event' = TRUE
  /\ UNCHANGED <<newest, disturbing, threadVars>>

-----------------------------------------------------------------------------
(* The thread: an event, the first part of process_accel or process_gyro     *)
(* with read_latch, the bus read, and what follows from comparing the latch. *)

ReceiveEvent ==
  /\ pc = "wait" /\ event /\ ~irq
  /\ event' = FALSE
  /\ pc' = "process"
  /\ UNCHANGED <<newest, irq, latch, disturbing, before, data, consumed, overruns,
                 samples, last, uncounted>>

BeginSample ==
  /\ pc = "process" /\ ~irq
  /\ before' = latch
  /\ overruns' = IF Overrun(latch.sequence) THEN overruns + 1 ELSE overruns
  /\ pc' = "read"
  /\ UNCHANGED <<sensorVars, data, consumed, samples, last, uncounted>>

ReadData ==
  /\ pc = "read" /\ ~irq
  /\ data' = newest
  /\ pc' = "compare"
  /\ UNCHANGED <<sensorVars, before, consumed, overruns, samples, last, uncounted>>

DiscardSample ==
  /\ pc = "compare" /\ ~irq /\ Torn(latch)
  /\ overruns' = overruns + 1
  /\ pc' = "wait"
  /\ UNCHANGED <<sensorVars, before, data, consumed, samples, last, uncounted>>

(* A read that failed consumes the sample too. *)
ConsumeSample ==
  /\ pc = "compare" /\ ~irq /\ ~Torn(latch)
  /\ consumed' = before.sequence
  /\ samples' \in {samples, samples + 1}
  /\ last' = before.sample /\ uncounted' = overruns
  /\ pc' = "wait"
  /\ UNCHANGED <<sensorVars, before, data, overruns>>

-----------------------------------------------------------------------------

(* At any point of the sequence numbers, the last one consumed. *)
Init ==
  /\ \E n \in 0 .. SeqRange - 1 :
       consumed = n /\ latch = [sequence |-> n, sample |-> 0]
  /\ before = latch
  /\ newest = 0 /\ irq = FALSE /\ event = FALSE /\ disturbing = 0
  /\ pc = "wait" /\ data = 0 /\ overruns = 0 /\ samples = 0
  /\ last = 0 /\ uncounted = 0

Next ==
  \/ SampleArrives \/ DataReady
  \/ ReceiveEvent \/ BeginSample \/ ReadData \/ DiscardSample \/ ConsumeSample

Spec == Init /\ [][Next]_vars
-----------------------------------------------------------------------------
(* Properties *)

Latch == [sequence : 0 .. SeqRange - 1, sample : Nat]

TypeOK ==
  /\ newest \in Nat /\ irq \in BOOLEAN /\ event \in BOOLEAN
  /\ latch \in Latch /\ before \in Latch /\ data \in Nat
  /\ pc \in {"wait", "process", "read", "compare"}
  /\ consumed \in 0 .. SeqRange - 1
  /\ overruns \in Nat /\ samples \in Nat /\ last \in Nat /\ uncounted \in Nat
  /\ disturbing \in Nat

(* The difference of the sequence numbers is the number of samples the       *)
(* thread has not consumed, over every wrap: what ImuService reasons with.  *)
DifferenceIsUnread ==
  Ahead(latch.sequence) = latch.sample - last

(* docs/superpowers/specs/2026-08-27-firmware-review-remediation-design.md:   *)
(* a sample the thread goes on with                                        *)
(* is the one its time stamp was taken of, wherever the interrupt fell      *)
(* during the read.                                                         *)
SampleHasItsTimestamp ==
  [][ consumed' # consumed \/ samples' # samples => data = before.sample ]_vars

(* No sample is missed without an overrun being counted, in the handling of  *)
(* the next one consumed or, for one that a torn read threw away, before.   *)
MissedIsCounted ==
  [][ last' > last + 1 => overruns > uncounted ]_vars

(* Overruns are not counted without cause.  A sample that overtakes the one   *)
(* before it counts twice at most: the read it disturbs, and the gap the    *)
(* next reading finds.                                                      *)
CountedAtMostTwice == overruns <= 2 * disturbing
=============================================================================
