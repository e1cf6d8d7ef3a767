------------------------------ MODULE ImuService ------------------------------
(***************************************************************************)
(* The IMU thread of kernel/imu/imu_service.c with the data-ready          *)
(* interrupt of platform/devices/bmi088_stm32.c and the decisions of       *)
(* imu_policy.c.  The interrupt may fire between any two accesses of the   *)
(* thread to the latches and to the event object, and during every SPI     *)
(* read.                                                                   *)
(*                                                                         *)
(* The code only ever compares a latch's sequence with the consumed one,   *)
(* or with the one it read before a sample: unread is their difference.    *)
(* Measured values are abstracted to the verdicts of the checks on them.   *)
(* Time is counted in ticks, of which Expiry make 20001 us.                *)
(***************************************************************************)
EXTENDS Naturals

CONSTANTS
  MaxUnread,   \* bound on the samples that arrive unread
  Calibration, \* IMU_CALIBRATION_SAMPLE_COUNT: 2000 in the code
  Expiry       \* the age in ticks from which a gyro time stamp has expired

ASSUME ImuAssumption ==
  /\ MaxUnread \in Nat \ {0}
  /\ Calibration \in Nat \ {0}
  /\ Expiry \in Nat \ {0}

VARIABLES
  unread,     \* per sensor: latch sequence - consumed sequence
  events,     \* the flags set in imu_event
  gyro_alive, \* the gyro still raises its data-ready line
  age,        \* ticks since the last accepted gyro sample, since the gyro
              \* baseline and since the latched gyro sample
  delta,      \* ticks from the gyro baseline to the latched gyro sample
  pc,         \* where the thread is
  received,   \* the flags rt_event_recv returned
  before,     \* unread when the latch was read before the sample
  runtime,    \* imu_runtime_t
  published,  \* the status of the published snapshot
  accepted_run   \* history: the accepted run the documentation counts

vars == <<unread, events, gyro_alive, age, delta, pc, received, before,
          runtime, published, accepted_run>>

Sensors == {"accel", "gyro"}

timeVars == <<age, delta>>

Conditions == {"init_failed", "spi_error", "overrun", "timestamp_invalid"}

AtMost(bound, n) == IF n < bound THEN n ELSE bound

-----------------------------------------------------------------------------
(* mahony.c: an update, like the initialisation from gravity, revalidates    *)
(* the estimate; the numbers are finite.                                    *)
MahonyUpdate(r)     == [r EXCEPT !.valid = TRUE]
MahonyInvalidate(r) == [r EXCEPT !.valid = FALSE]

(* imu_service_status *)

Status(r) ==
  r.state_conditions \cup r.accel_conditions \cup r.gyro_conditions
    \cup (IF r.state = "calibrating" THEN {"calibrating"} ELSE {})
    \cup (IF /\ r.state = "running" /\ r.valid
             /\ "spi_error" \notin r.accel_conditions \cup r.gyro_conditions
          THEN {"valid"} ELSE {})

(* imu_gyro_expiry_transition, called by service_gyro_expiry *)

ExpiryDue(r) ==
  /\ r.state = "running" /\ unread["gyro"] = 0 /\ ~r.gyro_expired
  /\ r.last_gyro_valid /\ age.last >= Expiry

(* Faulty form: only a change of the conditions counts. *)
ExpiryConditionChanged(r) == "timestamp_invalid" \notin r.gyro_conditions
ExpiryPublishRequired(r) ==
  r.valid \/ "timestamp_invalid" \notin r.gyro_conditions

ExpireGyro(r) ==
  [MahonyInvalidate(r) EXCEPT !.gyro_expired = TRUE,
                              !.gyro_conditions = @ \cup {"timestamp_invalid"}]

(* imu_classify_gyro_delta_us: a sample seen twice is at distance 0, and   *)
(* [500, 2000] us is within a tick.  Faulty form: without the lower bound.  *)
DtActionsUnbounded ==
  IF before > 0 /\ delta >= Expiry THEN {"invalidate"} ELSE {"integrate"}
DtActions ==
  IF before = 0 THEN {"keep"}
  ELSE IF delta >= Expiry THEN {"invalidate"} ELSE {"integrate", "keep"}

-----------------------------------------------------------------------------
(* Helpers of the sample handlers *)

RestartCalibration(r) ==
  IF r.state = "calibrating" THEN [r EXCEPT !.accepted = 0] ELSE r

(* publish_read_failure.  Faulty forms: the calibration is kept; the fault   *)
(* comes one failure late.                                                  *)
EnterFault(r) ==
  [MahonyInvalidate(r) EXCEPT !.newest_accel_valid = FALSE,
                              !.gyro_baseline_valid = FALSE,
                              !.state = "fault_retry"]

CountedFailure(r, threshold) ==
  LET q == [r EXCEPT !.failures = @ + 1]
  IN  IF q.failures >= threshold THEN EnterFault(q) ELSE q

FailureKeepsCalibration(r) == CountedFailure(r, 3)
FaultComesLate(r) == CountedFailure(RestartCalibration(r), 4)
ReadFailure(r)    == CountedFailure(RestartCalibration(r), 3)

(* record_overrun: more than one sample since the consumed one *)
Overrun == before > 1

(* imu_classify_sample_read: did the latch change while the sample was read? *)
Torn(s) == unread[s] # before

(* imu_accept_new_gyro_sample, for a sample that has not been seen before.  *)
(* Faulty forms: only while running; the expiry is not taken back.          *)
AcceptWhenRunning(r) ==
  IF r.state = "running"
  THEN [r EXCEPT !.last_gyro_valid = TRUE, !.gyro_expired = FALSE] ELSE r
AcceptKeepsExpiry(r) == [r EXCEPT !.last_gyro_valid = TRUE]
AcceptNewGyro(r) ==
  [r EXCEPT !.last_gyro_valid = TRUE, !.gyro_expired = FALSE]

(* imu_calibration_admission.  recent: the newest accel sample is at most   *)
(* 5000 us older than the gyro sample.                                      *)
Admission(r, had_baseline, dt, recent) ==
  IF ~had_baseline \/ dt # "integrate" \/ Overrun THEN "reset"
  ELSE IF ~r.newest_accel_valid \/ ~recent THEN "reset"
  ELSE IF unread["accel"] # 0 THEN "skip" ELSE "accept"

(* imu_calibration_push of an accepted pair *)
CalibrationPush(r) == [r EXCEPT !.accepted = @ + 1]

(* complete_calibration: the gravity of samples that passed their check is   *)
(* finite, so the estimate is valid.                                        *)
CompleteCalibration(r) == [MahonyUpdate(r) EXCEPT !.state = "running"]

(* process_calibration_gyro with imu_calibration_apply_admission *)
CalibrationGyro(r, admission, stationary) ==
  IF admission = "skip" THEN r
  ELSE IF admission = "reset" \/ ~stationary THEN [r EXCEPT !.accepted = 0]
  ELSE IF r.accepted + 1 = Calibration THEN CompleteCalibration(CalibrationPush(r))
  ELSE CalibrationPush(r)

(* imu_apply_running_gyro_timing *)
RunningGyro(r, had_baseline, dt) ==
  IF ~had_baseline \/ dt = "keep" THEN r
  ELSE IF dt = "integrate" THEN MahonyUpdate(r) ELSE MahonyInvalidate(r)

-----------------------------------------------------------------------------
(* The environment *)

(* EXTI15_10_IRQHandler latches the sample and calls notify_data_ready. *)
DataReady(s) ==
  /\ unread[s] < MaxUnread
  /\ s = "gyro" => gyro_alive
  /\ unread' = [unread EXCEPT ![s] = @ + 1]
  /\ events' = events \cup {s}
  /\ IF s = "gyro" THEN /\ age' = [age EXCEPT !.latch = 0]
                        /\ delta' = age.baseline
                   ELSE UNCHANGED timeVars
  /\ UNCHANGED <<gyro_alive, pc, received, before, runtime, published,
                 accepted_run>>

GyroDies ==
  /\ gyro_alive
  /\ gyro_alive' = FALSE
  /\ UNCHANGED <<unread, events, timeVars, pc, received, before, runtime,
                 published, accepted_run>>

Tick ==
  /\ age.last < Expiry \/ age.baseline < Expiry \/ age.latch < Expiry
  /\ age' = [t \in DOMAIN age |-> AtMost(Expiry, age[t] + 1)]
  /\ UNCHANGED <<unread, events, gyro_alive, delta, pc, received, before,
                 runtime, published, accepted_run>>

-----------------------------------------------------------------------------
(* imu_thread_entry and initialize_sensor *)

(* The loop: service_housekeeping, then the branch on the state. *)
Housekeeping ==
  /\ pc = "loop"
  /\ runtime' = IF ExpiryDue(runtime) THEN ExpireGyro(runtime) ELSE runtime
  /\ published' = IF ExpiryDue(runtime) /\ ExpiryPublishRequired(runtime)
                  THEN Status(runtime') ELSE published
  /\ pc' = CASE runtime.state = "initializing" -> "init"
             [] runtime.state = "fault_retry"  -> "retry"
             [] OTHER                          -> "wait"
  /\ UNCHANGED <<unread, events, gyro_alive, timeVars, received, before,
                 accepted_run>>

InitFails ==
  /\ pc = "init"
  /\ runtime' = [EnterFault(runtime) EXCEPT
                   !.state_conditions = {"init_failed"},
                   !.accel_conditions = {},
                   !.gyro_conditions = {"timestamp_invalid"}]
  /\ published' = Status(runtime')
  /\ pc' = "loop"
  /\ UNCHANGED <<unread, events, gyro_alive, timeVars, received, before,
                 accepted_run>>

(* reset_after_sensor_init, down to the private state it resets. *)
ResetRuntime ==
  [runtime EXCEPT
     !.valid = FALSE, !.accepted = 0, !.state_conditions = {},
     !.accel_conditions = {}, !.gyro_conditions = {"timestamp_invalid"},
     !.failures = 0, !.newest_accel_valid = FALSE,
     !.gyro_baseline_valid = FALSE, !.last_gyro_valid = FALSE,
     !.gyro_expired = FALSE]

(* Both this function and wait_fault_retry resynchronise with the           *)
(* interrupt: they clear the event flags, then take the latch of each       *)
(* sensor as consumed.  The faulty form clears last.                        *)
ClearLast ==
  [begin |-> "accel", accel |-> "gyro", gyro |-> "clear", clear |-> "resynced"]
ResyncOrder ==
  [begin |-> "clear", clear |-> "accel", accel |-> "gyro", gyro |-> "resynced"]

InitSucceeds ==
  /\ pc = "init"
  /\ runtime' = ResetRuntime
  /\ pc' = ResyncOrder.begin
  /\ accepted_run' = 0
  /\ UNCHANGED <<unread, events, gyro_alive, timeVars, received, before,
                 published>>

(* wait_fault_retry after its second of delay. *)
RetryDelayOver ==
  /\ pc = "retry"
  /\ pc' = ResyncOrder.begin
  /\ UNCHANGED <<unread, events, gyro_alive, timeVars, received, before,
                 runtime, published, accepted_run>>

ClearEvents ==
  /\ pc = "clear"
  /\ events' = {}
  /\ pc' = ResyncOrder.clear
  /\ UNCHANGED <<unread, gyro_alive, timeVars, received, before, runtime,
                 published, accepted_run>>

TakeLatch(s) ==
  /\ pc = s
  /\ unread' = [unread EXCEPT ![s] = 0]
  /\ pc' = ResyncOrder[s]
  /\ UNCHANGED <<events, gyro_alive, timeVars, received, before, runtime,
                 published, accepted_run>>

(* reset_after_sensor_init publishes; wait_fault_retry does not. *)
Resynced ==
  /\ pc = "resynced"
  /\ IF runtime.state = "fault_retry"
     THEN /\ runtime' = [runtime EXCEPT !.state = "initializing"]
          /\ UNCHANGED published
     ELSE /\ runtime' = [runtime EXCEPT !.state = "calibrating"]
          /\ published' = Status(runtime')
  /\ pc' = "loop"
  /\ UNCHANGED <<unread, events, gyro_alive, timeVars, received, before,
                 accepted_run>>

-----------------------------------------------------------------------------
(* rt_event_recv with RT_EVENT_FLAG_OR | RT_EVENT_FLAG_CLEAR *)

Receive ==
  /\ pc = "wait" /\ events # {}
  /\ received' = events
  /\ events' = {}
  /\ pc' = IF "gyro" \in events THEN "gyro_event" ELSE "accel_event"
  /\ UNCHANGED <<unread, gyro_alive, timeVars, before, runtime, published,
                 accepted_run>>

WaitTimesOut ==
  /\ pc = "wait" /\ events = {}
  /\ pc' = "loop"
  /\ UNCHANGED <<unread, events, gyro_alive, timeVars, received, before,
                 runtime, published, accepted_run>>

(* The latch is read before the sample. *)
ReadBefore(s, at, next) ==
  /\ pc = at
  /\ before' = unread[s]
  /\ pc' = next
  /\ UNCHANGED <<unread, events, gyro_alive, timeVars, received, runtime,
                 published, accepted_run>>

BeginGyro  == ReadBefore("gyro", "gyro_event", "gyro_read")
BeginAccel == ReadBefore("accel", "accel_event", "accel_read")

-----------------------------------------------------------------------------
(* The documented run of samples (docs/requirements/firmware-behavior.md,    *)
(* calibration), recorded next to what the code does.                       *)

RecordRun(disturbed, qualifies, pending) ==
  accepted_run' = IF disturbed THEN 0
                  ELSE IF ~qualifies THEN 0
                  ELSE IF pending THEN accepted_run
                  ELSE AtMost(Calibration, accepted_run + 1)

(* process_gyro *)

GyroConditions(had_baseline, dt) ==
  (IF had_baseline /\ dt = "integrate" THEN {} ELSE {"timestamp_invalid"})
    \cup (IF Overrun THEN {"overrun"} ELSE {})

TornGyro(ok) ==
  LET r == [RestartCalibration(runtime) EXCEPT
              !.gyro_conditions = {"overrun", "timestamp_invalid"}
                                    \cup (IF ok THEN {} ELSE {"spi_error"})]
  IN  /\ runtime' = IF ok THEN r ELSE ReadFailure(r)
      /\ accepted_run' = 0
      /\ UNCHANGED <<unread, timeVars>>

GyroFailed(dt) ==
  /\ runtime' = ReadFailure([runtime EXCEPT
                   !.gyro_baseline_valid = TRUE,
                   !.gyro_conditions =
                     GyroConditions(runtime.gyro_baseline_valid, dt)
                       \cup {"spi_error"}])
  /\ accepted_run' = 0

GyroAccepted(dt, recent, stationary) ==
  LET had_baseline == runtime.gyro_baseline_valid
      new == IF before > 0 THEN AcceptNewGyro(runtime) ELSE runtime
      r == [new EXCEPT
              !.gyro_baseline_valid = TRUE, !.failures = 0,
              !.gyro_conditions = GyroConditions(had_baseline, dt)]
  IN  IF r.state = "calibrating"
      THEN /\ runtime' = CalibrationGyro(
                           r, Admission(r, had_baseline, dt, recent), stationary)
           /\ RecordRun(Overrun,
                        /\ had_baseline /\ dt = "integrate"
                        /\ r.newest_accel_valid /\ recent
                        /\ unread["accel"] = 0 => stationary,
                        unread["accel"] # 0)
      ELSE /\ runtime' = RunningGyro(r, had_baseline, dt)
           /\ UNCHANGED accepted_run

ConsumeGyro(ok) ==
  /\ unread' = [unread EXCEPT !["gyro"] = 0]
  /\ age' = [age EXCEPT !.baseline = age.latch,
                        !.last = IF ok /\ before > 0 THEN age.latch ELSE @]
  /\ UNCHANGED delta

ProcessGyro ==
  /\ pc = "gyro_read"
  /\ \E ok, recent, stationary \in BOOLEAN : \E dt \in DtActions :
       /\ IF Torn("gyro") THEN TornGyro(ok)
          ELSE /\ ConsumeGyro(ok)
               /\ IF ok THEN GyroAccepted(dt, recent, stationary)
                        ELSE GyroFailed(dt)
  /\ published' = Status(runtime')
  /\ pc' = IF runtime'.state # "fault_retry" /\ "accel" \in received
           THEN "accel_event" ELSE "loop"
  /\ UNCHANGED <<events, gyro_alive, received, before>>

(* process_accel.  The faulty form keeps the calibration over an overrun. *)
OverrunForgotten(r) == [r EXCEPT !.accel_conditions = {}]

AfterOverrunCheck(r) ==
  IF Overrun
  THEN [RestartCalibration(r) EXCEPT !.accel_conditions = {"overrun"}]
  ELSE [r EXCEPT !.accel_conditions = {}]

(* The sample is lost to the estimator: torn or not read. *)
AccelLost(r, conditions) ==
  [r EXCEPT !.newest_accel_valid = FALSE,
            !.accel_conditions = @ \cup conditions]

TornAccel(ok) ==
  LET r == AccelLost(RestartCalibration(AfterOverrunCheck(runtime)),
                     {"overrun"} \cup (IF ok THEN {} ELSE {"spi_error"}))
  IN  /\ runtime' = IF ok THEN r ELSE ReadFailure(r)
      /\ UNCHANGED unread

AccelFailed ==
  runtime' = ReadFailure(AccelLost(AfterOverrunCheck(runtime), {"spi_error"}))

AccelAccepted ==
  LET r == [AfterOverrunCheck(runtime) EXCEPT
              !.failures = 0, !.newest_accel_valid = TRUE]
  IN  runtime' = IF ExpiryDue(r) THEN ExpireGyro(r) ELSE r

ProcessAccel ==
  /\ pc = "accel_read"
  /\ \E ok \in BOOLEAN :
       /\ IF Torn("accel") THEN TornAccel(ok)
          ELSE /\ unread' = [unread EXCEPT !["accel"] = 0]
               /\ IF ok THEN AccelAccepted ELSE AccelFailed
       /\ accepted_run' = IF Torn("accel") \/ ~ok \/ Overrun THEN 0
                          ELSE accepted_run
  /\ published' = Status(runtime')
  /\ pc' = "loop"
  /\ UNCHANGED <<events, gyro_alive, timeVars, received, before>>

-----------------------------------------------------------------------------

(* imu_thread_entry publishes its initial state before the loop. *)
InitialRuntime ==
  [state |-> "initializing", valid |-> FALSE, accepted |-> 0,
   state_conditions |-> {}, accel_conditions |-> {},
   gyro_conditions |-> {"timestamp_invalid"}, failures |-> 0,
   newest_accel_valid |-> FALSE, gyro_baseline_valid |-> FALSE,
   last_gyro_valid |-> FALSE, gyro_expired |-> FALSE]

Init ==
  /\ unread = [s \in Sensors |-> 0]
  /\ events = {}
  /\ gyro_alive = TRUE
  /\ age = [last |-> 0, baseline |-> 0, latch |-> 0] /\ delta = 0
  /\ pc = "loop" /\ received = {} /\ before = 0
  /\ runtime = InitialRuntime
  /\ published = Status(InitialRuntime)
  /\ accepted_run = 0

Resync == ClearEvents \/ (\E s \in Sensors : TakeLatch(s)) \/ Resynced

Thread ==
  \/ Housekeeping
  \/ InitFails \/ InitSucceeds \/ RetryDelayOver \/ Resync
  \/ Receive \/ WaitTimesOut
  \/ BeginGyro \/ ProcessGyro
  \/ BeginAccel \/ ProcessAccel

Next ==
  \/ Thread
  \/ \E s \in Sensors : DataReady(s)
  \/ GyroDies
  \/ Tick

Spec == Init /\ [][Next]_vars

(* The IMU thread has the highest priority of the application and every     *)
(* wait in it has a timeout; the clock runs.                                *)
FairSpec == Spec /\ WF_vars(Thread) /\ WF_vars(Tick)
-----------------------------------------------------------------------------
(* Properties *)

RuntimeTypeOK ==
  /\ runtime.state \in {"initializing", "calibrating", "running", "fault_retry"}
  /\ runtime.valid \in BOOLEAN
  /\ runtime.accepted \in 0 .. Calibration
  /\ runtime.failures \in 0 .. 3
  /\ runtime.state_conditions \in SUBSET Conditions
  /\ runtime.accel_conditions \in SUBSET Conditions
  /\ runtime.gyro_conditions \in SUBSET Conditions
  /\ runtime.newest_accel_valid \in BOOLEAN
  /\ runtime.gyro_baseline_valid \in BOOLEAN
  /\ runtime.last_gyro_valid \in BOOLEAN
  /\ runtime.gyro_expired \in BOOLEAN

TypeOK ==
  /\ unread \in [Sensors -> 0 .. MaxUnread]
  /\ events \in SUBSET Sensors /\ received \in SUBSET Sensors
  /\ gyro_alive \in BOOLEAN
  /\ age \in [{"last", "baseline", "latch"} -> 0 .. Expiry]
  /\ delta \in 0 .. Expiry
  /\ before \in 0 .. MaxUnread
  /\ published \in SUBSET (Conditions \cup {"calibrating", "valid"})
  /\ accepted_run \in 0 .. Calibration
  /\ RuntimeTypeOK

(* No sample is forgotten: when the thread waits, every sample it has not    *)
(* consumed has its event flag set, wherever the interrupt fell during the   *)
(* resynchronisation, the reads of the latch or the read of a sample.       *)
NoLostSample ==
  pc = "wait" => \A s \in Sensors : unread[s] # 0 => s \in events

(* Whenever the thread can block, readers of the snapshot see the status of  *)
(* its current state, also when the expiry check decided not to publish.    *)
PublishedCurrent ==
  pc \in {"wait", "retry"} => published = Status(runtime)

(* The expiry of the gyro is never disabled while running: an estimate has   *)
(* a gyro time stamp to expire by, also after a sample was handled twice.    *)
RunningHasTimestamp == runtime.state = "running" => runtime.last_gyro_valid

(* An expired gyro means an invalid estimate until a new sample is accepted, *)
(* whatever failed, torn or repeated reads come in between.                 *)
ExpiredMeansInvalid == runtime.gyro_expired => ~runtime.valid

(* The two together, with the types: what the expiry relies on and what it   *)
(* leaves behind.                                                           *)
ExpiryHolds == TypeOK /\ RunningHasTimestamp /\ ExpiredMeansInvalid

(* docs/requirements/firmware-behavior.md, calibration: the samples counted  *)
(* towards the calibration form one run of qualifying samples that no SPI    *)
(* failure, overrun or torn read of either sensor has interrupted.           *)
CalibrationUnbroken ==
  runtime.state = "calibrating" => runtime.accepted = accepted_run

(* Running is entered only with the whole of that run behind it.  A           *)
(* notification that arrives again for a sample already consumed (the flag    *)
(* stays set when a second sample came in before the latch was read) earns   *)
(* nothing: the sample does not count for the calibration a second time,     *)
(* does not make the estimate valid and takes back no expiry.               *)
RunningIsEarned ==
  [][ /\ runtime.state # "running" /\ runtime'.state = "running"
           => accepted_run' = Calibration
      /\ pc = "gyro_read" /\ before = 0 /\ pc' # "gyro_read"
           => /\ runtime'.accepted \in {0, runtime.accepted}
              /\ runtime'.valid => runtime.valid
              /\ runtime.gyro_expired => runtime'.gyro_expired
              /\ runtime'.state = "running" => runtime.state = "running" ]_vars

(* When the gyro falls silent, readers of the snapshot eventually see no     *)
(* valid attitude any more.                                                 *)
SilentGyroExpires == [](~gyro_alive => <>[]("valid" \notin published))

(* docs/requirements/firmware-behavior.md, states: any successful read        *)
(* restarts the count of consecutive failures.                              *)
SuccessClearsFailures ==
  [][ /\ pc = "gyro_read" /\ pc' # "gyro_read"
      /\ "spi_error" \notin runtime'.gyro_conditions
        => runtime'.failures = 0 ]_vars
=============================================================================
