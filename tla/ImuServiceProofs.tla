--------------------------- MODULE ImuServiceProofs ---------------------------
(***************************************************************************)
(* For every length of the calibration, every expiry and every bound on    *)
(* unread samples: no sample is forgotten when the IMU thread waits, the   *)
(* published status is current, an expired gyro invalidates the estimate,  *)
(* and an attitude rests on an unbroken run of samples.                    *)
(***************************************************************************)
EXTENDS ImuService, TLAPS

(* imu_runtime_t *)
States == {"initializing", "calibrating", "running", "fault_retry"}

Runtime ==
  [state : States, valid : BOOLEAN, accepted : Nat,
   state_conditions : SUBSET Conditions, accel_conditions : SUBSET Conditions,
   gyro_conditions : SUBSET Conditions, failures : Nat,
   newest_accel_valid : BOOLEAN, gyro_baseline_valid : BOOLEAN,
   last_gyro_valid : BOOLEAN, gyro_expired : BOOLEAN]

(* What holds of the runtime between any two steps of the thread.            *)
Good(r) ==
  /\ r \in Runtime
  /\ r.accepted <= Calibration /\ r.failures <= 3
  /\ r.state = "calibrating" => r.accepted < Calibration
  /\ r.state \in {"calibrating", "running"} => r.failures <= 2
  /\ r.state = "running" => r.last_gyro_valid
  /\ r.gyro_expired => ~r.valid

(* The branch of the loop on the state is still right when it is taken, and  *)
(* a resynchronisation after an initialisation finds everything reset.      *)
SamplePcs == {"wait", "gyro_event", "gyro_read", "accel_event", "accel_read"}
ResyncPcs == {"clear", "accel", "gyro", "resynced"}

PcInv ==
  /\ pc \in {"loop", "init", "retry"} \cup SamplePcs \cup ResyncPcs
  /\ pc \in SamplePcs => runtime.state \in {"calibrating", "running"}
  /\ pc = "init" => runtime.state = "initializing"
  /\ pc = "retry" => runtime.state = "fault_retry"
  /\ pc \in ResyncPcs =>
       \/ runtime.state = "fault_retry"
       \/ /\ runtime.state = "initializing" /\ runtime.failures = 0
          /\ runtime.accepted = 0 /\ accepted_run = 0

(* A sample that is not consumed is signalled, or the thread is in a place    *)
(* from which it consumes the sample before it waits again.                 *)
WillBeTaken(s) ==
  \/ pc \in {"loop", "init", "retry"} /\ runtime.state \in {"initializing", "fault_retry"}
  \/ pc \in {"clear", "accel"}
  \/ pc = "gyro" /\ s = "gyro"
  \/ pc = "gyro_event" /\ (s = "gyro" \/ s \in received)
  \/ pc = "gyro_read" /\ IF s = "accel" THEN s \in received ELSE unread[s] = before
  \/ pc = "accel_event" /\ s = "accel"
  \/ pc = "accel_read" /\ s = "accel" /\ unread[s] = before

SignalInv == \A s \in Sensors : unread[s] # 0 => s \in events \/ WillBeTaken(s)

(* What is published is out of date only from the reset of the runtime to    *)
(* the end of the resynchronisation, which publishes.                       *)
PublishInv ==
  ~(pc \in ResyncPcs /\ runtime.state = "initializing")
    => published = Status(runtime)

(* The types, by what the steps change together. *)
EventTypeOK ==
  /\ unread \in [Sensors -> 0 .. MaxUnread]
  /\ events \in SUBSET Sensors /\ received \in SUBSET Sensors
  /\ gyro_alive \in BOOLEAN
  /\ before \in 0 .. MaxUnread
  /\ accepted_run \in 0 .. Calibration

TimeTypeOK ==
  /\ age \in [{"last", "baseline", "latch"} -> 0 .. Expiry]
  /\ delta \in 0 .. Expiry

StatusTypeOK == published \in SUBSET (Conditions \cup {"calibrating", "valid"})

(* The inductive invariant *)
IInv ==
  /\ EventTypeOK /\ TimeTypeOK /\ StatusTypeOK /\ Good(runtime)
  /\ PcInv /\ SignalInv /\ PublishInv /\ CalibrationUnbroken

-----------------------------------------------------------------------------
(* The operators on the runtime *)

(* imu_service_status: a published status is one of the documented ones. *)
LEMMA StatusType ==
  ASSUME NEW r \in Runtime
  PROVE  Status(r) \in SUBSET (Conditions \cup {"calibrating", "valid"})
  BY DEF Runtime, Status

(* service_gyro_expiry: what expires is no longer valid. *)
LEMMA ExpireGood ==
  ASSUME NEW r, Good(r)
  PROVE  /\ Good(ExpireGyro(r)) /\ ExpireGyro(r).state = r.state
         /\ ExpireGyro(r).accepted = r.accepted
         /\ ExpireGyro(r).failures = r.failures
<1>1. ExpireGyro(r) \in Runtime
  BY DEF Good, Runtime, ExpireGyro, MahonyInvalidate, Conditions
<1>2. /\ ExpireGyro(r).state = r.state /\ ExpireGyro(r).accepted = r.accepted
      /\ ExpireGyro(r).failures = r.failures /\ ExpireGyro(r).valid = FALSE
      /\ ExpireGyro(r).last_gyro_valid = r.last_gyro_valid
  BY DEF Good, Runtime, ExpireGyro, MahonyInvalidate
<1> QED
  BY <1>1, <1>2 DEF Good

(* imu_gyro_expiry_transition: an expiry that is not published changes        *)
(* nothing readers could see.                                               *)
LEMMA ExpiryUnseen ==
  ASSUME NEW r \in Runtime, ~ExpiryPublishRequired(r)
  PROVE  Status(ExpireGyro(r)) = Status(r)
<1> DEFINE q == ExpireGyro(r)
<1>1. /\ r.valid = FALSE /\ "timestamp_invalid" \in r.gyro_conditions
  BY DEF ExpiryPublishRequired, Runtime
<1>2. /\ q.state = r.state /\ q.valid = FALSE
      /\ q.state_conditions = r.state_conditions
      /\ q.accel_conditions = r.accel_conditions
      /\ q.gyro_conditions = r.gyro_conditions \cup {"timestamp_invalid"}
  BY DEF ExpireGyro, MahonyInvalidate, Runtime
<1>3. q.gyro_conditions = r.gyro_conditions
  BY <1>1, <1>2
<1> HIDE DEF q
<1> QED
  BY <1>1, <1>2, <1>3 DEF Status, q

(* Good asks nothing of the conditions, the newest accel sample and the gyro  *)
(* baseline.                                                                *)
LEMMA GoodAlike ==
  ASSUME NEW r, Good(r), NEW q \in Runtime,
         q.state = r.state, q.valid = r.valid, q.accepted = r.accepted,
         q.failures = r.failures, q.last_gyro_valid = r.last_gyro_valid,
         q.gyro_expired = r.gyro_expired
  PROVE  Good(q)
  BY DEF Good

(* RestartCalibration: only a calibration loses its samples. *)
LEMMA RestartGood ==
  ASSUME NEW r, Good(r)
  PROVE  /\ Good(RestartCalibration(r))
         /\ RestartCalibration(r).state = r.state
         /\ r.state = "calibrating" => RestartCalibration(r).accepted = 0
<1> DEFINE q == RestartCalibration(r)
<1>1. CASE r.state = "calibrating"
  <2>1. q = [r EXCEPT !.accepted = 0]
    BY <1>1 DEF RestartCalibration
  <2>2. q \in Runtime
    BY <2>1 DEF Good, Runtime
  <2>3. /\ q.state = r.state /\ q.valid = r.valid /\ q.accepted = 0
        /\ q.failures = r.failures /\ q.last_gyro_valid = r.last_gyro_valid
        /\ q.gyro_expired = r.gyro_expired
    BY <2>1 DEF Good, Runtime
  <2> HIDE DEF q
  <2>4. Good(q)
    BY <2>2, <2>3, <1>1, ImuAssumption DEF Good
  <2> QED
    BY <2>3, <2>4 DEF q
<1>2. CASE r.state # "calibrating"
  BY <1>2 DEF RestartCalibration
<1> QED
  BY <1>1, <1>2

(* publish_read_failure: a third failure in a row is a fault, and no failure  *)
(* leaves a sample in the calibration.                                      *)
LEMMA FailureGood ==
  ASSUME NEW r, Good(r), r.state \in {"calibrating", "running"}
  PROVE  /\ Good(ReadFailure(r))
         /\ ReadFailure(r).state \in {r.state, "fault_retry"}
         /\ ReadFailure(r).state = "calibrating" => ReadFailure(r).accepted = 0
<1> DEFINE s == RestartCalibration(r)
           q == [s EXCEPT !.failures = s.failures + 1]
           f == EnterFault(q)
<1>1. Good(s) /\ s.state = r.state /\ (r.state = "calibrating" => s.accepted = 0)
  BY RestartGood
<1> HIDE DEF s
<1>2. /\ q \in Runtime /\ q.state = s.state /\ q.valid = s.valid
      /\ q.accepted = s.accepted /\ q.failures = s.failures + 1
      /\ q.last_gyro_valid = s.last_gyro_valid /\ q.gyro_expired = s.gyro_expired
  BY <1>1 DEF Good, Runtime
<1>3. ReadFailure(r) = IF q.failures >= 3 THEN f ELSE q
  BY DEF ReadFailure, CountedFailure, q, s
<1> HIDE DEF q
<1>4. /\ f \in Runtime /\ f.state = "fault_retry" /\ f.valid = FALSE
      /\ f.accepted = q.accepted /\ f.failures = q.failures
  BY <1>2 DEF EnterFault, MahonyInvalidate, Runtime, States
<1> HIDE DEF f
<1>5. s.failures <= 2 /\ s.failures \in Nat /\ s.accepted \in Nat
  BY <1>1 DEF Good, Runtime
<1>6. CASE q.failures >= 3
  <2>1. Good(f)
    BY <1>1, <1>2, <1>4, <1>5 DEF Good
  <2> QED
    BY <2>1, <1>3, <1>4, <1>6
<1>7. CASE ~(q.failures >= 3)
  <2>1. q.failures <= 2
    BY <1>2, <1>5, <1>7
  <2>2. q.failures <= 3 /\ (q.gyro_expired => ~q.valid)
    BY <2>1, <1>1, <1>2, <1>5 DEF Good
  <2>3. /\ q.accepted <= Calibration
        /\ q.state = "calibrating" => q.accepted < Calibration
        /\ q.state = "running" => q.last_gyro_valid
    BY <1>1, <1>2 DEF Good
  <2>4. Good(q)
    BY <2>1, <2>2, <2>3, <1>2 DEF Good
  <2> QED
    BY <2>4, <1>1, <1>2, <1>3, <1>7
<1> QED
  BY <1>6, <1>7

(* reset_after_sensor_init and the failure of an initialisation *)
LEMMA InitGood ==
  ASSUME Good(runtime), runtime.state = "initializing"
  PROVE  /\ Good(ResetRuntime) /\ ResetRuntime.state = runtime.state
         /\ ResetRuntime.failures = 0 /\ ResetRuntime.accepted = 0
         /\ InitFails => Good(runtime') /\ runtime'.state = "fault_retry"
<1>1. /\ ResetRuntime \in Runtime /\ ResetRuntime.state = runtime.state
      /\ ResetRuntime.failures = 0 /\ ResetRuntime.accepted = 0
      /\ ResetRuntime.gyro_expired = FALSE
  BY DEF ResetRuntime, Good, Runtime, Conditions
<1>2. ASSUME InitFails
      PROVE  Good(runtime') /\ runtime'.state = "fault_retry"
  <2> DEFINE f == EnterFault(runtime)
  <2>1. /\ f \in Runtime /\ f.state = "fault_retry" /\ f.valid = FALSE
        /\ f.accepted = runtime.accepted /\ f.failures = runtime.failures
    BY DEF EnterFault, MahonyInvalidate, Good, Runtime, States
  <2>2. runtime' = [f EXCEPT !.state_conditions = {"init_failed"},
                             !.accel_conditions = {},
                             !.gyro_conditions = {"timestamp_invalid"}]
    BY <1>2 DEF InitFails
  <2> HIDE DEF f
  <2>3. /\ runtime' \in Runtime /\ runtime'.state = "fault_retry"
        /\ runtime'.valid = FALSE /\ runtime'.accepted = runtime.accepted
        /\ runtime'.failures = runtime.failures
    BY <2>1, <2>2 DEF Runtime, Conditions
  <2> QED
    BY <2>3 DEF Good
<1>3. Good(ResetRuntime)
  <2>1. ResetRuntime.gyro_expired => ~ResetRuntime.valid
    BY <1>1
  <2> QED
    BY <2>1, <1>1, ImuAssumption DEF Good
<1> QED
  BY <1>1, <1>2, <1>3

-----------------------------------------------------------------------------
(* What a handler may leave behind *)

Sampling == runtime.state \in {"calibrating", "running"}

(* Gone on, or faulted; a calibration has lost its samples. *)
Lost(r, q) ==
  /\ Good(q)
  /\ q.state \in {r.state, "fault_retry"}
  /\ q.state = "calibrating" => q.accepted = 0

(* process_gyro: a torn sample *)
LEMMA TornGyroLost ==
  ASSUME Good(runtime), Sampling, NEW ok \in BOOLEAN, TornGyro(ok)
  PROVE  Lost(runtime, runtime')
<1> DEFINE s == RestartCalibration(runtime)
           g == {"overrun", "timestamp_invalid"} \cup (IF ok THEN {} ELSE {"spi_error"})
           r == [s EXCEPT !.gyro_conditions = g]
<1>1. /\ Good(s) /\ s.state = runtime.state
      /\ runtime.state = "calibrating" => s.accepted = 0
  BY RestartGood
<1>2. g \in SUBSET Conditions
  BY DEF Conditions
<1>3. runtime' = IF ok THEN r ELSE ReadFailure(r)
  BY DEF TornGyro
<1> HIDE DEF s, g
<1>4. /\ r \in Runtime /\ r.state = s.state /\ r.valid = s.valid
      /\ r.accepted = s.accepted /\ r.failures = s.failures
      /\ r.last_gyro_valid = s.last_gyro_valid /\ r.gyro_expired = s.gyro_expired
  BY <1>1, <1>2 DEF Good, Runtime
<1> HIDE DEF r
<1>5. Good(r)
  BY <1>1, <1>4, GoodAlike
<1>6. CASE ok
  BY <1>1, <1>3, <1>4, <1>5, <1>6 DEF Lost
<1>7. CASE ~ok
  BY <1>1, <1>3, <1>4, <1>5, <1>7, FailureGood DEF Lost, Sampling
<1> QED
  BY <1>6, <1>7

(* process_gyro: a failed read *)
LEMMA GyroFailedLost ==
  ASSUME Good(runtime), Sampling, NEW dt, GyroFailed(dt)
  PROVE  Lost(runtime, runtime')
<1> DEFINE g == GyroConditions(runtime.gyro_baseline_valid, dt) \cup {"spi_error"}
           r == [runtime EXCEPT !.gyro_baseline_valid = TRUE, !.gyro_conditions = g]
<1>1. g \in SUBSET Conditions
  BY DEF Conditions, GyroConditions
<1>2. runtime' = ReadFailure(r)
  BY DEF GyroFailed
<1> HIDE DEF g
<1>3. /\ r \in Runtime /\ r.state = runtime.state /\ r.valid = runtime.valid
      /\ r.accepted = runtime.accepted /\ r.failures = runtime.failures
      /\ r.last_gyro_valid = runtime.last_gyro_valid
      /\ r.gyro_expired = runtime.gyro_expired
  BY <1>1 DEF Good, Runtime
<1> HIDE DEF r
<1>4. Good(r)
  BY <1>3, GoodAlike
<1> QED
  BY <1>2, <1>3, <1>4, FailureGood DEF Lost, Sampling

(* record_overrun *)
LEMMA OverrunCheckGood ==
  ASSUME NEW r, Good(r)
  PROVE  /\ Good(AfterOverrunCheck(r)) /\ AfterOverrunCheck(r).state = r.state
         /\ Overrun /\ r.state = "calibrating" => AfterOverrunCheck(r).accepted = 0
         /\ ~Overrun => AfterOverrunCheck(r).accepted = r.accepted
<1> DEFINE s == RestartCalibration(r)
           q == AfterOverrunCheck(r)
<1>1. /\ Good(s) /\ s.state = r.state
      /\ r.state = "calibrating" => s.accepted = 0
  BY RestartGood
<1>2. CASE Overrun
  <2>1. q = [s EXCEPT !.accel_conditions = {"overrun"}]
    BY <1>2 DEF AfterOverrunCheck
  <2> HIDE DEF s
  <2>2. /\ q \in Runtime /\ q.state = s.state /\ q.valid = s.valid
        /\ q.accepted = s.accepted /\ q.failures = s.failures
        /\ q.last_gyro_valid = s.last_gyro_valid /\ q.gyro_expired = s.gyro_expired
    BY <2>1, <1>1 DEF Good, Runtime, Conditions
  <2> HIDE DEF q
  <2>3. Good(q)
    BY <1>1, <2>2, GoodAlike
  <2> QED
    BY <1>1, <1>2, <2>2, <2>3 DEF q
<1>3. CASE ~Overrun
  <2>1. q = [r EXCEPT !.accel_conditions = {}]
    BY <1>3 DEF AfterOverrunCheck
  <2>2. /\ q \in Runtime /\ q.state = r.state /\ q.valid = r.valid
        /\ q.accepted = r.accepted /\ q.failures = r.failures
        /\ q.last_gyro_valid = r.last_gyro_valid /\ q.gyro_expired = r.gyro_expired
    BY <2>1 DEF Good, Runtime
  <2> HIDE DEF q
  <2>3. Good(q)
    BY <2>2, GoodAlike
  <2> QED
    BY <1>3, <2>2, <2>3 DEF q
<1> QED
  BY <1>2, <1>3

(* process_accel: a lost sample invalidates no more than the newest accel   *)
(* sample.                                                                  *)
LEMMA AccelLostGood ==
  ASSUME NEW r, Good(r), NEW c \in SUBSET Conditions
  PROVE  /\ Good(AccelLost(r, c)) /\ AccelLost(r, c).state = r.state
         /\ AccelLost(r, c).accepted = r.accepted
<1> DEFINE q == AccelLost(r, c)
<1>1. /\ q \in Runtime /\ q.state = r.state /\ q.valid = r.valid
      /\ q.accepted = r.accepted /\ q.failures = r.failures
      /\ q.last_gyro_valid = r.last_gyro_valid /\ q.gyro_expired = r.gyro_expired
  BY DEF Good, Runtime, AccelLost
<1> HIDE DEF q
<1>2. Good(q)
  BY <1>1, GoodAlike
<1> QED
  BY <1>1, <1>2 DEF q

(* process_accel: a torn sample *)
LEMMA TornAccelLost ==
  ASSUME Good(runtime), Sampling, NEW ok \in BOOLEAN, TornAccel(ok)
  PROVE  Lost(runtime, runtime')
<1> DEFINE o == AfterOverrunCheck(runtime)
           s == RestartCalibration(o)
           c == {"overrun"} \cup (IF ok THEN {} ELSE {"spi_error"})
           r == AccelLost(s, c)
<1>1. Good(o) /\ o.state = runtime.state
  BY OverrunCheckGood
<1>2. Good(s) /\ s.state = o.state /\ (o.state = "calibrating" => s.accepted = 0)
  BY <1>1, RestartGood
<1>3. c \in SUBSET Conditions
  BY DEF Conditions
<1>4. runtime' = IF ok THEN r ELSE ReadFailure(r)
  BY DEF TornAccel
<1> HIDE DEF o, s, c
<1>5. Good(r) /\ r.state = s.state /\ r.accepted = s.accepted
  BY <1>2, <1>3, AccelLostGood
<1> HIDE DEF r
<1>6. CASE ok
  BY <1>1, <1>2, <1>4, <1>5, <1>6 DEF Lost
<1>7. CASE ~ok
  BY <1>1, <1>2, <1>4, <1>5, <1>7, FailureGood DEF Lost, Sampling
<1> QED
  BY <1>6, <1>7

(* process_accel: a failed read *)
LEMMA AccelFailedLost ==
  ASSUME Good(runtime), Sampling, AccelFailed
  PROVE  Lost(runtime, runtime')
<1> DEFINE o == AfterOverrunCheck(runtime)
           r == AccelLost(o, {"spi_error"})
<1>1. Good(o) /\ o.state = runtime.state
  BY OverrunCheckGood
<1>2. runtime' = ReadFailure(r)
  BY DEF AccelFailed
<1> HIDE DEF o
<1>3. Good(r) /\ r.state = o.state
  BY <1>1, AccelLostGood DEF Conditions
<1> HIDE DEF r
<1> QED
  BY <1>1, <1>2, <1>3, FailureGood DEF Lost, Sampling

(* process_accel: an accepted sample, and the expiry check that follows it   *)
LEMMA AccelAcceptedGood ==
  ASSUME Good(runtime), Sampling, AccelAccepted
  PROVE  /\ Good(runtime') /\ runtime'.state = runtime.state
         /\ Overrun /\ runtime.state = "calibrating" => runtime'.accepted = 0
         /\ ~Overrun => runtime'.accepted = runtime.accepted
<1> DEFINE o == AfterOverrunCheck(runtime)
           r == [o EXCEPT !.failures = 0, !.newest_accel_valid = TRUE]
<1>1. /\ Good(o) /\ o.state = runtime.state
      /\ Overrun /\ runtime.state = "calibrating" => o.accepted = 0
      /\ ~Overrun => o.accepted = runtime.accepted
  BY OverrunCheckGood
<1>2. runtime' = IF ExpiryDue(r) THEN ExpireGyro(r) ELSE r
  BY DEF AccelAccepted
<1> HIDE DEF o
<1>3. /\ r \in Runtime /\ r.state = o.state /\ r.valid = o.valid
      /\ r.accepted = o.accepted /\ r.failures = 0
      /\ r.last_gyro_valid = o.last_gyro_valid /\ r.gyro_expired = o.gyro_expired
  BY <1>1 DEF Good, Runtime
<1> HIDE DEF r
<1>4. Good(r)
  BY <1>1, <1>3 DEF Good
<1>5. CASE ExpiryDue(r)
  BY <1>1, <1>2, <1>3, <1>4, <1>5, ExpireGood
<1>6. CASE ~ExpiryDue(r)
  BY <1>1, <1>2, <1>3, <1>4, <1>6
<1> QED
  BY <1>5, <1>6

(* A sample is integrated only if it is a new one. *)
LEMMA IntegratedIsNew ==
  ASSUME before \in Nat, "integrate" \in DtActions
  PROVE  before > 0
  BY DEF DtActions

(* imu_accept_new_gyro_sample, and what process_gyro sets with it *)
LEMMA AcceptedGyroGood ==
  ASSUME Good(runtime), before \in Nat,
         NEW g \in SUBSET Conditions, NEW new, NEW r,
         new = IF before > 0 THEN AcceptNewGyro(runtime) ELSE runtime,
         r = [new EXCEPT !.gyro_baseline_valid = TRUE, !.failures = 0,
                         !.gyro_conditions = g]
  PROVE  /\ Good(r) /\ r.state = runtime.state /\ r.accepted = runtime.accepted
         /\ before > 0 => r.last_gyro_valid = TRUE /\ r.gyro_expired = FALSE
<1>1. /\ new \in Runtime /\ new.state = runtime.state /\ new.valid = runtime.valid
      /\ new.accepted = runtime.accepted
      /\ before > 0 => new.last_gyro_valid = TRUE /\ new.gyro_expired = FALSE
      /\ ~(before > 0) => /\ new.last_gyro_valid = runtime.last_gyro_valid
                          /\ new.gyro_expired = runtime.gyro_expired
  <2>1. CASE before > 0
    <3>1. new = AcceptNewGyro(runtime)
      BY <2>1
    <3> QED
      BY <2>1, <3>1 DEF AcceptNewGyro, Good, Runtime
  <2>2. CASE ~(before > 0)
    <3>1. new = runtime
      BY <2>2
    <3> QED
      BY <2>2, <3>1 DEF Good
  <2> QED
    BY <2>1, <2>2
<1>2. /\ r \in Runtime /\ r.state = new.state /\ r.valid = new.valid
      /\ r.accepted = new.accepted /\ r.failures = 0
      /\ r.last_gyro_valid = new.last_gyro_valid
      /\ r.gyro_expired = new.gyro_expired
  BY <1>1 DEF Runtime
<1>3. (r.gyro_expired => ~r.valid) /\ (r.state = "running" => r.last_gyro_valid)
  <2>1. CASE before > 0
    BY <1>1, <1>2, <2>1
  <2>2. CASE ~(before > 0)
    BY <1>1, <1>2, <2>2 DEF Good
  <2> QED
    BY <2>1, <2>2
<1>4. r.accepted <= Calibration /\ (r.state = "calibrating" => r.accepted < Calibration)
  BY <1>1, <1>2 DEF Good
<1>5. r.failures <= 2 /\ r.failures <= 3
  BY <1>2
<1>6. Good(r)
  BY <1>2, <1>3, <1>4, <1>5 DEF Good
<1> QED
  BY <1>1, <1>2, <1>6

(* Calibrated by the whole run, or still counting what the documentation      *)
(* counts.                                                                  *)
InStep ==
  /\ Good(runtime') /\ runtime'.state \in {"calibrating", "running"}
  /\ runtime'.state = "calibrating" => runtime'.accepted = accepted_run'
  /\ runtime.state = "calibrating" /\ runtime'.state = "running"
       => accepted_run' = Calibration
  /\ runtime.state = "running" => runtime'.state = "running"
  /\ accepted_run' \in 0 .. Calibration

(* process_calibration_gyro *)
LEMMA CalibrationInStep ==
  ASSUME NEW r, Good(r), r.state = "calibrating", runtime.state = "calibrating",
         r.accepted = accepted_run, accepted_run \in 0 .. Calibration,
         before \in Nat, NEW dt \in DtActions,
         NEW had \in BOOLEAN, NEW recent \in BOOLEAN, NEW stationary \in BOOLEAN,
         before > 0 => r.last_gyro_valid = TRUE /\ r.gyro_expired = FALSE,
         runtime' = CalibrationGyro(r, Admission(r, had, dt, recent), stationary),
         RecordRun(Overrun,
                   /\ had /\ dt = "integrate" /\ r.newest_accel_valid /\ recent
                   /\ unread["accel"] = 0 => stationary,
                   unread["accel"] # 0)
  PROVE  InStep
<1> DEFINE adm == Admission(r, had, dt, recent)
<1>1. r \in Runtime /\ r.accepted \in Nat /\ r.accepted < Calibration
      /\ r.newest_accel_valid \in BOOLEAN /\ Calibration \in Nat
  BY ImuAssumption DEF Good, Runtime
<1>2. /\ adm = "skip" => accepted_run' = accepted_run
      /\ adm = "reset" => accepted_run' = 0
      /\ adm \notin {"skip", "reset"} =>
           /\ dt = "integrate"
           /\ ~stationary => accepted_run' = 0
           /\ stationary => accepted_run' = AtMost(Calibration, accepted_run + 1)
  BY <1>1 DEF RecordRun, Admission
<1>3. runtime' = IF adm = "skip" THEN r
                 ELSE IF adm = "reset" \/ ~stationary THEN [r EXCEPT !.accepted = 0]
                 ELSE IF r.accepted + 1 = Calibration
                      THEN CompleteCalibration(CalibrationPush(r))
                 ELSE CalibrationPush(r)
  BY DEF CalibrationGyro
<1> HIDE DEF adm
<1>4. CASE adm = "skip"
  BY <1>1, <1>2, <1>3, <1>4 DEF InStep
<1>5. CASE adm # "skip" /\ (adm = "reset" \/ ~stationary)
  <2>1. runtime' = [r EXCEPT !.accepted = 0] /\ accepted_run' = 0
    BY <1>2, <1>3, <1>5
  <2>2. /\ runtime' \in Runtime /\ runtime'.state = r.state
        /\ runtime'.valid = r.valid /\ runtime'.accepted = 0
        /\ runtime'.failures = r.failures
        /\ runtime'.last_gyro_valid = r.last_gyro_valid
        /\ runtime'.gyro_expired = r.gyro_expired
    BY <2>1, <1>1 DEF Runtime
  <2>3. Good(runtime')
    BY <2>2, <1>1 DEF Good
  <2> QED
    BY <2>1, <2>2, <2>3, <1>1 DEF InStep
<1>6. CASE adm # "skip" /\ ~(adm = "reset" \/ ~stationary)
  <2> DEFINE p == CalibrationPush(r)
  <2>1. /\ p \in Runtime /\ p.state = r.state /\ p.valid = r.valid
        /\ p.accepted = r.accepted + 1 /\ p.failures = r.failures
        /\ p.last_gyro_valid = r.last_gyro_valid /\ p.gyro_expired = r.gyro_expired
    BY <1>1 DEF CalibrationPush, Runtime
  <2>2. /\ runtime' = IF r.accepted + 1 = Calibration
                      THEN CompleteCalibration(p) ELSE p
        /\ dt = "integrate"
        /\ accepted_run' = AtMost(Calibration, accepted_run + 1)
    BY <1>2, <1>3, <1>6
  <2>3. accepted_run' = r.accepted + 1
    BY <2>2, <1>1 DEF AtMost
  <2>4. r.last_gyro_valid = TRUE /\ r.gyro_expired = FALSE
    BY <2>2, IntegratedIsNew
  <2> HIDE DEF p
  <2>5. CASE r.accepted + 1 = Calibration
    <3> DEFINE c == CompleteCalibration(p)
    <3>1. /\ c \in Runtime /\ c.state = "running" /\ c.valid = TRUE
          /\ c.accepted = p.accepted /\ c.failures = p.failures
          /\ c.last_gyro_valid = p.last_gyro_valid /\ c.gyro_expired = p.gyro_expired
      BY <2>1 DEF CompleteCalibration, MahonyUpdate, Runtime, States
    <3> HIDE DEF c
    <3>2. (c.gyro_expired => ~c.valid) /\ (c.state = "running" => c.last_gyro_valid)
      BY <3>1, <2>1, <2>4
    <3>3. c.failures <= 2 /\ c.failures <= 3
      BY <3>1, <2>1, <1>1 DEF Good, Runtime
    <3>4. c.accepted = Calibration /\ c.accepted <= Calibration
      BY <3>1, <2>1, <2>5, <1>1
    <3>5. Good(c)
      BY <3>1, <3>2, <3>3, <3>4 DEF Good
    <3>6. runtime' = c
      BY <2>2, <2>5 DEF c
    <3> QED
      BY <3>1, <3>5, <3>6, <2>3, <2>5, <1>1 DEF InStep
  <2>6. CASE r.accepted + 1 # Calibration
    <3>1. runtime' = p
      BY <2>2, <2>6
    <3>2. p.accepted < Calibration /\ p.accepted <= Calibration
      BY <2>1, <2>6, <1>1
    <3>3. Good(p)
      BY <2>1, <3>2 DEF Good
    <3> QED
      BY <3>1, <3>2, <3>3, <2>1, <2>3, <1>1 DEF InStep
  <2> QED
    BY <2>5, <2>6
<1> QED
  BY <1>4, <1>5, <1>6

(* process_gyro: an accepted sample, while calibrating or running *)
LEMMA GyroAcceptedInStep ==
  ASSUME Good(runtime), Sampling, CalibrationUnbroken, accepted_run \in 0 .. Calibration,
         before \in Nat, NEW dt \in DtActions,
         NEW recent \in BOOLEAN, NEW stationary \in BOOLEAN,
         GyroAccepted(dt, recent, stationary)
  PROVE  InStep
<1> DEFINE had == runtime.gyro_baseline_valid
           g == GyroConditions(had, dt)
           new == IF before > 0 THEN AcceptNewGyro(runtime) ELSE runtime
           r == [new EXCEPT !.gyro_baseline_valid = TRUE, !.failures = 0,
                            !.gyro_conditions = g]
<1>1. g \in SUBSET Conditions
  BY DEF GyroConditions, Conditions
<1>2. had \in BOOLEAN
  BY DEF Good, Runtime
<1> HIDE DEF g
<1>3. /\ Good(r) /\ r.state = runtime.state /\ r.accepted = runtime.accepted
      /\ before > 0 => r.last_gyro_valid = TRUE /\ r.gyro_expired = FALSE
  <2>1. new = IF before > 0 THEN AcceptNewGyro(runtime) ELSE runtime
    OBVIOUS
  <2> HIDE DEF new
  <2>2. r = [new EXCEPT !.gyro_baseline_valid = TRUE, !.failures = 0,
                        !.gyro_conditions = g]
    OBVIOUS
  <2> HIDE DEF r
  <2> QED
    BY <1>1, <2>1, <2>2, AcceptedGyroGood
<1>4. IF r.state = "calibrating"
      THEN /\ runtime' = CalibrationGyro(r, Admission(r, had, dt, recent), stationary)
           /\ RecordRun(Overrun,
                        /\ had /\ dt = "integrate"
                        /\ r.newest_accel_valid /\ recent
                        /\ unread["accel"] = 0 => stationary,
                        unread["accel"] # 0)
      ELSE /\ runtime' = RunningGyro(r, had, dt)
           /\ UNCHANGED accepted_run
  BY DEF GyroAccepted, g
<1> HIDE DEF r, had
<1>5. CASE r.state = "calibrating"
  <2>1. runtime.state = "calibrating" /\ r.accepted = accepted_run
    BY <1>3, <1>5 DEF CalibrationUnbroken
  <2>2. /\ runtime' = CalibrationGyro(r, Admission(r, had, dt, recent), stationary)
        /\ RecordRun(Overrun,
                     /\ had /\ dt = "integrate"
                     /\ r.newest_accel_valid /\ recent
                     /\ unread["accel"] = 0 => stationary,
                     unread["accel"] # 0)
    BY <1>4, <1>5
  <2> QED
    BY <1>2, <1>3, <1>5, <2>1, <2>2, CalibrationInStep
<1>6. CASE r.state # "calibrating"
  <2>1. r.state = "running" /\ runtime.state = "running"
    BY <1>3, <1>6 DEF Sampling
  <2>2. runtime' = RunningGyro(r, had, dt) /\ accepted_run' = accepted_run
    BY <1>4, <1>6
  <2>3. Good(runtime') /\ runtime'.state = r.state
    <3>1. CASE ~had \/ dt = "keep"
      BY <1>3, <2>2, <3>1 DEF RunningGyro
    <3>2. CASE ~(~had \/ dt = "keep") /\ dt = "integrate"
      <4> DEFINE q == MahonyUpdate(r)
      <4>1. r.gyro_expired = FALSE
        BY <1>3, <3>2, IntegratedIsNew
      <4>2. /\ q \in Runtime /\ q.state = r.state /\ q.accepted = r.accepted
            /\ q.failures = r.failures /\ q.last_gyro_valid = r.last_gyro_valid
            /\ q.gyro_expired = r.gyro_expired
        BY <1>3 DEF MahonyUpdate, Good, Runtime
      <4> HIDE DEF q
      <4>3. q.gyro_expired => ~q.valid
        BY <4>1, <4>2
      <4>4. Good(q)
        BY <1>3, <4>2, <4>3 DEF Good
      <4>5. runtime' = q
        BY <2>2, <3>2 DEF RunningGyro, q
      <4> QED
        BY <4>2, <4>4, <4>5
    <3>3. CASE ~(~had \/ dt = "keep") /\ dt # "integrate"
      <4> DEFINE q == MahonyInvalidate(r)
      <4>1. /\ q \in Runtime /\ q.state = r.state /\ q.accepted = r.accepted
            /\ q.failures = r.failures /\ q.last_gyro_valid = r.last_gyro_valid
            /\ q.valid = FALSE
        BY <1>3 DEF MahonyInvalidate, Good, Runtime
      <4> HIDE DEF q
      <4>2. Good(q)
        BY <1>3, <4>1 DEF Good
      <4>3. runtime' = q
        BY <2>2, <3>3 DEF RunningGyro, q
      <4> QED
        BY <4>1, <4>2, <4>3
    <3> QED
      BY <3>1, <3>2, <3>3
  <2> QED
    BY <2>1, <2>2, <2>3 DEF InStep
<1> QED
  BY <1>5, <1>6

-----------------------------------------------------------------------------
(* The steps of the environment *)

LEMMA StatusTypeFromGood ==
  ASSUME Good(runtime'), published' = Status(runtime')
  PROVE  StatusTypeOK'
  BY StatusType DEF Good, StatusTypeOK

(* The interrupt latches and signals in one step, and so a sample is        *)
(* signalled wherever the thread is.                                        *)
LEMMA DataReadyIInv == ASSUME IInv, NEW s \in Sensors, DataReady(s) PROVE IInv'
<1>1. EventTypeOK'
  <2>1. unread' \in [Sensors -> 0 .. MaxUnread]
    BY ImuAssumption DEF IInv, EventTypeOK, DataReady, Sensors
  <2>2. events' \in SUBSET Sensors
    BY DEF IInv, EventTypeOK, DataReady
  <2>3. UNCHANGED <<gyro_alive, received, before, accepted_run>>
    BY DEF DataReady
  <2> QED
    BY <2>1, <2>2, <2>3 DEF IInv, EventTypeOK
<1>2. TimeTypeOK'
  <2>1. CASE s = "gyro"
    <3>1. age' = [age EXCEPT !.latch = 0] /\ delta' = age.baseline
      BY <2>1 DEF DataReady
    <3>2. age \in [{"last", "baseline", "latch"} -> 0 .. Expiry] /\ 0 \in 0 .. Expiry
      BY ImuAssumption DEF IInv, TimeTypeOK
    <3> QED
      BY <3>1, <3>2 DEF TimeTypeOK
  <2>2. CASE s # "gyro"
    BY <2>2 DEF IInv, TimeTypeOK, DataReady, timeVars
  <2> QED
    BY <2>1, <2>2
<1>3. StatusTypeOK' /\ Good(runtime') /\ PcInv' /\ PublishInv' /\ CalibrationUnbroken'
  BY DEF IInv, DataReady, StatusTypeOK, PcInv, PublishInv, CalibrationUnbroken
<1>4. SignalInv'
  BY DEF IInv, DataReady, SignalInv, WillBeTaken, EventTypeOK
<1> QED
  BY <1>1, <1>2, <1>3, <1>4 DEF IInv

(* Time passes, the gyro falls silent: nothing the thread relies on.        *)
LEMMA ClockIInv == ASSUME IInv, Tick \/ GyroDies PROVE IInv'
<1>1. CASE Tick
  <2>1. TimeTypeOK'
    BY <1>1, ImuAssumption DEF IInv, TimeTypeOK, Tick, AtMost
  <2> QED
    BY <1>1, <2>1 DEF Tick, IInv, EventTypeOK, StatusTypeOK, PcInv, SignalInv,
                      WillBeTaken, PublishInv, CalibrationUnbroken
<1>2. CASE GyroDies
  BY <1>2 DEF GyroDies, timeVars, IInv, EventTypeOK, TimeTypeOK, StatusTypeOK,
              PcInv, SignalInv, WillBeTaken, PublishInv, CalibrationUnbroken
<1> QED
  BY <1>1, <1>2

-----------------------------------------------------------------------------
(* The steps of the thread between two samples *)

LEMMA HousekeepingIInv == ASSUME IInv, Housekeeping PROVE IInv'
<1>1. /\ Good(runtime') /\ runtime'.state = runtime.state
      /\ runtime'.accepted = runtime.accepted
      /\ runtime'.failures = runtime.failures
  <2>1. CASE ExpiryDue(runtime)
    BY <2>1, ExpireGood DEF IInv, Housekeeping
  <2>2. CASE ~ExpiryDue(runtime)
    BY <2>2 DEF IInv, Housekeeping
  <2> QED
    BY <2>1, <2>2
<1>2. published = Status(runtime)
  BY DEF IInv, Housekeeping, PublishInv, ResyncPcs
<1>3. published' = Status(runtime')
  <2>1. CASE ExpiryDue(runtime) /\ ExpiryPublishRequired(runtime)
    BY <2>1 DEF Housekeeping
  <2>2. CASE ExpiryDue(runtime) /\ ~ExpiryPublishRequired(runtime)
    <3>1. runtime' = ExpireGyro(runtime) /\ published' = published
      BY <2>2 DEF Housekeeping
    <3> QED
      BY <3>1, <2>2, <1>2, ExpiryUnseen DEF IInv, Good
  <2>3. CASE ~ExpiryDue(runtime)
    BY <2>3, <1>2 DEF Housekeeping
  <2> QED
    BY <2>1, <2>2, <2>3
<1>4. EventTypeOK' /\ TimeTypeOK' /\ StatusTypeOK' /\ PublishInv'
  BY <1>1, <1>3, StatusTypeFromGood DEF IInv, EventTypeOK, TimeTypeOK, PublishInv,
     Housekeeping, timeVars
<1>5. runtime.state \in States
  BY DEF IInv, Good, Runtime
<1>6. PcInv'
  BY <1>1, <1>5 DEF PcInv, Housekeeping, SamplePcs, ResyncPcs, States
<1>7. SignalInv'
  BY <1>1, <1>5 DEF IInv, SignalInv, WillBeTaken, Housekeeping, States
<1>8. CalibrationUnbroken'
  BY <1>1 DEF IInv, CalibrationUnbroken, Housekeeping
<1> QED
  BY <1>1, <1>4, <1>6, <1>7, <1>8 DEF IInv

(* initialize_sensor: a failed initialisation is a fault, and a successful  *)
(* one has reset everything before it resynchronises.                       *)
LEMMA InitIInvSteps == ASSUME IInv, InitFails \/ InitSucceeds PROVE IInv'
<1>1. Good(runtime) /\ runtime.state = "initializing"
  BY DEF IInv, PcInv, InitFails, InitSucceeds
<1>2. CASE InitFails
  <2>1. Good(runtime') /\ runtime'.state = "fault_retry"
    BY <1>1, <1>2, InitGood
  <2>2. published' = Status(runtime')
    BY <1>2 DEF InitFails
  <2>3. EventTypeOK' /\ TimeTypeOK' /\ StatusTypeOK' /\ PublishInv'
    BY <1>2, <2>1, <2>2, StatusTypeFromGood DEF IInv, EventTypeOK, TimeTypeOK,
       PublishInv, InitFails, timeVars
  <2>4. PcInv' /\ SignalInv' /\ CalibrationUnbroken'
    BY <1>2, <2>1 DEF PcInv, SignalInv, WillBeTaken, CalibrationUnbroken, InitFails,
       SamplePcs, ResyncPcs
  <2> QED
    BY <2>1, <2>3, <2>4 DEF IInv
<1>3. CASE InitSucceeds
  <2>1. /\ Good(runtime') /\ runtime'.state = "initializing"
        /\ runtime'.failures = 0 /\ runtime'.accepted = 0 /\ accepted_run' = 0
        /\ pc' = "clear"
    BY <1>1, <1>3, InitGood DEF InitSucceeds, ResyncOrder
  <2>2. EventTypeOK' /\ TimeTypeOK' /\ StatusTypeOK'
    BY <1>3, ImuAssumption DEF IInv, EventTypeOK, TimeTypeOK, StatusTypeOK,
       InitSucceeds, timeVars
  <2>3. PcInv' /\ SignalInv' /\ PublishInv' /\ CalibrationUnbroken'
    BY <2>1 DEF PcInv, SignalInv, WillBeTaken, PublishInv, CalibrationUnbroken,
       SamplePcs, ResyncPcs
  <2> QED
    BY <2>1, <2>2, <2>3 DEF IInv
<1> QED
  BY <1>2, <1>3

(* wait_fault_retry: the delay is over; the fault lasts until the           *)
(* resynchronisation has ended.                                             *)
LEMMA RetryIInv == ASSUME IInv, RetryDelayOver PROVE IInv'
<1>1. /\ UNCHANGED <<unread, events, gyro_alive, timeVars, received, before,
                      runtime, published, accepted_run>>
      /\ pc = "retry" /\ pc' = "clear" /\ runtime.state = "fault_retry"
  BY DEF RetryDelayOver, ResyncOrder, IInv, PcInv
<1> QED
  BY <1>1 DEF IInv, EventTypeOK, TimeTypeOK, StatusTypeOK, PcInv, SignalInv,
     WillBeTaken, PublishInv, CalibrationUnbroken, SamplePcs, ResyncPcs, timeVars

(* From the clearing of the events on, a new sample is signalled; the older   *)
(* ones are taken as consumed.                                              *)
LEMMA ClearEventsIInv == ASSUME IInv, ClearEvents PROVE IInv'
<1>1. /\ UNCHANGED <<unread, gyro_alive, timeVars, received, before, runtime,
                      published, accepted_run>>
      /\ pc = "clear" /\ pc' = "accel" /\ events' = {}
  BY DEF ClearEvents, ResyncOrder
<1> QED
  BY <1>1 DEF IInv, EventTypeOK, TimeTypeOK, StatusTypeOK, PcInv, SignalInv,
     WillBeTaken, PublishInv, CalibrationUnbroken, SamplePcs, ResyncPcs, timeVars

(* A latch is taken only after the events were cleared.                     *)
LEMMA TakeLatchIInv == ASSUME IInv, NEW s \in Sensors, TakeLatch(s) PROVE IInv'
<1>1. /\ UNCHANGED <<events, gyro_alive, timeVars, received, before, runtime,
                      published, accepted_run>>
      /\ pc = s /\ unread' = [unread EXCEPT ![s] = 0]
      /\ s = "accel" => pc' = "gyro"
      /\ s = "gyro" => pc' = "resynced"
  BY DEF TakeLatch, ResyncOrder
<1>2. EventTypeOK' /\ TimeTypeOK' /\ StatusTypeOK' /\ Good(runtime')
  <2>1. unread' \in [Sensors -> 0 .. MaxUnread]
    BY <1>1, ImuAssumption DEF IInv, EventTypeOK
  <2> QED
    BY <1>1, <2>1 DEF IInv, EventTypeOK, TimeTypeOK, StatusTypeOK, timeVars
<1>3. PcInv' /\ PublishInv' /\ CalibrationUnbroken'
  BY <1>1 DEF IInv, PcInv, PublishInv, CalibrationUnbroken, Sensors, SamplePcs, ResyncPcs
<1>4. SignalInv'
  BY <1>1 DEF IInv, EventTypeOK, SignalInv, WillBeTaken, Sensors
<1> QED
  BY <1>2, <1>3, <1>4 DEF IInv

(* The end of the resynchronisation: nothing is unread that is not          *)
(* signalled; after an initialisation the calibration starts at nothing.    *)
LEMMA ResyncedIInv == ASSUME IInv, Resynced PROVE IInv'
<1>1. /\ UNCHANGED <<unread, events, gyro_alive, timeVars, received, before,
                      accepted_run>>
      /\ pc = "resynced" /\ pc' = "loop"
  BY DEF Resynced
<1>2. CASE runtime.state = "fault_retry"
  <2> DEFINE q == [runtime EXCEPT !.state = "initializing"]
  <2>1. runtime' = q /\ published' = published /\ published = Status(runtime)
    BY <1>1, <1>2 DEF Resynced, IInv, PublishInv
  <2>2. /\ q \in Runtime /\ q.state = "initializing" /\ q.valid = runtime.valid
        /\ q.accepted = runtime.accepted /\ q.failures = runtime.failures
        /\ q.gyro_expired = runtime.gyro_expired
        /\ q.state_conditions = runtime.state_conditions
        /\ q.accel_conditions = runtime.accel_conditions
        /\ q.gyro_conditions = runtime.gyro_conditions
    BY DEF IInv, Good, Runtime, States
  <2> HIDE DEF q
  <2>3. q.gyro_expired => ~q.valid
    BY <2>2 DEF IInv, Good
  <2>4. Good(q)
    BY <2>2, <2>3 DEF IInv, Good
  <2>5. Status(q) = Status(runtime)
    BY <2>2, <1>2 DEF Status
  <2>6. Good(runtime') /\ published' = Status(runtime') /\ runtime'.state = "initializing"
    BY <2>1, <2>2, <2>4, <2>5
  <2>7. EventTypeOK' /\ TimeTypeOK' /\ StatusTypeOK' /\ PublishInv'
    BY <1>1, <2>6, StatusTypeFromGood DEF IInv, EventTypeOK, TimeTypeOK, PublishInv,
       timeVars
  <2>8. PcInv' /\ SignalInv' /\ CalibrationUnbroken'
    BY <1>1, <2>6 DEF PcInv, SignalInv, WillBeTaken, CalibrationUnbroken, SamplePcs,
       ResyncPcs
  <2> QED
    BY <2>6, <2>7, <2>8 DEF IInv
<1>3. CASE runtime.state # "fault_retry"
  <2> DEFINE q == [runtime EXCEPT !.state = "calibrating"]
  <2>1. runtime' = q /\ published' = Status(runtime')
    BY <1>3 DEF Resynced
  <2>2. runtime.failures = 0 /\ runtime.accepted = 0 /\ accepted_run = 0
    BY <1>1, <1>3 DEF IInv, PcInv, ResyncPcs
  <2>3. /\ q \in Runtime /\ q.state = "calibrating" /\ q.valid = runtime.valid
        /\ q.accepted = runtime.accepted /\ q.failures = runtime.failures
        /\ q.gyro_expired = runtime.gyro_expired
    BY DEF IInv, Good, Runtime, States
  <2> HIDE DEF q
  <2>4. q.gyro_expired => ~q.valid
    BY <2>3 DEF IInv, Good
  <2>5. /\ q.accepted = 0 /\ q.accepted < Calibration /\ q.accepted <= Calibration
        /\ q.failures <= 2 /\ q.failures <= 3
    BY <2>2, <2>3, ImuAssumption
  <2>6. Good(q)
    BY <2>3, <2>4, <2>5 DEF Good
  <2>7. /\ Good(runtime') /\ runtime'.state = "calibrating" /\ runtime'.accepted = 0
    BY <2>1, <2>3, <2>5, <2>6
  <2>8. EventTypeOK' /\ TimeTypeOK' /\ StatusTypeOK' /\ PublishInv'
    BY <1>1, <2>1, <2>7, StatusTypeFromGood DEF IInv, EventTypeOK, TimeTypeOK,
       PublishInv, timeVars
  <2>9. PcInv' /\ CalibrationUnbroken'
    BY <1>1, <2>2, <2>7 DEF PcInv, CalibrationUnbroken, SamplePcs, ResyncPcs
  <2>10. SignalInv'
    BY <1>1 DEF IInv, SignalInv, WillBeTaken
  <2> QED
    BY <2>7, <2>8, <2>9, <2>10 DEF IInv
<1> QED
  BY <1>2, <1>3

-----------------------------------------------------------------------------
(* rt_event_recv and the read of the latch *)

LEMMA WaitIInv == ASSUME IInv, Receive \/ WaitTimesOut PROVE IInv'
<1>1. CASE Receive
  <2>1. EventTypeOK' /\ TimeTypeOK' /\ StatusTypeOK' /\ Good(runtime')
    BY <1>1 DEF IInv, EventTypeOK, TimeTypeOK, StatusTypeOK, timeVars, Receive
  <2>2. PcInv' /\ PublishInv' /\ CalibrationUnbroken'
    BY <1>1 DEF IInv, PcInv, PublishInv, CalibrationUnbroken, SamplePcs, ResyncPcs, Receive
  <2>3. SignalInv'
    BY <1>1 DEF IInv, SignalInv, WillBeTaken, Sensors, Receive
  <2> QED
    BY <2>1, <2>2, <2>3 DEF IInv
<1>2. CASE WaitTimesOut
  <2>1. EventTypeOK' /\ TimeTypeOK' /\ StatusTypeOK' /\ Good(runtime')
    BY <1>2 DEF IInv, EventTypeOK, TimeTypeOK, StatusTypeOK, timeVars, WaitTimesOut
  <2>2. PcInv' /\ PublishInv' /\ CalibrationUnbroken'
    BY <1>2 DEF IInv, PcInv, PublishInv, CalibrationUnbroken, SamplePcs, ResyncPcs,
       WaitTimesOut
  <2>3. SignalInv'
    BY <1>2 DEF IInv, SignalInv, WillBeTaken, WaitTimesOut
  <2> QED
    BY <2>1, <2>2, <2>3 DEF IInv
<1> QED
  BY <1>1, <1>2

(* Whatever comes after the latch was read makes the sample a torn one.     *)
LEMMA BeginIInv == ASSUME IInv, BeginGyro \/ BeginAccel PROVE IInv'
<1>1. CASE BeginGyro
  <2>1. /\ UNCHANGED <<unread, events, gyro_alive, timeVars, received, runtime,
                        published, accepted_run>>
        /\ pc = "gyro_event" /\ pc' = "gyro_read" /\ before' = unread["gyro"]
    BY <1>1 DEF BeginGyro, ReadBefore
  <2>2. EventTypeOK' /\ TimeTypeOK' /\ StatusTypeOK' /\ Good(runtime')
    BY <2>1 DEF IInv, EventTypeOK, TimeTypeOK, StatusTypeOK, timeVars, Sensors
  <2>3. PcInv' /\ PublishInv' /\ CalibrationUnbroken'
    BY <2>1 DEF IInv, PcInv, PublishInv, CalibrationUnbroken, SamplePcs, ResyncPcs
  <2>4. SignalInv'
    BY <2>1 DEF IInv, SignalInv, WillBeTaken, Sensors
  <2> QED
    BY <2>2, <2>3, <2>4 DEF IInv
<1>2. CASE BeginAccel
  <2>1. /\ UNCHANGED <<unread, events, gyro_alive, timeVars, received, runtime,
                        published, accepted_run>>
        /\ pc = "accel_event" /\ pc' = "accel_read" /\ before' = unread["accel"]
    BY <1>2 DEF BeginAccel, ReadBefore
  <2>2. EventTypeOK' /\ TimeTypeOK' /\ StatusTypeOK' /\ Good(runtime')
    BY <2>1 DEF IInv, EventTypeOK, TimeTypeOK, StatusTypeOK, timeVars, Sensors
  <2>3. PcInv' /\ PublishInv' /\ CalibrationUnbroken'
    BY <2>1 DEF IInv, PcInv, PublishInv, CalibrationUnbroken, SamplePcs, ResyncPcs
  <2>4. SignalInv'
    BY <2>1 DEF IInv, SignalInv, WillBeTaken, Sensors
  <2> QED
    BY <2>2, <2>3, <2>4 DEF IInv
<1> QED
  BY <1>1, <1>2

-----------------------------------------------------------------------------
(* The handlers of the samples *)

(* A handler that lost the sample keeps what the loop relies on. *)
LEMMA LostKeeps ==
  ASSUME Good(runtime), Sampling, Lost(runtime, runtime'), accepted_run' = 0,
         published' = Status(runtime'), pc' \in {"loop", "accel_event"},
         runtime'.state = "fault_retry" => pc' = "loop"
  PROVE  /\ Good(runtime') /\ StatusTypeOK' /\ PcInv' /\ PublishInv'
         /\ CalibrationUnbroken'
<1>1. Good(runtime') /\ runtime'.state \in {"calibrating", "running", "fault_retry"}
  BY DEF Lost, Sampling
<1>2. StatusTypeOK' /\ PublishInv'
  BY <1>1, StatusTypeFromGood DEF PublishInv
<1>3. PcInv' /\ CalibrationUnbroken'
  BY <1>1 DEF Lost, PcInv, CalibrationUnbroken, SamplePcs, ResyncPcs
<1> QED
  BY <1>1, <1>2, <1>3

(* A torn sample was overtaken by another one, which is signalled; the accel  *)
(* sample received with the gyro sample is handled next.                    *)
LEMMA GyroSignal ==
  ASSUME IInv, pc = "gyro_read", events' = events, received' = received,
         pc' = IF runtime'.state # "fault_retry" /\ "accel" \in received
               THEN "accel_event" ELSE "loop",
         \/ Torn("gyro") /\ unread' = unread
         \/ unread' = [unread EXCEPT !["gyro"] = 0]
  PROVE  SignalInv'
<1>1. unread' \in [Sensors -> Nat] /\ unread'["accel"] = unread["accel"]
  BY ImuAssumption DEF IInv, EventTypeOK, Sensors
<1>2. unread'["gyro"] # 0 => "gyro" \in events
  BY DEF IInv, EventTypeOK, SignalInv, WillBeTaken, Torn, Sensors
<1>3. unread["accel"] # 0 => "accel" \in events \/ "accel" \in received
  BY DEF IInv, SignalInv, WillBeTaken, Sensors
<1>4. CASE runtime'.state = "fault_retry"
  BY <1>4 DEF SignalInv, WillBeTaken
<1>5. CASE runtime'.state # "fault_retry"
  BY <1>1, <1>2, <1>3, <1>5 DEF SignalInv, WillBeTaken, Sensors
<1> QED
  BY <1>4, <1>5

(* process_gyro, the whole handler; only it begins to run, after a whole    *)
(* run of samples.                                                          *)
LEMMA ProcessGyroSteps ==
  ASSUME IInv, ProcessGyro
  PROVE  /\ IInv'
         /\ runtime.state # "running" /\ runtime'.state = "running"
              => accepted_run' = Calibration
<1>1. /\ pc = "gyro_read" /\ published' = Status(runtime')
      /\ pc' = IF runtime'.state # "fault_retry" /\ "accel" \in received
               THEN "accel_event" ELSE "loop"
      /\ UNCHANGED <<events, gyro_alive, received, before>>
  BY DEF ProcessGyro
<1>2. /\ Good(runtime) /\ Sampling /\ before \in 0 .. MaxUnread /\ before \in Nat
      /\ accepted_run \in 0 .. Calibration
  BY <1>1, ImuAssumption DEF IInv, PcInv, SamplePcs, Sampling, EventTypeOK
<1>3. PICK ok \in BOOLEAN, recent \in BOOLEAN, stationary \in BOOLEAN, dt \in DtActions :
        IF Torn("gyro") THEN TornGyro(ok)
        ELSE /\ ConsumeGyro(ok)
             /\ IF ok THEN GyroAccepted(dt, recent, stationary) ELSE GyroFailed(dt)
  BY DEF ProcessGyro
<1>4. CASE Torn("gyro")
  <2>1. TornGyro(ok)
    BY <1>3, <1>4
  <2>2. UNCHANGED <<unread, timeVars>> /\ accepted_run' = 0
    BY <2>1 DEF TornGyro
  <2>3. Lost(runtime, runtime')
    BY <1>2, <2>1, TornGyroLost
  <2>4. /\ Good(runtime') /\ StatusTypeOK' /\ PcInv' /\ PublishInv'
        /\ CalibrationUnbroken'
    BY <1>1, <1>2, <2>2, <2>3, LostKeeps
  <2>5. SignalInv'
    BY <1>1, <1>4, <2>2, GyroSignal
  <2>6. EventTypeOK' /\ TimeTypeOK'
    BY <1>1, <2>2, ImuAssumption DEF IInv, EventTypeOK, TimeTypeOK, timeVars
  <2> QED
    BY <2>3, <2>4, <2>5, <2>6 DEF IInv, Lost
<1>5. CASE ~Torn("gyro")
  <2>1. /\ unread' = [unread EXCEPT !["gyro"] = 0]
        /\ age' = [age EXCEPT !.baseline = age.latch,
                              !.last = IF ok /\ before > 0 THEN age.latch ELSE @]
        /\ UNCHANGED delta
    BY <1>3, <1>5 DEF ConsumeGyro
  <2>2. SignalInv'
    BY <1>1, <2>1, GyroSignal
  <2>3. unread' \in [Sensors -> 0 .. MaxUnread]
    BY <2>1, ImuAssumption DEF IInv, EventTypeOK, Sensors
  <2>4. TimeTypeOK'
    BY <2>1 DEF IInv, TimeTypeOK
  <2>5. CASE ok
    <3>1. InStep
      BY <1>2, <1>3, <1>5, <2>5, GyroAcceptedInStep DEF IInv
    <3>2. EventTypeOK'
      BY <1>1, <2>3, <3>1 DEF IInv, EventTypeOK, InStep
    <3>3. /\ Good(runtime') /\ StatusTypeOK' /\ PcInv' /\ PublishInv'
          /\ CalibrationUnbroken'
      <4>1. Good(runtime') /\ runtime'.state \in {"calibrating", "running"}
        BY <3>1 DEF InStep
      <4>2. StatusTypeOK' /\ PublishInv'
        BY <1>1, <4>1, StatusTypeFromGood DEF PublishInv
      <4>3. PcInv' /\ CalibrationUnbroken'
        BY <1>1, <3>1, <4>1 DEF PcInv, CalibrationUnbroken, InStep, SamplePcs, ResyncPcs
      <4> QED
        BY <4>1, <4>2, <4>3
    <3>4. runtime.state # "running" /\ runtime'.state = "running"
            => accepted_run' = Calibration
      BY <1>2, <3>1 DEF InStep, Sampling
    <3> QED
      BY <2>2, <2>4, <3>2, <3>3, <3>4 DEF IInv
  <2>6. CASE ~ok
    <3>1. GyroFailed(dt)
      BY <1>3, <1>5, <2>6
    <3>2. Lost(runtime, runtime') /\ accepted_run' = 0
      BY <1>2, <3>1, GyroFailedLost DEF GyroFailed
    <3>3. /\ Good(runtime') /\ StatusTypeOK' /\ PcInv' /\ PublishInv'
          /\ CalibrationUnbroken'
      BY <1>1, <1>2, <3>2, LostKeeps
    <3>4. EventTypeOK'
      BY <1>1, <2>3, <3>2, ImuAssumption DEF IInv, EventTypeOK
    <3> QED
      BY <2>2, <2>4, <3>2, <3>3, <3>4 DEF IInv, Lost
  <2> QED
    BY <2>5, <2>6
<1> QED
  BY <1>4, <1>5

(* process_accel, the whole handler, which never begins to run.             *)
LEMMA ProcessAccelSteps ==
  ASSUME IInv, ProcessAccel
  PROVE  /\ IInv'
         /\ runtime'.state = "running" => runtime.state = "running"
<1>1. /\ pc = "accel_read" /\ published' = Status(runtime') /\ pc' = "loop"
      /\ UNCHANGED <<events, gyro_alive, timeVars, received, before>>
  BY DEF ProcessAccel
<1>2. Good(runtime) /\ Sampling /\ accepted_run \in 0 .. Calibration
  BY <1>1 DEF IInv, PcInv, SamplePcs, Sampling, EventTypeOK
<1>3. PICK ok \in BOOLEAN :
        /\ IF Torn("accel") THEN TornAccel(ok)
           ELSE /\ unread' = [unread EXCEPT !["accel"] = 0]
                /\ IF ok THEN AccelAccepted ELSE AccelFailed
        /\ accepted_run' = IF Torn("accel") \/ ~ok \/ Overrun THEN 0
                           ELSE accepted_run
  BY DEF ProcessAccel
<1>4. SignalInv'
  <2>1. unread["gyro"] # 0 => "gyro" \in events
    BY <1>1 DEF IInv, SignalInv, WillBeTaken, Sensors
  <2>2. CASE Torn("accel")
    <3>1. unread' = unread /\ unread["accel"] # before
      BY <1>3, <2>2 DEF TornAccel, Torn
    <3> QED
      BY <1>1, <2>1, <3>1 DEF IInv, SignalInv, WillBeTaken, Sensors
  <2>3. CASE ~Torn("accel")
    <3>1. unread' = [unread EXCEPT !["accel"] = 0]
      BY <1>3, <2>3
    <3> QED
      BY <1>1, <2>1, <3>1 DEF IInv, EventTypeOK, SignalInv, Sensors
  <2> QED
    BY <2>2, <2>3
<1>5. EventTypeOK' /\ TimeTypeOK'
  <2>1. unread' \in [Sensors -> 0 .. MaxUnread]
    <3>1. unread' = unread \/ unread' = [unread EXCEPT !["accel"] = 0]
      BY <1>3 DEF TornAccel
    <3> QED
      BY <3>1, ImuAssumption DEF IInv, EventTypeOK
  <2>2. accepted_run' \in 0 .. Calibration
    BY <1>2, <1>3, ImuAssumption
  <2> QED
    BY <1>1, <2>1, <2>2 DEF IInv, EventTypeOK, TimeTypeOK, timeVars
<1>6. CASE Torn("accel") \/ ~ok
  <2>1. accepted_run' = 0
    BY <1>3, <1>6
  <2>2. Lost(runtime, runtime')
    BY <1>2, <1>3, <1>6, TornAccelLost, AccelFailedLost
  <2>3. /\ Good(runtime') /\ StatusTypeOK' /\ PcInv' /\ PublishInv'
        /\ CalibrationUnbroken'
    BY <1>1, <1>2, <2>1, <2>2, LostKeeps
  <2> QED
    BY <1>4, <1>5, <2>2, <2>3 DEF IInv, Lost
<1>7. CASE ~Torn("accel") /\ ok
  <2>1. AccelAccepted /\ accepted_run' = IF Overrun THEN 0 ELSE accepted_run
    BY <1>3, <1>7
  <2>2. /\ Good(runtime') /\ runtime'.state = runtime.state
        /\ Overrun /\ runtime.state = "calibrating" => runtime'.accepted = 0
        /\ ~Overrun => runtime'.accepted = runtime.accepted
    BY <1>2, <2>1, AccelAcceptedGood
  <2>3. StatusTypeOK' /\ PublishInv'
    BY <1>1, <2>2, StatusTypeFromGood DEF PublishInv
  <2>4. PcInv'
    BY <1>1 DEF PcInv, SamplePcs, ResyncPcs
  <2>5. CalibrationUnbroken'
    BY <2>1, <2>2 DEF IInv, CalibrationUnbroken
  <2> QED
    BY <1>4, <1>5, <2>2, <2>3, <2>4, <2>5 DEF IInv
<1> QED
  BY <1>6, <1>7

-----------------------------------------------------------------------------
(* A repeated notification *)

(* Less is counted, valid or running than before; an expiry stays. *)
NoGain(r, q) ==
  /\ q.accepted \in {0, r.accepted}
  /\ q.valid => r.valid
  /\ r.gyro_expired => q.gyro_expired
  /\ q.state = "running" => r.state = "running"

(* Two changes without gain have none together.                             *)
LEMMA NoGainTwice ==
  ASSUME NEW r, NEW s, NEW q, NoGain(r, s), NoGain(s, q)
  PROVE  NoGain(r, q)
  BY DEF NoGain

(* RestartCalibration takes samples away, and that is all.                  *)
LEMMA RestartNoGain ==
  ASSUME NEW r \in Runtime
  PROVE  RestartCalibration(r) \in Runtime /\ NoGain(r, RestartCalibration(r))
<1>1. CASE r.state = "calibrating"
  <2> DEFINE q == [r EXCEPT !.accepted = 0]
  <2>1. /\ q \in Runtime /\ q.state = r.state /\ q.valid = r.valid /\ q.accepted = 0
        /\ q.gyro_expired = r.gyro_expired
    BY DEF Runtime
  <2>2. RestartCalibration(r) = q
    BY <1>1 DEF RestartCalibration
  <2> HIDE DEF q
  <2>3. NoGain(r, q)
    BY <2>1 DEF NoGain
  <2> QED
    BY <2>1, <2>2, <2>3
<1>2. CASE r.state # "calibrating"
  BY <1>2 DEF RestartCalibration, NoGain
<1> QED
  BY <1>1, <1>2

(* A failed read gains nothing. *)
LEMMA FailureNoGain == ASSUME NEW r \in Runtime PROVE NoGain(r, ReadFailure(r))
<1> DEFINE s == RestartCalibration(r)
           q == [s EXCEPT !.failures = s.failures + 1]
           f == EnterFault(q)
<1>1. s \in Runtime /\ NoGain(r, s)
  BY RestartNoGain
<1> HIDE DEF s
<1>2. /\ q \in Runtime /\ q.state = s.state /\ q.valid = s.valid
      /\ q.accepted = s.accepted /\ q.gyro_expired = s.gyro_expired
  BY <1>1 DEF Runtime
<1>3. ReadFailure(r) = IF q.failures >= 3 THEN f ELSE q
  BY DEF ReadFailure, CountedFailure, q, s
<1> HIDE DEF q
<1>4. /\ f.state = "fault_retry" /\ f.valid = FALSE
      /\ f.accepted = q.accepted /\ f.gyro_expired = q.gyro_expired
  BY <1>2 DEF EnterFault, MahonyInvalidate, Runtime
<1> HIDE DEF f
<1>5. NoGain(r, q)
  BY <1>1, <1>2 DEF NoGain
<1>6. NoGain(r, f)
  <2>1. ~f.valid
    BY <1>4
  <2>2. r.gyro_expired => f.gyro_expired
    BY <1>1, <1>2, <1>4 DEF NoGain
  <2>3. f.accepted \in {0, r.accepted}
    BY <1>1, <1>2, <1>4 DEF NoGain
  <2> QED
    BY <1>4, <2>1, <2>2, <2>3 DEF NoGain
<1> QED
  BY <1>3, <1>5, <1>6

(* process_gyro: the notification of a sample already consumed *)
LEMMA RepeatNoGain ==
  ASSUME Good(runtime), Sampling, before = 0, ProcessGyro
  PROVE  NoGain(runtime, runtime')
<1>1. PICK ok \in BOOLEAN, recent \in BOOLEAN, stationary \in BOOLEAN, dt \in DtActions :
        IF Torn("gyro") THEN TornGyro(ok)
        ELSE /\ ConsumeGyro(ok)
             /\ IF ok THEN GyroAccepted(dt, recent, stationary) ELSE GyroFailed(dt)
  BY DEF ProcessGyro
<1>2. runtime \in Runtime /\ dt = "keep"
  BY DEF Good, DtActions
<1>3. CASE Torn("gyro")
  <2> DEFINE s == RestartCalibration(runtime)
             g == {"overrun", "timestamp_invalid"} \cup (IF ok THEN {} ELSE {"spi_error"})
             r == [s EXCEPT !.gyro_conditions = g]
  <2>1. s \in Runtime /\ NoGain(runtime, s)
    BY <1>2, RestartNoGain
  <2>2. g \in SUBSET Conditions
    BY DEF Conditions
  <2>3. runtime' = IF ok THEN r ELSE ReadFailure(r)
    BY <1>1, <1>3 DEF TornGyro
  <2> HIDE DEF s, g
  <2>4. /\ r \in Runtime /\ r.state = s.state /\ r.valid = s.valid
        /\ r.accepted = s.accepted /\ r.gyro_expired = s.gyro_expired
    BY <2>1, <2>2 DEF Runtime
  <2> HIDE DEF r
  <2>5. NoGain(runtime, r)
    BY <2>1, <2>4 DEF NoGain
  <2>6. NoGain(runtime, ReadFailure(r))
    BY <2>4, <2>5, FailureNoGain, NoGainTwice
  <2> QED
    BY <2>3, <2>5, <2>6
<1>4. CASE ~Torn("gyro") /\ ok
  <2> DEFINE had == runtime.gyro_baseline_valid
             g == GyroConditions(had, dt)
             new == IF before > 0 THEN AcceptNewGyro(runtime) ELSE runtime
             r == [new EXCEPT !.gyro_baseline_valid = TRUE, !.failures = 0,
                              !.gyro_conditions = g]
  <2>1. g \in SUBSET Conditions
    BY DEF GyroConditions, Conditions
  <2>2. IF r.state = "calibrating"
        THEN runtime' = CalibrationGyro(r, Admission(r, had, dt, recent), stationary)
        ELSE runtime' = RunningGyro(r, had, dt)
    BY <1>1, <1>4 DEF GyroAccepted
  <2> HIDE DEF g, had
  <2>3. new = runtime
    OBVIOUS
  <2> HIDE DEF new
  <2>4. /\ r \in Runtime /\ r.state = runtime.state /\ r.valid = runtime.valid
        /\ r.accepted = runtime.accepted /\ r.gyro_expired = runtime.gyro_expired
    BY <1>2, <2>1, <2>3 DEF Runtime
  <2> HIDE DEF r
  <2>5. runtime' = r \/ runtime' = [r EXCEPT !.accepted = 0]
    BY <1>2, <2>2 DEF CalibrationGyro, Admission, RunningGyro
  <2>6. NoGain(runtime, r)
    BY <2>4 DEF NoGain
  <2>7. ASSUME runtime' = [r EXCEPT !.accepted = 0] PROVE NoGain(runtime, runtime')
    <3>1. /\ runtime'.state = r.state /\ runtime'.valid = r.valid
          /\ runtime'.accepted = 0 /\ runtime'.gyro_expired = r.gyro_expired
      BY <2>4, <2>7 DEF Runtime
    <3> QED
      BY <2>4, <3>1 DEF NoGain
  <2> QED
    BY <2>5, <2>6, <2>7
<1>5. CASE ~Torn("gyro") /\ ~ok
  <2> DEFINE g == GyroConditions(runtime.gyro_baseline_valid, dt) \cup {"spi_error"}
             r == [runtime EXCEPT !.gyro_baseline_valid = TRUE, !.gyro_conditions = g]
  <2>1. g \in SUBSET Conditions
    BY DEF Conditions, GyroConditions
  <2>2. runtime' = ReadFailure(r)
    BY <1>1, <1>5 DEF GyroFailed
  <2> HIDE DEF g
  <2>3. /\ r \in Runtime /\ r.state = runtime.state /\ r.valid = runtime.valid
        /\ r.accepted = runtime.accepted /\ r.gyro_expired = runtime.gyro_expired
    BY <1>2, <2>1 DEF Runtime
  <2> HIDE DEF r
  <2>4. NoGain(runtime, r)
    BY <2>3 DEF NoGain
  <2> QED
    BY <2>2, <2>3, <2>4, FailureNoGain, NoGainTwice
<1> QED
  BY <1>3, <1>4, <1>5

-----------------------------------------------------------------------------

(* imu_thread_entry: the invariant holds before the loop.                   *)
LEMMA InitIInv == ASSUME Init PROVE IInv
<1> DEFINE r == InitialRuntime
<1>1. /\ r \in Runtime /\ r.state = "initializing" /\ r.accepted = 0
      /\ r.failures = 0 /\ r.gyro_expired = FALSE
  BY DEF InitialRuntime, Runtime, States, Conditions
<1>2. Good(r)
  <2>1. r.gyro_expired => ~r.valid
    BY <1>1
  <2> QED
    BY <1>1, <2>1, ImuAssumption DEF Good
<1> HIDE DEF r
<1>3. /\ runtime = r /\ published = Status(r)
  BY DEF Init, r
<1>4. EventTypeOK /\ TimeTypeOK
  <2>1. unread \in [Sensors -> 0 .. MaxUnread] /\ before \in 0 .. MaxUnread
    BY ImuAssumption DEF Init
  <2>2. age \in [{"last", "baseline", "latch"} -> 0 .. Expiry] /\ delta \in 0 .. Expiry
    BY ImuAssumption DEF Init
  <2>3. gyro_alive \in BOOLEAN
    BY DEF Init
  <2>4. accepted_run \in 0 .. Calibration /\ events \in SUBSET Sensors
        /\ received \in SUBSET Sensors
    BY ImuAssumption DEF Init
  <2> QED
    BY <2>1, <2>2, <2>3, <2>4 DEF EventTypeOK, TimeTypeOK
<1>5. StatusTypeOK
  BY <1>1, <1>3, StatusType DEF StatusTypeOK
<1>6. PcInv /\ SignalInv /\ PublishInv /\ CalibrationUnbroken
  BY <1>1, <1>3 DEF Init, PcInv, SignalInv, PublishInv, CalibrationUnbroken, SamplePcs,
     ResyncPcs
<1> QED
  BY <1>2, <1>3, <1>4, <1>5, <1>6 DEF IInv

(* Every step of the thread, the interrupt and the clock keeps the          *)
(* invariant.                                                               *)
LEMMA NextIInv == ASSUME IInv, [Next]_vars PROVE IInv'
<1>1. CASE Thread
  BY <1>1, HousekeepingIInv, InitIInvSteps, RetryIInv, ClearEventsIInv, TakeLatchIInv,
     ResyncedIInv, WaitIInv, BeginIInv, ProcessGyroSteps, ProcessAccelSteps
     DEF Thread, Resync
<1>2. CASE \E s \in Sensors : DataReady(s)
  BY <1>2, DataReadyIInv
<1>3. CASE GyroDies \/ Tick
  BY <1>3, ClockIInv
<1>4. CASE UNCHANGED vars
  BY <1>4 DEF vars, timeVars, IInv, EventTypeOK, TimeTypeOK, StatusTypeOK, PcInv,
     SignalInv, WillBeTaken, PublishInv, CalibrationUnbroken
<1> QED
  BY <1>1, <1>2, <1>3, <1>4 DEF Next

(* The invariant of the IMU thread is inductive.                            *)
THEOREM ImuInvariant == Spec => []IInv
<1>1. Init => IInv
  BY InitIInv
<1>2. IInv /\ [Next]_vars => IInv'
  BY NextIInv
<1> QED
  BY <1>1, <1>2, PTL DEF Spec

(* Type correctness: the counts of unread samples, failures and accepted    *)
(* samples keep their ranges.                                               *)
THEOREM ImuTypeOK == Spec => []TypeOK
<1>1. IInv => TypeOK
  <2> SUFFICES ASSUME IInv PROVE TypeOK
    OBVIOUS
  <2>1. RuntimeTypeOK
    BY ImuAssumption DEF IInv, Good, Runtime, States, RuntimeTypeOK
  <2> QED
    BY <2>1 DEF IInv, EventTypeOK, TimeTypeOK, StatusTypeOK, TypeOK
<1> QED
  BY <1>1, ImuInvariant, PTL

(* rt_event_recv never waits while a sample lies unread without its flag.   *)
THEOREM ImuNoLostSample == Spec => []NoLostSample
<1>1. IInv => NoLostSample
  BY DEF IInv, SignalInv, WillBeTaken, NoLostSample
<1> QED
  BY <1>1, ImuInvariant, PTL

(* Whenever the thread blocks, the published status is that of its state,   *)
(* although service_gyro_expiry publishes only when it has to.              *)
THEOREM ImuPublishedCurrent == Spec => []PublishedCurrent
<1>1. IInv => PublishedCurrent
  BY DEF IInv, PublishInv, PublishedCurrent, ResyncPcs
<1> QED
  BY <1>1, ImuInvariant, PTL

(* service_gyro_expiry can always expire a running estimate, and an         *)
(* expired one is invalid.                                                  *)
THEOREM ImuExpiryHolds == Spec => []ExpiryHolds
<1>1. IInv => RunningHasTimestamp /\ ExpiredMeansInvalid
  BY DEF IInv, Good, RunningHasTimestamp, ExpiredMeansInvalid
<1>2. TypeOK /\ RunningHasTimestamp /\ ExpiredMeansInvalid => ExpiryHolds
  BY DEF ExpiryHolds
<1> QED
  BY <1>1, <1>2, ImuInvariant, ImuTypeOK, PTL

(* The samples process_calibration_gyro counts are one documented run.      *)
THEOREM ImuCalibrationUnbroken == Spec => []CalibrationUnbroken
<1>1. IInv => CalibrationUnbroken
  BY DEF IInv
<1> QED
  BY <1>1, ImuInvariant, PTL

(* complete_calibration is reached only with the whole run behind it, and   *)
(* a repeated notification earns nothing.                                   *)
THEOREM ImuRunningIsEarned == Spec => RunningIsEarned
<1> DEFINE Calibrated == runtime.state # "running" /\ runtime'.state = "running"
                           => accepted_run' = Calibration
           Repeat == pc = "gyro_read" /\ before = 0 /\ pc' # "gyro_read"
<1>1. ASSUME IInv, [Next]_vars PROVE [Calibrated]_vars
  <2>1. CASE ProcessGyro
    BY <1>1, <2>1, ProcessGyroSteps
  <2>2. CASE ProcessAccel
    BY <1>1, <2>2, ProcessAccelSteps
  <2>3. CASE Housekeeping
    BY <1>1, <2>3, ExpireGood DEF IInv, Housekeeping
  <2>4. CASE InitFails \/ InitSucceeds
    <3>1. Good(runtime) /\ runtime.state = "initializing"
      BY <1>1, <2>4 DEF IInv, PcInv, InitFails, InitSucceeds
    <3>2. runtime'.state # "running"
      BY <2>4, <3>1, InitGood DEF InitSucceeds
    <3> QED
      BY <3>2
  <2>5. CASE Resynced
    <3>1. runtime'.state # "running"
      BY <1>1, <2>5 DEF Resynced, IInv, Good, Runtime
    <3> QED
      BY <3>1
  <2>6. CASE runtime' = runtime
    BY <2>6
  <2> QED
    BY <1>1, <2>1, <2>2, <2>3, <2>4, <2>5, <2>6
       DEF Next, Thread, Resync, RetryDelayOver, ClearEvents, TakeLatch, Receive,
           WaitTimesOut, BeginGyro, BeginAccel, ReadBefore, DataReady, GyroDies, Tick,
           vars
<1>2. ASSUME IInv, [Next]_vars PROVE [Repeat => NoGain(runtime, runtime')]_vars
  <2>1. CASE ProcessGyro
    <3>1. ASSUME Repeat PROVE Good(runtime) /\ Sampling
      BY <1>2, <3>1 DEF IInv, PcInv, SamplePcs, Sampling
    <3> QED
      BY <2>1, <3>1, RepeatNoGain
  <2>2. CASE pc # "gyro_read" \/ pc' = pc
    BY <2>2
  <2> QED
    BY <1>2, <2>1, <2>2
       DEF Next, Thread, Housekeeping, InitFails, InitSucceeds, Resync, Resynced,
           RetryDelayOver, ClearEvents, TakeLatch, Receive, WaitTimesOut, BeginGyro,
           BeginAccel, ReadBefore, ProcessAccel, DataReady, GyroDies, Tick, Sensors, vars
<1>3. ASSUME IInv, [Next]_vars
      PROVE [ /\ runtime.state # "running" /\ runtime'.state = "running"
                   => accepted_run' = Calibration
              /\ pc = "gyro_read" /\ before = 0 /\ pc' # "gyro_read"
                   => /\ runtime'.accepted \in {0, runtime.accepted}
                      /\ runtime'.valid => runtime.valid
                      /\ runtime.gyro_expired => runtime'.gyro_expired
                      /\ runtime'.state = "running" => runtime.state = "running" ]_vars
  BY <1>1, <1>2, <1>3 DEF NoGain
<1> QED
  BY <1>3, ImuInvariant, PTL DEF Spec, RunningIsEarned

=============================================================================
