----------------------------- MODULE SensorDriver -----------------------------
(***************************************************************************)
(* The BMI088 driver (modules/devices/bmi088/bmi088.c) over the SPI        *)
(* adapter (platform/devices/bmi088_stm32.c), called by the IMU thread:    *)
(* initialise, sample, initialise again after a fault.  The adapter stays  *)
(* initialised while that thread runs.                                     *)
(*                                                                         *)
(* SPI acknowledges nothing.  A transfer the HAL reports as failed may     *)
(* have reached the chip, one it reports as done may not, and a reply may  *)
(* be garbage; garbage is taken never to be the value that is expected.    *)
(* The chips are not disturbed between transactions.  Of a register only   *)
(* whether it holds its configured value is kept, and delays are left out: *)
(* a chip accessed too early is one that does not react.                   *)
(***************************************************************************)
EXTENDS Naturals, Sequences, FiniteSets

CONSTANTS
  Attempts,   \* BMI088_ATTEMPTS: 3
  AccelCount, \* entries of accel_config: 6
  GyroCount   \* entries of gyro_config: 5

ASSUME DriverAssumption ==
  {Attempts, AccelCount, GyroCount} \subseteq Nat \ {0}

Targets   == {"accel", "gyro"}
Registers == ({"accel"} \X (1 .. AccelCount)) \cup ({"gyro"} \X (1 .. GyroCount))

VARIABLES
  phase,      \* runtime.state; calibrating and running are "sampling"
  call,       \* the driver function the thread is in
  step,       \* of bmi088_init
  attempt,    \* attempts of the step that failed
  verifying,  \* write_and_verify is reading back
  mismatched, \* its local
  identified, \* the chips whose ID was found to be right
  init_result, \* of the last bmi088_init
  faults,     \* transactions of it that went wrong, up to Attempts
  bus,        \* where bus_read or bus_write is
  outcome,    \* of the transfer
  selected,   \* the chips whose select line is low
  fitted,     \* the chips on the board that are the right ones
  configured  \* the registers that hold their configured value

driver  == <<step, attempt, verifying, mismatched, identified>>
service == <<phase, call, init_result>>
chips   == <<selected, fitted, configured>>
driverVars == <<service, driver, faults, bus, outcome, chips>>

-----------------------------------------------------------------------------
(* The operations of bmi088_init, in order. *)

Op(kind, target) == [kind |-> kind, target |-> target, reg |-> <<target, 0>>]

ConfigOp(t, i) == [kind |-> "config", target |-> t, reg |-> <<t, i>>]

Preamble ==
  << Op("wake", "accel"), Op("reset", "accel"), Op("reset", "gyro"),
     Op("id", "accel"), Op("id", "gyro") >>

LastStep == 5 + AccelCount + GyroCount

InitStep(n) ==
  CASE n <= 5              -> Preamble[n]
    [] n \in 6 .. 5 + AccelCount -> ConfigOp("accel", n - 5)
    [] OTHER               -> ConfigOp("gyro", n - 5 - AccelCount)

Current == IF call = "init" THEN InitStep(step) ELSE Op("sample", call)

Configuring == Current.kind = "config"

Writing == Current.kind = "reset" \/ (Configuring /\ ~verifying)

-----------------------------------------------------------------------------
(* bus_read and bus_write *)

Select ==
  /\ call # "none" /\ bus = "idle"
  /\ selected' = selected \cup {Current.target}
  /\ bus' = "selected"
  /\ UNCHANGED <<service, driver, faults, outcome, fitted, configured>>

CountFault(wrong) ==
  faults' = IF wrong /\ call = "init" /\ faults < Attempts THEN faults + 1 ELSE faults

(* Every selected chip takes what is written. *)
Written ==
  IF Configuring THEN configured \cup {Current.reg}
  ELSE {r \in configured : r[1] \notin selected}

WriteTransfer ==
  /\ bus = "selected" /\ Writing
  /\ \E ok, taken \in BOOLEAN :
       /\ outcome' = IF ok THEN "done" ELSE "failed"
       /\ configured' = IF taken THEN Written ELSE configured
       /\ CountFault(~ok \/ ~taken)
  /\ bus' = "over"
  /\ UNCHANGED <<service, driver, selected, fitted>>

(* What the chip would answer if all went well. *)
Expected ==
  /\ Configuring => Current.reg \in configured
  /\ Current.kind = "id" => Current.target \in fitted

ReadTransfer ==
  /\ bus = "selected" /\ ~Writing
  /\ \E o \in {"failed", "expected", "other"} :
       /\ o = "expected" => Expected /\ selected = {Current.target}
       /\ outcome' = o
       /\ CountFault(o = "failed" \/ (o = "other" /\ Expected))
  /\ bus' = "over"
  /\ UNCHANGED <<service, driver, chips>>

(* Faulty form: a transfer that failed leaves the chip selected. *)
DeselectOnSuccess ==
  /\ bus = "over"
  /\ selected' = IF outcome = "failed" THEN selected ELSE selected \ {Current.target}
  /\ bus' = "returned"
  /\ UNCHANGED <<service, driver, faults, outcome, fitted, configured>>

Deselect ==
  /\ bus = "over"
  /\ selected' = selected \ {Current.target}
  /\ bus' = "returned"
  /\ UNCHANGED <<service, driver, faults, outcome, fitted, configured>>

-----------------------------------------------------------------------------
(* read_retry, write_retry and write_and_verify *)

(* Faulty form: the value read back is not compared. *)
FailedOnBusOnly == bus = "returned" /\ outcome = "failed"

Failed ==
  /\ bus = "returned"
  /\ outcome = "failed" \/ (Configuring /\ outcome = "other")

Succeeded == bus = "returned" /\ ~Failed

(* Faulty form: one attempt less. *)
AttemptsLeftEarly == attempt + 2 < Attempts

AttemptsLeft == attempt + 1 < Attempts

ReadBack ==
  /\ Succeeded /\ Configuring /\ ~verifying
  /\ verifying' = TRUE
  /\ bus' = "idle"
  /\ UNCHANGED <<service, step, attempt, mismatched, identified, faults, outcome, chips>>

(* Faulty form: an attempt whose value differs is not counted. *)
RetryUncounted ==
  /\ Failed /\ AttemptsLeft
  /\ attempt' = IF outcome = "failed" THEN attempt + 1 ELSE attempt
  /\ verifying' = FALSE
  /\ mismatched' = (mismatched \/ outcome = "other")
  /\ bus' = "idle"
  /\ UNCHANGED <<service, step, identified, faults, outcome, chips>>

(* Faulty form: one attempt more. *)
RetryOnceMore ==
  /\ Failed /\ attempt < Attempts
  /\ attempt' = attempt + 1
  /\ verifying' = FALSE
  /\ mismatched' = (mismatched \/ outcome = "other")
  /\ bus' = "idle"
  /\ UNCHANGED <<service, step, identified, faults, outcome, chips>>

Retry ==
  /\ Failed /\ AttemptsLeft
  /\ attempt' = attempt + 1
  /\ verifying' = FALSE
  /\ mismatched' = (mismatched \/ outcome = "other")
  /\ bus' = "idle"
  /\ UNCHANGED <<service, step, identified, faults, outcome, chips>>

-----------------------------------------------------------------------------
(* bmi088_init under initialize_sensor: the sensor is sampled if the result  *)
(* is BMI088_OK, and is a fault otherwise.                                  *)

InitCalled ==
  /\ phase = "initializing" /\ call = "none"
  /\ call' = "init"
  /\ step' = 1 /\ attempt' = 0 /\ verifying' = FALSE /\ mismatched' = FALSE
  /\ identified' = {}
  /\ init_result' = "none"
  /\ faults' = 0
  /\ UNCHANGED <<phase, bus, outcome, chips>>

InitReturns(r) ==
  /\ init_result' = r
  /\ phase' = IF r = "ok" THEN "sampling" ELSE "fault_retry"
  /\ call' = "none" /\ bus' = "idle"

StepFails ==
  /\ call = "init" /\ Failed /\ ~AttemptsLeft
  /\ InitReturns(IF mismatched \/ outcome = "other" THEN "verify_error" ELSE "bus_error")
  /\ UNCHANGED <<driver, faults, outcome, chips>>

Recognised ==
  IF Current.kind = "id" /\ outcome = "expected" THEN identified \cup {Current.target}
  ELSE identified

(* An unexpected ID is not read again; both are compared at the end. *)
WrongId ==
  /\ call = "init" /\ Succeeded /\ step = 5
  /\ Recognised # Targets
  /\ InitReturns("bad_id")
  /\ UNCHANGED <<driver, faults, outcome, chips>>

StepDone == call = "init" /\ Succeeded /\ (Configuring => verifying)

StepSucceeds ==
  /\ StepDone /\ step < LastStep
  /\ step = 5 => Recognised = Targets
  /\ identified' = Recognised
  /\ step' = step + 1 /\ attempt' = 0 /\ verifying' = FALSE /\ mismatched' = FALSE
  /\ bus' = "idle"
  /\ UNCHANGED <<service, faults, outcome, chips>>

InitSucceeds ==
  /\ StepDone /\ step = LastStep
  /\ InitReturns("ok")
  /\ UNCHANGED <<driver, faults, outcome, chips>>

-----------------------------------------------------------------------------
(* read_sample under process_accel and process_gyro, and the fault's end.    *)

SampleCalled ==
  /\ phase = "sampling" /\ call = "none"
  /\ call' \in Targets
  /\ attempt' = 0
  /\ UNCHANGED <<phase, init_result, step, verifying, mismatched, identified,
                 faults, bus, outcome, chips>>

SampleRead ==
  /\ call \in Targets /\ Succeeded
  /\ call' = "none" /\ bus' = "idle"
  /\ UNCHANGED <<phase, init_result, driver, faults, outcome, chips>>

(* Whether this is the third failure in a row is counted in ImuService. *)
SampleFails ==
  /\ call \in Targets /\ Failed /\ ~AttemptsLeft
  /\ phase' \in {"sampling", "fault_retry"}
  /\ call' = "none" /\ bus' = "idle"
  /\ UNCHANGED <<init_result, driver, faults, outcome, chips>>

FaultOver ==
  /\ phase = "fault_retry"
  /\ phase' = "initializing"
  /\ UNCHANGED <<call, init_result, driver, faults, bus, outcome, chips>>

-----------------------------------------------------------------------------

DriverStart ==
  /\ phase = "initializing" /\ call = "none" /\ init_result = "none"
  /\ step = 1 /\ attempt = 0 /\ verifying = FALSE /\ mismatched = FALSE
  /\ identified = {}
  /\ faults = 0
  /\ bus = "idle" /\ outcome = "done"
  /\ selected = {}
  /\ fitted \in SUBSET Targets
  /\ configured \in {{}, Registers}

Transaction == Select \/ WriteTransfer \/ ReadTransfer \/ Deselect

Driver ==
  \/ ReadBack \/ Retry
  \/ InitCalled \/ StepFails \/ WrongId \/ StepSucceeds \/ InitSucceeds
  \/ SampleCalled \/ SampleRead \/ SampleFails

DriverNext == Transaction \/ Driver \/ FaultOver

DriverSpec == DriverStart /\ [][DriverNext]_driverVars

(* Every step is a step of the IMU thread, the most urgent one, and every    *)
(* SPI transfer ends by itself or by its timeout.                           *)
DriverFairSpec == DriverSpec /\ WF_driverVars(DriverNext)
-----------------------------------------------------------------------------
(* Properties *)

DriverTypes ==
  /\ phase \in {"initializing", "sampling", "fault_retry"}
  /\ call \in {"none", "init"} \cup Targets
  /\ init_result \in {"none", "ok", "bus_error", "verify_error", "bad_id"}
  /\ step \in 1 .. LastStep
  /\ attempt \in 0 .. Attempts - 1
  /\ verifying \in BOOLEAN /\ mismatched \in BOOLEAN
  /\ identified \in SUBSET Targets
  /\ faults \in 0 .. Attempts
  /\ bus \in {"idle", "selected", "over", "returned"}
  /\ outcome \in {"done", "failed", "expected", "other"}
  /\ selected \in SUBSET Targets
  /\ fitted \in SUBSET Targets
  /\ configured \in SUBSET Registers

(* Samples are taken only from two identified sensors of which every         *)
(* register holds its configured value, whatever failed before, also when    *)
(* an earlier initialisation stopped half way (bmi088_init, 203-230).        *)
SampleFromConfigured ==
  phase = "sampling" => configured = Registers /\ fitted = Targets

(* The chips share the bus: no transfer is made with a chip selected that it *)
(* is not meant for, also after a transfer that failed (127-137, 161-163).   *)
OneChipSelected ==
  /\ bus \in {"selected", "over"} => selected = {Current.target}
  /\ bus \in {"idle", "returned"} => selected = {}

(* An initialisation is given up for a reason: fewer bad transactions than   *)
(* there are attempts never make it fail, and an ID is only rejected when a  *)
(* chip is wrong or a transaction was.                                      *)
FailureHasCause ==
  /\ init_result \in {"bus_error", "verify_error"} => faults = Attempts
  /\ init_result = "bad_id" => faults > 0 \/ fitted # Targets

(* However the bus behaves, bmi088_init returns: no retry is endless. *)
InitTerminates == call = "init" ~> call # "init"
=============================================================================
