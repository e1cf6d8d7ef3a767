-------------------------- MODULE SensorDriverProofs --------------------------
(***************************************************************************)
(* For any number of attempts and of registers: only fully configured      *)
(* sensors are sampled, one chip is selected at a time, and an             *)
(* initialisation fails only for a reason.  For any axes, signs and bytes: *)
(* the axis maps accepted are the rotations, and saturation is reported.   *)
(***************************************************************************)
EXTENDS MCSensorDriver, FiniteSetTheorems, TLAPS

-----------------------------------------------------------------------------
(* The inductive invariant *)

(* Who calls the driver, and that nobody leaves it inside a transaction. *)
CallInv ==
  /\ call = "init" => phase = "initializing" /\ init_result = "none"
  /\ call \in Targets => phase = "sampling"
  /\ call = "none" => bus = "idle"
  /\ call = "init" /\ verifying => Configuring

(* What a transfer returned is what the chip had to say. *)
ReplyInv ==
  bus \in {"over", "returned"} =>
    /\ Writing => outcome \in {"done", "failed"}
    /\ ~Writing => outcome \in {"failed", "expected", "other"}
    /\ outcome = "expected" => Expected

(* The steps that are over: both IDs were right, and every register written  *)
(* so far holds its value.                                                  *)
ProgressInv ==
  /\ identified \subseteq fitted
  /\ call = "init" /\ step > 5 => identified = Targets
  /\ call = "init" =>
       \A n \in 6 .. LastStep : n < step => InitStep(n).reg \in configured

(* Each attempt that failed, or that is bound to, has cost a fault. *)
Doomed ==
  \/ bus \in {"over", "returned"} /\ outcome = "failed"
  \/ bus \in {"over", "returned"} /\ Configuring /\ outcome = "other"
  \/ Configuring /\ verifying /\ Current.reg \notin configured
  \/ Configuring /\ ~verifying /\ bus \in {"over", "returned"}
       /\ Current.reg \notin configured

FaultInv ==
  call = "init" =>
    /\ faults >= attempt
    /\ Doomed => faults > attempt
    /\ Current.kind = "id" /\ Current.target \in fitted
         /\ bus \in {"over", "returned"} /\ outcome = "other" => faults > 0
    /\ step = 5 /\ "accel" \in fitted /\ "accel" \notin identified => faults > 0

IInv ==
  /\ DriverTypes /\ CallInv /\ OneChipSelected /\ ReplyInv /\ ProgressInv /\ FaultInv
  /\ SampleFromConfigured /\ FailureHasCause

-----------------------------------------------------------------------------
(* The steps of bmi088_init *)

LEMMA CountsAreNat ==
  /\ AccelCount \in Nat /\ GyroCount \in Nat /\ Attempts \in Nat
  /\ AccelCount > 0 /\ GyroCount > 0 /\ Attempts > 0
  /\ LastStep \in Nat /\ LastStep > 5
  BY DriverAssumption DEF LastStep

(* What each of the first five operations is, and that the others write      *)
(* configuration registers.                                                 *)
LEMMA StepFacts ==
  ASSUME NEW n \in 1 .. LastStep
  PROVE  /\ InitStep(n).target \in Targets
         /\ InitStep(n).kind = "config" <=> n > 5
         /\ InitStep(n).kind = "reset" <=> n \in {2, 3}
         /\ InitStep(n).kind = "id" <=> n \in {4, 5}
         /\ InitStep(n).kind # "sample"
         /\ n = 4 => InitStep(n).target = "accel"
         /\ n = 5 => InitStep(n).target = "gyro"
         /\ n > 5 => InitStep(n).reg \in Registers
<1>1. CASE n <= 5
  <2>1. n \in {1, 2, 3, 4, 5}
    BY <1>1, CountsAreNat
  <2>2. InitStep(n) = Preamble[n]
    BY <1>1 DEF InitStep
  <2>3. /\ Preamble[1] = Op("wake", "accel") /\ Preamble[2] = Op("reset", "accel")
        /\ Preamble[3] = Op("reset", "gyro") /\ Preamble[4] = Op("id", "accel")
        /\ Preamble[5] = Op("id", "gyro")
    BY DEF Preamble
  <2> QED
    BY <1>1, <2>1, <2>2, <2>3 DEF Op, Targets
<1>2. CASE n \in 6 .. 5 + AccelCount
  <2>1. InitStep(n) = ConfigOp("accel", n - 5)
    BY <1>2, CountsAreNat DEF InitStep
  <2>2. n - 5 \in 1 .. AccelCount /\ n > 5
    BY <1>2, CountsAreNat
  <2> QED
    BY <2>1, <2>2 DEF ConfigOp, Targets, Registers
<1>3. CASE ~(n <= 5) /\ n \notin 6 .. 5 + AccelCount
  <2>1. InitStep(n) = ConfigOp("gyro", n - 5 - AccelCount)
    BY <1>3, CountsAreNat DEF InitStep
  <2>2. n - 5 - AccelCount \in 1 .. GyroCount /\ n > 5
    BY <1>3, CountsAreNat DEF LastStep
  <2> QED
    BY <2>1, <2>2 DEF ConfigOp, Targets, Registers
<1> QED
  BY <1>1, <1>2, <1>3

(* Every register is written by some step. *)
LEMMA EveryRegisterHasAStep ==
  ASSUME NEW r \in Registers
  PROVE  \E n \in 6 .. LastStep : InitStep(n).reg = r
<1>1. CASE r \in {"accel"} \X (1 .. AccelCount)
  <2>1. PICK i \in 1 .. AccelCount : r = <<"accel", i>>
    BY <1>1
  <2>2. 5 + i \in 6 .. 5 + AccelCount /\ 5 + i \in 6 .. LastStep /\ 5 + i - 5 = i
    BY CountsAreNat DEF LastStep
  <2>3. InitStep(5 + i) = ConfigOp("accel", i)
    BY <2>2, CountsAreNat DEF InitStep
  <2> QED
    BY <2>1, <2>2, <2>3 DEF ConfigOp
<1>2. CASE r \in {"gyro"} \X (1 .. GyroCount)
  <2>1. PICK i \in 1 .. GyroCount : r = <<"gyro", i>>
    BY <1>2
  <2> DEFINE n == 5 + AccelCount + i
  <2>2. /\ n \in 6 .. LastStep /\ n \notin 6 .. 5 + AccelCount /\ ~(n <= 5)
        /\ n - 5 - AccelCount = i
    BY CountsAreNat DEF LastStep
  <2> HIDE DEF n
  <2>3. InitStep(n) = ConfigOp("gyro", i)
    BY <2>2, CountsAreNat DEF InitStep
  <2> QED
    BY <2>1, <2>2, <2>3 DEF ConfigOp
<1> QED
  BY <1>1, <1>2 DEF Registers

(* The operation in progress, as the state sees it. *)
LEMMA CurrentFacts ==
  ASSUME DriverTypes, call # "none"
  PROVE  /\ Current.target \in Targets
         /\ Configuring <=> call = "init" /\ step > 5
         /\ Configuring => Current.reg \in Registers
         /\ Current.kind = "reset" <=> call = "init" /\ step \in {2, 3}
         /\ Current.kind = "id" <=> call = "init" /\ step \in {4, 5}
         /\ call = "init" /\ step = 4 => Current.target = "accel"
         /\ call = "init" /\ step = 5 => Current.target = "gyro"
<1>1. CASE call = "init"
  BY <1>1, StepFacts DEF DriverTypes, Current, Configuring
<1>2. CASE call \in Targets
  BY <1>2 DEF DriverTypes, Current, Configuring, Op, Targets
<1> QED
  BY <1>1, <1>2 DEF DriverTypes

-----------------------------------------------------------------------------

LEMMA InitIInv == DriverStart => IInv
<1> SUFFICES ASSUME DriverStart PROVE IInv
  OBVIOUS
<1>1. DriverTypes
  <2>1. 1 \in 1 .. LastStep /\ 0 \in 0 .. Attempts - 1 /\ 0 \in 0 .. Attempts
    BY CountsAreNat
  <2>2. configured \in SUBSET Registers /\ identified \in SUBSET Targets
        /\ selected \in SUBSET Targets
    BY DEF DriverStart
  <2> QED
    BY <2>1, <2>2 DEF DriverStart, DriverTypes
<1>2. CallInv /\ OneChipSelected /\ ReplyInv /\ ProgressInv /\ FaultInv
  BY DEF DriverStart, CallInv, OneChipSelected, ReplyInv, ProgressInv, FaultInv, Targets
<1>3. SampleFromConfigured /\ FailureHasCause
  BY DEF DriverStart, SampleFromConfigured, FailureHasCause
<1> QED
  BY <1>1, <1>2, <1>3 DEF IInv

-----------------------------------------------------------------------------
(* The steps of a transaction leave the driver where it is. *)

LEMMA SameOperation ==
  ASSUME UNCHANGED <<call, step>>
  PROVE  Current' = Current /\ (Configuring' <=> Configuring)
  BY DEF Current, Configuring


LEMMA SelectKeepsIInv == IInv /\ Select => IInv'
<1> SUFFICES ASSUME IInv, Select PROVE IInv'
  OBVIOUS
<1>1. Current' = Current /\ (Configuring' <=> Configuring) /\ Current.target \in Targets
  BY SameOperation, CurrentFacts DEF Select, IInv, service, driver
<1>2. (Writing' <=> Writing) /\ Expected' = Expected
  BY <1>1 DEF Select, Writing, Expected, driver, Configuring
<1>3. DriverTypes'
  BY <1>1 DEF Select, IInv, DriverTypes, service, driver
<1>4. CallInv' /\ ReplyInv' /\ ProgressInv'
  BY <1>1 DEF Select, IInv, CallInv, ReplyInv, ProgressInv, service, driver
<1>5. OneChipSelected'
  BY <1>1 DEF Select, IInv, OneChipSelected, DriverTypes
<1>6. FaultInv'
  BY <1>1 DEF Select, IInv, FaultInv, Doomed, service, driver
<1>7. SampleFromConfigured' /\ FailureHasCause'
  BY DEF Select, IInv, SampleFromConfigured, FailureHasCause, service
<1> QED
  BY <1>3, <1>4, <1>5, <1>6, <1>7 DEF IInv

LEMMA WriteTransferKeepsIInv == IInv /\ WriteTransfer => IInv'
<1> SUFFICES ASSUME IInv, WriteTransfer PROVE IInv'
  OBVIOUS
<1> PICK ok \in BOOLEAN, taken \in BOOLEAN :
      /\ outcome' = IF ok THEN "done" ELSE "failed"
      /\ configured' = IF taken THEN Written ELSE configured
      /\ CountFault(~ok \/ ~taken)
  BY DEF WriteTransfer
<1>a. call = "init"
  BY CurrentFacts DEF WriteTransfer, Writing, IInv, DriverTypes, CallInv
<1>1. Current' = Current /\ (Configuring' <=> Configuring)
  BY SameOperation DEF WriteTransfer, service, driver
<1>2. Writing /\ Writing'
  BY <1>1 DEF WriteTransfer, Writing, driver
<1>3. /\ Configuring => configured' \subseteq configured \cup {Current.reg}
      /\ Configuring => configured \subseteq configured'
      /\ ~Configuring => configured' \subseteq configured
      /\ Configuring /\ taken => Current.reg \in configured'
  BY DEF Written
<1>4. DriverTypes'
  BY <1>3, <1>a, CurrentFacts, CountsAreNat DEF WriteTransfer, IInv, DriverTypes,
    service, driver, CountFault
<1>5. CallInv' /\ ReplyInv' /\ OneChipSelected'
  BY <1>1, <1>2 DEF WriteTransfer, IInv, CallInv, ReplyInv, OneChipSelected,
    service, driver
<1>6. ProgressInv'
  BY <1>3, CurrentFacts DEF WriteTransfer, IInv, ProgressInv, service, driver,
    Writing
<1>7. FaultInv'
  BY <1>1, <1>3, CountsAreNat DEF WriteTransfer, IInv, DriverTypes, FaultInv, Doomed,
    CountFault, service, driver
<1>8. SampleFromConfigured' /\ FailureHasCause'
  BY <1>a DEF WriteTransfer, IInv, CallInv, SampleFromConfigured, FailureHasCause,
    service
<1> QED
  BY <1>4, <1>5, <1>6, <1>7, <1>8 DEF IInv

LEMMA ReadTransferKeepsIInv == IInv /\ ReadTransfer => IInv'
<1> SUFFICES ASSUME IInv, ReadTransfer PROVE IInv'
  OBVIOUS
<1> PICK o \in {"failed", "expected", "other"} :
      /\ o = "expected" => Expected /\ selected = {Current.target}
      /\ outcome' = o
      /\ CountFault(o = "failed" \/ (o = "other" /\ Expected))
  BY DEF ReadTransfer
<1>a. call # "none"
  BY DEF ReadTransfer, IInv, CallInv
<1>1. Current' = Current /\ (Configuring' <=> Configuring)
  BY SameOperation DEF ReadTransfer, service, driver
<1>2. ~Writing /\ ~Writing' /\ (Expected' <=> Expected)
  BY <1>1 DEF ReadTransfer, Writing, Expected, driver, chips
<1>4. DriverTypes'
  BY CountsAreNat DEF ReadTransfer, IInv, DriverTypes, service, driver, chips, CountFault
<1>5. CallInv' /\ ReplyInv' /\ OneChipSelected'
  BY <1>1, <1>2 DEF ReadTransfer, IInv, CallInv, ReplyInv, OneChipSelected, service,
    driver, chips
<1>6. ProgressInv'
  BY DEF ReadTransfer, IInv, ProgressInv, service, driver, chips
<1>7. FaultInv'
  BY <1>1, CurrentFacts, CountsAreNat DEF ReadTransfer, IInv, DriverTypes, FaultInv,
    Doomed, CountFault, service, driver, chips, Writing, Expected
<1>8. SampleFromConfigured' /\ FailureHasCause'
  BY DEF ReadTransfer, IInv, DriverTypes, SampleFromConfigured, FailureHasCause, service,
    chips, CountFault
<1> QED
  BY <1>4, <1>5, <1>6, <1>7, <1>8 DEF IInv

LEMMA DeselectKeepsIInv == IInv /\ Deselect => IInv'
<1> SUFFICES ASSUME IInv, Deselect PROVE IInv'
  OBVIOUS
<1>1. Current' = Current /\ (Configuring' <=> Configuring)
  BY SameOperation DEF Deselect, service, driver
<1>3. DriverTypes'
  BY DEF Deselect, IInv, DriverTypes, service, driver
<1>4. CallInv' /\ OneChipSelected'
  BY <1>1 DEF Deselect, IInv, CallInv, OneChipSelected, service, driver
<1>5. ReplyInv' /\ ProgressInv'
  BY <1>1 DEF Deselect, IInv, ReplyInv, ProgressInv, Writing, Expected, service,
    driver
<1>6. FaultInv'
  BY <1>1 DEF Deselect, IInv, FaultInv, Doomed, service, driver
<1>7. SampleFromConfigured' /\ FailureHasCause'
  BY DEF Deselect, IInv, SampleFromConfigured, FailureHasCause, service
<1> QED
  BY <1>3, <1>4, <1>5, <1>6, <1>7 DEF IInv

LEMMA ReadBackKeepsIInv == IInv /\ ReadBack => IInv'
<1> SUFFICES ASSUME IInv, ReadBack PROVE IInv'
  OBVIOUS
<1>1. Current' = Current /\ (Configuring' <=> Configuring)
  BY SameOperation DEF ReadBack, service, driver
<1>3. DriverTypes'
  BY DEF ReadBack, IInv, DriverTypes, service, chips
<1>4. CallInv' /\ OneChipSelected'
  BY <1>1 DEF ReadBack, IInv, CallInv, OneChipSelected, Succeeded, service, chips
<1>5. ReplyInv' /\ ProgressInv'
  BY DEF ReadBack, IInv, ReplyInv, ProgressInv, service, chips
<1>6. FaultInv'
  BY <1>1 DEF ReadBack, IInv, FaultInv, Doomed, Succeeded, service, chips
<1>7. SampleFromConfigured' /\ FailureHasCause'
  BY DEF ReadBack, IInv, SampleFromConfigured, FailureHasCause, service, chips
<1> QED
  BY <1>3, <1>4, <1>5, <1>6, <1>7 DEF IInv

LEMMA RetryKeepsIInv == IInv /\ Retry => IInv'
<1> SUFFICES ASSUME IInv, Retry PROVE IInv'
  OBVIOUS
<1>1. Current' = Current /\ (Configuring' <=> Configuring)
  BY SameOperation DEF Retry, service, driver
<1>2. attempt' \in 0 .. Attempts - 1
  BY CountsAreNat DEF Retry, AttemptsLeft, IInv, DriverTypes
<1>2b. mismatched' \in BOOLEAN /\ verifying' \in BOOLEAN
  BY Zenon DEF Retry
<1>3. DriverTypes'
  BY <1>2, <1>2b DEF Retry, IInv, DriverTypes, service, chips
<1>4. CallInv' /\ OneChipSelected'
  BY DEF Retry, IInv, CallInv, OneChipSelected, Failed, service, chips
<1>5. ReplyInv' /\ ProgressInv'
  BY DEF Retry, IInv, ReplyInv, ProgressInv, service, chips
<1>6. FaultInv'
  BY DEF Retry, IInv, DriverTypes, FaultInv, Doomed, Failed, service
<1>7. SampleFromConfigured' /\ FailureHasCause'
  BY DEF Retry, IInv, SampleFromConfigured, FailureHasCause, service, chips
<1> QED
  BY <1>3, <1>4, <1>5, <1>6, <1>7 DEF IInv

LEMMA InitCalledKeepsIInv == IInv /\ InitCalled => IInv'
<1> SUFFICES ASSUME IInv, InitCalled PROVE IInv'
  OBVIOUS
<1>2. 1 \in 1 .. LastStep /\ 0 \in 0 .. Attempts - 1 /\ 0 \in 0 .. Attempts
  BY CountsAreNat
<1>3. DriverTypes'
  BY <1>2 DEF InitCalled, IInv, DriverTypes, chips
<1>4. CallInv' /\ OneChipSelected'
  BY DEF InitCalled, IInv, CallInv, OneChipSelected, chips, Targets
<1>5. ReplyInv' /\ ProgressInv'
  BY DEF InitCalled, IInv, CallInv, ReplyInv, ProgressInv
<1>6. FaultInv'
  BY DEF InitCalled, IInv, CallInv, FaultInv, Doomed
<1>7. SampleFromConfigured' /\ FailureHasCause'
  BY DEF InitCalled, IInv, SampleFromConfigured, FailureHasCause
<1> QED
  BY <1>3, <1>4, <1>5, <1>6, <1>7 DEF IInv

LEMMA StepFailsKeepsIInv == IInv /\ StepFails => IInv'
<1> SUFFICES ASSUME IInv, StepFails PROVE IInv'
  OBVIOUS
<1>3. DriverTypes'
  BY DEF StepFails, IInv, DriverTypes, InitReturns, driver, chips
<1>4. CallInv' /\ OneChipSelected'
  BY DEF StepFails, IInv, CallInv, OneChipSelected, InitReturns, Failed, chips,
    Targets
<1>5. ReplyInv' /\ ProgressInv'
  BY DEF StepFails, IInv, ReplyInv, ProgressInv, InitReturns, driver, chips
<1>6. FaultInv'
  BY DEF StepFails, IInv, FaultInv, InitReturns
<1>7. SampleFromConfigured' /\ FailureHasCause'
  BY CountsAreNat DEF StepFails, IInv, DriverTypes, FaultInv, Doomed,
    SampleFromConfigured, FailureHasCause, InitReturns, Failed, AttemptsLeft
<1> QED
  BY <1>3, <1>4, <1>5, <1>6, <1>7 DEF IInv

LEMMA WrongIdKeepsIInv == IInv /\ WrongId => IInv'
<1> SUFFICES ASSUME IInv, WrongId PROVE IInv'
  OBVIOUS
<1>3. DriverTypes'
  BY DEF WrongId, IInv, DriverTypes, InitReturns, driver, chips
<1>4. CallInv' /\ OneChipSelected'
  BY DEF WrongId, IInv, CallInv, OneChipSelected, InitReturns, Succeeded, chips,
    Targets
<1>5. ReplyInv' /\ ProgressInv'
  BY DEF WrongId, IInv, ReplyInv, ProgressInv, InitReturns, driver, chips
<1>6. FaultInv'
  BY DEF WrongId, IInv, FaultInv, InitReturns
<1>7. SampleFromConfigured' /\ FailureHasCause'
  BY CurrentFacts DEF WrongId, IInv, ReplyInv, ProgressInv, FaultInv,
    SampleFromConfigured, FailureHasCause, InitReturns, Failed, Succeeded,
    Recognised, Writing, chips, Targets
<1> QED
  BY <1>3, <1>4, <1>5, <1>6, <1>7 DEF IInv

LEMMA StepSucceedsKeepsIInv == IInv /\ StepSucceeds => IInv'
<1> SUFFICES ASSUME IInv, StepSucceeds PROVE IInv'
  OBVIOUS
<1>1. step' \in 1 .. LastStep /\ 0 \in 0 .. Attempts - 1
  BY CountsAreNat DEF StepSucceeds, IInv, DriverTypes
<1>2. call = "init" /\ Recognised \in SUBSET Targets /\ Recognised \subseteq fitted
  BY CurrentFacts DEF StepSucceeds, StepDone, Succeeded, Recognised, IInv, DriverTypes,
    ReplyInv, ProgressInv, Expected, Writing
<1>3. DriverTypes'
  BY <1>1, <1>2 DEF StepSucceeds, IInv, DriverTypes, service, chips
<1>4. CallInv' /\ OneChipSelected'
  BY DEF StepSucceeds, IInv, CallInv, OneChipSelected, StepDone, Succeeded, service,
    chips
<1>5. ReplyInv' /\ ProgressInv'
  <2>1. step > 5 => Current.reg \in configured /\ Current.reg = InitStep(step).reg
    BY <1>2, CurrentFacts DEF StepSucceeds, StepDone, Succeeded, Failed, Writing,
      Expected, Current, IInv, DriverTypes, ReplyInv
  <2>2. \A n \in 6 .. LastStep : n < step + 1 => InitStep(n).reg \in configured
    BY <1>2, <2>1, CountsAreNat DEF IInv, DriverTypes, ProgressInv
  <2>3. step + 1 > 5 => Recognised = Targets
    BY <1>2, CurrentFacts, CountsAreNat DEF StepSucceeds, IInv, DriverTypes, ProgressInv,
      Recognised
  <2> QED
    BY <1>2, <2>2, <2>3 DEF StepSucceeds, ReplyInv, ProgressInv, service, chips
<1>6. FaultInv'
  BY CurrentFacts DEF StepSucceeds, IInv, DriverTypes, ReplyInv, FaultInv, Doomed,
    StepDone, Succeeded, Writing, Recognised, chips
<1>7. SampleFromConfigured' /\ FailureHasCause'
  BY DEF StepSucceeds, IInv, SampleFromConfigured, FailureHasCause, service, chips
<1> QED
  BY <1>3, <1>4, <1>5, <1>6, <1>7 DEF IInv

LEMMA InitSucceedsKeepsIInv == IInv /\ InitSucceeds => IInv'
<1> SUFFICES ASSUME IInv, InitSucceeds PROVE IInv'
  OBVIOUS
<1>3. DriverTypes'
  BY DEF InitSucceeds, IInv, DriverTypes, InitReturns, driver, chips
<1>4. CallInv' /\ OneChipSelected'
  BY DEF InitSucceeds, IInv, CallInv, OneChipSelected, InitReturns, StepDone,
    Succeeded, chips
<1>5. ReplyInv' /\ ProgressInv'
  BY DEF InitSucceeds, IInv, ReplyInv, ProgressInv, InitReturns, driver, chips
<1>6. FaultInv'
  BY DEF InitSucceeds, IInv, FaultInv, InitReturns
<1>7. SampleFromConfigured' /\ FailureHasCause'
  <2>1. call = "init" /\ step = LastStep /\ step > 5
    BY CountsAreNat DEF InitSucceeds, StepDone
  <2>2. Current.reg \in configured /\ Current.reg = InitStep(step).reg
    BY <2>1, CurrentFacts DEF InitSucceeds, StepDone, Succeeded, Failed, Writing,
      Expected, Current, IInv, DriverTypes, ReplyInv
  <2>3. \A n \in 6 .. LastStep : InitStep(n).reg \in configured
    BY <2>1, <2>2, CountsAreNat DEF IInv, ProgressInv
  <2>4. configured = Registers /\ fitted = Targets
    BY <2>1, <2>3, EveryRegisterHasAStep DEF IInv, DriverTypes, ProgressInv
  <2> QED
    BY <2>4 DEF InitSucceeds, InitReturns, SampleFromConfigured, FailureHasCause,
      chips
<1> QED
  BY <1>3, <1>4, <1>5, <1>6, <1>7 DEF IInv

LEMMA SampleCalledKeepsIInv == IInv /\ SampleCalled => IInv'
<1> SUFFICES ASSUME IInv, SampleCalled PROVE IInv'
  OBVIOUS
<1>3. DriverTypes'
  BY CountsAreNat DEF SampleCalled, IInv, DriverTypes, chips
<1>4. CallInv' /\ OneChipSelected'
  BY DEF SampleCalled, IInv, CallInv, OneChipSelected, chips, Targets
<1>5. ReplyInv' /\ ProgressInv'
  BY DEF SampleCalled, IInv, CallInv, ReplyInv, ProgressInv, chips, Targets
<1>6. FaultInv'
  BY DEF SampleCalled, IInv, FaultInv, Targets
<1>7. SampleFromConfigured' /\ FailureHasCause'
  BY DEF SampleCalled, IInv, SampleFromConfigured, FailureHasCause, chips
<1> QED
  BY <1>3, <1>4, <1>5, <1>6, <1>7 DEF IInv

LEMMA SampleReadKeepsIInv == IInv /\ SampleRead => IInv'
<1> SUFFICES ASSUME IInv, SampleRead PROVE IInv'
  OBVIOUS
<1>3. DriverTypes'
  BY DEF SampleRead, IInv, DriverTypes, driver, chips
<1>4. CallInv' /\ OneChipSelected'
  BY DEF SampleRead, IInv, CallInv, OneChipSelected, Succeeded, chips
<1>5. ReplyInv' /\ ProgressInv'
  BY DEF SampleRead, IInv, ReplyInv, ProgressInv, driver, chips
<1>6. FaultInv'
  BY DEF SampleRead, IInv, FaultInv
<1>7. SampleFromConfigured' /\ FailureHasCause'
  BY DEF SampleRead, IInv, SampleFromConfigured, FailureHasCause, chips
<1> QED
  BY <1>3, <1>4, <1>5, <1>6, <1>7 DEF IInv

LEMMA SampleFailsKeepsIInv == IInv /\ SampleFails => IInv'
<1> SUFFICES ASSUME IInv, SampleFails PROVE IInv'
  OBVIOUS
<1>3. DriverTypes'
  BY DEF SampleFails, IInv, DriverTypes, driver, chips
<1>4. CallInv' /\ OneChipSelected'
  BY DEF SampleFails, IInv, CallInv, OneChipSelected, Failed, chips, Targets
<1>5. ReplyInv' /\ ProgressInv'
  BY DEF SampleFails, IInv, ReplyInv, ProgressInv, driver, chips
<1>6. FaultInv'
  BY DEF SampleFails, IInv, FaultInv
<1>7. SampleFromConfigured' /\ FailureHasCause'
  BY DEF SampleFails, IInv, CallInv, SampleFromConfigured, FailureHasCause, chips
<1> QED
  BY <1>3, <1>4, <1>5, <1>6, <1>7 DEF IInv

LEMMA FaultOverKeepsIInv == IInv /\ FaultOver => IInv'
<1> SUFFICES ASSUME IInv, FaultOver PROVE IInv'
  OBVIOUS
<1>3. DriverTypes'
  BY DEF FaultOver, IInv, DriverTypes, driver, chips
<1>4. CallInv' /\ OneChipSelected'
  BY DEF FaultOver, IInv, DriverTypes, CallInv, OneChipSelected, chips
<1>5. ReplyInv' /\ ProgressInv'
  BY DEF FaultOver, IInv, DriverTypes, CallInv, ReplyInv, ProgressInv, driver, chips
<1>6. FaultInv'
  BY DEF FaultOver, IInv, CallInv, FaultInv
<1>7. SampleFromConfigured' /\ FailureHasCause'
  BY DEF FaultOver, IInv, SampleFromConfigured, FailureHasCause, chips
<1> QED
  BY <1>3, <1>4, <1>5, <1>6, <1>7 DEF IInv

LEMMA StutterKeepsIInv == IInv /\ UNCHANGED driverVars => IInv'
  BY SameOperation DEF driverVars, service, driver, chips, IInv, DriverTypes, CallInv,
    OneChipSelected, ReplyInv, ProgressInv, FaultInv, Doomed, Writing, Expected,
    SampleFromConfigured, FailureHasCause

LEMMA NextIInv == IInv /\ [DriverNext]_driverVars => IInv'
<1> SUFFICES ASSUME IInv, [DriverNext]_driverVars PROVE IInv'
  OBVIOUS
<1>1. CASE Select
  BY <1>1, SelectKeepsIInv
<1>2. CASE WriteTransfer
  BY <1>2, WriteTransferKeepsIInv
<1>3. CASE ReadTransfer
  BY <1>3, ReadTransferKeepsIInv
<1>4. CASE Deselect
  BY <1>4, DeselectKeepsIInv
<1>5. CASE ReadBack
  BY <1>5, ReadBackKeepsIInv
<1>6. CASE Retry
  BY <1>6, RetryKeepsIInv
<1>7. CASE InitCalled
  BY <1>7, InitCalledKeepsIInv
<1>8. CASE StepFails
  BY <1>8, StepFailsKeepsIInv
<1>9. CASE WrongId
  BY <1>9, WrongIdKeepsIInv
<1>10. CASE StepSucceeds
  BY <1>10, StepSucceedsKeepsIInv
<1>11. CASE InitSucceeds
  BY <1>11, InitSucceedsKeepsIInv
<1>12. CASE SampleCalled
  BY <1>12, SampleCalledKeepsIInv
<1>13. CASE SampleRead
  BY <1>13, SampleReadKeepsIInv
<1>14. CASE SampleFails
  BY <1>14, SampleFailsKeepsIInv
<1>15. CASE FaultOver
  BY <1>15, FaultOverKeepsIInv
<1>16. CASE UNCHANGED driverVars
  BY <1>16, StutterKeepsIInv
<1> QED
  BY <1>1, <1>2, <1>3, <1>4, <1>5, <1>6, <1>7, <1>8,
    <1>9, <1>10, <1>11, <1>12, <1>13, <1>14, <1>15, <1>16 DEF DriverNext, Transaction, Driver

-----------------------------------------------------------------------------
(* Type correctness, for any number of attempts and of registers. *)
THEOREM DriverTypeOK == DriverSpec => []DriverTypes
<1>1. IInv => DriverTypes
  BY DEF IInv
<1> QED
  BY <1>1, InitIInv, NextIInv, PTL DEF DriverSpec

(* Whatever the bus did and however often it was retried, only identified    *)
(* sensors with every register of both tables of bmi088.c set are sampled.  *)
THEOREM DriverSampleFromConfigured == DriverSpec => []SampleFromConfigured
<1>1. IInv => SampleFromConfigured
  BY DEF IInv
<1> QED
  BY <1>1, InitIInv, NextIInv, PTL DEF DriverSpec

(* A transfer is made with exactly the chip selected it is meant for.        *)
THEOREM DriverOneChipSelected == DriverSpec => []OneChipSelected
<1>1. IInv => OneChipSelected
  BY DEF IInv
<1> QED
  BY <1>1, InitIInv, NextIInv, PTL DEF DriverSpec

(* bmi088_init gives up only after as many bad transactions as attempts, or  *)
(* for a chip, or a transaction, that was wrong.                             *)
THEOREM DriverFailureHasCause == DriverSpec => []FailureHasCause
<1>1. IInv => FailureHasCause
  BY DEF IInv
<1> QED
  BY <1>1, InitIInv, NextIInv, PTL DEF DriverSpec

-----------------------------------------------------------------------------
(* The bytes of a sample (BodyFrame) *)

(* What the axis map and the bytes make of a sample. *)
SampleInv ==
  /\ B!TypeOK
  /\ subject # "sample" => verdict = "none"
  /\ subject = "sample" =>
       /\ map \in [source_axis : B!Vectors(SourceAxes), sign : B!Vectors(Signs)]
       /\ bytes \in B!Vectors(AxisBytes)
  /\ verdict # "none" => (verdict # "bad argument" <=> B!RightHanded(map))
  /\ verdict \in {"ok", "saturated"} =>
       /\ subject = "sample"
       /\ raw = [i \in B!Axes |-> B!ReadI16(bytes[i])]
       /\ body = B!MapAxes(map, raw)
       /\ (verdict = "saturated") <=> B!Saturated(raw)

LEMMA AxesAre == B!Axes = {0, 1, 2}
  BY DEF B!Axes

(* A permutation of three axes, by the pairs that are out of order. *)
LEMMA SameCardinality == ASSUME NEW S PROVE B!Cardinality(S) = Cardinality(S)
  BY Zenon DEF B!Cardinality, Cardinality

LEMMA CountOf3 ==
  ASSUME NEW x, NEW y, NEW z, x # y, x # z, y # z
  PROVE  /\ Cardinality({}) = 0 /\ Cardinality({x}) = 1
         /\ Cardinality({x, y}) = 2 /\ Cardinality({x, y, z}) = 3
<1>1. IsFiniteSet({x}) /\ Cardinality({x}) = 1 /\ Cardinality({}) = 0
  BY FS_Singleton, FS_EmptySet
<1>2. {x, y} = {x} \cup {y} /\ y \notin {x}
  OBVIOUS
<1>3. IsFiniteSet({x, y}) /\ Cardinality({x, y}) = 2
  BY <1>1, <1>2, FS_AddElement
<1>4. {x, y, z} = {x, y} \cup {z} /\ z \notin {x, y}
  OBVIOUS
<1>5. Cardinality({x, y, z}) = 3
  BY <1>3, <1>4, FS_AddElement
<1> QED BY <1>1, <1>3, <1>5

Sign(a, b) == IF a > b THEN -1 ELSE 1

LEMMA ParityIs ==
  ASSUME NEW m, m.source_axis \in [B!Axes -> B!Axes],
         \A i, j \in B!Axes : i # j => m.source_axis[i] # m.source_axis[j]
  PROVE  LET p == m.source_axis
         IN  B!ParityOfAxes(m) = Sign(p[0], p[1]) * Sign(p[0], p[2]) * Sign(p[1], p[2])
<1> DEFINE p == m.source_axis
           I == {e \in B!Axes \X B!Axes : e[2] < e[1] /\ p[e[2]] > p[e[1]]}
           out(i, j) == p[i] > p[j]
<1>1. \A e \in B!Axes \X B!Axes :
        e[2] < e[1] <=> e \in {<<1, 0>>, <<2, 0>>, <<2, 1>>}
  BY AxesAre
<1>2. I = {e \in {<<1, 0>>, <<2, 0>>, <<2, 1>>} : p[e[2]] > p[e[1]]}
  BY <1>1, AxesAre
<1>3. /\ Cardinality({}) = 0
      /\ Cardinality({<<1, 0>>}) = 1 /\ Cardinality({<<2, 0>>}) = 1
      /\ Cardinality({<<2, 1>>}) = 1
      /\ Cardinality({<<1, 0>>, <<2, 0>>}) = 2
      /\ Cardinality({<<1, 0>>, <<2, 1>>}) = 2
      /\ Cardinality({<<2, 0>>, <<2, 1>>}) = 2
      /\ Cardinality({<<1, 0>>, <<2, 0>>, <<2, 1>>}) = 3
  <2> DEFINE x == <<1, 0>>  y == <<2, 0>>  z == <<2, 1>>
  <2>1. x # y /\ x # z /\ y # z
    OBVIOUS
  <2> HIDE DEF x, y, z
  <2>2. /\ Cardinality({}) = 0 /\ Cardinality({x}) = 1
        /\ Cardinality({x, y}) = 2 /\ Cardinality({x, y, z}) = 3
    BY <2>1, CountOf3, Zenon
  <2>3. Cardinality({y}) = 1 /\ Cardinality({y, z}) = 2
    BY <2>1, CountOf3
  <2>4. Cardinality({z}) = 1
    BY FS_Singleton
  <2>5. Cardinality({x, z}) = 2
    BY <2>1, CountOf3
  <2> QED BY <2>2, <2>3, <2>4, <2>5 DEF x, y, z
<1>4. p[0] \in 0 .. 2 /\ p[1] \in 0 .. 2 /\ p[2] \in 0 .. 2
  BY AxesAre
<1>5. I = IF out(0, 1)
          THEN IF out(0, 2)
               THEN IF out(1, 2) THEN {<<1, 0>>, <<2, 0>>, <<2, 1>>}
                                 ELSE {<<1, 0>>, <<2, 0>>}
               ELSE IF out(1, 2) THEN {<<1, 0>>, <<2, 1>>} ELSE {<<1, 0>>}
          ELSE IF out(0, 2)
               THEN IF out(1, 2) THEN {<<2, 0>>, <<2, 1>>} ELSE {<<2, 0>>}
               ELSE IF out(1, 2) THEN {<<2, 1>>} ELSE {}
  BY <1>2
<1> DEFINE n == Cardinality(I)
<1>6. n = (IF out(0, 1) THEN 1 ELSE 0) + (IF out(0, 2) THEN 1 ELSE 0)
                                       + (IF out(1, 2) THEN 1 ELSE 0)
  <2> HIDE DEF I
  <2> QED BY <1>3, <1>5
<1>7. B!ParityOfAxes(m) = IF n % 2 = 0 THEN 1 ELSE -1
  <2>1. B!Inversions(m) = n
    BY SameCardinality, Zenon DEF B!Inversions
  <2> HIDE DEF n
  <2> QED BY <2>1, Zenon DEF B!ParityOfAxes
<1>8. 0 % 2 = 0 /\ 1 % 2 = 1 /\ 2 % 2 = 0 /\ 3 % 2 = 1
  OBVIOUS
<1> HIDE DEF n
<1> QED BY <1>6, <1>7, <1>8 DEF Sign

(* The entries of the map as a matrix, and the cross product of its columns. *)
Entry(m, a, b) == IF m.source_axis[b] = a THEN m.sign[b] ELSE 0

Column(m, i, j, k) ==
  /\ Entry(m, j, 1) * Entry(m, k, 2) - Entry(m, j, 2) * Entry(m, k, 1) = Entry(m, i, 0)
  /\ Entry(m, j, 2) * Entry(m, k, 0) - Entry(m, j, 0) * Entry(m, k, 2) = Entry(m, i, 1)
  /\ Entry(m, j, 0) * Entry(m, k, 1) - Entry(m, j, 1) * Entry(m, k, 0) = Entry(m, i, 2)

LEMMA KeepsCrossIs ==
  ASSUME NEW m, m.source_axis \in [B!Axes -> B!Axes],
         m.sign \in [B!Axes -> {1, -1}]
  PROVE  B!KeepsCross(m) <=>
           Column(m, 0, 1, 2) /\ Column(m, 1, 2, 0) /\ Column(m, 2, 0, 1)
<1>1. \A a \in B!Axes : B!Image(m, a) = [b \in B!Axes |-> Entry(m, a, b)]
  BY AxesAre DEF B!Image, B!MapAxes, B!Unit, Entry
<1>2. /\ (0 + 1) % 3 = 1 /\ (0 + 2) % 3 = 2 /\ (1 + 1) % 3 = 2
      /\ (1 + 2) % 3 = 0 /\ (2 + 1) % 3 = 0 /\ (2 + 2) % 3 = 1
  OBVIOUS
<1>3. ASSUME NEW i \in B!Axes, NEW j \in B!Axes, NEW k \in B!Axes
      PROVE  B!Cross(B!Image(m, j), B!Image(m, k)) = B!Image(m, i)
               <=> Column(m, i, j, k)
  <2> DEFINE f(a) == [b \in B!Axes |-> Entry(m, a, b)]
             c == B!Cross(f(j), f(k))
  <2>1. c \in [B!Axes -> Int] /\ f(i) \in [B!Axes -> Int]
    <3>1. \A a \in B!Axes : f(a) \in [B!Axes -> Int]
      BY AxesAre DEF Entry
    <3>2. \A b \in B!Axes : (b + 1) % 3 \in B!Axes /\ (b + 2) % 3 \in B!Axes
      BY <1>2, AxesAre
    <3> DEFINE u == f(j)  v == f(k)
    <3>3. u \in [B!Axes -> Int] /\ v \in [B!Axes -> Int]
      BY <3>1
    <3> HIDE DEF u, v
    <3>4. \A b \in B!Axes :
            u[(b + 1) % 3] * v[(b + 2) % 3] - u[(b + 2) % 3] * v[(b + 1) % 3] \in Int
      BY <3>2, <3>3
    <3>5. B!Cross(u, v) \in [B!Axes -> Int]
      BY <3>4 DEF B!Cross
    <3> QED BY <3>1, <3>5 DEF u, v
  <2>2. /\ c[0] = f(j)[1] * f(k)[2] - f(j)[2] * f(k)[1]
        /\ c[1] = f(j)[2] * f(k)[0] - f(j)[0] * f(k)[2]
        /\ c[2] = f(j)[0] * f(k)[1] - f(j)[1] * f(k)[0]
    BY <1>2, AxesAre DEF B!Cross
  <2>3. \A a \in {i, j, k} : /\ f(a)[0] = Entry(m, a, 0) /\ f(a)[1] = Entry(m, a, 1)
                             /\ f(a)[2] = Entry(m, a, 2)
    BY AxesAre
  <2>4. c = f(i) <=> \A b \in B!Axes : c[b] = f(i)[b]
    <3> HIDE DEF c, f
    <3> QED BY <2>1
  <2> HIDE DEF c, f
  <2>5. c = f(i) <=> c[0] = f(i)[0] /\ c[1] = f(i)[1] /\ c[2] = f(i)[2]
    BY <2>4, AxesAre
  <2>6. c = f(i) <=> Column(m, i, j, k)
    BY <2>2, <2>3, <2>5 DEF Column
  <2> QED BY <1>1, <2>6 DEF c, f
<1>4. 0 \in B!Axes /\ 1 \in B!Axes /\ 2 \in B!Axes
  BY AxesAre
<1>5. B!KeepsCross(m) <=>
        /\ B!Cross(B!Image(m, 1), B!Image(m, 2)) = B!Image(m, 0)
        /\ B!Cross(B!Image(m, 2), B!Image(m, 0)) = B!Image(m, 1)
        /\ B!Cross(B!Image(m, 0), B!Image(m, 1)) = B!Image(m, 2)
  BY <1>2, <1>4, AxesAre DEF B!KeepsCross
<1> QED BY <1>3, <1>4, <1>5

LEMMA KeptCross ==
  ASSUME NEW m, m.source_axis \in [B!Axes -> B!Axes],
         m.sign \in [B!Axes -> {1, -1}]
  PROVE  B!KeepsCross(m) <=>
           /\ \A i, j \in B!Axes : i # j => m.source_axis[i] # m.source_axis[j]
           /\ B!Handedness(m) = 1
<1> DEFINE p(b) == m.source_axis[b]  s(b) == m.sign[b]
<1>1. /\ p(0) \in {0, 1, 2} /\ p(1) \in {0, 1, 2} /\ p(2) \in {0, 1, 2}
      /\ s(0) \in {1, -1} /\ s(1) \in {1, -1} /\ s(2) \in {1, -1}
  BY AxesAre
<1>2. B!KeepsCross(m) <=>
        Column(m, 0, 1, 2) /\ Column(m, 1, 2, 0) /\ Column(m, 2, 0, 1)
  BY KeepsCrossIs
<1> DEFINE permutes == p(0) # p(1) /\ p(0) # p(2) /\ p(1) # p(2)
<1>3. (\A i, j \in B!Axes : i # j => p(i) # p(j)) <=> permutes
  BY AxesAre
<1>4. CASE ~permutes
  (* An axis that is missing makes its column vanish, and then all do. *)
  <2>1. PICK a \in {0, 1, 2} : p(0) # a /\ p(1) # a /\ p(2) # a
    BY <1>1, <1>4
  <2>2. /\ Entry(m, a, 0) = 0 /\ Entry(m, a, 1) = 0 /\ Entry(m, a, 2) = 0
    BY <2>1 DEF Entry
  <2>3. \A b \in {0, 1, 2} : Entry(m, p(0), 0) # 0 /\ Entry(m, b, 0) \in Int
                             /\ Entry(m, b, 1) \in Int /\ Entry(m, b, 2) \in Int
    BY <1>1 DEF Entry
  <2>4. ASSUME NEW i \in {0, 1, 2}, NEW j \in {0, 1, 2}, NEW k \in {0, 1, 2},
               Column(m, i, j, k), j = a \/ k = a
        PROVE  Entry(m, i, 0) = 0
    BY <2>2, <2>3, <2>4 DEF Column
  <2>5. ASSUME NEW i \in {0, 1, 2}, NEW j \in {0, 1, 2}, NEW k \in {0, 1, 2},
               Column(m, i, j, k), j = a \/ k = a
        PROVE  Entry(m, i, 1) = 0 /\ Entry(m, i, 2) = 0
    BY <2>2, <2>3, <2>5 DEF Column
  <2>6. ASSUME Column(m, 0, 1, 2), Column(m, 1, 2, 0), Column(m, 2, 0, 1)
        PROVE  FALSE
    <3>1. CASE a = 0
      BY <1>1, <2>2, <2>3, <2>4, <2>6, <3>1
    <3>2. CASE a = 1
      BY <1>1, <2>2, <2>3, <2>4, <2>6, <3>2
    <3>3. CASE a = 2
      BY <1>1, <2>2, <2>3, <2>4, <2>6, <3>3
    <3> QED BY <3>1, <3>2, <3>3
  <2> QED BY <1>2, <1>3, <1>4, <2>6
<1>5. CASE permutes
  <2>1. B!ParityOfAxes(m) = Sign(p(0), p(1)) * Sign(p(0), p(2)) * Sign(p(1), p(2))
    BY <1>3, <1>5, ParityIs
  <2>2. B!Handedness(m) = B!ParityOfAxes(m) * (s(0) * s(1) * s(2))
    BY DEF B!Handedness, B!ParityOfMap
  <2> DEFINE q == B!ParityOfAxes(m)
             turns == /\ Column(m, 0, 1, 2) /\ Column(m, 1, 2, 0)
                      /\ Column(m, 2, 0, 1)
  <2>3. \E e \in {<<0, 1, 2>>, <<1, 2, 0>>, <<2, 0, 1>>,
                  <<0, 2, 1>>, <<2, 1, 0>>, <<1, 0, 2>>} :
          p(0) = e[1] /\ p(1) = e[2] /\ p(2) = e[3]
    BY <1>1, <1>5
  <2>4. CASE p(0) = 0 /\ p(1) = 1 /\ p(2) = 2
    <3>1. q = 1
      BY <2>1, <2>4 DEF Sign
    <3>2. turns <=> s(0) * s(1) * s(2) = 1
      BY <1>1, <2>4 DEF Column, Entry
    <3> QED BY <1>1, <1>2, <1>3, <1>5, <2>2, <3>1, <3>2
  <2>5. CASE p(0) = 1 /\ p(1) = 2 /\ p(2) = 0
    <3>1. q = 1
      BY <2>1, <2>5 DEF Sign
    <3>2. turns <=> s(0) * s(1) * s(2) = 1
      BY <1>1, <2>5 DEF Column, Entry
    <3> QED BY <1>1, <1>2, <1>3, <1>5, <2>2, <3>1, <3>2
  <2>6. CASE p(0) = 2 /\ p(1) = 0 /\ p(2) = 1
    <3>1. q = 1
      BY <2>1, <2>6 DEF Sign
    <3>2. turns <=> s(0) * s(1) * s(2) = 1
      BY <1>1, <2>6 DEF Column, Entry
    <3> QED BY <1>1, <1>2, <1>3, <1>5, <2>2, <3>1, <3>2
  <2>7. CASE p(0) = 0 /\ p(1) = 2 /\ p(2) = 1
    <3>1. q = -1
      BY <2>1, <2>7 DEF Sign
    <3>2. turns <=> s(0) * s(1) * s(2) = -1
      BY <1>1, <2>7 DEF Column, Entry
    <3> QED BY <1>1, <1>2, <1>3, <1>5, <2>2, <3>1, <3>2
  <2>8. CASE p(0) = 2 /\ p(1) = 1 /\ p(2) = 0
    <3>1. q = -1
      BY <2>1, <2>8 DEF Sign
    <3>2. turns <=> s(0) * s(1) * s(2) = -1
      BY <1>1, <2>8 DEF Column, Entry
    <3> QED BY <1>1, <1>2, <1>3, <1>5, <2>2, <3>1, <3>2
  <2>9. CASE p(0) = 1 /\ p(1) = 0 /\ p(2) = 2
    <3>1. q = -1
      BY <2>1, <2>9 DEF Sign
    <3>2. turns <=> s(0) * s(1) * s(2) = -1
      BY <1>1, <2>9 DEF Column, Entry
    <3> QED BY <1>1, <1>2, <1>3, <1>5, <2>2, <3>1, <3>2
  <2> QED BY <2>3, <2>4, <2>5, <2>6, <2>7, <2>8, <2>9
<1> QED BY <1>4, <1>5

(* bmi088_axis_map_is_right_handed is what it is called. *)
LEMMA RotationIs ==
  ASSUME NEW m \in [source_axis : B!Vectors(SourceAxes), sign : B!Vectors(Signs)]
  PROVE  B!RightHanded(m) <=>
           /\ m.source_axis \in B!Vectors(B!Axes) /\ m.sign \in B!Vectors({1, -1})
           /\ B!KeepsCross(m)
<1>1. /\ m.source_axis \in [B!Axes -> SourceAxes] /\ m.sign \in [B!Axes -> Signs]
      /\ SourceAxes \subseteq Nat
  BY SampleAssumption DEF B!Vectors
<1>2. (\A i \in B!Axes : m.source_axis[i] < 3)
        <=> m.source_axis \in [B!Axes -> B!Axes]
  <2>1. \A n \in Nat : n < 3 <=> n \in B!Axes
    BY AxesAre
  <2> QED BY <1>1, <2>1
<1>3. (\A i \in B!Axes : m.sign[i] \in {1, -1}) <=> m.sign \in [B!Axes -> {1, -1}]
  BY <1>1
<1> QED BY <1>2, <1>3, KeptCross, Zenon DEF B!RightHanded, B!Vectors

LEMMA TwoBytes ==
  ASSUME NEW x \in 0 .. 255, NEW y \in 0 .. 255
  PROVE  x + 256 * y \in 0 .. 256 * 256 - 1
<1>1. 0 <= x /\ x <= 255 /\ x \in Int
  OBVIOUS
<1> DEFINE z == 256 * y  b == 256 * 255  c == 256 * 256
<1>2. z >= 0 /\ z <= b /\ z \in Int
  OBVIOUS
<1>3. 255 + b = c - 1 /\ b \in Int /\ c \in Int
  OBVIOUS
<1> HIDE DEF z, b, c
<1>4. x + z \in 0 .. c - 1
  BY <1>1, <1>2, <1>3
<1> QED BY <1>4 DEF z, c

LEMMA WordSize ==
  /\ B!TwoBytes \in Nat \ {0} /\ B!Highest \in Nat
  /\ B!TwoBytes = B!Highest + B!Highest + 2
  /\ \A x, y \in 0 .. 255 : x + 256 * y \in 0 .. B!TwoBytes - 1
<1>1. B!TwoBytes \in Nat \ {0} /\ B!Highest \in Nat
  BY DEF B!TwoBytes, B!Highest
<1>2. B!TwoBytes = B!Highest + B!Highest + 2
  BY DEF B!TwoBytes, B!Highest
<1>3. \A x, y \in 0 .. 255 : x + 256 * y \in 0 .. 256 * 256 - 1
  BY TwoBytes, Zenon
<1>4. B!TwoBytes = 256 * 256
  BY DEF B!TwoBytes
<1>5. \A x, y \in 0 .. 255 : x + 256 * y \in 0 .. B!TwoBytes - 1
  BY <1>3, <1>4, Zenon
<1> QED BY <1>1, <1>2, <1>5

LEMMA TimesSign ==
  ASSUME NEW H \in Nat, NEW x \in -H - 1 .. H, NEW s \in {1, -1}
  PROVE  x * s \in -H - 1 .. H + 1
<1>1. s = 1 \/ s = -1
  OBVIOUS
<1>2. s = 1 => x * s = x
  OBVIOUS
<1>3. s = -1 => x * s = -x
  OBVIOUS
<1>4. -x \in -H - 1 .. H + 1 /\ x \in -H - 1 .. H + 1
  OBVIOUS
<1> QED BY <1>1, <1>2, <1>3, <1>4

(* read_i16_le: the two's complement of the word. *)
LEMMA WordIs ==
  ASSUME NEW b \in AxisBytes
  PROVE  /\ B!ReadI16(b) \in -B!Highest - 1 .. B!Highest /\ B!ReadI16(b) \in Int
         /\ (B!ReadI16(b) - (b[1] + 256 * b[2])) % B!TwoBytes = 0
<1>1. b[1] \in 0 .. 255 /\ b[2] \in 0 .. 255
  BY SampleAssumption
<1> DEFINE u == b[1] + 256 * b[2]  W == B!TwoBytes  H == B!Highest
<1>2. W \in Nat \ {0} /\ H \in Nat /\ W = H + H + 2
  BY WordSize
<1>3. u \in 0 .. W - 1
  BY <1>1, WordSize
<1>4. B!ReadI16(b) = IF u > H THEN u - W ELSE u
  BY DEF B!ReadI16
<1> HIDE DEF u, W, H
<1>5. 0 % W = 0 /\ (-W) % W = 0
  BY <1>2
<1>6. B!ReadI16(b) \in -H - 1 .. H /\ B!ReadI16(b) - u \in {0, -W}
  BY <1>2, <1>3, <1>4
<1>7. (B!ReadI16(b) - u) % W = 0
  BY <1>5, <1>6
<1>8. B!ReadI16(b) \in Int
  BY <1>2, <1>6
<1> QED BY <1>6, <1>7, <1>8 DEF u, W, H

(* The largest component of a vector and of its negative, in any frame.      *)
LEMMA LargestIs ==
  ASSUME NEW v \in [B!Axes -> Int]
  PROVE  LET S == {v[i] : i \in B!Axes} \cup {-v[i] : i \in B!Axes}
         IN  B!Max(S) \in S /\ \A x \in S : B!Max(S) >= x
<1> DEFINE S == {v[i] : i \in B!Axes} \cup {-v[i] : i \in B!Axes}
<1>1. S = {v[0], v[1], v[2], -v[0], -v[1], -v[2]}
  BY AxesAre
<1>2. v[0] \in Int /\ v[1] \in Int /\ v[2] \in Int
  BY AxesAre
<1>3. \E x \in S : \A y \in S : x >= y
  <2> DEFINE a == v[0]  b == v[1]  c == v[2]
  <2> HIDE DEF a, b, c
  <2> SUFFICES \E x \in {a, b, c, -a, -b, -c} : \A y \in {a, b, c, -a, -b, -c} : x >= y
    BY <1>1 DEF a, b, c
  <2>1. a \in Int /\ b \in Int /\ c \in Int
    BY <1>2 DEF a, b, c
  <2> QED BY <2>1
<1>4. B!Max(S) = CHOOSE x \in S : \A y \in S : x >= y
  BY Zenon DEF B!Max
<1> HIDE DEF S
<1>5. B!Max(S) \in S /\ \A x \in S : B!Max(S) >= x
  BY <1>3, <1>4, Zenon
<1> QED BY <1>5 DEF S

(* imu_gyro_saturated looks at the sensor's axes, the estimate at the vehicle's. *)
LEMMA SaturationIs ==
  ASSUME NEW m, m.source_axis \in [B!Axes -> B!Axes], m.sign \in [B!Axes -> {1, -1}],
         \A i, j \in B!Axes : i # j => m.source_axis[i] # m.source_axis[j],
         NEW v \in [B!Axes -> Int]
  PROVE  LET w == B!MapAxes(m, v) IN
          B!Saturated(v)
           <=> B!Max({w[i] : i \in B!Axes} \cup {-w[i] : i \in B!Axes}) >= Limit
<1> DEFINE p(i) == m.source_axis[i]
           w == B!MapAxes(m, v)
           S == {w[i] : i \in B!Axes} \cup {-w[i] : i \in B!Axes}
<1>1. /\ \A j \in B!Axes : \E i \in B!Axes : p(i) = j
      /\ \A i \in B!Axes : p(i) \in B!Axes
  <2>1. /\ p(0) \in {0, 1, 2} /\ p(1) \in {0, 1, 2} /\ p(2) \in {0, 1, 2}
        /\ p(0) # p(1) /\ p(0) # p(2) /\ p(1) # p(2)
    BY AxesAre
  <2> QED BY <2>1, AxesAre
<1>2. \A i \in B!Axes : v[p(i)] \in Int /\ m.sign[i] \in {1, -1}
  BY <1>1
<1>3. \A i \in B!Axes : w[i] \in Int /\ (w[i] = v[p(i)] \/ w[i] = -v[p(i)])
  <2> SUFFICES ASSUME NEW i \in B!Axes
               PROVE  w[i] \in Int /\ (w[i] = v[p(i)] \/ w[i] = -v[p(i)])
    OBVIOUS
  <2> DEFINE x == v[p(i)]  s == m.sign[i]
  <2>1. w[i] = x * s /\ x \in Int /\ s \in {1, -1}
    BY <1>2 DEF B!MapAxes
  <2> HIDE DEF x, s, w
  <2>2. w[i] \in Int /\ (w[i] = x \/ w[i] = -x)
    BY <2>1
  <2> QED BY <2>2 DEF x
<1>4. w \in [B!Axes -> Int]
  BY <1>3 DEF B!MapAxes
<1> HIDE DEF w
<1>5. ASSUME NEW i \in B!Axes
      PROVE  (w[i] >= Limit \/ -w[i] >= Limit)
               <=> (v[p(i)] >= Limit \/ -v[p(i)] >= Limit)
  <2> DEFINE x == v[p(i)]  y == w[i]
  <2>1. x \in Int /\ (y = x \/ y = -x)
    BY <1>2, <1>3
  <2> HIDE DEF x, y
  <2>2. (y >= Limit \/ -y >= Limit) <=> (x >= Limit \/ -x >= Limit)
    <3>1. y = -x => -y = x
      BY <2>1
    <3> QED BY <2>1, <3>1
  <2> QED BY <2>2 DEF x, y
<1>6. B!Saturated(v) <=> \E i \in B!Axes : w[i] >= Limit \/ -w[i] >= Limit
  BY <1>1, <1>5 DEF B!Saturated
<1>7. B!Max(S) \in S /\ \A x \in S : B!Max(S) >= x
  BY <1>4, LargestIs
<1>8. \A x \in S : x \in Int
  <2>1. \A i \in B!Axes : w[i] \in Int /\ -w[i] \in Int
    BY <1>3
  <2> QED BY <2>1
<1>9. B!Max(S) >= Limit <=> \E x \in S : x >= Limit
  <2> DEFINE n == B!Max(S)
  <2> HIDE DEF S, n
  <2>1. n \in S /\ \A x \in S : n >= x
    BY <1>7 DEF n
  <2>2. ASSUME NEW x \in S, x >= Limit PROVE n >= Limit
    <3>1. n >= x /\ n \in Int /\ x \in Int /\ Limit \in Int
      BY <1>8, <2>1, SampleAssumption
    <3> QED BY <2>2, <3>1
  <2>3. n >= Limit <=> \E x \in S : x >= Limit
    BY <2>1, <2>2
  <2> QED BY <2>3 DEF n
<1>10. (\E x \in S : x >= Limit)
         <=> \E i \in B!Axes : w[i] >= Limit \/ -w[i] >= Limit
  OBVIOUS
<1> QED BY <1>6, <1>9, <1>10 DEF w

LEMMA SensorStartSample == SensorStart => SampleInv
<1> SUFFICES ASSUME SensorStart PROVE SampleInv
  OBVIOUS
<1>1. raw = B!Origin /\ body = B!Origin /\ verdict = "none"
  BY DEF SensorStart, B!Init
<1>2. /\ B!Origin \in B!Vectors(-B!Highest - 1 .. B!Highest)
      /\ B!Origin \in B!Vectors(-B!Highest - 1 .. B!Highest + 1)
  <2> DEFINE H == B!Highest
  <2>1. H \in Nat
    BY WordSize
  <2> HIDE DEF H
  <2>2. 0 \in -H - 1 .. H /\ 0 \in -H - 1 .. H + 1
    BY <2>1
  <2>3. 0 \in -B!Highest - 1 .. B!Highest /\ 0 \in -B!Highest - 1 .. B!Highest + 1
    BY <2>2 DEF H
  <2> QED BY <2>3, Zenon DEF B!Origin, B!Vectors
<1>3. B!TypeOK
  BY <1>1, <1>2 DEF B!TypeOK
<1>4. subject = "sample" =>
        /\ map \in [source_axis : B!Vectors(SourceAxes), sign : B!Vectors(Signs)]
        /\ bytes \in B!Vectors(AxisBytes)
  BY DEF SensorStart, B!Init
<1> QED BY <1>1, <1>3, <1>4 DEF SampleInv

(* read_sample *)
LEMMA ReadSampleKeeps == ASSUME SampleInv, SampleStep PROVE SampleInv'
<1> USE DEF SampleInv
<1>1. /\ subject = "sample" /\ subject' = "sample" /\ verdict = "none"
      /\ UNCHANGED <<map, bytes>>
      /\ map \in [source_axis : B!Vectors(SourceAxes), sign : B!Vectors(Signs)]
      /\ bytes \in B!Vectors(AxisBytes)
  BY DEF SampleStep, B!Next, B!ReadSample
<1>2. CASE ~B!RightHanded(map)
  <2>1. verdict' = "bad argument" /\ UNCHANGED <<raw, body>>
    BY <1>2 DEF SampleStep, B!Next, B!ReadSample
  <2>2. ~B!RightHanded(map)'
    BY <1>1, <1>2 DEF B!RightHanded, B!Handedness, B!ParityOfMap, B!ParityOfAxes,
       B!Inversions
  <2> QED BY <1>1, <2>1, <2>2 DEF B!TypeOK
<1> DEFINE r == [i \in B!Axes |-> B!ReadI16(bytes[i])]
<1>3. CASE B!RightHanded(map)
  <2>1. raw' = r /\ body' = B!MapAxes(map, r)
    BY <1>3 DEF SampleStep, B!Next, B!ReadSample
  <2>2. verdict' = IF B!Saturated(r) THEN "saturated" ELSE "ok"
    BY <1>3, <2>1 DEF SampleStep, B!Next, B!ReadSample
  <2>3. /\ map.source_axis \in [B!Axes -> B!Axes]
        /\ map.sign \in [B!Axes -> {1, -1}]
    BY <1>1, <1>3, RotationIs DEF B!Vectors
  <2>4. r \in [B!Axes -> -B!Highest - 1 .. B!Highest]
    BY <1>1, WordIs DEF B!Vectors
  <2>5. B!MapAxes(map, r) \in [B!Axes -> -B!Highest - 1 .. B!Highest + 1]
    <3>1. B!Highest \in Nat
      BY WordSize
    <3> HIDE DEF r
    <3>2. ASSUME NEW i \in B!Axes
          PROVE  r[map.source_axis[i]] * map.sign[i]
                   \in -B!Highest - 1 .. B!Highest + 1
      <4>1. r[map.source_axis[i]] \in -B!Highest - 1 .. B!Highest
        BY <2>3, <2>4
      <4>2. map.sign[i] \in {1, -1}
        BY <2>3
      <4> QED BY <3>1, <4>1, <4>2, TimesSign, Zenon
    <3> QED BY <3>2 DEF B!MapAxes
  <2>6. B!TypeOK'
    BY <2>1, <2>2, <2>4, <2>5 DEF B!TypeOK, B!Vectors
  <2>7. raw' = [i \in B!Axes |-> B!ReadI16(bytes'[i])] /\ body' = B!MapAxes(map', raw')
    BY <1>1, <2>1
  <2>8. B!RightHanded(map)'
    BY <1>1, <1>3 DEF B!RightHanded, B!Handedness, B!ParityOfMap, B!ParityOfAxes,
       B!Inversions
  <2>9. (verdict' = "saturated") <=> B!Saturated(raw)'
    BY <2>1, <2>2 DEF B!Saturated
  <2> QED
    <3> HIDE DEF r
    <3> QED BY <1>1, <2>2, <2>6, <2>7, <2>8, <2>9
<1> QED BY <1>2, <1>3

LEMMA SensorNextSample == ASSUME SampleInv, [SensorNext]_sensorVars PROVE SampleInv'
<1>1. CASE UNCHANGED <<subject, bodyVars>>
  BY <1>1
  DEF SampleInv, bodyVars, B!TypeOK, B!RightHanded, B!Handedness, B!ParityOfMap,
      B!ParityOfAxes, B!Inversions, B!Saturated, B!MapAxes, B!ReadI16
<1> QED
  BY <1>1, ReadSampleKeeps DEF SensorNext, DriverStep, HasBeenRead, sensorVars

(* bmi088_axis_map_is_right_handed, read_sample, imu_gyro_saturated: for       *)
(* every axis map, every pair of bytes of an axis and every limit, the maps *)
(* accepted are exactly the rotations, the words are two's complement, and  *)
(* a sample is reported as saturated exactly if the largest component of    *)
(* the vector in the vehicle's frame reaches the limit.                     *)
THEOREM DriverBodySampleSound == SensorSpec => []BodySampleSound
<1>1. SampleInv => BodySampleSound
  <2> SUFFICES ASSUME SampleInv PROVE BodySampleSound
    OBVIOUS
  <2> USE DEF SampleInv
  <2>1. B!OnlyRotations
    <3> SUFFICES ASSUME verdict # "none"
                 PROVE  verdict # "bad argument" <=>
                          /\ map.source_axis \in B!Vectors(B!Axes)
                          /\ map.sign \in B!Vectors({1, -1}) /\ B!KeepsCross(map)
      BY DEF B!OnlyRotations
    <3>1. subject = "sample"
      OBVIOUS
    <3> QED BY <3>1, RotationIs
  <2>2. B!SaturationIsReported
    <3> SUFFICES ASSUME verdict \in {"ok", "saturated"}
                 PROVE  /\ \A i \in B!Axes :
                             (raw[i] - (bytes[i][1] + 256 * bytes[i][2])) % B!TwoBytes = 0
                        /\ (verdict = "saturated")
                             <=> B!Max({body[i] : i \in B!Axes}
                                         \cup {-body[i] : i \in B!Axes}) >= Limit
      BY DEF B!SaturationIsReported
    <3>1. /\ subject = "sample" /\ B!RightHanded(map)
          /\ raw = [i \in B!Axes |-> B!ReadI16(bytes[i])]
          /\ body = B!MapAxes(map, raw)
          /\ (verdict = "saturated") <=> B!Saturated(raw)
          /\ bytes \in B!Vectors(AxisBytes)
          /\ map \in [source_axis : B!Vectors(SourceAxes), sign : B!Vectors(Signs)]
      OBVIOUS
    <3>2. \A i \in B!Axes :
            (raw[i] - (bytes[i][1] + 256 * bytes[i][2])) % B!TwoBytes = 0
      BY <3>1, WordIs DEF B!Vectors
    <3>3. /\ map.source_axis \in [B!Axes -> B!Axes]
          /\ map.sign \in [B!Axes -> {1, -1}]
      BY <3>1, RotationIs DEF B!Vectors
    <3>4. \A i, j \in B!Axes : i # j => map.source_axis[i] # map.source_axis[j]
      BY <3>1 DEF B!RightHanded
    <3>5. raw \in [B!Axes -> Int]
      <4>1. \A b \in AxisBytes : B!ReadI16(b) \in Int
        BY WordIs, Zenon
      <4> HIDE DEF SampleInv
      <4> QED BY <3>1, <4>1 DEF B!Vectors
    <3>6. B!Saturated(raw)
            <=> B!Max({body[i] : i \in B!Axes} \cup {-body[i] : i \in B!Axes}) >= Limit
      <4> HIDE DEF SampleInv
      <4> DEFINE w == B!MapAxes(map, raw)
      <4>1. B!Saturated(raw)
              <=> B!Max({w[i] : i \in B!Axes} \cup {-w[i] : i \in B!Axes}) >= Limit
        BY <3>3, <3>4, <3>5, SaturationIs
      <4>2. w = body
        BY <3>1
      <4> QED BY <4>1, <4>2, Zenon
    <3> QED BY <3>1, <3>2, <3>6
  <2> QED BY <2>1, <2>2 DEF BodySampleSound
<1> QED BY <1>1, SensorStartSample, SensorNextSample, PTL DEF SensorSpec

=============================================================================
