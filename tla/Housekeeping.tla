----------------------------- MODULE Housekeeping -----------------------------
(***************************************************************************)
(* What the IMU thread does by the clock: the status LED, the diagnostics  *)
(* log, the expiry of the gyro and the second between a fault and the next *)
(* initialisation (kernel/imu/imu_service.c, imu_policy.c).                *)
(*                                                                         *)
(* Time passes in units, Sub of which make a tick of RT-Thread.  The tick  *)
(* counter wraps; the clock of the gyro's age runs in units.  What the     *)
(* handlers do to the samples is ImuService: here they take time, accept a *)
(* gyro sample or not, and change the state.  Stopping is ServiceThread.   *)
(* From rt_tick_get to the delay computed from it no time passes.          *)
(***************************************************************************)
EXTENDS Integers

CONSTANTS
  TickMod,   \* range of rt_tick_t: 2^32 in the code
  Deci,      \* ticks in 100 ms; RT_TICK_PER_SECOND is ten times as many
  Sub,       \* units in a tick
  ExpiryAge, \* 20001 us in units
  MaxLate    \* bound on the ticks by which the handlers delay what is due

ASSUME HousekeepingAssumption ==
  /\ {TickMod, Deci, Sub, ExpiryAge} \subseteq Nat \ {0} /\ MaxLate \in Nat
  /\ 19 * Deci + MaxLate <= TickMod \div 2

VARIABLES
  tick, unit,          \* rt_tick_get, and the units into this tick
  pc,                  \* where the thread is
  sleep,               \* ticks until its delay or timeout ends
  state, state_entered,
  led,                 \* deadline, phase and output of the LED
  diagnostics_deadline,
  gyro_age,            \* units since the last accepted gyro sample
  gyro_expired,
  pending,             \* a gyro sample is latched and its event set
  since_entry, since_diagnostics,  \* history: true ticks since
  timeouts             \* history: waits of zero ticks since time last passed

timeVars    == <<tick, unit, since_entry, since_diagnostics>>
stateVars   == <<state, state_entered>>
gyroVars    == <<gyro_age, gyro_expired, pending>>
vars == <<timeVars, pc, sleep, stateVars, led, diagnostics_deadline,
          gyroVars, timeouts>>

Second == 10 * Deci

(* Every documented LED pattern repeats within two seconds. *)
Period == 2 * Second

AtMost(bound, n) == IF n < bound THEN n ELSE bound
Lower(a, b)      == IF a < b THEN a ELSE b

(* Tick arithmetic.  Faulty form: it does not wrap. *)
LaterUnwrapped(t, ticks) == t + ticks
Later(t, ticks) == (t + ticks) % TickMod

-----------------------------------------------------------------------------
(* tick_reached: the difference as a signed number.  Faulty form: the ticks  *)
(* are compared as they stand.                                              *)
ReachedUnwrapped(t, deadline) == t >= deadline
Reached(t, deadline) == (t - deadline) % TickMod < TickMod \div 2

(* imu_led_step *)
LedStep(s, phase) ==
  IF s = "fault_retry"
  THEN <<[ticks |-> Deci,     next |-> 1, on |-> TRUE],
         [ticks |-> Deci,     next |-> 2, on |-> FALSE],
         [ticks |-> Deci,     next |-> 3, on |-> TRUE],
         [ticks |-> 7 * Deci, next |-> 0, on |-> FALSE]>>[phase + 1]
  ELSE IF phase = 0 THEN [ticks |-> Deci, next |-> 1, on |-> TRUE]
  ELSE [ticks |-> CASE s = "calibrating"  -> Deci
                    [] s = "running"      -> 19 * Deci
                    [] s = "initializing" -> 9 * Deci,
        next |-> 0, on |-> FALSE]

(* An iteration of update_state_led.  The faulty form restarts the phase at  *)
(* the time it was noticed.                                                 *)
AdvanceLedFrom(l, s, from) ==
  LET step == LedStep(s, l.phase)
  IN  [deadline |-> Later(from, step.ticks), phase |-> step.next, on |-> step.on]
AdvanceLedLate(l, s) == AdvanceLedFrom(l, s, tick)
AdvanceLed(l, s)     == AdvanceLedFrom(l, s, l.deadline)

(* The loop of update_state_led: each iteration moves the deadline by a tick *)
(* at least.                                                                *)
LedAfter[n \in 0 .. MaxLate + 2] ==
  IF n = 0 THEN led
  ELSE IF Reached(tick, LedAfter[n - 1].deadline)
       THEN AdvanceLed(LedAfter[n - 1], state) ELSE LedAfter[n - 1]
UpdateStateLed == LedAfter[MaxLate + 2]

(* log_diagnostics_if_due *)
LogDiagnostics ==
  IF Reached(tick, diagnostics_deadline)
  THEN diagnostics_deadline' = Later(tick, Second) /\ since_diagnostics' = 0
  ELSE UNCHANGED <<diagnostics_deadline, since_diagnostics>>

(* transition_state to another state; the deadline it sets is reached at     *)
(* once, and the next one is not.  Faulty form: the entry is not timed.      *)
TransitionUntimed(s) ==
  /\ state' = s /\ UNCHANGED state_entered /\ since_entry' = 0
  /\ led' = AdvanceLed([led EXCEPT !.deadline = tick, !.phase = 0], s)
Transition(s) ==
  /\ state' = s /\ state_entered' = tick /\ since_entry' = 0
  /\ led' = AdvanceLed([led EXCEPT !.deadline = tick, !.phase = 0], s)

Stay == UNCHANGED <<stateVars, led, since_entry>>

(* imu_gyro_expiry_delay_us.  A running estimate has a gyro time stamp:      *)
(* RunningHasTimestamp of ImuService.                                       *)
ExpiryDelay == IF gyro_age >= ExpiryAge THEN 0 ELSE ExpiryAge - gyro_age
ExpiryDue   == state = "running" /\ ~pending /\ ~gyro_expired /\ ExpiryDelay = 0

(* imu_housekeeping_wait_ticks *)
TicksTo(deadline) ==
  IF Reached(tick, deadline) THEN 0 ELSE (deadline - tick) % TickMod

WaitForLed == TicksTo(led.deadline)
LedAndDiagnosticsWait == Lower(WaitForLed, TicksTo(diagnostics_deadline))

(* housekeeping_wait.  Faulty forms: the ticks to the expiry are rounded     *)
(* down; the expiry is not waited for; the diagnostics are not.             *)
WaitUntilExpiry(ticks) ==
  IF state = "running" /\ ~gyro_expired /\ ~pending
  THEN Lower(ticks, LedAndDiagnosticsWait) ELSE LedAndDiagnosticsWait
WaitRoundedDown == WaitUntilExpiry(ExpiryDelay \div Sub)
WaitWithoutExpiry == LedAndDiagnosticsWait
WaitWithoutDiagnostics == Lower(WaitForLed, (ExpiryDelay + Sub - 1) \div Sub)
HousekeepingWait == WaitUntilExpiry((ExpiryDelay + Sub - 1) \div Sub)

-----------------------------------------------------------------------------
(* Time.  It passes while the thread sleeps, initialises the sensor, handles *)
(* a sample, and between its steps; a thread whose sleep is over or whose    *)
(* event is set runs, for no application thread is more urgent.             *)

Asleep == pc \in {"asleep", "retry_asleep"}

MayPass ==
  CASE pc = "asleep"       -> sleep > 0 /\ ~pending
    [] pc = "retry_asleep" -> sleep > 0
    [] OTHER -> /\ pc \in {"init", "wait", "handle"}
                /\ ~Reached(tick, Later(led.deadline, MaxLate))
                /\ ~Reached(tick, Later(diagnostics_deadline, MaxLate))

PassTime ==
  /\ MayPass
  /\ unit' = (unit + 1) % Sub
  /\ IF unit' = 0
     THEN /\ tick' = Later(tick, 1)
          /\ since_entry' = (since_entry + 1) % Period
          /\ since_diagnostics' = AtMost(Period, since_diagnostics + 1)
          /\ sleep' = IF Asleep THEN sleep - 1 ELSE sleep
     ELSE UNCHANGED <<tick, since_entry, since_diagnostics, sleep>>
  /\ gyro_age' = IF state = "running" THEN AtMost(ExpiryAge + Sub, gyro_age + 1)
                                     ELSE 0
  /\ pending' \in IF state \in {"calibrating", "running"} THEN {pending, TRUE}
                                                        ELSE {FALSE}
  /\ timeouts' = 0
  /\ UNCHANGED <<pc, stateVars, led, diagnostics_deadline, gyro_expired>>

-----------------------------------------------------------------------------
(* service_housekeeping, then the branch of the loop on the state *)

Branch == CASE state = "initializing" -> "init"
            [] state = "fault_retry"  -> "retry"
            [] OTHER                  -> "wait"

ServiceHousekeeping ==
  /\ pc = "loop"
  /\ gyro_expired' = (gyro_expired \/ ExpiryDue)
  /\ led' = UpdateStateLed
  /\ LogDiagnostics
  /\ pc' = Branch
  /\ UNCHANGED <<tick, unit, since_entry, sleep, stateVars, gyro_age, pending,
                 timeouts>>

(* An iteration of wait_fault_retry.  The LED is brought up to date; on the   *)
(* way out the transition takes it over.  The delay is never 0, for the LED's *)
(* next deadline is later than the tick.                                     *)
RetryDeadline == Later(state_entered, Second)

RetryOver ==
  /\ pc = "retry" /\ Reached(tick, RetryDeadline)
  /\ LogDiagnostics
  /\ Transition("initializing")
  /\ pending' = FALSE
  /\ pc' = "loop"
  /\ UNCHANGED <<tick, unit, sleep, gyro_age, gyro_expired, timeouts>>

RetryDelay ==
  /\ pc = "retry" /\ ~Reached(tick, RetryDeadline)
  /\ LogDiagnostics
  /\ led' = UpdateStateLed
  /\ sleep' = Lower((led'.deadline - tick) % TickMod,
                    (RetryDeadline - tick) % TickMod)
  /\ pc' = "retry_asleep"
  /\ UNCHANGED <<tick, unit, since_entry, stateVars, gyroVars, timeouts>>

RetryWakes ==
  /\ pc = "retry_asleep" /\ sleep = 0
  /\ pc' = "retry"
  /\ UNCHANGED <<timeVars, sleep, stateVars, led, diagnostics_deadline,
                 gyroVars, timeouts>>

(* initialize_sensor *)
InitializeSensor ==
  /\ pc = "init"
  /\ \/ Transition("fault_retry") /\ UNCHANGED <<gyro_expired, pending>>
     \/ Transition("calibrating") /\ gyro_expired' = FALSE /\ pending' = FALSE
  /\ pc' = "loop"
  /\ UNCHANGED <<tick, unit, since_diagnostics, sleep,
                 diagnostics_deadline, gyro_age, timeouts>>

-----------------------------------------------------------------------------
(* rt_event_recv with its timeout, in imu_thread_entry *)

Wait ==
  /\ pc = "wait"
  /\ sleep' = HousekeepingWait
  /\ IF pending THEN pc' = "handle" /\ UNCHANGED timeouts
     ELSE IF sleep' = 0 THEN pc' = "loop" /\ timeouts' = AtMost(2, timeouts + 1)
     ELSE pc' = "asleep" /\ UNCHANGED timeouts
  /\ UNCHANGED <<timeVars, stateVars, led, diagnostics_deadline, gyroVars>>

(* An event of either sensor, or the timeout. *)
Wake ==
  /\ pc = "asleep"
  /\ \/ pc' = "handle"
     \/ sleep = 0 /\ ~pending /\ pc' = "loop"
  /\ sleep' = 0
  /\ UNCHANGED <<timeVars, stateVars, led, diagnostics_deadline,
                 gyroVars, timeouts>>

(* process_gyro of an accepted sample, which may complete the calibration.   *)
AcceptGyro ==
  /\ pending
  /\ \E latched \in 0 .. gyro_age : gyro_age' = latched
  /\ gyro_expired' = FALSE /\ pending' = FALSE
  /\ Stay \/ (state = "calibrating" /\ Transition("running"))

(* Anything else: a failed or torn read, the third of which is a fault, or   *)
(* an accel sample, after which the expiry is checked too.                  *)
AcceptNothing ==
  /\ gyro_expired' \in {gyro_expired, gyro_expired \/ ExpiryDue}
  /\ pending' \in {pending, FALSE}
  /\ Stay \/ Transition("fault_retry")
  /\ UNCHANGED gyro_age

HandleSample ==
  /\ pc = "handle"
  /\ AcceptGyro \/ AcceptNothing
  /\ pc' = "loop"
  /\ UNCHANGED <<tick, unit, since_diagnostics, sleep,
                 diagnostics_deadline, timeouts>>

-----------------------------------------------------------------------------

(* log_initial_state, at any tick. *)
Init ==
  /\ tick \in 0 .. TickMod - 1 /\ unit = 0
  /\ pc = "loop" /\ sleep = 0
  /\ state = "initializing" /\ state_entered = tick
  /\ led = AdvanceLed([deadline |-> tick, phase |-> 0, on |-> FALSE], state)
  /\ diagnostics_deadline = Later(tick, Second)
  /\ gyro_age = 0 /\ gyro_expired = FALSE /\ pending = FALSE
  /\ since_entry = 0 /\ since_diagnostics = 0 /\ timeouts = 0

Thread ==
  \/ ServiceHousekeeping \/ RetryOver \/ RetryDelay \/ RetryWakes
  \/ InitializeSensor
  \/ Wait \/ Wake \/ HandleSample

Next == PassTime \/ Thread

Spec == Init /\ [][Next]_vars
-----------------------------------------------------------------------------
(* Properties *)

TypeOK ==
  /\ tick \in 0 .. TickMod - 1 /\ unit \in 0 .. Sub - 1
  /\ sleep \in 0 .. Period
  /\ pc \in {"loop", "init", "wait", "asleep", "handle", "retry", "retry_asleep"}
  /\ state \in {"initializing", "calibrating", "running", "fault_retry"}
  /\ state_entered \in 0 .. TickMod - 1
  /\ led \in [deadline : 0 .. TickMod - 1, phase : 0 .. 3, on : BOOLEAN]
  /\ diagnostics_deadline \in 0 .. TickMod - 1
  /\ gyro_age \in 0 .. ExpiryAge + Sub
  /\ {gyro_expired, pending} \subseteq BOOLEAN
  /\ since_entry \in 0 .. Period - 1 /\ since_diagnostics \in 0 .. Period
  /\ timeouts \in 0 .. 2

(* docs/requirements/firmware-behavior.md: the LED at a time t after the     *)
(* state was entered.                                                       *)
LitAt(s, t) ==
  CASE s = "initializing" -> t % Second < Deci
    [] s = "calibrating"  -> t % (2 * Deci) < Deci
    [] s = "running"      -> t % Period < Deci
    [] s = "fault_retry"  -> t % Second \in 0 .. Deci - 1
                               \cup 2 * Deci .. 3 * Deci - 1

(* Whenever the thread sleeps the LED shows the documented pattern of the     *)
(* state it is in, in phase with the time of entry, however late earlier    *)
(* toggles were and wherever the tick counter wraps: it never sleeps past   *)
(* the next toggle.  (sleep = 0: it is about to toggle.)                    *)
LedShowsState == Asleep /\ sleep > 0 => led.on = LitAt(state, since_entry)

(* The expiry of the gyro is noticed within a tick, though the thread waits  *)
(* in ticks of one clock for an age measured by another.                    *)
ExpiryOnTime ==
  pc = "asleep" /\ state = "running" /\ ~pending /\ ~gyro_expired
    => gyro_age < ExpiryAge + Sub

(* The diagnostics are submitted every second                               *)
(* (docs/requirements/firmware-behavior.md:71): the thread never sleeps past *)
(* a second since the last ones, in the loop or in wait_fault_retry.        *)
DiagnosticsEverySecond == Asleep => since_diagnostics <= Second

(* What housekeeping_wait does for it: the loop never sleeps past the second. *)
DiagnosticsOnTime == pc = "asleep" => since_diagnostics <= Second

(* They are never submitted more often, so they cannot flood the log.        *)
DiagnosticsNotEarly ==
  [][ since_diagnostics' = 0 => since_diagnostics \in {0} \cup Second .. Period ]_vars

(* The most urgent thread never spins on timeouts of zero ticks: such a wait *)
(* is always followed by housekeeping that removes its cause.               *)
NoSpin == timeouts <= 1

(* imu_thread_entry: whatever delays the thread, every deadline finds its loop *)
(* awake in time, and it does not wake for nothing.                         *)
OnTime == TypeOK /\ ExpiryOnTime /\ DiagnosticsOnTime /\ NoSpin

(* A fault is left after a full second, and no later than a handler may have  *)
(* delayed the loop, whatever the LED and the diagnostics woke it for.       *)
RetryTakesASecond ==
  [][ state = "fault_retry" /\ state' = "initializing"
        => since_entry \in Second .. Second + MaxLate + 1 ]_vars

(* service_diagnostics, wait_fault_retry: what is due after a second is never *)
(* done earlier, whatever the thread is woken for and wherever the tick     *)
(* counter wraps.                                                           *)
NotEarly == DiagnosticsNotEarly /\ RetryTakesASecond
=============================================================================
