---------------------------- MODULE MonotonicClock ----------------------------
(***************************************************************************)
(* The 32-bit microsecond clock of platform/time/monotonic_clock_stm32.c   *)
(* and modules/timing/timestamp_extender.c: TIM2 counts 16 bits, its       *)
(* update interrupt counts the high word, and monotonic_clock_now_us reads *)
(* the high word, the counter and the update flag, in this order, with     *)
(* interrupts off while the counter keeps running.                         *)
(*                                                                         *)
(* A time stamp is the pair of its 16-bit halves: the code concatenates    *)
(* them.  period counts the overflows of the counter; it is what the high  *)
(* word should be.                                                         *)
(***************************************************************************)
EXTENDS Naturals

CONSTANTS
  Half,     \* half the range of the counter: 0x8000 in the code
  HighMod   \* the range of the high word: 2^16 in the code

ASSUME ClockAssumption == Half \in Nat \ {0} /\ HighMod \in Nat \ {0}

CounterMod == 2 * Half

VARIABLES
  clock_initialized,
  nvic_enabled,          \* the TIM2 interrupt is enabled
  counting,              \* TIM2 is enabled
  counter,
  update_flag,           \* TIM_FLAG_UPDATE
  timestamp_high_word,
  isr,                   \* where the TIM2 handler is
  now_us,                \* where monotonic_clock_now_us is, interrupts masked
  high_word, low_word, update_pending,  \* its locals
  period,                \* overflows of the counter since it was started
  at_read                \* the true time when the counter was read

clockVars ==
  <<clock_initialized, nvic_enabled, counting, counter, update_flag,
    timestamp_high_word, isr, now_us, high_word, low_word, update_pending,
    period, at_read>>

readVars  == <<now_us, high_word, low_word, update_pending, at_read>>
setupVars == <<clock_initialized, nvic_enabled, counting>>

Time == (0 .. HighMod - 1) \X (0 .. CounterMod - 1)

-----------------------------------------------------------------------------
(* timestamp_extender_compose *)

(* Faulty form: the 16-bit high word does not wrap. *)
NextHighUnbounded(h) == h + 1
NextHigh(h) == (h + 1) % HighMod

(* Faulty form: a pending update always belongs to the counter value. *)
ComposeNaive(high, low, pending) ==
  <<IF pending THEN NextHigh(high) ELSE high, low>>

Compose(high, low, pending) ==
  <<IF pending /\ low < Half THEN NextHigh(high) ELSE high, low>>

Stamp == Compose(high_word, low_word, update_pending)

-----------------------------------------------------------------------------
(* TIM2.  Two bounds on the code around it: the update interrupt is served   *)
(* within half a period (32.8 ms), and the masked read takes less than that. *)

ServedInTime == update_flag \/ isr = "count" => counter + 1 < Half

NextCounter == IF counter + 1 = CounterMod THEN 0 ELSE counter + 1

ReadIsShort ==
  now_us = "flag" =>
    IF NextCounter >= low_word THEN NextCounter < low_word + Half
                               ELSE NextCounter + CounterMod < low_word + Half

Tick ==
  /\ counting /\ ServedInTime /\ ReadIsShort
  /\ counter' = NextCounter
  /\ IF counter' = 0
     THEN update_flag' = TRUE /\ period' = NextHigh(period)
     ELSE UNCHANGED <<update_flag, period>>
  /\ UNCHANGED <<setupVars, timestamp_high_word, isr, readVars>>

-----------------------------------------------------------------------------
(* TIM2_IRQHandler: HAL_TIM_IRQHandler clears the flag, then calls back.    *)
(* EXTI15_10 has the same priority and cannot read the clock in between.    *)

IrqAsserted == nvic_enabled /\ update_flag

Idle == isr = "idle" /\ now_us = "idle" /\ ~IrqAsserted

IrqClear ==
  /\ IrqAsserted /\ clock_initialized /\ isr = "idle"
  /\ now_us \in {"idle", "compose"}
  /\ update_flag' = FALSE
  /\ isr' = "count"
  /\ UNCHANGED <<setupVars, counter, timestamp_high_word, readVars, period>>

PeriodElapsed ==
  /\ isr = "count"
  /\ timestamp_high_word' = NextHigh(timestamp_high_word)
  /\ isr' = "idle"
  /\ UNCHANGED <<setupVars, counter, update_flag, readVars, period>>

(* After clock_initialized is cleared the handler leaves the flag set. *)
IrqIgnored ==
  /\ IrqAsserted /\ ~clock_initialized
  /\ UNCHANGED clockVars

-----------------------------------------------------------------------------
(* monotonic_clock_now_us *)

(* The caller, a thread or the EXTI15_10 handler, may mask interrupts while *)
(* the update interrupt is already asserted.                                *)
ReadHigh ==
  /\ now_us = "idle" /\ isr = "idle" /\ clock_initialized
  /\ high_word' = timestamp_high_word
  /\ now_us' = "counter"
  /\ UNCHANGED <<setupVars, counter, update_flag, timestamp_high_word, isr,
                 low_word, update_pending, period, at_read>>

ReadCounter ==
  /\ now_us = "counter"
  /\ low_word' = counter
  /\ at_read' = <<period, counter>>
  /\ now_us' = "flag"
  /\ UNCHANGED <<setupVars, counter, update_flag, timestamp_high_word, isr,
                 high_word, update_pending, period>>

ReadFlag ==
  /\ now_us = "flag"
  /\ update_pending' = update_flag
  /\ now_us' = "compose"
  /\ UNCHANGED <<setupVars, counter, update_flag, timestamp_high_word, isr,
                 high_word, low_word, period, at_read>>

ReadReturns ==
  /\ now_us = "compose"
  /\ now_us' = "idle"
  /\ UNCHANGED <<setupVars, counter, update_flag, timestamp_high_word, isr,
                 high_word, low_word, update_pending, period, at_read>>

-----------------------------------------------------------------------------
(* monotonic_clock_init and monotonic_clock_deinit *)

(* Loading the prescaler in HAL_TIM_Base_Init raises an update event: the   *)
(* flag it leaves is cleared before the interrupt is enabled.  The faulty   *)
(* form keeps it.                                                           *)
StaleFlag   == TRUE
FlagAtStart == FALSE

ClockInit ==
  /\ Idle /\ ~clock_initialized /\ ~counting
  /\ timestamp_high_word' = 0
  /\ counter' = 0 /\ period' = 0
  /\ update_flag' = FlagAtStart
  /\ clock_initialized' = TRUE /\ nvic_enabled' = TRUE /\ counting' = TRUE
  /\ UNCHANGED <<isr, readVars>>

(* HAL_TIM_Base_Init or HAL_TIM_Base_Start_IT fails: cleanup_clock. *)
ClockInitFails ==
  /\ Idle /\ ~clock_initialized /\ ~counting
  /\ timestamp_high_word' = 0
  /\ UNCHANGED <<setupVars, counter, update_flag, isr, readVars, period>>

(* cleanup_clock, in its order. *)
CleanupMark ==
  /\ Idle /\ clock_initialized
  /\ clock_initialized' = FALSE
  /\ UNCHANGED <<nvic_enabled, counting, counter, update_flag,
                 timestamp_high_word, isr, readVars, period>>

CleanupTimer ==
  /\ Idle /\ ~clock_initialized /\ counting
  /\ nvic_enabled' = FALSE /\ counting' = FALSE
  /\ update_flag' = FALSE
  /\ timestamp_high_word' = 0
  /\ UNCHANGED <<clock_initialized, counter, isr, readVars, period>>

ClockStart ==
  /\ clock_initialized = FALSE /\ nvic_enabled = FALSE /\ counting = FALSE
  /\ counter = 0 /\ update_flag = FALSE /\ timestamp_high_word = 0
  /\ isr = "idle" /\ now_us = "idle"
  /\ high_word = 0 /\ low_word = 0 /\ update_pending = FALSE
  /\ period = 0 /\ at_read = <<0, 0>>

Handler == IrqClear \/ PeriodElapsed \/ IrqIgnored
Reader  == ReadHigh \/ ReadCounter \/ ReadFlag \/ ReadReturns

ClockNext ==
  \/ Tick
  \/ Handler
  \/ Reader
  \/ ClockInit \/ ClockInitFails \/ CleanupMark \/ CleanupTimer

ClockSpec == ClockStart /\ [][ClockNext]_clockVars

(* The thread in cleanup_clock gets the core again whenever no handler       *)
(* claims it.                                                               *)
ClockFairSpec == ClockSpec /\ SF_clockVars(CleanupTimer)
-----------------------------------------------------------------------------
(* Properties *)

ClockTypes ==
  /\ clock_initialized \in BOOLEAN
  /\ nvic_enabled \in BOOLEAN
  /\ counting \in BOOLEAN
  /\ counter \in 0 .. CounterMod - 1
  /\ update_flag \in BOOLEAN
  /\ timestamp_high_word \in 0 .. HighMod - 1
  /\ isr \in {"idle", "count"}
  /\ now_us \in {"idle", "counter", "flag", "compose"}
  /\ high_word \in 0 .. HighMod - 1
  /\ low_word \in 0 .. CounterMod - 1
  /\ update_pending \in BOOLEAN
  /\ period \in 0 .. HighMod - 1
  /\ at_read \in Time

(* The composed stamp is the true time at which the counter was read,       *)
(* whether the counter wraps before, between or after the three reads and   *)
(* whether or not the update interrupt has been served yet.                 *)
StampExact == now_us = "compose" => Stamp = at_read

(* No overflow is counted twice or lost: the high word is behind the true   *)
(* period exactly while an update is flagged or being counted.              *)
HighWordTracks ==
  clock_initialized =>
    period = IF update_flag \/ isr = "count" THEN NextHigh(timestamp_high_word)
                                             ELSE timestamp_high_word

(* cleanup_clock, once begun, stops TIM2: what its comment                  *)
(* (platform/time/monotonic_clock_stm32.c:20) says it does.                 *)
CleanupStops == ~clock_initialized /\ counting ~> ~counting
=============================================================================
