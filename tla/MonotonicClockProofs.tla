------------------------ MODULE MonotonicClockProofs ------------------------
(***************************************************************************)
(* For every counter range and every range of the high word, a time stamp  *)
(* is exact and no overflow of the counter is lost or counted twice.       *)
(***************************************************************************)
EXTENDS MonotonicClock, TLAPS

-----------------------------------------------------------------------------
(* The inductive invariant *)

(* An update is flagged or being counted, never both, and the counter is    *)
(* then in its lower half: what timestamp_extender_compose relies on.       *)
UpdateInv ==
  /\ clock_initialized => nvic_enabled /\ counting
  /\ isr = "count" => clock_initialized /\ ~update_flag
  /\ clock_initialized /\ (update_flag \/ isr = "count") => counter < Half

(* Since the counter was read, either it has not wrapped or it was read in   *)
(* its upper half.                                                          *)
NotWrapped ==
  /\ low_word <= counter /\ counter < low_word + Half
  /\ at_read = <<period, low_word>>

Wrapped ==
  /\ counter < low_word /\ Half <= low_word /\ update_flag
  /\ at_read = <<high_word, low_word>>

ReaderInv ==
  /\ now_us # "idle" => clock_initialized
  /\ now_us \in {"counter", "flag"} =>
       isr = "idle" /\ high_word = timestamp_high_word
  /\ now_us = "flag" => NotWrapped \/ Wrapped
  /\ StampExact

IInv == ClockTypes /\ HighWordTracks /\ UpdateInv /\ ReaderInv

-----------------------------------------------------------------------------

(* The high word stays in its range. *)
LEMMA NextHighRange ==
  ASSUME NEW h \in 0 .. HighMod - 1
  PROVE  NextHigh(h) \in 0 .. HighMod - 1
  BY ClockAssumption DEF NextHigh

(* The stamp of an empty clock. *)
LEMMA ZeroInRange ==
  /\ 0 \in 0 .. HighMod - 1 /\ 0 \in 0 .. CounterMod - 1
  /\ <<0, 0>> \in Time
<1>1. 0 \in 0 .. HighMod - 1 /\ 0 \in 0 .. CounterMod - 1
  BY ClockAssumption DEF CounterMod
<1> QED BY <1>1 DEF Time

LEMMA InitIInv == ClockStart => IInv
  BY ZeroInRange, ClockAssumption
  DEF ClockStart, IInv, ClockTypes, HighWordTracks, UpdateInv, ReaderInv, StampExact

LEMMA NextIInv == IInv /\ [ClockNext]_clockVars => IInv'
<1> SUFFICES ASSUME IInv, [ClockNext]_clockVars
             PROVE  IInv'
  OBVIOUS
<1> USE ClockAssumption, NextHighRange, ZeroInRange DEF IInv
<1>1. CASE Tick
  <2>1. ClockTypes'
    <3>1. counter' \in 0 .. CounterMod - 1
      BY <1>1 DEF ClockTypes, Tick, NextCounter, CounterMod
    <3> QED BY <1>1, <3>1 DEF ClockTypes, Tick, setupVars, readVars
  <2>2. HighWordTracks'
    BY <1>1 DEF ClockTypes, HighWordTracks, UpdateInv, Tick, ServedInTime,
                NextCounter, setupVars, readVars, CounterMod
  <2>3. UpdateInv'
    BY <1>1 DEF ClockTypes, UpdateInv, Tick, ServedInTime, NextCounter, setupVars,
                readVars, CounterMod
  <2>4. (now_us = "flag" => NotWrapped \/ Wrapped)'
    <3>1. CASE counter' = 0
      BY <1>1, <3>1 DEF ClockTypes, HighWordTracks, UpdateInv, ReaderInv,
           NotWrapped, Wrapped, Tick, ServedInTime, NextCounter, setupVars,
           readVars, CounterMod
    <3>2. CASE counter' # 0
      BY <1>1, <3>2 DEF ClockTypes, ReaderInv, NotWrapped, Wrapped, Tick,
           ServedInTime, ReadIsShort, NextCounter, UpdateInv, setupVars, readVars,
           CounterMod
    <3> QED BY <3>1, <3>2
  <2>5. ReaderInv'
    BY <1>1, <2>4 DEF ReaderInv, StampExact, Stamp, Compose, Tick, setupVars,
                      readVars
  <2> QED BY <2>1, <2>2, <2>3, <2>5
<1>2. CASE IrqClear
  BY <1>2 DEF ClockTypes, HighWordTracks, UpdateInv, ReaderInv, StampExact, Stamp,
              Compose, IrqClear, IrqAsserted, setupVars, readVars
<1>3. CASE PeriodElapsed
  BY <1>3 DEF ClockTypes, HighWordTracks, UpdateInv, ReaderInv, StampExact, Stamp,
              Compose, PeriodElapsed, setupVars, readVars
<1>4. CASE IrqIgnored \/ UNCHANGED clockVars
  BY <1>4 DEF ClockTypes, HighWordTracks, UpdateInv, ReaderInv, StampExact, Stamp,
              Compose, NotWrapped, Wrapped, IrqIgnored, clockVars
<1>5. CASE ReadHigh
  BY <1>5 DEF ClockTypes, HighWordTracks, UpdateInv, ReaderInv, StampExact,
              ReadHigh, setupVars
<1>6. CASE ReadCounter
  BY <1>6 DEF ClockTypes, HighWordTracks, UpdateInv, ReaderInv, StampExact,
              NotWrapped, Wrapped, ReadCounter, setupVars, Time,
              CounterMod
<1>7. CASE ReadFlag
  <2>1. ClockTypes' /\ HighWordTracks' /\ UpdateInv'
    BY <1>7 DEF ClockTypes, HighWordTracks, UpdateInv, ReadFlag, setupVars
  <2>2. StampExact'
    BY <1>7 DEF ClockTypes, HighWordTracks, UpdateInv, ReaderInv, NotWrapped,
                Wrapped, StampExact, Stamp, Compose, ReadFlag, setupVars
  <2> QED BY <1>7, <2>1, <2>2 DEF ReaderInv, ReadFlag, setupVars
<1>8. CASE ReadReturns
  BY <1>8 DEF ClockTypes, HighWordTracks, UpdateInv, ReaderInv, StampExact,
              ReadReturns, setupVars
<1>9. CASE ClockInit
  BY <1>9 DEF ClockTypes, HighWordTracks, UpdateInv, ReaderInv, StampExact,
              ClockInit, Idle, FlagAtStart, readVars
<1>10. CASE ClockInitFails
  BY <1>10 DEF ClockTypes, HighWordTracks, UpdateInv, ReaderInv, StampExact,
               ClockInitFails, Idle, setupVars, readVars
<1>11. CASE CleanupMark
  BY <1>11 DEF ClockTypes, HighWordTracks, UpdateInv, ReaderInv, StampExact,
               CleanupMark, Idle, readVars
<1>12. CASE CleanupTimer
  BY <1>12 DEF ClockTypes, HighWordTracks, UpdateInv, ReaderInv, StampExact,
               CleanupTimer, Idle, readVars
<1> QED
  BY <1>1, <1>2, <1>3, <1>4, <1>5, <1>6, <1>7, <1>8, <1>9, <1>10, <1>11, <1>12
  DEF ClockNext, Handler, Reader

LEMMA Invariance == ClockSpec => []IInv
  BY InitIInv, NextIInv, PTL DEF ClockSpec

-----------------------------------------------------------------------------

(* Every variable of the clock stays in its range. *)
THEOREM ClockTypeOK == ClockSpec => []ClockTypes
<1>1. IInv => ClockTypes
  BY DEF IInv
<1> QED BY <1>1, Invariance, PTL

(* monotonic_clock_now_us: the composed time stamp is the true time at which  *)
(* the counter was read, for every interleaving with the counter and with    *)
(* the update interrupt.                                                     *)
THEOREM ClockStampExact == ClockSpec => []StampExact
<1>1. IInv => StampExact
  BY DEF IInv, ReaderInv
<1> QED BY <1>1, Invariance, PTL

(* HAL_TIM_PeriodElapsedCallback: the high word lags the true period exactly  *)
(* while an update is outstanding.                                           *)
THEOREM ClockHighWordTracks == ClockSpec => []HighWordTracks
<1>1. IInv => HighWordTracks
  BY DEF IInv
<1> QED BY <1>1, Invariance, PTL
=============================================================================
