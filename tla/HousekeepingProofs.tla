--------------------------- MODULE HousekeepingProofs ---------------------------
(***************************************************************************)
(* For every range of the tick counter, tick rate and lateness: the LED    *)
(* shows the documented pattern whenever the thread sleeps, and nothing    *)
(* that is due finds the thread asleep, comes early or makes it spin.      *)
(*                                                                         *)
(* The proof speaks of the signed distance from the tick to a deadline     *)
(* instead of the wrapped numbers; the lemmas on Lead are where the wrap   *)
(* of the counter is dealt with, once.                                     *)
(***************************************************************************)
EXTENDS Housekeeping, WellFoundedInduction, TLAPS

-----------------------------------------------------------------------------
(* The inductive invariant *)

Half == TickMod \div 2

(* The ticks from t to d, negative if d has passed. *)
Lead(t, d) ==
  LET n == (d - t) % TickMod IN IF n <= Half THEN n ELSE n - TickMod

LedLead         == Lead(tick, led.deadline)
DiagnosticsLead == Lead(tick, diagnostics_deadline)
RetryLead       == Lead(tick, RetryDeadline)

(* Where the thread is goes with the state. *)
BranchInv ==
  /\ pc = "init" => state = "initializing"
  /\ pc \in {"wait", "asleep", "handle"} => state \in {"calibrating", "running"}
  /\ pc \in {"retry", "retry_asleep"} => state = "fault_retry"
  /\ state = "fault_retry" => pc \in {"loop", "retry", "retry_asleep"}

(* Deadlines are near, and the diagnostics' counts from the last ones. *)
DeadlineInv ==
  /\ LedLead \in -MaxLate .. 19 * Deci
  /\ DiagnosticsLead \in -(MaxLate + 7 * Deci) .. Second
  /\ since_diagnostics = AtMost(Period, Second - DiagnosticsLead)

(* A fault lasts a second from its entry. *)
FaultInv ==
  state = "fault_retry" => RetryLead \in 0 .. Second /\ since_entry = Second - RetryLead

(* The LED's pattern: its length, the time its step before a phase takes,    *)
(* and whether the LED is lit in that step.                                 *)
Cycle(s) == CASE s = "calibrating" -> 2 * Deci
              [] s = "running"     -> Period
              [] OTHER             -> Second
StepLength(s, phase) ==
  IF phase # 0 THEN Deci
  ELSE IF s = "fault_retry" THEN 7 * Deci ELSE Cycle(s) - Deci
LitBefore(phase) == phase \in {1, 3}

(* A deadline l of the LED that the tick will reach after lead ticks is the  *)
(* end of a step of the state's pattern, counted from its entry.            *)
InPattern(l, s, lead, elapsed) ==
  /\ \E q \in Int : elapsed + lead = l.phase * Deci + q * Cycle(s)
  /\ lead <= StepLength(s, l.phase)
  /\ l.on = LitBefore(l.phase)
  /\ s # "fault_retry" => l.phase \in 0 .. 1

PatternInv == InPattern(led, state, LedLead, since_entry)

(* The thread does not sleep past what it has to do. *)
SleepInv ==
  /\ pc = "asleep" => sleep <= LedLead /\ sleep <= DiagnosticsLead
  /\ pc = "retry_asleep" => /\ sleep <= LedLead /\ sleep <= RetryLead
                            /\ sleep <= DiagnosticsLead + 7 * Deci

(* When it wakes the gyro's age is within a tick of its expiry. *)
ExpiryInv ==
  pc = "asleep" /\ state = "running" /\ ~pending /\ ~gyro_expired =>
    /\ gyro_age + sleep * Sub < ExpiryAge + Sub + unit
    /\ sleep = 0 => unit = 0

(* After housekeeping nothing is due before time passes. *)
ServicedInv ==
  /\ timeouts \in 0 .. 1
  /\ pc = "wait" /\ timeouts = 1 =>
       /\ LedLead > 0 /\ DiagnosticsLead > 0
       /\ state = "running" /\ ~pending /\ ~gyro_expired => gyro_age < ExpiryAge

IInv == /\ TypeOK /\ BranchInv /\ DeadlineInv /\ FaultInv /\ PatternInv
        /\ SleepInv /\ ExpiryInv /\ ServicedInv

-----------------------------------------------------------------------------
(* Arithmetic of the tick counter *)

LEMMA Remainder ==
  ASSUME NEW M \in Nat \ {0}
  PROVE  /\ \A x \in 0 .. M - 1 : x % M = x
         /\ \A x \in M .. 2 * M - 1 : x % M = x - M
         /\ \A x \in -M .. -1 : x % M = x + M
  OBVIOUS

LEMMA Constants ==
  /\ TickMod \in Nat \ {0} /\ Deci \in Nat \ {0} /\ Sub \in Nat \ {0}
  /\ ExpiryAge \in Nat \ {0} /\ MaxLate \in Nat
  /\ Half \in Nat /\ 2 * Half <= TickMod /\ TickMod <= 2 * Half + 1
  /\ 19 * Deci + MaxLate <= Half
  /\ Second = 10 * Deci /\ Period = 20 * Deci
  BY HousekeepingAssumption DEF Half, Second, Period

Ticks == 0 .. TickMod - 1

(* The difference of two ticks in the counter's range. *)
LEMMA Difference ==
  ASSUME NEW t \in Ticks, NEW d \in Ticks
  PROVE  (d - t) % TickMod = IF d < t THEN d - t + TickMod ELSE d - t
<1> USE Constants DEF Ticks
<1>1. CASE d < t
  <2>1. d - t \in -TickMod .. -1
    BY <1>1
  <2> QED BY <1>1, <2>1, Remainder
<1>2. CASE d >= t
  <2>1. d - t \in 0 .. TickMod - 1
    BY <1>2
  <2> QED BY <1>2, <2>1, Remainder
<1> QED BY <1>1, <1>2

LEMMA LaterIs ==
  ASSUME NEW t \in Ticks, NEW n \in 0 .. Half
  PROVE  /\ Later(t, n) = IF t + n < TickMod THEN t + n ELSE t + n - TickMod
         /\ Later(t, n) \in Ticks
<1> USE Constants DEF Ticks, Later
<1>1. CASE t + n < TickMod
  <2>1. t + n \in 0 .. TickMod - 1
    BY <1>1
  <2> QED BY <1>1, <2>1, Remainder
<1>2. CASE t + n >= TickMod
  <2>1. t + n \in TickMod .. 2 * TickMod - 1
    BY <1>2
  <2>2. \A x \in TickMod .. 2 * TickMod - 1 : x % TickMod = x - TickMod
    BY Remainder
  <2>3. (t + n) % TickMod = t + n - TickMod
    BY <2>1, <2>2
  <2> QED BY <1>2, <2>3
<1> QED BY <1>1, <1>2

(* Lead is the difference of two ticks up to the wrap of the counter, and    *)
(* within half of its range it is the only such number.                     *)
LEMMA LeadIs ==
  ASSUME NEW t \in Ticks, NEW d \in Ticks
  PROVE  /\ Lead(t, d) \in -Half .. Half
         /\ Lead(t, d) \in {d - t, d - t + TickMod, d - t - TickMod}
         /\ \A l \in -Half + 1 .. Half :
              l \in {d - t, d - t + TickMod, d - t - TickMod} => Lead(t, d) = l
<1>1. (d - t) % TickMod = IF d < t THEN d - t + TickMod ELSE d - t
  BY Difference
<1> QED BY <1>1, Constants DEF Ticks, Lead

LEMMA LeadOfNow == ASSUME NEW t \in Ticks PROVE Lead(t, t) = 0
  BY LeadIs, Constants DEF Ticks

LEMMA LeadLater ==
  ASSUME NEW t \in Ticks, NEW d \in Ticks, NEW n \in 0 .. Half,
         Lead(t, d) > -Half, Lead(t, d) + n <= Half
  PROVE  Later(d, n) \in Ticks /\ Lead(t, Later(d, n)) = Lead(t, d) + n
<1>1. /\ Later(d, n) \in Ticks
      /\ Later(d, n) = IF d + n < TickMod THEN d + n ELSE d + n - TickMod
  BY LaterIs
<1>2. /\ Lead(t, d) \in -Half .. Half
      /\ Lead(t, d) \in {d - t, d - t + TickMod, d - t - TickMod}
  BY LeadIs
<1> DEFINE e == Later(d, n)  l == Lead(t, d)
<1> HIDE DEF e, l
<1>3. l + n \in {e - t, e - t + TickMod, e - t - TickMod}
  BY <1>1, <1>2, Constants DEF Ticks, e, l
<1>4. l + n \in -Half + 1 .. Half
  BY <1>2, Constants DEF l
<1>5. Lead(t, e) = l + n
  BY <1>1, <1>3, <1>4, LeadIs DEF e
<1> QED BY <1>1, <1>5 DEF e, l

LEMMA LeadTick ==
  ASSUME NEW t \in Ticks, NEW d \in Ticks, Lead(t, d) - 1 > -Half
  PROVE  Later(t, 1) \in Ticks /\ Lead(Later(t, 1), d) = Lead(t, d) - 1
<1>1. 1 \in 0 .. Half
  BY Constants
<1>2. /\ Later(t, 1) \in Ticks
      /\ Later(t, 1) = IF t + 1 < TickMod THEN t + 1 ELSE t + 1 - TickMod
  BY <1>1, LaterIs
<1>3. /\ Lead(t, d) \in -Half .. Half
      /\ Lead(t, d) \in {d - t, d - t + TickMod, d - t - TickMod}
  BY LeadIs
<1> DEFINE u == Later(t, 1)  l == Lead(t, d)
<1> HIDE DEF u, l
<1>4. l - 1 \in {d - u, d - u + TickMod, d - u - TickMod}
  BY <1>2, <1>3, Constants DEF Ticks, u, l
<1>5. l - 1 \in -Half + 1 .. Half
  BY <1>3, Constants DEF l
<1>6. Lead(u, d) = l - 1
  BY <1>2, <1>4, <1>5, LeadIs DEF u
<1> QED BY <1>2, <1>6 DEF u, l

(* tick_reached and imu_housekeeping_wait_ticks, of a deadline that is near. *)
LEMMA ReachedIs ==
  ASSUME NEW t \in Ticks, NEW d \in Ticks, Lead(t, d) > -Half
  PROVE  /\ Reached(t, d) <=> Lead(t, d) <= 0
         /\ Lead(t, d) > 0 => (d - t) % TickMod = Lead(t, d)
<1>1. (d - t) % TickMod = IF d < t THEN d - t + TickMod ELSE d - t
  BY Difference
<1>2. (t - d) % TickMod = IF t < d THEN t - d + TickMod ELSE t - d
  BY Difference
<1>3. Reached(t, d) <=> (IF t < d THEN t - d + TickMod ELSE t - d) < Half
  BY <1>2 DEF Reached, Half
<1>4. Lead(t, d) = LET n == IF d < t THEN d - t + TickMod ELSE d - t
                   IN  IF n <= Half THEN n ELSE n - TickMod
  BY <1>1 DEF Lead
<1> QED BY <1>1, <1>3, <1>4, Constants DEF Ticks

LEMMA TicksToIs ==
  ASSUME tick \in Ticks, NEW d \in Ticks, Lead(tick, d) > -Half
  PROVE  TicksTo(d) = IF Lead(tick, d) <= 0 THEN 0 ELSE Lead(tick, d)
  BY ReachedIs, LeadIs, Constants DEF TicksTo

-----------------------------------------------------------------------------
(* The LED's steps *)

States == {"initializing", "calibrating", "running", "fault_retry"}
Led    == [deadline : Ticks, phase : 0 .. 3, on : BOOLEAN]

(* imu_led_step: the step from a phase to the next one, or round to the      *)
(* beginning of the pattern.                                                *)
LEMMA LedStepIs ==
  ASSUME NEW s \in States, NEW p \in 0 .. 3, s # "fault_retry" => p \in 0 .. 1
  PROVE  \E n \in 0 .. 3 :
           /\ LedStep(s, p).ticks = StepLength(s, n) /\ LedStep(s, p).next = n
           /\ LedStep(s, p).on = LitBefore(n)
           /\ s # "fault_retry" => n \in 0 .. 1
           /\ StepLength(s, n) \in Deci .. 19 * Deci
           /\ \E c \in 0 .. 1 : p * Deci + StepLength(s, n) = n * Deci + c * Cycle(s)
<1> USE Constants
<1> DEFINE is(step, t, n, o) == step.ticks = t /\ step.next = n /\ step.on = o
<1>1. LitBefore(0) = FALSE /\ LitBefore(1) = TRUE
      /\ LitBefore(2) = FALSE /\ LitBefore(3) = TRUE
  BY DEF LitBefore
<1>2. ASSUME s = "fault_retry"
      PROVE  /\ is(LedStep(s, 0), Deci, 1, TRUE)
             /\ is(LedStep(s, 1), Deci, 2, FALSE)
             /\ is(LedStep(s, 2), Deci, 3, TRUE)
             /\ is(LedStep(s, 3), 7 * Deci, 0, FALSE)
  <2> DEFINE t == <<[ticks |-> Deci,     next |-> 1, on |-> TRUE],
                    [ticks |-> Deci,     next |-> 2, on |-> FALSE],
                    [ticks |-> Deci,     next |-> 3, on |-> TRUE],
                    [ticks |-> 7 * Deci, next |-> 0, on |-> FALSE]>>
  <2>1. \A i \in 0 .. 3 : LedStep(s, i) = t[i + 1]
    BY <1>2 DEF LedStep
  <2>2. /\ LedStep(s, 0) = t[1] /\ LedStep(s, 1) = t[2]
        /\ LedStep(s, 2) = t[3] /\ LedStep(s, 3) = t[4]
    <3> HIDE DEF t
    <3> QED BY <2>1
  <2> QED BY <2>2
<1>3. ASSUME s # "fault_retry"
      PROVE  /\ is(LedStep(s, 0), Deci, 1, TRUE)
             /\ is(LedStep(s, 1), Cycle(s) - Deci, 0, FALSE)
  <2>1. is(LedStep(s, 0), Deci, 1, TRUE)
    BY <1>3 DEF LedStep
  <2>2. LedStep(s, 1).next = 0 /\ LedStep(s, 1).on = FALSE
    BY <1>3 DEF LedStep
  <2>3. LedStep(s, 1).ticks = Cycle(s) - Deci
    BY <1>3 DEF LedStep, Cycle, States
  <2> QED BY <2>1, <2>2, <2>3
<1>4. Cycle(s) \in {2 * Deci, 10 * Deci, 20 * Deci}
  BY DEF Cycle, States
<1> HIDE DEF is
<1>5. CASE s = "fault_retry" /\ p \in 0 .. 2
  <2>1. PICK n \in 1 .. 3 : n = p + 1
    BY <1>5
  <2>2. StepLength(s, n) = Deci
    BY <2>1 DEF StepLength
  <2>3. is(LedStep(s, p), Deci, n, LitBefore(n))
    <3>1. CASE p = 0
      <4>1. n = 1
        BY <2>1, <3>1
      <4> QED BY <1>1, <1>2, <1>5, <3>1, <4>1, Zenon
    <3>2. CASE p = 1
      <4>1. n = 2
        BY <2>1, <3>2
      <4> QED BY <1>1, <1>2, <1>5, <3>2, <4>1, Zenon
    <3>3. CASE p = 2
      <4>1. n = 3
        BY <2>1, <3>3
      <4> QED BY <1>1, <1>2, <1>5, <3>3, <4>1, Zenon
    <3> QED BY <1>5, <3>1, <3>2, <3>3
  <2>4. p * Deci + Deci = n * Deci + 0 * Cycle(s)
    BY <1>4, <1>5, <2>1
  <2> QED BY <1>5, <2>1, <2>2, <2>3, <2>4 DEF is
<1>6. CASE s = "fault_retry" /\ p = 3
  <2>1. StepLength(s, 0) = 7 * Deci /\ Cycle(s) = 10 * Deci
    BY <1>6 DEF StepLength, Cycle
  <2>2. p * Deci + 7 * Deci = 0 * Deci + 1 * Cycle(s)
    BY <1>6, <2>1
  <2>3. is(LedStep(s, p), 7 * Deci, 0, LitBefore(0))
    BY <1>1, <1>2, <1>6
  <2> QED BY <1>6, <2>1, <2>2, <2>3 DEF is
<1>7. CASE s # "fault_retry" /\ p = 0
  <2>1. StepLength(s, 1) = Deci
    BY DEF StepLength
  <2>2. p * Deci + Deci = 1 * Deci + 0 * Cycle(s)
    BY <1>4, <1>7
  <2>3. is(LedStep(s, p), Deci, 1, LitBefore(1))
    BY <1>1, <1>3, <1>7
  <2> QED BY <1>7, <2>1, <2>2, <2>3 DEF is
<1>8. CASE s # "fault_retry" /\ p = 1
  <2>1. StepLength(s, 0) = Cycle(s) - Deci
    BY <1>8 DEF StepLength
  <2>2. p * Deci + (Cycle(s) - Deci) = 0 * Deci + 1 * Cycle(s)
    BY <1>4, <1>8
  <2>3. is(LedStep(s, p), Cycle(s) - Deci, 0, LitBefore(0))
    BY <1>1, <1>3, <1>8
  <2>4. StepLength(s, 0) \in Deci .. 19 * Deci
    BY <1>4, <2>1
  <2> QED BY <1>8, <2>1, <2>2, <2>3, <2>4 DEF is
<1> QED BY <1>5, <1>6, <1>7, <1>8

(* An iteration of update_state_led moves the deadline by the step's time,    *)
(* however late it is, so that it stays in the state's pattern.             *)
LEMMA AdvanceInPattern ==
  ASSUME tick \in Ticks, NEW s \in States, NEW l \in Led, NEW e \in Nat,
         Lead(tick, l.deadline) \in -MaxLate .. 0,
         InPattern(l, s, Lead(tick, l.deadline), e)
  PROVE  /\ AdvanceLed(l, s) \in Led
         /\ Lead(tick, AdvanceLed(l, s).deadline)
              \in Lead(tick, l.deadline) + 1 .. 19 * Deci
         /\ InPattern(AdvanceLed(l, s), s, Lead(tick, AdvanceLed(l, s).deadline), e)
<1> USE Constants
<1> DEFINE m == AdvanceLed(l, s)  k == Lead(tick, l.deadline)
<1>1. l.deadline \in Ticks /\ l.phase \in 0 .. 3
  BY DEF Led
<1>2. s # "fault_retry" => l.phase \in 0 .. 1
  BY DEF InPattern
<1>3. PICK n \in 0 .. 3 :
        /\ LedStep(s, l.phase).ticks = StepLength(s, n)
        /\ LedStep(s, l.phase).next = n /\ LedStep(s, l.phase).on = LitBefore(n)
        /\ s # "fault_retry" => n \in 0 .. 1
        /\ StepLength(s, n) \in Deci .. 19 * Deci
        /\ \E c \in 0 .. 1 :
             l.phase * Deci + StepLength(s, n) = n * Deci + c * Cycle(s)
  BY <1>1, <1>2, LedStepIs
<1>4. m = [deadline |-> Later(l.deadline, StepLength(s, n)), phase |-> n,
           on |-> LitBefore(n)]
  BY <1>3 DEF AdvanceLed, AdvanceLedFrom
<1>5. /\ Later(l.deadline, StepLength(s, n)) \in Ticks
      /\ Lead(tick, Later(l.deadline, StepLength(s, n))) = k + StepLength(s, n)
  BY <1>1, <1>3, LeadLater
<1>6. m \in Led
  BY <1>4, <1>5 DEF Led, LitBefore
<1>7. Lead(tick, m.deadline) = k + StepLength(s, n)
  BY <1>4, <1>5
<1>8. InPattern(m, s, k + StepLength(s, n), e)
  <2>1. PICK q \in Int : e + k = l.phase * Deci + q * Cycle(s)
    BY DEF InPattern
  <2>2. PICK c \in 0 .. 1 :
          l.phase * Deci + StepLength(s, n) = n * Deci + c * Cycle(s)
    BY <1>3
  <2>3. /\ Cycle(s) \in Int /\ l.phase * Deci \in Int /\ n * Deci \in Int
        /\ StepLength(s, n) \in Int /\ k \in Int
    <3>1. Cycle(s) \in Int
      BY DEF Cycle, States
    <3> QED BY <1>1, <1>3, <3>1
  <2>4. (q + c) * Cycle(s) = q * Cycle(s) + c * Cycle(s)
    BY <2>3
  <2>5. e + (k + StepLength(s, n)) = n * Deci + (q + c) * Cycle(s)
    <3> DEFINE whole == q * Cycle(s)  round == c * Cycle(s)  sum == (q + c) * Cycle(s)
               from == l.phase * Deci  to == n * Deci  length == StepLength(s, n)
    <3>1. whole \in Int /\ round \in Int /\ sum = whole + round
      BY <2>3, <2>4
    <3>2. from \in Int /\ to \in Int /\ length \in Int /\ k \in Int
      BY <2>3
    <3>3. e + k = from + whole /\ from + length = to + round
      BY <2>1, <2>2
    <3> HIDE DEF whole, round, sum, from, to, length, k
    <3>4. e + (k + length) = to + sum
      BY <3>1, <3>2, <3>3
    <3> QED BY <3>4 DEF sum, to, length
  <2>6. \E r \in Int : e + (k + StepLength(s, n)) = n * Deci + r * Cycle(s)
    BY <2>5
  <2> QED BY <1>3, <1>4, <2>6 DEF InPattern
<1> QED BY <1>3, <1>6, <1>7, <1>8

(* The loop of update_state_led.  LedAfter exists and is what its equations   *)
(* say; both by induction on the iterations.                                *)

LEMMA Least ==
  ASSUME NEW T, T \subseteq Nat, T # {}
  PROVE  \E x \in T : \A y \in T : x <= y
<1>1. PICK x \in T : \A y \in T : ~(<<y, x>> \in OpToRel(<, Nat))
  BY NatLessThanWellFounded, WFMin
<1>2. ASSUME NEW y \in T PROVE x <= y
  <2>1. x \in Nat /\ y \in Nat
    OBVIOUS
  <2>2. ~(y < x)
    BY <1>1, <2>1 DEF OpToRel
  <2> QED BY <2>1, <2>2
<1> QED BY <1>2

LedIteration(l) == IF Reached(tick, l.deadline) THEN AdvanceLed(l, state) ELSE l

LastIteration == MaxLate + 2

LEMMA LedAfterIs ==
  /\ LedAfter[0] = led
  /\ \A n \in 1 .. LastIteration : LedAfter[n] = LedIteration(LedAfter[n - 1])
<1> USE Constants DEF LastIteration
<1> DEFINE Loop(f, k) ==
      f = [n \in 0 .. k |-> IF n = 0 THEN led ELSE LedIteration(f[n - 1])]
<1> DEFINE T == {k \in 0 .. LastIteration : ~ \E f : Loop(f, k)}
<1>1. T = {}
  <2> SUFFICES ASSUME T # {} PROVE FALSE
    OBVIOUS
  <2>1. PICK k \in T : \A j \in T : k <= j
    <3>1. T \subseteq Nat
      OBVIOUS
    <3> HIDE DEF T
    <3> QED BY <3>1, Least
  <2>2. CASE k = 0
    <3>1. Loop([n \in 0 .. 0 |-> led], 0)
      OBVIOUS
    <3> QED BY <2>1, <2>2, <3>1
  <2>3. CASE k > 0
    <3>1. k - 1 \in 0 .. LastIteration /\ k - 1 \notin T
      BY <2>1, <2>3
    <3>2. PICK f : Loop(f, k - 1)
      BY <3>1
    <3> DEFINE g == [n \in 0 .. k |-> IF n = 0 THEN led ELSE LedIteration(f[n - 1])]
    <3>3. \A n \in 1 .. k : g[n - 1] = f[n - 1]
      <4> SUFFICES ASSUME NEW n \in 1 .. k PROVE g[n - 1] = f[n - 1]
        OBVIOUS
      <4>1. n - 1 \in 0 .. k - 1 /\ n - 1 \in 0 .. k
        BY <2>1
      <4> HIDE DEF LedIteration
      <4>2. g[n - 1] = IF n - 1 = 0 THEN led ELSE LedIteration(f[n - 1 - 1])
        BY <4>1
      <4>3. f[n - 1] = IF n - 1 = 0 THEN led ELSE LedIteration(f[n - 1 - 1])
        BY <3>2, <4>1
      <4> QED BY <4>2, <4>3
    <3>4. Loop(g, k)
      <4>1. \A n \in 0 .. k : (IF n = 0 THEN led ELSE LedIteration(f[n - 1]))
                                = (IF n = 0 THEN led ELSE LedIteration(g[n - 1]))
        <5> HIDE DEF g, LedIteration
        <5> QED BY <2>1, <3>3
      <4> DEFINE h == g
      <4>2. h = [n \in 0 .. k |-> IF n = 0 THEN led ELSE LedIteration(f[n - 1])]
        OBVIOUS
      <4> HIDE DEF h, LedIteration
      <4>3. Loop(h, k)
        BY <4>1, <4>2 DEF h
      <4> QED BY <4>3 DEF h
    <3> QED BY <2>1, <3>4
  <2> QED BY <2>1, <2>2, <2>3
<1>2. \E f : Loop(f, LastIteration)
  BY <1>1
<1>3. Loop(LedAfter, LastIteration)
  BY <1>2 DEF LedAfter, LedIteration
<1> HIDE DEF LedIteration
<1> QED BY <1>3

(* update_state_led catches up with the pattern: its next deadline is later   *)
(* than now.                                                                *)
LEMMA LedUpToDate ==
  ASSUME tick \in Ticks, led \in Led, state \in States, since_entry \in Nat,
         LedLead \in -MaxLate .. 19 * Deci, PatternInv
  PROVE  /\ UpdateStateLed \in Led
         /\ Lead(tick, UpdateStateLed.deadline) \in 1 .. 19 * Deci
         /\ InPattern(UpdateStateLed, state, Lead(tick, UpdateStateLed.deadline),
                      since_entry)
<1> USE Constants DEF LastIteration
<1> DEFINE ahead(n) == Lead(tick, LedAfter[n].deadline)
           Good(n) == /\ LedAfter[n] \in Led
                      /\ ahead(n) \in -MaxLate .. 19 * Deci
                      /\ ahead(n) > 0 \/ ahead(n) >= n - MaxLate
                      /\ InPattern(LedAfter[n], state, ahead(n), since_entry)
           T == {n \in 0 .. LastIteration : ~Good(n)}
<1>1. Good(0)
  BY LedAfterIs DEF PatternInv, LedLead
<1>2. ASSUME NEW n \in 1 .. LastIteration, Good(n - 1) PROVE Good(n)
  <2> DEFINE l == LedAfter[n - 1]  k == ahead(n - 1)
  <2>1. l.deadline \in Ticks /\ k \in -MaxLate .. 19 * Deci /\ k > -Half
    <3>1. l.deadline \in Ticks
      BY <1>2 DEF Led
    <3>2. k \in -MaxLate .. 19 * Deci
      BY <1>2
    <3> HIDE DEF k, l
    <3> QED BY <3>1, <3>2
  <2>2. LedAfter[n] = LedIteration(l)
    BY LedAfterIs
  <2>3. Reached(tick, l.deadline) <=> k <= 0
    BY <2>1, ReachedIs
  <2>4. CASE k > 0
    <3>1. LedAfter[n] = l
      <4>1. ~(k <= 0)
        <5> HIDE DEF k
        <5> QED BY <2>1, <2>4
      <4> QED BY <2>2, <2>3, <4>1, Zenon DEF LedIteration
    <3> QED BY <1>2, <2>4, <3>1
  <2>5. CASE k <= 0
    <3>1. LedAfter[n] = AdvanceLed(l, state)
      BY <2>2, <2>3, <2>5, Zenon DEF LedIteration
    <3>2. k \in -MaxLate .. 0 /\ k >= n - 1 - MaxLate
      BY <1>2, <2>5
    <3>3. /\ AdvanceLed(l, state) \in Led
          /\ Lead(tick, AdvanceLed(l, state).deadline) \in k + 1 .. 19 * Deci
          /\ InPattern(AdvanceLed(l, state), state,
                       Lead(tick, AdvanceLed(l, state).deadline), since_entry)
      BY <1>2, <3>2, AdvanceInPattern
    <3>4. ahead(n) \in k + 1 .. 19 * Deci
      BY <3>1, <3>3
    <3> HIDE DEF k, l, ahead
    <3>5. ahead(n) \in -MaxLate .. 19 * Deci /\ ahead(n) >= n - MaxLate
      BY <3>2, <3>4
    <3> QED BY <3>1, <3>3, <3>5 DEF ahead
  <2> QED BY <1>2, <2>1, <2>4, <2>5
<1> HIDE DEF Good
<1>3. T = {}
  <2> SUFFICES ASSUME T # {} PROVE FALSE
    OBVIOUS
  <2>1. T \subseteq Nat
    OBVIOUS
  <2>2. PICK k \in T : \A j \in T : k <= j
    <3> HIDE DEF T
    <3> QED BY <2>1, Least
  <2>3. k \in 1 .. LastIteration
    BY <1>1, <2>2
  <2>4. k - 1 \in 0 .. LastIteration /\ k - 1 \notin T
    BY <2>2, <2>3
  <2>5. Good(k - 1)
    BY <2>4
  <2> QED BY <1>2, <2>2, <2>3, <2>5
<1>4. Good(LastIteration)
  BY <1>3
<1> QED BY <1>4 DEF Good, UpdateStateLed

(* transition_state begins the pattern of its state. *)
LEMMA LedBegins ==
  ASSUME tick \in Ticks, NEW s \in States, NEW l, l.deadline = tick, l.phase = 0
  PROVE  /\ AdvanceLed(l, s) \in Led
         /\ Lead(tick, AdvanceLed(l, s).deadline) = Deci
         /\ InPattern(AdvanceLed(l, s), s, Deci, 0)
<1> USE Constants
<1>1. /\ LedStep(s, 0).ticks = Deci /\ LedStep(s, 0).next = 1
      /\ LedStep(s, 0).on = TRUE
  BY DEF LedStep, States
<1>2. /\ Later(tick, Deci) \in Ticks /\ Lead(tick, Later(tick, Deci)) = Deci
  BY LeadOfNow, LeadLater
<1> DEFINE m == AdvanceLed(l, s)
<1>3. m.deadline = Later(tick, Deci) /\ m.phase = 1 /\ m.on = TRUE
  BY <1>1 DEF AdvanceLed, AdvanceLedFrom
<1>4. m \in Led
  <2>1. LedStep(s, 0).on \in BOOLEAN
    BY <1>1
  <2>2. LedStep(s, 0).next \in 0 .. 3 /\ Later(tick, LedStep(s, 0).ticks) \in Ticks
    BY <1>1, <1>2
  <2> QED BY <2>1, <2>2 DEF AdvanceLed, AdvanceLedFrom, Led
<1>5. LitBefore(1) = TRUE /\ StepLength(s, 1) = Deci
  BY DEF LitBefore, StepLength
<1>6. \E q \in Int : 0 + Deci = 1 * Deci + q * Cycle(s)
  <2>1. Cycle(s) \in Int
    BY DEF Cycle, States
  <2>2. 0 + Deci = 1 * Deci + 0 * Cycle(s)
    BY <2>1
  <2> QED BY <2>2
<1>7. InPattern(m, s, Deci, 0)
  <2>1. \E q \in Int : 0 + Deci = m.phase * Deci + q * Cycle(s)
    BY <1>3, <1>6
  <2>2. m.on = LitBefore(m.phase)
    BY <1>3, <1>5, Zenon
  <2>3. Deci <= StepLength(s, m.phase) /\ m.phase \in 0 .. 1
    BY <1>3, <1>5
  <2> QED BY <2>1, <2>2, <2>3 DEF InPattern
<1> QED BY <1>2, <1>3, <1>4, <1>7

-----------------------------------------------------------------------------
(* The invariant, step by step *)

LEMMA Types ==
  ASSUME TypeOK, DeadlineInv
  PROVE  /\ tick \in Ticks /\ led \in Led /\ led.deadline \in Ticks
         /\ led.phase \in 0 .. 3
         /\ diagnostics_deadline \in Ticks /\ state_entered \in Ticks
         /\ RetryDeadline \in Ticks /\ state \in States
         /\ unit \in 0 .. Sub - 1 /\ sleep \in 0 .. Period
         /\ since_entry \in 0 .. Period - 1 /\ since_diagnostics \in 0 .. Period
         /\ gyro_age \in 0 .. ExpiryAge + Sub
         /\ LedLead \in -MaxLate .. 19 * Deci
         /\ DiagnosticsLead \in -(MaxLate + 7 * Deci) .. Second
<1>1. state_entered \in Ticks /\ Second \in 0 .. Half
  BY Constants DEF TypeOK, Ticks
<1>2. RetryDeadline \in Ticks
  BY <1>1, LaterIs DEF RetryDeadline
<1> QED BY <1>2 DEF TypeOK, Ticks, Led, States, DeadlineInv

(* The deadlines and the LED are as they were. *)
DeadlinesKept ==
  UNCHANGED <<tick, stateVars, led, diagnostics_deadline, since_entry,
              since_diagnostics>>

LEMMA KeptInv ==
  ASSUME DeadlineInv, FaultInv, PatternInv, DeadlinesKept
  PROVE  /\ DeadlineInv' /\ FaultInv' /\ PatternInv'
         /\ LedLead' = LedLead /\ DiagnosticsLead' = DiagnosticsLead
         /\ RetryLead' = RetryLead
<1>1. /\ LedLead' = LedLead /\ DiagnosticsLead' = DiagnosticsLead
      /\ RetryLead' = RetryLead
  BY DEF DeadlinesKept, stateVars, LedLead, DiagnosticsLead, RetryLead, RetryDeadline
<1>2. DeadlineInv'
  BY <1>1 DEF DeadlineInv, DeadlinesKept
<1>3. FaultInv'
  BY <1>1 DEF FaultInv, DeadlinesKept, stateVars
<1>4. PatternInv'
  BY <1>1 DEF PatternInv, DeadlinesKept, stateVars
<1> QED BY <1>1, <1>2, <1>3, <1>4

(* Time that may pass leaves the deadlines within reach. *)
LEMMA PassingIsInTime ==
  ASSUME TypeOK, BranchInv, DeadlineInv, FaultInv, SleepInv, MayPass
  PROVE  /\ LedLead > -MaxLate /\ DiagnosticsLead > -(MaxLate + 7 * Deci)
         /\ Asleep => sleep > 0
         /\ state = "fault_retry" => RetryLead > 0
         /\ pc = "asleep" => ~pending
<1> USE Constants, Types
<1>1. CASE pc = "asleep"
  <2>1. sleep > 0 /\ ~pending
    BY <1>1 DEF MayPass
  <2>2. sleep <= LedLead /\ sleep <= DiagnosticsLead
    BY <1>1 DEF SleepInv
  <2>3. state # "fault_retry"
    BY <1>1 DEF BranchInv
  <2> QED BY <2>1, <2>2, <2>3
<1>2. CASE pc = "retry_asleep"
  <2>1. sleep > 0
    BY <1>2 DEF MayPass
  <2>2. /\ sleep <= LedLead /\ sleep <= RetryLead
        /\ sleep <= DiagnosticsLead + 7 * Deci
    BY <1>2 DEF SleepInv
  <2>3. state = "fault_retry" => RetryLead \in 0 .. Second
    BY DEF FaultInv
  <2> QED BY <1>2, <2>1, <2>2, <2>3
<1>3. CASE ~Asleep
  <2>1. /\ pc \in {"init", "wait", "handle"}
        /\ ~Reached(tick, Later(led.deadline, MaxLate))
        /\ ~Reached(tick, Later(diagnostics_deadline, MaxLate))
    BY <1>3 DEF MayPass, Asleep
  <2>2. /\ Later(led.deadline, MaxLate) \in Ticks
        /\ Lead(tick, Later(led.deadline, MaxLate)) = LedLead + MaxLate
    <3>1. LedLead > -Half /\ LedLead + MaxLate <= Half /\ MaxLate \in 0 .. Half
      OBVIOUS
    <3> QED BY <3>1, LeadLater DEF LedLead
  <2>3. /\ Later(diagnostics_deadline, MaxLate) \in Ticks
        /\ Lead(tick, Later(diagnostics_deadline, MaxLate)) = DiagnosticsLead + MaxLate
    <3>1. /\ DiagnosticsLead > -Half /\ DiagnosticsLead + MaxLate <= Half
          /\ MaxLate \in 0 .. Half
      OBVIOUS
    <3> QED BY <3>1, LeadLater DEF DiagnosticsLead
  <2>4. LedLead + MaxLate > 0
    <3>1. LedLead + MaxLate > -Half
      OBVIOUS
    <3> QED BY <2>1, <2>2, <3>1, ReachedIs
  <2>5. DiagnosticsLead + MaxLate > 0
    <3>1. DiagnosticsLead + MaxLate > -Half
      OBVIOUS
    <3> QED BY <2>1, <2>3, <3>1, ReachedIs
  <2>6. state # "fault_retry"
    BY <2>1 DEF BranchInv
  <2> QED BY <1>3, <2>1, <2>4, <2>5, <2>6
<1> QED BY <1>1, <1>2, <1>3 DEF Asleep

(* A pattern goes into two seconds a whole number of times, so that the      *)
(* history's wrap does not disturb it.                                      *)
LEMMA PatternGoesOn ==
  ASSUME NEW s \in States, NEW l \in Led, NEW k \in Int, NEW e \in 0 .. Period - 1,
         InPattern(l, s, k, e)
  PROVE  InPattern(l, s, k - 1, (e + 1) % Period)
<1> USE Constants
<1>1. PICK q \in Int : e + k = l.phase * Deci + q * Cycle(s)
  BY DEF InPattern
<1>2. PICK n \in {1, 2, 10} : Period = n * Cycle(s)
  BY DEF Cycle, States
<1> DEFINE from == l.phase * Deci  whole == q * Cycle(s)  less == (q - n) * Cycle(s)
<1>3. /\ from \in Int /\ whole \in Int /\ less = whole - Period
      /\ StepLength(s, l.phase) \in Int
  <2>1. Cycle(s) \in Int
    BY DEF Cycle, States
  <2>2. l.phase \in 0 .. 3
    BY DEF Led
  <2>3. (q - n) * Cycle(s) = q * Cycle(s) - n * Cycle(s)
    BY <2>1
  <2>4. StepLength(s, l.phase) \in Int
    BY <2>1, <2>2 DEF StepLength
  <2> QED BY <1>2, <2>1, <2>2, <2>3, <2>4
<1>4. \E r \in Int : ((e + 1) % Period) + (k - 1) = from + r * Cycle(s)
  <2>1. CASE e + 1 < Period
    <3>1. (e + 1) % Period = e + 1
      <4>1. e + 1 \in 0 .. Period - 1 /\ Period \in Nat \ {0}
        BY <2>1
      <4> QED BY <4>1, Remainder
    <3>2. ((e + 1) % Period) + (k - 1) = from + whole
      <4> HIDE DEF from, whole
      <4> QED BY <1>1, <1>3, <3>1 DEF from, whole
    <3> QED BY <3>2
  <2>2. CASE e + 1 = Period
    <3>1. (e + 1) % Period = 0
      BY <2>2
    <3>2. ((e + 1) % Period) + (k - 1) = from + less
      <4>1. e + k = from + whole
        BY <1>1
      <4> HIDE DEF from, whole, less
      <4> QED BY <1>3, <2>2, <3>1, <4>1
    <3> QED BY <3>2
  <2> QED BY <2>1, <2>2
<1>5. k - 1 <= StepLength(s, l.phase)
  BY <1>3 DEF InPattern
<1> QED BY <1>4, <1>5 DEF InPattern

LEMMA TickPasses ==
  ASSUME TypeOK, BranchInv, DeadlineInv, FaultInv, PatternInv, SleepInv,
         MayPass, tick' = Later(tick, 1),
         since_entry' = (since_entry + 1) % Period,
         since_diagnostics' = AtMost(Period, since_diagnostics + 1),
         UNCHANGED <<stateVars, led, diagnostics_deadline>>
  PROVE  /\ tick' \in Ticks
         /\ since_entry' \in 0 .. Period - 1 /\ since_diagnostics' \in 0 .. Period
         /\ DeadlineInv' /\ FaultInv' /\ PatternInv'
         /\ LedLead' = LedLead - 1 /\ DiagnosticsLead' = DiagnosticsLead - 1
         /\ state = "fault_retry" => RetryLead' = RetryLead - 1
<1> USE Constants, Types
<1>0. /\ LedLead > -MaxLate /\ DiagnosticsLead > -(MaxLate + 7 * Deci)
      /\ state = "fault_retry" => RetryLead > 0
  BY PassingIsInTime
<1>1. tick' \in Ticks /\ LedLead' = LedLead - 1
  <2>1. LedLead - 1 > -Half
    BY <1>0
  <2>2. Later(tick, 1) \in Ticks /\ Lead(Later(tick, 1), led.deadline) = LedLead - 1
    BY <2>1, LeadTick DEF LedLead
  <2> QED BY <2>2 DEF LedLead
<1>2. DiagnosticsLead' = DiagnosticsLead - 1
  <2>1. DiagnosticsLead - 1 > -Half
    BY <1>0
  <2>2. Lead(Later(tick, 1), diagnostics_deadline) = DiagnosticsLead - 1
    BY <2>1, LeadTick DEF DiagnosticsLead
  <2> QED BY <2>2 DEF DiagnosticsLead
<1>3. state = "fault_retry" => /\ RetryLead' = RetryLead - 1
                               /\ RetryLead \in 1 .. Second
  <2> SUFFICES ASSUME state = "fault_retry"
               PROVE  RetryLead' = RetryLead - 1 /\ RetryLead \in 1 .. Second
    OBVIOUS
  <2>1. RetryLead \in 1 .. Second
    BY <1>0 DEF FaultInv
  <2>2. RetryLead - 1 > -Half
    BY <2>1
  <2>3. Lead(Later(tick, 1), RetryDeadline) = RetryLead - 1
    BY <2>2, LeadTick DEF RetryLead
  <2>4. RetryDeadline' = RetryDeadline
    BY DEF RetryDeadline, stateVars
  <2> QED BY <2>1, <2>3, <2>4 DEF RetryLead
<1>4. since_entry' \in 0 .. Period - 1
  OBVIOUS
<1>5. /\ since_diagnostics' \in 0 .. Period
      /\ since_diagnostics' = AtMost(Period, Second - (DiagnosticsLead - 1))
  BY DEF DeadlineInv, AtMost
<1>6. DeadlineInv'
  BY <1>0, <1>1, <1>2, <1>5 DEF DeadlineInv
<1>7. FaultInv'
  <2> SUFFICES ASSUME state = "fault_retry"
               PROVE  RetryLead' \in 0 .. Second /\ since_entry' = Second - RetryLead'
    BY DEF FaultInv, stateVars
  <2>1. since_entry = Second - RetryLead
    BY DEF FaultInv
  <2>2. since_entry + 1 \in 0 .. Period - 1 /\ Period \in Nat \ {0}
    BY <1>3, <2>1
  <2>3. since_entry' = since_entry + 1
    BY <2>2, Remainder
  <2> QED BY <1>3, <2>1, <2>3
<1>8. PatternInv'
  <2>1. InPattern(led, state, LedLead, since_entry)
    BY DEF PatternInv
  <2>2. InPattern(led, state, LedLead - 1, (since_entry + 1) % Period)
    BY <2>1, PatternGoesOn
  <2> QED BY <1>1, <2>2 DEF PatternInv, stateVars
<1> QED BY <1>1, <1>2, <1>3, <1>4, <1>5, <1>6, <1>7, <1>8

LEMMA PassTimeKeeps == ASSUME IInv, PassTime PROVE IInv'
<1> USE Constants, Types DEF IInv, PassTime
<1>1. /\ gyro_age' \in 0 .. ExpiryAge + Sub /\ gyro_age' <= gyro_age + 1
      /\ pending' \in BOOLEAN /\ timeouts' = 0
      /\ Asleep => sleep > 0
      /\ pc = "asleep" => ~pending
  <2>1. gyro_age' \in 0 .. ExpiryAge + Sub /\ gyro_age' <= gyro_age + 1
    BY DEF AtMost
  <2>2. pending \in BOOLEAN
    BY DEF TypeOK
  <2>3. pending' \in BOOLEAN
    BY <2>2, Zenon
  <2>4. (Asleep => sleep > 0) /\ (pc = "asleep" => ~pending)
    BY PassingIsInTime
  <2> QED BY <2>1, <2>3, <2>4
<1>2. CASE unit' # 0
  <2>1. unit' = unit + 1 /\ unit' \in 0 .. Sub - 1
    <3>1. unit + 1 < Sub
      BY <1>2
    <3>2. unit + 1 \in 0 .. Sub - 1
      BY <3>1
    <3> QED BY <3>2, Remainder
  <2>2. UNCHANGED <<tick, since_entry, since_diagnostics, sleep>>
    BY <1>2
  <2>3. DeadlinesKept
    BY <2>2 DEF DeadlinesKept
  <2>4. /\ DeadlineInv' /\ FaultInv' /\ PatternInv'
        /\ LedLead' = LedLead /\ DiagnosticsLead' = DiagnosticsLead
        /\ RetryLead' = RetryLead
    BY <2>3, KeptInv
  <2>5. TypeOK'
    BY <1>1, <2>1, <2>2 DEF TypeOK, stateVars
  <2>6. BranchInv'
    BY DEF BranchInv, stateVars
  <2>7. SleepInv'
    BY <2>2, <2>4 DEF SleepInv
  <2>8. ExpiryInv'
    <3> SUFFICES ASSUME pc = "asleep", state = "running", ~gyro_expired
                 PROVE  /\ gyro_age' + sleep * Sub < ExpiryAge + Sub + unit'
                        /\ sleep # 0
      BY <2>2 DEF ExpiryInv, stateVars
    <3> DEFINE n == sleep * Sub
    <3>1. gyro_age + n < ExpiryAge + Sub + unit /\ n \in Int
      BY <1>1 DEF ExpiryInv
    <3>2. sleep # 0
      BY <1>1 DEF Asleep
    <3> HIDE DEF n
    <3>3. gyro_age' + n < ExpiryAge + Sub + unit'
      BY <1>1, <2>1, <3>1
    <3> QED BY <3>2, <3>3 DEF n
  <2>9. ServicedInv'
    BY <1>1 DEF ServicedInv
  <2> QED BY <2>4, <2>5, <2>6, <2>7, <2>8, <2>9
<1>3. CASE unit' = 0
  <2>1. unit = Sub - 1
    <3>1. unit + 1 < Sub => (unit + 1) % Sub = unit + 1
      <4> SUFFICES ASSUME unit + 1 < Sub PROVE (unit + 1) % Sub = unit + 1
        OBVIOUS
      <4>1. unit + 1 \in 0 .. Sub - 1
        OBVIOUS
      <4> QED BY <4>1, Remainder
    <3> QED BY <1>3, <3>1
  <2>2. /\ tick' = Later(tick, 1)
        /\ since_entry' = (since_entry + 1) % Period
        /\ since_diagnostics' = AtMost(Period, since_diagnostics + 1)
        /\ sleep' = IF Asleep THEN sleep - 1 ELSE sleep
    BY <1>3
  <2>3. /\ tick' \in Ticks
        /\ since_entry' \in 0 .. Period - 1 /\ since_diagnostics' \in 0 .. Period
        /\ DeadlineInv' /\ FaultInv' /\ PatternInv'
        /\ LedLead' = LedLead - 1 /\ DiagnosticsLead' = DiagnosticsLead - 1
        /\ state = "fault_retry" => RetryLead' = RetryLead - 1
    BY <2>2, TickPasses
  <2>4. sleep' \in 0 .. Period
    BY <1>1, <2>2
  <2>5. TypeOK'
    <3>1. tick' \in 0 .. TickMod - 1 /\ unit' \in 0 .. Sub - 1
      BY <1>3, <2>3 DEF Ticks
    <3> QED BY <1>1, <2>3, <2>4, <3>1 DEF TypeOK, stateVars
  <2>6. BranchInv'
    BY DEF BranchInv, stateVars
  <2>7. SleepInv'
    <3>1. pc = "asleep" => sleep' <= LedLead' /\ sleep' <= DiagnosticsLead'
      BY <2>2, <2>3 DEF SleepInv, Asleep
    <3>2. pc = "retry_asleep" =>
            /\ sleep' <= LedLead' /\ sleep' <= RetryLead'
            /\ sleep' <= DiagnosticsLead' + 7 * Deci
      <4> SUFFICES ASSUME pc = "retry_asleep"
                   PROVE  /\ sleep' <= LedLead' /\ sleep' <= RetryLead'
                          /\ sleep' <= DiagnosticsLead' + 7 * Deci
        OBVIOUS
      <4>1. state = "fault_retry" /\ RetryLead \in Int
        BY DEF BranchInv, FaultInv
      <4> QED BY <2>2, <2>3, <4>1 DEF SleepInv, Asleep
    <3> QED BY <3>1, <3>2 DEF SleepInv
  <2>8. ExpiryInv'
    <3> SUFFICES ASSUME pc = "asleep", state = "running", ~gyro_expired
                 PROVE  gyro_age' + (sleep - 1) * Sub < ExpiryAge + Sub + unit'
      BY <1>3, <2>2 DEF ExpiryInv, stateVars, Asleep
    <3> DEFINE n == sleep * Sub  m == (sleep - 1) * Sub
    <3>1. gyro_age + n < ExpiryAge + Sub + unit
      BY <1>1 DEF ExpiryInv
    <3>2. m = n - Sub /\ n \in Int
      OBVIOUS
    <3> HIDE DEF n, m
    <3>3. gyro_age' + m < ExpiryAge + Sub + unit'
      BY <1>1, <1>3, <2>1, <3>1, <3>2
    <3> QED BY <3>3 DEF m
  <2>9. ServicedInv'
    BY <1>1 DEF ServicedInv
  <2> QED BY <2>3, <2>5, <2>6, <2>7, <2>8, <2>9
<1> QED BY <1>2, <1>3

(* log_diagnostics_if_due: afterwards they are due later, and a second after *)
(* the last ones.                                                           *)
LEMMA DiagnosticsDone ==
  ASSUME TypeOK, DeadlineInv, LogDiagnostics, tick' = tick
  PROVE  /\ diagnostics_deadline' \in Ticks /\ since_diagnostics' \in 0 .. Period
         /\ DiagnosticsLead' \in 1 .. Second
         /\ since_diagnostics' = AtMost(Period, Second - DiagnosticsLead')
         /\ since_diagnostics' = 0 => since_diagnostics \in {0} \cup Second .. Period
<1> USE Constants, Types
<1>1. Reached(tick, diagnostics_deadline) <=> DiagnosticsLead <= 0
  <2>1. DiagnosticsLead > -Half
    OBVIOUS
  <2> QED BY <2>1, ReachedIs DEF DiagnosticsLead
<1>2. since_diagnostics = AtMost(Period, Second - DiagnosticsLead)
  BY DEF DeadlineInv
<1>3. CASE DiagnosticsLead <= 0
  <2>1. diagnostics_deadline' = Later(tick, Second) /\ since_diagnostics' = 0
    BY <1>1, <1>3 DEF LogDiagnostics
  <2>2. Later(tick, Second) \in Ticks /\ Lead(tick, Later(tick, Second)) = Second
    <3>1. Second \in 0 .. Half /\ Lead(tick, tick) = 0
      BY LeadOfNow
    <3> QED BY <3>1, LeadLater
  <2>3. DiagnosticsLead' = Second
    BY <2>1, <2>2 DEF DiagnosticsLead
  <2>4. since_diagnostics \in Second .. Period
    BY <1>2, <1>3 DEF AtMost
  <2> QED BY <2>1, <2>2, <2>3, <2>4 DEF AtMost
<1>4. CASE DiagnosticsLead > 0
  <2>1. UNCHANGED <<diagnostics_deadline, since_diagnostics>>
    BY <1>1, <1>4 DEF LogDiagnostics
  <2>2. DiagnosticsLead' = DiagnosticsLead
    BY <2>1 DEF DiagnosticsLead
  <2> QED BY <1>2, <1>4, <2>1, <2>2
<1> QED BY <1>3, <1>4

(* transition_state *)
LEMMA StateEntered ==
  ASSUME TypeOK, DeadlineInv, NEW s \in States, Transition(s), tick' = tick
  PROVE  /\ led' \in Led /\ LedLead' = Deci /\ PatternInv' /\ FaultInv'
         /\ state' = s /\ state_entered' \in Ticks /\ since_entry' = 0
<1> USE Constants, Types
<1> DEFINE l == [led EXCEPT !.deadline = tick, !.phase = 0]
<1>1. l.deadline = tick /\ l.phase = 0
  BY DEF Led
<1>2. led' = AdvanceLed(l, s) /\ state' = s /\ state_entered' = tick /\ since_entry' = 0
  BY DEF Transition
<1> HIDE DEF l
<1>3. /\ led' \in Led /\ Lead(tick, led'.deadline) = Deci
      /\ InPattern(led', s, Deci, 0)
  BY <1>1, <1>2, LedBegins
<1>4. LedLead' = Deci
  BY <1>3 DEF LedLead
<1>5. PatternInv'
  BY <1>2, <1>3, <1>4 DEF PatternInv
<1>6. RetryLead' = Second
  <2>1. Second \in 0 .. Half /\ Lead(tick, tick) = 0
    BY LeadOfNow
  <2>2. Lead(tick, Later(tick, Second)) = Second
    BY <2>1, LeadLater
  <2> QED BY <1>2, <2>2 DEF RetryLead, RetryDeadline
<1>7. FaultInv'
  BY <1>2, <1>6 DEF FaultInv
<1> QED BY <1>2, <1>3, <1>4, <1>5, <1>7

LEMMA HousekeepingKeeps == ASSUME IInv, ServiceHousekeeping PROVE IInv'
<1> USE Constants, Types DEF IInv, ServiceHousekeeping
<1>1. /\ led' \in Led /\ LedLead' \in 1 .. 19 * Deci
      /\ PatternInv'
  <2>1. /\ UpdateStateLed \in Led
        /\ Lead(tick, UpdateStateLed.deadline) \in 1 .. 19 * Deci
        /\ InPattern(UpdateStateLed, state, Lead(tick, UpdateStateLed.deadline),
                     since_entry)
    BY LedUpToDate
  <2>2. LedLead' = Lead(tick, UpdateStateLed.deadline)
    BY DEF LedLead
  <2>3. PatternInv'
    BY <2>1, <2>2 DEF PatternInv, stateVars
  <2> QED BY <2>1, <2>2, <2>3
<1>2. /\ diagnostics_deadline' \in Ticks /\ since_diagnostics' \in 0 .. Period
      /\ DiagnosticsLead' \in 1 .. Second
      /\ since_diagnostics' = AtMost(Period, Second - DiagnosticsLead')
  BY DiagnosticsDone
<1>3. gyro_expired' \in BOOLEAN
  BY Zenon
<1>4. pc' \in {"init", "retry", "wait"}
  BY DEF Branch
<1>5. TypeOK'
  BY <1>1, <1>2, <1>3, <1>4 DEF TypeOK, stateVars, Led, Ticks
<1>6. BranchInv'
  BY DEF BranchInv, Branch, stateVars, States
<1>7. DeadlineInv'
  BY <1>1, <1>2 DEF DeadlineInv
<1>8. FaultInv'
  <2>1. RetryLead' = RetryLead
    BY DEF RetryLead, RetryDeadline, stateVars
  <2> QED BY <2>1 DEF FaultInv, stateVars
<1>9. SleepInv' /\ ExpiryInv'
  BY <1>4 DEF SleepInv, ExpiryInv
<1>10. ServicedInv'
  <2>1. state = "running" /\ ~pending /\ ~gyro_expired' => gyro_age < ExpiryAge
    <3>1. ~gyro_expired' => ~gyro_expired /\ ~ExpiryDue
      BY Zenon
    <3>2. state = "running" /\ ~pending /\ ~gyro_expired /\ gyro_age >= ExpiryAge
            => ExpiryDue
      BY DEF ExpiryDue, ExpiryDelay
    <3>3. gyro_age < ExpiryAge \/ gyro_age >= ExpiryAge
      OBVIOUS
    <3> QED BY <3>1, <3>2, <3>3, Zenon
  <2> QED BY <1>1, <1>2, <2>1 DEF ServicedInv, stateVars
<1> QED BY <1>1, <1>5, <1>6, <1>7, <1>8, <1>9, <1>10

LEMMA RetryIsReached ==
  ASSUME TypeOK, DeadlineInv, FaultInv, state = "fault_retry"
  PROVE  /\ Reached(tick, RetryDeadline) <=> RetryLead <= 0
         /\ RetryLead \in 0 .. Second /\ since_entry = Second - RetryLead
         /\ RetryLead > 0 => (RetryDeadline - tick) % TickMod = RetryLead
<1> USE Constants, Types
<1>1. RetryLead \in 0 .. Second /\ since_entry = Second - RetryLead
  BY DEF FaultInv
<1>2. RetryLead > -Half
  BY <1>1
<1> QED BY <1>1, <1>2, ReachedIs DEF RetryLead

LEMMA RetryOverKeeps == ASSUME IInv, RetryOver PROVE IInv'
<1> USE Constants, Types DEF IInv, RetryOver
<1>1. "initializing" \in States
  BY DEF States
<1>2. /\ led' \in Led /\ LedLead' = Deci /\ PatternInv' /\ FaultInv'
      /\ state' = "initializing" /\ state_entered' \in Ticks /\ since_entry' = 0
  BY <1>1, StateEntered
<1>3. /\ diagnostics_deadline' \in Ticks /\ since_diagnostics' \in 0 .. Period
      /\ DiagnosticsLead' \in 1 .. Second
      /\ since_diagnostics' = AtMost(Period, Second - DiagnosticsLead')
  BY DiagnosticsDone
<1>4. TypeOK'
  <2>1. since_entry' \in 0 .. Period - 1
    BY <1>2
  <2>2. {gyro_expired', pending'} \subseteq BOOLEAN
    BY DEF TypeOK
  <2> QED BY <1>2, <1>3, <2>1, <2>2 DEF TypeOK, Led, Ticks
<1>5. DeadlineInv'
  BY <1>2, <1>3 DEF DeadlineInv
<1>6. BranchInv' /\ SleepInv' /\ ExpiryInv' /\ ServicedInv'
  BY <1>2 DEF BranchInv, SleepInv, ExpiryInv, ServicedInv
<1> QED BY <1>2, <1>4, <1>5, <1>6

(* wait_fault_retry sleeps until the LED's or its own deadline. *)
LEMMA RetryDelayKeeps == ASSUME IInv, RetryDelay PROVE IInv'
<1> USE Constants, Types DEF IInv, RetryDelay
<1>1. state = "fault_retry"
  BY DEF BranchInv
<1>2. /\ led' \in Led /\ LedLead' \in 1 .. 7 * Deci /\ PatternInv'
      /\ (led'.deadline - tick) % TickMod = LedLead'
  <2>1. /\ UpdateStateLed \in Led
        /\ Lead(tick, UpdateStateLed.deadline) \in 1 .. 19 * Deci
        /\ InPattern(UpdateStateLed, state, Lead(tick, UpdateStateLed.deadline),
                     since_entry)
    BY LedUpToDate
  <2>2. LedLead' = Lead(tick, UpdateStateLed.deadline)
    BY DEF LedLead
  <2>3. PatternInv'
    BY <2>1, <2>2 DEF PatternInv, stateVars
  <2>4. LedLead' <= 7 * Deci
    <3>1. StepLength(state, UpdateStateLed.phase) \in {Deci, 7 * Deci}
      BY <1>1 DEF StepLength
    <3>2. LedLead' <= StepLength(state, UpdateStateLed.phase)
      BY <2>1, <2>2 DEF InPattern
    <3> QED BY <2>1, <2>2, <3>1, <3>2
  <2>5. led'.deadline \in Ticks
    BY <2>1 DEF Led
  <2>6. (led'.deadline - tick) % TickMod = LedLead'
    <3>1. Lead(tick, led'.deadline) = LedLead' /\ LedLead' > 0
      BY <2>1, <2>2
    <3>2. LedLead' > -Half
      BY <2>1, <2>2
    <3> QED BY <2>5, <3>1, <3>2, ReachedIs
  <2> QED BY <2>1, <2>2, <2>3, <2>4, <2>6
<1>3. /\ diagnostics_deadline' \in Ticks /\ since_diagnostics' \in 0 .. Period
      /\ DiagnosticsLead' \in 1 .. Second
      /\ since_diagnostics' = AtMost(Period, Second - DiagnosticsLead')
  BY DiagnosticsDone
<1>4. /\ RetryLead \in 1 .. Second /\ (RetryDeadline - tick) % TickMod = RetryLead
      /\ RetryLead' = RetryLead
  <2>1. RetryLead' = RetryLead
    BY DEF RetryLead, RetryDeadline, stateVars
  <2> QED BY <1>1, <2>1, RetryIsReached
<1>5. sleep' = Lower(LedLead', RetryLead)
  BY <1>2, <1>4
<1>6. TypeOK'
  <2>1. sleep' \in 0 .. Period
    BY <1>2, <1>4, <1>5 DEF Lower
  <2> QED BY <1>2, <1>3, <2>1 DEF TypeOK, stateVars, gyroVars, Led, Ticks
<1>7. DeadlineInv'
  BY <1>2, <1>3 DEF DeadlineInv
<1>8. BranchInv' /\ FaultInv'
  BY <1>1, <1>4 DEF BranchInv, FaultInv, stateVars
<1>9. SleepInv'
  BY <1>2, <1>3, <1>4, <1>5 DEF SleepInv, Lower
<1>10. ExpiryInv' /\ ServicedInv'
  BY DEF ExpiryInv, ServicedInv
<1> QED BY <1>2, <1>6, <1>7, <1>8, <1>9, <1>10

LEMMA RetryWakesKeeps == ASSUME IInv, RetryWakes PROVE IInv'
<1> USE Types DEF IInv, RetryWakes
<1>1. DeadlinesKept
  BY DEF DeadlinesKept, timeVars
<1>2. TypeOK'
  BY DEF TypeOK, timeVars, stateVars, gyroVars
<1> QED
  BY <1>1, <1>2, KeptInv
  DEF BranchInv, SleepInv, ExpiryInv, ServicedInv, stateVars, timeVars

LEMMA InitializeKeeps == ASSUME IInv, InitializeSensor PROVE IInv'
<1> USE Constants, Types DEF IInv, InitializeSensor
<1>1. PICK s \in {"fault_retry", "calibrating"} : Transition(s)
  OBVIOUS
<1>2. /\ led' \in Led /\ LedLead' = Deci /\ PatternInv' /\ FaultInv'
      /\ state' = s /\ state_entered' \in Ticks /\ since_entry' = 0
  BY <1>1, StateEntered DEF States
<1>3. gyro_expired' \in BOOLEAN /\ pending' \in BOOLEAN
  BY DEF TypeOK
<1>4. TypeOK'
  BY <1>1, <1>2, <1>3 DEF TypeOK, Led, Ticks
<1>5. DeadlineInv'
  BY <1>2 DEF DeadlineInv, DiagnosticsLead
<1>6. BranchInv' /\ SleepInv' /\ ExpiryInv' /\ ServicedInv'
  BY <1>1, <1>2 DEF BranchInv, SleepInv, ExpiryInv, ServicedInv
<1> QED BY <1>2, <1>4, <1>5, <1>6

LEMMA HandleKeeps == ASSUME IInv, HandleSample PROVE IInv'
<1> USE Constants, Types DEF IInv, HandleSample
<1>1. /\ gyro_age' \in 0 .. ExpiryAge + Sub
      /\ gyro_expired' \in BOOLEAN /\ pending' \in BOOLEAN
  <2>1. gyro_expired \in BOOLEAN /\ pending \in BOOLEAN
    BY DEF TypeOK
  <2>2. gyro_expired' \in BOOLEAN /\ pending' \in BOOLEAN
    BY <2>1, Zenon DEF AcceptGyro, AcceptNothing
  <2>3. gyro_age' \in 0 .. ExpiryAge + Sub
    <3>1. gyro_age' = gyro_age \/ gyro_age' \in 0 .. gyro_age
      BY Zenon DEF AcceptGyro, AcceptNothing
    <3> QED BY <3>1
  <2> QED BY <2>2, <2>3
<1>2. CASE Stay
  <2>1. DeadlinesKept
    BY <1>2 DEF DeadlinesKept, Stay
  <2>2. TypeOK'
    BY <1>1, <1>2 DEF TypeOK, Stay, stateVars
  <2>3. state \in {"calibrating", "running"}
    BY DEF BranchInv
  <2> QED
    BY <1>2, <2>1, <2>2, <2>3, KeptInv
    DEF BranchInv, SleepInv, ExpiryInv, ServicedInv, Stay, stateVars
<1>3. ASSUME NEW s \in {"running", "fault_retry"}, Transition(s) PROVE IInv'
  <2>1. /\ led' \in Led /\ LedLead' = Deci /\ PatternInv' /\ FaultInv'
        /\ state' = s /\ state_entered' \in Ticks /\ since_entry' = 0
    BY <1>3, StateEntered DEF States
  <2>2. TypeOK'
    BY <1>1, <2>1 DEF TypeOK, Led, Ticks
  <2>3. DeadlineInv'
    BY <2>1 DEF DeadlineInv, DiagnosticsLead
  <2>4. BranchInv' /\ SleepInv' /\ ExpiryInv' /\ ServicedInv'
    BY <2>1 DEF BranchInv, SleepInv, ExpiryInv, ServicedInv
  <2> QED BY <2>1, <2>2, <2>3, <2>4
<1> QED BY <1>2, <1>3 DEF AcceptGyro, AcceptNothing

(* housekeeping_wait: it waits past nothing that is due, and for nothing only *)
(* if something is due.                                                     *)
LEMMA Quotient ==
  ASSUME NEW M \in Nat \ {0}, NEW x \in Nat
  PROVE  /\ x \div M \in Nat /\ (x \div M) * M <= x
         /\ x >= M => x \div M >= 1
  OBVIOUS

LEMMA Product ==
  ASSUME NEW a \in Nat, NEW b \in Nat, NEW c \in Nat, a <= b
  PROVE  a * c \in Nat /\ a * c <= b * c
<1>1. PICK d \in Nat : b = a + d
  <2>1. b - a \in Nat /\ b = a + (b - a)
    OBVIOUS
  <2> QED BY <2>1
<1>2. b * c = a * c + d * c /\ a * c \in Nat /\ d * c \in Nat
  BY <1>1
<1> QED BY <1>2

WaitsForExpiry == state = "running" /\ ~gyro_expired /\ ~pending

LEMMA WaitIs ==
  ASSUME TypeOK, DeadlineInv
  PROVE  /\ HousekeepingWait \in 0 .. Period
         /\ HousekeepingWait > 0 => /\ HousekeepingWait <= LedLead
                                    /\ HousekeepingWait <= DiagnosticsLead
         /\ HousekeepingWait > 0 /\ WaitsForExpiry =>
              gyro_age + HousekeepingWait * Sub < ExpiryAge + Sub
         /\ HousekeepingWait = 0 =>
              \/ LedLead <= 0 \/ DiagnosticsLead <= 0
              \/ WaitsForExpiry /\ gyro_age >= ExpiryAge
<1> USE Constants, Types
<1> DEFINE w == LedAndDiagnosticsWait
           t == (ExpiryDelay + Sub - 1) \div Sub
<1>1. /\ w \in 0 .. Period
      /\ w > 0 => w <= LedLead /\ w <= DiagnosticsLead
      /\ w = 0 => LedLead <= 0 \/ DiagnosticsLead <= 0
  <2>1. TicksTo(led.deadline) = IF LedLead <= 0 THEN 0 ELSE LedLead
    <3>1. LedLead > -Half
      OBVIOUS
    <3> QED BY <3>1, TicksToIs DEF LedLead
  <2>2. TicksTo(diagnostics_deadline)
          = IF DiagnosticsLead <= 0 THEN 0 ELSE DiagnosticsLead
    <3>1. DiagnosticsLead > -Half
      OBVIOUS
    <3> QED BY <3>1, TicksToIs DEF DiagnosticsLead
  <2>3. w = Lower(TicksTo(led.deadline), TicksTo(diagnostics_deadline))
    BY DEF LedAndDiagnosticsWait, WaitForLed
  <2> DEFINE a == TicksTo(led.deadline)  b == TicksTo(diagnostics_deadline)
  <2> HIDE DEF a, b, w
  <2>4. /\ w = IF a < b THEN a ELSE b
        /\ a = IF LedLead <= 0 THEN 0 ELSE LedLead
        /\ b = IF DiagnosticsLead <= 0 THEN 0 ELSE DiagnosticsLead
    BY <2>1, <2>2, <2>3 DEF Lower, a, b
  <2>5. /\ LedLead \in Int /\ LedLead <= Period
        /\ DiagnosticsLead \in Int /\ DiagnosticsLead <= Period
    OBVIOUS
  <2> QED BY <2>4, <2>5
<1>2. /\ t \in Nat /\ t * Sub <= ExpiryDelay + Sub - 1 /\ ExpiryDelay \in Nat
      /\ ExpiryDelay > 0 => t >= 1
  <2>1. ExpiryDelay \in Nat
    BY DEF ExpiryDelay
  <2>2. ExpiryDelay + Sub - 1 \in Nat
    BY <2>1
  <2>3. ExpiryDelay > 0 => ExpiryDelay + Sub - 1 >= Sub
    BY <2>1
  <2> QED BY <2>1, <2>2, <2>3, Quotient
<1>3. CASE ~WaitsForExpiry
  <2>1. HousekeepingWait = w
    BY <1>3, Zenon DEF HousekeepingWait, WaitUntilExpiry, WaitsForExpiry
  <2> QED BY <1>1, <1>3, <2>1
<1>4. CASE WaitsForExpiry
  <2>1. HousekeepingWait = Lower(t, w)
    BY <1>4, Zenon DEF HousekeepingWait, WaitUntilExpiry, WaitsForExpiry
  <2> DEFINE s == HousekeepingWait
  <2> HIDE DEF s, t, w
  <2>2. s \in 0 .. Period /\ s <= t /\ s <= w /\ s \in {t, w}
    BY <1>1, <1>2, <2>1 DEF Lower, s
  <2>3. s * Sub <= t * Sub /\ s * Sub \in Nat /\ t * Sub \in Nat
    BY <1>2, <2>2, Product
  <2>4. s > 0 => s <= LedLead /\ s <= DiagnosticsLead
    BY <1>1, <2>2
  <2>5. s > 0 => gyro_age + s * Sub < ExpiryAge + Sub
    <3> DEFINE x == s * Sub  y == t * Sub
    <3>1. x <= y /\ x \in Nat /\ y \in Nat /\ y <= ExpiryDelay + Sub - 1
      BY <1>2, <2>3
    <3>2. gyro_age >= ExpiryAge => t = 0
      <4>1. gyro_age >= ExpiryAge => ExpiryDelay = 0
        BY DEF ExpiryDelay
      <4>2. t >= 1 => y >= Sub
        BY <1>2
      <4> HIDE DEF y
      <4> QED BY <1>2, <3>1, <4>1, <4>2
    <3>3. gyro_age < ExpiryAge => ExpiryDelay = ExpiryAge - gyro_age
      BY DEF ExpiryDelay
    <3> HIDE DEF x, y
    <3>4. s > 0 => gyro_age + x < ExpiryAge + Sub
      BY <1>2, <2>2, <3>1, <3>2, <3>3
    <3> QED BY <3>4 DEF x
  <2>6. s = 0 => \/ LedLead <= 0 \/ DiagnosticsLead <= 0
                 \/ gyro_age >= ExpiryAge
    <3>1. gyro_age < ExpiryAge => ExpiryDelay > 0
      BY DEF ExpiryDelay
    <3> QED BY <1>1, <1>2, <2>2, <3>1
  <2> QED BY <1>4, <2>2, <2>4, <2>5, <2>6 DEF s
<1> QED BY <1>3, <1>4

LEMMA WaitKeeps == ASSUME IInv, Wait PROVE IInv'
<1> USE Constants, Types DEF IInv, Wait
<1> DEFINE s == HousekeepingWait
<1>1. DeadlinesKept
  BY DEF DeadlinesKept, timeVars
<1>2. /\ DeadlineInv' /\ FaultInv' /\ PatternInv'
      /\ LedLead' = LedLead /\ DiagnosticsLead' = DiagnosticsLead
  BY <1>1, KeptInv
<1>3. /\ sleep' = s /\ s \in 0 .. Period
      /\ s > 0 => s <= LedLead /\ s <= DiagnosticsLead
      /\ s > 0 /\ WaitsForExpiry => gyro_age + s * Sub < ExpiryAge + Sub
      /\ s = 0 => \/ LedLead <= 0 \/ DiagnosticsLead <= 0
                  \/ WaitsForExpiry /\ gyro_age >= ExpiryAge
  BY WaitIs
<1> HIDE DEF s
<1>4. /\ pc' \in {"handle", "loop", "asleep"}
      /\ pc' = "asleep" => ~pending /\ s > 0
  BY <1>3
<1>5. timeouts' \in 0 .. 1
  <2>1. timeouts \in 0 .. 1
    BY DEF ServicedInv
  <2>2. CASE timeouts = 1 /\ s = 0 /\ ~pending
    BY <1>3, <2>2 DEF ServicedInv, WaitsForExpiry
  <2>3. CASE timeouts = 0 \/ s # 0 \/ pending
    BY <1>3, <2>1, <2>3 DEF AtMost
  <2> QED BY <2>1, <2>2, <2>3
<1>6. TypeOK'
  BY <1>3, <1>4, <1>5 DEF TypeOK, timeVars, stateVars, gyroVars
<1>7. BranchInv'
  BY <1>4 DEF BranchInv, stateVars
<1>8. SleepInv'
  BY <1>2, <1>3, <1>4 DEF SleepInv
<1>9. ExpiryInv'
  <2> SUFFICES ASSUME pc' = "asleep", WaitsForExpiry
               PROVE  gyro_age + s * Sub < ExpiryAge + Sub + unit /\ s # 0
    BY <1>3 DEF ExpiryInv, WaitsForExpiry, gyroVars, stateVars, timeVars
  <2> DEFINE n == s * Sub
  <2>1. gyro_age + n < ExpiryAge + Sub /\ n \in Int /\ s # 0
    BY <1>3, <1>4
  <2> HIDE DEF n
  <2>2. gyro_age + n < ExpiryAge + Sub + unit
    BY <2>1
  <2> QED BY <2>1, <2>2 DEF n
<1>10. ServicedInv'
  BY <1>4, <1>5 DEF ServicedInv
<1> QED BY <1>2, <1>6, <1>7, <1>8, <1>9, <1>10

LEMMA WakeKeeps == ASSUME IInv, Wake PROVE IInv'
<1> USE Constants, Types DEF IInv, Wake
<1>1. DeadlinesKept
  BY DEF DeadlinesKept, timeVars
<1>2. TypeOK'
  BY DEF TypeOK, timeVars, stateVars, gyroVars
<1> QED
  BY <1>1, <1>2, KeptInv
  DEF BranchInv, SleepInv, ExpiryInv, ServicedInv, stateVars, timeVars

LEMMA InitIInv == Init => IInv
<1> SUFFICES ASSUME Init PROVE IInv
  OBVIOUS
<1> USE Constants DEF Init
<1> DEFINE l == [deadline |-> tick, phase |-> 0, on |-> FALSE]
<1>1. tick \in Ticks /\ "initializing" \in States
  BY DEF Ticks, States
<1>2. l.deadline = tick /\ l.phase = 0
  OBVIOUS
<1>3. /\ led \in Led /\ LedLead = Deci
      /\ InPattern(led, "initializing", Deci, 0)
  <2> HIDE DEF l
  <2>1. led = AdvanceLed(l, "initializing")
    BY DEF l
  <2> QED BY <1>1, <1>2, <2>1, LedBegins DEF LedLead
<1>4. diagnostics_deadline \in Ticks /\ DiagnosticsLead = Second
  <2>1. Second \in 0 .. Half /\ Lead(tick, tick) = 0
    BY <1>1, LeadOfNow
  <2> QED BY <1>1, <2>1, LeadLater DEF DiagnosticsLead
<1>5. TypeOK
  <2>1. gyro_age \in 0 .. ExpiryAge + Sub /\ timeouts \in 0 .. 2
    OBVIOUS
  <2>2. /\ sleep \in 0 .. Period /\ unit \in 0 .. Sub - 1
        /\ since_entry \in 0 .. Period - 1 /\ since_diagnostics \in 0 .. Period
    OBVIOUS
  <2>3. {gyro_expired, pending} \subseteq BOOLEAN /\ tick \in 0 .. TickMod - 1
    OBVIOUS
  <2>4. led \in [deadline : 0 .. TickMod - 1, phase : 0 .. 3, on : BOOLEAN]
    BY <1>3 DEF Led, Ticks
  <2>5. diagnostics_deadline \in 0 .. TickMod - 1
    BY <1>4 DEF Ticks
  <2> HIDE DEF Init
  <2>6. pc = "loop" /\ state = "initializing" /\ state_entered = tick
    BY DEF Init
  <2> QED BY <2>1, <2>2, <2>3, <2>4, <2>5, <2>6 DEF TypeOK
<1>6. DeadlineInv
  BY <1>3, <1>4 DEF DeadlineInv, AtMost
<1>7. PatternInv
  BY <1>3 DEF PatternInv
<1> QED
  BY <1>5, <1>6, <1>7
  DEF IInv, BranchInv, FaultInv, SleepInv, ExpiryInv, ServicedInv

LEMMA NextIInv == ASSUME IInv, [Next]_vars PROVE IInv'
<1>1. CASE UNCHANGED vars
  <2> USE <1>1 DEF IInv, vars, timeVars, gyroVars
  <2>1. DeadlinesKept
    BY DEF DeadlinesKept
  <2>2. TypeOK'
    BY DEF TypeOK, stateVars
  <2> QED
    BY <2>1, <2>2, KeptInv DEF BranchInv, SleepInv, ExpiryInv, ServicedInv, stateVars
<1> QED
  BY <1>1, PassTimeKeeps, HousekeepingKeeps, RetryOverKeeps, RetryDelayKeeps,
     RetryWakesKeeps, InitializeKeeps, WaitKeeps, WakeKeeps, HandleKeeps
  DEF Next, Thread

LEMMA Invariance == Spec => []IInv
  BY InitIInv, NextIInv, PTL DEF Spec

-----------------------------------------------------------------------------
(* On time *)

(* Every deadline of imu_thread_entry finds the thread awake: the expiry of   *)
(* the gyro within a tick, the diagnostics within the second, or the second *)
(* and the 700 ms that wait_fault_retry sleeps through; and it never waits  *)
(* twice for nothing.                                                       *)
THEOREM HousekeepingOnTime == Spec => []OnTime
<1>1. IInv => OnTime
  <2> SUFFICES ASSUME IInv PROVE OnTime
    OBVIOUS
  <2> USE Constants, Types DEF IInv
  <2>1. ExpiryOnTime
    <3> SUFFICES ASSUME pc = "asleep", state = "running", ~pending, ~gyro_expired
                 PROVE  gyro_age < ExpiryAge + Sub
      BY DEF ExpiryOnTime
    <3> DEFINE n == sleep * Sub
    <3>1. /\ gyro_age + n < ExpiryAge + Sub + unit
          /\ sleep = 0 => unit = 0
      BY DEF ExpiryInv
    <3>2. sleep = 0 => n = 0
      OBVIOUS
    <3>3. sleep > 0 => n >= Sub
      <4>1. ASSUME sleep > 0 PROVE 1 * Sub <= sleep * Sub
        BY <4>1, Product
      <4> QED BY <4>1
    <3>4. n \in Nat
      OBVIOUS
    <3> HIDE DEF n
    <3> QED BY <3>1, <3>2, <3>3, <3>4
  <2>2. DiagnosticsOnTime
    BY DEF DiagnosticsOnTime, Asleep, DeadlineInv, SleepInv, AtMost
  <2>3. NoSpin
    BY DEF NoSpin, ServicedInv
  <2> QED BY <2>1, <2>2, <2>3 DEF OnTime
<1> QED BY <1>1, Invariance, PTL

(* Positions in a pattern that repeats. *)
LEMMA Residue ==
  ASSUME NEW M \in Nat \ {0}
  PROVE  \A q \in Int : \A r \in 0 .. M - 1 : (q * M + r) % M = r
  OBVIOUS

LEMMA Turns ==
  ASSUME NEW M \in Nat \ {0}, NEW t \in Int, NEW r \in Int, NEW q \in Int,
         t = r + q * M
  PROVE  /\ r \in 0 .. M - 1 => t % M = r
         /\ r \in -M .. -1 => t % M = r + M
<1>1. ASSUME r \in 0 .. M - 1 PROVE t % M = r
  <2>1. t = q * M + r
    OBVIOUS
  <2> QED BY <1>1, <2>1, Residue
<1>2. ASSUME r \in -M .. -1 PROVE t % M = r + M
  <2>1. r + M \in 0 .. M - 1 /\ q - 1 \in Int
    BY <1>2
  <2>2. t = (q - 1) * M + (r + M)
    OBVIOUS
  <2> QED BY <2>1, <2>2, Residue
<1> QED BY <1>1, <1>2

LEMMA LitIs ==
  ASSUME NEW s \in States, NEW t \in Int
  PROVE  /\ s # "fault_retry" => LitAt(s, t) = (t % Cycle(s) < Deci)
         /\ s = "fault_retry" =>
              LitAt(s, t) = (t % Cycle(s) \in 0 .. Deci - 1
                                                \cup 2 * Deci .. 3 * Deci - 1)
<1>1. CASE s = "initializing"
  BY <1>1, Zenon DEF LitAt, Cycle
<1>2. CASE s = "calibrating"
  BY <1>2, Zenon DEF LitAt, Cycle
<1>3. CASE s = "running"
  BY <1>3, Zenon DEF LitAt, Cycle
<1>4. CASE s = "fault_retry"
  BY <1>4, Zenon DEF LitAt, Cycle
<1> QED BY <1>1, <1>2, <1>3, <1>4 DEF States

(* update_state_led, imu_led_step, the wait for the LED: while the thread     *)
(* sleeps the LED shows the documented pattern, in phase with the entry.    *)
THEOREM HousekeepingLedShowsState == Spec => []LedShowsState
<1>1. IInv => LedShowsState
  <2> SUFFICES ASSUME IInv, Asleep, sleep > 0
               PROVE  led.on = LitAt(state, since_entry)
    BY DEF LedShowsState
  <2> USE Constants, Types DEF IInv
  <2> DEFINE M == Cycle(state)
  <2>1. LedLead \in 1 .. StepLength(state, led.phase)
    BY DEF Asleep, SleepInv, PatternInv, InPattern
  <2>2. /\ led.phase \in 0 .. 3
        /\ state # "fault_retry" => led.phase \in 0 .. 1
        /\ led.on = LitBefore(led.phase)
    BY DEF PatternInv, InPattern, TypeOK
  <2>3. PICK q \in Int : since_entry + LedLead = led.phase * Deci + q * M
    BY DEF PatternInv, InPattern
  <2>4. M \in Nat \ {0}
    BY DEF Cycle
  <2> DEFINE p == led.phase * Deci  r == p - LedLead
  <2>5. p \in Nat /\ r \in Int
    BY <2>2
  <2>6. since_entry = r + q * M
    <3> DEFINE z == q * M
    <3>1. z \in Int
      BY <2>4
    <3>2. since_entry + LedLead = p + z
      BY <2>3
    <3> HIDE DEF z, p
    <3>3. since_entry = p - LedLead + z
      BY <2>5, <3>1, <3>2
    <3> QED BY <3>3 DEF z
  <2>7. /\ r \in 0 .. M - 1 => since_entry % M = r
        /\ r \in -M .. -1 => since_entry % M = r + M
    <3> HIDE Constants, Types DEF M, r, IInv
    <3>1. since_entry \in Int
      BY Types, Constants DEF IInv
    <3> QED BY <2>4, <2>5, <2>6, <3>1, Turns
  <2> DEFINE x == since_entry % M
  <2>8. /\ state # "fault_retry" => LitAt(state, since_entry) = (x < Deci)
        /\ state = "fault_retry" =>
             LitAt(state, since_entry) = (x \in 0 .. Deci - 1
                                                  \cup 2 * Deci .. 3 * Deci - 1)
    BY LitIs
  <2>9. CASE led.phase = 0
    <3>1. led.on = FALSE
      <4>1. LitBefore(0) = FALSE
        BY DEF LitBefore
      <4> QED BY <2>2, <2>9, <4>1
    <3>2. r \in -StepLength(state, 0) .. -1
      <4>1. p = 0
        BY <2>9
      <4> HIDE DEF p
      <4> QED BY <2>1, <2>9, <4>1 DEF StepLength, Cycle
    <3>3. x = r + M
      BY <2>7, <3>2 DEF StepLength, Cycle
    <3>4. x \in Deci .. M - 1 /\ (state = "fault_retry" => x \in 3 * Deci .. M - 1)
      <4> HIDE DEF x, r
      <4> QED BY <2>4, <3>2, <3>3 DEF StepLength, Cycle
    <3> HIDE DEF x
    <3>5. /\ (x < Deci) = FALSE
          /\ state = "fault_retry" =>
               (x \in 0 .. Deci - 1 \cup 2 * Deci .. 3 * Deci - 1) = FALSE
      BY <2>4, <3>4
    <3> QED BY <2>8, <3>1, <3>5, Zenon
  <2>10. CASE led.phase # 0
    <3>1. r \in p - Deci .. p - 1 /\ r \in 0 .. M - 1 /\ x = r
      <4>1. r \in p - Deci .. p - 1 /\ r \in 0 .. M - 1
        BY <2>1, <2>2, <2>10 DEF StepLength, Cycle
      <4> QED BY <2>7, <4>1
    <3>2. led.phase \in {1, 2, 3} /\ (led.phase # 1 => state = "fault_retry")
      BY <2>2, <2>10
    <3>3. led.on = (led.phase \in {1, 3})
      BY <2>2 DEF LitBefore
    <3>4. /\ led.phase = 1 => x \in 0 .. Deci - 1
          /\ led.phase = 2 => x \in Deci .. 2 * Deci - 1
          /\ led.phase = 3 => x \in 2 * Deci .. 3 * Deci - 1
      BY <3>1
    <3> HIDE DEF x
    <3>5. /\ state # "fault_retry" => (x < Deci) = (led.phase \in {1, 3})
          /\ state = "fault_retry" =>
               (x \in 0 .. Deci - 1 \cup 2 * Deci .. 3 * Deci - 1)
                 = (led.phase \in {1, 3})
      BY <3>2, <3>4
    <3> QED BY <2>8, <3>3, <3>5, Zenon
  <2> QED BY <2>9, <2>10
<1> QED BY <1>1, Invariance, PTL

-----------------------------------------------------------------------------
(* service_diagnostics, wait_fault_retry: no diagnostics within a second of   *)
(* the last ones, and no initialisation within a second of the fault.       *)
THEOREM HousekeepingNotEarly == Spec => NotEarly
<1>1. IInv /\ [Next]_vars =>
        [ since_diagnostics' = 0
            => since_diagnostics \in {0} \cup Second .. Period ]_vars
  <2> SUFFICES ASSUME IInv, Next, since_diagnostics' = 0
               PROVE  since_diagnostics \in {0} \cup Second .. Period
    OBVIOUS
  <2> USE Constants, Types DEF IInv
  <2>1. CASE UNCHANGED since_diagnostics
    BY <2>1
  <2>2. CASE PassTime
    <3>1. since_diagnostics' # 0 \/ UNCHANGED since_diagnostics
      BY <2>2 DEF PassTime, AtMost
    <3> QED BY <2>1, <3>1
  <2>3. CASE ServiceHousekeeping \/ RetryOver \/ RetryDelay
    <3>1. LogDiagnostics /\ tick' = tick
      BY <2>3 DEF ServiceHousekeeping, RetryOver, RetryDelay
    <3> QED BY <3>1, DiagnosticsDone
  <2>4. CASE RetryWakes \/ InitializeSensor \/ Wait \/ Wake \/ HandleSample
    <3>1. UNCHANGED since_diagnostics
      BY <2>4 DEF RetryWakes, InitializeSensor, Wait, Wake, HandleSample, timeVars
    <3> QED BY <2>1, <3>1
  <2> QED BY <2>2, <2>3, <2>4 DEF Next, Thread
<1>2. IInv /\ [Next]_vars =>
        [ state = "fault_retry" /\ state' = "initializing"
            => since_entry \in Second .. Second + MaxLate + 1 ]_vars
  <2> SUFFICES ASSUME IInv, Next, state = "fault_retry", state' = "initializing"
               PROVE  since_entry \in Second .. Second + MaxLate + 1
    OBVIOUS
  <2> USE Constants, Types DEF IInv
  <2>1. CASE RetryOver
    <3>1. since_entry = Second
      BY <2>1, RetryIsReached DEF RetryOver
    <3> QED BY <3>1
  <2>2. CASE PassTime \/ ServiceHousekeeping \/ RetryDelay \/ RetryWakes
    BY <2>2 DEF PassTime, ServiceHousekeeping, RetryDelay, RetryWakes, stateVars
  <2>3. CASE InitializeSensor \/ Wait \/ Wake \/ HandleSample
    BY <2>3 DEF InitializeSensor, Wait, Wake, HandleSample, BranchInv
  <2> QED BY <2>1, <2>2, <2>3 DEF Next, Thread
<1> QED
  BY <1>1, <1>2, Invariance, PTL
  DEF Spec, NotEarly, DiagnosticsNotEarly, RetryTakesASecond

=============================================================================
