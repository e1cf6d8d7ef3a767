SPECIFICATION Spec
CONSTANTS
  TickMod = 40
  Deci = 1
  Sub = 2
  ExpiryAge = 3
  MaxLate = 0
INVARIANTS
  DiagnosticsEverySecond
