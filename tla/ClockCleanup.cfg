SPECIFICATION ClockFairSpec
CONSTANTS
  Half = 3
  HighMod = 3
PROPERTIES
  CleanupStops
