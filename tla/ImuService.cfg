SPECIFICATION FairSpec
CONSTANTS
  MaxUnread = 2
  Calibration = 2
  Expiry = 1
INVARIANTS
  NoLostSample
  PublishedCurrent
  ExpiryHolds
  CalibrationUnbroken
PROPERTIES
  RunningIsEarned
  SilentGyroExpires
