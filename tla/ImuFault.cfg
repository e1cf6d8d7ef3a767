SPECIFICATION Spec
CONSTANTS
  MaxUnread = 2
  Calibration = 2
  Expiry = 1
PROPERTIES
  SuccessClearsFailures
