SPECIFICATION Spec
CONSTANTS
  Bricks = {"sdp", "hvdcp2"}
  BootIcl = 4
  DetectTimeout = 1
  MaxReruns = 1
  MaxTransportRetries = 1
  MaxSteps = 4
  CallbackErrs = FALSE
INVARIANT
  MonitorReapplies
CHECK_DEADLOCK FALSE
