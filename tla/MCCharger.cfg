SPECIFICATION Spec
CONSTANTS
  Bricks = {"sdp", "hvdcp2", "bad"}
  BootIcl = 4
  DetectTimeout = 1
  MaxReruns = 1
  MaxTransportRetries = 1
  MaxSteps = 4
  CallbackErrs = TRUE
INVARIANTS
  TypeOK
  ReportedLimitHolds
  ReadyNamesTheBrick
PROPERTIES
  RunsEnd
CHECK_DEADLOCK FALSE
