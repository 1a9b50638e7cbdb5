SPECIFICATION LifecycleSpec
CONSTANTS
  sigterm = sigterm
  sigint = sigint
  Handlers = {sigterm, sigint}
  Interval = 20
  MaxBackoff = 600
  MaxFailures = 7
INVARIANTS
  LifecycleTypeOK
  StopQuiesces
PROPERTIES
  SignalsExit
CHECK_DEADLOCK FALSE
