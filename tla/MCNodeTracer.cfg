SPECIFICATION Spec
CONSTANTS
  Span <- MCSpan
  Caller = {"app", "SIGTERM"}
  BatchSize = 2
  Cap = 3
  MaxRetries = 2
INVARIANTS TypeOK Conserved ShutdownSettles FullBufferDrains
PROPERTIES ImplementsSink
CHECK_DEADLOCK FALSE
