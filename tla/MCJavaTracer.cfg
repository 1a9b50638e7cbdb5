SPECIFICATION Spec
CONSTANTS
  Thread = {"t1", "t2"}
  Caller = {"hook"}
  Scheduler = "scheduler"
  MaxEvents = 2
  BatchSize = 2
  Cap = 3
  MaxRetries = 2
INVARIANTS TypeOK HeldOnce ShutdownSettles
PROPERTIES ShutdownEnds ImplementsSink
CHECK_DEADLOCK FALSE
