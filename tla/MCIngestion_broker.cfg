SPECIFICATION FairSpec
CONSTANTS
  b1 = b1
  b2 = b2
  Batch = {b1, b2}
  Owner <- MCOwner
  TraceId = {"t1", "t2"}
  Traces <- MCTraces
  Tables <- MCTables
  Durable = TRUE
  Lane = {"consumer"}
  Nobody = Nobody
  ConnectMayFail = TRUE
  MaxPoll = 2
  MaxTries = 1
  MaxFaults = 1
INVARIANTS HandledIsStored HandledIsShown
PROPERTY PublishedIsShown
CHECK_DEADLOCK FALSE
