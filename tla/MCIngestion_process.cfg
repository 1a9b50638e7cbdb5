SPECIFICATION FairSpec
CONSTANTS
  b1 = b1
  b2 = b2
  Batch = {b1, b2}
  Owner <- MCOwners
  TraceId = {"t1", "t2"}
  Traces <- MCTraces
  Tables <- MCTables
  Durable = FALSE
  Lane = {"r1", "r2"}
  Nobody = Nobody
  ConnectMayFail = FALSE
  MaxPoll = 1
  MaxTries = 2
  MaxFaults = 1
INVARIANTS TypeOK AckedIsShown
PROPERTY RequestsEnd
CHECK_DEADLOCK FALSE
