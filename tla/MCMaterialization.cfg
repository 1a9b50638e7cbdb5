SPECIFICATION FairSpec
CONSTANTS
  a = a
  b = b
  e = e
  Nodes = {a, b}
  Edges = {e}
  From <- MCFrom
  To <- MCTo
  Schedules <- MCSchedules
  Workers = {w1}
  Lookback = 2
  Lateness = 1
  Drift = 1
  MaxRequests = 2
  MaxFaults = 1
INVARIANTS TypeOK NothingSkipped CaughtUp
PROPERTY ImplementsReadView
CHECK_DEADLOCK FALSE
