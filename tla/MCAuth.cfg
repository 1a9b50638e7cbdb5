SPECIFICATION Spec
CONSTANTS
  Email = {"e1"}
  Key = {"k1"}
  Request = {"r1", "r2"}
  MaxToken = 3
  MaxVersion = 3
  MaxFaults = 1
INVARIANTS TypeOK AccountsAreVerified ReturnedResetStands OldSessionNeedsRace
PROPERTIES OldSessionsDie
CHECK_DEADLOCK FALSE
