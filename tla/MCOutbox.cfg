SPECIFICATION FairSpec
CONSTANTS
  e1 = e1
  e2 = e2
  r1 = r1
  r2 = r2
  Events = {e1, e2}
  Relays = {r1, r2}
  BatchSize = 1
  Expiry = 1
  MaxTime = 3
  MaxFaults = 2
INVARIANTS
  TypeOK
  SharedClaimIsOld
  OneCopyWhileYoung
PROPERTIES
  DeliversAtLeastOnce
