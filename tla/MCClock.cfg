SPECIFICATION FairSpec
CONSTANTS
  Tick = 2
  TicsPerSec = 2
  MaxSec = 2
  Waits <- MCWaits
INVARIANTS
  NeverEarly
PROPERTIES
  Expires
  OneShotReturns
