SPECIFICATION Spec
CONSTANTS
  Tick = 2
  TicsPerSec = 3
  MaxSec = 2
  Waits <- NoWaits
INVARIANTS
  GivesCurrentTime
