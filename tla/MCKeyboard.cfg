SPECIFICATION FairSpec
CONSTANTS
  Keyboard <- SomeKeys
  MaxPresses = 3
  MaxQueue = 2
INVARIANTS
  CharIsMeant
PROPERTIES
  SlotIsEmptied
  PatientLosesNothing
  ImplementsChannel
