SPECIFICATION Spec
CONSTANTS
  Lines <- MCLines
  Vectors <- MCVectors
PROPERTIES
  PicsRestored
CHECK_DEADLOCK FALSE
