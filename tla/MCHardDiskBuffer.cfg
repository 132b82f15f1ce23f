SPECIFICATION Spec
CONSTANTS
  Disk <- SmallDisk
  Names <- NoName
  Minors = {0}
  Requests <- TwoTracks
  ErrorReports <- NoReport
  PartialReads <- NoName
  ErrorCounts = {0}
  Stale = Stale
  Word = 4096
  MaxHeld = 1
INVARIANTS
  BufferHoldsRequest
