SPECIFICATION Spec
CONSTANTS
  Disk <- MCDisk
  Names <- MCNames
  Minors = {0, 1}
  Requests <- MCRequests
  ErrorReports <- MCErrorReports
  PartialReads <- OneSector
  ErrorCounts = {0}
  Stale = Stale
  Word = 4096
  MaxHeld = 2
INVARIANTS
  NoLeak BootSectorIsSectorZero NoDivisionByZero ReadsWhereAsked FetchesRequest
PROPERTIES
  CallEnds
