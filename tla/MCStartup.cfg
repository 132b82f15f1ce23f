\* A sector is four units, a dword two; the image fills three sectors, the
\* last with data, and the data are no multiple of a dword.
SPECIFICATION StartupSpec
CONSTANTS
  SectorSize = 4
  SectorsPerTrack = 3
  P1NbSectors = 2
  P2NbSectors = 1
  TextSize = 6
  DataSize = 3
  BssSize = 2
  DwordSize = 2
  CodeBase = 2
  DataBase = 14
  MemSize = 21
  Drives = {128, 129}
  Junk = Junk
  Machines <- MCMachines
  hda = 128
  MULTIBOOT_INFO_UNUSED_PARTITION = 255
  Max15MB = 15360
INVARIANTS StartsAsBuilt TablesInUse HeaderIsTrue
PROPERTIES BootEnds
