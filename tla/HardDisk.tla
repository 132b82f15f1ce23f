------------------------------ MODULE HardDisk ------------------------------
(***************************************************************************)
(* The block device layer: the device table (common/dev.c), the hard disk  *)
(* driver (common/hd_drv.c) over the disk services of the BIOS             *)
(* (arch/x86/lib/disk.c), and its client mbr_get (common/mbr.c).  The BIOS *)
(* may refuse any call, may read fewer sectors than it was asked for, and  *)
(* may leave in AL, which the driver believes, another number of sectors.  *)
(***************************************************************************)
EXTENDS Geometry, Sequences

CONSTANTS
  Disk,          (* the drive behind "hda"                                 *)
  Names,         (* device names given to mbr_get                          *)
  Minors,        (* minor numbers given to hd_open and hd_read             *)
  Requests,      (* <<lba_start, count>> given to hd_read                  *)
  ErrorReports,  (* registers a failed geometry call may leave behind when *)
                 (* its error is not 1, "invalid command"                  *)
  PartialReads,  (* the requests of which the BIOS may read only a part    *)
  ErrorCounts,   (* what AL may hold after a failed read, besides how many *)
                 (* sectors were read and how many were asked for          *)
  Stale,         (* whatever earlier reads left in the segment             *)
  Word,          (* 2^32: lbaint_t wraps here                              *)
  MaxHeld        (* bound: boot sectors a client keeps at a time           *)

ASSUME HardDiskAssumption ==
  /\ Disk \in Disks
  /\ Minors \subseteq Nat
  /\ Word \in Nat /\ Word > Disk.NC * Disk.NH * Disk.NS
  /\ Requests \subseteq (0..Word-1) \X (0..Word-1)
  /\ ErrorReports \subseteq RegisterValues
  /\ PartialReads \subseteq (0..Word-1) \X (0..Word-1)
  /\ ErrorCounts \subseteq 0..255
  /\ MaxHeld \in Nat

FLOPPY_DISK_DRIVER == 0
HARD_DISK_DRIVER == 1

(* A pointer is the sequence of what it points to.                         *)
NULL == <<>>
To(x) == <<x>>

VARIABLES
  devices,  (* list_dev, by name                                           *)
  errno,
  pc,       (* what runs: "idle" is the client                             *)
  caller,   (* who called the driver: the client or mbr_get                *)
  minor,    (* the parameters and locals of hd_open and hd_read            *)
  lba, count, nb, got, tries, read,
  segment,  (* the sectors the last attempt left at the start of the real  *)
            (* mode segment the BIOS reads to; what follows them is stale  *)
  buffer,   (* the sectors in the caller's buffer                          *)
  fetched,  (* history: every sector copied by this hd_read, in order      *)
  request,  (* history: the <<lba_start, count>> of this hd_read           *)
  overstated, (* history: in this hd_read AL told more than was read       *)
  opened,   (* the minors whose hd_open returned EXIT_SUCCESS              *)
  mbrs,       (* boot sectors allocated and not freed                      *)
  geometries, (* geometries allocated and not freed                        *)
  held,     (* the boot sectors mbr_get returned, not destroyed yet        *)
  reply     (* what the last call returned                                 *)

loop == <<lba, count, nb, got, tries, read, segment, buffer, fetched, request,
          overstated>>
blocks == <<mbrs, geometries>>
vars == <<devices, errno, pc, caller, minor, loop, opened, blocks, held, reply>>

DiskLba == Disk.NC * Disk.NH * Disk.NS

-----------------------------------------------------------------------------
(* The device table, and the drivers that have one.                        *)

Device(major, mn) ==
  [major |-> major, minor |-> mn, status |-> "unknown", info |-> NULL]

Matching(major, mn) ==
  {d \in DOMAIN devices : devices[d].major = major /\ devices[d].minor = mn}

dev_getstatus(major, mn) ==
  IF Matching(major, mn) = {} THEN "not found"
  ELSE devices[CHOOSE d \in Matching(major, mn) : TRUE].status

dev_getinfo(major, mn) ==
  IF Matching(major, mn) = {} THEN NULL
  ELSE devices[CHOOSE d \in Matching(major, mn) : TRUE].info

dev_setstatus(major, mn, status) ==
  [d \in DOMAIN devices |->
    IF d \in Matching(major, mn) THEN [devices[d] EXCEPT !.status = status]
    ELSE devices[d]]

dev_setinfo(major, mn, info) ==
  [d \in DOMAIN devices |->
    IF d \in Matching(major, mn) THEN [devices[d] EXCEPT !.info = info]
    ELSE devices[d]]

(* The floppy driver's table of operations holds four NULL pointers.       *)
HasOperations(major) == major = HARD_DISK_DRIVER

Info == dev_getinfo(HARD_DISK_DRIVER, minor)

AllocateMbr == mbrs' = mbrs + 1 /\ UNCHANGED geometries
FreeMbr == mbrs' = mbrs - 1 /\ UNCHANGED geometries
AllocateGeometry == geometries' = geometries + 1 /\ UNCHANGED mbrs

Panic == pc' = "panic"

-----------------------------------------------------------------------------
(* What the client does.                                                   *)

Init ==
  /\ devices = [d \in {"hda", "fda"} |->
       Device(IF d = "hda" THEN HARD_DISK_DRIVER ELSE FLOPPY_DISK_DRIVER, 0)]
  /\ errno = "none" /\ pc = "idle" /\ caller = "client" /\ minor = 0
  /\ lba = 0 /\ count = 0 /\ nb = 0 /\ got = 0 /\ tries = 0 /\ read = 0
  /\ segment = <<>> /\ buffer = <<>> /\ fetched = <<>> /\ request = <<0, 0>>
  /\ overstated = FALSE
  /\ opened = {}
  /\ mbrs = 0 /\ geometries = 0
  /\ held = <<>>
  /\ reply = "none"

GetMbrUnknown(name) ==
  /\ pc = "idle" /\ name \notin DOMAIN devices
  /\ errno' = "ENODEV" /\ reply' = "NULL"
  /\ UNCHANGED <<devices, pc, caller, minor, loop, opened, blocks, held>>

(* malloc fails, and an assertion with it; or it succeeds and the driver's *)
(* open is called, through a NULL pointer for a driver that has none.      *)
GetMbr(name) ==
  /\ pc = "idle" /\ name \in DOMAIN devices /\ Len(held) < MaxHeld
  /\ caller' = "mbr_get" /\ reply' = "none"
  /\ \/ Panic /\ UNCHANGED <<minor, blocks>>
     \/ /\ AllocateMbr
        /\ minor' = devices[name].minor
        /\ pc' = IF HasOperations(devices[name].major) THEN "open" ELSE "fault"
  /\ UNCHANGED <<devices, errno, loop, opened, held>>

DestroyMbr ==
  /\ pc = "idle" /\ held # <<>>
  /\ FreeMbr /\ held' = Tail(held)
  /\ UNCHANGED <<devices, errno, pc, caller, minor, loop, opened, reply>>

CallOpen(mn) ==
  /\ pc = "idle"
  /\ pc' = "open" /\ caller' = "client" /\ minor' = mn /\ reply' = "none"
  /\ UNCHANGED <<devices, errno, loop, opened, blocks, held>>

(* A client reads from a device it has opened.                             *)
CallRead(mn, r) ==
  /\ pc = "idle" /\ mn \in opened
  /\ pc' = "read" /\ caller' = "client" /\ minor' = mn /\ reply' = "none"
  /\ request' = r
  /\ UNCHANGED <<devices, errno, lba, count, nb, got, tries, read, segment,
                 buffer, fetched, overstated, opened, blocks, held>>

-----------------------------------------------------------------------------
(* hd_open.                                                                *)

OpenFails ==
  /\ errno' = "ENODEV" /\ pc' = "idle" /\ reply' = "NULL"
  /\ IF caller = "mbr_get" THEN FreeMbr ELSE UNCHANGED blocks
  /\ UNCHANGED <<devices, opened>>

OpenSucceeds ==
  /\ IF caller = "mbr_get"
       THEN pc' = "key" /\ UNCHANGED <<opened, reply>>
       ELSE pc' = "idle" /\ opened' = opened \cup {minor} /\ reply' = "opened"
  /\ UNCHANGED errno

OpenNoDevice ==
  /\ pc = "open" /\ dev_getstatus(HARD_DISK_DRIVER, minor) = "not found"
  /\ OpenFails
  /\ UNCHANGED <<caller, minor, loop, held>>

(* disk_reset; the carry flag is its verdict.                              *)
OpenReset ==
  /\ pc = "open" /\ dev_getstatus(HARD_DISK_DRIVER, minor) = "unknown"
  /\ \/ OpenFails
     \/ /\ devices' = dev_setstatus(HARD_DISK_DRIVER, minor, "initialized")
        /\ pc' = "geometry" /\ UNCHANGED <<errno, opened, blocks, reply>>
  /\ UNCHANGED <<caller, minor, loop, held>>

OpenAgain ==
  /\ pc = "open" /\ dev_getstatus(HARD_DISK_DRIVER, minor) = "initialized"
  /\ pc' = "geometry"
  /\ UNCHANGED <<devices, errno, caller, minor, loop, opened, blocks, held,
                 reply>>

GeometryKnown ==
  /\ pc = "geometry" /\ Info # NULL
  /\ OpenSucceeds
  /\ UNCHANGED <<devices, caller, minor, loop, blocks, held>>

(* Mutant of GeometryInvalid: the geometry is not freed when the BIOS      *)
(* cannot tell it.                                                         *)
GeometryInvalidMutant ==
  /\ pc = "geometry" /\ Info = NULL
  /\ OpenSucceeds /\ AllocateGeometry
  /\ UNCHANGED <<devices, caller, minor, loop, held>>

(* disk_geometry fails: what malloc returned is freed, hd_open succeeds.   *)
GeometryInvalid ==
  /\ pc = "geometry" /\ Info = NULL
  /\ OpenSucceeds
  /\ UNCHANGED <<devices, caller, minor, loop, blocks, held>>

(* Any other answer, an error too, is taken for a geometry.                *)
GeometryRead ==
  /\ pc = "geometry" /\ Info = NULL
  /\ \E regs \in {Registers(Disk)} \cup ErrorReports :
       devices' = dev_setinfo(HARD_DISK_DRIVER, minor, To(Decoded(regs)))
  /\ AllocateGeometry /\ OpenSucceeds
  /\ UNCHANGED <<caller, minor, loop, held>>

GeometryNoMemory ==
  /\ pc = "geometry" /\ Info = NULL
  /\ Panic
  /\ UNCHANGED <<devices, errno, caller, minor, loop, opened, blocks, held,
                 reply>>

(* mbr_get waits for a key before it reads: this step is the user's.       *)
KeyStroke ==
  /\ pc = "key"
  /\ pc' = "read" /\ request' = <<0, 1>>
  /\ UNCHANGED <<devices, errno, caller, minor, lba, count, nb, got, tries,
                 read, segment, buffer, fetched, overstated, opened, blocks,
                 held, reply>>

-----------------------------------------------------------------------------
(* hd_read.                                                                *)

SectorsPerSegment == 128

(* Mutant of ReadAllowed: the parameters are not checked.                  *)
ReadAllowedMutant == Info # NULL /\ Info[1].NS <= SectorsPerSegment

(* The assertions at its top.                                              *)
ReadAllowed ==
  /\ Info # NULL
  /\ Info[1].NS <= SectorsPerSegment
  /\ request[1] < Info[1].Nlba
  /\ (request[1] + request[2]) % Word <= Info[1].Nlba

ReadPanics ==
  /\ pc = "read" /\ ~ ReadAllowed
  /\ Panic
  /\ UNCHANGED <<devices, errno, caller, minor, loop, opened, blocks, held,
                 reply>>

ReadStarts ==
  /\ pc = "read" /\ ReadAllowed
  /\ lba' = request[1] /\ count' = request[2] /\ nb' = UInt8(request[2])
  /\ read' = 0 /\ buffer' = <<>> /\ fetched' = <<>> /\ overstated' = FALSE
  /\ pc' = "chunk"
  /\ UNCHANGED <<devices, errno, caller, minor, got, tries, segment, request,
                 opened, blocks, held, reply>>

(* Only a request of more than a track is cut; otherwise the last size     *)
(* stands.                                                                 *)
ChunkSize(chs) ==
  IF count > Info[1].NS THEN UInt8(Info[1].NS - chs.S + 1) ELSE nb

(* Mutant of Chunk: nb_read_sectors keeps its value from the last chunk.   *)
ChunkMutant ==
  /\ pc = "chunk" /\ count > 0
  /\ nb' = ChunkSize(lbatochs(Info[1], lba))
  /\ tries' = 0 /\ pc' = "bios"
  /\ UNCHANGED <<devices, errno, caller, minor, lba, count, got, read, segment,
                 buffer, fetched, request, overstated, opened, blocks, held,
                 reply>>

Chunk ==
  /\ pc = "chunk" /\ count > 0
  /\ nb' = ChunkSize(lbatochs(Info[1], lba))
  /\ got' = 0 /\ tries' = 0 /\ pc' = "bios"
  /\ UNCHANGED <<devices, errno, caller, minor, lba, count, read, segment,
                 buffer, fetched, request, overstated, opened, blocks, held,
                 reply>>

(* Where the BIOS starts to read: it decodes the registers of              *)
(* disk_read_sectors against the geometry of the drive itself.             *)
BiosLba ==
  LET chs == lbatochs(Info[1], lba)
  IN  chstolba(Disk, [C |-> Cylinder(CX(chs)), H |-> chs.H,
                      S |-> Sector(CX(chs))])

(* The sectors the BIOS may read: all, none or some, never past the end.   *)
BiosCounts ==
  LET most == IF BiosLba + nb <= DiskLba THEN nb
              ELSE IF BiosLba < DiskLba THEN DiskLba - BiosLba ELSE 0
  IN  IF request \in PartialReads THEN 0..most ELSE {0} \cup ({nb} \cap {most})

Serve(n) == segment' = [i \in 1..n |-> BiosLba + i - 1]

(* What AL may hold when n sectors were read: the truth after a success;   *)
(* after a failure also the number asked for, which nothing has cleared.   *)
CountsTold(n) == IF n = nb THEN {nb} ELSE {n, nb} \cup ErrorCounts

Attempts == 5

(* One call of the BIOS: AL is believed, the carry flag is not looked at.  *)
Attempt(n, al) ==
  /\ pc = "bios" /\ tries < Attempts /\ got # nb
  /\ n \in BiosCounts /\ al \in CountsTold(n)
  /\ tries' = tries + 1
  /\ got' = al /\ Serve(n)
  /\ overstated' = (overstated \/ al > n)
  /\ UNCHANGED <<devices, errno, pc, caller, minor, lba, count, nb, read,
                 buffer, fetched, request, opened, blocks, held, reply>>

(* The sectors the last attempt is believed to have read.                  *)
Taken == [i \in 1..got |-> IF i <= Len(segment) THEN segment[i] ELSE Stale]

(* One sequence over the start of another.                                 *)
Overlay(new, old) ==
  [i \in 1..(IF Len(new) > Len(old) THEN Len(new) ELSE Len(old)) |->
    IF i <= Len(new) THEN new[i] ELSE old[i]]

(* Mutant of Copy: the count stays.                                        *)
CopyForgetsMutant ==
  /\ pc = "bios" /\ (tries = Attempts \/ got = nb)
  /\ buffer' = Overlay(Taken, buffer) /\ fetched' = fetched \o Taken
  /\ read' = read + got /\ lba' = (lba + got) % Word
  /\ pc' = "chunk"
  /\ UNCHANGED <<devices, errno, caller, minor, count, nb, got, tries, segment,
                 request, overstated, opened, blocks, held, reply>>

(* The copy always goes to the start of the buffer.                        *)
Copy ==
  /\ pc = "bios" /\ (tries = Attempts \/ got = nb)
  /\ buffer' = Overlay(Taken, buffer) /\ fetched' = fetched \o Taken
  /\ read' = read + got
  /\ count' = (count - got) % Word
  /\ lba' = (lba + got) % Word
  /\ pc' = "chunk"
  /\ UNCHANGED <<devices, errno, caller, minor, nb, got, tries, segment,
                 request, overstated, opened, blocks, held, reply>>

(* The locals of hd_read are gone, and what it left in the segment is      *)
(* stale.                                                                  *)
Forget ==
  /\ lba' = 0 /\ count' = 0 /\ nb' = 0 /\ got' = 0 /\ tries' = 0 /\ read' = 0
  /\ segment' = <<>> /\ buffer' = <<>> /\ fetched' = <<>> /\ request' = <<0, 0>>
  /\ UNCHANGED overstated

ReadReturns ==
  /\ pc = "chunk" /\ count = 0
  /\ pc' = "idle" /\ Forget
  /\ \/ /\ caller = "client" /\ reply' = "read" /\ UNCHANGED <<blocks, held>>
     \/ /\ caller = "mbr_get" /\ read < 1
        /\ FreeMbr /\ reply' = "NULL" /\ UNCHANGED held
     \/ /\ caller = "mbr_get" /\ read >= 1
        /\ held' = Append(held, buffer[1]) /\ reply' = "mbr"
        /\ UNCHANGED blocks
  /\ UNCHANGED <<devices, errno, caller, minor, opened>>

-----------------------------------------------------------------------------
Client ==
  \/ \E name \in Names : GetMbrUnknown(name) \/ GetMbr(name)
  \/ DestroyMbr
  \/ \E mn \in Minors : CallOpen(mn)
  \/ \E mn \in Minors, r \in Requests : CallRead(mn, r)

User == KeyStroke

Driver ==
  \/ OpenNoDevice \/ OpenReset \/ OpenAgain
  \/ GeometryKnown \/ GeometryInvalid \/ GeometryRead \/ GeometryNoMemory
  \/ ReadPanics \/ ReadStarts \/ Chunk \/ Copy \/ ReadReturns
  \/ pc = "bios" /\ \E n \in BiosCounts : \E al \in CountsTold(n) : Attempt(n, al)

(* An assertion that fails halts the machine; a call through NULL runs     *)
(* whatever memory holds.                                                  *)
Halted == pc \in {"panic", "fault"} /\ UNCHANGED vars

Next == Client \/ User \/ Driver \/ Halted

(* The driver runs whenever it can, and a disk asked again and again       *)
(* sooner or later reads all of what it is asked.  Nothing makes a client  *)
(* call, or a user press the key.                                          *)
Spec ==
  /\ Init /\ [][Next]_vars
  /\ WF_vars(Driver)
  /\ SF_vars(Attempt(nb, nb))
=============================================================================
