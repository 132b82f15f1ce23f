---------------------------- MODULE HardDiskProps ----------------------------
(* Properties of the block device layer of module HardDisk. *)
EXTENDS HardDisk

Geometries == [NC : Nat, NH : Nat, NS : Nat, Nlba : Nat]

(* The type invariant: the fields of dev_t and the locals of hd_read.      *)
TypeOK ==
  /\ DOMAIN devices = {"hda", "fda"}
  /\ \A d \in DOMAIN devices :
       /\ DOMAIN devices[d] = {"major", "minor", "status", "info"}
       /\ devices[d].major \in {FLOPPY_DISK_DRIVER, HARD_DISK_DRIVER}
       /\ devices[d].minor \in Nat
       /\ devices[d].status \in {"unknown", "initialized"}
       /\ \/ devices[d].info = NULL
          \/ Len(devices[d].info) = 1 /\ devices[d].info[1] \in Geometries
  /\ errno \in {"none", "ENODEV"}
  /\ pc \in {"idle", "open", "geometry", "key", "read", "chunk", "bios",
             "panic", "fault"}
  /\ caller \in {"client", "mbr_get"}
  /\ minor \in Nat /\ lba \in 0..Word-1 /\ count \in 0..Word-1
  /\ nb \in 0..255 /\ got \in 0..255 /\ tries \in 0..Attempts /\ read \in Nat
  /\ request \in Nat \X Nat /\ overstated \in BOOLEAN
  /\ opened \subseteq {0}
  /\ mbrs \in Nat /\ geometries \in Nat
  /\ reply \in {"none", "NULL", "opened", "read", "mbr"}

-----------------------------------------------------------------------------
(* No block is lost or freed twice on any path of mbr_get and hd_open: the *)
(* boot sectors allocated are those its clients hold and the one in        *)
(* progress, and a geometry is allocated exactly when the device has it.   *)
InProgress ==
  IF caller = "mbr_get" /\ pc \in {"open", "geometry", "key", "read", "chunk",
                                   "bios", "fault"}
    THEN 1 ELSE 0

NoLeak ==
  pc # "panic" =>
    /\ mbrs = Len(held) + InProgress
    /\ geometries =
         IF dev_getinfo(HARD_DISK_DRIVER, 0) = NULL THEN 0 ELSE 1

(* The boot sector mbr_get returns is sector 0 of the disk, whatever       *)
(* geometry the BIOS reported and however often it refused, as long as AL  *)
(* never told of more sectors than were read.  (When a refused read leaves *)
(* AL as it was, at 1, mbr_get returns whatever the segment held.)         *)
BootSectorIsSectorZero ==
  reply = "mbr" /\ held # <<>> /\ ~ overstated => held[Len(held)] = 0

(* lbatochs divides by NS and NH only after the assertions on Nlba have    *)
(* made sure that neither is 0.                                            *)
NoDivisionByZero ==
  pc \in {"chunk", "bios"} /\ count > 0 => Info[1].NS > 0 /\ Info[1].NH > 0

(* A call ends, in an answer or in a failed assertion, when the disk does  *)
(* not refuse forever; or it waits for the key mbr_get asks the user for,  *)
(* and once that is pressed it ends in the same way.                       *)
CallEnds ==
  pc \notin {"idle", "key"} ~> pc \in {"idle", "key", "panic", "fault"}

-----------------------------------------------------------------------------
(* What hd_read owes its caller.                                           *)

Asked(i) == request[1] + i - 1

(* hd_read is about to return.                                             *)
Done == pc = "chunk" /\ count = 0

GeometryTold == Info # NULL /\ Info[1] = Decoded(Registers(Disk))

(* With the geometry of the drive, the BIOS is asked for sectors of one    *)
(* track (hd_drv.c:119) of the disk (hd_drv.c:96) and reads from where the *)
(* loop stands: the conversion to cylinder, head and sector and its packing*)
(* in CX lose nothing, even above cylinder 255.  This is for requests in   *)
(* whose last chunk the stale nb_sectors_to_read is the right one (see     *)
(* ComesOutEven), while AL tells of no more sectors than were read.        *)
ReadsWhereAsked ==
  pc = "bios" /\ GeometryTold /\ ~ overstated =>
    /\ lbatochs(Info[1], lba).S + nb - 1 <= Info[1].NS
    /\ lba + nb <= Info[1].Nlba
    /\ got > 0 => segment[1] = lba

(* With the geometry of the drive the sectors are fetched in order, none   *)
(* twice and none left out, however the request is cut in chunks and       *)
(* however often a chunk is refused; and hd_read returns when it has all.  *)
(* This too is for such requests and such a BIOS.                          *)
FetchesRequest ==
  GeometryTold /\ ~ overstated =>
    /\ pc \in {"chunk", "bios"} => \A i \in 1..Len(fetched) : fetched[i] = Asked(i)
    /\ Done =>
         read = request[2] /\ fetched = [i \in 1..request[2] |-> Asked(i)]

(* "copy data to buffer" (hd_drv.c:148): the buffer gets every sector      *)
(* asked for, in order, when AL is to be believed.                         *)
BufferHoldsRequest ==
  Done /\ ~ overstated =>
    /\ Len(buffer) = request[2]
    /\ \A i \in 1..Len(buffer) : buffer[i] = Asked(i)

-----------------------------------------------------------------------------
(* The inductive invariant behind TypeOK, NoLeak, BootSectorIsSectorZero   *)
(* and NoDivisionByZero.                                                   *)

KnownInfos ==
  {NULL} \cup {To(Decoded(regs)) : regs \in {Registers(Disk)} \cup ErrorReports}

DevicesInv ==
  /\ devices \in [{"hda", "fda"} -> [major : {0, 1}, minor : {0},
                  status : {"unknown", "initialized"}, info : KnownInfos]]
  /\ devices["hda"].major = HARD_DISK_DRIVER
  /\ devices["fda"].major = FLOPPY_DISK_DRIVER
  /\ devices["fda"].info = NULL

ControlInv ==
  /\ errno \in {"none", "ENODEV"}
  /\ pc \in {"idle", "open", "geometry", "key", "read", "chunk", "bios",
             "panic", "fault"}
  /\ caller \in {"client", "mbr_get"}
  /\ minor \in Nat
  /\ opened \subseteq {0}
  /\ mbrs \in Nat /\ geometries \in Nat
  /\ held \in Seq({held[i] : i \in DOMAIN held})
  /\ reply \in {"none", "NULL", "opened", "read", "mbr"}

LoopInv ==
  /\ lba \in 0..Word-1 /\ count \in 0..Word-1
  /\ nb \in 0..255 /\ got \in 0..255 /\ tries \in 0..Attempts /\ read \in Nat
  /\ request \in (0..Word-1) \X (0..Word-1)
  /\ overstated \in BOOLEAN

(* While a call runs it has not answered, and while hd_read runs the       *)
(* asserted facts about the geometry still hold.                           *)
ReadInv ==
  /\ pc \in {"open", "geometry", "key", "read", "chunk", "bios"} => reply = "none"
  /\ pc \in {"geometry", "key", "read", "chunk", "bios"} => minor = 0
  /\ caller = "mbr_get" /\ pc # "panic" => minor = 0
  /\ pc \in {"chunk", "bios"} =>
       Info # NULL /\ Info[1].NS > 0 /\ Info[1].NH > 0

(* mbr_get reads one sector, in one chunk, and gets it or starts again,    *)
(* while AL is to be believed.                                             *)
BootInv ==
  caller = "mbr_get" =>
    /\ pc \in {"read", "chunk", "bios"} => request = <<0, 1>>
    /\ pc \in {"chunk", "bios"} /\ ~ overstated => nb = 1
    /\ pc = "bios" /\ ~ overstated =>
         /\ lba = 0 /\ count = 1 /\ read = 0 /\ got <= 1 /\ buffer = <<>>
         /\ got = 1 => segment = <<0>>
    /\ pc = "chunk" /\ ~ overstated =>
         \/ lba = 0 /\ count = 1 /\ read = 0 /\ buffer = <<>>
         \/ count = 0 /\ read = 1 /\ buffer[1] = 0

IInv ==
  /\ DevicesInv /\ ControlInv /\ LoopInv /\ ReadInv /\ BootInv
  /\ NoLeak /\ BootSectorIsSectorZero

-----------------------------------------------------------------------------
(* Requests whose chunks come out even, and the inductive invariant behind *)
(* ReadsWhereAsked and FetchesRequest for them.                            *)

LeftInTrack(l) == Disk.NS - (l % Disk.NS)
Multiple(k, n) == \E q \in 0..k : k = q * n

(* k sectors from l on, after a chunk of n: what is left after the first   *)
(* chunk is whole tracks, or a multiple of that chunk.                     *)
ComesOutEven(l, k, n) ==
  LET rest == k - LeftInTrack(l)
  IN  IF k <= Disk.NS THEN k <= LeftInTrack(l) /\ Multiple(k, n)
      ELSE Multiple(rest, IF rest <= Disk.NS THEN LeftInTrack(l) ELSE Disk.NS)

(* The requests a disk can serve come out even, and reads fail as a whole. *)
EvenRequests ==
  /\ \A r \in Requests :
       /\ r[1] + r[2] < Word
       /\ r[1] + r[2] <= DiskLba => ComesOutEven(r[1], r[2], r[2])
  /\ \A r \in PartialReads : r[2] = 1

(* In the loop, and when a chunk is chosen.                                *)
OnCourse ==
  /\ request[1] + request[2] <= DiskLba
  /\ lba = request[1] + read /\ request[2] = read + count
  /\ fetched = [i \in 1..read |-> Asked(i)]
  /\ ComesOutEven(lba, count, nb)

ChunkFits ==
  /\ nb \in 1..count /\ nb <= LeftInTrack(lba)
  /\ ComesOutEven(lba + nb, count - nb, nb)
  /\ got \in {0, nb}
  /\ got > 0 => segment = [i \in 1..got |-> lba + i - 1]

FetchInv ==
  /\ pc \in {"read", "chunk", "bios"} => request \in Requests \cup {<<0, 1>>}
  /\ GeometryTold /\ ~ overstated =>
       /\ pc \in {"chunk", "bios"} => OnCourse
       /\ pc = "bios" => ChunkFits
=============================================================================
