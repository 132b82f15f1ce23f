--------------------------- MODULE HardDiskProofs ---------------------------
(***************************************************************************)
(* The conversions of sector numbers are exact for every geometry, and the *)
(* block device layer leaks nothing, never divides by zero and returns     *)
(* sector 0 as the boot sector, for every drive, every report of its       *)
(* geometry and every request; and it fetches every request whose chunks   *)
(* come out even.  What is said of sectors is said of a BIOS whose AL does *)
(* not tell of more sectors than it has read; the rest of any BIOS.        *)
(***************************************************************************)
EXTENDS HardDiskProps, TLAPS

-----------------------------------------------------------------------------
(* Integer division.                                                       *)

LEMMA Division ==
  ASSUME NEW a \in Nat, NEW b \in Nat, b > 0
  PROVE  /\ a \div b \in Nat /\ a % b \in 0..b-1
         /\ a = (b * (a \div b)) + (a % b)
BY Z3

LEMMA ProductPositive ==
  ASSUME NEW a \in Nat, NEW b \in Nat, NEW c \in Nat
  PROVE  /\ a * b * c \in Nat
         /\ a > 0 /\ b > 0 /\ c > 0 => a * b * c > 0
<1>1. a * b \in Nat /\ (a > 0 /\ b > 0 => a * b > 0)
  OBVIOUS
<1>. DEFINE d == a * b
<1>. HIDE DEF d
<1>2. d \in Nat => d * c \in Nat /\ (d > 0 /\ c > 0 => d * c > 0)
  OBVIOUS
<1>. QED BY <1>1, <1>2 DEF d

LEMMA UInt8Range ==
  ASSUME NEW a \in Int
  PROVE  UInt8(a) \in 0..255
BY DEF UInt8

LEMMA ExactDivision ==
  ASSUME NEW q \in Nat, NEW b \in Nat, b > 0
  PROVE  (b * q) \div b = q
<1> DEFINE d == (b * q) \div b
           r == (b * q) % b
<1>1. b * q \in Nat
  OBVIOUS
<1>2. d \in Nat /\ r \in 0..b-1 /\ b * q = b * d + r
  BY <1>1, Division
<1>3. b * (q - d) = r
  BY <1>2
<1>. HIDE DEF d, r
<1>4. CASE q > d
  <2>1. b * (q - d) >= b
    BY <1>2, <1>4
  <2>. QED BY <2>1, <1>2, <1>3
<1>5. CASE q < d
  <2>1. b * (q - d) <= -b
    BY <1>2, <1>5
  <2>. QED BY <2>1, <1>2, <1>3
<1>. QED BY <1>2, <1>4, <1>5 DEF d

LEMMA QuotientBound ==
  ASSUME NEW a \in Nat, NEW b \in Nat, b > 0, NEW c \in Nat, a < b * c
  PROVE  a \div b < c
<1> DEFINE d == a \div b
<1>1. d \in Nat /\ b * d <= a
  BY Division
<1>. HIDE DEF d
<1>2. CASE d >= c
  <2>1. b * d >= b * c
    BY <1>1, <1>2
  <2>. QED BY <1>1, <2>1
<1>. QED BY <1>1, <1>2 DEF d

-----------------------------------------------------------------------------
(* The arithmetic of cylinders and heads, on plain numbers.                *)
LEMMA Product ==
  ASSUME NEW l \in Nat, NEW ns \in Nat, NEW nh \in Nat, NEW nc \in Nat,
         l < nc * nh * ns
  PROVE  nh * nc \in Nat /\ l < ns * (nh * nc)
<1>1. nh * nc \in Nat /\ nc * nh = nh * nc
  OBVIOUS
<1>. DEFINE p == nh * nc
<1>2. l < p * ns
  BY <1>1
<1>3. p * ns = ns * p
  BY <1>1
<1>. QED BY <1>1, <1>2, <1>3

LEMMA Recomposed ==
  ASSUME NEW l \in Nat, NEW ns \in Nat, NEW nh \in Nat, NEW s \in Nat,
         NEW t \in Nat, NEW h \in Nat, NEW c \in Nat,
         l = ns * t + s, t = nh * c + h
  PROVE  c * ns * nh + h * ns + ((s + 1) - 1) = l
<1>1. ns * t = ns * (nh * c) + ns * h
  BY Z3
<1>2. ns * (nh * c) = c * ns * nh
  BY Z3
<1>3. ns * h = h * ns
  BY Z3
<1>4. c * ns * nh \in Nat /\ h * ns \in Nat
  BY Z3
<1>. QED BY <1>1, <1>2, <1>3, <1>4

(* lbatochs gives the cylinder, head and sector of every sector of a disk, *)
(* none of its fields drops a bit, and chstolba leads back.                *)
THEOREM SectorNumbersAgree ==
  ASSUME NEW desc, desc.NS \in 1..63, desc.NH \in 1..255, desc.NC \in 1..1024,
         NEW l \in Nat, l < desc.NC * desc.NH * desc.NS
  PROVE  /\ lbatochs(desc, l).S \in 1..desc.NS
         /\ lbatochs(desc, l).H \in 0..desc.NH-1
         /\ lbatochs(desc, l).C \in 0..desc.NC-1
         /\ chstolba(desc, lbatochs(desc, l)) = l
<1> DEFINE ns == desc.NS
           nh == desc.NH
           nc == desc.NC
           s == l % ns
           t == l \div ns
           h == t % nh
           c == t \div nh
<1>0. ns \in 1..63 /\ nh \in 1..255 /\ nc \in 1..1024 /\ l < nc * nh * ns
  OBVIOUS
<1>. HIDE DEF ns, nh, nc
<1>1. s \in 0..ns-1 /\ t \in Nat /\ l = ns * t + s
  BY <1>0, Division
<1>2. h \in 0..nh-1 /\ c \in Nat /\ t = nh * c + h
  <2>. HIDE DEF t
  <2>. QED BY <1>0, <1>1, Division
<1>3. lbatochs(desc, l) =
        [S |-> UInt8(s + 1),
         H |-> UInt8(((l - (UInt8(s + 1) - 1)) \div ns) % nh),
         C |-> UInt16(((l - (UInt8(s + 1) - 1)) \div ns) \div nh)]
  BY DEF lbatochs, ns, nh
<1>4. l \div ns = t /\ t % nh = h /\ t \div nh = c
  OBVIOUS
<1>. HIDE DEF s, t, h, c
<1>5. UInt8(s + 1) = s + 1
  BY <1>0, <1>1 DEF UInt8
<1>6. (l - ((s + 1) - 1)) \div ns = t
  <2>1. l - ((s + 1) - 1) = ns * t
    BY <1>0, <1>1
  <2>. QED BY <2>1, <1>0, <1>1, ExactDivision
<1>7. t < nh * nc
  <2>1. nh * nc \in Nat /\ l < ns * (nh * nc)
    BY <1>0, Product
  <2>. QED BY <2>1, <1>0, <1>4, QuotientBound, SMTT(60)
<1>8. c < nc
  BY <1>7, <1>0, <1>1, <1>4, QuotientBound
<1>9. UInt8(h) = h /\ UInt16(c) = c
  <2>1. h \in 0..254
    BY <1>0, <1>2
  <2>2. c \in 0..1023
    BY <1>0, <1>2, <1>8
  <2>. QED BY <2>1, <2>2 DEF UInt8, UInt16
<1>10. lbatochs(desc, l) = [S |-> s + 1, H |-> h, C |-> c]
  BY <1>3, <1>4, <1>5, <1>6, <1>9
<1>11. c * ns * nh + h * ns + ((s + 1) - 1) = l
  <2>1. ns \in Nat /\ nh \in Nat /\ s \in Nat /\ h \in Nat
    BY <1>0, <1>1, <1>2
  <2>. QED BY <2>1, <1>1, <1>2, Recomposed
<1>12. chstolba(desc, lbatochs(desc, l))
         = c * ns * nh + h * ns + ((s + 1) - 1)
  BY <1>10 DEF chstolba, ns, nh
<1>13. s + 1 \in 1..ns /\ h \in 0..nh-1 /\ c \in 0..nc-1
  BY <1>0, <1>1, <1>2, <1>8
<1>. QED
  BY <1>10, <1>11, <1>12, <1>13 DEF ns, nh, nc

(* Packing a cylinder and a sector in CX loses nothing: the BIOS decodes   *)
(* what disk_read_sectors has encoded.                                     *)
THEOREM PackingExact ==
  ASSUME NEW chs, chs.C \in 0..1023, chs.S \in 0..63
  PROVE  Cylinder(CX(chs)) = chs.C /\ Sector(CX(chs)) = chs.S
<1> DEFINE low == chs.C % 256
           high == chs.C \div 256
<1>1. low \in 0..255 /\ high \in 0..3 /\ chs.C = 256 * high + low
  BY SMTT(60)
<1>2. CX(chs) = low * 256 + high * 64 + chs.S
  BY <1>1 DEF CX
<1>. HIDE DEF low, high
<1>3. CX(chs) % 64 = chs.S
  BY <1>1, <1>2
<1>4. CX(chs) \div 256 = low /\ CX(chs) % 256 = high * 64 + chs.S
  <2> DEFINE rest == high * 64 + chs.S
  <2>1. rest \in 0..255 /\ CX(chs) = low * 256 + rest
    BY <1>1, <1>2, SMTT(60)
  <2>. HIDE DEF rest
  <2>2. CX(chs) \div 256 = low
    BY <2>1, <1>1
  <2>3. CX(chs) % 256 = rest
    BY <2>1, <1>1
  <2>. QED BY <2>2, <2>3 DEF rest
<1>5. (high * 64 + chs.S) \div 64 = high
  BY <1>1
<1>. QED
  BY <1>1, <1>3, <1>4, <1>5 DEF Cylinder, Sector

(* The first sector of any geometry without a zero is the first sector of  *)
(* the drive.                                                              *)
LEMMA FirstSector ==
  ASSUME NEW desc, desc.NS \in Nat, desc.NS > 0, desc.NH \in Nat, desc.NH > 0
  PROVE  lbatochs(desc, 0) = [S |-> 1, H |-> 0, C |-> 0]
<1>1. 0 % desc.NS = 0 /\ 0 \div desc.NS = 0
  BY Z3
<1>2. 0 % desc.NH = 0 /\ 0 \div desc.NH = 0
  BY Z3
<1>3. UInt8(1) = 1 /\ UInt8(0) = 0 /\ UInt16(0) = 0
  BY DEF UInt8, UInt16
<1>. QED BY <1>1, <1>2, <1>3 DEF lbatochs
-----------------------------------------------------------------------------
(* What the device table says.                                             *)

LEMMA WordsNat == Words \subseteq Nat
BY DEF Words

(* The geometries a device may be given fit the fields they are stored in. *)
LEMMA GeometryTypes ==
  ASSUME NEW info \in KnownInfos, info # NULL
  PROVE  info[1].NS \in 0..63 /\ info[1].NH \in 0..255 /\ info[1].NC \in Nat
<1>1. PICK regs \in {Registers(Disk)} \cup ErrorReports :
        info = To(Decoded(regs))
  BY DEF KnownInfos
<1>2. Disk.NC \in 1..1024 /\ Disk.NH \in 1..255 /\ Disk.NS \in 1..63
  <2>1. Disk \in Disks
    BY HardDiskAssumption
  <2>. QED BY <2>1 DEF Disks
<1>3. regs.cx \in Nat /\ regs.dh \in Nat
  <2>1. CASE regs \in ErrorReports
    <3>1. regs \in RegisterValues
      BY <2>1, HardDiskAssumption
    <3>2. regs.cx \in Words /\ regs.dh \in Bytes
      BY <3>1 DEF RegisterValues
    <3>3. regs.cx \in Nat
      BY <3>2, WordsNat
    <3>4. regs.dh \in Nat
      BY <3>2 DEF Bytes
    <3>. QED BY <3>3, <3>4
  <2>2. CASE regs = Registers(Disk)
    <3>. DEFINE last == Disk.NC - 1
    <3>1. last \in 0..1023
      BY <1>2
    <3>2. regs.cx = (last % 256) * 256 + (last \div 256) * 64 + Disk.NS
          /\ regs.dh = Disk.NH - 1
      BY <2>2 DEF Registers
    <3>. HIDE DEF last
    <3>. QED BY <1>2, <3>1, <3>2, SMTT(60)
  <2>. QED BY <2>1, <2>2
<1>4. info[1] = Decoded(regs)
  BY <1>1 DEF To
<1>5. info[1].NS = Sector(regs.cx) /\ info[1].NH = UInt8(regs.dh + 1)
      /\ info[1].NC = Cylinder(regs.cx) + 1
  BY <1>4 DEF Decoded, Described
<1>6. Sector(regs.cx) \in 0..63
  BY <1>3 DEF Sector
<1>7. UInt8(regs.dh + 1) \in 0..255
  BY <1>3 DEF UInt8
<1>8. Cylinder(regs.cx) \in Nat
  BY <1>3 DEF Cylinder
<1>. QED
  BY <1>5, <1>6, <1>7, <1>8

LEMMA InfoGeometry ==
  ASSUME NEW info \in KnownInfos, info # NULL
  PROVE  Len(info) = 1 /\ info[1] \in Geometries
<1>1. PICK regs \in {Registers(Disk)} \cup ErrorReports :
        info = To(Decoded(regs))
  BY DEF KnownInfos
<1>. DEFINE g == Decoded(regs)
<1>2. Len(info) = 1 /\ info[1] = g
  BY <1>1 DEF To
<1>3. g = [NC |-> g.NC, NH |-> g.NH, NS |-> g.NS, Nlba |-> g.NC * g.NH * g.NS]
  BY DEF Decoded, Described
<1>4. g.NS \in 0..63 /\ g.NH \in 0..255 /\ g.NC \in Nat
  BY <1>2, GeometryTypes
<1>. HIDE DEF g
<1>5. g.NC * g.NH * g.NS \in Nat
  <2>. DEFINE NC == g.NC
             NH == g.NH
             NS == g.NS
  <2>1. NC \in Nat /\ NH \in Nat /\ NS \in Nat
    BY <1>4
  <2>. HIDE DEF NC, NH, NS
  <2>2. NC * NH * NS \in Nat
    BY <2>1, ProductPositive
  <2>. QED BY <2>2 DEF NC, NH, NS
<1>. QED BY <1>2, <1>3, <1>4, <1>5 DEF Geometries

LEMMA Lookup ==
  ASSUME DevicesInv
  PROVE  /\ Matching(HARD_DISK_DRIVER, 0) = {"hda"}
         /\ dev_getinfo(HARD_DISK_DRIVER, 0) = devices["hda"].info
         /\ dev_getstatus(HARD_DISK_DRIVER, 0) = devices["hda"].status
         /\ \A mn : mn # 0 => dev_getstatus(HARD_DISK_DRIVER, mn) = "not found"
<1>1. DOMAIN devices = {"hda", "fda"}
  BY DEF DevicesInv
<1>2. Matching(HARD_DISK_DRIVER, 0) = {"hda"}
  BY <1>1 DEF DevicesInv, Matching, HARD_DISK_DRIVER, FLOPPY_DISK_DRIVER
<1>3. \A mn : mn # 0 => Matching(HARD_DISK_DRIVER, mn) = {}
  BY <1>1 DEF DevicesInv, Matching
<1>. QED
  BY <1>2, <1>3 DEF dev_getinfo, dev_getstatus

(* Storing a status or a geometry keeps the table in shape.                *)
LEMMA Store ==
  ASSUME DevicesInv, NEW status \in {"unknown", "initialized"},
         NEW info \in KnownInfos
  PROVE  /\ devices' = dev_setstatus(HARD_DISK_DRIVER, 0, status)
              => DevicesInv' /\ devices'["hda"].info = devices["hda"].info
         /\ devices' = dev_setinfo(HARD_DISK_DRIVER, 0, info)
              => DevicesInv' /\ devices'["hda"].info = info
<1>1. DOMAIN devices = {"hda", "fda"} /\ Matching(HARD_DISK_DRIVER, 0) = {"hda"}
  BY Lookup DEF DevicesInv
<1>. DEFINE h == devices["hda"]
<1>2. h \in [major : {0, 1}, minor : {0},
             status : {"unknown", "initialized"}, info : KnownInfos]
  BY DEF DevicesInv
<1>3. ASSUME devices' = dev_setstatus(HARD_DISK_DRIVER, 0, status)
      PROVE  DevicesInv' /\ devices'["hda"].info = devices["hda"].info
  <2>1. devices' = [d \in {"hda", "fda"} |->
                      IF d = "hda" THEN [h EXCEPT !.status = status]
                      ELSE devices[d]]
    BY <1>1, <1>3 DEF dev_setstatus
  <2>. QED BY <2>1, <1>2 DEF DevicesInv, KnownInfos
<1>4. ASSUME devices' = dev_setinfo(HARD_DISK_DRIVER, 0, info)
      PROVE  DevicesInv' /\ devices'["hda"].info = info
  <2>1. devices' = [d \in {"hda", "fda"} |->
                      IF d = "hda" THEN [h EXCEPT !.info = info]
                      ELSE devices[d]]
    BY <1>1, <1>4 DEF dev_setinfo
  <2>. QED BY <2>1, <1>2 DEF DevicesInv, KnownInfos
<1>. QED BY <1>3, <1>4

HdaInfo ==
  /\ dev_getinfo(HARD_DISK_DRIVER, 0) = devices["hda"].info
  /\ minor = 0 => Info = devices["hda"].info
  /\ devices["hda"].info \in KnownInfos

LEMMA HdaGeometry == DevicesInv => HdaInfo
<1>. SUFFICES ASSUME DevicesInv PROVE HdaInfo
  OBVIOUS
<1>1. devices["hda"].info \in KnownInfos
  BY DEF DevicesInv
<1>. QED BY <1>1, Lookup DEF Info, HdaInfo

LEMMA HdaGeometryNext == DevicesInv' => HdaInfo'
BY HdaGeometry, PTL

-----------------------------------------------------------------------------
(* The invariant.                                                          *)

LEMMA WordPositive == Word \in Nat /\ Word > 1
<1>1. Disk \in Disks /\ Word \in Nat /\ Word > Disk.NC * Disk.NH * Disk.NS
  BY HardDiskAssumption
<1>2. Disk.NC \in Nat \ {0} /\ Disk.NH \in Nat \ {0} /\ Disk.NS \in Nat \ {0}
  BY <1>1 DEF Disks
<1>3. Disk.NC * Disk.NH * Disk.NS \in Nat /\ Disk.NC * Disk.NH * Disk.NS > 0
  BY <1>2, ProductPositive
<1>. QED BY <1>1, <1>3

(* The boot sectors held are a sequence.                                   *)
LEMMA OwnElements ==
  ASSUME NEW S, NEW s \in Seq(S)
  PROVE  s \in Seq({s[i] : i \in DOMAIN s})
<1>. DEFINE T == {s[i] : i \in DOMAIN s}
<1>1. Len(s) \in Nat /\ DOMAIN s = 1..Len(s) /\ s = [i \in 1..Len(s) |-> s[i]]
  OBVIOUS
<1>2. \A i \in 1..Len(s) : s[i] \in T
  BY <1>1
<1>. HIDE DEF T
<1>3. s \in Seq(T)
  BY <1>1, <1>2
<1>. QED BY <1>3 DEF T

LEMMA Longer ==
  ASSUME NEW S, NEW s \in Seq(S), NEW x
  PROVE  LET t == Append(s, x)
         IN  /\ Len(s) \in Nat /\ Len(t) = Len(s) + 1 /\ t[Len(t)] = x
             /\ t \in Seq({t[i] : i \in DOMAIN t})
<1>. DEFINE T == S \cup {x}
            t == Append(s, x)
<1>1. s \in Seq(T) /\ x \in T /\ Len(s) \in Nat
  OBVIOUS
<1>. HIDE DEF T
<1>2. t \in Seq(T) /\ Len(t) = Len(s) + 1 /\ t[Len(t)] = x
  BY <1>1
<1>. HIDE DEF t
<1>3. t \in Seq({t[i] : i \in DOMAIN t})
  BY <1>2, OwnElements
<1>. QED BY <1>1, <1>2, <1>3 DEF t

LEMMA Shorter ==
  ASSUME NEW S, NEW s \in Seq(S), s # <<>>
  PROVE  LET t == Tail(s)
         IN  /\ Len(s) \in Nat /\ Len(s) > 0 /\ Len(t) = Len(s) - 1
             /\ t # <<>> => t[Len(t)] = s[Len(s)]
             /\ t \in Seq({t[i] : i \in DOMAIN t})
<1>. DEFINE t == Tail(s)
<1>1. Len(s) \in Nat /\ Len(s) > 0 /\ t \in Seq(S) /\ Len(t) = Len(s) - 1
  OBVIOUS
<1>2. t # <<>> => t[Len(t)] = s[Len(s)]
  BY <1>1
<1>. HIDE DEF t
<1>3. t \in Seq({t[i] : i \in DOMAIN t})
  BY <1>1, OwnElements
<1>. QED BY <1>1, <1>2, <1>3 DEF t

LEMMA InitInvariant == Init => IInv
<1>. SUFFICES ASSUME Init PROVE IInv
  OBVIOUS
<1>1. NULL \in KnownInfos
  BY DEF KnownInfos
<1>2. DevicesInv
  BY <1>1 DEF Init, DevicesInv, Device, HARD_DISK_DRIVER, FLOPPY_DISK_DRIVER
<1>3. ControlInv
  BY DEF Init, ControlInv
<1>7. LoopInv
  <2>1. overstated \in BOOLEAN
    BY Zenon DEF Init
  <2>2. /\ lba = 0 /\ count = 0 /\ nb = 0 /\ got = 0 /\ tries = 0 /\ read = 0
        /\ request = <<0, 0>>
    BY DEF Init
  <2>. QED BY <2>1, <2>2, WordPositive DEF LoopInv, Attempts
<1>4. ReadInv /\ BootInv /\ BootSectorIsSectorZero
  BY DEF Init, ReadInv, BootInv, BootSectorIsSectorZero
<1>5. dev_getinfo(HARD_DISK_DRIVER, 0) = NULL
  BY <1>2, Lookup DEF Init, Device
<1>6. NoLeak
  BY <1>5 DEF Init, NoLeak, InProgress
<1>. QED BY <1>2, <1>3, <1>4, <1>6, <1>7 DEF IInv

(* What mbr_get has returned stays, and another answer than its own does   *)
(* not claim anything.                                                     *)
LEMMA StillSectorZero ==
  ASSUME BootSectorIsSectorZero,
         reply' # "mbr" \/ UNCHANGED <<reply, held, overstated>>
  PROVE  BootSectorIsSectorZero'
BY DEF BootSectorIsSectorZero

(* Whatever leaves the table alone leaves the geometry of "hda" alone.     *)
LEMMA TableUnchanged ==
  ASSUME DevicesInv, devices' = devices
  PROVE  /\ DevicesInv'
         /\ dev_getinfo(HARD_DISK_DRIVER, 0)' = dev_getinfo(HARD_DISK_DRIVER, 0)
         /\ minor = 0 /\ minor' = 0 => Info' = Info
<1>1. DevicesInv'
  BY DEF DevicesInv
<1>. QED BY <1>1, HdaGeometry, HdaGeometryNext DEF HdaInfo

LEMMA LoopUnchanged ==
  ASSUME LoopInv, UNCHANGED loop
  PROVE  LoopInv'
BY DEF LoopInv, loop

LEMMA ClientInvariant ==
  ASSUME IInv, Client
  PROVE  IInv'
<1>. USE DEF IInv
<1>1. DevicesInv' /\ dev_getinfo(HARD_DISK_DRIVER, 0)' = dev_getinfo(HARD_DISK_DRIVER, 0)
  BY TableUnchanged DEF Client, GetMbrUnknown, GetMbr, DestroyMbr, CallOpen,
                        CallRead
<1>2. ASSUME NEW name \in Names, GetMbrUnknown(name)
      PROVE  IInv'
  <2>1. LoopInv'
    BY <1>2, LoopUnchanged DEF GetMbrUnknown
  <2>. QED
    BY <1>1, <1>2, <2>1, StillSectorZero
       DEF GetMbrUnknown, blocks, ControlInv, ReadInv, BootInv, NoLeak, InProgress
<1>3. ASSUME NEW name \in Names, GetMbr(name)
      PROVE  IInv'
  <2>0. LoopInv'
    BY <1>3, LoopUnchanged DEF GetMbr
  <2>1. name \in {"hda", "fda"} /\ devices[name].minor = 0
    BY <1>3 DEF GetMbr, DevicesInv
  <2>2. ControlInv'
    BY <1>3, <2>1 DEF GetMbr, AllocateMbr, Panic, blocks, ControlInv
  <2>3. (ReadInv /\ BootInv)'
    BY <1>3, <2>1 DEF GetMbr, Panic, loop, ReadInv, BootInv
  <2>4. NoLeak'
    BY <1>1, <1>3, <2>1 DEF GetMbr, AllocateMbr, Panic, blocks, NoLeak,
                            InProgress, ControlInv
  <2>5. BootSectorIsSectorZero'
    BY <1>3, StillSectorZero DEF GetMbr
  <2>. QED BY <1>1, <2>0, <2>2, <2>3, <2>4, <2>5
<1>4. ASSUME DestroyMbr
      PROVE  IInv'
  <2>0. LoopInv'
    BY <1>4, LoopUnchanged DEF DestroyMbr
  <2>1. /\ Len(held) \in Nat /\ Len(held) > 0 /\ Len(held') = Len(held) - 1
        /\ held' # <<>> => held'[Len(held')] = held[Len(held)]
        /\ held' \in Seq({held'[i] : i \in DOMAIN held'})
    BY <1>4, Shorter DEF DestroyMbr, ControlInv
  <2>2. mbrs = Len(held) /\ mbrs' = mbrs - 1 /\ UNCHANGED geometries
    BY <1>4, <2>1 DEF DestroyMbr, FreeMbr, NoLeak, InProgress
  <2>3. ControlInv'
    <3>1. UNCHANGED <<errno, pc, caller, minor, opened, reply>>
      BY <1>4 DEF DestroyMbr
    <3>. QED BY <2>1, <2>2, <3>1 DEF ControlInv
  <2>4. (ReadInv /\ BootInv)'
    BY <1>4 DEF DestroyMbr, loop, ReadInv, BootInv
  <2>5. NoLeak'
    BY <1>1, <1>4, <2>1, <2>2 DEF DestroyMbr, NoLeak, InProgress
  <2>6. BootSectorIsSectorZero'
    <3>1. held # <<>> /\ UNCHANGED <<reply, overstated>>
      BY <1>4 DEF DestroyMbr, loop
    <3>. QED BY <2>1, <3>1 DEF BootSectorIsSectorZero
  <2>. QED BY <1>1, <2>0, <2>3, <2>4, <2>5, <2>6
<1>5. ASSUME NEW mn \in Minors, CallOpen(mn)
      PROVE  IInv'
  <2>1. mn \in Nat
    BY HardDiskAssumption
  <2>2. LoopInv'
    BY <1>5, LoopUnchanged DEF CallOpen
  <2>. QED
    BY <1>1, <1>5, <2>1, <2>2, StillSectorZero
       DEF CallOpen, blocks, ControlInv, ReadInv, BootInv, NoLeak, InProgress
<1>6. ASSUME NEW mn \in Minors, NEW r \in Requests, CallRead(mn, r)
      PROVE  IInv'
  <2>1. mn = 0
    BY <1>6 DEF CallRead, ControlInv
  <2>2. r \in (0..Word-1) \X (0..Word-1)
    BY HardDiskAssumption
  <2>3. LoopInv'
    BY <1>6, <2>2 DEF CallRead, LoopInv
  <2>. QED
    BY <1>1, <1>6, <2>1, <2>3, StillSectorZero
       DEF CallRead, blocks, ControlInv, ReadInv, BootInv, NoLeak, InProgress
<1>. QED BY <1>2, <1>3, <1>4, <1>5, <1>6 DEF Client

(* While mbr_get runs, its own block is among those allocated; otherwise   *)
(* those allocated are those held.                                         *)
LEMMA MbrCounted ==
  ASSUME ControlInv, NoLeak,
         pc \in {"open", "geometry", "key", "read", "chunk", "bios", "fault"}
  PROVE  /\ Len(held) \in Nat
         /\ caller = "mbr_get" => mbrs = Len(held) + 1 /\ mbrs - 1 = Len(held)
         /\ caller = "client" => mbrs = Len(held)
<1>1. Len(held) \in Nat /\ mbrs \in Nat
  BY DEF ControlInv
<1>2. mbrs = Len(held) + InProgress
  BY DEF NoLeak
<1>. QED BY <1>1, <1>2 DEF InProgress

(* OpenFails frees what mbr_get had allocated, and nothing of others.      *)
LEMMA FailureFrees ==
  ASSUME ControlInv, NoLeak, pc = "open", OpenFails
  PROVE  mbrs' = Len(held) /\ UNCHANGED geometries /\ Len(held) \in Nat
<1>1. caller \in {"client", "mbr_get"}
  BY DEF ControlInv
<1>. QED
  BY <1>1, MbrCounted DEF OpenFails, FreeMbr, blocks

(* NoLeak after a step that leaves the geometry of "hda" alone.            *)
LEMMA StillNoLeak ==
  ASSUME NoLeak, pc # "panic", UNCHANGED geometries,
         dev_getinfo(HARD_DISK_DRIVER, 0)' = dev_getinfo(HARD_DISK_DRIVER, 0),
         mbrs' = Len(held') + InProgress'
  PROVE  NoLeak'
BY DEF NoLeak

(* What hd_open may change keeps its type.                                 *)
LEMMA ControlKept ==
  ASSUME ControlInv, UNCHANGED <<caller, minor, held>>,
         errno' \in {"none", "ENODEV"},
         pc' \in {"idle", "geometry", "key", "panic"},
         opened' \subseteq {0}, mbrs' \in Nat, geometries' \in Nat,
         reply' \in {"none", "NULL", "opened", "read", "mbr"}
  PROVE  ControlInv'
BY DEF ControlInv

LEMMA OpenInvariant ==
  ASSUME IInv,
         \/ OpenNoDevice \/ OpenReset \/ OpenAgain
         \/ GeometryKnown \/ GeometryInvalid \/ GeometryNoMemory
  PROVE  IInv'
<1>. USE DEF IInv
<1>0. minor \in Nat /\ (minor # 0 => dev_getstatus(HARD_DISK_DRIVER, minor) = "not found")
  BY Lookup DEF ControlInv
<1>1. LoopInv' /\ UNCHANGED <<caller, minor, loop, held>>
  BY LoopUnchanged DEF OpenNoDevice, OpenReset, OpenAgain, GeometryKnown,
                       GeometryInvalid, GeometryNoMemory
<1>8. BootSectorIsSectorZero'
  <2>1. UNCHANGED <<held, overstated>>
    BY <1>1 DEF loop
  <2>2. reply' # "mbr" \/ reply' = reply
    BY DEF OpenNoDevice, OpenReset, OpenAgain, OpenFails, OpenSucceeds,
           GeometryKnown, GeometryInvalid, GeometryNoMemory
  <2>. QED BY <2>1, <2>2, StillSectorZero
<1>2. DevicesInv' /\ dev_getinfo(HARD_DISK_DRIVER, 0)' = dev_getinfo(HARD_DISK_DRIVER, 0)
  <2>1. CASE devices' = devices
    BY <2>1, TableUnchanged
  <2>2. CASE minor = 0 /\ devices' = dev_setstatus(HARD_DISK_DRIVER, 0, "initialized")
    <3>1. DevicesInv' /\ devices'["hda"].info = devices["hda"].info
      BY <2>2, HdaGeometry, Store DEF HdaInfo
    <3>. QED BY <3>1, HdaGeometry, HdaGeometryNext DEF HdaInfo
  <2>3. OpenReset => minor = 0
    BY <1>0 DEF OpenReset
  <2>. QED
    BY <2>1, <2>2, <2>3 DEF OpenNoDevice, OpenReset, OpenAgain, OpenFails,
                            GeometryKnown, GeometryInvalid, GeometryNoMemory
<1>3. ASSUME pc = "open", OpenFails
      PROVE  IInv'
  <2>1. ControlInv'
    BY <1>1, <1>3, FailureFrees, ControlKept DEF OpenFails, ControlInv
  <2>2. (ReadInv /\ BootInv)'
    BY <1>1, <1>3 DEF OpenFails, ReadInv, BootInv
  <2>3. NoLeak'
    BY <1>1, <1>2, <1>3, FailureFrees, StillNoLeak DEF OpenFails, InProgress
  <2>. QED BY <1>1, <1>2, <1>8, <2>1, <2>2, <2>3
<1>4. ASSUME pc = "open", pc' = "geometry", minor = 0,
             UNCHANGED <<errno, opened, blocks, reply>>
      PROVE  IInv'
  <2>1. ControlInv'
    BY <1>1, <1>4, ControlKept DEF ControlInv, blocks
  <2>2. (ReadInv /\ BootInv)'
    BY <1>1, <1>4 DEF ReadInv, BootInv
  <2>3. NoLeak'
    BY <1>1, <1>2, <1>4 DEF NoLeak, InProgress, blocks
  <2>. QED BY <1>1, <1>2, <1>8, <2>1, <2>2, <2>3
<1>5. ASSUME pc = "geometry", OpenSucceeds, UNCHANGED blocks
      PROVE  IInv'
  <2>0. minor = 0
    BY <1>5 DEF ReadInv
  <2>1. ControlInv'
    BY <1>1, <1>5, <2>0, ControlKept DEF OpenSucceeds, ControlInv, blocks
  <2>2. (ReadInv /\ BootInv)'
    BY <1>1, <1>5, <2>0 DEF OpenSucceeds, ReadInv, BootInv
  <2>3. NoLeak'
    BY <1>1, <1>2, <1>5 DEF OpenSucceeds, NoLeak, InProgress, blocks,
                            ControlInv
  <2>. QED BY <1>1, <1>2, <1>8, <2>1, <2>2, <2>3
<1>6. ASSUME GeometryNoMemory
      PROVE  IInv'
  <2>1. ControlInv'
    BY <1>1, <1>6, ControlKept DEF GeometryNoMemory, Panic, ControlInv, blocks
  <2>2. (ReadInv /\ BootInv /\ NoLeak)'
    BY <1>6 DEF GeometryNoMemory, Panic, ReadInv, BootInv, NoLeak
  <2>. QED BY <1>1, <1>2, <1>8, <2>1, <2>2
<1>7. OpenReset \/ OpenAgain => minor = 0
  BY <1>0 DEF OpenReset, OpenAgain
<1>. QED
  BY <1>3, <1>4, <1>5, <1>6, <1>7
     DEF OpenNoDevice, OpenReset, OpenAgain, GeometryKnown, GeometryInvalid,
         blocks

LEMMA GeometryReadInvariant ==
  ASSUME IInv, GeometryRead
  PROVE  IInv'
<1>. USE DEF IInv
<1>1. minor = 0 /\ Info = NULL
  BY DEF GeometryRead, ReadInv
<1>2. PICK regs \in {Registers(Disk)} \cup ErrorReports :
        devices' = dev_setinfo(HARD_DISK_DRIVER, 0, To(Decoded(regs)))
  BY <1>1 DEF GeometryRead
<1>3. To(Decoded(regs)) \in KnownInfos /\ To(Decoded(regs)) # NULL
  BY DEF KnownInfos, To, NULL
<1>4. DevicesInv' /\ devices'["hda"].info = To(Decoded(regs))
  BY <1>2, <1>3, Store
<1>5. dev_getinfo(HARD_DISK_DRIVER, 0)' = To(Decoded(regs))
  BY <1>4, HdaGeometryNext DEF HdaInfo
<1>6. dev_getinfo(HARD_DISK_DRIVER, 0) = NULL
  BY <1>1 DEF Info
<1>7. /\ pc = "geometry" /\ OpenSucceeds
      /\ geometries' = geometries + 1 /\ mbrs' = mbrs
      /\ UNCHANGED <<caller, minor, loop, held>>
  BY DEF GeometryRead, AllocateGeometry
<1>8. LoopInv'
  BY <1>7, LoopUnchanged
<1>9. ControlInv'
  <2>1. mbrs' \in Nat /\ geometries' \in Nat
    BY <1>7 DEF ControlInv
  <2>. QED BY <1>1, <1>7, <2>1, ControlKept DEF OpenSucceeds, ControlInv
<1>10. (ReadInv /\ BootInv)'
  BY <1>1, <1>7 DEF OpenSucceeds, ReadInv, BootInv
<1>11. NoLeak'
  <2>1. geometries = 0
    BY <1>6, <1>7 DEF NoLeak
  <2>. QED
    BY <1>3, <1>5, <1>7, <2>1 DEF OpenSucceeds, NoLeak, InProgress, ControlInv
<1>12. BootSectorIsSectorZero'
  <2>1. UNCHANGED <<held, overstated>> /\ (reply' # "mbr" \/ reply' = reply)
    BY <1>7 DEF loop, OpenSucceeds
  <2>. QED BY <2>1, StillSectorZero
<1>. QED BY <1>4, <1>8, <1>9, <1>10, <1>11, <1>12

(* hd_read on behalf of mbr_get starts with the asserted geometry.         *)
LEMMA AllowedGeometry ==
  ASSUME DevicesInv, minor = 0, ReadAllowed, request[1] \in Nat
  PROVE  Info # NULL /\ Info[1].NS > 0 /\ Info[1].NH > 0
<1>1. Info \in KnownInfos /\ Info # NULL
  BY HdaGeometry DEF HdaInfo, ReadAllowed
<1>2. PICK regs \in {Registers(Disk)} \cup ErrorReports :
        Info = To(Decoded(regs))
  BY <1>1 DEF KnownInfos
<1>. DEFINE g == Decoded(regs)
<1>3. Info[1] = g
  BY <1>2 DEF To
<1>4. g.NS \in 0..63 /\ g.NH \in 0..255 /\ g.NC \in Nat
  BY <1>1, <1>3, GeometryTypes
<1>5. g.Nlba = g.NC * g.NH * g.NS
  BY DEF Decoded, Described
<1>6. request[1] \in Nat /\ request[1] < g.Nlba
  BY <1>3 DEF ReadAllowed
<1>. HIDE DEF g
<1>7. g.NS # 0 /\ g.NH # 0
  <2>1. CASE g.NS = 0 \/ g.NH = 0
    <3>1. g.NC * g.NH * g.NS = 0
      BY <2>1, <1>4, <1>5, <1>6
    <3>. QED BY <3>1, <1>5, <1>6
  <2>. QED BY <2>1
<1>. QED BY <1>1, <1>3, <1>4, <1>7

(* The BIOS reads sector 0 when it is asked for sector 0.                  *)
LEMMA BiosReadsFirst ==
  ASSUME lba = 0, Info # NULL, Info[1].NS \in Nat, Info[1].NS > 0,
         Info[1].NH \in Nat, Info[1].NH > 0
  PROVE  BiosLba = 0
<1>1. lbatochs(Info[1], lba) = [S |-> 1, H |-> 0, C |-> 0]
  BY FirstSector
<1>2. CX([S |-> 1, H |-> 0, C |-> 0]) = 1
  BY DEF CX
<1>3. Cylinder(1) = 0 /\ Sector(1) = 1
  BY DEF Cylinder, Sector
<1>4. Disk.NH \in Nat /\ Disk.NS \in Nat
  <2>1. Disk \in Disks
    BY HardDiskAssumption
  <2>. QED BY <2>1 DEF Disks
<1>5. BiosLba = 0 * Disk.NS * Disk.NH + 0 * Disk.NS + (1 - 1)
  BY <1>1, <1>2, <1>3 DEF BiosLba, chstolba
<1>. QED BY <1>4, <1>5

(* The geometry a read works with, and what the loop leaves alone.         *)
LEMMA Reading ==
  ASSUME IInv, pc \in {"key", "read", "chunk", "bios"},
         UNCHANGED <<devices, minor>>
  PROVE  /\ DevicesInv'
         /\ dev_getinfo(HARD_DISK_DRIVER, 0)' = dev_getinfo(HARD_DISK_DRIVER, 0)
         /\ minor = 0 /\ minor' = 0 /\ Info' = Info
         /\ pc \in {"chunk", "bios"} => /\ Info # NULL
                                       /\ Info[1].NS \in 1..63
                                       /\ Info[1].NH \in 1..255
<1>1. minor = 0 /\ minor' = 0
  BY DEF IInv, ReadInv
<1>2. /\ DevicesInv' /\ Info' = Info
      /\ dev_getinfo(HARD_DISK_DRIVER, 0)' = dev_getinfo(HARD_DISK_DRIVER, 0)
  BY <1>1, TableUnchanged DEF IInv
<1>3. ASSUME pc \in {"chunk", "bios"}
      PROVE  Info # NULL /\ Info[1].NS \in 1..63 /\ Info[1].NH \in 1..255
  <2>1. Info # NULL /\ Info[1].NS > 0 /\ Info[1].NH > 0
    BY <1>3 DEF IInv, ReadInv
  <2>2. Info \in KnownInfos
    BY <1>1, HdaGeometry DEF HdaInfo, IInv
  <2>. QED BY <2>1, <2>2, GeometryTypes
<1>. QED BY <1>1, <1>2, <1>3

LEMMA ReadStartInvariant ==
  ASSUME IInv, KeyStroke \/ ReadPanics \/ ReadStarts
  PROVE  IInv'
<1>. USE DEF IInv
<1>1. /\ DevicesInv' /\ minor = 0 /\ minor' = 0 /\ Info' = Info
      /\ dev_getinfo(HARD_DISK_DRIVER, 0)' = dev_getinfo(HARD_DISK_DRIVER, 0)
  BY Reading DEF KeyStroke, ReadPanics, ReadStarts
<1>2. ControlInv'
  BY DEF KeyStroke, ReadPanics, ReadStarts, Panic, ControlInv, blocks
<1>6. KeyStroke \/ ReadPanics => BootSectorIsSectorZero'
  BY StillSectorZero DEF KeyStroke, ReadPanics, loop
<1>3. ASSUME KeyStroke
      PROVE  IInv'
  <2>1. LoopInv'
    BY <1>3, WordPositive DEF KeyStroke, LoopInv
  <2>2. (ReadInv /\ BootInv)'
    BY <1>1, <1>3 DEF KeyStroke, ReadInv, BootInv
  <2>3. NoLeak'
    BY <1>1, <1>3 DEF KeyStroke, NoLeak, InProgress, blocks
  <2>. QED BY <1>1, <1>2, <1>3, <1>6, <2>1, <2>2, <2>3
<1>4. ASSUME ReadPanics
      PROVE  IInv'
  <2>1. LoopInv'
    BY <1>4, LoopUnchanged DEF ReadPanics
  <2>. QED
    BY <1>1, <1>2, <1>4, <1>6, <2>1 DEF ReadPanics, Panic, ReadInv, BootInv, NoLeak
<1>5. ASSUME ReadStarts
      PROVE  IInv'
  <2>1. request[1] \in Nat /\ request[1] \in 0..Word-1 /\ request[2] \in 0..Word-1
    BY WordPositive DEF LoopInv
  <2>2. Info # NULL /\ Info[1].NS > 0 /\ Info[1].NH > 0
    BY <1>1, <1>5, <2>1, AllowedGeometry DEF ReadStarts
  <2>3. UInt8(request[2]) \in 0..255 /\ UInt8(1) = 1
    BY <2>1, WordPositive DEF UInt8
  <2>4. LoopInv'
    BY <1>5, <2>1, <2>3, WordPositive DEF ReadStarts, LoopInv
  <2>5. (ReadInv /\ BootInv)'
    BY <1>1, <1>5, <2>2, <2>3 DEF ReadStarts, ReadInv, BootInv
  <2>6. NoLeak'
    BY <1>1, <1>5 DEF ReadStarts, NoLeak, InProgress, blocks
  <2>7. BootSectorIsSectorZero'
    BY <1>5, StillSectorZero DEF ReadStarts, ReadInv
  <2>. QED BY <1>1, <1>2, <2>4, <2>5, <2>6, <2>7
<1>. QED BY <1>3, <1>4, <1>5

LEMMA ChunkInvariant ==
  ASSUME IInv, Chunk
  PROVE  IInv'
<1>. USE DEF IInv
<1>1. /\ DevicesInv' /\ minor = 0 /\ minor' = 0 /\ Info' = Info
      /\ dev_getinfo(HARD_DISK_DRIVER, 0)' = dev_getinfo(HARD_DISK_DRIVER, 0)
      /\ Info # NULL /\ Info[1].NS \in 1..63 /\ Info[1].NH \in 1..255
  BY Reading DEF Chunk
<1>2. nb' \in 0..255
  <2>. DEFINE S == lbatochs(Info[1], lba).S
  <2>1. lba % Info[1].NS \in 0..Info[1].NS-1
    BY <1>1, Division DEF LoopInv
  <2>2. S = UInt8((lba % Info[1].NS) + 1)
    BY DEF lbatochs
  <2>3. S \in 0..255
    <3>. HIDE DEF S, IInv
    <3>1. (lba % Info[1].NS) + 1 \in Int
      BY <1>1, <2>1
    <3>. QED BY <2>2, <3>1, UInt8Range
  <2>4. nb' = nb \/ nb' = UInt8(Info[1].NS - S + 1)
    BY DEF Chunk, ChunkSize
  <2>5. nb \in 0..255
    BY DEF LoopInv
  <2>. HIDE DEF S
  <2>6. Info[1].NS - S + 1 \in Int
    BY <1>1, <2>3
  <2>. QED BY <2>4, <2>5, <2>6, UInt8Range
<1>3. caller = "mbr_get" /\ ~ overstated =>
        nb' = 1 /\ lba = 0 /\ count = 1 /\ read = 0 /\ buffer = <<>>
  <2>. SUFFICES ASSUME caller = "mbr_get", ~ overstated
       PROVE  nb' = 1 /\ lba = 0 /\ count = 1 /\ read = 0 /\ buffer = <<>>
    OBVIOUS
  <2>1. nb = 1 /\ lba = 0 /\ count = 1 /\ read = 0 /\ buffer = <<>>
    BY DEF Chunk, BootInv
  <2>. DEFINE NS == Info[1].NS
  <2>2. NS \in 1..63
    BY <1>1
  <2>3. nb' = IF count > NS THEN UInt8(NS - lbatochs(Info[1], lba).S + 1) ELSE nb
    BY DEF Chunk, ChunkSize
  <2>. HIDE DEF NS
  <2>4. ~ (count > NS)
    BY <2>1, <2>2
  <2>. QED BY <2>1, <2>3, <2>4
<1>4. ControlInv'
  BY DEF Chunk, ControlInv, blocks
<1>5. LoopInv'
  BY <1>2 DEF Chunk, LoopInv, Attempts
<1>6. (ReadInv /\ BootInv)'
  BY <1>1, <1>3 DEF Chunk, ReadInv, BootInv
<1>7. NoLeak'
  BY <1>1 DEF Chunk, NoLeak, InProgress, blocks
<1>8. BootSectorIsSectorZero'
  BY StillSectorZero DEF Chunk
<1>. QED BY <1>1, <1>4, <1>5, <1>6, <1>7, <1>8

LEMMA DiskSizes ==
  /\ Disk.NC \in 1..1024 /\ Disk.NH \in 1..255 /\ Disk.NS \in 1..63
  /\ DiskLba \in Nat /\ DiskLba < Word
<1>1. Disk \in Disks /\ Word \in Nat /\ Word > DiskLba
  BY HardDiskAssumption DEF DiskLba
<1>2. Disk.NC \in 1..1024 /\ Disk.NH \in 1..255 /\ Disk.NS \in 1..63
  BY <1>1 DEF Disks
<1>3. DiskLba \in Nat
  <2>1. Disk.NC \in Nat /\ Disk.NH \in Nat /\ Disk.NS \in Nat
    BY <1>1 DEF Disks
  <2>. QED BY <2>1, ProductPositive DEF DiskLba
<1>. QED BY <1>1, <1>2, <1>3

LEMMA BiosLbaInt ==
  ASSUME IInv, Info # NULL, Info[1].NS \in 1..63, Info[1].NH \in 1..255
  PROVE  BiosLba \in Int
<1>. DEFINE chs == lbatochs(Info[1], lba)
            ns == Info[1].NS
            nh == Info[1].NH
<1>0. ns \in 1..63 /\ nh \in 1..255 /\ lba \in Nat
  BY WordPositive DEF IInv, LoopInv
<1>1. chs.S \in Int /\ chs.H \in Int /\ chs.C \in Int
  <2>. HIDE DEF ns, nh
  <2>1. /\ chs.S = UInt8((lba % ns) + 1)
        /\ chs.H = UInt8(((lba - (chs.S - 1)) \div ns) % nh)
        /\ chs.C = UInt16(((lba - (chs.S - 1)) \div ns) \div nh)
    BY DEF lbatochs, ns, nh
  <2>. HIDE DEF chs
  <2>2. lba % ns \in Int
    BY <1>0
  <2>3. chs.S \in Int
    BY <2>1, <2>2 DEF UInt8
  <2>. DEFINE t == (lba - (chs.S - 1)) \div ns
  <2>4. t \in Int
    BY <1>0, <2>3
  <2>5. chs.H = UInt8(t % nh) /\ chs.C = UInt16(t \div nh)
    BY <2>1
  <2>. HIDE DEF t
  <2>6. t % nh \in Int /\ t \div nh \in Int
    BY <1>0, <2>4
  <2>. QED BY <2>3, <2>5, <2>6 DEF UInt8, UInt16
<1>2. BiosLba = chstolba(Disk, [C |-> Cylinder(CX(chs)), H |-> chs.H,
                                S |-> Sector(CX(chs))])
  BY DEF BiosLba
<1>. HIDE DEF chs
<1>3. CX(chs) \in Int
  BY <1>1 DEF CX
<1>. DEFINE cx == CX(chs)
<1>. HIDE DEF cx
<1>4. Cylinder(cx) \in Int /\ Sector(cx) \in Int
  BY <1>3 DEF Cylinder, Sector, cx
<1>5. \A c, h, x \in Int :
        chstolba(Disk, [C |-> c, H |-> h, S |-> x]) \in Int
  <2>. DEFINE NS == Disk.NS
              NH == Disk.NH
  <2>1. NS \in Int /\ NH \in Int
    BY DiskSizes
  <2>. HIDE DEF NS, NH
  <2>2. \A a, b, c \in Int : a * b \in Int /\ (a * b) * c \in Int
    OBVIOUS
  <2>. SUFFICES ASSUME NEW c \in Int, NEW h \in Int, NEW x \in Int
                PROVE  chstolba(Disk, [C |-> c, H |-> h, S |-> x]) \in Int
    OBVIOUS
  <2>. DEFINE p == c * NS * NH
              q == h * NS
  <2>3. p \in Int /\ q \in Int
    BY <2>1, <2>2
  <2>4. chstolba(Disk, [C |-> c, H |-> h, S |-> x]) = p + q + (x - 1)
    BY DEF chstolba, NS, NH
  <2>. HIDE DEF p, q
  <2>. QED BY <2>3, <2>4
<1>. QED BY <1>1, <1>2, <1>4, <1>5 DEF cx

LEMMA CountsBytes ==
  ASSUME IInv, NEW n \in BiosCounts, NEW al \in CountsTold(n), BiosLba \in Int
  PROVE  n \in 0..nb /\ al \in 0..255
<1>1. nb \in 0..255 /\ ErrorCounts \subseteq 0..255
  BY HardDiskAssumption DEF IInv, LoopInv
<1>2. DiskLba \in Nat
  BY DiskSizes
<1>3. n \in 0..nb
  BY <1>1, <1>2 DEF BiosCounts
<1>. QED BY <1>1, <1>3 DEF CountsTold

LEMMA AttemptInvariant ==
  ASSUME IInv, NEW n, NEW al, Attempt(n, al)
  PROVE  IInv'
<1>. USE DEF IInv
<1>1. /\ DevicesInv' /\ minor = 0 /\ minor' = 0 /\ Info' = Info
      /\ dev_getinfo(HARD_DISK_DRIVER, 0)' = dev_getinfo(HARD_DISK_DRIVER, 0)
      /\ Info # NULL /\ Info[1].NS \in 1..63 /\ Info[1].NH \in 1..255
  BY Reading DEF Attempt
<1>0. n \in 0..nb /\ al \in 0..255
  BY <1>1, BiosLbaInt, CountsBytes DEF Attempt
<1>2. ASSUME caller = "mbr_get", ~ overstated'
      PROVE  got' <= 1 /\ (got' = 1 => segment' = <<0>>)
  <2>0. ~ overstated /\ ~ (al > n)
    BY <1>2 DEF Attempt, LoopInv
  <2>1. lba = 0 /\ nb = 1 /\ al <= n
    <3>1. lba = 0 /\ nb = 1
      BY <1>2, <2>0 DEF Attempt, BootInv
    <3>. QED BY <1>0, <2>0, <3>1
  <2>2. BiosLba = 0
    BY <1>1, <2>1, BiosReadsFirst
  <2>3. n <= 1 /\ got' = al
    BY <1>0, <2>1 DEF Attempt
  <2>4. n = 1 => segment' = <<0>>
    BY <2>2 DEF Attempt, Serve
  <2>. QED BY <1>0, <2>1, <2>3, <2>4
<1>3. ControlInv'
  BY DEF Attempt, ControlInv, blocks
<1>4. LoopInv'
  <2>1. tries' \in 0..Attempts
    BY DEF Attempt, LoopInv, Attempts
  <2>2. got' \in 0..255
    BY <1>0 DEF Attempt
  <2>3. overstated' \in BOOLEAN
    BY DEF Attempt, LoopInv
  <2>4. UNCHANGED <<lba, count, nb, read, request>>
    BY DEF Attempt
  <2>. QED BY <2>1, <2>2, <2>3, <2>4 DEF LoopInv
<1>5. (ReadInv /\ BootInv)'
  <2>1. ~ overstated' => ~ overstated
    BY DEF Attempt, LoopInv
  <2>. QED BY <1>1, <1>2, <2>1 DEF Attempt, ReadInv, BootInv
<1>6. NoLeak'
  BY <1>1 DEF Attempt, NoLeak, InProgress, blocks
<1>7. BootSectorIsSectorZero'
  BY StillSectorZero DEF Attempt, ReadInv
<1>. QED BY <1>1, <1>3, <1>4, <1>5, <1>6, <1>7

LEMMA CopyInvariant ==
  ASSUME IInv, Copy
  PROVE  IInv'
<1>. USE DEF IInv
<1>1. /\ DevicesInv' /\ minor = 0 /\ minor' = 0 /\ Info' = Info
      /\ dev_getinfo(HARD_DISK_DRIVER, 0)' = dev_getinfo(HARD_DISK_DRIVER, 0)
      /\ Info # NULL /\ Info[1].NS \in 1..63 /\ Info[1].NH \in 1..255
  BY Reading DEF Copy
<1>2. /\ lba' = (lba + got) % Word /\ read' = read + got
      /\ count' = (count - got) % Word
      /\ buffer' = Overlay(Taken, buffer)
      /\ UNCHANGED <<caller, nb, got, tries, segment, request, overstated, held,
                     reply, blocks>>
      /\ pc = "bios" /\ pc' = "chunk"
  BY DEF Copy
<1>3. LoopInv'
  <2>1. count \in Nat /\ got \in 0..255
    BY WordPositive DEF LoopInv
  <2>2. count - got \in Int
    BY <2>1
  <2>3. (count - got) % Word \in 0..Word-1
    BY <2>2, WordPositive, Z3
  <2>4. lba + got \in Nat
    BY <2>1, WordPositive DEF LoopInv
  <2>5. (lba + got) % Word \in 0..Word-1
    BY <2>4, WordPositive, Z3
  <2>. QED BY <1>2, <2>1, <2>3, <2>5 DEF LoopInv
<1>4. ASSUME caller = "mbr_get", ~ overstated
      PROVE  \/ lba' = 0 /\ count' = 1 /\ read' = 0 /\ buffer' = <<>>
             \/ count' = 0 /\ read' = 1 /\ buffer'[1] = 0
  <2>1. /\ lba = 0 /\ count = 1 /\ read = 0 /\ buffer = <<>>
        /\ got \in {0, 1} /\ (got = 1 => segment = <<0>>)
    BY <1>2, <1>4 DEF BootInv, LoopInv
  <2>2. CASE got = 0
    <3>1. Taken = <<>>
      BY <2>2 DEF Taken
    <3>2. Overlay(<<>>, <<>>) = <<>>
      BY DEF Overlay
    <3>3. 1 % Word = 1 /\ 0 % Word = 0
      BY WordPositive
    <3>. QED BY <1>2, <2>1, <2>2, <3>1, <3>2, <3>3
  <2>3. CASE got = 1
    <3>1. Taken = <<0>>
      BY <2>1, <2>3 DEF Taken
    <3>2. Overlay(<<0>>, <<>>)[1] = 0
      BY DEF Overlay
    <3>3. 0 % Word = 0
      BY WordPositive
    <3>. QED BY <1>2, <2>1, <2>3, <3>1, <3>2, <3>3
  <2>. QED BY <2>1, <2>2, <2>3
<1>5. ControlInv'
  BY DEF Copy, ControlInv, blocks
<1>6. (ReadInv /\ BootInv)'
  BY <1>1, <1>2, <1>4 DEF ReadInv, BootInv
<1>7. NoLeak'
  BY <1>1, <1>2 DEF NoLeak, InProgress, blocks
<1>8. BootSectorIsSectorZero'
  BY <1>2, StillSectorZero
<1>. QED BY <1>1, <1>3, <1>5, <1>6, <1>7, <1>8

LEMMA ReturnInvariant ==
  ASSUME IInv, ReadReturns
  PROVE  IInv'
<1>. USE DEF IInv
<1>1. /\ DevicesInv' /\ minor = 0 /\ minor' = 0 /\ Info' = Info
      /\ dev_getinfo(HARD_DISK_DRIVER, 0)' = dev_getinfo(HARD_DISK_DRIVER, 0)
  BY Reading DEF ReadReturns
<1>2. LoopInv'
  BY WordPositive DEF ReadReturns, Forget, LoopInv, Attempts
<1>3. (ReadInv /\ BootInv)'
  BY <1>1 DEF ReadReturns, ReadInv, BootInv
<1>4. Len(held) \in Nat /\ InProgress' = 0 /\ UNCHANGED geometries
  BY MbrCounted DEF ReadReturns, InProgress, FreeMbr, blocks
<1>5. CASE caller = "client"
  <2>1. UNCHANGED <<held, mbrs, geometries, errno, caller, minor, opened>>
        /\ pc' = "idle" /\ reply' = "read"
    BY <1>5 DEF ReadReturns, blocks
  <2>2. ControlInv'
    BY <2>1 DEF ControlInv
  <2>3. NoLeak'
    BY <1>1, <1>4, <1>5, <2>1, MbrCounted, StillNoLeak DEF ReadReturns
  <2>4. BootSectorIsSectorZero'
    BY <2>1, StillSectorZero
  <2>. QED BY <1>1, <1>2, <1>3, <2>2, <2>3, <2>4
<1>6. CASE caller = "mbr_get" /\ ~ (reply' = "mbr")
  <2>1. /\ UNCHANGED <<held, geometries, errno, caller, minor, opened>>
        /\ mbrs' = mbrs - 1 /\ pc' = "idle" /\ reply' = "NULL"
    BY <1>6 DEF ReadReturns, FreeMbr
  <2>2. mbrs = Len(held) + 1 /\ mbrs - 1 = Len(held)
    BY <1>6, MbrCounted DEF ReadReturns
  <2>3. ControlInv'
    BY <1>4, <2>1, <2>2 DEF ControlInv
  <2>4. NoLeak'
    BY <1>1, <1>4, <2>1, <2>2, StillNoLeak DEF ReadReturns
  <2>5. BootSectorIsSectorZero'
    BY <2>1, StillSectorZero
  <2>. QED BY <1>1, <1>2, <1>3, <2>3, <2>4, <2>5
<1>7. CASE caller = "mbr_get" /\ reply' = "mbr"
  <2>1. /\ held' = Append(held, buffer[1]) /\ pc' = "idle" /\ read >= 1
        /\ UNCHANGED <<mbrs, geometries, errno, caller, minor, opened, overstated>>
    BY <1>7 DEF ReadReturns, Forget, blocks
  <2>2. /\ Len(held') = Len(held) + 1 /\ held'[Len(held')] = buffer[1]
        /\ held' \in Seq({held'[i] : i \in DOMAIN held'})
    BY <2>1, Longer DEF ControlInv
  <2>3. ControlInv'
    BY <1>7, <2>1, <2>2 DEF ControlInv
  <2>4. NoLeak'
    BY <1>1, <1>4, <1>7, <2>1, <2>2, MbrCounted, StillNoLeak DEF ReadReturns
  <2>5. BootSectorIsSectorZero'
    <3>1. ~ overstated => buffer[1] = 0
      BY <1>7, <2>1 DEF ReadReturns, BootInv
    <3>. QED BY <2>1, <2>2, <3>1 DEF BootSectorIsSectorZero
  <2>. QED BY <1>1, <1>2, <1>3, <2>3, <2>4, <2>5
<1>. QED BY <1>5, <1>6, <1>7 DEF ControlInv

-----------------------------------------------------------------------------
(* IInv is an invariant.                                                   *)
THEOREM Invariance == Spec => []IInv
<1>1. IInv /\ [Next]_vars => IInv'
  <2>. SUFFICES ASSUME IInv, [Next]_vars PROVE IInv'
    OBVIOUS
  <2>1. CASE Client
    BY <2>1, ClientInvariant
  <2>2. CASE User \/ Driver
    BY <2>2, OpenInvariant, GeometryReadInvariant, ReadStartInvariant,
       ChunkInvariant, AttemptInvariant, CopyInvariant, ReturnInvariant
       DEF User, Driver
  <2>3. CASE UNCHANGED vars
    <3>1. /\ DevicesInv' /\ UNCHANGED <<minor, loop, blocks, pc, caller, held,
                                        errno, opened, reply>>
          /\ dev_getinfo(HARD_DISK_DRIVER, 0)' = dev_getinfo(HARD_DISK_DRIVER, 0)
      BY <2>3, TableUnchanged DEF vars, IInv
    <3>2. LoopInv'
      BY <3>1, LoopUnchanged DEF IInv
    <3>3. ControlInv'
      BY <3>1 DEF IInv, ControlInv, blocks
    <3>4. Info' = Info \/ minor # 0
      BY <2>3, TableUnchanged DEF vars, IInv
    <3>5. (ReadInv /\ BootInv)'
      BY <3>1, <3>4 DEF IInv, ReadInv, BootInv, loop
    <3>6. NoLeak'
      BY <3>1 DEF IInv, NoLeak, InProgress, blocks
    <3>7. BootSectorIsSectorZero'
      BY <3>1, StillSectorZero DEF IInv, loop
    <3>. QED BY <3>1, <3>2, <3>3, <3>5, <3>6, <3>7 DEF IInv
  <2>. QED BY <2>1, <2>2, <2>3 DEF Next, Halted
<1>. QED BY InitInvariant, <1>1, PTL DEF Spec

(* No path of mbr_get and hd_open loses a block or frees one twice.        *)
THEOREM NothingLeaks == Spec => []NoLeak
<1>1. IInv => NoLeak
  BY DEF IInv
<1>. QED BY Invariance, <1>1, PTL

(* Whatever geometry the BIOS reports and however often it refuses, mbr_get *)
(* returns sector 0, if in its read AL never told of more sectors than were *)
(* read.                                                                    *)
THEOREM BootSectorRead == Spec => []BootSectorIsSectorZero
<1>1. IInv => BootSectorIsSectorZero
  BY DEF IInv
<1>. QED BY Invariance, <1>1, PTL

(* The assertions of hd_read keep lbatochs from dividing by zero.          *)
THEOREM DivisorsPositive == Spec => []NoDivisionByZero
<1>1. IInv => NoDivisionByZero
  BY DEF IInv, ReadInv, NoDivisionByZero
<1>. QED BY Invariance, <1>1, PTL

(* Variables, fields and locals keep their C types.                        *)
THEOREM TypeCorrect == Spec => []TypeOK
<1>1. IInv => TypeOK
  <2>. SUFFICES ASSUME IInv PROVE TypeOK
    OBVIOUS
  <2>1. DOMAIN devices = {"hda", "fda"}
    BY DEF IInv, DevicesInv
  <2>2. ASSUME NEW d \in DOMAIN devices
        PROVE  /\ DOMAIN devices[d] = {"major", "minor", "status", "info"}
               /\ devices[d].major \in {FLOPPY_DISK_DRIVER, HARD_DISK_DRIVER}
               /\ devices[d].minor \in Nat
               /\ devices[d].status \in {"unknown", "initialized"}
               /\ devices[d].info \in KnownInfos
    BY <2>1, <2>2
       DEF IInv, DevicesInv, FLOPPY_DISK_DRIVER, HARD_DISK_DRIVER
  <2>3. ASSUME NEW info \in KnownInfos, info # NULL
        PROVE  Len(info) = 1 /\ info[1] \in Geometries
    BY <2>3, InfoGeometry
  <2>4. request \in Nat \X Nat
    BY WordPositive DEF IInv, LoopInv
  <2>5. opened \subseteq {0} /\ count \in 0..Word-1
    BY DEF IInv, ControlInv, LoopInv
  <2>. QED
    BY <2>1, <2>2, <2>3, <2>4 DEF IInv, ControlInv, LoopInv, TypeOK
<1>. QED BY Invariance, <1>1, PTL
-----------------------------------------------------------------------------
(* Requests whose chunks come out even.                                    *)

LEMMA Remainder ==
  ASSUME NEW q \in Nat, NEW b \in Nat, NEW r \in 0..b-1
  PROVE  (b * q + r) % b = r
<1>. DEFINE a == b * q + r
            d == a \div b
            m == a % b
<1>1. b > 0 /\ a \in Nat
  OBVIOUS
<1>2. d \in Nat /\ m \in 0..b-1 /\ a = b * d + m
  <2>. HIDE DEF a
  <2>. QED BY <1>1, Division
<1>3. b * (q - d) = m - r
  BY <1>1, <1>2
<1>. HIDE DEF d, m
<1>4. CASE q > d
  <2>1. b * (q - d) >= b
    BY <1>1, <1>2, <1>4
  <2>. QED BY <2>1, <1>2, <1>3
<1>5. CASE q < d
  <2>1. b * (q - d) <= -b
    BY <1>1, <1>2, <1>5
  <2>. QED BY <2>1, <1>2, <1>3
<1>6. CASE q = d
  <2>1. b * (q - d) = 0
    BY <1>1, <1>6
  <2>. QED BY <2>1, <1>2, <1>3 DEF m
<1>. QED BY <1>2, <1>4, <1>5, <1>6

(* Inside a track, and from its end.                                       *)
LEMMA Left ==
  ASSUME NEW l \in Nat
  PROVE  /\ LeftInTrack(l) \in 1..Disk.NS
         /\ LeftInTrack(l + LeftInTrack(l)) = Disk.NS
         /\ \A c \in Nat : c < LeftInTrack(l) =>
              LeftInTrack(l + c) = LeftInTrack(l) - c
<1>. DEFINE ns == Disk.NS
            q == l \div ns
            r == l % ns
<1>1. ns \in 1..63
  BY DiskSizes
<1>. HIDE DEF ns
<1>2. q \in Nat /\ r \in 0..ns-1 /\ l = ns * q + r
  BY <1>1, Division
<1>3. LeftInTrack(l) = ns - r
  BY DEF LeftInTrack, ns
<1>. HIDE DEF q, r
<1>4. l + (ns - r) = ns * (q + 1) + 0
  BY <1>1, <1>2
<1>5. (l + (ns - r)) % ns = 0
  BY <1>1, <1>2, <1>4, Remainder
<1>6. ASSUME NEW c \in Nat, c < ns - r
      PROVE  (l + c) % ns = r + c
  <2>. DEFINE e == r + c
  <2>1. l + c = ns * q + e /\ e \in 0..ns-1
    BY <1>1, <1>2, <1>6
  <2>. HIDE DEF e
  <2>2. (ns * q + e) % ns = e
    BY <1>1, <1>2, <2>1, Remainder
  <2>. QED BY <2>1, <2>2 DEF e
<1>7. LeftInTrack(l + (ns - r)) = ns
  BY <1>1, <1>5 DEF LeftInTrack, ns
<1>8. ASSUME NEW c \in Nat, c < ns - r
      PROVE  LeftInTrack(l + c) = (ns - r) - c
  BY <1>1, <1>2, <1>6, <1>8 DEF LeftInTrack, ns
<1>. QED BY <1>1, <1>2, <1>3, <1>7, <1>8 DEF ns

LEMMA MultipleStep ==
  ASSUME NEW k \in Nat, NEW n \in Nat, Multiple(k, n), k > 0
  PROVE  n \in 1..k /\ Multiple(k - n, n)
<1>1. PICK q \in 0..k : k = q * n
  BY DEF Multiple
<1>2. q # 0 /\ n # 0
  <2>1. 0 * n = 0 /\ q * 0 = 0
    BY <1>1
  <2>. QED BY <1>1, <2>1
<1>3. q - 1 \in Nat /\ n > 0 /\ k - n = (q - 1) * n
  BY <1>1, <1>2
<1>4. (q - 1) * n >= q - 1 /\ (q - 1) * n \in Nat
  BY <1>3
<1>. QED BY <1>3, <1>4 DEF Multiple

(* The size of the chunk hd_read chooses, when k sectors are left from l   *)
(* on and the last chunk was of n.                                         *)
NextChunk(l, k, n) == IF k > Disk.NS THEN LeftInTrack(l) ELSE n

(* A chunk stays in its track and in the request, and the rest of the      *)
(* request comes out even, whether the chunk is read or refused.           *)
LEMMA EvenStep ==
  ASSUME NEW l \in Nat, NEW k \in Nat, NEW n \in Nat, k > 0, ComesOutEven(l, k, n),
         NEW c, c = NextChunk(l, k, n)
  PROVE  /\ c \in 1..k /\ c <= LeftInTrack(l)
         /\ ComesOutEven(l, k, c)
         /\ ComesOutEven(l + c, k - c, c)
<1>1. Disk.NS \in 1..63 /\ LeftInTrack(l) \in 1..Disk.NS
  BY Left, DiskSizes
<1>2. CASE k <= Disk.NS
  <2>1. c = n /\ k <= LeftInTrack(l) /\ Multiple(k, n)
    BY <1>1, <1>2 DEF ComesOutEven, NextChunk
  <2>2. n \in 1..k /\ Multiple(k - n, n)
    BY <2>1, MultipleStep
  <2>3. k - n <= LeftInTrack(l + n)
    <3>1. CASE n < LeftInTrack(l)
      BY <1>1, <2>1, <2>2, <3>1, Left
    <3>2. CASE n >= LeftInTrack(l)
      <4>1. k - n = 0 /\ l + n \in Nat
        BY <1>1, <2>1, <2>2, <3>2
      <4>2. LeftInTrack(l + n) \in 1..Disk.NS
        BY <4>1, Left
      <4>. QED BY <1>1, <4>1, <4>2
    <3>. QED BY <1>1, <2>2, <3>1, <3>2
  <2>4. ComesOutEven(l + n, k - n, n)
    BY <1>1, <1>2, <2>2, <2>3 DEF ComesOutEven
  <2>. QED BY <1>1, <2>1, <2>2, <2>4
<1>3. CASE k > Disk.NS
  <2>. DEFINE left == LeftInTrack(l)
              rest == k - left
  <2>1. c = left /\ rest \in Nat /\ rest > 0 /\ left \in 1..Disk.NS
    BY <1>1, <1>3 DEF NextChunk
  <2>2. Multiple(rest, IF rest <= Disk.NS THEN left ELSE Disk.NS)
    BY <1>1, <1>3 DEF ComesOutEven
  <2>3. LeftInTrack(l + left) = Disk.NS
    BY Left
  <2>4. ComesOutEven(l, k, c)
    BY <1>1, <1>3 DEF ComesOutEven
  <2>. HIDE DEF left, rest
  <2>5. ASSUME rest <= Disk.NS
        PROVE  ComesOutEven(l + left, rest, left)
    <3>1. Multiple(rest, left)
      BY <2>2, <2>5
    <3>. QED BY <2>3, <2>5, <3>1 DEF ComesOutEven
  <2>6. ASSUME rest > Disk.NS
        PROVE  ComesOutEven(l + left, rest, left)
    <3>1. Multiple(rest, Disk.NS) /\ ~(rest <= Disk.NS)
      BY <1>1, <2>1, <2>2, <2>6
    <3>2. Multiple(rest - Disk.NS, Disk.NS)
      BY <1>1, <2>1, <3>1, MultipleStep
    <3>3. Multiple(rest - Disk.NS, IF rest - Disk.NS <= Disk.NS THEN Disk.NS ELSE Disk.NS)
      BY <3>2
    <3>. QED BY <2>3, <3>1, <3>3 DEF ComesOutEven
  <2>7. ComesOutEven(l + left, rest, left)
    BY <2>1, <2>5, <2>6, <1>1
  <2>8. rest = k - left /\ left <= LeftInTrack(l)
    BY <1>1 DEF rest, left
  <2>9. left \in 1..k
    BY <1>1, <1>3, <2>1
  <2>. QED BY <2>1, <2>4, <2>7, <2>8, <2>9
<1>. QED BY <1>1, <1>2, <1>3
(* The geometry computed from the registers of the drive is the drive's.   *)
LEMMA DescribedTruly ==
  Decoded(Registers(Disk)) = Described(Disk.NC, Disk.NH, Disk.NS)
<1>. DEFINE last == Disk.NC - 1
            low == last % 256
            high == last \div 256
            cx == low * 256 + high * 64 + Disk.NS
<1>1. last \in 0..1023 /\ Disk.NH \in 1..255 /\ Disk.NS \in 1..63
  BY DiskSizes
<1>2. low \in 0..255 /\ high \in 0..3 /\ last = 256 * high + low
  <2>. HIDE DEF last
  <2>. QED BY <1>1, SMTT(60)
<1>3. Registers(Disk) = [cx |-> cx, dh |-> Disk.NH - 1]
  BY DEF Registers
<1>. HIDE DEF low, high
<1>4. cx % 64 = Disk.NS
  BY <1>1, <1>2
<1>5. cx \div 256 = low /\ (cx % 256) \div 64 = high
  <2>. DEFINE rest == high * 64 + Disk.NS
  <2>1. rest \in 0..255 /\ cx = low * 256 + rest
    BY <1>1, <1>2, SMTT(60)
  <2>2. rest \div 64 = high
    BY <1>1, <1>2
  <2>. HIDE DEF rest, cx
  <2>3. cx \div 256 = low /\ cx % 256 = rest
    BY <2>1, <1>2
  <2>. QED BY <2>2, <2>3
<1>6. UInt8((Disk.NH - 1) + 1) = Disk.NH
  BY <1>1 DEF UInt8
<1>. HIDE DEF cx
<1>7. Cylinder(cx) + 1 = Disk.NC /\ Sector(cx) = Disk.NS
  <2>1. Cylinder(cx) = low + high * 256
    BY <1>5 DEF Cylinder
  <2>2. Disk.NC = last + 1
    BY DiskSizes
  <2>. HIDE DEF last
  <2>. QED BY <1>1, <1>2, <1>4, <2>1, <2>2 DEF Sector
<1>. QED BY <1>3, <1>6, <1>7 DEF Decoded

LEMMA Told ==
  ASSUME GeometryTold
  PROVE  /\ Info[1].NC = Disk.NC /\ Info[1].NH = Disk.NH /\ Info[1].NS = Disk.NS
         /\ Info[1].Nlba = DiskLba
BY DescribedTruly DEF GeometryTold, Described, DiskLba

(* The BIOS reads from where the loop stands, and lbatochs counts sectors  *)
(* from 1.                                                                 *)
LEMMA BiosReadsThere ==
  ASSUME GeometryTold, lba \in Nat, lba < DiskLba
  PROVE  BiosLba = lba /\ lbatochs(Info[1], lba).S = Disk.NS - LeftInTrack(lba) + 1
<1>. DEFINE desc == Info[1]
            chs == lbatochs(desc, lba)
<1>1. /\ desc.NC = Disk.NC /\ desc.NH = Disk.NH /\ desc.NS = Disk.NS
      /\ Disk.NC \in 1..1024 /\ Disk.NH \in 1..255 /\ Disk.NS \in 1..63
  BY Told, DiskSizes
<1>2. lba < desc.NC * desc.NH * desc.NS
  BY <1>1 DEF DiskLba
<1>3. /\ chs.S \in 1..desc.NS /\ chs.H \in 0..desc.NH-1 /\ chs.C \in 0..desc.NC-1
      /\ chstolba(desc, chs) = lba
  <2>. HIDE DEF desc
  <2>. QED BY <1>1, <1>2, SectorNumbersAgree
<1>4. Cylinder(CX(chs)) = chs.C /\ Sector(CX(chs)) = chs.S
  <2>. HIDE DEF chs, desc
  <2>. DEFINE c == chs.C
              s == chs.S
  <2>. DEFINE nc == desc.NC
              ns == desc.NS
  <2>0. nc \in 1..1024 /\ ns \in 1..63 /\ s \in 1..ns /\ c \in 0..nc-1
    BY <1>1, <1>3
  <2>. HIDE DEF c, s, nc, ns
  <2>1. c \in 0..1023 /\ s \in 0..63
    BY <2>0
  <2>. QED BY <2>1, PackingExact DEF c, s
<1>5. chstolba(Disk, [C |-> chs.C, H |-> chs.H, S |-> chs.S]) = chstolba(desc, chs)
  <2>. HIDE DEF chs, desc
  <2>. QED BY <1>1 DEF chstolba
<1>6. BiosLba = lba
  BY <1>3, <1>4, <1>5 DEF BiosLba
<1>7. chs.S = UInt8((lba % Disk.NS) + 1)
  BY <1>1 DEF lbatochs
<1>8. lba % Disk.NS \in 0..Disk.NS-1
  BY <1>1, Division
<1>9. UInt8((lba % Disk.NS) + 1) = (lba % Disk.NS) + 1
  BY <1>1, <1>8 DEF UInt8
<1>. QED BY <1>1, <1>6, <1>7, <1>8, <1>9 DEF LeftInTrack

LEMMA Appended ==
  ASSUME NEW a \in Nat, NEW b \in Nat, NEW x \in Nat
  PROVE  [i \in 1..a |-> x + i - 1] \o [i \in 1..b |-> x + a + i - 1]
           = [i \in 1..a + b |-> x + i - 1]
<1>. DEFINE f == [i \in 1..a |-> x + i - 1]
            g == [i \in 1..b |-> x + a + i - 1]
<1>1. f \in Seq(Int) /\ g \in Seq(Int) /\ Len(f) = a /\ Len(g) = b
  OBVIOUS
<1>2. f \o g = [i \in 1..a + b |-> IF i <= a THEN f[i] ELSE g[i - a]]
  BY <1>1
<1>. QED BY <1>2

(* Outside the loop nothing is claimed.                                    *)
LEMMA ElsewhereFetches ==
  ASSUME FetchInv, Client \/ OpenNoDevice \/ OpenReset \/ OpenAgain \/ GeometryKnown
                     \/ GeometryInvalid \/ GeometryRead \/ GeometryNoMemory
                     \/ KeyStroke \/ ReadPanics \/ ReadReturns
  PROVE  FetchInv'
<1>1. CASE Client
  <2>1. ASSUME NEW name \in Names, GetMbrUnknown(name) PROVE FetchInv'
    BY <2>1 DEF GetMbrUnknown, FetchInv, loop
  <2>2. ASSUME NEW name \in Names, GetMbr(name) PROVE FetchInv'
    BY <2>2 DEF GetMbr, Panic, FetchInv
  <2>3. ASSUME DestroyMbr PROVE FetchInv'
    <3>1. GeometryTold' = GeometryTold
      BY <2>3 DEF DestroyMbr, GeometryTold, Info, dev_getinfo, Matching
    <3>. QED BY <2>3, <3>1 DEF DestroyMbr, FetchInv, loop, Asked
  <2>4. ASSUME NEW mn \in Minors, CallOpen(mn) PROVE FetchInv'
    BY <2>4 DEF CallOpen, FetchInv
  <2>5. ASSUME NEW mn \in Minors, NEW r \in Requests, CallRead(mn, r) PROVE FetchInv'
    BY <2>5 DEF CallRead, FetchInv
  <2>. QED BY <1>1, <2>1, <2>2, <2>3, <2>4, <2>5 DEF Client
<1>2. CASE KeyStroke
  BY <1>2 DEF KeyStroke, FetchInv
<1>3. CASE ReadPanics \/ GeometryNoMemory \/ ReadReturns
  BY <1>3 DEF ReadPanics, GeometryNoMemory, ReadReturns, Panic, FetchInv
<1>4. CASE OpenNoDevice \/ OpenReset \/ OpenAgain
  <2>1. OpenFails \/ pc' = "geometry"
    BY <1>4 DEF OpenNoDevice, OpenReset, OpenAgain
  <2>2. OpenFails => pc' = "idle" /\ reply' = "NULL"
    BY DEF OpenFails
  <2>. QED BY <2>1, <2>2 DEF FetchInv
<1>5. CASE GeometryKnown \/ GeometryInvalid \/ GeometryRead
  <2>1. OpenSucceeds
    BY <1>5 DEF GeometryKnown, GeometryInvalid, GeometryRead
  <2>2. pc' = "key" \/ (pc' = "idle" /\ reply' = "opened")
    BY <2>1 DEF OpenSucceeds
  <2>. QED BY <2>2 DEF FetchInv
<1>. QED BY <1>1, <1>2, <1>3, <1>4, <1>5

(* The steps of hd_read keep the geometry.                                 *)
LEMMA ToldKept ==
  ASSUME UNCHANGED <<devices, minor>>
  PROVE  GeometryTold' = GeometryTold /\ Info' = Info
BY DEF GeometryTold, Info, dev_getinfo, Matching

LEMMA ReadStartsOnCourse ==
  ASSUME IInv, EvenRequests, FetchInv, ReadStarts
  PROVE  FetchInv'
<1>1. GeometryTold' = GeometryTold /\ Info' = Info
  BY ToldKept DEF ReadStarts
<1>2. /\ lba' = request[1] /\ count' = request[2] /\ nb' = UInt8(request[2])
      /\ read' = 0 /\ fetched' = <<>> /\ request' = request
      /\ pc' = "chunk" /\ ReadAllowed /\ request \in Requests \cup {<<0, 1>>}
  BY DEF ReadStarts, FetchInv
<1>3. ASSUME GeometryTold
      PROVE  OnCourse'
  <2>1. request[1] \in 0..Word-1 /\ request[2] \in 0..Word-1
    BY WordPositive DEF IInv, LoopInv
  <2>2. /\ Disk.NS \in 1..63 /\ DiskLba \in Nat /\ DiskLba < Word
        /\ request[1] < DiskLba /\ (request[1] + request[2]) % Word <= DiskLba
    BY <1>2, <1>3, Told, DiskSizes DEF ReadAllowed
  <2>3. request[1] + request[2] < Word
    <3>1. CASE request \in Requests
      BY <3>1 DEF EvenRequests
    <3>2. CASE request = <<0, 1>>
      BY <3>2, WordPositive
    <3>. QED BY <1>2, <3>1, <3>2
  <2>4. request[1] + request[2] <= DiskLba
    <3>. DEFINE sum == request[1] + request[2]
    <3>1. sum \in 0..Word-1
      BY <2>1, <2>3, WordPositive
    <3>. HIDE DEF sum
    <3>2. sum % Word = sum
      BY <3>1, WordPositive
    <3>. QED BY <2>2, <3>2 DEF sum
  <2>5. ComesOutEven(request[1], request[2], request[2])
    <3>1. CASE request \in Requests
      BY <2>4, <3>1 DEF EvenRequests
    <3>2. CASE request = <<0, 1>>
      <4>1. LeftInTrack(0) \in 1..Disk.NS
        BY Left
      <4>2. Multiple(1, 1)
        BY DEF Multiple
      <4>. QED BY <2>2, <3>2, <4>1, <4>2 DEF ComesOutEven
    <3>. QED BY <1>2, <3>1, <3>2
  <2>6. ComesOutEven(request[1], request[2], UInt8(request[2]))
    <3>1. CASE request[2] <= Disk.NS
      <4>. DEFINE k == request[2]
      <4>0. k \in 0..63
        BY <2>1, <2>2, <3>1
      <4>. HIDE DEF k
      <4>1. UInt8(k) = k
        BY <4>0 DEF UInt8
      <4>. QED BY <2>5, <4>1 DEF k
    <3>2. CASE ~(request[2] <= Disk.NS)
      BY <2>5, <3>2 DEF ComesOutEven
    <3>. QED BY <3>1, <3>2
  <2>7. fetched' = [i \in 1..0 |-> (request[1] + i) - 1]
    BY <1>2
  <2>. QED BY <1>2, <2>1, <2>4, <2>6, <2>7 DEF OnCourse, Asked
<1>. QED BY <1>1, <1>2, <1>3 DEF FetchInv

LEMMA ChunkOnCourse ==
  ASSUME IInv, FetchInv, Chunk
  PROVE  FetchInv'
<1>1. GeometryTold' = GeometryTold /\ Info' = Info
  BY ToldKept DEF Chunk
<1>2. /\ pc = "chunk" /\ pc' = "bios" /\ count > 0 /\ got' = 0
      /\ nb' = ChunkSize(lbatochs(Info[1], lba))
      /\ UNCHANGED <<lba, count, read, segment, fetched, request, overstated>>
  BY DEF Chunk
<1>3. ASSUME GeometryTold, ~ overstated
      PROVE  OnCourse' /\ ChunkFits'
  <2>1. OnCourse
    BY <1>2, <1>3 DEF FetchInv
  <2>2. /\ lba \in Nat /\ count \in Nat /\ nb \in Nat /\ read \in Nat
        /\ request[1] \in Nat /\ request[2] \in Nat
    BY WordPositive DEF IInv, LoopInv
  <2>3. /\ Disk.NS \in 1..63 /\ DiskLba \in Nat /\ LeftInTrack(lba) \in 1..Disk.NS
    BY <2>2, DiskSizes, Left
  <2>4. lba < DiskLba
    BY <1>2, <2>1, <2>2, <2>3 DEF OnCourse
  <2>5. nb' = NextChunk(lba, count, nb)
    <3>1. Info[1].NS = Disk.NS
      BY <1>3, Told
    <3>2. lbatochs(Info[1], lba).S = (Disk.NS - LeftInTrack(lba)) + 1
      BY <1>3, <2>2, <2>4, BiosReadsThere
    <3>3. (Disk.NS - ((Disk.NS - LeftInTrack(lba)) + 1)) + 1 = LeftInTrack(lba)
      BY <2>3
    <3>4. UInt8(LeftInTrack(lba)) = LeftInTrack(lba)
      BY <2>3 DEF UInt8
    <3>. QED BY <1>2, <3>1, <3>2, <3>3, <3>4 DEF ChunkSize, NextChunk
  <2>6. /\ nb' \in 1..count /\ nb' <= LeftInTrack(lba)
        /\ ComesOutEven(lba, count, nb') /\ ComesOutEven(lba + nb', count - nb', nb')
    BY <1>2, <2>1, <2>2, <2>5, EvenStep DEF OnCourse
  <2>7. OnCourse'
    BY <1>2, <2>1, <2>6 DEF OnCourse, Asked
  <2>8. ChunkFits'
    BY <1>2, <2>6 DEF ChunkFits
  <2>. QED BY <2>7, <2>8
<1>. QED BY <1>1, <1>2, <1>3 DEF FetchInv

(* The BIOS reads the whole chunk from where the loop stands, or nothing,  *)
(* and AL says which.                                                      *)
LEMMA AttemptOnCourse ==
  ASSUME IInv, EvenRequests, FetchInv, NEW n, NEW al, Attempt(n, al)
  PROVE  FetchInv'
<1>1. GeometryTold' = GeometryTold /\ Info' = Info
  BY ToldKept DEF Attempt
<1>2. /\ pc = "bios" /\ pc' = "bios" /\ n \in BiosCounts
      /\ al \in CountsTold(n) /\ got' = al /\ Serve(n)
      /\ UNCHANGED <<lba, count, nb, read, fetched, request>>
  BY DEF Attempt
<1>3. ASSUME GeometryTold, ~ overstated'
      PROVE  OnCourse' /\ ChunkFits'
  <2>0. ~ overstated /\ ~ (al > n)
    BY <1>3 DEF Attempt, IInv, LoopInv
  <2>1. OnCourse /\ ChunkFits
    BY <1>2, <1>3, <2>0 DEF FetchInv
  <2>2. /\ lba \in Nat /\ count \in Nat /\ nb \in Nat /\ read \in Nat
        /\ request[1] \in Nat /\ request[2] \in Nat /\ DiskLba \in Nat
    BY WordPositive, DiskSizes DEF IInv, LoopInv
  <2>3. nb \in 1..count /\ lba + nb <= DiskLba /\ lba < DiskLba
    <3>1. /\ request[1] + request[2] <= DiskLba
          /\ lba = request[1] + read /\ request[2] = read + count
      BY <2>1 DEF OnCourse
    <3>2. nb \in 1..count
      BY <2>1 DEF ChunkFits
    <3>. QED BY <2>2, <3>1, <3>2
  <2>4. BiosLba = lba
    BY <1>3, <2>2, <2>3, BiosReadsThere
  <2>5. n \in {0, nb}
    <3>1. CASE request \in PartialReads
      <4>1. request[2] = 1
        BY <3>1 DEF EvenRequests
      <4>2. nb = 1
        BY <2>1, <2>2, <4>1 DEF OnCourse, ChunkFits
      <4>3. n \in 0..nb
        BY <1>2, <2>3, <2>4, <3>1 DEF BiosCounts
      <4>. QED BY <4>2, <4>3
    <3>2. CASE request \notin PartialReads
      BY <1>2, <2>3, <2>4, <3>2 DEF BiosCounts
    <3>. QED BY <3>1, <3>2
  <2>6. al = n
    <3>1. n \in 0..nb /\ al \in 0..255
      BY <1>2, <2>2, <2>4, CountsBytes
    <3>2. al = nb \/ al = n \/ al \in ErrorCounts
      BY <1>2 DEF CountsTold
    <3>3. CASE n = nb
      BY <1>2, <3>3 DEF CountsTold
    <3>4. CASE n # nb
      BY <2>0, <2>5, <3>1, <3>4
    <3>. QED BY <3>3, <3>4
  <2>7. ChunkFits'
    BY <1>2, <2>1, <2>4, <2>5, <2>6 DEF Serve, ChunkFits
  <2>. QED BY <1>2, <2>1, <2>7 DEF OnCourse, Asked
<1>. QED BY <1>1, <1>2, <1>3 DEF FetchInv

LEMMA CopyOnCourse ==
  ASSUME IInv, FetchInv, Copy
  PROVE  FetchInv'
<1>1. GeometryTold' = GeometryTold /\ Info' = Info
  BY ToldKept DEF Copy
<1>2. /\ pc = "bios" /\ pc' = "chunk"
      /\ fetched' = fetched \o Taken
      /\ read' = read + got /\ count' = (count - got) % Word /\ lba' = (lba + got) % Word
      /\ UNCHANGED <<nb, request, overstated>>
  BY DEF Copy
<1>3. ASSUME GeometryTold, ~ overstated
      PROVE  OnCourse'
  <2>1. OnCourse /\ ChunkFits
    BY <1>2, <1>3 DEF FetchInv
  <2>2. /\ lba \in Nat /\ count \in 0..Word-1 /\ nb \in Nat /\ read \in Nat
        /\ request[1] \in Nat /\ request[2] \in Nat /\ Word \in Nat
    BY WordPositive DEF IInv, LoopInv
  <2>3. got \in {0, nb} /\ nb \in 1..count
    BY <2>1 DEF ChunkFits
  <2>12. lba' = lba + got
    <3>. DEFINE next == lba + got
    <3>1. next \in 0..Word-1
      BY SMTT(30), <2>1, <2>2, <2>3, DiskSizes DEF OnCourse
    <3>. HIDE DEF next
    <3>2. next % Word = next
      BY <2>2, <3>1
    <3>. QED BY <1>2, <3>2 DEF next
  <2>0. fetched' = fetched \o Taken /\ read' = read + got /\ lba' = lba + got
        /\ UNCHANGED request
    BY <1>2, <2>12
  <2>4. count' = count - got
    <3>. DEFINE left == count - got
    <3>1. left \in 0..Word-1
      BY <2>2, <2>3
    <3>. HIDE DEF left
    <3>2. left % Word = left
      BY <2>2, <3>1
    <3>. QED BY <1>2, <3>2 DEF left
  <2>5. Taken = [i \in 1..got |-> request[1] + read + i - 1]
    <3>1. CASE got = 0
      BY <3>1 DEF Taken
    <3>2. CASE got # 0
      <4>1. segment = [i \in 1..got |-> lba + i - 1]
        BY <2>1, <2>2, <2>3, <3>2 DEF ChunkFits
      <4>2. got \in Nat /\ Len(segment) = got
        BY <2>2, <2>3, <4>1
      <4>3. Taken = segment
        BY <4>1, <4>2 DEF Taken
      <4>4. lba = request[1] + read
        BY <2>1 DEF OnCourse
      <4>. QED BY <4>1, <4>3, <4>4
    <3>. QED BY <3>1, <3>2
  <2>6. fetched' = [i \in 1..read + got |-> request[1] + i - 1]
    <3>1. got \in Nat
      BY <2>3
    <3>2. fetched = [i \in 1..read |-> request[1] + i - 1]
      BY <2>1 DEF OnCourse, Asked
    <3>3. request[1] \in Nat /\ read \in Nat
      BY <2>2
    <3>. QED BY <2>0, <2>5, <3>1, <3>2, <3>3, Appended
  <2>7. ComesOutEven(lba + got, count - got, nb)
    <3>1. CASE got = 0
      <4>1. lba + got = lba /\ count - got = count
        BY <2>2, <3>1
      <4>. QED BY <2>1, <4>1 DEF OnCourse
    <3>2. CASE got = nb
      BY <2>1, <3>2 DEF ChunkFits
    <3>. QED BY <2>3, <3>1, <3>2
  <2>8. request[1] + request[2] <= DiskLba /\ lba = request[1] + read
        /\ request[2] = read + count
    BY <2>1 DEF OnCourse
  <2>9. lba' = request[1] + read' /\ request[2] = read' + count'
    BY <2>0, <2>2, <2>3, <2>4, <2>8
  <2>10. fetched' = [i \in 1..read' |-> Asked(i)]
    BY <1>2, <2>6 DEF Asked
  <2>11. ComesOutEven(lba', count', nb)
    BY <1>2, <2>0, <2>4, <2>7
  <2>. QED BY <1>2, <2>8, <2>9, <2>10, <2>11 DEF OnCourse, Asked
<1>. QED BY <1>1, <1>2, <1>3 DEF FetchInv

LEMMA FetchInvariance ==
  ASSUME EvenRequests
  PROVE  Spec => []FetchInv
<1>1. Init => FetchInv
  BY DEF Init, FetchInv
<1>2. IInv /\ FetchInv /\ [Next]_vars => FetchInv'
  <2>. SUFFICES ASSUME IInv, FetchInv, [Next]_vars PROVE FetchInv'
    OBVIOUS
  <2>1. CASE Client
    BY <2>1, ElsewhereFetches
  <2>2. CASE User \/ Driver
    BY <2>2, ElsewhereFetches, ReadStartsOnCourse, ChunkOnCourse, AttemptOnCourse,
       CopyOnCourse DEF User, Driver
  <2>3. CASE UNCHANGED vars
    <3>1. GeometryTold' = GeometryTold
      BY <2>3, ToldKept DEF vars
    <3>. QED BY <2>3, <3>1 DEF vars, loop, FetchInv, OnCourse, ChunkFits, Asked
  <2>. QED BY <2>1, <2>2, <2>3 DEF Next, Halted
<1>. QED BY Invariance, <1>1, <1>2, PTL DEF Spec

(* The BIOS is asked for sectors of one track of the disk, and reads from  *)
(* where the loop of hd_read stands, for every drive, while AL tells of no *)
(* more sectors than were read.                                            *)
THEOREM ReadsRightPlace ==
  ASSUME EvenRequests
  PROVE  Spec => []ReadsWhereAsked
<1>1. IInv /\ FetchInv => ReadsWhereAsked
  <2>. SUFFICES ASSUME IInv, FetchInv, pc = "bios", GeometryTold,
                       ~ overstated
                PROVE  /\ lbatochs(Info[1], lba).S + nb - 1 <= Info[1].NS
                       /\ lba + nb <= Info[1].Nlba
                       /\ got > 0 => segment[1] = lba
    BY DEF ReadsWhereAsked
  <2>1. OnCourse /\ ChunkFits
    BY DEF FetchInv
  <2>2. /\ lba \in Nat /\ count \in Nat /\ nb \in Nat /\ read \in Nat /\ got \in Nat
        /\ request[1] \in Nat /\ request[2] \in Nat /\ DiskLba \in Nat
    BY WordPositive, DiskSizes DEF IInv, LoopInv
  <2>3. nb \in 1..count /\ lba + nb <= DiskLba /\ lba < DiskLba
    BY <2>1, <2>2 DEF OnCourse, ChunkFits
  <2>4. /\ lbatochs(Info[1], lba).S = Disk.NS - LeftInTrack(lba) + 1
        /\ Info[1].NS = Disk.NS /\ Info[1].Nlba = DiskLba
    BY <2>2, <2>3, BiosReadsThere, Told
  <2>5. LeftInTrack(lba) \in 1..Disk.NS /\ Disk.NS \in Nat /\ nb <= LeftInTrack(lba)
    <3>1. LeftInTrack(lba) \in 1..Disk.NS
      BY <2>2, Left
    <3>2. nb <= LeftInTrack(lba)
      BY <2>1 DEF ChunkFits
    <3>. QED BY <3>1, <3>2, DiskSizes
  <2>6. got > 0 => segment[1] = lba
    BY <2>1, <2>2 DEF ChunkFits
  <2>. QED BY <2>2, <2>3, <2>4, <2>5, <2>6
<1>. QED BY Invariance, FetchInvariance, <1>1, PTL

(* hd_read fetches the sectors asked for, in order and each once, however  *)
(* the request is cut and however often a chunk is refused, while AL tells *)
(* of no more sectors than were read.                                      *)
THEOREM RequestFetched ==
  ASSUME EvenRequests
  PROVE  Spec => []FetchesRequest
<1>1. IInv /\ FetchInv => FetchesRequest
  <2>. SUFFICES ASSUME IInv, FetchInv, GeometryTold, ~ overstated,
                       pc \in {"chunk", "bios"}
                PROVE  /\ \A i \in 1..Len(fetched) : fetched[i] = Asked(i)
                       /\ Done => /\ read = request[2]
                                  /\ fetched = [i \in 1..request[2] |-> Asked(i)]
    BY DEF FetchesRequest, Done
  <2>1. /\ fetched = [j \in 1..read |-> Asked(j)] /\ request[2] = read + count
        /\ read \in Nat
    BY DEF FetchInv, OnCourse, IInv, LoopInv
  <2>2. Len(fetched) = read
    BY <2>1
  <2>3. Done => request[2] = read
    BY <2>1 DEF Done
  <2>. QED BY <2>1, <2>2, <2>3
<1>. QED BY Invariance, FetchInvariance, <1>1, PTL
=============================================================================
