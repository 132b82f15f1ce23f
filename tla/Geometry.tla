------------------------------ MODULE Geometry ------------------------------
(***************************************************************************)
(* Sector numbers: the linear ones of the block layer (LBA), the cylinder, *)
(* head and sector of common/block_dev.c, and the registers in which       *)
(* arch/x86/lib/disk.c hands them to the BIOS.  uint8_t and uint16_t       *)
(* fields drop what does not fit.                                          *)
(***************************************************************************)
EXTENDS Integers

UInt8(n) == n % 256
UInt16(n) == n % 65536

(* What a disk may be for the BIOS: 10 bits of cylinders, 8 of heads and 6 *)
(* of sectors.                                                             *)
Disks == [NC : 1..1024, NH : 1..255, NS : 1..63]

(* What the code stores: the same fields, zero included, and their product *)
(* Nlba, which is computed from the truncated ones.                        *)
Described(nc, nh, ns) ==
  [NC |-> nc, NH |-> nh, NS |-> ns, Nlba |-> nc * nh * ns]

(* Mutant of lbatochs: sectors are counted from 0, as cylinders are.       *)
lbatochsMutant(desc, lba) ==
  LET track == lba \div desc.NS
  IN  [S |-> UInt8(lba % desc.NS),
       H |-> UInt8(track % desc.NH), C |-> UInt16(track \div desc.NH)]

lbatochs(desc, lba) ==
  LET S == UInt8((lba % desc.NS) + 1)
      track == (lba - (S - 1)) \div desc.NS
  IN  [S |-> S, H |-> UInt8(track % desc.NH), C |-> UInt16(track \div desc.NH)]

chstolba(desc, chs) ==
  chs.C * desc.NS * desc.NH + chs.H * desc.NS + (chs.S - 1)

(* Mutant of CX: the two high bits of the cylinder are lost.               *)
CXMutant(chs) == (chs.C % 256) * 256 + chs.S

(* Register CX of int 0x13: the low byte of the cylinder, its bits 8 and 9 *)
(* and the sector number, which has 6 bits.                                *)
CX(chs) == (chs.C % 256) * 256 + ((chs.C \div 256) % 4) * 64 + chs.S

(* The values of the registers CX and DH.                                  *)
Words == 0..65535
Bytes == 0..255
RegisterValues == [cx : Words, dh : Bytes]

(* How the BIOS reads that register.                                       *)
Cylinder(cx) == cx \div 256 + ((cx % 256) \div 64) * 256
Sector(cx) == cx % 64

(* The registers with which int 0x13, AH = 0x08 describes a disk: the last *)
(* cylinder and the last sector in CX, the last head in DH.                *)
Registers(disk) ==
  LET last == disk.NC - 1
  IN  [cx |-> (last % 256) * 256 + (last \div 256) * 64 + disk.NS,
       dh |-> disk.NH - 1]

(* The geometry disk_geometry computes from them.                          *)
Decoded(regs) ==
  Described(Cylinder(regs.cx) + 1, UInt8(regs.dh + 1), Sector(regs.cx))
=============================================================================
