-------------------------------- MODULE Boot --------------------------------
(* From the boot sector to the prompt: boot0.S, bootstrap.S, the layout of *)
(* linker.ld.h and config_mem.h, the descriptor tables hal_init loads, and *)
(* int32, which puts its code where the boot sector was.  Memory is kept,  *)
(* in units the bootstrap copies DwordSize of at a time, across resets.    *)
EXTENDS Integers

CONSTANTS SectorSize, SectorsPerTrack,
          P1NbSectors, P2NbSectors,   \* BOOT1P1_NB_SECTORS, BOOT1P2_NB_SECTORS
          TextSize, DataSize, BssSize,
          DwordSize, CodeBase, DataBase, MemSize,
          Drives,                     \* numbers the BIOS boots from
          Junk                        \* memory nobody has written, or a program has

Image == TextSize + DataSize + BssSize
data_sections_size == DataSize + BssSize

(* The assertion of the linker script; a first part that ends where its    *)
(* track does (63 sectors, partitioning.sh); text and data as config_mem.h *)
(* places them.                                                            *)
ASSUME BootAssumption ==
  /\ {SectorSize, DwordSize, P1NbSectors, P2NbSectors, TextSize, BssSize} \subseteq Nat \ {0}
  /\ {DataSize, SectorsPerTrack, CodeBase, DataBase, MemSize} \subseteq Nat
  /\ Drives \subseteq Nat /\ Junk \notin Nat
  /\ Image <= SectorSize * (P1NbSectors + P2NbSectors)
  /\ P1NbSectors = SectorsPerTrack - 1
  /\ CodeBase + SectorSize * (P1NbSectors + P2NbSectors) <= DataBase
  /\ DataBase + data_sections_size + DwordSize <= MemSize

VARIABLES pc,
          mem, edi,      \* memory; where the bootstrap copies to
          dl,            \* the drive the BIOS booted from
          iflag, mode,   \* the interrupt flag; "real" or "protected"
          gdtr, idtr,    \* the tables in use
          saved,         \* the tables int32 will go back to
          intact,        \* the tables whose bytes are in memory
          a20

vars == <<pc, mem, edi, dl, iflag, mode, gdtr, idtr, saved, intact, a20>>
Addresses == 0..MemSize - 1
boot_drive_nb == DataBase + DataSize     \* bootstrap.o comes first in .bss
tables == <<gdtr, idtr, saved, intact>>
-----------------------------------------------------------------------------
(* The disk: boot sector, stage 1, zeros.  The stage's n-th unit is n + 1. *)
Disk(u) ==
  LET n == u - SectorSize
  IN IF n \in 0..TextSize + DataSize - 1 THEN n + 1 ELSE 0

Lba(head, sector) == head * SectorsPerTrack + sector - 1

(* Memory when count units of the disk, from a sector on, are at addr.     *)
Stored(lba, count, addr) ==
  [a \in Addresses |-> IF a \in addr..addr + count - 1
                       THEN Disk(lba * SectorSize + (a - addr)) ELSE mem[a]]

(* A BIOS call of the boot sector, its carry tested.                       *)
Succeeds(next) == pc' = next
Fails == pc' = "fatal_error"
-----------------------------------------------------------------------------
(* The BIOS reads the boot sector and jumps to it: after power-up, a reset *)
(* at any time, or int 0x19.                                               *)
Bootstrap(d) ==
  /\ pc' = "init_registers" /\ dl' = d
  /\ mode' = "real" /\ idtr' = "ivt" /\ intact' = intact \cup {"gdt"}
  /\ iflag' \in BOOLEAN /\ a20' \in BOOLEAN
  /\ UNCHANGED <<mem, edi, gdtr, saved>>

InitRegisters ==
  /\ pc = "init_registers" /\ pc' = "drive_reset" /\ iflag' = TRUE
  /\ UNCHANGED <<mem, edi, dl, mode, tables, a20>>

DriveReset ==
  /\ pc = "drive_reset" /\ (Succeeds("read_p1") \/ Fails)
  /\ UNCHANGED <<mem, edi, dl, iflag, mode, tables, a20>>

(* int 0x13, 0x02: a read that fails may have stored some of its sectors.  *)
Read(lba, sectors, addr, next) ==
  /\ \/ Succeeds(next) /\ mem' = Stored(lba, sectors * SectorSize, addr)
     \/ \E n \in 0..sectors : Fails /\ mem' = Stored(lba, n * SectorSize, addr)
  /\ UNCHANGED <<edi, dl, iflag, mode, tables, a20>>

ReadP1 == pc = "read_p1" /\ Read(Lba(0, 2), P1NbSectors, CodeBase, "read_p2")

(* Mutant of ReadP2: the second part is taken from where the first starts. *)
ReadP2Mutant ==
  pc = "read_p2" /\ Read(Lba(1, 2), P2NbSectors,
                         CodeBase + P1NbSectors * SectorSize, "a20gate_enable")

ReadP2 ==
  pc = "read_p2" /\ Read(Lba(1, 1), P2NbSectors,
                         CodeBase + P1NbSectors * SectorSize, "a20gate_enable")

A20GateEnable ==
  /\ pc = "a20gate_enable"
  /\ \/ Succeeds("switch_to_protected_mode") /\ a20' = TRUE
     \/ Fails /\ UNCHANGED a20
  /\ UNCHANGED <<mem, edi, dl, iflag, mode, tables>>

(* disable_interrupts, gdt_init and switch_to_protected_mode.              *)
SwitchToProtectedMode ==
  /\ pc = "switch_to_protected_mode" /\ pc' = "relocate"
  /\ iflag' = FALSE /\ mode' = "protected" /\ gdtr' = "gdt" /\ edi' = DataBase
  /\ UNCHANGED <<mem, dl, idtr, saved, intact, a20>>

(* Mutant of FatalError: the disk is tried again instead.                  *)
FatalErrorMutant ==
  /\ pc = "fatal_error" /\ pc' = "drive_reset"
  /\ UNCHANGED <<mem, edi, dl, iflag, mode, tables, a20>>

FatalError ==
  /\ pc = "fatal_error" /\ pc' = "halted" /\ iflag' = FALSE
  /\ UNCHANGED <<mem, edi, dl, mode, tables, a20>>
-----------------------------------------------------------------------------
(* One dword of the loop of bootstrap.S: the bytes behind the text go to   *)
(* DATA_BASE_OFFSET, over whatever tables an earlier boot had built there. *)
Relocate ==
  /\ pc = "relocate"
  /\ LET esi == CodeBase + TextSize + (edi - DataBase)
     IN mem' = [a \in Addresses |-> IF a \in edi..edi + DwordSize - 1
                                    THEN mem[esi + (a - edi)] ELSE mem[a]]
  /\ edi' = edi + DwordSize
  /\ pc' = IF edi' >= DataBase + data_sections_size THEN "save_drive" ELSE "relocate"
  /\ intact' = intact \ {"GDT32", "IDT32"}
  /\ UNCHANGED <<dl, iflag, mode, gdtr, idtr, saved, a20>>

SaveDrive ==
  /\ pc = "save_drive" /\ pc' = "main"
  /\ mem' = [mem EXCEPT ![boot_drive_nb] = dl]
  /\ UNCHANGED <<edi, dl, iflag, mode, tables, a20>>

(* Mutant of GdtInit: the table is built but not loaded.                   *)
GdtInitMutant ==
  /\ pc = "main" /\ pc' = "idt_init"
  /\ intact' = intact \cup {"GDT32"}
  /\ UNCHANGED <<mem, edi, dl, iflag, mode, gdtr, idtr, saved, a20>>

GdtInit ==
  /\ pc = "main" /\ pc' = "idt_init"
  /\ intact' = intact \cup {"GDT32"} /\ gdtr' = "GDT32"
  /\ UNCHANGED <<mem, edi, dl, iflag, mode, idtr, saved, a20>>

IdtInit ==
  /\ pc = "idt_init" /\ pc' = "sti"
  /\ intact' = intact \cup {"IDT32"} /\ idtr' = "IDT32"
  /\ UNCHANGED <<mem, edi, dl, iflag, mode, gdtr, saved, a20>>

(* The end of hal_init; shell_init and shell_main follow.                  *)
Sti ==
  /\ pc = "sti" /\ pc' = "shell" /\ iflag' = TRUE
  /\ UNCHANGED <<mem, edi, dl, mode, tables, a20>>

(* The program writes its variables; boot_drive_nb is declared constant.   *)
WriteData(a) ==
  /\ pc = "shell"
  /\ mem' = [mem EXCEPT ![a] = Junk]
  /\ UNCHANGED <<pc, edi, dl, iflag, mode, tables, a20>>
Variables == (DataBase..DataBase + data_sections_size - 1) \ {boot_drive_nb}
-----------------------------------------------------------------------------
(* int32, up to the interrupt: its code is copied over the boot sector.    *)
Int32Enter ==
  /\ pc = "shell" /\ pc' = "bios"
  /\ intact' = intact \ {"gdt"}
  /\ saved' = [gdt |-> gdtr, idt |-> idtr]
  /\ gdtr' = "gdt16" /\ idtr' = "ivt" /\ mode' = "real" /\ iflag' = TRUE
  /\ UNCHANGED <<mem, edi, dl, a20>>

Int32Return ==
  /\ pc = "bios" /\ pc' = "shell"
  /\ gdtr' = saved.gdt /\ idtr' = saved.idt /\ mode' = "protected" /\ iflag' = TRUE
  /\ UNCHANGED <<mem, edi, dl, saved, intact, a20>>
-----------------------------------------------------------------------------
Init ==
  /\ pc = "init_registers" /\ mem = [a \in Addresses |-> Junk] /\ edi = 0
  /\ dl \in Drives /\ iflag \in BOOLEAN /\ mode = "real" /\ a20 \in BOOLEAN
  /\ gdtr = "none" /\ idtr = "ivt" /\ intact = {"gdt"}
  /\ saved = [gdt |-> "none", idt |-> "ivt"]

Boots == InitRegisters \/ DriveReset \/ ReadP1 \/ ReadP2 \/ A20GateEnable
           \/ SwitchToProtectedMode \/ FatalError
           \/ Relocate \/ SaveDrive \/ GdtInit \/ IdtInit \/ Sti
Runs == (\E a \in Variables : WriteData(a)) \/ Int32Enter \/ Int32Return
Reset == \E d \in Drives : Bootstrap(d)

Next == Boots \/ Runs \/ Reset
(* The processor goes on, and the BIOS answers the boot sector.            *)
Spec == Init /\ [][Next]_vars /\ WF_vars(Boots)
=============================================================================
