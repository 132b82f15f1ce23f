----------------------------- MODULE Multiboot -----------------------------
(* multiboot_fill_header of multiboot.c with its probes of the memory.  No *)
(* flag of the header is ever set.  Nothing in the repository calls it; a  *)
(* caller may call it again.                                               *)
EXTENDS Naturals, Sequences, FiniteSetsExt

CONSTANTS Machines,          \* [lower, upper, above : Nat, bootable : a function]:
                             \* KB of memory, the boot flags of each disk
          hda,               \* the BIOS number of the disk "hda"
          MULTIBOOT_INFO_UNUSED_PARTITION,
          Max15MB            \* 0x3c00, in KB

ASSUME MultibootAssumption ==
  \A m \in Machines :
    /\ {m.lower, m.upper, m.above} \subseteq Nat
    /\ \A d \in DOMAIN m.bootable : m.bootable[d] \in Seq(BOOLEAN)

VARIABLES machine,
          multiboot_header,
          step,              \* the block of the function under way
          told               \* the blocks of the last call that were answered
mvars == <<machine, multiboot_header, step, told>>

Zeroed == [drive |-> 0, part1 |-> 0, mem_lower |-> 0, mem_upper |-> 0,
           mmap_length |-> 0]

MInit == machine \in Machines /\ multiboot_header = Zeroed /\ step = "none" /\ told = {}

MReset == multiboot_header' = Zeroed /\ step' = "none" /\ told' = {} /\ UNCHANGED machine

(* A block ends: its field, when it is told, the next block.               *)
Sets(field, value, next) ==
  /\ multiboot_header' = [multiboot_header EXCEPT ![field] = value]
  /\ step' = next /\ UNCHANGED machine
Keeps(next) == step' = next /\ UNCHANGED <<machine, multiboot_header, told>>
-----------------------------------------------------------------------------
FillHeader(boot_drive_nb) ==
  /\ step \in {"none", "filled"} /\ step' = "mbr" /\ told' = {}
  /\ multiboot_header' = [multiboot_header EXCEPT
       !.drive = boot_drive_nb, !.part1 = MULTIBOOT_INFO_UNUSED_PARTITION]
  /\ UNCHANGED machine

(* Mutant of BootPartition: the loop goes on after a bootable partition.   *)
BootPartitionMutant(bootable) ==
  LET marked == {i \in DOMAIN bootable : bootable[i]}
  IN IF marked = {} THEN MULTIBOOT_INFO_UNUSED_PARTITION ELSE Max(marked) - 1

BootPartition(bootable) ==
  LET marked == {i \in DOMAIN bootable : bootable[i]}
  IN IF marked = {} THEN MULTIBOOT_INFO_UNUSED_PARTITION ELSE Min(marked) - 1

(* mbr_get("hda") returns NULL, or the sector; it is always hda's, from    *)
(* whatever drive the machine was booted.  (That it can return what is not *)
(* the sector is module HardDisk's.)                                       *)
MbrGet ==
  /\ step = "mbr"
  /\ \/ /\ hda \in DOMAIN machine.bootable
        /\ Sets("part1", BootPartition(machine.bootable[hda]), "int12")
        /\ told' = told \cup {"mbr"}
     \/ Keeps("int12")

Int12DetectLowerMem ==
  /\ step = "int12"
  /\ \/ Sets("mem_lower", machine.lower, "e801") /\ told' = told \cup {"int12"}
     \/ Keeps("e801")

(* The registers of a BIOS that fills AX and BX, CX and DX, or all four.   *)
E801Answers ==
  LET u == machine.upper
      v == machine.above
  IN {<<u, v, 0, 0>>, <<0, 0, u, v>>, <<u, v, u, v>>}

E801DetectUpperMem ==
  /\ step = "e801"
  /\ \/ \E r \in E801Answers :
          LET kb == IF r[1] # 0 \/ r[2] # 0 THEN r[1] ELSE r[3]
          IN /\ kb <= Max15MB
             /\ Sets("mem_upper", kb, "e820") /\ told' = told \cup {"e801"}
     \/ Keeps("e820")

(* In protected mode e820_detect_mem finds no entries, without a call.     *)
E820DetectMem ==
  step = "e820" /\ Sets("mmap_length", 0, "filled") /\ UNCHANGED told
=============================================================================
