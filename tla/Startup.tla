------------------------------ MODULE Startup ------------------------------
(* The machine from its reset to a program that fills the multiboot header:*)
(* a block of multiboot_fill_header that asks the BIOS does so through     *)
(* int32, and a reset in the middle of it starts over.                     *)
EXTENDS BootProps, Multiboot, SequencesExt

StartupInit == Init /\ MInit

AsksBios == MbrGet \/ Int12DetectLowerMem \/ E801DetectUpperMem
NotAsking == step \in {"none", "filled", "e820"} /\ UNCHANGED mvars

StartupNext ==
  \/ Boots /\ UNCHANGED mvars
  \/ (\E a \in Variables : WriteData(a)) /\ UNCHANGED mvars
  \/ Int32Enter /\ UNCHANGED mvars
  \/ Int32Return /\ (AsksBios \/ NotAsking)
  \/ pc = "shell" /\ UNCHANGED vars /\ FillHeader(mem[boot_drive_nb])
  \/ pc = "shell" /\ UNCHANGED vars /\ E820DetectMem
  \/ Reset /\ MReset

StartupSpec == StartupInit /\ [][StartupNext]_<<vars, mvars>> /\ WF_vars(Boots)
-----------------------------------------------------------------------------
(* After a call the header names the drive the machine was booted from; the *)
(* partition is the first one that drive marks as bootable, and unused when *)
(* there is none or the boot sector was not read; the memory above 1 MB is  *)
(* what the machine has, or 0 when no call was told of it.  The partition   *)
(* is claimed of machines booted from hda only: of any other drive the      *)
(* header gives hda's (multiboot.c:30).                                     *)
HeaderIsTrue ==
  LET h     == multiboot_header
      first == SelectInSeq(machine.bootable[dl], LAMBDA b : b)
  IN step = "filled" =>
       /\ h.drive = dl
       /\ dl = hda =>
            h.part1 = IF "mbr" \notin told \/ first = 0
                        THEN MULTIBOOT_INFO_UNUSED_PARTITION ELSE first - 1
       /\ \/ h.mem_upper = machine.upper
          \/ "e801" \notin told /\ h.mem_upper = 0

=============================================================================
