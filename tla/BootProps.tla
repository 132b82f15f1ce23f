----------------------------- MODULE BootProps -----------------------------
(* What booting gets right.                                                *)
EXTENDS Boot

Stage1 == {"relocate", "save_drive", "main", "idt_init", "sti", "shell", "bios"}

(* Stage 1 runs only when all of its sectors have been read and the A20    *)
(* gate is open, and it keeps its text; and main starts with the data the  *)
(* linker laid out, .bss zero and boot_drive_nb the drive booted from,     *)
(* whatever an earlier boot, a failed read or the program itself left in   *)
(* memory before the machine was reset.                                    *)
StartsAsBuilt ==
  /\ pc \in Stage1 =>
       /\ a20
       /\ \A n \in 0..TextSize - 1 : mem[CodeBase + n] = n + 1
  /\ pc = "main" =>
       \A n \in 0..data_sections_size - 1 :
         mem[DataBase + n] = CASE DataBase + n = boot_drive_nb -> dl
                               [] n < DataSize -> TextSize + n + 1
                               [] OTHER -> 0

(* No table of descriptors is used after its bytes were overwritten: the   *)
(* boot sector's ends when int32 takes its place, those of an earlier boot *)
(* when the data are copied over them.  Interrupts are enabled only while  *)
(* the vectors are those of the processor's mode.                          *)
TablesInUse ==
  /\ mode = "protected" => gdtr \in intact
  /\ iflag => idtr = IF mode = "real" THEN "ivt" ELSE "IDT32"
  /\ iflag /\ mode = "protected" => idtr \in intact

(* A machine that is no longer reset comes to the prompt and stays with it,*)
(* or tells of an error and stops: neither the copying of the data nor a   *)
(* disk that refuses keeps it busy.                                        *)
BootEnds ==
  <>[][~Reset]_vars => <>[](pc \in {"shell", "bios", "halted"})
=============================================================================
