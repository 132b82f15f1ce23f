----------------------------- MODULE BootProofs -----------------------------
(* The tables in use are whole, and a boot starts stage 1 as it was built: *)
(* for every layout that the linker script and config_mem.h allow; and the *)
(* multiboot header is true, for every machine.                            *)
EXTENDS Startup, WellFoundedInduction, TLAPS

Loading == {"init_registers", "drive_reset", "read_p1", "read_p2", "a20gate_enable",
            "switch_to_protected_mode", "fatal_error", "halted"}
-----------------------------------------------------------------------------
(* Which tables are in use and whole at every place of the program: what   *)
(* TablesInUse needs to be inductive.  The boot sector's table is whole    *)
(* until the first int32; saved is what int32 returns to.                  *)
Tables ==
  /\ pc \in Loading \cup Stage1
  /\ pc \in Loading => mode = "real" /\ idtr = "ivt" /\ "gdt" \in intact
  /\ pc \in {"relocate", "save_drive", "main"} =>
       mode = "protected" /\ ~iflag /\ gdtr = "gdt" /\ "gdt" \in intact
  /\ pc \in {"idt_init", "sti", "shell"} =>
       mode = "protected" /\ gdtr = "GDT32" /\ "GDT32" \in intact
  /\ pc = "idt_init" => ~iflag
  /\ pc \in {"sti", "shell"} => idtr = "IDT32" /\ "IDT32" \in intact
  /\ pc = "bios" =>
       /\ mode = "real" /\ idtr = "ivt"
       /\ saved = [gdt |-> "GDT32", idt |-> "IDT32"] /\ {"GDT32", "IDT32"} \subseteq intact

LEMMA TablesStep == Tables /\ [Next]_vars => Tables'
<1> SUFFICES ASSUME Tables, [Next]_vars PROVE Tables'
    OBVIOUS
<1> USE DEF Tables, Loading, Stage1, tables
<1>1. CASE Boots
  <2>1. CASE InitRegisters BY <2>1 DEF InitRegisters
  <2>2. CASE DriveReset BY <2>2 DEF DriveReset, Succeeds, Fails
  <2>3. CASE ReadP1 BY <2>3 DEF ReadP1, Read, Succeeds, Fails
  <2>4. CASE ReadP2 BY <2>4 DEF ReadP2, Read, Succeeds, Fails
  <2>5. CASE A20GateEnable BY <2>5 DEF A20GateEnable, Succeeds, Fails
  <2>6. CASE SwitchToProtectedMode BY <2>6 DEF SwitchToProtectedMode
  <2>7. CASE FatalError BY <2>7 DEF FatalError
  <2>8. CASE Relocate BY <2>8 DEF Relocate
  <2>9. CASE SaveDrive BY <2>9 DEF SaveDrive
  <2>10. CASE GdtInit BY <2>10 DEF GdtInit
  <2>11. CASE IdtInit BY <2>11 DEF IdtInit
  <2>12. CASE Sti BY <2>12 DEF Sti
  <2>13. QED BY <1>1, <2>1, <2>2, <2>3, <2>4, <2>5, <2>6, <2>7, <2>8, <2>9, <2>10,
                <2>11, <2>12 DEF Boots
<1>2. CASE Runs
  <2>1. ASSUME NEW a \in Variables, WriteData(a) PROVE Tables' BY <2>1 DEF WriteData
  <2>2. CASE Int32Enter BY <2>2 DEF Int32Enter
  <2>3. CASE Int32Return BY <2>3 DEF Int32Return
  <2>4. QED BY <1>2, <2>1, <2>2, <2>3 DEF Runs
<1>3. CASE Reset BY <1>3 DEF Reset, Bootstrap
<1>4. CASE UNCHANGED vars BY <1>4 DEF vars
<1>5. QED BY <1>1, <1>2, <1>3, <1>4 DEF Next

(* No table of descriptors is used after its bytes were overwritten, and   *)
(* interrupts find the vectors of the processor's mode.                    *)
THEOREM TablesAreWhole == Spec => []TablesInUse
<1>1. Init => Tables
  BY DEF Init, Tables, Loading, Stage1
<1>2. Tables => TablesInUse
  BY DEF Tables, TablesInUse, Loading, Stage1
<1>3. QED
  BY <1>1, <1>2, TablesStep, PTL DEF Spec
-----------------------------------------------------------------------------
P1 == P1NbSectors * SectorSize
P2 == P2NbSectors * SectorSize

(* The sizes: the image fits in the two reads, the reads below the data.   *)
LEMMA Sizes ==
  /\ P1 \in Nat /\ P2 \in Nat /\ SectorSize \in Nat /\ P1 > 0
  /\ Image <= P1 + P2 /\ Image \in Nat /\ data_sections_size \in Nat
  /\ Image = TextSize + data_sections_size
  /\ TextSize \in Nat /\ DataSize \in Nat /\ BssSize \in Nat \ {0}
  /\ DwordSize \in Nat \ {0} /\ CodeBase \in Nat /\ DataBase \in Nat /\ MemSize \in Nat
  /\ CodeBase + P1 + P2 <= DataBase
  /\ DataBase + data_sections_size + DwordSize <= MemSize
<1>1. /\ {SectorSize, DwordSize, P1NbSectors, P2NbSectors, TextSize, BssSize} \subseteq Nat \ {0}
      /\ {DataSize, SectorsPerTrack, CodeBase, DataBase, MemSize} \subseteq Nat
  BY BootAssumption
<1>2. P1 \in Nat /\ P2 \in Nat /\ P1 > 0
  BY <1>1 DEF P1, P2
<1>3. SectorSize * (P1NbSectors + P2NbSectors) = P1 + P2
  BY <1>1 DEF P1, P2
<1>4. Image = TextSize + data_sections_size /\ data_sections_size \in Nat
  BY <1>1 DEF Image, data_sections_size
<1>5. Image <= P1 + P2 /\ CodeBase + (P1 + P2) <= DataBase
      /\ DataBase + data_sections_size + DwordSize <= MemSize
  BY <1>3, BootAssumption
<1>6. QED
  BY <1>1, <1>2, <1>4, <1>5

(* The two reads of the boot sector follow each other on the disk.         *)
LEMMA Layout ==
  /\ Lba(0, 2) * SectorSize = SectorSize
  /\ Lba(1, 1) * SectorSize = SectorSize + P1
<1>1. SectorSize \in Nat /\ P1NbSectors \in Nat /\ SectorsPerTrack \in Nat
  BY BootAssumption
<1>2. Lba(0, 2) = 1 /\ Lba(1, 1) = P1NbSectors + 1
  BY <1>1, BootAssumption DEF Lba
<1>3. (P1NbSectors + 1) * SectorSize = SectorSize + P1
  BY <1>1 DEF P1
<1>4. QED
  BY <1>1, <1>2, <1>3

(* The n-th unit of the image, and the first units of it in memory.        *)
Unit(n) == Disk(SectorSize + n)
Loaded(count) == \A n \in 0..count - 1 : mem[CodeBase + n] = Unit(n)
Moved(count) == \A n \in 0..count - 1 : mem[DataBase + n] = Unit(TextSize + n)

(* How far a boot has come: the image is read, then the data are moved,    *)
(* dword by dword, and from then on only the text has to stay.             *)
Progress ==
  /\ pc \in Loading \cup Stage1
  /\ DOMAIN mem = Addresses
  /\ pc = "read_p2" => Loaded(P1)
  /\ pc \in {"a20gate_enable", "switch_to_protected_mode", "relocate"} => Loaded(Image)
  /\ pc = "relocate" =>
       edi \in Nat /\ edi >= DataBase /\ edi < DataBase + data_sections_size
  /\ pc = "relocate" => Moved(edi - DataBase)
  /\ pc = "save_drive" => Moved(data_sections_size)
  /\ pc \in Stage1 => Loaded(TextSize)
  /\ pc \in {"switch_to_protected_mode"} \cup Stage1 => a20
  /\ pc = "main" =>
       \A n \in 0..data_sections_size - 1 :
         mem[DataBase + n] = IF n = DataSize THEN dl ELSE Unit(TextSize + n)

LEMMA ReadStep == ASSUME Progress, ReadP1 \/ ReadP2 PROVE Progress'
<1> USE DEF Progress, Loading, Stage1
<1>1. DOMAIN mem' = Addresses
  BY DEF ReadP1, ReadP2, Read, Stored
<1>2. CASE ReadP1
  <2>1. CASE pc' = "read_p2"
    <3>1. mem' = Stored(Lba(0, 2), P1, CodeBase)
      BY <1>2, <2>1 DEF ReadP1, Read, Fails, P1
    <3>2. ASSUME NEW n \in 0..P1 - 1 PROVE mem'[CodeBase + n] = Unit(n)
      <4>1. CodeBase + n \in Addresses /\ CodeBase + n \in CodeBase..CodeBase + P1 - 1
        BY Sizes DEF Addresses
      <4>2. mem'[CodeBase + n] = Disk(SectorSize + (CodeBase + n - CodeBase))
        BY <3>1, <4>1, Layout, Sizes DEF Stored
      <4>3. CodeBase + n - CodeBase = n
        BY Sizes
      <4>4. QED BY <4>2, <4>3 DEF Unit
    <3>3. QED BY <2>1, <3>2, <1>1 DEF Loaded
  <2>2. CASE pc' = "fatal_error" BY <2>2, <1>1
  <2>3. QED BY <1>2, <2>1, <2>2 DEF ReadP1, Read, Succeeds, Fails
<1>3. CASE ReadP2
  <2>1. CASE pc' = "a20gate_enable"
    <3>1. mem' = Stored(Lba(1, 1), P2, CodeBase + P1)
      BY <1>3, <2>1 DEF ReadP2, Read, Fails, P1, P2
    <3>2. ASSUME NEW n \in 0..Image - 1 PROVE mem'[CodeBase + n] = Unit(n)
      <4>1. CodeBase + n \in Addresses
        BY Sizes DEF Addresses
      <4>2. CASE n < P1
        <5>1. CodeBase + n \notin CodeBase + P1..CodeBase + P1 + P2 - 1
          BY <4>2, Sizes
        <5>2. mem'[CodeBase + n] = mem[CodeBase + n]
          BY <3>1, <4>1, <5>1 DEF Stored
        <5>3. n \in 0..P1 - 1 BY <4>2, Sizes
        <5>4. Loaded(P1) BY <1>3 DEF ReadP2
        <5>5. QED BY <5>2, <5>3, <5>4 DEF Loaded
      <4>3. CASE n >= P1
        <5>1. CodeBase + n \in CodeBase + P1..CodeBase + P1 + P2 - 1
          BY <4>3, Sizes
        <5>2. mem'[CodeBase + n]
                = Disk((SectorSize + P1) + (CodeBase + n - (CodeBase + P1)))
          BY <3>1, <4>1, <5>1, Layout, Sizes DEF Stored
        <5>3. (SectorSize + P1) + (CodeBase + n - (CodeBase + P1)) = SectorSize + n
          BY Sizes
        <5>4. QED BY <5>2, <5>3 DEF Unit
      <4>4. QED BY <4>2, <4>3, Sizes
    <3>3. QED BY <2>1, <3>2, <1>1 DEF Loaded
  <2>2. CASE pc' = "fatal_error" BY <2>2, <1>1
  <2>3. QED BY <1>3, <2>1, <2>2 DEF ReadP2, Read, Succeeds, Fails
<1>4. QED BY <1>2, <1>3

(* A step that writes only at or above DataBase leaves the loaded image.   *)
LEMMA CodeKept ==
  ASSUME NEW count \in Nat, count <= Image, Loaded(count),
         \A a \in Addresses : a < DataBase => mem'[a] = mem[a]
  PROVE  Loaded(count)'
<1>1. SUFFICES ASSUME NEW n \in 0..count - 1 PROVE mem'[CodeBase + n] = Unit(n)
  BY DEF Loaded, Unit, Disk
<1>2. CodeBase + n \in Addresses /\ CodeBase + n < DataBase
  BY Sizes DEF Addresses
<1>3. QED BY <1>2 DEF Loaded

LEMMA RelocateStep == ASSUME Progress, Relocate PROVE Progress'
<1>1. /\ pc = "relocate" /\ Loaded(Image) /\ Moved(edi - DataBase) /\ a20
      /\ edi \in Nat /\ edi >= DataBase /\ edi < DataBase + data_sections_size
      /\ DOMAIN mem = Addresses /\ Loaded(TextSize)
  BY DEF Progress, Relocate, Stage1
<1>2. /\ mem' = [a \in Addresses |-> IF a \in edi..edi + DwordSize - 1
                                     THEN mem[(CodeBase + TextSize + (edi - DataBase)) + (a - edi)]
                                     ELSE mem[a]]
      /\ edi' = edi + DwordSize /\ a20' = a20
      /\ pc' = IF edi' >= DataBase + data_sections_size THEN "save_drive" ELSE "relocate"
  BY DEF Relocate
<1>3. \A a \in Addresses : a < DataBase => mem'[a] = mem[a]
  BY <1>1, <1>2, Sizes DEF Addresses
<1>4. Loaded(Image)' /\ Loaded(TextSize)'
  BY <1>1, <1>3, CodeKept, Sizes
<1>5. ASSUME NEW n \in Nat, n < data_sections_size, n < edi' - DataBase
      PROVE  mem'[DataBase + n] = Unit(TextSize + n)
  <2>1. DataBase + n \in Addresses
    BY <1>5, Sizes DEF Addresses
  <2>2. CASE n < edi - DataBase
    <3>1. mem'[DataBase + n] = mem[DataBase + n]
      BY <1>1, <1>2, <2>1, <2>2, Sizes
    <3>2. n \in 0..(edi - DataBase) - 1
      BY <1>1, <2>2, Sizes
    <3>3. QED BY <1>1, <3>1, <3>2 DEF Moved
  <2>3. CASE n >= edi - DataBase
    <3>1. DataBase + n \in edi..edi + DwordSize - 1
      BY <1>1, <1>2, <1>5, <2>3, Sizes
    <3>2. mem'[DataBase + n]
            = mem[(CodeBase + TextSize + (edi - DataBase)) + ((DataBase + n) - edi)]
      BY <1>2, <2>1, <3>1
    <3>3. (CodeBase + TextSize + (edi - DataBase)) + ((DataBase + n) - edi)
            = CodeBase + (TextSize + n)
      BY <1>1, Sizes
    <3>4. TextSize + n \in 0..Image - 1
      BY <1>5, Sizes
    <3>5. QED BY <1>1, <3>2, <3>3, <3>4 DEF Loaded
  <2>4. QED BY <1>1, <2>2, <2>3, Sizes
<1>6. CASE edi' >= DataBase + data_sections_size
  <2>1. Moved(data_sections_size)'
    <3>1. SUFFICES ASSUME NEW n \in 0..data_sections_size - 1
                   PROVE mem'[DataBase + n] = Unit(TextSize + n)
      BY DEF Moved, Unit, Disk, data_sections_size
    <3>2. n \in Nat /\ n < data_sections_size /\ n < edi' - DataBase
      BY <1>1, <1>2, <1>6, Sizes
    <3>3. QED BY <3>2, <1>5
  <2>2. pc' = "save_drive" /\ DOMAIN mem' = Addresses
    BY <1>2, <1>6
  <2>3. QED BY <1>1, <1>2, <1>4, <2>1, <2>2 DEF Progress, Stage1, Loading
<1>7. CASE ~(edi' >= DataBase + data_sections_size)
  <2>1. edi' \in Nat /\ edi' >= DataBase /\ edi' < DataBase + data_sections_size
    BY <1>1, <1>2, <1>7, Sizes
  <2>2. Moved(edi - DataBase)'
    <3>1. SUFFICES ASSUME NEW n \in 0..(edi' - DataBase) - 1
                   PROVE mem'[DataBase + n] = Unit(TextSize + n)
      BY DEF Moved, Unit, Disk
    <3>2. n \in Nat /\ n < data_sections_size /\ n < edi' - DataBase
      BY <1>1, <1>2, <2>1, Sizes
    <3>3. QED BY <3>2, <1>5
  <2>3. pc' = "relocate" /\ DOMAIN mem' = Addresses
    BY <1>2, <1>7
  <2>4. QED BY <1>1, <1>2, <1>4, <2>1, <2>2, <2>3 DEF Progress, Stage1, Loading
<1>8. QED BY <1>6, <1>7

LEMMA SaveDriveStep == ASSUME Progress, SaveDrive PROVE Progress'
<1>1. /\ pc = "save_drive" /\ pc' = "main" /\ Moved(data_sections_size) /\ a20 /\ a20' = a20
      /\ DOMAIN mem = Addresses /\ Loaded(TextSize) /\ dl' = dl
      /\ mem' = [mem EXCEPT ![DataBase + DataSize] = dl]
  BY DEF Progress, SaveDrive, Stage1, boot_drive_nb
<1>2. DOMAIN mem' = Addresses
  BY <1>1
<1>3. Loaded(TextSize)'
  <2>1. \A a \in Addresses : a < DataBase => mem'[a] = mem[a]
    BY <1>1, Sizes DEF Addresses
  <2>2. QED BY <1>1, <2>1, CodeKept, Sizes
<1>4. ASSUME NEW n \in 0..data_sections_size - 1
      PROVE  mem'[DataBase + n] = IF n = DataSize THEN dl ELSE Unit(TextSize + n)
  <2>1. DataBase + n \in Addresses
    BY Sizes DEF Addresses
  <2>2. CASE n = DataSize BY <1>1, <2>1, <2>2
  <2>3. CASE n # DataSize
    <3>1. DataBase + n # DataBase + DataSize BY <2>3, Sizes
    <3>2. mem'[DataBase + n] = mem[DataBase + n] BY <1>1, <2>1, <3>1
    <3>3. QED BY <1>1, <3>2, <2>3 DEF Moved
  <2>4. QED BY <2>2, <2>3
<1>5. QED
  BY <1>1, <1>2, <1>3, <1>4 DEF Progress, Stage1, Loading, data_sections_size, Unit, Disk

(* Any other step leaves the memory, or writes one variable of the program.*)
LEMMA OtherStep ==
  ASSUME Progress, [Next]_vars, ~ReadP1, ~ReadP2, ~Relocate, ~SaveDrive PROVE Progress'
<1> USE DEF Progress, Loading, Stage1, tables
<1>1. CASE InitRegisters BY <1>1 DEF InitRegisters
<1>2. CASE DriveReset BY <1>2 DEF DriveReset, Succeeds, Fails
<1>3. CASE A20GateEnable BY <1>3 DEF A20GateEnable, Succeeds, Fails, Loaded, Unit, Disk
<1>4. CASE SwitchToProtectedMode
  <2>1. /\ pc' = "relocate" /\ mem' = mem /\ edi' = DataBase /\ a20 /\ a20' = a20
        /\ Loaded(Image) /\ DOMAIN mem' = Addresses
    BY <1>4 DEF SwitchToProtectedMode
  <2>2. Loaded(Image)'
    BY <2>1 DEF Loaded, Unit, Disk, Image
  <2>3. Loaded(TextSize)'
    BY <2>2, Sizes DEF Loaded
  <2>4. Moved(edi - DataBase)'
    BY <2>1, Sizes DEF Moved
  <2>5. DataBase < DataBase + data_sections_size
    BY Sizes DEF data_sections_size
  <2>6. QED BY <2>1, <2>2, <2>3, <2>4, <2>5, Sizes
<1>5. CASE FatalError BY <1>5 DEF FatalError
<1>6. CASE GdtInit BY <1>6 DEF GdtInit, Loaded, Unit, Disk
<1>7. CASE IdtInit BY <1>7 DEF IdtInit, Loaded, Unit, Disk
<1>8. CASE Sti BY <1>8 DEF Sti, Loaded, Unit, Disk
<1>9. ASSUME NEW a \in Variables, WriteData(a) PROVE Progress'
  <2>1. /\ pc = "shell" /\ pc' = "shell" /\ DOMAIN mem = Addresses /\ a20 /\ a20' = a20
        /\ Loaded(TextSize) /\ mem' = [mem EXCEPT ![a] = Junk]
    BY <1>9 DEF WriteData
  <2>2. a >= DataBase /\ a \in Int
    BY Sizes DEF Variables
  <2>3. \A b \in Addresses : b < DataBase => mem'[b] = mem[b]
    BY <2>1, <2>2, Sizes DEF Addresses
  <2>4. Loaded(TextSize)'
    BY <2>1, <2>3, CodeKept, Sizes
  <2>5. QED BY <2>1, <2>4
<1>10. CASE Int32Enter BY <1>10 DEF Int32Enter, Loaded, Unit, Disk
<1>11. CASE Int32Return BY <1>11 DEF Int32Return, Loaded, Unit, Disk
<1>12. CASE Reset BY <1>12 DEF Reset, Bootstrap
<1>13. CASE UNCHANGED vars BY <1>13 DEF vars, Loaded, Moved, Unit, Disk
<1>14. QED
  BY <1>1, <1>2, <1>3, <1>4, <1>5, <1>6, <1>7, <1>8, <1>9, <1>10, <1>11, <1>12, <1>13
  DEF Next, Boots, Runs

LEMMA ProgressMeans == Progress => StartsAsBuilt
<1> SUFFICES ASSUME Progress PROVE StartsAsBuilt
    OBVIOUS
<1> USE Sizes DEF Unit, Disk, Progress
<1>1. ASSUME pc \in Stage1 PROVE a20 /\ \A n \in 0..TextSize - 1 : mem[CodeBase + n] = n + 1
  <2>1. a20 /\ Loaded(TextSize) BY <1>1
  <2>2. ASSUME NEW n \in 0..TextSize - 1 PROVE Unit(n) = n + 1
    <3>1. (SectorSize + n) - SectorSize = n OBVIOUS
    <3>2. n \in 0..TextSize + DataSize - 1 OBVIOUS
    <3>3. QED BY <3>1, <3>2
  <2>3. QED BY <2>1, <2>2 DEF Loaded
<1>2. ASSUME pc = "main", NEW n \in 0..data_sections_size - 1
      PROVE  mem[DataBase + n] = CASE DataBase + n = boot_drive_nb -> dl
                                   [] n < DataSize -> TextSize + n + 1
                                   [] OTHER -> 0
  <2>1. mem[DataBase + n] = IF n = DataSize THEN dl ELSE Unit(TextSize + n)
    BY <1>2
  <2>2. (SectorSize + (TextSize + n)) - SectorSize = TextSize + n
    OBVIOUS
  <2>3. DataBase + n = boot_drive_nb <=> n = DataSize
    BY DEF boot_drive_nb
  <2>4. CASE n = DataSize BY <2>1, <2>3, <2>4
  <2>5. CASE n < DataSize
    <3>1. TextSize + n \in 0..TextSize + DataSize - 1 BY <2>5
    <3>2. Unit(TextSize + n) = TextSize + n + 1 BY <2>2, <3>1
    <3>3. QED BY <2>1, <2>3, <2>5, <3>2
  <2>6. CASE n > DataSize
    <3>1. TextSize + n \notin 0..TextSize + DataSize - 1 BY <2>6
    <3>2. Unit(TextSize + n) = 0 BY <2>2, <3>1
    <3>3. QED BY <2>1, <2>3, <2>6, <3>2
  <2>7. QED BY <2>4, <2>5, <2>6
<1>3. QED BY <1>1, <1>2 DEF StartsAsBuilt

(* Whatever was in memory before, and however often the machine was reset  *)
(* or a read failed: stage 1 runs with its text and, from main on, with the*)
(* data, the zeros and the drive it was built to start with.               *)
THEOREM BootsAsBuilt == Spec => []StartsAsBuilt
<1>1. Init => Progress
  BY DEF Init, Progress, Loading, Stage1
<1>2. Progress /\ [Next]_vars => Progress'
  BY ReadStep, RelocateStep, SaveDriveStep, OtherStep
<1>3. QED
  BY <1>1, <1>2, ProgressMeans, PTL DEF Spec
-----------------------------------------------------------------------------
(* A machine that also fills the multiboot header boots as one that does   *)
(* not: what is proved of Boot holds of Startup.                           *)
LEMMA StartupStep == [StartupNext]_<<vars, mvars>> => [Next]_vars
BY DEF StartupNext, Next, Runs

THEOREM StartupIsABoot == StartupSpec => Spec
BY StartupStep, PTL DEF StartupSpec, Spec, StartupInit

-----------------------------------------------------------------------------
LEMMA LeastElement ==
  ASSUME NEW S, S \subseteq Nat, S # {}
  PROVE  Min(S) \in S
<1> DEFINE R == {ss \in Nat \X Nat : ss[1] < ss[2]}
<1>1. IsWellFoundedOn(R, Nat)
  BY NatLessThanWellFounded DEF OpToRel
<1>2. PICK m \in S : \A i \in S : ~ (<<i, m>> \in R)
  <2> HIDE DEF R
  <2> QED BY <1>1, WFMin
<1>3. ASSUME NEW i \in S PROVE m <= i
  <2> SUFFICES ASSUME ~ (m <= i) PROVE FALSE
    OBVIOUS
  <2>1. <<i, m>> \in R
    OBVIOUS
  <2> HIDE DEF R
  <2> QED BY <1>2, <2>1
<1> QED BY <1>3 DEF Min

(* The loop over the partition table ends at the first bootable one.       *)
LEMMA FirstPartition ==
  ASSUME NEW b \in Seq(BOOLEAN)
  PROVE  LET first == SelectInSeq(b, LAMBDA x : x)
         IN BootPartition(b) = IF first = 0 THEN MULTIBOOT_INFO_UNUSED_PARTITION
                               ELSE first - 1
<1>. DEFINE marked == {i \in DOMAIN b : b[i]}
<1>1. marked = {i \in 1..Len(b) : b[i]} /\ marked \subseteq Nat \ {0}
  OBVIOUS
<1>2. SelectInSeq(b, LAMBDA x : x) = IF marked # {} THEN Min(marked) ELSE 0
  BY <1>1 DEF SelectInSeq
<1>3. marked # {} => Min(marked) # 0
  BY <1>1, LeastElement
<1>. QED
  BY <1>2, <1>3 DEF BootPartition

(* The drive the machine was booted from stays in memory from main on.     *)
DriveKept ==
  pc \in {"main", "idt_init", "sti", "shell", "bios"} => mem[boot_drive_nb] = dl

LEMMA DriveStep == ASSUME Progress, DriveKept, [Next]_vars PROVE DriveKept'
<1> USE DEF DriveKept, tables, boot_drive_nb
<1>1. CASE SaveDrive
  <2>1. DataBase + DataSize \in DOMAIN mem
    BY Sizes DEF Progress, Addresses, data_sections_size
  <2>. QED
    BY <1>1, <2>1 DEF SaveDrive
<1>2. ASSUME NEW a \in Variables, WriteData(a) PROVE DriveKept'
  BY <1>2 DEF WriteData, Variables
<1>3. CASE GdtInit \/ IdtInit \/ Sti \/ Int32Enter \/ Int32Return
  BY <1>3 DEF GdtInit, IdtInit, Sti, Int32Enter, Int32Return
<1>4. CASE InitRegisters \/ DriveReset \/ A20GateEnable \/ SwitchToProtectedMode
             \/ FatalError \/ Reset
  BY <1>4 DEF InitRegisters, DriveReset, A20GateEnable, SwitchToProtectedMode,
              FatalError, Reset, Bootstrap, Succeeds, Fails
<1>5. CASE ReadP1 \/ ReadP2
  BY <1>5 DEF ReadP1, ReadP2, Read, Succeeds, Fails
<1>6. CASE Relocate
  BY <1>6 DEF Relocate
<1>7. CASE UNCHANGED vars
  BY <1>7 DEF vars
<1>. QED
  BY <1>1, <1>2, <1>3, <1>4, <1>5, <1>6, <1>7 DEF Next, Boots, Runs

(* The header at any step of multiboot_fill_header: the partition is that  *)
(* of hda once its boot sector was read in this call, and unused before;   *)
(* the memory above 1 MB is as it was zeroed, or true, and true when the   *)
(* BIOS told it in this call.                                              *)
PartitionOfHda ==
  /\ step # "none" /\ "mbr" \notin told =>
       multiboot_header.part1 = MULTIBOOT_INFO_UNUSED_PARTITION
  /\ "mbr" \in told =>
       /\ hda \in DOMAIN machine.bootable
       /\ multiboot_header.part1 = BootPartition(machine.bootable[hda])

UpperMemory ==
  \/ multiboot_header.mem_upper = machine.upper
  \/ "e801" \notin told /\ multiboot_header.mem_upper = 0

Header ==
  /\ machine \in Machines
  /\ DOMAIN multiboot_header = {"drive", "part1", "mem_lower", "mem_upper", "mmap_length"}
  /\ step # "none" => pc \in {"shell", "bios"} /\ multiboot_header.drive = dl
  /\ PartitionOfHda /\ UpperMemory

LEMMA HeaderMeans == Header => HeaderIsTrue
<1>. SUFFICES ASSUME Header, step = "filled" PROVE HeaderIsTrue
  BY DEF HeaderIsTrue
<1>. DEFINE first == SelectInSeq(machine.bootable[dl], LAMBDA b : b)
<1>1. multiboot_header.drive = dl
  BY DEF Header
<1>2. ASSUME dl = hda, "mbr" \in told
      PROVE  multiboot_header.part1 =
               IF first = 0 THEN MULTIBOOT_INFO_UNUSED_PARTITION ELSE first - 1
  <2>1. machine.bootable[dl] \in Seq(BOOLEAN)
    BY <1>2, MultibootAssumption DEF Header, PartitionOfHda
  <2>2. BootPartition(machine.bootable[dl]) =
          IF first = 0 THEN MULTIBOOT_INFO_UNUSED_PARTITION ELSE first - 1
    BY <2>1, FirstPartition
  <2>. QED BY <1>2, <2>2 DEF Header, PartitionOfHda
<1>3. "mbr" \notin told => multiboot_header.part1 = MULTIBOOT_INFO_UNUSED_PARTITION
  BY DEF Header, PartitionOfHda
<1>. HIDE DEF first
<1>4. dl = hda =>
        multiboot_header.part1 = IF "mbr" \notin told \/ first = 0
                                   THEN MULTIBOOT_INFO_UNUSED_PARTITION ELSE first - 1
  BY <1>2, <1>3
<1>5. UpperMemory
  BY DEF Header
<1>. QED BY <1>1, <1>4, <1>5 DEF HeaderIsTrue, UpperMemory, first

LEMMA HeaderStep ==
  ASSUME Header, DriveKept, [StartupNext]_<<vars, mvars>>
  PROVE  Header'
<1>. DEFINE h == multiboot_header
<1>1. ASSUME UNCHANGED mvars, Boots \/ (\E a \in Variables : WriteData(a))
                               \/ Int32Enter \/ Int32Return \/ UNCHANGED vars
      PROVE  Header'
  <2>1. PartitionOfHda'
    BY <1>1 DEF Header, PartitionOfHda, mvars
  <2>2. UpperMemory'
    BY <1>1 DEF Header, UpperMemory, mvars
  <2>3. step # "none" => pc' \in {"shell", "bios"} /\ dl' = dl
    BY <1>1 DEF Header, Boots, InitRegisters, DriveReset, ReadP1, ReadP2, A20GateEnable,
                SwitchToProtectedMode, FatalError, Relocate, SaveDrive, GdtInit, IdtInit,
                Sti, WriteData, Int32Enter, Int32Return, vars
  <2>. QED
    BY <1>1, <2>1, <2>2, <2>3 DEF Header, mvars
<1>2. CASE Int32Return /\ MbrGet
  BY <1>2 DEF MbrGet, Header, PartitionOfHda, UpperMemory, Sets, Keeps, Int32Return
<1>3. CASE Int32Return /\ Int12DetectLowerMem
  BY <1>3 DEF Int12DetectLowerMem, Header, PartitionOfHda, UpperMemory, Sets, Keeps, Int32Return
<1>4. CASE Int32Return /\ E801DetectUpperMem
  <2>1. ASSUME NEW r \in E801Answers
        PROVE  (IF r[1] # 0 \/ r[2] # 0 THEN r[1] ELSE r[3]) = machine.upper
    BY MultibootAssumption DEF E801Answers, Header
  <2>2. \/ Sets("mem_upper", machine.upper, "e820") /\ told' = told \cup {"e801"}
        \/ Keeps("e820")
    BY <1>4, <2>1 DEF E801DetectUpperMem
  <2>. QED
    BY <1>4, <2>2 DEF E801DetectUpperMem, Header, PartitionOfHda, UpperMemory, Sets, Keeps, Int32Return
<1>5. CASE UNCHANGED vars /\ E820DetectMem
  BY <1>5 DEF E820DetectMem, Header, PartitionOfHda, UpperMemory, Sets, vars
<1>6. CASE pc = "shell" /\ UNCHANGED vars /\ FillHeader(mem[boot_drive_nb])
  BY <1>6 DEF FillHeader, DriveKept, Header, PartitionOfHda, UpperMemory, vars
<1>7. CASE Reset /\ MReset
  BY <1>7 DEF Reset, Bootstrap, MReset, Zeroed, Header, PartitionOfHda, UpperMemory
<1>. QED
  BY <1>1, <1>2, <1>3, <1>4, <1>5, <1>6, <1>7 DEF StartupNext, AsksBios, NotAsking,
     vars, mvars

(* After every call the header names the drive of this boot; of a machine  *)
(* booted from hda it gives that drive's first bootable partition, or none *)
(* when its boot sector was not read; and the memory above 1 MB it reports *)
(* is the machine's or 0; whatever was answered, before and after resets.  *)
THEOREM HeaderStaysTrue == StartupSpec => []HeaderIsTrue
<1>1. StartupInit => Progress /\ DriveKept /\ Header
  BY DEF StartupInit, Init, MInit, Progress, DriveKept, Header, PartitionOfHda, UpperMemory, Zeroed,
         Loading, Stage1
<1>2. Progress /\ [StartupNext]_<<vars, mvars>> => Progress'
  BY StartupStep, ReadStep, RelocateStep, SaveDriveStep, OtherStep
<1>3. Progress /\ DriveKept /\ [StartupNext]_<<vars, mvars>> => DriveKept'
  BY StartupStep, DriveStep
<1>4. Header /\ DriveKept /\ [StartupNext]_<<vars, mvars>> => Header'
  BY HeaderStep
<1>. QED
  BY <1>1, <1>2, <1>3, <1>4, HeaderMeans, PTL DEF StartupSpec
=============================================================================
