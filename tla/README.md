# Verification of simple-x86-bootloader

TLA+ models of the bootloader, from its boot sector to its shell and its library,
the runs that check them with TLC, and theorems about them that TLAPS proves. The models follow the sources
under `src/` in the build `project.config` selects: protected mode with the
loader's own drivers (`BOOTLOADER_PROTECTED_MODE_ENABLED`, `PM_DRIVERS`,
`DEBUG`), compiled for i386 without optimisation, assertions on.

1. [The system](#1-the-system)
2. [What is modelled, and how](#2-what-is-modelled-and-how)
3. [The runs](#3-the-runs)
4. [Fairness](#4-fairness)
5. [The proofs](#5-the-proofs)
6. [What the checks found](#6-what-the-checks-found)
7. [What is not modelled](#7-what-is-not-modelled)
8. [Plan](#8-plan)

## 1. The system

The boot sector loads 120 sectors, enters protected mode and jumps to
`bootstrap.S`, which moves the data and calls `main`. `main` initialises the
terminal and the hardware, then runs the shell for ever. There is one thread of
control; what makes the system hard is what surrounds it: interrupt handlers
that run between any two of its instructions and share variables with it, calls
of the BIOS that leave protected mode and come back, devices that refuse or
answer late, and C arithmetic that wraps.

| component | state | operations | interacts with |
|---|---|---|---|
| heap allocator (`libc/stdlib/alloc.c`, `common/sys/heap.c`) | the list of nodes inside the arena | `heap_init`, `malloc`, `calloc`, `realloc`, `free` | called by the block devices and by multiboot; `memcpy`, `panic` |
| block devices (`common/dev.c`, `block_dev.c`, `hd_drv.c`, `mbr.c`, `lib/disk.c`) | the table of devices: status, geometry; the blocks allocated | `hd_open`, `hd_read`, `mbr_get`, `mbr_destroy` | heap, keyboard (a key before the read), BIOS |
| keyboard and input (`lib/keyboard.c`, `lib/input.c`) | modifiers, locks, one character and its flag | `isr_keyboard_int`, `input_get_char` and its software interrupt | interrupts; called by line input |
| clock and software timer (`lib/clock.c`, `lib/timer.c.h`, `common/sys/time.c`) | the time, the one timer | `isr_clock_int`, `clock_gettime`, `timer_wind`, `timer_start`, `timer_rewind`, `timer_disarm`, `isr_timer_int` | interrupts; called by the shell |
| interrupts (`lib/pic_8259A.c`, `idt.c`, `hal.c`, `isr_wrappers.S`, `int32.asm`) | the two controllers, the IDT, the interrupt flag, the processor's mode | `hal_init`, the wrappers, `hal_geninterrupt`, `int32` | everything that has a handler or calls the BIOS |
| terminal and screen (`lib/tty.c`, `vga.c`) | row, column, the screen | `tty_putchar`, `tty_clearscreen`, scrolling | called by all output |
| line input and shell (`libc/stdio/basic_in.c`, `shell/`) | the line, the arguments | `getdelim`, `shell_split_line`, `shell_execute`, five commands | keyboard, terminal, interrupts, clock |
| multiboot information (`common/multiboot.c`, `lib/e820.c`, `e801.c`, `int12.c`) | the header to hand to a kernel | `multiboot_fill_header`, three memory probes | block devices, heap, BIOS |
| boot sector and bootstrap (`boot0/boot0.S`, `bootstrap.S`, the linker script) | memory, the processor's mode, the tables in use | one pass, with an exit on errors; a reset starts it again | BIOS, `main`, `int32` |
| segment descriptors (`lib/gdt.c`, `cpu.c`) | the descriptor tables | `i86_gdt_init` | boot sector, interrupts, `int32` |
| conversions and formatted output (`libc/stdio/printf.c`, `sprintf.c`, `libc/string/nb_to_str.c`, `str_to_nb.c`, `libc/ctype`) | what a call has printed so far | `vprintf`, `vsprintf`, numbers to text and back | terminal; called by everything that prints, and by the `int` command |
| strings and memory (`libc/string`) | none | copies, searches | called by the others |
| intrusive lists (`include/utils/list.h`) | the fields of the nodes | every function and loop macro of lists and hlists | none yet: no file includes it |
| PIT, files, real mode build, BIOS video, disk tools, sample kernel | little or none | single writes, stubs | - |

What is hard in each, and what makes it correct:

* **Heap.** Splitting and merging in any order of calls; pointer subtraction
  between nodes at odd distances; a `realloc` whose inner `malloc` fails. Correct
  when the list survives, blocks are apart and backed, nothing is forgotten,
  and every loop over the list ends.
* **Block devices.** Reads cut at track boundaries, retried, refused or partial;
  a geometry that the BIOS misreports; allocations to undo on every error path.
  Correct when exactly the sectors asked for are fetched, nothing leaks and
  nothing is divided by zero.
* **Keyboard and input.** The handler replaces the one character between any two
  steps of its reader; the reader tests a flag and then halts. Correct when
  characters are those meant, in order, never repeated, and the reader never
  sleeps on one.
* **Clock and timer.** The clock changes fields that the timer's loop and
  `clock_gettime` read one at a time. Correct when no timer expires early, every
  wait ends, and times are times that were.
* **Terminal, line input and shell.** A cursor kept inside the screen by tests
  for equality; a backspace that crosses a line; a buffer filled to its last
  byte; a line split in place. Correct when the screen shows the line the buffer
  holds, every string ends inside it and a command gets the words of the line.
* **Interrupts.** Vectors, IDT and mode change one after the other; handlers
  called by hand; ends of interrupt given for another line; requests lost when a
  controller is reset. Correct when a line reaches its own handler, is released
  by it, handlers do not nest, and the clock is served.

* **Boot and multiboot.** A read that fails after some sectors; memory that
  keeps what an earlier boot or the program left in it; data copied over tables
  that are loaded; a header filled by probes that may each fail, and filled
  twice. Correct when `main` starts with what the linker laid out, no table is
  used after it was overwritten, and the header is true.
* **Library.** Lists relinked pointer by pointer, with loops whose body removes
  what the cursor is on; widths and numbers that wrap; copies that overlap.
  Correct when every call does to the sequence, the text or the bytes what its
  name says.

`PROJECT.json` lists these hazards at the line where it bites, with the
properties that watch it or the reason why none does.

## 2. What is modelled, and how

Each component has a module with its state and actions (`X`), one with its
properties (`XProps`), one with the proofs (`XProofs`) and one that gives TLC
small constants (`MCX`). A definition that stands for code keeps the code's name
where there is one. Definitions called `...Mutant` are plausible wrong versions
of the definition whose name they start with; no specification uses them, they
serve to show that a property notices the mistake.

### Heap: `Heap`, `HeapAbstract`

`nodes` is the list of `heap_node_t`, as a function from addresses; `live`, a
history, holds the blocks a client owns with the bytes it asked for. The loops
of `malloc`, `realloc` and `free` are modelled an iteration at a time, with the
cursors of the code (`cur`, `prev`), so that termination is a property and not
an assumption. `realloc` calls `malloc` and `free`, as in the code. Clients may
free a block twice, free `NULL` or a corrupted pointer. The subtraction of node
pointers at distances that are no multiple of 12 is undefined in C: the model
chooses between the exact division compilers emit and a truncating one.
`HeapAbstract` is what `stdlib.h` promises, blocks that are apart and in the
arena, and `Heap` implements it with `blocks <- live`.

### Block devices: `Geometry`, `HardDisk`

`Geometry` has the conversions between linear sectors, cylinder/head/sector and
the registers of the BIOS, with the widths of their fields. `HardDisk` has the
table of `dev.c`, `hd_open`, `hd_read` and `mbr_get`: each `malloc`, each call of
the BIOS and each pass of the loop is a step. The BIOS may refuse a reset, a
geometry (with or without garbage left in the registers) and any read, or read a
part. `disk_read_sectors` takes AL for the number of sectors read and does not look
at the carry flag; after a read that failed, AL may hold that number, the number
asked for, which it held before the call, or one of `ErrorCounts` (`CountsTold`). A
sector that is copied without having been read is `Stale`, what stood in the segment
before. `overstated`, a history, says that AL told of more sectors than were read
in this call of `hd_read`. Sectors are their numbers, so a buffer is a sequence of
numbers. The key `mbr_get` waits for is the user's step (`User`), not the driver's.

### Keyboard and input: `KeyTable`, `KeyboardInput`, `KeyChannel`

The user presses, repeats and releases keys; the controller holds scan codes;
`isr_keyboard_int` is one action, since it runs with interrupts off;
`input_get_char` and `isr_kbd_getinput_int` are cut at every access to the
shared variables, and the handler may run between any two, except before `sti`.
`hlt` is a state that any interrupt ends. `KeyTable` is the table of the driver
with its missing rows; a read beyond the table may find anything. Every press
has a number, carried along as a history. A user is hasty or patient: a patient
one waits for a character before the next key. `KeyChannel` is the abstract
one-place channel: it may lose a keystroke and does nothing worse.

### Clock and timer: `ClockTimer`

`isr_clock_int` is one action. The program is cut at every access to a field the
clock changes; 64-bit fields are read in one step, as their upper half never
changes in 136 years. The handler a client gives to a timer may disarm, rewind
or wind it, in any order, or be `NULL`, as `sleep` passes it. Times are in units
of a `Tick`; seconds stop at `MaxSec`.

### Interrupts: `Interrupts`

Both 8259A with their masks, requests and lines in service, priorities and the
cascade; the IDT as the set of vectors whose handler was replaced; the
processor's flag and mode; and the stack of handlers. A gate clears the flag,
`iret` restores it. `hal_init` is a step per call. A handler is a few steps:
its C function, its end of interrupt, its return; the two handlers that wait
enable interrupts first. The shell calls any handler by hand. `int32` is cut
where the controllers, the mode or the flag change. A pending request is taken
before the next instruction, so a step of the program has `~Interrupted` as a
guard. ICW1 clears masks, requests and lines in service, as the 8259A does. The
handlers of the BIOS are assumed to end their interrupts and to keep interrupts
disabled; spurious requests do not occur.

### Terminal and shell: `Console`, `Shell`

`Console` has the cursor and the cells of the screen; a step prints the
character at the head of `out`, and a tab puts its spaces there, as `tty_putchar`
calls itself. Additions to `column` wrap like `size_t`; a cell outside the screen
is written and not followed. `Shell` is the loop of `main` over `shell_main`: a
key per step in `getdelim`, with its echo in `out`; an argument per step in
`shell_split_line`; then the command. Arguments are places in `line`, and `line`
is cut in place, as in the code. A step of the shell waits until `out` is empty,
since printing returns before anything else is done. When an argument is stored
behind the array the model stops: what it overwrites is the compiler's choice.
`Typable` may hold any character `getc` returns: F10 gives a line feed, F7 a bell.
`strayed`, a history, says that a line feed found the cursor behind the last
column; `plain`, that the keys since the prompt are ones the screen can show;
`entered` keeps the line as it was before it was cut.

### Boot and multiboot: `Boot`, `Multiboot`, `Startup`

`Boot` has memory as a function from addresses to units, small sizes for the
sectors and sections, and the assertion of the linker script and the distances of
`config_mem.h` as its assumption. The image's units are numbered, so that memory
tells where each came from; `Junk` is memory nobody has written or the program
has. A step is a part of `boot0.S` between two of its labels, a dword of the loop
of `bootstrap.S`, a table that `hal_init` loads, or one side of `int32`. A read
may fail after any number of sectors. A reset, by the user, by a fault or by
`int 0x19`, may come before any step and keeps the memory. `intact` is the set of
descriptor tables whose bytes have not been written over. After a reset the
BIOS has loaded the boot sector again. `Multiboot` is `multiboot_fill_header`, a
block per step, for the fields of the header it writes; `told`, a history, says
which probes were answered. `Startup` composes the two: a block that asks the
BIOS does so inside `int32`, and the drive number is read from the memory of
`Boot`. The boot flags are a table for each drive, and `hda` is the drive
behind that name, whose table the code reads whatever it booted from. No caller of `multiboot_fill_header` exists yet; a caller is taken to be
the program after the prompt, and may call again.

### Library: `Lists`, `Hlists`, `ListsAbstract`, `Libc`

`Lists` has the fields `next` and `prev` of all nodes in a record; a C function is
an operator on it, with its assignments in the order of the code, and an action
that calls it with the arguments its comment allows. A loop macro is a cursor, and
its body looks, removes or moves the entry where the macro allows it. `live` are
the nodes whose fields mean something. `Hlists` is the same for the lists with a
single-pointer head, with `pprev` an address. `ListsAbstract` has lists as
sequences; `EveryCallKeepsItsPromise` says that each call is the step of that name
on the sequences the pointers spell. `Libc` has the conversions as operators on
sequences of character codes, and `vprintf` and `vsprintf`, which are the same
loop twice, a directive per step. `Word` and `LongWord` are where `unsigned` and
`uint64_t` wrap, 2^32 and 2^64 in the code. `LibcAssumption` and `PrintfAssumption`
say which calls the program may make: numbers of the width and bases the assertions
let through, copies inside the memory there is, any text for the `int` command, and
formats of directives whose arguments have their types. What a directive means,
`MeaningOf` in `LibcProps`, is defined without the operators of the code: `Numeral`
takes the figures of a number from its quotients by the powers of the base.

### How the parts fit

`KeyboardInput` and `ClockTimer` take from `Interrupts` that a handler runs
whole and is entered only with interrupts enabled; `HandlersDoNotNest` and
`RightHandler` are what justifies it, and are proved. `HardDisk` takes from
`Heap` that an allocation succeeds or ends in an assertion; its history counts
are what `NoLeak` compares. `Boot` ends where `Interrupts` begins: from `hal_init`
on, vectors and masks are followed there and the tables in `Boot`; `TablesInUse`
is what lets `Interrupts` take the IDT for granted on both sides of `int32`.

## 3. The runs

| run | shows | constants |
|---|---|---|
| `heap` | list, blocks and merging survive every sequence of calls; calls return; `Heap` implements `HeapAbstract` | an arena of 52 bytes, which holds three nodes, sizes 0, 5 and 17 that leave unaligned gaps, a `calloc` |
| `hard_disk` | no leak, no division by zero, calls end; and, as long as AL overstates no read, the boot sector is sector 0 and every sector asked for comes in order and within a track and the disk | 600 cylinders, so that CX needs its upper bits; three wrong geometries; partial reads of single sectors; requests within a track, of whole tracks, cut in even chunks, and beyond the disk; after a failed read AL holds what was read, what was asked for, or 0; two boot sectors held; names with and without driver |
| `hard_disk_buffer` | refutes `BufferHoldsRequest` | two tracks |
| `keyboard` | meaning, no lost wake-up; implements `KeyChannel` | a letter, both Shifts, Caps Lock, and Delete, which the table has no row for; 3 presses, 2 codes waiting |
| `clock` | never early, every wait ends, a one-shot timer returns | two tics a second, durations below a second, across one, and with a second in the nanoseconds |
| `clock_gettime` | refutes `GivesCurrentTime` | three tics a second |
| `interrupts` | no nesting, lines released, right handler, clock served | five devices on both controllers, seven vectors of every kind |
| `interrupts_bios` | refutes `PicsRestored` | the same |
| `shell` | the screen shows the line, the row stays on it, strings end, arguments are the words | a screen of two rows of three, so that a line of five crosses rows and scrolls; two arguments; a letter, a space, a line feed, a bell |
| `shell_args` | refutes `ArgvHoldsArguments` | a line of six, letters and spaces |
| `library` | rings and hlists stay intact in the middle of loops, every call does what its name says; formats print what they mean, numbers read back, copies survive overlap | two lists of three entries, two hlists of three nodes; every directive with widths 0, 1, 3 and 9, alone and in pairs; every number of nine bits in bases 2 to 16; every interrupt and six texts that are none; every copy in seven bytes |
| `startup` | `main` starts as built, no overwritten table is used, the header is true, booting ends | sectors of four units and dwords of two, a data section that is no multiple of a dword and ends in the last sector; two drives; machines with and without an upper memory the header may report |

The bounds are the constants and nothing else is cut off, but that a terminal
whose cursor has left the screen stops at `MaxRow`, and that `ErrorCounts` holds
only 0: a number in AL above what is left of the request makes `count` wrap, after
which the loop reads on for up to 2^32 sectors and no property says anything. They are enough for
the cases the properties are about: three nodes are the least with a merge on
both sides; a second key must arrive while the first waits and a third after
it; a wait must cross a second; a slave's line, a line above and a line below
the cascade must compete; a list of three entries has a first, an inner and a last
one; an image of three sectors has a last one that is only partly data, in the
second part. The families of `library` share no memory, so a behaviour uses one of
them; lists are checked up to a renaming of nodes. What the proofs cover they cover for every value.

`interrupts` and `interrupts_bios` do not check for deadlock: an exception's
handler panics, and the machine then stops with interrupts disabled, as the code
means it to. `shell` and `shell_args` do not either: a reboot, an argument behind
the array and `MaxRow` end the model. In `library` a call of `Libc` is a behaviour
of its own, which ends.

Some properties except a case that the code does not handle, and say so in
their comment: `NeverEarly` leaves out durations of a second or more written in
nanoseconds and a timer rewound while it runs; `CharIsMeant` leaves out locks,
keys without a row of their own in the table and the use of both Shift keys; `RowOnScreen` leaves out what follows a line feed from
behind the last column, and `LineShown` keys that are not drawn and a backspace
in the first column; `ReadsWhereAsked` and `FetchesRequest` are for requests whose
last chunk is as large as the one before it or the only one (`ComesOutEven`), and are
silent while the geometry is not the drive's; these two and `BootSectorIsSectorZero`
leave out the calls of `hd_read` in which AL told of more sectors than were read;
`FormattedAsMeant` leaves out `%b` of 2 and more, zeros that fill a negative number,
numbers longer than their width and widths of several digits (`Fits`);
`NumbersReadBack` says nothing of texts the `int` command takes for numbers although
they are none; `HeaderIsTrue` says nothing of the boot partition of a drive other
than `hda`; `LinesReleased` leaves out the cascade line and the second controller.

## 4. Fairness

* `Heap`, `HardDisk`: the function that runs goes on (weak fairness of its
  steps): no code between a call and its return waits, but for the key of `mbr_get`,
  which is the user's and for which no fairness is assumed: `CallEnds` says that a
  call ends or waits for its key. It needs that a disk that is asked again and
  again in the end reads what it is asked (strong fairness of `Attempt(nb, nb)`):
  `hd_read` has no other way out of its loop.
* `KeyboardInput`: the reader runs, a raised interrupt is delivered, the clock
  ticks. The user may stop typing at any time.
* `ClockTimer`: the clock ticks, the processor executes, and a timer's handler
  returns. The last is strong fairness, as a handler may rewind its timer any
  number of times before it does.
* `Interrupts`: the processor executes. Devices may stop requesting. The
  program's choice among its actions needs no fairness: `ClockServed` holds
  because a request goes before the next instruction of the program.
* `Boot`: the processor goes on and the BIOS answers the boot sector (weak
  fairness of `Boots`). Resets need not stop; `BootEnds` is about behaviours in
  which they do. The program owes nothing after the prompt.

## 5. The proofs

All theorems hold for every value of the constants that the `ASSUME` of the
module allows. Each follows from an inductive invariant `IInv`, with `Init =>
IInv`, `IInv /\ [Next]_vars => IInv'` by one step per action, and `IInv` implying
the property. TLC checked each invariant before it was proved; the runs keep the
properties, not the invariants that the theorems make redundant.

* **Heap** (`HeapProofs`): `TypeOK`, the list intact, free nodes merged, blocks
  backed and apart, no block forgotten, the copy of `realloc` fits, searches are
  exact, the double-free panic hits only stale pointers, and the refinement of
  `HeapAbstract`. `IInv` adds to them the meaning of the cursors in every state
  of a call (`Control`). The lemmas about `Absorb`, `Split` and `Released` show
  that a list operation keeps the list intact; they carry most of the work. The
  theorems assume that no `calloc` product wraps (`NoCallocWrap`): for one that
  does, `Backed` is false, because `calloc` then returns a smaller block.
* **Block devices** (`HardDiskProofs`): the conversions of sector numbers are
  exact for every geometry and the packing of CX loses nothing; `TypeOK`,
  `NoLeak`, `BootSectorIsSectorZero` (for an AL that overstates no read), `NoDivisionByZero`. `IInv` adds where the
  geometry comes from (`DevicesInv`) and what the loop holds while `mbr_get`
  runs (`BootInv`). `ReadsWhereAsked` and `FetchesRequest` assume of the constants
  that the requests come out even (`EvenRequests`): those that fit the disk have no
  chunk larger than the rest, no sum of place and length wraps, and a read that
  fails after some sectors was of a single one. `MCHardDisk` has TLC evaluate that for both
  configurations. `FetchInv` then says that the loop is on course at each chunk: what is
  fetched is what stands before `lba`, and what is left comes out even; `EvenStep`
  carries that over a chunk, read or refused.
* **Keyboard** (`KeyboardInputProofs`): `TypeOK`, `InOrder`, the flag tells the
  truth (`FlagIsTrue`), and the refinement of `KeyChannel`. `IInv` orders the
  presses along the way: what was returned, what the reader holds, the slot, the
  queue. `CharIsMeant` rests on `Meaning`, which compares the Shift the user held
  at a press with the one the driver will have once it has handled the codes that
  wait before that press (`ShiftAfter`), and the user's Shift now with the driver's
  after the whole queue. An answer of the keyboard, read beyond the table, could
  clear the driver's Shift; those of `keyboard_init` come before all other codes.
* **Clock and timer** (`ClockTimerProofs`): `TypeOK`, `NeverEarly`,
  `WaitsRunning`. `IInv` says that the time counted since the timer was reset is
  the number of tics (`Counted`), for which the equality that detects a full
  second must never be missed, and that the first test of the seconds still
  holds at the second (`PastSec`), for the clock only moves forward.
* **Interrupts** (`InterruptsProofs`): `TypeOK`, `HandlersDoNotNest`,
  `LinesReleased`, `RightHandler`. `IInv` bounds the stack to two handlers, of
  which the lower waits; ties flag, mode, vectors and IDT to the place in the
  program; and says that the line in service at the first controller is the
  innermost handler's and that nothing is in service before it, so that the
  unspecific end of interrupt ends that line. It needs that a line of the second
  controller, whose default handler ends nothing, does not come between.

* **Terminal and shell** (`ShellProofs`): `TypeOK`, `RowOnScreen`,
  `StringsEnd`, `ArgumentsAreWords`, `LineShown`. `RowOnScreen` is inductive by itself, over
  the types. For the arguments, `Scanning` says what holds while the line is
  split: from the last argument on it is as entered and has an end, before it
  the words found are all there are, and each ends at its word; `Scanned` is
  what is left when no space remains. That the last word ends at the first NUL
  needs the least element of a set of numbers, from the well-foundedness of
  `Nat`. For `LineShown`, `ShownInv` counts the cursor from the first cell on, so that
  a scroll moves cursor and cells back by a row, and says how much of the line is
  shown while an echo is on its way: one character less than the line has, or, for a
  backspace, one more.

* **Boot** (`BootProofs`): `StartsAsBuilt` and `TablesInUse`, for every size of the
  image, of its sections, of a sector and of a dword that the layout allows. The
  invariant of the first, `Progress`, says for each place in the boot which part
  of the image is in memory: nothing before the reads, the first part between
  them, the text and the copied part of the data after them. That the two reads
  meet without a gap is where `P1NbSectors = SectorsPerTrack - 1` is needed, and
  that the copy does not run over its source is where the distance of
  `DATA_BASE_OFFSET` is. The second is `Tables`, which ties `gdtr`, `idtr`, the
  mode and the flag to the place. `Startup` implements `Boot` (`StartupIsABoot`), so
  both hold there, and with them `HeaderIsTrue` is proved of `Startup`: `Header` says of
  each field, at every block, that it is empty or true, and `DriveKept`
  that the variable in memory holds the drive while the program runs. That the first
  bootable partition is the one the loop finds needs the least element of a set of
  numbers.
* **Library** (`LibraryProofs`). What a list or a format holds is defined by
  recursion or over its length, so that these proofs are inductions over data. The
  induction theorems of the library take an operator, which no prover here can
  instantiate; in their place stand `LeastElement` (from the well-foundedness of
  `Nat`) and, from it, `Ascending` and `Descending`: a set of numbers that has the
  first and with each the next has them all. A recursive function is a `CHOOSE`, of
  which nothing is known until a function that satisfies its equation is shown to
  exist; `LowExists`, `SumExists` and `FollowFinds` show that, and then an
  induction says what the function computes.
  * *Rings and pointers*: `RingsIntact`, for any number of heads and entries.
    The lemmas say for each C function that it leaves intact rings behind when it
    was given some; the splice and the cut are the ones where two rings are joined
    or parted, and where the order of the writes matters. `HlistsIntact` likewise,
    from `Linked`, with cases on the kind of pointer a `pprev` names: a head's or a
    node's.
  * *What the calls do*: `EveryCallKeepsItsPromise`. `Holds` says that the
    nodes form rings and that each ring spells, from its head back to it, a sequence of
    entries, each met once (`Chained`); that no two lists share a node follows
    (`OwnedApart`), and `Chain` finds the sequence that is chained (`ChainFinds`).
    A lemma per kind of change says what sequences the new pointers spell: an entry
    inserted, removed or replaced, a list with another head, cut or spliced. The
    invariant `ListInv` is `Holds` of what `EntriesOf` reads from memory.
    `EveryHlistCallKeepsItsPromise` goes the same way, from `HHolds`, with `NULL` for
    the end of a list and `pprev` for the way back.
  * *What the loops meet*: `LoopsSeeEveryEntry`. `WalkInv` says that a loop stands at
    some place of its list: before it are the entries met, from it on those still
    due, in the list's order (`Ahead`); a safe loop has its next entry in hand, which
    its body leaves in the list. A loop backwards is a loop forwards in the memory
    with `next` and `prev` exchanged (`View`). `HWalkInv` is that of hlists.
  * *Copies*: `CopiesSurviveOverlap`, by induction over the bytes copied: what is
    still to be read has not been written, if the direction is the right one.
  * *Numbers*: `NumbersReadBack`. `Spells` says that a text is the digits of a number
    and with what remainders; `WritesNumber` that `uinttostring` writes such a text,
    `ReadsNumber` that `strtoull` reads it, each by induction over the digits. The
    least negative number needs the wrap of `-nb`. For the `int` command: what it is
    given in decimal or hexadecimal it raises (`IntMeant`), what its check sees to
    be no number it refuses (`IntRefused`).
  * *Formats*: `FormattedAsMeant`. `WrittenAt` and `DirectiveIs` say that a directive,
    written as it is meant, is read as such, whatever follows it; `GatheredAt` where
    it stands in a format of many. `FormatInv` says between two turns of the loop
    that some number of directives has been read, each to its end: the position,
    the arguments taken and what was printed and written are theirs. It is about
    formats whose widths have one digit, for the digits of a longer one are added
    up; that the numbers fit is needed only for what is printed. `NumeralIs` says that
    `uinttostring` writes the numeral of every number in every base: the quotients it
    takes one after the other are those by the powers of the base
    (`SpellsQuotients`), and the first power above the number gives the length, since
    it writes no zero in front. `NumberIs` and `ZerosAre` add the sign and the zeros.

Left to TLC: the liveness properties (`CallReturns`, `CallEnds`, `SlotIsEmptied`,
`PatientLosesNothing`, `Expires`, `OneShotReturns`, `ClockServed`, `BootEnds`), since
TLAPS does not reason about fairness or `ENABLED`; and the four refutations of section
6. Every other property of a run is proved.

## 6. What the checks found

Four runs refute what a comment, header or assertion says:

* `hard_disk_buffer`: every chunk is copied to the start of the caller's buffer
  (`hd_drv.c:149`).
* `clock_gettime`: a tic between its two reads gives a time almost a second old
  (`clock.c:60`).
* `interrupts_bios`: a BIOS call leaves the controllers with other vectors and
  masks than it found (`int32.asm:122`).
* `shell_args`: the test that bounds the arguments lets one too many in
  (`shell.c:23`).

Met while modelling, without a run of its own; the models contain what they can of
it, and the properties state what holds in spite of it:

* `disk_read_sectors` ignores the carry flag and believes AL (`disk.c:122`): a read
  that fails and leaves AL as it was passed counts as complete, and `mbr_get`, which
  is to "Read the first sector of the device" (`mbr.c:39`), returns whatever stood in
  the segment. A larger number in AL makes `count` wrap (`hd_drv.c:156`).
* The last chunk of a read can be larger than the rest, so that the count wraps
  and the loop reads on, at the end of the disk past it (`hd_drv.c:121`, against
  the assertion at line 96): seven sectors from the ninth of sixteen ask the BIOS
  for sectors 15 to 17. `hd_open` succeeds although the BIOS told no geometry, and
  the first read then panics (`hd_drv.c:72`).
* The division of pointers at odd distances leaves bytes between nodes that
  nothing merges back (`alloc.c:48`); a double free is noticed only while the node
  exists (`alloc.c:169`).
* The keyboard table has no rows for 0x4a to 0x4f, so that later codes read
  another row (`keyboard.c:371`); two Shift keys share a flag, so that releasing
  one ends the other (`keyboard.c:350`).
* A backspace in the first column leaves the cursor behind the last one, from
  where a line feed can leave the screen (`tty.c:104`).
* An auto-rewind timer is rewound whatever its handler did (`timer.c.h:94`); keys
  and requests that come during a BIOS call go to the BIOS or are discarded
  (`int32.asm:104`); the control word of the PIT asks to latch its counter
  (`pit_8253.c:68`).
* The test whether the second controller is one to initialise repeats that of the
  first (`idt.c:41`): the lines 8 to 15 get the default handler, which ends no
  interrupt, so that they and the cascade line stay in service once one came.
* The check of the `int` command starts at the third character of a number
  (`int.c:13`), so that `1x` raises interrupt 1 and `0xzz` interrupt 0; and the number
  is cut to a byte (`int.c:46`), so that `300` raises interrupt 44.
* `%b` prints in decimal (`printf.c:113`), although `1'b` may be put in front of it, a
  "base (only for 'p','x' and 'b')" (`printf.c:136`), and the buffer has room for 64
  binary digits (`printf.c:27`); and zeros come before the sign, so that `%03d` of -1
  is `0-1` (`printf.c:171`).
* The digits of a width are added up, so that `%012d` pads to three
  (`printf.c:53`; no format of the repository has two digits), and a number longer
  than its width is preceded by almost 2^32 zeros (`printf.c:173`).
* `strcpy` in `vsprintf` writes no NUL, so that the string in the buffer ends where
  something else ended it (`sprintf.c`).
* `multiboot_fill_header` sets no flag of the header, while the sample kernel reads
  a field only when its flag is set; it gives the number of entries for
  `mmap_length`, which a kernel takes for bytes; and it reads the boot flags of
  `hda` whatever the boot drive is (`multiboot.c:21` to `101`).
* A floppy as `partitioning.sh` makes it, with 18 sectors a track, has no 62 sectors
  behind the boot sector on its first track (`config_mem.h:34`).

## 7. What is not modelled

* The packing of base and limit into a segment descriptor, the contents of
  registers and messages, and the copies of registers and stacks inside `int32`:
  straight-line data movement without a state a property could tell apart.
* The PIT: three writes at start. The clock is assumed to tick.
* The real mode build, the BIOS video, graphics and equipment services and
  `a20.c`, which have no caller in the selected build; the E820 memory map, which
  only the real mode build asks for; files, which are stubs.
* `strcpy`, `strncpy`, their delimited forms and `memset` as calls of their own;
  the character tests of `ctype.c` nothing calls.
* The tools that prepare a disk image on the development host, and the sample
  kernel, which the loader does not load.

## 8. Plan

What the project has left, the most valuable first:

1. `ClockTimer` as an implementation of an abstract timer; `LinesReleased` and
   `ClockServed` under handlers of the BIOS that enable interrupts.
2. Once the loader calls `multiboot_fill_header` and starts a kernel: the walk of
   the sample kernel over the memory map, composed with `Multiboot`.
