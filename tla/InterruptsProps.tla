-------------------------- MODULE InterruptsProps ---------------------------
(* What the interrupts of the kernel keep, BIOS calls included.            *)
EXTENDS Interrupts

Isrs == {"clock", "keyboard", "timer", "kbd_getinput", "exception",
         "default_pic1", "default", "BIOS"}
Frames == [isr : Isrs, line : AllLines \cup {NoLine},
           at : {"call", "eoi", "wait", "iret", "panic"}, iflag : BOOLEAN]
PCs == {"idt_init", "pic_remap", "exceptions", "clock", "softwaretimer",
        "keyboard", "input", "sti", "run", "real", "enable", "bios", "reset",
        "protected"}
Settings == {<<8, 112>>, <<32, 112>>, <<32, 40>>} \X SUBSET AllLines

(* Every variable has its type.                                            *)
TypeOK ==
  /\ <<offset, imr>> \in Settings /\ saved \in Settings
  /\ irr \subseteq Lines /\ isr \subseteq AllLines
  /\ installed \subseteq 0 .. 255
  /\ realMode \in BOOLEAN /\ iflag \in BOOLEAN
  /\ stack \in Seq(Frames) /\ pc \in PCs

Panicked == \E i \in DOMAIN stack : stack[i].at = "panic"

(* The handler of a device is never entered before another one has         *)
(* returned: the stack holds at most the program, a software interrupt     *)
(* that waits, and one handler.                                            *)
HandlersDoNotNest ==
  \A i, j \in DOMAIN stack :
    stack[i].isr \notin SoftwareHandlers /\ stack[j].isr \notin SoftwareHandlers
      => i = j

(* The clock, the keyboard and every other line of the first controller is *)
(* in service only while its handler runs: none is left without its end of *)
(* interrupt, which would block it for ever, not even by a handler that    *)
(* the shell calls by hand, by a BIOS call, or by a line of the second     *)
(* controller, which is left in service.                                   *)
LinesReleased ==
  \A l \in isr : Chip(l) = 1 /\ l # Cascade =>
    \E i \in DOMAIN stack : stack[i].line = l /\ stack[i].at # "iret"

(* An interrupt of the first controller reaches the handler of its device: *)
(* the vectors, the IDT and the mode change together, as far as a device   *)
(* can see.                                                                *)
RightHandler ==
  \A i \in DOMAIN stack : stack[i].line \in 0 .. 7 =>
    stack[i].isr \in
      IF realMode THEN {"BIOS"}
      ELSE IF stack[i].line = 0 THEN {"clock"}
      ELSE IF stack[i].line = 1 THEN {"keyboard"} ELSE {"default_pic1"}

(* A tic of the clock that the controller has noted is served, unless the  *)
(* kernel has panicked or a BIOS call has discarded it.                    *)
ClockServed == 0 \in irr ~> (0 \notin irr \/ Panicked)

(* "restore the pic's to protected mode settings" (int32.asm:122): a BIOS  *)
(* call leaves the controllers as it found them.                           *)
PicsRestored ==
  [][pc = "protected" /\ pc' = "run" => <<offset', imr'>> = saved]_vars
=============================================================================
