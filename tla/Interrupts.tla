----------------------------- MODULE Interrupts -----------------------------
(***************************************************************************)
(* The interrupts of the kernel in protected mode: the two 8259A           *)
(* controllers (arch/x86/lib/pic_8259A.c), the IDT (idt.c, hal.c), the     *)
(* wrappers of the handlers (isr_wrappers.S) and the BIOS calls, which     *)
(* leave protected mode and come back (int32.asm).                         *)
(***************************************************************************)
EXTENDS Integers, Sequences, FiniteSetsExt

CONSTANTS
  Lines,   (* the interrupt lines that have a device                       *)
  Vectors  (* the vectors given to the shell's command int                 *)

AllLines == 0 .. 15
Cascade == 2

ASSUME InterruptsAssumption ==
  Lines \subseteq AllLines \ {Cascade} /\ Vectors \subseteq 0 .. 255

NoLine == -1

VARIABLES
  offset,            (* the first vector of each controller                *)
  imr, irr, isr,     (* lines masked, requested and in service             *)
  installed,         (* vectors whose default handler was replaced         *)
  realMode,          (* the processor runs the BIOS                        *)
  iflag,             (* the processor's interrupt flag                     *)
  stack,             (* the handlers entered and not left, innermost first *)
  pc,                (* what the program does when no handler runs         *)
  saved              (* history: the controllers when int32 was called     *)

pics == <<offset, imr, irr, isr>>
vars == <<pics, installed, realMode, iflag, stack, pc, saved>>

-----------------------------------------------------------------------------
(* The controllers.                                                        *)

Chip(line) == IF line < 8 THEN 1 ELSE 2

Unblocked(line) == \A s \in isr : Chip(s) = Chip(line) => line < s

(* The slave's requests pass through the master's line 2.                  *)
Acceptable ==
  {l \in irr \ imr :
     Unblocked(l) /\ (Chip(l) = 2 => Cascade \notin imr /\ Unblocked(Cascade))}

Rank(line) == IF Chip(line) = 1 THEN 8 * line ELSE 8 + line

Foremost(line) ==
  line \in Acceptable /\ \A k \in Acceptable : Rank(line) <= Rank(k)

Vector(line) ==
  IF Chip(line) = 1 THEN offset[1] + line ELSE offset[2] + line - 8

AfterEoi(chip) ==
  LET serving == {s \in isr : Chip(s) = chip}
  IN  IF serving = {} THEN isr ELSE isr \ {Min(serving)}

Raise(line) ==
  /\ line \notin irr
  /\ irr' = irr \cup {line}
  /\ UNCHANGED <<offset, imr, isr, installed, realMode, iflag, stack, pc, saved>>

(* ICW1 clears the requests, the service and the mask of a controller.     *)
Reset(master, slave, mask) ==
  offset' = <<master, slave>> /\ imr' = mask /\ irr' = {} /\ isr' = {}

-----------------------------------------------------------------------------
(* The IDT.                                                                *)

Exceptions == {0, 1, 2, 3, 4, 5, 6, 7, 8, 10, 11, 12, 13, 14, 16, 17, 18, 19}

Own(v) ==
  CASE v = 32 -> "clock" [] v = 33 -> "keyboard"
    [] v = 128 -> "timer" [] v = 129 -> "kbd_getinput"
    [] OTHER -> "exception"

(* i86_idt_init tests the vectors of the first controller twice, and never *)
(* those of the second.                                                    *)
Default(v) == IF v \in 32 .. 39 THEN "default_pic1" ELSE "default"

Handler(v) ==
  IF realMode THEN "BIOS" ELSE IF v \in installed THEN Own(v) ELSE Default(v)

SoftwareHandlers == {"timer", "kbd_getinput"}
PicHandlers == {"clock", "keyboard", "default_pic1"}

(* Mutant of Enter: the gates are trap gates, which leave interrupts on.   *)
EnterMutant(v, line) ==
  /\ stack' = <<[isr |-> Handler(v), line |-> line, at |-> "call",
                 iflag |-> iflag]>> \o stack
  /\ UNCHANGED iflag

(* Every gate is an interrupt gate.                                        *)
Enter(v, line) ==
  /\ stack' = <<[isr |-> Handler(v), line |-> line, at |-> "call",
                 iflag |-> iflag]>> \o stack
  /\ iflag' = FALSE

-----------------------------------------------------------------------------
(* The processor takes a request before its next instruction.              *)
Interrupted == iflag /\ Acceptable # {}

Deliver(line) ==
  /\ Interrupted /\ Foremost(line)
  /\ irr' = irr \ {line}
  /\ isr' = isr \cup {line} \cup (IF Chip(line) = 2 THEN {Cascade} ELSE {})
  /\ Enter(Vector(line), line)
  /\ UNCHANGED <<offset, imr, installed, realMode, pc, saved>>

(* A step of the innermost handler.                                        *)
At(at) == ~Interrupted /\ stack # <<>> /\ Head(stack).at = at
Isr == Head(stack).isr
Goto(at) == stack' = [stack EXCEPT ![1].at = at]
Unhandled == <<offset, imr, irr, installed, realMode, pc, saved>>

(* An exception's handler panics: interrupts stay disabled forever.        *)
CallIsr ==
  /\ At("call") /\ Isr \notin SoftwareHandlers
  /\ Goto(CASE Isr = "exception" -> "panic"
            [] Isr \in PicHandlers \cup {"BIOS"} -> "eoi"
            [] OTHER -> "iret")
  /\ UNCHANGED <<isr, iflag, Unhandled>>

(* Mutant of EndOfInterrupt: the keyboard's handler ends no interrupt.     *)
EndOfInterruptMutant ==
  /\ At("eoi") /\ Isr \in PicHandlers
  /\ isr' = (IF Isr = "keyboard" THEN isr ELSE AfterEoi(1)) /\ Goto("iret")
  /\ UNCHANGED <<iflag, Unhandled>>

EndOfInterrupt ==
  /\ At("eoi") /\ Isr \in PicHandlers
  /\ isr' = AfterEoi(1) /\ Goto("iret")
  /\ UNCHANGED <<iflag, Unhandled>>

(* The BIOS ends its interrupts at the controllers they came through.      *)
BiosEndOfInterrupt ==
  /\ At("eoi") /\ Isr = "BIOS"
  /\ isr' = IF Chip(Head(stack).line) = 1
            THEN AfterEoi(1) ELSE AfterEoi(1) \cap AfterEoi(2)
  /\ Goto("iret")
  /\ UNCHANGED <<iflag, Unhandled>>

(* isr_timer_int and isr_kbd_getinput_int wait with interrupts enabled.    *)
EnableAndWait ==
  /\ At("call") /\ Isr \in SoftwareHandlers
  /\ iflag' = TRUE /\ Goto("wait")
  /\ UNCHANGED <<isr, Unhandled>>

WaitEnds == At("wait") /\ Goto("iret") /\ UNCHANGED <<isr, iflag, Unhandled>>

Iret ==
  /\ At("iret")
  /\ stack' = Tail(stack) /\ iflag' = Head(stack).iflag
  /\ UNCHANGED <<isr, Unhandled>>

-----------------------------------------------------------------------------
(* hal_init.                                                               *)
From(here, there) ==
  ~Interrupted /\ stack = <<>> /\ pc = here /\ pc' = there

Install(vs) == installed' = installed \cup vs

i86_idt_init ==
  /\ From("idt_init", "pic_remap") /\ installed' = {}
  /\ UNCHANGED <<pics, realMode, iflag, stack, saved>>

i86_pic_remap ==
  /\ From("pic_remap", "exceptions") /\ Reset(32, 112, AllLines)
  /\ UNCHANGED <<installed, realMode, iflag, stack, saved>>

i86_setup_exception_handlers ==
  /\ From("exceptions", "clock") /\ Install(Exceptions)
  /\ UNCHANGED <<pics, realMode, iflag, stack, saved>>

i86_clock_init ==
  /\ From("clock", "softwaretimer") /\ Install({32}) /\ imr' = imr \ {0}
  /\ UNCHANGED <<offset, irr, isr, realMode, iflag, stack, saved>>

i86_softwaretimer_init ==
  /\ From("softwaretimer", "keyboard") /\ Install({128})
  /\ UNCHANGED <<pics, realMode, iflag, stack, saved>>

keyboard_init ==
  /\ From("keyboard", "input") /\ Install({33}) /\ imr' = imr \ {1}
  /\ UNCHANGED <<offset, irr, isr, realMode, iflag, stack, saved>>

input_initialize ==
  /\ From("input", "sti") /\ Install({129})
  /\ UNCHANGED <<pics, realMode, iflag, stack, saved>>

(* Mutant of sti: hal_init returns with interrupts disabled.               *)
stiMutant ==
  /\ From("sti", "run") /\ UNCHANGED iflag
  /\ UNCHANGED <<pics, installed, realMode, stack, saved>>

sti ==
  /\ From("sti", "run") /\ iflag' = TRUE
  /\ UNCHANGED <<pics, installed, realMode, stack, saved>>

-----------------------------------------------------------------------------
(* hal_geninterrupt, timer_start and input_get_char.                       *)
GenInterrupt(v) ==
  /\ From("run", "run") /\ Enter(v, NoLine)
  /\ UNCHANGED <<pics, installed, realMode, saved>>

(* int32.                                                                  *)
int32 ==
  /\ From("run", "real") /\ iflag' = FALSE /\ saved' = <<offset, imr>>
  /\ UNCHANGED <<pics, installed, realMode, stack>>

LeaveProtectedMode ==
  /\ From("real", "enable") /\ Reset(8, 112, {}) /\ realMode' = TRUE
  /\ UNCHANGED <<installed, iflag, stack, saved>>

CallBios ==
  /\ From("enable", "bios") /\ iflag' = TRUE
  /\ UNCHANGED <<pics, installed, realMode, stack, saved>>

BiosReturns ==
  /\ From("bios", "reset") /\ iflag' = FALSE
  /\ UNCHANGED <<pics, installed, realMode, stack, saved>>

(* Mutant of RestorePics: the controllers keep the BIOS's vectors.         *)
RestorePicsMutant ==
  /\ From("reset", "protected") /\ UNCHANGED pics
  /\ UNCHANGED <<installed, realMode, iflag, stack, saved>>

RestorePics ==
  /\ From("reset", "protected") /\ Reset(32, 40, {})
  /\ UNCHANGED <<installed, realMode, iflag, stack, saved>>

ReturnProtected ==
  /\ From("protected", "run") /\ realMode' = FALSE /\ iflag' = TRUE
  /\ UNCHANGED <<pics, installed, stack, saved>>

-----------------------------------------------------------------------------
(* As boot0 leaves the machine: interrupts disabled, the BIOS's settings.  *)
Init ==
  /\ offset = <<8, 112>> /\ imr = {} /\ irr = {} /\ isr = {}
  /\ installed = {} /\ realMode = FALSE /\ iflag = FALSE
  /\ stack = <<>> /\ pc = "idt_init" /\ saved = <<<<8, 112>>, {}>>

Boot ==
  \/ i86_idt_init \/ i86_pic_remap \/ i86_setup_exception_handlers
  \/ i86_clock_init \/ i86_softwaretimer_init \/ keyboard_init
  \/ input_initialize \/ sti

BiosCall ==
  \/ int32 \/ LeaveProtectedMode \/ CallBios \/ BiosReturns \/ RestorePics
  \/ ReturnProtected

RunHandler ==
  \/ CallIsr \/ EndOfInterrupt \/ BiosEndOfInterrupt \/ EnableAndWait
  \/ WaitEnds \/ Iret

Shell == \E v \in Vectors : GenInterrupt(v)
Device == \E l \in Lines : Raise(l)
Inta == \E l \in Lines : Deliver(l)
Processor == Inta \/ RunHandler \/ Boot \/ BiosCall \/ Shell

Next == Device \/ Processor

Spec == Init /\ [][Next]_vars

(* The processor runs.                                                     *)
FairSpec == Spec /\ WF_vars(Processor)
=============================================================================
