-------------------------- MODULE InterruptsProofs --------------------------
(* Proofs for the interrupts: whatever lines have a device and whatever    *)
(* vectors the shell calls.                                                *)
EXTENDS InterruptsProps, SequenceTheorems, TLAPS

-----------------------------------------------------------------------------
(* The inductive invariant.                                                *)
Depth == Len(stack) <= 2

(* Only a handler that waits runs with interrupts enabled.                 *)
TopWaits ==
  stack # <<>> /\ iflag =>
    stack[1].isr \in SoftwareHandlers /\ stack[1].at \in {"wait", "iret"}

(* Under another handler there is only one that waits.                     *)
BelowWaits ==
  Len(stack) = 2 =>
    /\ stack[1].isr \notin SoftwareHandlers
    /\ stack[2].isr \in SoftwareHandlers /\ stack[2].at \in {"wait", "iret"}

Clocked == {"softwaretimer", "keyboard", "input", "sti", "run", "real",
            "enable", "bios", "reset", "protected"}
Typed == Clocked \ {"softwaretimer", "keyboard"}
InBios == {"enable", "bios", "reset", "protected"}
Remapped == (PCs \ {"idt_init", "pic_remap"}) \ {"enable", "bios", "reset"}

(* The flag, the mode, the vectors and the IDT at each place.              *)
Enabled == iflag \/ stack # <<>> => pc \in {"run", "bios"}
Mode == realMode <=> pc \in InBios
Offsets == pc \in Remapped => offset[1] = 32
Table ==
  /\ pc \in Clocked => 32 \in installed
  /\ pc \in Typed => 33 \in installed
  /\ \A v \in installed : v \notin 34 .. 47 /\ v \notin 112 .. 119

(* The line in service at the first controller is the innermost handler's. *)
Service ==
  \A s \in isr : Chip(s) = 1 /\ s # Cascade =>
    stack # <<>> /\ stack[1].line = s /\ stack[1].at \in {"call", "eoi"}

(* It is the foremost of those in service.                                 *)
Quiet ==
  stack # <<>> /\ stack[1].line \in 3 .. 7 /\ stack[1].line \in isr
    => Cascade \notin isr

IInv ==
  /\ TypeOK /\ Depth /\ TopWaits /\ BelowWaits
  /\ Enabled /\ Mode /\ Offsets /\ Table
  /\ RightHandler /\ Service /\ Quiet

LEMMA InitInvariant == Init => IInv
<1> SUFFICES ASSUME Init PROVE IInv
  OBVIOUS
<1>1. stack = <<>> /\ stack \in Seq(Frames) /\ Len(stack) = 0
      /\ DOMAIN stack = {}
  BY DEF Init
<1>2. <<offset, imr>> \in Settings /\ saved \in Settings
  <2>1. <<8, 112>> \in {<<8, 112>>, <<32, 112>>, <<32, 40>>}
    OBVIOUS
  <2>2. {} \in SUBSET AllLines
    OBVIOUS
  <2>3. <<<<8, 112>>, {}>> \in Settings
    BY <2>1, <2>2 DEF Settings
  <2> QED BY <2>3 DEF Init
<1>3. TypeOK
  BY <1>1, <1>2 DEF Init, TypeOK, PCs
<1>4. Depth /\ TopWaits /\ BelowWaits /\ RightHandler /\ Service /\ Quiet
  BY <1>1 DEF Init, Depth, TopWaits, BelowWaits, RightHandler, Service, Quiet
<1>5. Enabled /\ Mode
  BY <1>1 DEF Init, Enabled, Mode, InBios
<1>6. Offsets /\ Table
  BY DEF Init, Offsets, Table, Remapped, Clocked, Typed
<1> QED BY <1>3, <1>4, <1>5, <1>6 DEF IInv

-----------------------------------------------------------------------------
(* The stack.                                                              *)
LEMMA Push ==
  ASSUME NEW s \in Seq(Frames), NEW f \in Frames
  PROVE  /\ <<f>> \o s \in Seq(Frames)
         /\ Len(<<f>> \o s) = Len(s) + 1
         /\ (<<f>> \o s)[1] = f
         /\ \A i \in 2 .. Len(s) + 1 : (<<f>> \o s)[i] = s[i - 1]
         /\ <<f>> \o s # <<>>
<1>1. <<f>> \in Seq(Frames) /\ Len(<<f>>) = 1 /\ <<f>>[1] = f
  OBVIOUS
<1>2. Len(s) \in Nat
  OBVIOUS
<1>3. /\ <<f>> \o s \in Seq(Frames) /\ Len(<<f>> \o s) = 1 + Len(s)
      /\ \A i \in 1 .. 1 + Len(s) :
           (<<f>> \o s)[i] = IF i <= 1 THEN <<f>>[i] ELSE s[i - 1]
  BY <1>1, ConcatProperties
<1> QED BY <1>1, <1>2, <1>3

LEMMA Top ==
  ASSUME NEW s \in Seq(Frames), s # <<>>
  PROVE  /\ Head(s) = s[1] /\ s[1] \in Frames /\ Len(s) \in Nat \ {0}
         /\ DOMAIN s = 1 .. Len(s)
         /\ Tail(s) \in Seq(Frames) /\ Len(Tail(s)) = Len(s) - 1
         /\ \A i \in 1 .. Len(s) - 1 : Tail(s)[i] = s[i + 1]
OBVIOUS

LEMMA Frame ==
  ASSUME NEW f \in Frames
  PROVE  /\ f.isr \in Isrs /\ f.line \in AllLines \cup {NoLine}
         /\ f.at \in {"call", "eoi", "wait", "iret", "panic"}
         /\ f.iflag \in BOOLEAN
         /\ \A a \in {"call", "eoi", "wait", "iret", "panic"} :
              /\ [f EXCEPT !.at = a] \in Frames
              /\ [f EXCEPT !.at = a].isr = f.isr
              /\ [f EXCEPT !.at = a].line = f.line
              /\ [f EXCEPT !.at = a].at = a
              /\ [f EXCEPT !.at = a].iflag = f.iflag
BY DEF Frames

LEMMA Moved ==
  ASSUME NEW a \in {"call", "eoi", "wait", "iret", "panic"},
         TypeOK, stack # <<>>, Goto(a)
  PROVE  /\ stack' \in Seq(Frames) /\ stack' # <<>> /\ Len(stack') = Len(stack)
         /\ stack'[1].isr = stack[1].isr /\ stack'[1].line = stack[1].line
         /\ stack'[1].at = a /\ stack'[1].iflag = stack[1].iflag
         /\ \A i \in 2 .. Len(stack) : stack'[i] = stack[i]
         /\ \A i \in DOMAIN stack' :
              /\ i \in DOMAIN stack /\ stack'[i].isr = stack[i].isr
              /\ stack'[i].line = stack[i].line
<1>1. stack \in Seq(Frames)
  BY DEF TypeOK
<1>2. /\ stack[1] \in Frames /\ Len(stack) \in Nat \ {0}
      /\ DOMAIN stack = 1 .. Len(stack)
  BY <1>1, Top
<1>3. stack' = [stack EXCEPT ![1] = [stack[1] EXCEPT !.at = a]]
  BY <1>1, <1>2 DEF Goto
<1>4. [stack[1] EXCEPT !.at = a] \in Frames
  BY <1>2, Frame
<1>5. /\ stack' \in Seq(Frames) /\ Len(stack') = Len(stack)
      /\ stack'[1] = [stack[1] EXCEPT !.at = a]
      /\ \A i \in 2 .. Len(stack) : stack'[i] = stack[i]
      /\ DOMAIN stack' = 1 .. Len(stack)
  BY <1>1, <1>2, <1>3, <1>4
<1>6. stack' # <<>>
  BY <1>5, <1>2
<1>7. \A i \in DOMAIN stack' :
        /\ i \in DOMAIN stack /\ stack'[i].isr = stack[i].isr
        /\ stack'[i].line = stack[i].line
  <2> SUFFICES ASSUME NEW i \in DOMAIN stack'
               PROVE  /\ i \in DOMAIN stack /\ stack'[i].isr = stack[i].isr
                      /\ stack'[i].line = stack[i].line
    OBVIOUS
  <2>1. i \in 1 .. Len(stack)
    BY <1>5
  <2>2. CASE i = 1
    BY <2>2, <1>2, <1>5, Frame
  <2>3. CASE i # 1
    BY <2>1, <2>3, <1>2, <1>5
  <2> QED BY <2>2, <2>3
<1>8. /\ stack'[1].isr = stack[1].isr /\ stack'[1].line = stack[1].line
      /\ stack'[1].at = a /\ stack'[1].iflag = stack[1].iflag
  BY <1>2, <1>5, Frame
<1> QED BY <1>5, <1>6, <1>7, <1>8

-----------------------------------------------------------------------------
(* Each step preserves the types.                                          *)
LEMMA HandlerTyped == \A v \in Int : Handler(v) \in Isrs
BY DEF Handler, Own, Default, Isrs

LEMMA Entered ==
  ASSUME NEW v \in Int, NEW line \in AllLines \cup {NoLine},
         TypeOK, Enter(v, line)
  PROVE  /\ stack' \in Seq(Frames) /\ stack' # <<>>
         /\ Len(stack') = Len(stack) + 1 /\ iflag' = FALSE
         /\ stack'[1].isr = Handler(v) /\ stack'[1].line = line
         /\ stack'[1].at = "call" /\ stack'[1].iflag = iflag
         /\ \A i \in 2 .. Len(stack) + 1 : stack'[i] = stack[i - 1]
<1> DEFINE f == [isr |-> Handler(v), line |-> line, at |-> "call",
                 iflag |-> iflag]
<1>1. f \in Frames
  BY HandlerTyped DEF Frames, TypeOK
<1>2. /\ f.isr = Handler(v) /\ f.line = line /\ f.at = "call"
      /\ f.iflag = iflag
  OBVIOUS
<1>3. stack' = <<f>> \o stack /\ iflag' = FALSE
  BY DEF Enter
<1>4. stack \in Seq(Frames)
  BY DEF TypeOK
<1> HIDE DEF f
<1> QED BY <1>1, <1>2, <1>3, <1>4, Push

LEMMA Places ==
  ASSUME TypeOK
  PROVE  /\ stack # <<>> => stack[1] \in Frames /\ Head(stack) = stack[1]
         /\ \A o \in {<<8, 112>>, <<32, 112>>, <<32, 40>>}, m \in SUBSET AllLines :
              <<o, m>> \in Settings
         /\ offset \in {<<8, 112>>, <<32, 112>>, <<32, 40>>}
         /\ imr \in SUBSET AllLines
<1>1. stack # <<>> => stack[1] \in Frames /\ Head(stack) = stack[1]
  BY Top DEF TypeOK
<1> QED BY <1>1 DEF TypeOK, Settings

(* What a step outside the handlers leaves alone.                          *)
Outside ==
  /\ stack = <<>> /\ stack' = <<>>
  /\ isr' \in {isr, {}} /\ irr' \in {irr, {}}

LEMMA OutsideStep == Boot \/ BiosCall => Outside
BY DEF Boot, i86_idt_init, i86_pic_remap, i86_setup_exception_handlers,
       i86_clock_init, i86_softwaretimer_init, keyboard_init,
       input_initialize, sti, BiosCall, int32, LeaveProtectedMode, CallBios,
       BiosReturns, RestorePics, ReturnProtected, From, Reset, pics, Outside

LEMMA BootTypes == TypeOK /\ Boot => TypeOK'
<1> SUFFICES ASSUME TypeOK, Boot PROVE TypeOK'
  OBVIOUS
<1>1. Outside
  BY OutsideStep
<1>2. /\ irr' \subseteq Lines /\ isr' \subseteq AllLines
      /\ stack' \in Seq(Frames)
  BY <1>1 DEF Outside, TypeOK
<1>3. installed' \subseteq 0 .. 255
  <2>1. Exceptions \subseteq 0 .. 255 /\ {32, 33, 128, 129} \subseteq 0 .. 255
    BY DEF Exceptions
  <2>2. installed' \in {installed, {}, installed \cup Exceptions,
          installed \cup {32}, installed \cup {33}, installed \cup {128},
          installed \cup {129}}
    BY DEF Boot, i86_idt_init, i86_pic_remap, i86_setup_exception_handlers,
       i86_clock_init, i86_softwaretimer_init, keyboard_init,
       input_initialize, sti, Install, pics
  <2>3. installed \subseteq 0 .. 255
    BY DEF TypeOK
  <2> QED BY <2>1, <2>2, <2>3
<1>4. realMode' \in BOOLEAN /\ iflag' \in BOOLEAN /\ pc' \in PCs
      /\ saved' = saved
  BY DEF Boot, i86_idt_init, i86_pic_remap, i86_setup_exception_handlers,
     i86_clock_init, i86_softwaretimer_init, keyboard_init, input_initialize,
     sti, From, TypeOK, PCs
<1>5. <<offset', imr'>> \in Settings
  <2>1. offset' \in {offset, <<32, 112>>}
    BY DEF Boot, i86_idt_init, i86_pic_remap, i86_setup_exception_handlers,
       i86_clock_init, i86_softwaretimer_init, keyboard_init,
       input_initialize, sti, Reset, pics
  <2>2. imr' \in {imr, AllLines, imr \ {0}, imr \ {1}}
    BY DEF Boot, i86_idt_init, i86_pic_remap, i86_setup_exception_handlers,
       i86_clock_init, i86_softwaretimer_init, keyboard_init,
       input_initialize, sti, Reset, pics
  <2>3. offset' \in {<<8, 112>>, <<32, 112>>, <<32, 40>>}
    BY <2>1, Places
  <2>4. imr' \in SUBSET AllLines
    BY <2>2, Places
  <2> QED BY <2>3, <2>4, Places
<1> QED BY <1>2, <1>3, <1>4, <1>5 DEF TypeOK

LEMMA BiosTypes == TypeOK /\ BiosCall => TypeOK'
<1> SUFFICES ASSUME TypeOK, BiosCall PROVE TypeOK'
  OBVIOUS
<1>1. Outside
  BY OutsideStep
<1>2. /\ irr' \subseteq Lines /\ isr' \subseteq AllLines
      /\ stack' \in Seq(Frames)
  BY <1>1 DEF Outside, TypeOK
<1>3. realMode' \in BOOLEAN /\ iflag' \in BOOLEAN /\ pc' \in PCs
      /\ installed' = installed
  BY DEF BiosCall, int32, LeaveProtectedMode, CallBios, BiosReturns,
     RestorePics, ReturnProtected, From, TypeOK, PCs
<1>4. <<offset', imr'>> \in Settings
  <2>1. offset' \in {offset, <<8, 112>>, <<32, 40>>} /\ imr' \in {imr, {}}
    BY DEF BiosCall, int32, LeaveProtectedMode, CallBios, BiosReturns,
       RestorePics, ReturnProtected, Reset, pics
  <2>2. offset' \in {<<8, 112>>, <<32, 112>>, <<32, 40>>}
    BY <2>1, Places
  <2>3. imr' \in SUBSET AllLines
    BY <2>1, Places
  <2> QED BY <2>2, <2>3, Places
<1>5. saved' \in Settings
  <2>1. saved' \in {saved, <<offset, imr>>}
    BY DEF BiosCall, int32, LeaveProtectedMode, CallBios, BiosReturns,
       RestorePics, ReturnProtected
  <2> QED BY <2>1 DEF TypeOK
<1> QED BY <1>2, <1>3, <1>4, <1>5 DEF TypeOK

Ats == {"call", "eoi", "wait", "iret", "panic"}

(* A step of a handler that does not return.                               *)
Within ==
  /\ stack # <<>> /\ Head(stack).at \in {"call", "eoi", "wait"}
  /\ \E a \in Ats : Goto(a)
  /\ isr' \subseteq isr
  /\ UNCHANGED Unhandled
  /\ iflag' = iflag \/ iflag' = TRUE

LEMMA EoiRemoves == \A c \in {1, 2} : AfterEoi(c) \subseteq isr
BY DEF AfterEoi

LEMMA WithinStep ==
  CallIsr \/ EndOfInterrupt \/ BiosEndOfInterrupt \/ EnableAndWait \/ WaitEnds
    => Within
<1> USE DEF Within, At, Ats, Unhandled
<1>1. CallIsr => Within
  BY DEF CallIsr
<1>2. EndOfInterrupt => Within
  BY EoiRemoves DEF EndOfInterrupt
<1>3. BiosEndOfInterrupt => Within
  BY EoiRemoves DEF BiosEndOfInterrupt
<1>4. EnableAndWait => Within
  BY DEF EnableAndWait
<1>5. WaitEnds => Within
  BY DEF WaitEnds
<1> QED BY <1>1, <1>2, <1>3, <1>4, <1>5

LEMMA VectorTyped ==
  ASSUME TypeOK, NEW l \in AllLines
  PROVE  /\ Vector(l) \in Int
         /\ offset[1] \in {8, 32} /\ offset[2] \in {40, 112}
         /\ Chip(l) = 1 <=> l \in 0 .. 7
         /\ Chip(l) = 2 <=> l \in 8 .. 15
         /\ Chip(l) \in {1, 2}
         /\ l \in 0 .. 7 => Vector(l) = offset[1] + l
         /\ l \in 8 .. 15 => Vector(l) = offset[2] + l - 8
<1>1. offset[1] \in {8, 32} /\ offset[2] \in {40, 112}
  BY Places
<1>2. l \in 0 .. 15
  BY DEF AllLines
<1> QED BY <1>1, <1>2 DEF Vector, Chip

LEMMA TypeStep == TypeOK /\ [Next]_vars => TypeOK'
<1> SUFFICES ASSUME TypeOK, [Next]_vars PROVE TypeOK'
  OBVIOUS
<1>l. Lines \subseteq AllLines
  BY InterruptsAssumption
<1>1. CASE Device
  BY <1>1 DEF Device, Raise, TypeOK
<1>2. CASE Inta
  <2>1. PICK l \in Lines : Deliver(l)
    BY <1>2 DEF Inta
  <2>2. l \in AllLines /\ Vector(l) \in Int
    BY <1>l, VectorTyped
  <2>3. Enter(Vector(l), l)
    BY <2>1 DEF Deliver
  <2>4. stack' \in Seq(Frames) /\ iflag' = FALSE
    BY <2>2, <2>3, Entered
  <2>5. isr' \subseteq AllLines /\ irr' \subseteq Lines
    <3>1. Cascade \in AllLines
      BY DEF Cascade, AllLines
    <3> QED BY <2>1, <2>2, <1>l, <3>1 DEF Deliver, TypeOK
  <2> QED BY <2>1, <2>4, <2>5 DEF Deliver, TypeOK
<1>3. CASE Within
  <2>1. PICK a \in Ats : Goto(a)
    BY <1>3 DEF Within
  <2>2. stack' \in Seq(Frames)
    BY <2>1, <1>3, Moved DEF Within, Ats
  <2> QED BY <2>2, <1>3 DEF Within, TypeOK, Unhandled
<1>4. CASE Iret
  <2>1. stack \in Seq(Frames) /\ stack # <<>>
    BY <1>4 DEF Iret, At, TypeOK
  <2>2. stack[1] \in Frames /\ Head(stack) = stack[1]
        /\ Tail(stack) \in Seq(Frames)
    BY <2>1, Top
  <2>3. Head(stack).iflag \in BOOLEAN
    <3>1. stack[1].iflag \in BOOLEAN
      BY <2>2, Frame
    <3> QED BY <2>2, <3>1
  <2> QED BY <1>4, <2>2, <2>3 DEF Iret, TypeOK, Unhandled
<1>5. CASE Boot \/ BiosCall
  BY <1>5, BootTypes, BiosTypes
<1>6. CASE Shell
  <2>1. PICK v \in Vectors : GenInterrupt(v)
    BY <1>6 DEF Shell
  <2>2. v \in Int /\ NoLine \in AllLines \cup {NoLine} /\ Enter(v, NoLine)
    BY <2>1, InterruptsAssumption DEF GenInterrupt
  <2>3. stack' \in Seq(Frames) /\ iflag' = FALSE
    BY <2>2, Entered
  <2> QED BY <2>1, <2>3 DEF GenInterrupt, From, TypeOK, PCs, pics
<1>7. CASE UNCHANGED vars
  BY <1>7 DEF vars, pics, TypeOK
<1> QED
  BY <1>1, <1>2, <1>3, <1>4, <1>5, <1>6, <1>7, WithinStep
     DEF Next, Processor, RunHandler

-----------------------------------------------------------------------------
(* How the stack, the flag and the controllers change together.            *)
LEMMA StackCases ==
  ASSUME TypeOK, [Next]_vars
  PROVE  \/ Device /\ UNCHANGED <<stack, iflag, isr, pc, realMode, offset, installed>>
         \/ Inta \/ Within \/ Iret \/ Shell
         \/ Outside /\ (Boot \/ BiosCall)
         \/ UNCHANGED <<stack, iflag, isr, pc, realMode, offset, installed>>
BY WithinStep, OutsideStep
   DEF Next, Processor, RunHandler, Device, Raise, vars, pics

(* A request is taken only from the program or from a handler that waits.  *)
LEMMA DeliverFacts ==
  ASSUME IInv, NEW l \in Lines, Deliver(l)
  PROVE  /\ l \in AllLines \ {Cascade} /\ iflag /\ Unblocked(l)
         /\ pc \in {"run", "bios"} /\ UNCHANGED <<pc, realMode, offset, installed>>
         /\ stack' \in Seq(Frames) /\ stack' # <<>> /\ iflag' = FALSE
         /\ Len(stack') = Len(stack) + 1 /\ Len(stack) \in {0, 1}
         /\ \A i \in 2 .. Len(stack) + 1 : stack'[i] = stack[i - 1]
         /\ stack'[1].isr = Handler(Vector(l)) /\ stack'[1].line = l
         /\ stack'[1].at = "call"
         /\ Len(stack) = 1 =>
              stack[1].isr \in SoftwareHandlers /\ stack[1].at \in {"wait", "iret"}
<1> USE DEF IInv
<1>1. l \in AllLines \ {Cascade} /\ Vector(l) \in Int
  BY InterruptsAssumption, VectorTyped
<1>2. iflag /\ Unblocked(l) /\ UNCHANGED <<pc, realMode, offset, installed>>
  BY DEF Deliver, Interrupted, Foremost, Acceptable
<1>3. pc \in {"run", "bios"}
  BY <1>2 DEF Enabled
<1>4. Enter(Vector(l), l)
  BY DEF Deliver
<1>5. /\ stack' \in Seq(Frames) /\ stack' # <<>> /\ iflag' = FALSE
      /\ Len(stack') = Len(stack) + 1
      /\ \A i \in 2 .. Len(stack) + 1 : stack'[i] = stack[i - 1]
      /\ stack'[1].isr = Handler(Vector(l)) /\ stack'[1].line = l
      /\ stack'[1].at = "call"
  BY <1>1, <1>4, Entered
<1>6. stack \in Seq(Frames)
  BY DEF TypeOK
<1>7. CASE stack = <<>>
  BY <1>1, <1>2, <1>3, <1>5, <1>7
<1>8. CASE stack # <<>>
  <2>1. stack[1].isr \in SoftwareHandlers /\ stack[1].at \in {"wait", "iret"}
    BY <1>2, <1>8 DEF TopWaits
  <2>2. Len(stack) # 2 /\ Len(stack) \in Nat \ {0} /\ Len(stack) <= 2
    BY <1>6, <1>8, <2>1, Top DEF BelowWaits, Depth
  <2>3. Len(stack) = 1
    <3>1. \A n \in Nat : n # 0 /\ n # 2 /\ n <= 2 => n = 1
      OBVIOUS
    <3> QED BY <2>2, <3>1
  <2> QED BY <1>1, <1>2, <1>3, <1>5, <2>1, <2>3
<1> QED BY <1>7, <1>8

(* What handler a line reaches.                                            *)
LEMMA Reached ==
  ASSUME IInv, NEW l \in AllLines \ {Cascade}, pc \in {"run", "bios"}
  PROVE  /\ Handler(Vector(l)) \notin SoftwareHandlers
         /\ l \in 0 .. 7 => Handler(Vector(l)) \in
              IF realMode THEN {"BIOS"}
              ELSE IF l = 0 THEN {"clock"}
              ELSE IF l = 1 THEN {"keyboard"} ELSE {"default_pic1"}
<1> USE DEF IInv
<1>1. l \in 0 .. 15
  BY DEF AllLines
<1>2. CASE realMode
  BY <1>2 DEF Handler, SoftwareHandlers
<1>3. CASE ~realMode
  <2>1. pc = "run"
    BY <1>3 DEF Mode, InBios
  <2>2. offset[1] = 32 /\ 32 \in installed /\ 33 \in installed
    BY <2>1 DEF Offsets, Table, Remapped, PCs, Clocked, Typed
  <2>3. CASE l \in 0 .. 7
    <3>1. Vector(l) = 32 + l
      BY <2>2, <2>3, VectorTyped
    <3>2. CASE l = 0
      BY <3>1, <3>2, <2>2, <1>3 DEF Handler, Own, SoftwareHandlers
    <3>3. CASE l = 1
      BY <3>1, <3>3, <2>2, <1>3 DEF Handler, Own, SoftwareHandlers
    <3>4. CASE l \in 2 .. 7
      <4>1. Vector(l) \in 34 .. 39
        BY <3>1, <3>4
      <4>2. Vector(l) \notin installed
        BY <4>1 DEF Table
      <4>3. Handler(Vector(l)) = "default_pic1"
        BY <4>1, <4>2, <1>3 DEF Handler, Default
      <4> QED BY <4>3, <3>4, <1>3 DEF SoftwareHandlers
    <3> QED BY <2>3, <3>2, <3>3, <3>4
  <2>4. CASE l \in 8 .. 15
    <3>1. Vector(l) = offset[2] + l - 8 /\ offset[2] \in {40, 112}
      BY <2>4, VectorTyped
    <3>2. Vector(l) \in 40 .. 47 \cup 112 .. 119
      BY <3>1, <2>4
    <3>3. Vector(l) \notin installed
      BY <3>2 DEF Table
    <3> QED BY <3>3, <1>3, <2>4 DEF Handler, Default, SoftwareHandlers
  <2> QED BY <2>3, <2>4, <1>1
<1> QED BY <1>2, <1>3

-----------------------------------------------------------------------------
(* Every part of the invariant is preserved.                               *)
LEMMA Popped ==
  ASSUME IInv, Iret
  PROVE  /\ stack # <<>> /\ stack[1].at = "iret" /\ Len(stack) \in {1, 2}
         /\ stack' \in Seq(Frames) /\ Len(stack') = Len(stack) - 1
         /\ stack' # <<>> => Len(stack) = 2 /\ stack'[1] = stack[2]
         /\ \A i \in 1 .. Len(stack) - 1 : stack'[i] = stack[i + 1]
         /\ UNCHANGED <<isr, pc, realMode, offset, installed>>
<1> USE DEF IInv
<1>1. stack \in Seq(Frames) /\ stack # <<>> /\ Head(stack).at = "iret"
      /\ stack' = Tail(stack)
  BY DEF Iret, At, TypeOK
<1>2. /\ Head(stack) = stack[1] /\ Len(stack) \in Nat \ {0}
      /\ Tail(stack) \in Seq(Frames) /\ Len(Tail(stack)) = Len(stack) - 1
      /\ \A i \in 1 .. Len(stack) - 1 : Tail(stack)[i] = stack[i + 1]
  BY <1>1, Top
<1>3. Len(stack) \in {1, 2}
  <2>1. \A n \in Nat : n # 0 /\ n <= 2 => n \in {1, 2}
    OBVIOUS
  <2> QED BY <1>2, <2>1 DEF Depth
<1>4. stack' # <<>> => Len(stack) = 2 /\ stack'[1] = stack[2]
  <2>1. CASE Len(stack) = 1
    <3>1. Len(stack') = 0
      BY <1>1, <1>2, <2>1
    <3> QED BY <3>1, <1>1, <1>2
  <2>2. CASE Len(stack) = 2
    BY <1>1, <1>2, <2>2
  <2> QED BY <1>3, <2>1, <2>2
<1>5. UNCHANGED <<isr, pc, realMode, offset, installed>>
  BY DEF Iret, Unhandled
<1> QED BY <1>1, <1>2, <1>3, <1>4, <1>5

LEMMA ByHand ==
  ASSUME IInv, Shell
  PROVE  /\ stack = <<>> /\ stack' \in Seq(Frames) /\ stack' # <<>>
         /\ Len(stack') = 1 /\ iflag' = FALSE /\ stack'[1].line = NoLine
         /\ pc' = "run" /\ pc = "run"
         /\ UNCHANGED <<isr, realMode, offset, installed>>
<1>1. PICK v \in Vectors : GenInterrupt(v)
  BY DEF Shell
<1>2. v \in Int /\ NoLine \in AllLines \cup {NoLine} /\ Enter(v, NoLine)
  BY <1>1, InterruptsAssumption DEF GenInterrupt
<1>3. TypeOK
  BY DEF IInv
<1>4. stack = <<>> /\ Len(stack) = 0
  BY <1>1 DEF GenInterrupt, From
<1>5. /\ stack' \in Seq(Frames) /\ stack' # <<>> /\ Len(stack') = 0 + 1
      /\ iflag' = FALSE /\ stack'[1].line = NoLine
  BY <1>2, <1>3, <1>4, Entered
<1> QED BY <1>1, <1>4, <1>5 DEF GenInterrupt, From, pics

LEMMA WithinFacts ==
  ASSUME IInv, Within
  PROVE  /\ stack # <<>> /\ stack' \in Seq(Frames) /\ stack' # <<>>
         /\ Len(stack') = Len(stack) /\ Head(stack) = stack[1]
         /\ stack'[1].isr = stack[1].isr /\ stack'[1].line = stack[1].line
         /\ \A i \in 2 .. Len(stack) : stack'[i] = stack[i]
         /\ \A i \in DOMAIN stack' :
              /\ i \in DOMAIN stack /\ stack'[i].isr = stack[i].isr
              /\ stack'[i].line = stack[i].line
         /\ isr' \subseteq isr /\ UNCHANGED <<pc, realMode, offset, installed>>
<1>1. TypeOK /\ stack # <<>>
  BY DEF IInv, Within
<1>2. PICK a \in Ats : Goto(a)
  BY DEF Within
<1>3. isr' \subseteq isr /\ UNCHANGED <<pc, realMode, offset, installed>>
  BY DEF Within, Unhandled
<1>4. Head(stack) = stack[1]
  BY <1>1, Places
<1> QED BY <1>1, <1>2, <1>3, <1>4, Moved DEF Ats

LEMMA DepthStep ==
  IInv /\ [Next]_vars => Depth' /\ BelowWaits'
<1> SUFFICES ASSUME IInv, [Next]_vars PROVE Depth' /\ BelowWaits'
  OBVIOUS
<1> USE DEF Depth, BelowWaits
<1>o. TypeOK /\ Depth /\ BelowWaits
  BY DEF IInv
<1>1. CASE Inta
  <2>1. PICK l \in Lines : Deliver(l)
    BY <1>1 DEF Inta
  <2>2. Handler(Vector(l)) \notin SoftwareHandlers
    BY <2>1, DeliverFacts, Reached
  <2>3. /\ Len(stack') = Len(stack) + 1 /\ Len(stack) \in {0, 1}
        /\ \A i \in 2 .. Len(stack) + 1 : stack'[i] = stack[i - 1]
        /\ stack'[1].isr = Handler(Vector(l))
        /\ Len(stack) = 1 =>
             stack[1].isr \in SoftwareHandlers /\ stack[1].at \in {"wait", "iret"}
    BY <2>1, DeliverFacts
  <2>4. CASE Len(stack) = 0
    BY <2>3, <2>4
  <2>5. CASE Len(stack) = 1
    <3>1. Len(stack') = 2 /\ stack'[2] = stack[1]
      BY <2>3, <2>5
    <3> QED BY <2>2, <2>3, <2>5, <3>1
  <2> QED BY <2>3, <2>4, <2>5
<1>2. CASE Within
  <2>1. /\ Len(stack') = Len(stack) /\ stack'[1].isr = stack[1].isr
        /\ \A i \in 2 .. Len(stack) : stack'[i] = stack[i]
    BY <1>2, WithinFacts
  <2> QED BY <2>1, <1>o
<1>3. CASE Iret
  BY <1>3, Popped
<1>4. CASE Shell
  <2>1. Len(stack') = 1
    BY <1>4, ByHand
  <2> QED BY <2>1
<1>5. CASE Outside
  <2>1. Len(stack') = 0
    BY <1>5 DEF Outside
  <2> QED BY <2>1
<1>6. CASE UNCHANGED stack
  BY <1>6, <1>o
<1> QED BY <1>o, <1>1, <1>2, <1>3, <1>4, <1>5, <1>6, StackCases

LEMMA TopWaitsStep == IInv /\ [Next]_vars => TopWaits'
<1> SUFFICES ASSUME IInv, [Next]_vars, stack' # <<>>, iflag'
             PROVE  stack'[1].isr \in SoftwareHandlers
                    /\ stack'[1].at \in {"wait", "iret"}
  BY DEF TopWaits
<1>o. TypeOK /\ TopWaits
  BY DEF IInv
<1>1. CASE Inta
  BY <1>1, DeliverFacts DEF Inta
<1>2. CASE CallIsr \/ EndOfInterrupt \/ BiosEndOfInterrupt
  <2>1. iflag /\ stack # <<>> /\ Head(stack).at \in {"call", "eoi"}
    BY <1>2 DEF CallIsr, EndOfInterrupt, BiosEndOfInterrupt, At
  <2>2. stack[1].at \in {"call", "eoi"}
    BY <2>1, <1>o, Places
  <2> QED BY <2>1, <2>2, <1>o DEF TopWaits
<1>3. CASE EnableAndWait
  <2>1. stack # <<>> /\ Goto("wait") /\ Head(stack).isr \in SoftwareHandlers
    BY <1>3 DEF EnableAndWait, At, Isr
  <2>2. stack[1].isr \in SoftwareHandlers
    BY <2>1, <1>o, Places
  <2> QED BY <2>1, <2>2, <1>o, Moved
<1>4. CASE WaitEnds
  <2>1. stack # <<>> /\ Goto("iret") /\ iflag
    BY <1>4 DEF WaitEnds, At
  <2>2. stack[1].isr \in SoftwareHandlers
    BY <2>1, <1>o DEF TopWaits
  <2> QED BY <2>1, <2>2, <1>o, Moved
<1>5. CASE Iret
  BY <1>5, Popped DEF IInv, BelowWaits
<1>6. CASE Shell
  BY <1>6, ByHand
<1>7. CASE Boot \/ BiosCall
  BY <1>7, OutsideStep DEF Outside
<1>8. CASE Device \/ UNCHANGED vars
  BY <1>8, <1>o DEF Device, Raise, vars, TopWaits
<1> QED BY <1>1, <1>2, <1>3, <1>4, <1>5, <1>6, <1>7, <1>8
        DEF Next, Processor, RunHandler

LEMMA StageStep ==
  IInv /\ [Next]_vars => Enabled' /\ Mode' /\ Offsets' /\ Table'
<1> SUFFICES ASSUME IInv, [Next]_vars
             PROVE  Enabled' /\ Mode' /\ Offsets' /\ Table'
  OBVIOUS
<1>o. TypeOK /\ Enabled /\ Mode /\ Offsets /\ Table
  BY DEF IInv
<1>1. CASE Inta
  <2>1. UNCHANGED <<pc, realMode, offset, installed>> /\ pc \in {"run", "bios"}
    BY <1>1, DeliverFacts DEF Inta
  <2> QED BY <2>1, <1>o DEF Enabled, Mode, Offsets, Table
<1>2. CASE Within
  <2>1. UNCHANGED <<pc, realMode, offset, installed>> /\ stack # <<>>
    BY <1>2, WithinFacts
  <2> QED BY <2>1, <1>o DEF Enabled, Mode, Offsets, Table
<1>3. CASE Iret
  <2>1. UNCHANGED <<pc, realMode, offset, installed>> /\ stack # <<>>
    BY <1>3, Popped
  <2> QED BY <2>1, <1>o DEF Enabled, Mode, Offsets, Table
<1>4. CASE Shell
  <2>1. UNCHANGED <<pc, realMode, offset, installed>> /\ pc = "run"
    BY <1>4, ByHand
  <2> QED BY <2>1, <1>o DEF Enabled, Mode, Offsets, Table
<1>5. CASE Boot
  <2>1. Outside
    BY <1>5, OutsideStep
  <2>2. Enabled' /\ Mode'
    BY <1>5, <2>1, <1>o DEF Outside, Enabled, Mode, InBios, Boot, i86_idt_init,
       i86_pic_remap, i86_setup_exception_handlers, i86_clock_init,
       i86_softwaretimer_init, keyboard_init, input_initialize, sti, From
  <2>3. Offsets'
    BY <1>5, <1>o DEF Offsets, Remapped, PCs, Boot, i86_idt_init,
       i86_pic_remap, i86_setup_exception_handlers, i86_clock_init,
       i86_softwaretimer_init, keyboard_init, input_initialize, sti, From,
       Reset, pics
  <2>4. Table'
    <3> USE DEF Boot, i86_idt_init, i86_pic_remap,
            i86_setup_exception_handlers, i86_clock_init,
            i86_softwaretimer_init, keyboard_init, input_initialize, sti,
            From, Install
    <3>1. pc' \in Clocked => 32 \in installed'
      BY <1>5, <1>o DEF Table, Clocked
    <3>2. pc' \in Typed => 33 \in installed'
      <4>1. CASE keyboard_init
        BY <4>1 DEF Typed
      <4>2. CASE input_initialize \/ sti
        <5>1. pc \in {"input", "sti"} /\ (33 \in installed => 33 \in installed')
          BY <4>2
        <5> QED BY <5>1, <1>o DEF Table, Typed, Clocked
      <4>3. CASE i86_idt_init \/ i86_pic_remap \/ i86_setup_exception_handlers
        <5>1. pc' \in {"pic_remap", "exceptions", "clock"}
          BY <4>3
        <5> QED BY <5>1 DEF Typed, Clocked
      <4>4. CASE i86_clock_init \/ i86_softwaretimer_init
        <5>1. pc' \in {"softwaretimer", "keyboard"}
          BY <4>4
        <5> QED BY <5>1 DEF Typed
      <4> QED BY <1>5, <4>1, <4>2, <4>3, <4>4
    <3>3. installed' \in {installed, {}, installed \cup Exceptions,
            installed \cup {32}, installed \cup {33}, installed \cup {128},
            installed \cup {129}}
      <4>1. CASE i86_idt_init \/ i86_pic_remap \/ sti
        BY <4>1 DEF pics
      <4>2. CASE i86_setup_exception_handlers \/ i86_clock_init
        BY <4>2 DEF pics
      <4>3. CASE i86_softwaretimer_init \/ keyboard_init \/ input_initialize
        BY <4>3 DEF pics
      <4> QED BY <1>5, <4>1, <4>2, <4>3
    <3>4. \A v \in Exceptions \cup {32, 33, 128, 129} :
            v \notin 34 .. 47 /\ v \notin 112 .. 119
      BY DEF Exceptions
    <3>5. \A v \in installed' :
            v \in installed \cup Exceptions \cup {32, 33, 128, 129}
      BY <3>3
    <3>6. \A v \in installed' : v \notin 34 .. 47 /\ v \notin 112 .. 119
      BY <3>4, <3>5, <1>o DEF Table
    <3> QED BY <3>1, <3>2, <3>6 DEF Table
  <2> QED BY <2>2, <2>3, <2>4
<1>6. CASE BiosCall
  <2>1. Outside
    BY <1>6, OutsideStep
  <2>2. Enabled' /\ Mode'
    BY <1>6, <2>1, <1>o DEF Outside, Enabled, Mode, InBios, BiosCall, int32,
       LeaveProtectedMode, CallBios, BiosReturns, RestorePics,
       ReturnProtected, From, TypeOK
  <2>3. Offsets'
    BY <1>6, <1>o DEF Offsets, Remapped, PCs, BiosCall, int32,
       LeaveProtectedMode, CallBios, BiosReturns, RestorePics,
       ReturnProtected, From, Reset, pics
  <2>4. Table'
    BY <1>6, <1>o DEF Table, Clocked, Typed, BiosCall, int32,
       LeaveProtectedMode, CallBios, BiosReturns, RestorePics,
       ReturnProtected, From
  <2> QED BY <2>2, <2>3, <2>4
<1>7. CASE UNCHANGED <<stack, iflag, isr, pc, realMode, offset, installed>>
  BY <1>7, <1>o DEF Enabled, Mode, Offsets, Table
<1> QED BY <1>o, <1>1, <1>2, <1>3, <1>4, <1>5, <1>6, <1>7, StackCases

LEMMA RightHandlerStep == IInv /\ [Next]_vars => RightHandler'
<1> DEFINE Right(f, mode) ==
             f.line \in 0 .. 7 =>
               f.isr \in IF mode THEN {"BIOS"}
                         ELSE IF f.line = 0 THEN {"clock"}
                         ELSE IF f.line = 1 THEN {"keyboard"}
                         ELSE {"default_pic1"}
<1> SUFFICES ASSUME IInv, [Next]_vars, NEW i \in DOMAIN stack'
             PROVE  Right(stack'[i], realMode')
  BY DEF RightHandler
<1>o. TypeOK /\ \A k \in DOMAIN stack : Right(stack[k], realMode)
  BY DEF IInv, RightHandler
<1>p. stack \in Seq(Frames) /\ DOMAIN stack = 1 .. Len(stack)
      /\ Len(stack) \in Nat
  BY <1>o DEF TypeOK
<1>q. stack' \in Seq(Frames) /\ DOMAIN stack' = 1 .. Len(stack')
  BY <1>o, TypeStep DEF TypeOK
<1>1. CASE Inta
  <2>1. PICK l \in Lines : Deliver(l)
    BY <1>1 DEF Inta
  <2>2. /\ Len(stack') = Len(stack) + 1
        /\ \A k \in 2 .. Len(stack) + 1 : stack'[k] = stack[k - 1]
        /\ stack'[1].isr = Handler(Vector(l)) /\ stack'[1].line = l
        /\ realMode' = realMode /\ l \in AllLines \ {Cascade}
        /\ pc \in {"run", "bios"}
    BY <2>1, DeliverFacts
  <2>3. CASE i = 1
    <3>1. l \in 0 .. 7 => Handler(Vector(l)) \in
              IF realMode THEN {"BIOS"}
              ELSE IF l = 0 THEN {"clock"}
              ELSE IF l = 1 THEN {"keyboard"} ELSE {"default_pic1"}
      BY <2>2, Reached
    <3> QED BY <2>2, <2>3, <3>1
  <2>4. CASE i # 1
    <3>1. i \in 2 .. Len(stack) + 1 /\ i - 1 \in DOMAIN stack
      BY <2>2, <2>4, <1>p, <1>q
    <3>2. stack'[i] = stack[i - 1] /\ Right(stack[i - 1], realMode)
      BY <2>2, <3>1, <1>o
    <3> HIDE DEF Right
    <3> QED BY <3>2, <2>2
  <2> QED BY <2>3, <2>4
<1>2. CASE Within
  <2>1. /\ i \in DOMAIN stack /\ stack'[i].isr = stack[i].isr
        /\ stack'[i].line = stack[i].line /\ realMode' = realMode
    BY <1>2, WithinFacts
  <2>2. Right(stack[i], realMode)
    BY <2>1, <1>o
  <2> QED BY <2>1, <2>2
<1>3. CASE Iret
  <2>1. /\ Len(stack') = Len(stack) - 1 /\ realMode' = realMode
        /\ \A k \in 1 .. Len(stack) - 1 : stack'[k] = stack[k + 1]
    BY <1>3, Popped
  <2>2. i \in 1 .. Len(stack) - 1 /\ i + 1 \in DOMAIN stack
    BY <2>1, <1>p, <1>q
  <2>3. stack'[i] = stack[i + 1] /\ Right(stack[i + 1], realMode)
    BY <2>1, <2>2, <1>o
  <2> HIDE DEF Right
  <2> QED BY <2>1, <2>3
<1>4. CASE Shell
  <2>1. Len(stack') = 1 /\ stack'[1].line = NoLine
    BY <1>4, ByHand
  <2>2. i = 1
    BY <2>1, <1>q
  <2> QED BY <2>1, <2>2 DEF NoLine
<1>5. CASE Outside
  BY <1>5 DEF Outside
<1>6. CASE UNCHANGED <<stack, iflag, isr, pc, realMode, offset, installed>>
  BY <1>6, <1>o
<1> QED BY <1>o, <1>1, <1>2, <1>3, <1>4, <1>5, <1>6, StackCases

(* The end of an interrupt releases the line that is in service.           *)
LEMMA EoiReleases ==
  ASSUME TypeOK, Service, Quiet,
         NEW s \in isr, Chip(s) = 1, s # Cascade
  PROVE  s \notin AfterEoi(1)
<1> DEFINE serving == {x \in isr : Chip(x) = 1}
<1>1. stack # <<>> /\ stack[1].line = s
  BY DEF Service
<1>2. serving \subseteq {s, Cascade} /\ s \in serving
  BY <1>1 DEF Service
<1>3. s \in 0 .. 7
  BY VectorTyped DEF TypeOK
<1>4. Min(serving) = s
  <2>1. CASE s < 2
    <3>1. s \in serving /\ \A y \in serving : s <= y
      BY <1>2, <1>3, <2>1 DEF Cascade
    <3>2. \A x \in serving : (\A y \in serving : x <= y) => x = s
      BY <3>1, <1>2, <1>3, <2>1 DEF Cascade
    <3> HIDE DEF serving
    <3> QED BY <3>1, <3>2 DEF Min
  <2>2. CASE ~(s < 2)
    <3>1. s \in 3 .. 7
      BY <1>3, <2>2 DEF Cascade
    <3>2. Cascade \notin isr
      BY <1>1, <3>1 DEF Quiet
    <3>3. serving = {s}
      BY <1>2, <3>2
    <3>4. s \in serving /\ \A y \in serving : s <= y
      BY <3>3, <1>3
    <3>5. \A x \in serving : (\A y \in serving : x <= y) => x = s
      BY <3>3
    <3> HIDE DEF serving
    <3> QED BY <3>4, <3>5 DEF Min
  <2> QED BY <2>1, <2>2
<1> QED BY <1>2, <1>4 DEF AfterEoi

LEMMA ServiceStep == IInv /\ [Next]_vars => Service'
<1> SUFFICES ASSUME IInv, [Next]_vars,
                    NEW s \in isr', Chip(s) = 1, s # Cascade
             PROVE  /\ stack' # <<>> /\ stack'[1].line = s
                    /\ stack'[1].at \in {"call", "eoi"}
  BY DEF Service, Chip
<1>o. TypeOK /\ TopWaits /\ RightHandler /\ Service /\ Quiet
  BY DEF IInv
<1>t. isr \subseteq AllLines
  BY <1>o DEF TypeOK
<1>s. s \in isr =>
        /\ stack # <<>> /\ stack[1].line = s /\ stack[1].at \in {"call", "eoi"}
        /\ s \in 0 .. 7 /\ Head(stack) = stack[1]
        /\ stack[1].isr \in PicHandlers \cup {"BIOS"}
        /\ stack[1].isr \notin SoftwareHandlers
  <2> SUFFICES ASSUME s \in isr
               PROVE  /\ stack # <<>> /\ stack[1].line = s
                      /\ stack[1].at \in {"call", "eoi"}
                      /\ s \in 0 .. 7 /\ Head(stack) = stack[1]
                      /\ stack[1].isr \in PicHandlers \cup {"BIOS"}
                      /\ stack[1].isr \notin SoftwareHandlers
    OBVIOUS
  <2>1. /\ stack # <<>> /\ stack[1].line = s /\ stack[1].at \in {"call", "eoi"}
    BY <1>o DEF Service
  <2>2. s \in 0 .. 7 /\ Head(stack) = stack[1]
    BY <1>o, <1>t, <2>1, VectorTyped, Places
  <2>3. 1 \in DOMAIN stack
    BY <1>o, <2>1, Top DEF TypeOK
  <2>4. stack[1].isr \in {"BIOS", "clock", "keyboard", "default_pic1"}
    BY <1>o, <2>1, <2>2, <2>3 DEF RightHandler
  <2> QED BY <2>1, <2>2, <2>4 DEF PicHandlers, SoftwareHandlers
<1>1. CASE Inta
  <2>1. PICK l \in Lines : Deliver(l)
    BY <1>1 DEF Inta
  <2>2. /\ stack' # <<>> /\ stack'[1].line = l /\ stack'[1].at = "call"
        /\ iflag
    BY <2>1, DeliverFacts
  <2>3. s \notin isr
    BY <1>s, <2>2, <1>o DEF TopWaits
  <2>4. s = l
    BY <2>1, <2>3 DEF Deliver
  <2> QED BY <2>2, <2>4
<1>2. CASE CallIsr
  <2>1. s \in isr /\ stack # <<>>
    BY <1>2 DEF CallIsr, At
  <2>2. Head(stack).isr \in PicHandlers \cup {"BIOS"}
    BY <2>1, <1>s
  <2>3. Goto("eoi")
    BY <1>2, <2>2 DEF CallIsr, Isr, PicHandlers
  <2> QED BY <2>1, <2>3, <1>o, <1>s, Moved
<1>3. CASE EndOfInterrupt
  <2>1. s \in AfterEoi(1) /\ s \in isr
    BY <1>3, EoiRemoves DEF EndOfInterrupt
  <2> QED BY <2>1, <1>o, EoiReleases
<1>4. CASE BiosEndOfInterrupt
  <2>1. s \in AfterEoi(1) /\ s \in isr
    BY <1>4, EoiRemoves DEF BiosEndOfInterrupt
  <2> QED BY <2>1, <1>o, EoiReleases
<1>5. CASE EnableAndWait
  BY <1>5, <1>s DEF EnableAndWait, Isr, At
<1>6. CASE WaitEnds
  BY <1>6, <1>s DEF WaitEnds, At
<1>7. CASE Iret
  BY <1>7, <1>s, Popped
<1>8. CASE Shell
  BY <1>8, <1>s, ByHand
<1>9. CASE Boot \/ BiosCall
  BY <1>9, <1>s, OutsideStep DEF Outside
<1>10. CASE Device \/ UNCHANGED vars
  BY <1>10, <1>s DEF Device, Raise, vars, pics
<1> QED BY <1>1, <1>2, <1>3, <1>4, <1>5, <1>6, <1>7, <1>8, <1>9, <1>10
        DEF Next, Processor, RunHandler

LEMMA QuietStep == IInv /\ [Next]_vars => Quiet'
<1> SUFFICES ASSUME IInv, [Next]_vars, stack' # <<>>,
                    stack'[1].line \in 3 .. 7, stack'[1].line \in isr'
             PROVE  Cascade \notin isr'
  BY DEF Quiet
<1>o. TypeOK /\ Service /\ Quiet
  BY DEF IInv
<1>1. CASE Inta
  <2>1. PICK l \in Lines : Deliver(l)
    BY <1>1 DEF Inta
  <2>2. stack'[1].line = l /\ Unblocked(l) /\ l \in 3 .. 7
    BY <2>1, DeliverFacts
  <2>3. isr' = isr \cup {l}
    BY <2>1, <2>2 DEF Deliver, Chip
  <2>4. Cascade \notin isr
    BY <2>2 DEF Unblocked, Chip, Cascade
  <2> QED BY <2>2, <2>3, <2>4 DEF Cascade
<1>2. CASE Within
  <2>1. stack # <<>> /\ stack'[1].line = stack[1].line /\ isr' \subseteq isr
    BY <1>2, WithinFacts
  <2> QED BY <2>1, <1>o DEF Quiet
<1>3. CASE Iret
  <2>1. stack[1].at = "iret" /\ isr' = isr
    BY <1>3, Popped
  <2>2. stack'[1].line \in isr /\ Chip(stack'[1].line) = 1
        /\ stack'[1].line # Cascade
    BY <2>1 DEF Chip, Cascade
  <2> QED BY <2>1, <2>2, <1>o DEF Service
<1>4. CASE Shell
  BY <1>4, ByHand DEF NoLine
<1>5. CASE Outside
  BY <1>5 DEF Outside
<1>6. CASE UNCHANGED <<stack, iflag, isr, pc, realMode, offset, installed>>
  BY <1>6, <1>o DEF Quiet
<1> QED BY <1>o, <1>1, <1>2, <1>3, <1>4, <1>5, <1>6, StackCases

-----------------------------------------------------------------------------
LEMMA Invariance == Spec => []IInv
<1>1. IInv /\ [Next]_vars => IInv'
  BY TypeStep, DepthStep, TopWaitsStep, StageStep, RightHandlerStep,
     ServiceStep, QuietStep DEF IInv
<1> QED BY InitInvariant, <1>1, PTL DEF Spec

(* Every variable keeps its type: the controllers only ever have the three *)
(* settings of pic_8259A.c and int32.asm, with any mask.                   *)
THEOREM TypeCorrect == Spec => []TypeOK
<1>1. IInv => TypeOK
  BY DEF IInv
<1> QED BY <1>1, Invariance, PTL

(* With any devices, whatever vector the shell calls and whenever, no      *)
(* handler of a device is entered under another: the stack that the kernel *)
(* needs for interrupts is bounded.                                        *)
THEOREM NoNesting == Spec => []HandlersDoNotNest
<1>1. IInv => HandlersDoNotNest
  <2> SUFFICES ASSUME IInv, NEW i \in DOMAIN stack, NEW j \in DOMAIN stack,
                      stack[i].isr \notin SoftwareHandlers,
                      stack[j].isr \notin SoftwareHandlers
               PROVE  i = j
    BY DEF HandlersDoNotNest
  <2>1. stack \in Seq(Frames) /\ DOMAIN stack = 1 .. Len(stack)
        /\ Len(stack) \in Nat /\ Len(stack) <= 2
    BY DEF IInv, TypeOK, Depth
  <2>2. i \in 1 .. 2 /\ j \in 1 .. 2 /\ (i = 2 \/ j = 2 => Len(stack) = 2)
    BY <2>1
  <2>3. i # 2 /\ j # 2
    BY <2>2 DEF IInv, BelowWaits
  <2> QED BY <2>2, <2>3
<1> QED BY <1>1, Invariance, PTL

(* No line of the first controller is left in service by a handler that    *)
(* returned, so none is blocked for ever.                                  *)
THEOREM Released == Spec => []LinesReleased
<1>1. IInv => LinesReleased
  <2> SUFFICES ASSUME IInv, NEW l \in isr, Chip(l) = 1, l # Cascade
               PROVE  \E i \in DOMAIN stack :
                        stack[i].line = l /\ stack[i].at # "iret"
    BY DEF LinesReleased
  <2>1. stack # <<>> /\ stack[1].line = l /\ stack[1].at # "iret"
    BY DEF IInv, Service
  <2>2. 1 \in DOMAIN stack
    BY <2>1, Top DEF IInv, TypeOK
  <2> QED BY <2>1, <2>2
<1> QED BY <1>1, Invariance, PTL

(* An interrupt of the first controller reaches the handler of its device, *)
(* before, during and after a BIOS call.                                   *)
THEOREM Reaches == Spec => []RightHandler
<1>1. IInv => RightHandler
  BY DEF IInv
<1> QED BY <1>1, Invariance, PTL
=============================================================================
