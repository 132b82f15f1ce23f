--------------------------- MODULE KeyboardInput ----------------------------
(***************************************************************************)
(* The way of a key from the keyboard to getc: the keyboard's interrupt    *)
(* handler (arch/x86/lib/keyboard.c), the one character it leaves behind,  *)
(* and input_get_char with the software interrupt that waits for it        *)
(* (arch/x86/lib/input.c).  The handler runs whole, with interrupts off;   *)
(* it may run between any two steps of input_get_char but where int 0x81   *)
(* has turned interrupts off.                                              *)
(***************************************************************************)
EXTENDS KeyTable, Sequences

CONSTANTS
  Keyboard,   (* the make codes of the keys the user has                   *)
  MaxPresses, (* bound: keys pressed, automatic repeats included           *)
  MaxQueue    (* bound: scan codes the user leaves waiting                 *)

ASSUME KeyboardAssumption ==
  /\ Keyboard \subseteq MakeCodes
  /\ MaxPresses \in Nat /\ MaxQueue \in Nat

VARIABLES
  patient,  (* whether the user waits for a character before the next      *)
  down,     (* the keys the user holds down                                *)
  typed,    (* history: every press, [code, shifted by a key held down]    *)
  queue,    (* scan codes the controller holds: [code, press]              *)
  held,     (* the driver's shift, alt and ctrl: those that are true       *)
  locks,    (* its capslock, numlock and scrolllock: those that are true   *)
  driver_kbd_inputc,          (* with the number of the press it is from   *)
  driver_kbd_inputavailable,
  pc,       (* where the reader is: "app" is outside input_get_char        *)
  c,        (* the local of input_get_char                                 *)
  got       (* history: what input_get_char returned                       *)

user == <<patient, down, typed>>
driver == <<held, locks>>
slot == <<driver_kbd_inputc, driver_kbd_inputavailable>>
reader == <<c, got>>
vars == <<user, queue, driver, slot, pc, reader>>

Keystrokes == [char : Chars, press : 0 .. MaxPresses]
None == [char |-> Char(0, FALSE), press |-> 0]   (* '\0' *)

Code(code, press) == [code |-> code, press |-> press]

-----------------------------------------------------------------------------
(* The user, and the keyboard.                                             *)

ShiftKeys == {code \in MakeCodes : Key(code) = "shift"}

(* The keys that give a character: Delete, 0x53, is beyond the table.      *)
CharacterKeys ==
  {code \in MakeCodes : Key(code) = "character" /\ code < RowCount}

Waits ==
  /\ patient
  /\ \E n \in DOMAIN typed :
       /\ typed[n].code \in CharacterKeys
       /\ \A i \in DOMAIN got : got[i].press # n

(* A key goes down, or is held down long enough to repeat.                 *)
Press(code) ==
  /\ Len(typed) < MaxPresses /\ Len(queue) < MaxQueue /\ ~Waits
  /\ down' = down \cup {code}
  /\ typed' = Append(typed, [code |-> code,
                             shifted |-> down \cap ShiftKeys # {}])
  /\ queue' = Append(queue, Code(code, Len(typed) + 1))
  /\ UNCHANGED <<patient, driver, slot, pc, reader>>

Release(code) ==
  /\ code \in down /\ Len(queue) < MaxQueue
  /\ down' = down \ {code}
  /\ queue' = Append(queue, Code(code + Break, 0))
  /\ UNCHANGED <<patient, typed, driver, slot, pc, reader>>

-----------------------------------------------------------------------------
(* isr_keyboard_int.                                                       *)

InterruptsEnabled == pc # "int81"

(* Any interrupt ends hlt. *)
Woken == IF pc = "halted" THEN "test" ELSE pc

(* The keyboard answers each of the two bytes of keyboard_setleds.         *)
Acks == <<Code(ACK, 0), Code(ACK, 0)>>

BreakKey(entry) ==
  /\ held' = held \ {entry.key}
  /\ queue' = Tail(queue)
  /\ UNCHANGED <<locks, slot>>

ModifierKey(entry) ==
  /\ entry.key \in Modifiers
  /\ held' = held \cup {entry.key}
  /\ queue' = Tail(queue)
  /\ UNCHANGED <<locks, slot>>

LedKey(entry) ==
  /\ entry.key \in Locks
  /\ locks' = (locks \cup {entry.key}) \ (locks \cap {entry.key})
  /\ queue' = Tail(queue) \o Acks
  /\ UNCHANGED <<held, slot>>

(* Mutant of Upper: Shift is forgotten. *)
UpperMutant == "capslock" \in locks

Upper == "capslock" \in locks \/ "shift" \in held

CharacterKey(entry) ==
  /\ entry.key = "character"
  /\ driver_kbd_inputc' = [char |-> Char(entry.label, Upper),
                           press |-> Head(queue).press]
  /\ driver_kbd_inputavailable' = TRUE
  /\ queue' = Tail(queue)
  /\ UNCHANGED driver

isr_keyboard_int ==
  /\ InterruptsEnabled
  /\ queue # <<>>
  /\ LET code == Head(queue).code IN
     IF code >= Break
     THEN \E entry \in Found(code - Break) : BreakKey(entry)
     ELSE \E entry \in Found(code) :
            ModifierKey(entry) \/ LedKey(entry) \/ CharacterKey(entry)
  /\ pc' = Woken
  /\ UNCHANGED <<user, reader>>

(* The clock's interrupt touches nothing here, but ends hlt too.           *)
ClockInterrupt ==
  /\ pc = "halted"
  /\ pc' = Woken
  /\ UNCHANGED <<user, queue, driver, slot, reader>>

-----------------------------------------------------------------------------
(* input_get_char, and isr_kbd_getinput_int which it calls by int 0x81.    *)

Goto(from, to) ==
  /\ pc = from /\ pc' = to
  /\ UNCHANGED <<user, queue, driver>>

(* Mutant of input_get_char: drops what is in the slot before it waits. *)
input_get_charMutant ==
  /\ Goto("app", "int81")
  /\ driver_kbd_inputavailable' = FALSE
  /\ UNCHANGED <<driver_kbd_inputc, reader>>

input_get_char == Goto("app", "int81") /\ UNCHANGED <<slot, reader>>

sti == Goto("int81", "test") /\ UNCHANGED <<slot, reader>>

TestAvailable ==
  /\ driver_kbd_inputavailable
  /\ Goto("test", "read")
  /\ UNCHANGED <<slot, reader>>

(* Mutant of TestUnavailable: halts without a test. *)
TestUnavailableMutant == Goto("test", "hlt") /\ UNCHANGED <<slot, reader>>

TestUnavailable ==
  /\ ~driver_kbd_inputavailable
  /\ Goto("test", "hlt")
  /\ UNCHANGED <<slot, reader>>

hlt == Goto("hlt", "halted") /\ UNCHANGED <<slot, reader>>

ReadChar ==
  /\ Goto("read", "clear")
  /\ c' = driver_kbd_inputc
  /\ UNCHANGED <<slot, got>>

(* Mutant of ClearAvailable: the flag stays set. *)
ClearAvailableMutant ==
  /\ Goto("clear", "app")
  /\ got' = Append(got, c)
  /\ UNCHANGED <<slot, c>>

ClearAvailable ==
  /\ Goto("clear", "app")
  /\ driver_kbd_inputavailable' = FALSE
  /\ got' = Append(got, c)
  /\ UNCHANGED <<driver_kbd_inputc, c>>

-----------------------------------------------------------------------------
(* keyboard_init sets the LEDs before interrupts are on: the answers wait. *)
Init ==
  /\ patient \in BOOLEAN /\ down = {} /\ typed = <<>>
  /\ queue = Acks
  /\ held = {} /\ locks = {}
  /\ driver_kbd_inputc = None /\ driver_kbd_inputavailable = FALSE
  /\ pc = "app" /\ c = None /\ got = <<>>

User == \E code \in Keyboard : Press(code) \/ Release(code)

Reader ==
  \/ input_get_char \/ sti \/ TestAvailable \/ TestUnavailable \/ hlt
  \/ ReadChar \/ ClearAvailable

Next == User \/ isr_keyboard_int \/ ClockInterrupt \/ Reader

Spec == Init /\ [][Next]_vars

(* The processor executes, the shell calls getc again and again, and       *)
(* interrupts that are raised and enabled are delivered.  The user may     *)
(* stop typing.                                                            *)
FairSpec ==
  Spec /\ WF_vars(Reader) /\ WF_vars(isr_keyboard_int) /\ WF_vars(ClockInterrupt)
=============================================================================
