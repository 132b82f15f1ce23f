------------------------- MODULE KeyboardInputProps -------------------------
(* What the keyboard and input_get_char get right, and what they do not.   *)
EXTENDS KeyboardInput

CodesQueued == [code : Keyboard \cup {k + Break : k \in Keyboard} \cup {ACK},
                press : 0 .. MaxPresses]

(* Every variable has its type.                                            *)
TypeOK ==
  /\ patient \in BOOLEAN /\ down \subseteq Keyboard
  /\ typed \in Seq([code : Keyboard, shifted : BOOLEAN])
  /\ Len(typed) <= MaxPresses
  /\ queue \in Seq(CodesQueued)
  /\ held \subseteq Modifiers /\ locks \subseteq Locks
  /\ driver_kbd_inputc \in Keystrokes
  /\ driver_kbd_inputavailable \in BOOLEAN
  /\ pc \in {"app", "int81", "test", "hlt", "halted", "read", "clear"}
  /\ c \in Keystrokes
  /\ got \in Seq(Keystrokes)

(* The flag tells the truth: when it is set the slot holds a keystroke     *)
(* that getc has not returned, unless getc has just read it; and once getc *)
(* has passed the wait the flag stays set until getc clears it, so that    *)
(* what getc reads is a keystroke and never the '\0' it started with.      *)
FlagIsTrue ==
  /\ driver_kbd_inputavailable =>
       \A i \in DOMAIN got : got[i].press < driver_kbd_inputc.press
  /\ pc \in {"read", "clear"} => driver_kbd_inputavailable
  /\ driver_kbd_inputavailable => driver_kbd_inputc.press > 0

(* getc returns keystrokes in the order of the presses and each at most    *)
(* once, although the interrupt handler may replace the character between  *)
(* any two of its steps.                                                   *)
InOrder ==
  \A i, j \in DOMAIN got : i < j => got[i].press < got[j].press

(* No lock key has been pressed, none that the table has no row or another *)
(* key's row for, and only one of the two Shift keys.                      *)
OnlyPlainKeys ==
  /\ \A n \in DOMAIN typed : /\ Key(typed[n].code) \notin Locks
                            /\ Label(typed[n].code) = typed[n].code
  /\ \A m, n \in DOMAIN typed :
       {typed[m].code, typed[n].code} \subseteq ShiftKeys => typed[m].code = typed[n].code

(* What getc returns for a press is the character of that key, in the      *)
(* column the user chose by holding Shift at the moment of the press, no   *)
(* matter how late its scan code is read.                                  *)
CharIsMeant ==
  OnlyPlainKeys => \A i \in DOMAIN got :
    /\ got[i].press \in DOMAIN typed
    /\ LET press == typed[got[i].press]
       IN got[i].char = Char(press.code, press.shifted)

(* A character in the slot is always consumed: hlt may be reached after    *)
(* the keyboard's interrupt has come and gone, but never sleeps on it for  *)
(* ever, because the clock's interrupt wakes it.                           *)
SlotIsEmptied == driver_kbd_inputavailable ~> ~driver_kbd_inputavailable

(* A user who waits for each character before typing the next loses none:  *)
(* every key that has a character is returned by getc in the end.  A key   *)
(* beyond the table may give one or not, so the user cannot wait for it.   *)
PatientLosesNothing ==
  \A n \in 1 .. MaxPresses :
    (patient /\ n \in DOMAIN typed /\ typed[n].code \in CharacterKeys)
      ~> \/ \E i \in DOMAIN got : got[i].press = n
         \/ \E m \in DOMAIN typed : typed[m].code >= RowCount

(* The channel getc promises.  The character is taken when getc reads it.  *)
Taken == IF pc = "clear" THEN Append(got, c) ELSE got
Channel == INSTANCE KeyChannel WITH
  latest <- driver_kbd_inputc,
  pending <- driver_kbd_inputavailable
             /\ ~(pc = "clear" /\ c.press = driver_kbd_inputc.press),
  received <- Taken

(* getc and the interrupt handler implement the channel: keystrokes may be *)
(* lost, but are never repeated, reordered, invented or changed.           *)
ImplementsChannel == Channel!Spec
=============================================================================
