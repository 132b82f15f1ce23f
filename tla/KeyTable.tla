------------------------------ MODULE KeyTable ------------------------------
(***************************************************************************)
(* keyboard_scancode_std (arch/x86/lib/keyboard.c): what the driver finds  *)
(* for a scan code.  The table has a row per code from 0x00 to 0x49 and    *)
(* from 0x50 to 0x58, and none for the codes between; it is read at the    *)
(* row whose number is the code.                                           *)
(***************************************************************************)
EXTENDS Integers

Break == 128   (* 0x80: added to a make code when the key is released      *)
ACK == 250     (* 0xFA: the keyboard's answer to a command byte            *)

MakeCodes == 1 .. 88
RowCount == 83

(* The code a row is written for: rows 0x4a to 0x4f are missing.           *)
Label(row) == IF row <= 73 THEN row ELSE row + 6
Outside == -1  (* in place of a label: what lies after the table           *)

Modifiers == {"ctrl", "shift", "alt"}
Locks == {"capslock", "numlock", "scrolllock"}
Keys == Modifiers \cup Locks \cup {"character"}

Key(label) ==
  CASE label = 29       -> "ctrl"
    [] label \in {42, 54} -> "shift"
    [] label = 56       -> "alt"
    [] label = 58       -> "capslock"
    [] label = 69       -> "numlock"
    [] label = 70       -> "scrolllock"
    [] OTHER            -> "character"

(* What reading the table for a make code finds: the entry of its row, or  *)
(* whatever the linker put after the table.                                *)
Entries == [key : Keys, label : -1 .. 88]

Found(code) ==
  IF code < RowCount
  THEN {[key |-> Key(Label(code)), label |-> Label(code)]}
  ELSE {[key |-> k, label |-> Outside] : k \in Keys}

(* Digits, letters and punctuation differ between the two columns.         *)
TwoForms == (2 .. 13) \cup (16 .. 27) \cup (30 .. 41) \cup (43 .. 53)

(* A character is the row it was read from, and its column.                *)
Chars == (-1 .. 88) \X BOOLEAN
Char(label, upper) == <<label, upper /\ label \in TwoForms>>
=============================================================================
