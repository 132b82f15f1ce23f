----------------------------- MODULE KeyChannel -----------------------------
(***************************************************************************)
(* What getc promises its caller, with no interrupt and no flag: a channel *)
(* that may lose keystrokes and does nothing worse.  A keystroke is put in *)
(* the place of the one before, is taken at most once, and what is taken   *)
(* is what was put.                                                        *)
(***************************************************************************)
EXTENDS Integers, Sequences

VARIABLES
  latest,   (* the keystroke put last                                      *)
  pending,  (* whether it can still be taken                               *)
  received  (* the keystrokes taken, in order                              *)

(* A keystroke is a record; its field "press" numbers the presses.         *)
Init == latest.press = 0 /\ ~pending /\ received = <<>>

Put ==
  /\ latest'.press > latest.press
  /\ pending'
  /\ UNCHANGED received

Take ==
  /\ pending /\ ~pending'
  /\ received' = Append(received, latest)
  /\ UNCHANGED latest

Lose ==
  /\ pending /\ ~pending'
  /\ UNCHANGED <<latest, received>>

Next == Put \/ Take \/ Lose

Spec == Init /\ [][Next]_<<latest, pending, received>>
=============================================================================
