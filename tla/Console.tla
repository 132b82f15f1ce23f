------------------------------ MODULE Console ------------------------------
(***************************************************************************)
(* The terminal (arch/x86/lib/tty.c) on the text screen of the VGA         *)
(* (arch/x86/lib/vga.c).  A step prints one character: tty_putchar runs    *)
(* whole, because no interrupt handler prints.                             *)
(***************************************************************************)
EXTENDS Integers, Sequences

CONSTANTS
  Width, Height,  (* vga.width and vga.height                              *)
  Word,           (* size_t counts modulo this, which is 2^32 in the code  *)
  Glyphs,         (* the characters that are drawn                         *)
  MaxRow          (* bound: a row below the screen is followed down to here *)

CR == "\r"
LF == "\n"
TAB == "\t"
BS == "backspace"
BELL == "bell"
DEL == "delete"
NUL == "NUL"
SPACE == " "
Controls == {CR, LF, TAB, BS, BELL, DEL}
Chars == Glyphs \cup Controls

ASSUME ConsoleAssumption ==
  /\ Width \in Nat /\ Width > 1
  /\ Height \in Nat /\ Height > 1
  /\ Word \in Nat /\ Word % 4 = 0 /\ Word > Width * Height
  /\ {SPACE, NUL} \subseteq Glyphs /\ Glyphs \cap Controls = {}
  /\ MaxRow \in Nat /\ MaxRow > Height

VARIABLES
  row, column,  (* of tty.c                                                *)
  cells,        (* vga.bufaddr, as far as it is shown                      *)
  out,          (* what is still to be printed                             *)
  strayed       (* history: a line feed found the cursor in column Width   *)

screen == <<row, column, cells>>
consoleVars == <<screen, out, strayed>>

Shown == 0 .. Width * Height - 1

(* vga_clearscreen.                                                        *)
Blank == [i \in Shown |-> SPACE]

(* Mutant of Place: the rows are as far apart as the screen is high.       *)
PlaceMutant(x, y) == (y * Height + x) % Word

(* vga_putchar: a place outside the screen is not followed.                *)
Place(x, y) == (y * Width + x) % Word
Drawn(c, x, y) == [i \in Shown |-> IF i = Place(x, y) THEN c ELSE cells[i]]

(* vga_scrollup.                                                           *)
ScrolledUp(shown) ==
  [i \in Shown |-> IF i + Width \in Shown THEN shown[i + Width] ELSE SPACE]

(* Mutant of ScrollIfNeeded: the bottom is tested before the wrap.         *)
ScrollIfNeededMutant(x, y, shown) ==
  LET wraps == x = Width
      leaves == y = Height
  IN /\ column' = IF wraps THEN 0 ELSE x
     /\ row' = (IF wraps THEN y + 1 ELSE y) - (IF leaves THEN 1 ELSE 0)
     /\ cells' = IF leaves THEN ScrolledUp(shown) ELSE shown

(* scrollifneeded, with the cursor at x, y: both tests are for equality.   *)
ScrollIfNeeded(x, y, shown) ==
  LET wraps == x = Width
      below == IF wraps THEN y + 1 ELSE y
      leaves == below = Height
  IN /\ column' = IF wraps THEN 0 ELSE x
     /\ row' = IF leaves THEN below - 1 ELSE below
     /\ cells' = IF leaves THEN ScrolledUp(shown) ELSE shown

-----------------------------------------------------------------------------
(* tty_putchar, for the character at the head of out.                      *)

Printing(c) == out # <<>> /\ Head(out) = c /\ row < MaxRow
Printed == out' = Tail(out)

CarriageReturn ==
  /\ Printing(CR) /\ Printed
  /\ column' = 0
  /\ UNCHANGED <<row, cells, strayed>>

LineFeed ==
  /\ Printing(LF) /\ Printed
  /\ ScrollIfNeeded(column, row + 1, cells)
  /\ strayed' = (strayed \/ column = Width)

(* Spaces up to the next multiple of four.                                 *)
Spaces(count) == [i \in 1 .. count |-> SPACE]
Tabulate ==
  /\ Printing(TAB)
  /\ out' = Spaces(4 - (column % 4)) \o Tail(out)
  /\ UNCHANGED <<screen, strayed>>

(* Back from the first column, the cursor goes behind the last one.        *)
BackX == IF column = 0 /\ row # 0 THEN Width ELSE (column - 1) % Word
BackY == IF column = 0 /\ row # 0 THEN row - 1 ELSE row

Backspace ==
  /\ Printing(BS) /\ Printed
  /\ column' = BackX /\ row' = BackY
  /\ cells' = Drawn(SPACE, BackX, BackY)
  /\ UNCHANGED strayed

(* Bell and delete do nothing yet.                                         *)
Ignore ==
  /\ \E c \in {BELL, DEL} : Printing(c)
  /\ Printed
  /\ UNCHANGED <<screen, strayed>>

Draw ==
  /\ \E c \in Glyphs :
       /\ Printing(c) /\ Printed
       /\ ScrollIfNeeded((column + 1) % Word, row, Drawn(c, column, row))
  /\ UNCHANGED strayed

(* tty_initialize.                                                         *)
ConsoleInit ==
  /\ row = 0 /\ column = 0 /\ cells = Blank
  /\ out = <<>> /\ strayed = FALSE

tty_putchar ==
  CarriageReturn \/ LineFeed \/ Tabulate \/ Backspace \/ Ignore \/ Draw
=============================================================================
