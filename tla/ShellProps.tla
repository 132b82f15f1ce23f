----------------------------- MODULE ShellProps -----------------------------
(* What the console and the shell get right, and what they do not.         *)
EXTENDS Shell

PCs == {"main", "getdelim", "ended", "split", "overrun", "execute", "off"}

(* Every variable has its type: in particular getdelim never stores        *)
(* outside its buffer, and backspace never goes before it.                 *)
TypeOK ==
  /\ row \in Nat /\ column \in 0 .. Word - 1
  /\ cells \in [Shown -> Glyphs]
  /\ out \in Seq(Chars) /\ strayed \in BOOLEAN
  /\ line \in [Positions -> Chars]
  /\ n \in 0 .. Size /\ (pc = "getdelim" => n < Size)
  /\ argv \in Seq(Positions) /\ Len(argv) <= MaxArgs + 1
  /\ pc \in PCs
  /\ entered \in [Positions -> Chars] /\ plain \in BOOLEAN

(* The row stays on the screen although scrollifneeded tests for equality  *)
(* and tests the column before the row: a cursor behind the last column,   *)
(* where backspace puts it, is the only one a line feed moves two rows.    *)
RowOnScreen == ~strayed => row < Height

(* Whatever was typed and removed, and however often the screen scrolled   *)
(* in between, the cells before the cursor show the line that getdelim     *)
(* will return; keys that are no glyphs apart, and unless backspace was    *)
(* pressed in the first column.                                            *)
LineShown ==
  At("getdelim") /\ plain =>
    /\ column < Width
    /\ \A i \in 0 .. n - 1 :
         LET place == row * Width + column - (n - i)
         IN place >= 0 => cells[place] = line[i]

(* Wherever an argument begins, its string ends inside the buffer, also    *)
(* when getdelim filled it to the last byte: strchr, strcmp and printf     *)
(* never read on behind it.                                                *)
StringsEnd ==
  \A k \in 1 .. Len(argv) : \E end \in argv[k] .. LineMax : line[end] = NUL

(* The entered line is the part before the first NUL.                      *)
InEntered(i) == \A j \in 0 .. i : entered[j] # NUL

(* Where a word begins: behind a space, and at the start of the line even  *)
(* if that is a space.                                                     *)
WordStarts ==
  {i \in Positions :
     \/ i = 0
     \/ InEntered(i) /\ entered[i - 1] = SPACE /\ entered[i] # SPACE}

(* A command is executed with the words of the line as its arguments: none *)
(* lost, none empty but the first, in their order, each ending where its   *)
(* word does.                                                              *)
ArgumentsAreWords ==
  pc = "execute" =>
    /\ {argv[k] : k \in 1 .. Len(argv)} = WordStarts
    /\ \A k \in 1 .. Len(argv) - 1 : argv[k] < argv[k + 1]
    /\ \A k \in 1 .. Len(argv) : \E end \in argv[k] .. LineMax :
         /\ entered[end] \in {SPACE, NUL} /\ line[end] = NUL
         /\ \A i \in argv[k] .. end - 1 :
              entered[i] \notin {SPACE, NUL} /\ line[i] = entered[i]

(* "SHELL_ARGS_MAX_NB  10" (src/shell/shell.c:9): shell_split_line stores  *)
(* no more arguments than its caller's array holds.  It does: the test     *)
(* counts argv[0] as if it came on top.                                    *)
ArgvHoldsArguments == Len(argv) <= MaxArgs
=============================================================================
