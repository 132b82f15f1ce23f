---------------------------- MODULE ShellProofs ----------------------------
(* For every screen, buffer and array: types, the row, the strings and the *)
(* arguments, and the line that the screen shows.                          *)
EXTENDS ShellProps, WellFoundedInduction, TLAPS

USE ConsoleAssumption, ShellAssumption

-----------------------------------------------------------------------------
(* The types, one part per variable that steps disturb.                    *)

ScreenTypeOK ==
  /\ row \in Nat /\ column \in 0 .. Word - 1
  /\ cells \in [Shown -> Glyphs] /\ strayed \in BOOLEAN

OutTypeOK == out \in Seq(Chars)

ShellTypeOK ==
  /\ line \in [Positions -> Chars]
  /\ n \in 0 .. Size /\ (pc = "getdelim" => n < Size)
  /\ argv \in Seq(Positions) /\ Len(argv) <= MaxArgs + 1
  /\ pc \in PCs
  /\ entered \in [Positions -> Chars] /\ plain \in BOOLEAN

(* There are arguments as soon as the line is split, and not before.       *)
Split == {"split", "overrun", "execute", "off"}
ArgvFilled == pc \in Split <=> argv # <<>>

(* Nothing is read outside getdelim.                                       *)
AtRest == pc = "main" => n = 0

TypeInv == ScreenTypeOK /\ OutTypeOK /\ ShellTypeOK /\ ArgvFilled /\ AtRest

LEMMA CharFacts ==
  /\ {SPACE, NUL} \subseteq Glyphs /\ Glyphs \subseteq Chars
  /\ {CR, LF, TAB, BS, BELL, DEL} \subseteq Chars
BY DEF Chars, Controls

(* size_t arithmetic stays below Word.                                     *)
LEMMA WordRange ==
  ASSUME NEW x \in Int
  PROVE  x % Word \in 0 .. Word - 1
OBVIOUS

(* What the screen's steps make of the cells has their type.               *)
LEMMA CellTypes ==
  ASSUME cells \in [Shown -> Glyphs]
  PROVE  /\ \A c \in Glyphs : \A x, y : Drawn(c, x, y) \in [Shown -> Glyphs]
         /\ \A s \in [Shown -> Glyphs] : ScrolledUp(s) \in [Shown -> Glyphs]
         /\ Blank \in [Shown -> Glyphs]
BY CharFacts DEF Drawn, ScrolledUp, Blank

(* scrollifneeded keeps the screen's types.                                *)
LEMMA ScrollTypes ==
  ASSUME NEW x \in 0 .. Word - 1, NEW y \in Nat,
         NEW s \in [Shown -> Glyphs], cells \in [Shown -> Glyphs],
         ScrollIfNeeded(x, y, s)
  PROVE  /\ row' \in Nat /\ column' \in 0 .. Word - 1
         /\ cells' \in [Shown -> Glyphs]
<1>1. ScrolledUp(s) \in [Shown -> Glyphs]
  BY CellTypes
<1>2. 0 \in 0 .. Word - 1
  OBVIOUS
<1> QED BY <1>1, <1>2 DEF ScrollIfNeeded

(* Printing leaves fewer characters, of the same type.                     *)
LEMMA PrintedType ==
  ASSUME OutTypeOK, out # <<>>, Printed
  PROVE  OutTypeOK'
BY DEF OutTypeOK, Printed

LEMMA PutcharTypes ==
  ASSUME ScreenTypeOK, OutTypeOK, tty_putchar
  PROVE  ScreenTypeOK' /\ OutTypeOK'
<1> USE DEF ScreenTypeOK
<1>1. CASE CarriageReturn
  <2>1. 0 \in 0 .. Word - 1 OBVIOUS
  <2>2. OutTypeOK' BY <1>1, PrintedType DEF CarriageReturn, Printing
  <2> QED BY <1>1, <2>1, <2>2 DEF CarriageReturn
<1>2. CASE LineFeed
  <2>1. OutTypeOK' BY <1>2, PrintedType DEF LineFeed, Printing
  <2>2. row + 1 \in Nat BY DEF ScreenTypeOK
  <2>3. ScrollIfNeeded(column, row + 1, cells) BY <1>2 DEF LineFeed
  <2>4. /\ row' \in Nat /\ column' \in 0 .. Word - 1
        /\ cells' \in [Shown -> Glyphs]
    BY <2>2, <2>3, ScrollTypes
  <2>5. strayed' \in BOOLEAN BY <1>2 DEF LineFeed
  <2> QED BY <2>1, <2>4, <2>5
<1>3. CASE Tabulate
  <2>1. 4 - (column % 4) \in Nat BY DEF ScreenTypeOK
  <2>2. Spaces(4 - (column % 4)) \in Seq(Chars)
    BY <2>1, CharFacts DEF Spaces
  <2>3. Tail(out) \in Seq(Chars)
    BY <1>3 DEF Tabulate, Printing, OutTypeOK
  <2>4. Spaces(4 - (column % 4)) \o Tail(out) \in Seq(Chars)
    BY <2>2, <2>3
  <2> QED BY <1>3, <2>4 DEF Tabulate, OutTypeOK, screen
<1>4. CASE Backspace
  <2>1. OutTypeOK' BY <1>4, PrintedType DEF Backspace, Printing
  <2>2. (column - 1) % Word \in 0 .. Word - 1
    <3>1. column - 1 \in Int OBVIOUS
    <3> QED BY <3>1, WordRange, Zenon
  <2>3. Width \in 0 .. Word - 1
    <3>1. Width * Height >= Width BY Z3
    <3> QED BY <3>1
  <2>4. BackX \in 0 .. Word - 1 BY <2>2, <2>3 DEF BackX
  <2>5. BackY \in Nat BY DEF BackY
  <2>6. Drawn(SPACE, BackX, BackY) \in [Shown -> Glyphs]
    BY CellTypes, CharFacts
  <2> QED BY <1>4, <2>1, <2>4, <2>5, <2>6 DEF Backspace
<1>5. CASE Ignore
  <2>1. OutTypeOK' BY <1>5, PrintedType DEF Ignore, Printing
  <2> QED BY <1>5, <2>1 DEF Ignore, screen
<1>6. CASE Draw
  <2>1. PICK c \in Glyphs :
          /\ Printing(c) /\ Printed
          /\ ScrollIfNeeded((column + 1) % Word, row, Drawn(c, column, row))
    BY <1>6 DEF Draw
  <2>2. OutTypeOK' BY <2>1, PrintedType DEF Printing
  <2>3. (column + 1) % Word \in 0 .. Word - 1
    <3>1. column + 1 \in Int OBVIOUS
    <3> QED BY <3>1, WordRange, Zenon
  <2>4. Drawn(c, column, row) \in [Shown -> Glyphs] BY CellTypes
  <2>5. /\ row' \in Nat /\ column' \in 0 .. Word - 1
        /\ cells' \in [Shown -> Glyphs]
    BY <2>1, <2>3, <2>4, ScrollTypes
  <2>6. strayed' = strayed BY <1>6 DEF Draw
  <2> QED BY <2>2, <2>5, <2>6
<1> QED BY <1>1, <1>2, <1>3, <1>4, <1>5, <1>6 DEF tty_putchar

-----------------------------------------------------------------------------
(* The shell's steps.                                                      *)

LEMMA SequenceFacts ==
  /\ <<>> \in Seq(Chars) /\ <<>> \in Seq(Positions) /\ Len(<<>>) = 0
  /\ Size \in Nat /\ Size > 1 /\ 0 \in Positions
  /\ Unused \in [Positions -> Chars]
<1>1. Size \in Nat /\ Size > 1 /\ 0 \in Positions
  BY DEF Size, Positions
<1>2. Unused \in [Positions -> Chars]
  BY CharFacts DEF Unused
<1>3. <<>> \in Seq(Chars) /\ <<>> \in Seq(Positions) /\ Len(<<>>) = 0
  OBVIOUS
<1> QED BY <1>1, <1>2, <1>3

(* Storing a character below Size stays in the buffer.                     *)
LEMMA StoreTypes ==
  ASSUME ShellTypeOK, n < Size, NEW c \in Chars, Store(c)
  PROVE  line' \in [Positions -> Chars] /\ n' \in 0 .. Size /\ n' = n + 1
<1>1. n \in Positions
  BY DEF ShellTypeOK, Positions, Size
<1>2. n + 1 \in 0 .. Size
  BY SequenceFacts DEF ShellTypeOK
<1> QED BY <1>1, <1>2 DEF Store, ShellTypeOK

(* Printing a text, the screen left alone.                                 *)
LEMMA PrintTypes ==
  ASSUME ScreenTypeOK, NEW text \in Seq(Chars), Write(text),
         UNCHANGED <<screen, strayed>>
  PROVE  ScreenTypeOK' /\ OutTypeOK'
BY DEF Write, OutTypeOK, ScreenTypeOK, screen

LEMMA QuietTypes ==
  ASSUME ScreenTypeOK, OutTypeOK, UNCHANGED consoleVars
  PROVE  ScreenTypeOK' /\ OutTypeOK'
BY DEF consoleVars, OutTypeOK, ScreenTypeOK, screen

LEMMA ReturnTypes ==
  ASSUME Return
  PROVE  ShellTypeOK' /\ ArgvFilled' /\ AtRest'
<1>1. "main" \in PCs /\ "main" \notin Split /\ "main" # "getdelim"
  BY DEF PCs, Split
<1>2. 0 \in 0 .. Size /\ 0 <= MaxArgs + 1
  BY SequenceFacts
<1> QED BY <1>1, <1>2, SequenceFacts
      DEF Return, Goto, ShellTypeOK, ArgvFilled, AtRest

(* The string that shell_execute prints.                                   *)
LEMMA StringType ==
  ASSUME line \in [Positions -> Chars],
         NEW p \in Positions, NEW end \in Positions, EndsAt(p, end)
  PROVE  StringAt(p, end) \in Seq(Chars)
<1>1. end - p \in Nat
  BY DEF EndsAt, Positions
<1>2. \A i \in 1 .. end - p : p + i - 1 \in Positions
  BY <1>1 DEF Positions
<1> QED BY <1>1, <1>2, SMTT(60) DEF StringAt

(* The last argument and the spaces behind it are in the buffer.           *)
LEMMA LastInBuffer ==
  ASSUME ShellTypeOK, ArgvFilled, pc \in Split
  PROVE  /\ Len(argv) \in 1 .. MaxArgs + 1 /\ Last \in Positions
         /\ argv[1] \in Positions
<1>1. argv # <<>> /\ argv \in Seq(Positions) /\ Len(argv) <= MaxArgs + 1
  BY DEF ArgvFilled, ShellTypeOK
<1> QED BY <1>1 DEF Last

(* TypeInv is inductive: a step per action.                                *)
LEMMA TypeInvStep ==
  ASSUME TypeInv, [Next]_vars
  PROVE  TypeInv'
<1> USE DEF TypeInv
<1>1. CASE PrintStep
  <2>1. ScreenTypeOK' /\ OutTypeOK'
    BY <1>1, PutcharTypes DEF PrintStep
  <2> QED BY <1>1, <2>1
        DEF PrintStep, shellVars, ShellTypeOK, ArgvFilled, AtRest
<1>2. CASE ShellMain
  <2>1. Prompt \in Seq(Chars)
    BY CharFacts
  <2>2. ScreenTypeOK' /\ OutTypeOK'
    BY <1>2, <2>1, PrintTypes DEF ShellMain
  <2>3. pc = "main" /\ n = 0
    BY <1>2 DEF ShellMain, At, AtRest
  <2>4. ShellTypeOK'
    BY <1>2, <2>3, SequenceFacts DEF ShellMain, Goto, ShellTypeOK, PCs
  <2> QED BY <1>2, <2>2, <2>3, <2>4
        DEF ShellMain, Goto, ArgvFilled, AtRest, Split
<1>3. CASE TypeReturn
  <2>1. <<CR, LF>> \in Seq(Chars) /\ CR \in Chars
    BY CharFacts
  <2>2. ScreenTypeOK' /\ OutTypeOK'
    BY <1>3, <2>1, PrintTypes DEF TypeReturn
  <2>3. pc = "getdelim" /\ n < Size
    BY <1>3 DEF TypeReturn, At, ShellTypeOK
  <2>4. line' \in [Positions -> Chars] /\ n' \in 0 .. Size
    BY <1>3, <2>1, <2>3, StoreTypes DEF TypeReturn
  <2>5. ShellTypeOK'
    BY <1>3, <2>4 DEF TypeReturn, Goto, ShellTypeOK, PCs
  <2> QED BY <1>3, <2>2, <2>3, <2>5
        DEF TypeReturn, Goto, ArgvFilled, AtRest, Split
<1>4. CASE TypeBackspace
  <2>1. <<BS>> \in Seq(Chars)
    BY CharFacts
  <2>2. ScreenTypeOK' /\ OutTypeOK'
    BY <1>4, <2>1, PrintTypes DEF TypeBackspace
  <2>3. pc = "getdelim" /\ n < Size /\ n > 0
    BY <1>4 DEF TypeBackspace, At, ShellTypeOK
  <2>4. n - 1 \in 0 .. Size /\ n - 1 < Size
    BY <2>3, SequenceFacts DEF ShellTypeOK
  <2>5. (plain /\ column # 0) \in BOOLEAN
    OBVIOUS
  <2>6. ShellTypeOK'
    BY <1>4, <2>4, <2>5 DEF TypeBackspace, ShellTypeOK
  <2> QED BY <1>4, <2>2, <2>3, <2>6
        DEF TypeBackspace, ArgvFilled, AtRest
<1>5. CASE TypeOther
  <2>1. PICK c \in Typable :
          Store(c) /\ Write(<<c>>) /\ plain' = (plain /\ c \in Glyphs)
    BY <1>5 DEF TypeOther
  <2>2. c \in Chars /\ <<c>> \in Seq(Chars)
    OBVIOUS
  <2>3. ScreenTypeOK' /\ OutTypeOK'
    BY <1>5, <2>1, <2>2, PrintTypes DEF TypeOther
  <2>4. pc = "getdelim" /\ n < Size
    BY <1>5 DEF TypeOther, At, ShellTypeOK
  <2>5. line' \in [Positions -> Chars] /\ n' \in 0 .. Size /\ n' = n + 1
    BY <2>1, <2>2, <2>4, StoreTypes
  <2>6. plain' \in BOOLEAN
    BY <2>1
  <2>7. pc' \in PCs /\ (pc' = "getdelim" => n' < Size)
    BY <1>5, <2>5, SequenceFacts DEF TypeOther, Goto, PCs
  <2>8. ShellTypeOK'
    BY <1>5, <2>5, <2>6, <2>7 DEF TypeOther, ShellTypeOK
  <2> QED BY <1>5, <2>3, <2>4, <2>8
        DEF TypeOther, Goto, ArgvFilled, AtRest, Split
<1>6. CASE EndLine
  <2>1. ScreenTypeOK' /\ OutTypeOK'
    BY <1>6, QuietTypes DEF EndLine
  <2>2. Closed \in [Positions -> Chars]
    BY CharFacts DEF Closed, ShellTypeOK
  <2>3. <<0>> \in Seq(Positions) /\ Len(<<0>>) <= MaxArgs + 1
    BY SequenceFacts
  <2>4. ShellTypeOK'
    BY <1>6, <2>2, <2>3 DEF EndLine, Goto, ShellTypeOK, PCs
  <2> QED BY <1>6, <2>1, <2>4
        DEF EndLine, Goto, ArgvFilled, AtRest, Split
<1>7. CASE EmptyLine
  <2>1. ScreenTypeOK' /\ OutTypeOK'
    BY <1>7, QuietTypes DEF EmptyLine
  <2> QED BY <1>7, <2>1, ReturnTypes DEF EmptyLine
<1>8. CASE SplitMore
  <2>1. ScreenTypeOK' /\ OutTypeOK'
    BY <1>8, QuietTypes DEF SplitMore
  <2>2. PICK space \in Positions, next \in Positions :
          /\ line' = [line EXCEPT ![space] = NUL]
          /\ argv' = Append(argv, next)
    BY <1>8 DEF SplitMore
  <2>3. line' \in [Positions -> Chars]
    BY <2>2, CharFacts DEF ShellTypeOK
  <2>4. Len(argv) <= MaxArgs /\ argv \in Seq(Positions) /\ pc = "split"
    BY <1>8 DEF SplitMore, Looping, At, ShellTypeOK
  <2>5. /\ argv' \in Seq(Positions) /\ Len(argv') <= MaxArgs + 1
        /\ argv' # <<>>
    <3>1. argv' \in Seq(Positions) /\ Len(argv') = Len(argv) + 1
      BY <2>2, <2>4
    <3>2. Len(argv) \in Nat
      BY <2>4
    <3>3. argv' # <<>>
      BY <3>1, <3>2, SequenceFacts
    <3> QED BY <2>4, <3>1, <3>2, <3>3
  <2>6. pc' \in {"overrun", "split"}
    BY <1>8 DEF SplitMore, Goto
  <2>7. ShellTypeOK'
    BY <1>8, <2>3, <2>5, <2>6 DEF SplitMore, ShellTypeOK, PCs
  <2> QED BY <1>8, <2>1, <2>5, <2>6, <2>7 DEF ArgvFilled, AtRest, Split
<1>9. CASE SplitTrailing
  <2>1. ScreenTypeOK' /\ OutTypeOK'
    BY <1>9, QuietTypes DEF SplitTrailing
  <2>2. line' \in [Positions -> Chars]
    BY <1>9, CharFacts DEF SplitTrailing, ShellTypeOK
  <2>3. ShellTypeOK'
    BY <1>9, <2>2 DEF SplitTrailing, Goto, ShellTypeOK, PCs
  <2> QED BY <1>9, <2>1, <2>3
        DEF SplitTrailing, Looping, At, Goto, ArgvFilled, AtRest, Split
<1>10. CASE SplitDone
  <2>1. ScreenTypeOK' /\ OutTypeOK'
    BY <1>10, QuietTypes DEF SplitDone
  <2>2. ShellTypeOK'
    BY <1>10 DEF SplitDone, Goto, ShellTypeOK, PCs
  <2> QED BY <1>10, <2>1, <2>2
        DEF SplitDone, Looping, At, Goto, ArgvFilled, AtRest, Split
<1>11. CASE ExecuteCommand
  <2>1. ScreenTypeOK' /\ OutTypeOK'
    BY <1>11, PrintTypes DEF ExecuteCommand
  <2> QED BY <1>11, <2>1, ReturnTypes DEF ExecuteCommand
<1>12. CASE do_reboot
  <2>1. ScreenTypeOK' /\ OutTypeOK'
    BY <1>12, QuietTypes DEF do_reboot
  <2>2. ShellTypeOK'
    BY <1>12 DEF do_reboot, Goto, ShellTypeOK, PCs
  <2> QED BY <1>12, <2>1, <2>2
        DEF do_reboot, At, Goto, ArgvFilled, AtRest, Split
<1>13. CASE ExecuteUnknown
  <2>1. PICK end \in Positions :
          /\ EndsAt(argv[1], end)
          /\ Write(Unknown \o StringAt(argv[1], end) \o <<CR, LF>>)
    BY <1>13 DEF ExecuteUnknown
  <2>2. argv[1] \in Positions
    BY <1>13, LastInBuffer DEF ExecuteUnknown, At, Split
  <2>3. StringAt(argv[1], end) \in Seq(Chars)
    BY <2>1, <2>2, StringType DEF ShellTypeOK
  <2>4. <<CR, LF>> \in Seq(Chars)
    BY CharFacts
  <2>5. Unknown \o StringAt(argv[1], end) \o <<CR, LF>> \in Seq(Chars)
    BY <2>3, <2>4
  <2>6. ScreenTypeOK' /\ OutTypeOK'
    BY <1>13, <2>1, <2>5, PrintTypes DEF ExecuteUnknown
  <2> QED BY <1>13, <2>6, ReturnTypes DEF ExecuteUnknown
<1>14. CASE UNCHANGED vars
  BY <1>14 DEF vars, consoleVars, shellVars, screen, ScreenTypeOK, OutTypeOK,
     ShellTypeOK, ArgvFilled, AtRest
<1> QED
  BY <1>1, <1>2, <1>3, <1>4, <1>5, <1>6, <1>7, <1>8, <1>9, <1>10, <1>11,
     <1>12, <1>13, <1>14 DEF Next

LEMMA TypeInvInit ==
  ASSUME Init
  PROVE  TypeInv
<1>1. cells \in [Shown -> Glyphs]
  BY CellTypes, CharFacts DEF Init, ConsoleInit, Blank
<1>2. 0 \in 0 .. Word - 1 /\ 0 \in 0 .. Size /\ 0 <= MaxArgs + 1
  BY SequenceFacts
<1>3. ScreenTypeOK /\ OutTypeOK
  BY <1>1, <1>2, SequenceFacts
     DEF Init, ConsoleInit, ScreenTypeOK, OutTypeOK
<1>4. ShellTypeOK
  BY <1>2, SequenceFacts DEF Init, ShellTypeOK, PCs
<1> QED BY <1>3, <1>4 DEF Init, TypeInv, ArgvFilled, AtRest, Split

LEMMA TypeInvariant == Spec => []TypeInv
BY TypeInvInit, TypeInvStep, PTL DEF Spec

(* Every variable keeps its type: getdelim stores only in its buffer, and  *)
(* shell_split_line at most one argument behind its caller's array.        *)
THEOREM TypeCorrect == Spec => []TypeOK
<1>1. TypeInv => TypeOK
  BY DEF TypeInv, ScreenTypeOK, OutTypeOK, ShellTypeOK, TypeOK
<1> QED BY <1>1, TypeInvariant, PTL

-----------------------------------------------------------------------------
(* The row.                                                                *)

(* A cursor that is not behind the last column stays on the screen.        *)
LEMMA ScrollsInTime ==
  ASSUME NEW x \in Nat, NEW y \in Nat, NEW s, ScrollIfNeeded(x, y, s),
         \/ y < Height
         \/ y = Height /\ x # Width
  PROVE  row' < Height
BY DEF ScrollIfNeeded

LEMMA RowStep ==
  ASSUME TypeInv, RowOnScreen, [Next]_vars
  PROVE  RowOnScreen'
<1>1. CASE PrintStep
  <2> USE DEF RowOnScreen, TypeInv, ScreenTypeOK
  <2>1. CASE CarriageReturn
    BY <2>1 DEF CarriageReturn
  <2>2. CASE LineFeed
    <3> SUFFICES ASSUME ~strayed' PROVE row' < Height
      OBVIOUS
    <3>1. ~strayed /\ column # Width
      BY <2>2 DEF LineFeed
    <3>2. column \in Nat /\ row + 1 \in Nat /\ row + 1 <= Height
      BY <3>1
    <3>3. ScrollIfNeeded(column, row + 1, cells)
      BY <2>2 DEF LineFeed
    <3>4. row + 1 < Height \/ (row + 1 = Height /\ column # Width)
      BY <3>1, <3>2
    <3> QED BY <3>2, <3>3, <3>4, ScrollsInTime
  <2>3. CASE Tabulate
    BY <2>3 DEF Tabulate, screen
  <2>4. CASE Backspace
    BY <2>4 DEF Backspace, BackY
  <2>5. CASE Ignore
    BY <2>5 DEF Ignore, screen
  <2>6. CASE Draw
    <3>1. PICK c \in Glyphs :
            ScrollIfNeeded((column + 1) % Word, row, Drawn(c, column, row))
      BY <2>6 DEF Draw
    <3>2. (column + 1) % Word \in Nat
      <4>1. column + 1 \in Int
        OBVIOUS
      <4>2. (column + 1) % Word \in 0 .. Word - 1
        BY <4>1, WordRange, Zenon
      <4> QED BY <4>2
    <3>3. strayed' = strayed
      BY <2>6 DEF Draw
    <3> QED BY <3>1, <3>2, <3>3, ScrollsInTime
  <2> QED BY <1>1, <2>1, <2>2, <2>3, <2>4, <2>5, <2>6
        DEF PrintStep, tty_putchar
<1>2. CASE UNCHANGED <<screen, strayed>>
  BY <1>2 DEF RowOnScreen, screen
<1>3. ASSUME [Next]_vars, ~PrintStep
      PROVE  UNCHANGED <<screen, strayed>>
  BY <1>3 DEF Next, vars, consoleVars, ShellMain, TypeReturn, TypeBackspace,
     TypeOther, EndLine, EmptyLine, SplitMore, SplitTrailing, SplitDone,
     ExecuteCommand, do_reboot, ExecuteUnknown
<1> QED BY <1>1, <1>2, <1>3

(* Although both tests of scrollifneeded are for equality, the cursor only *)
(* leaves the screen by a line feed from behind the last column.           *)
THEOREM RowStaysOnScreen == Spec => []RowOnScreen
<1>1. Init => RowOnScreen
  BY DEF Init, ConsoleInit, RowOnScreen
<1> QED BY <1>1, RowStep, TypeInvariant, PTL DEF Spec

-----------------------------------------------------------------------------
(* The arguments.                                                          *)

(* A set of natural numbers has a least element.                           *)
LEMMA LeastElement ==
  ASSUME NEW S, S \subseteq Nat, S # {}
  PROVE  \E m \in S : \A i \in S : m <= i
<1> DEFINE R == {ss \in Nat \X Nat : ss[1] < ss[2]}
<1>1. IsWellFoundedOn(R, Nat)
  BY NatLessThanWellFounded DEF OpToRel
<1>2. PICK m \in S : \A i \in S : ~ (<<i, m>> \in R)
  <2> HIDE DEF R
  <2> QED BY <1>1, WFMin
<1>3. ASSUME NEW i \in S PROVE m <= i
  <2> SUFFICES ASSUME ~ (m <= i) PROVE FALSE
    OBVIOUS
  <2>1. <<i, m>> \in R
    OBVIOUS
  <2> HIDE DEF R
  <2> QED BY <1>2, <2>1
<1> QED BY <1>3

(* The word at p of source ends at end, and string holds it as a string.   *)
IsWord(string, source, p, end) ==
  /\ source[end] \in {SPACE, NUL} /\ string[end] = NUL
  /\ \A i \in p .. end - 1 :
       source[i] \notin {SPACE, NUL} /\ string[i] = source[i]

ArgPlaces == {argv[k] : k \in 1 .. Len(argv)}
Ascending == \A k \in 1 .. Len(argv) - 1 : argv[k] < argv[k + 1]

(* What is read before the last argument is done, what follows is as it    *)
(* was entered.                                                            *)
Unread == \A i \in Last .. LineMax : line[i] = entered[i]
Terminated == \E end \in Last .. LineMax : entered[end] = NUL
Read == \A i \in 0 .. Last - 1 : entered[i] # NUL
Found == ArgPlaces = {i \in WordStarts : i <= Last}
Done == \A k \in 1 .. Len(argv) - 1 :
          \E end \in argv[k] .. Last - 1 : IsWord(line, entered, argv[k], end)

(* While the line is split, and after.                                     *)
Scanning == Unread /\ Terminated /\ Read /\ Found /\ Ascending /\ Done
Scanned ==
  /\ ArgPlaces = WordStarts /\ Ascending
  /\ \A k \in 1 .. Len(argv) :
       \E end \in argv[k] .. LineMax : IsWord(line, entered, argv[k], end)

SplitInv ==
  /\ pc \in {"split", "overrun"} => Scanning
  /\ pc \in {"execute", "off"} => Scanned

(* Facts of a step that has found the next space and what follows it.      *)
SpaceFound(space, next) ==
  /\ space \in Last .. LineMax /\ next \in space + 1 .. LineMax
  /\ entered[space] = SPACE /\ entered[next] # SPACE
  /\ entered[next] = line[next]
  /\ \A i \in Last .. space - 1 :
       entered[i] \notin {SPACE, NUL} /\ line[i] = entered[i]
  /\ \A i \in space + 1 .. next - 1 : entered[i] = SPACE

LEMMA SpaceFacts ==
  ASSUME Last \in Positions, Unread,
         NEW space \in Positions, NEW next \in Positions,
         IsNextSpace(space), IsNextArg(space, next)
  PROVE  SpaceFound(space, next)
<1> USE DEF Positions
<1>1. space \in Last .. LineMax /\ next \in space + 1 .. LineMax
  BY DEF IsNextSpace, IsNextArg
<1>2. \A i \in Last .. LineMax : line[i] = entered[i]
  BY DEF Unread
<1>3. entered[space] = SPACE /\ entered[next] # SPACE
      /\ entered[next] = line[next]
  BY <1>1, <1>2 DEF IsNextSpace, IsNextArg
<1>4. ASSUME NEW i \in Last .. space - 1
      PROVE  entered[i] \notin {SPACE, NUL} /\ line[i] = entered[i]
  BY <1>1, <1>2, <1>4, SMTT(60) DEF IsNextSpace
<1>5. ASSUME NEW i \in space + 1 .. next - 1
      PROVE  entered[i] = SPACE
  <2>1. i \in Last .. LineMax /\ line[i] = SPACE
    BY <1>1, <1>5 DEF IsNextArg
  <2> QED BY <1>2, <2>1
<1> QED BY <1>1, <1>3, <1>4, <1>5 DEF SpaceFound

(* No word begins between the last argument and what was found.            *)
LEMMA NoWordBetween ==
  ASSUME Last \in Positions, Read, NEW space, NEW next,
         SpaceFound(space, next)
  PROVE  /\ \A i \in Last + 1 .. next - 1 : i \notin WordStarts
         /\ \A i \in 0 .. next - 1 : entered[i] # NUL
         /\ entered[next - 1] = SPACE
<1> USE DEF Positions
<1>1. /\ space \in Last .. LineMax /\ next \in space + 1 .. LineMax
      /\ entered[space] = SPACE
  BY DEF SpaceFound
<1>2. \A i \in Last .. space - 1 : entered[i] \notin {SPACE, NUL}
  BY DEF SpaceFound
<1>3. \A i \in space + 1 .. next - 1 : entered[i] = SPACE
  BY DEF SpaceFound
<1>4. SPACE # NUL
  BY DEF SPACE, NUL
<1>5. ASSUME NEW i \in 0 .. next - 1 PROVE entered[i] # NUL
  <2>1. CASE i \in 0 .. Last - 1
    BY <2>1 DEF Read
  <2>2. CASE i \in Last .. space - 1
    BY <2>2, <1>2
  <2>3. CASE i = space
    BY <2>3, <1>1, <1>4
  <2>4. CASE i \in space + 1 .. next - 1
    BY <2>4, <1>3, <1>4
  <2> QED BY <1>1, <2>1, <2>2, <2>3, <2>4
<1>6. ASSUME NEW i \in Last + 1 .. next - 1 PROVE i \notin WordStarts
  <2>1. CASE i <= space
    <3>1. i - 1 \in Last .. space - 1 /\ i # 0
      BY <1>1, <2>1
    <3>2. entered[i - 1] # SPACE
      BY <3>1, <1>2
    <3> QED BY <3>1, <3>2 DEF WordStarts
  <2>2. CASE i > space
    <3>1. i \in space + 1 .. next - 1 /\ i # 0
      BY <1>1, <2>2
    <3>2. entered[i] = SPACE
      BY <3>1, <1>3
    <3> QED BY <3>1, <3>2 DEF WordStarts
  <2> QED BY <1>1, <2>1, <2>2
<1>7. entered[next - 1] = SPACE
  <2>1. next - 1 = space \/ next - 1 \in space + 1 .. next - 1
    BY <1>1
  <2> QED BY <2>1, <1>1, <1>3
<1> QED BY <1>5, <1>6, <1>7

(* The word at p stays what it is when line only changes behind it.        *)
LEMMA WordKept ==
  ASSUME line \in [Positions -> Chars], NEW space \in Positions,
         line' = [line EXCEPT ![space] = NUL], entered' = entered,
         NEW p \in Positions, NEW end \in p .. space - 1,
         IsWord(line, entered, p, end)
  PROVE  IsWord(line', entered', p, end)
<1> USE DEF Positions
<1>1. \A i \in p .. end : i \in Positions /\ i # space
  OBVIOUS
<1>2. \A i \in p .. end : line'[i] = line[i]
  BY <1>1
<1> QED BY <1>2 DEF IsWord

(* The last word ends at the space that was found.                         *)
LEMMA LastWordEnds ==
  ASSUME line \in [Positions -> Chars], Last \in Positions,
         NEW space \in Positions, NEW next, SpaceFound(space, next),
         line' = [line EXCEPT ![space] = NUL], entered' = entered
  PROVE  IsWord(line', entered', Last, space)
<1> USE DEF Positions
<1>1. \A i \in Last .. space - 1 : i \in Positions /\ i # space
  OBVIOUS
<1>2. \A i \in Last .. space - 1 : line'[i] = line[i]
  BY <1>1
<1> QED BY <1>2 DEF SpaceFound, IsWord

LEMMA ArgvFacts ==
  ASSUME ShellTypeOK, ArgvFilled, pc \in Split
  PROVE  /\ argv \in Seq(Positions) /\ Len(argv) \in Nat \ {0}
         /\ Last = argv[Len(argv)] /\ Last \in Positions
         /\ \A k \in 1 .. Len(argv) : argv[k] \in Positions
<1>1. argv # <<>> /\ argv \in Seq(Positions)
  BY DEF ArgvFilled, ShellTypeOK
<1>2. Len(argv) \in Nat \ {0}
  BY <1>1
<1> QED BY <1>1, <1>2 DEF Last

(* One more argument: the scan goes on at it.                              *)
LEMMA ScanningStep ==
  ASSUME TypeInv, Scanning, SplitMore
  PROVE  Scanning'
<1> USE DEF Positions
<1>1. pc = "split" /\ entered' = entered
  BY DEF SplitMore, Looping, At
<1>2. line \in [Positions -> Chars]
  BY DEF TypeInv, ShellTypeOK
<1>3. /\ argv \in Seq(Positions) /\ Len(argv) \in Nat \ {0}
      /\ Last = argv[Len(argv)] /\ Last \in Positions
      /\ \A k \in 1 .. Len(argv) : argv[k] \in Positions
  BY <1>1, ArgvFacts DEF TypeInv, Split
<1>4. PICK space \in Positions, next \in Positions :
        /\ IsNextSpace(space) /\ IsNextArg(space, next) /\ line[next] # NUL
        /\ line' = [line EXCEPT ![space] = NUL]
        /\ argv' = Append(argv, next)
  BY DEF SplitMore
<1>5. SpaceFound(space, next)
  BY <1>3, <1>4, SpaceFacts DEF Scanning
<1>6. /\ space \in Last .. LineMax /\ next \in space + 1 .. LineMax
      /\ entered[next] = line[next] /\ entered[next] # SPACE
  BY <1>5 DEF SpaceFound
<1>7. /\ \A i \in Last + 1 .. next - 1 : i \notin WordStarts
      /\ \A i \in 0 .. next - 1 : entered[i] # NUL
      /\ entered[next - 1] = SPACE
  BY <1>3, <1>5, NoWordBetween DEF Scanning
<1>8. /\ Len(argv') = Len(argv) + 1 /\ Last' = next
      /\ argv'[Len(argv) + 1] = next
      /\ \A k \in 1 .. Len(argv) : argv'[k] = argv[k]
  BY <1>3, <1>4 DEF Last
<1>9. Unread'
  <2>1. \A i \in next .. LineMax : i \in Positions /\ i # space
    BY <1>3, <1>6
  <2>2. \A i \in next .. LineMax : line'[i] = line[i]
    BY <1>2, <1>4, <2>1
  <2>3. \A i \in next .. LineMax : line[i] = entered[i]
    BY <1>3, <1>6 DEF Scanning, Unread
  <2> QED BY <1>1, <1>8, <2>2, <2>3 DEF Unread
<1>10. Terminated'
  <2>1. PICK end \in Last .. LineMax : entered[end] = NUL
    BY DEF Scanning, Terminated
  <2>2. end >= next
    BY <1>3, <1>6, <1>7, <2>1
  <2> QED BY <1>1, <1>8, <2>1, <2>2 DEF Terminated
<1>11. Read'
  BY <1>1, <1>7, <1>8 DEF Read
<1>12. Found'
  <2>1. next \in WordStarts
    <3>1. \A i \in 0 .. next : entered[i] # NUL
      BY <1>4, <1>6, <1>7
    <3> QED BY <1>6, <1>7, <3>1 DEF WordStarts, InEntered
  <2>2. WordStarts' = WordStarts
    BY <1>1 DEF WordStarts, InEntered
  <2>3. ArgPlaces' = ArgPlaces \cup {next}
    <3>1. \A k \in 1 .. Len(argv') : k \in 1 .. Len(argv) \/ k = Len(argv')
      BY <1>3, <1>8
    <3>2. \A k \in 1 .. Len(argv) : k \in 1 .. Len(argv')
      BY <1>3, <1>8
    <3>3. Len(argv') \in 1 .. Len(argv') /\ argv'[Len(argv')] = next
      BY <1>3, <1>8
    <3>4. ArgPlaces' \subseteq ArgPlaces \cup {next}
      BY <1>8, <3>1, <3>3 DEF ArgPlaces
    <3>5. next \in ArgPlaces'
      BY <3>3 DEF ArgPlaces
    <3>6. ArgPlaces \subseteq ArgPlaces'
      BY <1>8, <3>2 DEF ArgPlaces
    <3> QED BY <3>4, <3>5, <3>6
  <2>4. {i \in WordStarts : i <= next}
          = {i \in WordStarts : i <= Last} \cup {next}
    <3>1. ASSUME NEW i \in WordStarts, i <= next
          PROVE  i <= Last \/ i = next
      <4>1. i \in Positions
        BY DEF WordStarts
      <4> QED BY <1>3, <1>6, <1>7, <3>1, <4>1
    <3>2. Last <= next /\ next <= next
      BY <1>3, <1>6
    <3>3. \A i \in WordStarts : i <= Last => i <= next
      BY <1>3, <3>2 DEF WordStarts
    <3> QED BY <2>1, <3>1, <3>2, <3>3
  <2> QED BY <1>8, <2>2, <2>3, <2>4 DEF Scanning, Found
<1>13. Ascending'
  <2> SUFFICES ASSUME NEW k \in 1 .. Len(argv) PROVE argv'[k] < argv'[k + 1]
    BY <1>3, <1>8 DEF Ascending
  <2>1. CASE k = Len(argv)
    BY <1>3, <1>6, <1>8, <2>1
  <2>2. CASE k < Len(argv)
    <3>1. k \in 1 .. Len(argv) - 1 /\ k + 1 \in 1 .. Len(argv)
      BY <1>3, <2>2
    <3> QED BY <1>8, <3>1 DEF Scanning, Ascending
  <2> QED BY <1>3, <2>1, <2>2
<1>14. Done'
  <2> SUFFICES ASSUME NEW k \in 1 .. Len(argv)
               PROVE  \E end \in argv[k] .. next - 1 :
                        IsWord(line', entered', argv[k], end)
    <3>1. Len(argv') - 1 = Len(argv)
      BY <1>3, <1>8
    <3> QED BY <1>8, <3>1 DEF Done
  <2>1. CASE k = Len(argv)
    <3>1. IsWord(line', entered', Last, space)
      BY <1>1, <1>2, <1>3, <1>4, <1>5, LastWordEnds
    <3>2. space \in Last .. next - 1
      BY <1>3, <1>6
    <3> QED BY <1>3, <2>1, <3>1, <3>2
  <2>2. CASE k < Len(argv)
    <3>1. argv[k] \in Positions /\ k \in 1 .. Len(argv) - 1
      BY <1>3, <2>2
    <3>2. PICK end \in argv[k] .. Last - 1 :
            IsWord(line, entered, argv[k], end)
      BY <3>1 DEF Scanning, Done
    <3>3. end \in argv[k] .. space - 1 /\ end \in argv[k] .. next - 1
      <4> DEFINE p == argv[k] l == Last
      <4>1. p \in Positions /\ end \in p .. l - 1 /\ l \in Positions
        BY <1>3, <3>1, <3>2
      <4>2. space \in l .. LineMax /\ next \in space + 1 .. LineMax
        BY <1>6
      <4> HIDE DEF p, l
      <4>3. end \in p .. space - 1 /\ end \in p .. next - 1
        BY <4>1, <4>2
      <4> QED BY <4>3 DEF p
    <3>4. IsWord(line', entered', argv[k], end)
      <4> HIDE DEF Positions
      <4> DEFINE p == argv[k]
      <4>1. p \in Positions /\ end \in p .. space - 1
        BY <3>1, <3>3
      <4>2. IsWord(line, entered, p, end)
        BY <3>2
      <4> HIDE DEF p
      <4>3. IsWord(line', entered', p, end)
        BY <1>1, <1>2, <1>4, <4>1, <4>2, WordKept
      <4> QED BY <4>3 DEF p
    <3> QED BY <3>3, <3>4
  <2> QED BY <1>3, <2>1, <2>2
<1> QED BY <1>9, <1>10, <1>11, <1>12, <1>13, <1>14 DEF Scanning

(* Nothing but spaces up to the end: there are no more words.              *)
LEMMA TrailingStep ==
  ASSUME TypeInv, Scanning, SplitTrailing
  PROVE  Scanned'
<1>1. pc = "split" /\ entered' = entered /\ argv' = argv
  BY DEF SplitTrailing, Looping, At
<1>2. line \in [Positions -> Chars]
  BY DEF TypeInv, ShellTypeOK
<1>3. /\ argv \in Seq(Positions) /\ Len(argv) \in Nat \ {0}
      /\ Last = argv[Len(argv)] /\ Last \in Positions
      /\ \A k \in 1 .. Len(argv) : argv[k] \in Positions
  BY <1>1, ArgvFacts DEF TypeInv, Split
<1>4. PICK space \in Positions, next \in Positions :
        /\ IsNextSpace(space) /\ IsNextArg(space, next) /\ line[next] = NUL
        /\ line' = [line EXCEPT ![space] = NUL]
  BY DEF SplitTrailing
<1>5. SpaceFound(space, next)
  BY <1>3, <1>4, SpaceFacts DEF Scanning
<1>6. /\ space \in Last .. LineMax /\ next \in space + 1 .. LineMax
      /\ entered[next] = NUL
  BY <1>4, <1>5 DEF SpaceFound
<1>7. \A i \in Last + 1 .. next - 1 : i \notin WordStarts
  BY <1>3, <1>5, NoWordBetween DEF Scanning
<1>8. ArgPlaces' = WordStarts'
  <2>1. ASSUME NEW i \in WordStarts PROVE i <= Last
    <3>1. i \in 0 .. LineMax /\ (i = 0 \/ InEntered(i))
      BY DEF WordStarts, Positions
    <3>2. CASE i >= next
      <4>1. i # 0 /\ next \in 0 .. i
        BY <1>3, <1>6, <3>1, <3>2 DEF Positions
      <4>2. InEntered(i)
        BY <3>1, <4>1
      <4> QED BY <1>6, <4>1, <4>2 DEF InEntered
    <3>3. i < next => i <= Last
      BY <1>3, <1>6, <1>7, <3>1 DEF Positions
    <3> QED BY <1>3, <1>6, <3>1, <3>2, <3>3 DEF Positions
  <2>2. ArgPlaces = WordStarts
    BY <2>1 DEF Scanning, Found
  <2>3. ArgPlaces' = ArgPlaces
    BY <1>1 DEF ArgPlaces
  <2>4. WordStarts' = WordStarts
    BY <1>1 DEF WordStarts, InEntered
  <2> QED BY <2>2, <2>3, <2>4
<1>9. Ascending'
  BY <1>1 DEF Scanning, Ascending
<1>10. ASSUME NEW k \in 1 .. Len(argv)
       PROVE  \E end \in argv[k] .. LineMax :
                IsWord(line', entered', argv[k], end)
  <2>1. CASE k = Len(argv)
    <3>1. IsWord(line', entered', Last, space)
      BY <1>1, <1>2, <1>3, <1>4, <1>5, LastWordEnds
    <3> QED BY <1>3, <1>6, <2>1, <3>1
  <2>2. CASE k < Len(argv)
    <3>1. argv[k] \in Positions /\ k \in 1 .. Len(argv) - 1
      BY <1>3, <2>2
    <3>2. PICK end \in argv[k] .. Last - 1 :
            IsWord(line, entered, argv[k], end)
      BY <3>1 DEF Scanning, Done
    <3> DEFINE p == argv[k] l == Last
    <3>3. p \in Positions /\ end \in p .. l - 1 /\ l \in Positions
      BY <1>3, <3>1, <3>2
    <3>4. space \in l .. LineMax /\ IsWord(line, entered, p, end)
      BY <1>6, <3>2
    <3> HIDE DEF p, l
    <3>5. end \in p .. space - 1 /\ end \in p .. LineMax
      BY <3>3, <3>4 DEF Positions
    <3>6. IsWord(line', entered', p, end)
      BY <1>1, <1>2, <1>4, <3>3, <3>4, <3>5, WordKept
    <3> QED BY <3>5, <3>6 DEF p
  <2> QED BY <1>3, <2>1, <2>2
<1> QED BY <1>1, <1>8, <1>9, <1>10 DEF Scanned

(* No space before the string ends: its end is the last word's.            *)
LEMMA DoneStep ==
  ASSUME TypeInv, Scanning, SplitDone
  PROVE  Scanned'
<1>1. pc = "split" /\ entered' = entered /\ argv' = argv /\ line' = line
  BY DEF SplitDone, Looping, At
<1>2. /\ argv \in Seq(Positions) /\ Len(argv) \in Nat \ {0}
      /\ Last = argv[Len(argv)] /\ Last \in Positions
      /\ \A k \in 1 .. Len(argv) : argv[k] \in Positions
  BY <1>1, ArgvFacts DEF TypeInv, Split
<1>3. \A i \in Last .. LineMax : line[i] = entered[i]
  BY DEF Scanning, Unread
<1> DEFINE Ends == {i \in Last .. LineMax : entered[i] \in {SPACE, NUL}}
<1>4. PICK end \in Ends : \A i \in Ends : end <= i
  <2>1. Ends \subseteq Nat
    BY <1>2 DEF Positions
  <2>2. Ends # {}
    BY DEF Scanning, Terminated
  <2> HIDE DEF Ends
  <2> QED BY <2>1, <2>2, LeastElement
<1>5. end \in Last .. LineMax
  OBVIOUS
<1>6. ASSUME NEW i \in Last .. end - 1 PROVE entered[i] \notin {SPACE, NUL}
  <2>1. i \in Last .. LineMax /\ ~ (end <= i)
    BY <1>2, <1>5 DEF Positions
  <2>2. i \notin Ends
    <3> HIDE DEF Ends
    <3> QED BY <1>4, <2>1
  <2> QED BY <2>1, <2>2
<1>7. \A i \in Last .. end - 1 :
        entered[i] \notin {SPACE, NUL} /\ line[i] = entered[i]
  BY <1>2, <1>3, <1>5, <1>6 DEF Positions
<1>8. entered[end] = NUL
  <2>1. end \in Positions /\ end >= Last
    BY <1>2, <1>5 DEF Positions
  <2>2. ~ IsNextSpace(end)
    BY <2>1 DEF SplitDone
  <2>3. line[end] # SPACE
    BY <1>7, <2>1, <2>2 DEF IsNextSpace
  <2> QED BY <1>3, <1>5, <2>3
<1>9. IsWord(line, entered, Last, end)
  BY <1>3, <1>5, <1>7, <1>8 DEF IsWord
<1>10. ArgPlaces = WordStarts
  <2>1. ASSUME NEW i \in WordStarts PROVE i <= Last
    <3>1. i \in 0 .. LineMax
      BY DEF WordStarts, Positions
    <3>2. CASE i > end
      <4>1. end \in 0 .. i /\ i # 0
        BY <1>2, <1>5, <3>1, <3>2 DEF Positions
      <4>2. InEntered(i)
        BY <4>1 DEF WordStarts
      <4> QED BY <1>8, <4>1, <4>2 DEF InEntered
    <3>3. CASE i \in Last + 1 .. end
      <4>1. i - 1 \in Last .. end - 1 /\ i # 0
        BY <1>2, <1>5, <3>1, <3>3 DEF Positions
      <4> QED BY <1>7, <4>1 DEF WordStarts
    <3> QED BY <1>2, <1>5, <3>1, <3>2, <3>3 DEF Positions
  <2> QED BY <2>1 DEF Scanning, Found
<1>11. ASSUME NEW k \in 1 .. Len(argv)
       PROVE  \E e \in argv[k] .. LineMax :
                IsWord(line, entered, argv[k], e)
  <2>1. CASE k = Len(argv)
    BY <1>2, <1>5, <1>9, <2>1
  <2>2. CASE k < Len(argv)
    <3>1. argv[k] \in Positions /\ k \in 1 .. Len(argv) - 1
      BY <1>2, <2>2
    <3>2. PICK e \in argv[k] .. Last - 1 : IsWord(line, entered, argv[k], e)
      BY <3>1 DEF Scanning, Done
    <3> DEFINE p == argv[k] l == Last
    <3>3. p \in Positions /\ e \in p .. l - 1 /\ l \in Positions
      BY <1>2, <3>1, <3>2
    <3> HIDE DEF p, l
    <3>4. e \in p .. LineMax
      BY <3>3 DEF Positions
    <3> QED BY <3>2, <3>4 DEF p
  <2> QED BY <1>2, <2>1, <2>2
<1>12. Ascending
  BY DEF Scanning
<1>13. ArgPlaces' = ArgPlaces /\ Ascending'
  BY <1>1, <1>12 DEF ArgPlaces, Ascending
<1>14. WordStarts' = WordStarts
  BY <1>1 DEF WordStarts, InEntered
<1> QED BY <1>1, <1>10, <1>11, <1>13, <1>14 DEF Scanned

(* A line whose last character has become NUL is ready to be split.        *)
LEMMA EndLineStep ==
  ASSUME TypeInv, EndLine
  PROVE  Scanning'
<1> USE DEF Positions
<1>1. argv' = <<0>> /\ line' = Closed /\ entered' = Closed
  BY DEF EndLine
<1>2. Len(argv') = 1 /\ argv'[1] = 0 /\ Last' = 0
  BY <1>1 DEF Last
<1>3. n - 1 \in 0 .. LineMax /\ Closed[n - 1] = NUL
  <2>1. n \in 0 .. Size /\ n > 1
    BY DEF EndLine, TypeInv, ShellTypeOK
  <2>2. n - 1 \in Positions
    BY <2>1 DEF Size
  <2> QED BY <2>2 DEF Closed
<1>4. Unread' /\ Terminated' /\ Read'
  BY <1>1, <1>2, <1>3 DEF Unread, Terminated, Read
<1>5. Found'
  <2>1. ArgPlaces' = {0}
    BY <1>2 DEF ArgPlaces
  <2>2. {i \in WordStarts : i <= 0}' = {0}
    BY DEF WordStarts
  <2> QED BY <1>2, <2>1, <2>2 DEF Found
<1>6. Ascending' /\ Done'
  BY <1>2 DEF Ascending, Done
<1> QED BY <1>4, <1>5, <1>6 DEF Scanning

LEMMA SplitStep ==
  ASSUME TypeInv, SplitInv, [Next]_vars
  PROVE  SplitInv'
<1> USE DEF SplitInv
<1>1. CASE EndLine
  BY <1>1, EndLineStep DEF EndLine, Goto
<1>2. CASE SplitMore
  <2>1. pc = "split"
    BY <1>2 DEF SplitMore, Looping, At
  <2>2. pc' \in {"split", "overrun"}
    BY <1>2 DEF SplitMore, Goto
  <2> QED BY <1>2, <2>1, <2>2, ScanningStep
<1>3. CASE SplitTrailing
  <2>1. pc = "split" /\ pc' = "execute"
    BY <1>3 DEF SplitTrailing, Looping, At, Goto
  <2> QED BY <1>3, <2>1, TrailingStep
<1>4. CASE SplitDone
  <2>1. pc = "split" /\ pc' = "execute"
    BY <1>4 DEF SplitDone, Looping, At, Goto
  <2> QED BY <1>4, <2>1, DoneStep
<1>5. CASE UNCHANGED <<line, argv, entered>>
           /\ \/ pc' = pc
              \/ pc = "execute" /\ pc' = "off"
  <2>1. UNCHANGED <<Last, WordStarts, ArgPlaces, Ascending>>
    BY <1>5 DEF Last, WordStarts, InEntered, ArgPlaces, Ascending
  <2>2. Scanning => Scanning'
    BY <1>5, <2>1 DEF Scanning, Unread, Terminated, Read, Found, Done
  <2>3. Scanned => Scanned'
    BY <1>5, <2>1 DEF Scanned
  <2> QED BY <1>5, <2>2, <2>3
<1>6. CASE pc' \in {"main", "getdelim", "ended"}
  BY <1>6
<1>7. CASE PrintStep
  BY <1>7, <1>5 DEF PrintStep, shellVars
<1>8. CASE TypeReturn
  BY <1>8, <1>6 DEF TypeReturn, Goto
<1>9. CASE TypeBackspace
  BY <1>9, <1>6 DEF TypeBackspace, At
<1>10. CASE TypeOther
  BY <1>10, <1>6 DEF TypeOther, Goto
<1>11. CASE ShellMain
  BY <1>11, <1>6 DEF ShellMain, Goto
<1>12. CASE EmptyLine \/ ExecuteCommand \/ ExecuteUnknown
  BY <1>12, <1>6 DEF EmptyLine, ExecuteCommand, ExecuteUnknown, Return, Goto
<1>13. CASE do_reboot
  BY <1>13, <1>5 DEF do_reboot, At, Goto
<1>14. CASE UNCHANGED vars
  BY <1>14, <1>5 DEF vars, shellVars
<1> QED BY <1>1, <1>2, <1>3, <1>4, <1>7, <1>8, <1>9, <1>10, <1>11, <1>12,
           <1>13, <1>14 DEF Next

LEMMA SplitInvariant == Spec => []SplitInv
<1>1. Init => SplitInv
  BY DEF Init, SplitInv
<1> QED BY <1>1, TypeInvariant, SplitStep, PTL DEF Spec

(* Every command is executed with the words of the line that was entered.  *)
THEOREM ArgumentsRight == Spec => []ArgumentsAreWords
<1>1. SplitInv => ArgumentsAreWords
  BY DEF SplitInv, Scanned, ArgPlaces, Ascending, IsWord, ArgumentsAreWords
<1> QED BY <1>1, SplitInvariant, PTL

(* Every argument ends inside the buffer, at every step of the split.      *)
THEOREM StringsAreEnded == Spec => []StringsEnd
<1>1. ASSUME TypeInv, SplitInv PROVE StringsEnd
  <2> SUFFICES ASSUME NEW k \in 1 .. Len(argv)
               PROVE  \E end \in argv[k] .. LineMax : line[end] = NUL
    BY DEF StringsEnd
  <2>1. argv \in Seq(Positions) /\ Len(argv) \in Nat
    BY <1>1 DEF TypeInv, ShellTypeOK
  <2>2. pc \in Split /\ argv[k] \in Positions
    BY <1>1, <2>1 DEF TypeInv, ArgvFilled
  <2>3. CASE Scanning
    <3>1. Last = argv[Len(argv)]
      BY DEF Last
    <3>2. CASE k = Len(argv)
      BY <2>3, <3>1, <3>2 DEF Scanning, Terminated, Unread
    <3>3. CASE k < Len(argv)
      <4>1. k \in 1 .. Len(argv) - 1 /\ Len(argv) \in 1 .. Len(argv)
        BY <2>1, <3>3
      <4>2. Last \in Positions
        BY <2>1, <3>1, <4>1
      <4>3. PICK end \in argv[k] .. Last - 1 : line[end] = NUL
        BY <2>3, <4>1 DEF Scanning, Done, IsWord
      <4> DEFINE p == argv[k] l == Last
      <4>4. p \in Positions /\ l \in Positions /\ end \in p .. l - 1
        BY <2>2, <4>2, <4>3
      <4> HIDE DEF p, l
      <4>5. end \in p .. LineMax
        BY <4>4 DEF Positions
      <4> QED BY <4>3, <4>5 DEF p
    <3> QED BY <2>1, <3>2, <3>3
  <2>4. CASE Scanned
    BY <2>4 DEF Scanned, IsWord
  <2> QED BY <1>1, <2>2, <2>3, <2>4 DEF SplitInv, Split
<1> QED BY <1>1, TypeInvariant, SplitInvariant, PTL
-----------------------------------------------------------------------------
(* The line on the screen.  Places on the screen are counted from its      *)
(* first cell on; a scroll moves the cursor and the cells a row back.      *)

Cursor == row * Width + column

(* The first k characters of the line stand before the cursor, as far as   *)
(* they have not been scrolled away.                                       *)
Shows(k) ==
  \A i \in 0 .. k - 1 :
    Cursor - (k - i) >= 0 => cells[Cursor - (k - i)] = line[i]

(* The prompt, no echo, the echo of a character or of a backspace is on    *)
(* its way.                                                                *)
Echoing ==
  \/ n = 0 /\ out \in Seq(Glyphs)
  \/ out = <<>> /\ Shows(n)
  \/ n > 0 /\ out = <<line[n - 1]>> /\ line[n - 1] \in Glyphs /\ Shows(n - 1)
  \/ out = <<BS>> /\ column # 0 /\ Shows(n + 1)

ShownInv ==
  pc = "getdelim" /\ plain => row < Height /\ column < Width /\ Echoing

LEMMA CursorInside ==
  ASSUME row \in Nat, column \in Nat, row < Height, column < Width
  PROVE  /\ Cursor \in Nat /\ Cursor < Width * Height /\ Cursor \in Shown
         /\ Place(column, row) = Cursor /\ (column + 1) % Word = column + 1
         /\ \A x \in 0 .. column : Place(x, row) = row * Width + x
<1> DEFINE a == row * Width
           b == Width * Height
<1>1. a \in Nat /\ b \in Nat
  OBVIOUS
<1>2. a + Width <= b
  <2>1. a + Width = (row + 1) * Width /\ b = Height * Width
    OBVIOUS
  <2>2. Height - (row + 1) \in Nat
    OBVIOUS
  <2>3. (Height - (row + 1)) * Width \in Nat
    BY <2>2
  <2>4. Height * Width = (row + 1) * Width + (Height - (row + 1)) * Width
    BY <2>2
  <2> QED BY <1>1, <2>1, <2>3, <2>4
<1>3. b < Word
  OBVIOUS
<1> HIDE DEF a, b
<1>4. a + column \in 0 .. b - 1 /\ column + 1 \in 0 .. Word - 1
  BY <1>1, <1>2, <1>3
<1>5. \A x \in 0 .. column : a + x \in 0 .. Word - 1
  BY <1>1, <1>2, <1>3
<1>6. \A y \in 0 .. Word - 1 : y % Word = y
  OBVIOUS
<1>7. \A x \in 0 .. column : Place(x, row) = a + x
  BY <1>5, <1>6 DEF Place, a
<1>8. Cursor = a + column
  BY DEF Cursor, a
<1>9. Shown = 0 .. b - 1
  BY DEF Shown, b
<1> QED BY <1>1, <1>4, <1>6, <1>7, <1>8, <1>9 DEF a, b

(* Drawing a character puts it before the cursor and behind what was there.*)
LEMMA DrawMoves ==
  ASSUME ScreenTypeOK, row < Height, column < Width, NEW c \in Glyphs,
         ScrollIfNeeded((column + 1) % Word, row, Drawn(c, column, row))
  PROVE  /\ row' < Height /\ column' < Width /\ row' \in Nat /\ column' \in Nat
         /\ \E up \in {0, Width} :
              /\ Cursor' = Cursor + 1 - up
              /\ \A p \in 0 .. Cursor' - 1 :
                   cells'[p] = IF p = Cursor' - 1 THEN c ELSE cells[p + up]
<1>1. row \in Nat /\ column \in Nat /\ Width \in Nat /\ Height \in Nat
  BY DEF ScreenTypeOK
<1>2. /\ Cursor \in Nat /\ Cursor < Width * Height /\ Cursor \in Shown
      /\ Place(column, row) = Cursor /\ (column + 1) % Word = column + 1
  BY <1>1, CursorInside
<1> DEFINE drawn == Drawn(c, column, row)
           a == row * Width
<1>3. \A p \in Shown : drawn[p] = IF p = Cursor THEN c ELSE cells[p]
  BY <1>2 DEF Drawn
<1>4. a \in Nat /\ (row + 1) * Width = a + Width /\ Cursor = a + column
  BY <1>1 DEF Cursor
<1>5. /\ column' = IF column + 1 = Width THEN 0 ELSE column + 1
      /\ row' = IF column + 1 = Width
                THEN IF row + 1 = Height THEN row ELSE row + 1
                ELSE row
      /\ cells' = IF column + 1 = Width /\ row + 1 = Height
                  THEN ScrolledUp(drawn) ELSE drawn
  BY <1>1, <1>2 DEF ScrollIfNeeded
<1>6. row' < Height /\ column' < Width /\ row' \in Nat /\ column' \in Nat
  BY <1>1, <1>5
<1> DEFINE up == IF column + 1 = Width /\ row + 1 = Height THEN Width ELSE 0
<1>7. Cursor' = Cursor + 1 - up
  <2>1. Cursor' = row' * Width + column'
    BY DEF Cursor
  <2>2. CASE column + 1 # Width
    BY <1>1, <1>4, <1>5, <2>1, <2>2
  <2>3. CASE column + 1 = Width /\ row + 1 # Height
    <3>1. Cursor' = (row + 1) * Width + 0
      BY <1>5, <2>1, <2>3
    <3>2. Cursor' = a + Width
      BY <1>1, <1>4, <3>1
    <3> HIDE DEF a
    <3> QED BY <1>1, <1>4, <2>3, <3>2
  <2>4. CASE column + 1 = Width /\ row + 1 = Height
    <3>1. Cursor' = a + 0 /\ up = Width
      BY <1>5, <2>1, <2>4
    <3> HIDE DEF a, up
    <3> QED BY <1>1, <1>4, <2>4, <3>1
  <2> QED BY <2>2, <2>3, <2>4
<1>8. ASSUME NEW p \in 0 .. Cursor' - 1
      PROVE  cells'[p] = IF p = Cursor' - 1 THEN c ELSE cells[p + up]
  <2>1. Shown = 0 .. Width * Height - 1 /\ Width * Height \in Nat
    BY <1>1 DEF Shown
  <2>2. p + up \in Shown /\ p \in Shown
    <3> DEFINE b == Width * Height
    <3>1. p \in Nat /\ up \in Nat /\ p + up <= Cursor /\ Cursor < b /\ b \in Nat
      BY <1>1, <1>2, <1>7, <2>1
    <3> HIDE DEF b, up
    <3>2. p + up \in 0 .. b - 1 /\ p \in 0 .. b - 1
      BY <1>2, <3>1
    <3> QED BY <2>1, <3>2 DEF b
  <2>3. cells'[p] = drawn[p + up]
    <3>1. CASE up = 0
      <4>1. cells' = drawn /\ p + up = p
        BY <1>1, <1>5, <3>1
      <4> QED BY <4>1
    <3>2. CASE up # 0
      <4>1. up = Width /\ cells' = ScrolledUp(drawn)
        BY <1>5, <3>2
      <4> QED BY <2>2, <4>1 DEF ScrolledUp
    <3> QED BY <3>1, <3>2
  <2>4. p + up = Cursor <=> p = Cursor' - 1
    <3>1. p \in Int /\ up \in Int /\ Cursor \in Int /\ Cursor' = Cursor + 1 - up
      BY <1>1, <1>2, <1>7
    <3> HIDE DEF up
    <3> QED BY <3>1
  <2> QED BY <1>3, <2>2, <2>3, <2>4
<1> QED BY <1>6, <1>7, <1>8

LEMMA EchoIsDrawn ==
  ASSUME TypeInv, ShownInv, pc = "getdelim", plain, PrintStep
  PROVE  ShownInv'
<1>1. row < Height /\ column < Width /\ Echoing /\ ScreenTypeOK /\ n \in Nat
  BY DEF ShownInv, TypeInv, ShellTypeOK, Size
<1>2. tty_putchar /\ out # <<>> /\ UNCHANGED <<line, n, pc, plain>>
  BY DEF PrintStep, shellVars, tty_putchar, CarriageReturn, LineFeed, Tabulate,
     Backspace, Ignore, Draw, Printing
<1>3. \A c \in Glyphs : c \notin {CR, LF, TAB, BS, BELL, DEL}
  BY DEF Controls
<1>4. ASSUME Head(out) \in Glyphs
      PROVE  /\ Printed
             /\ ScrollIfNeeded((column + 1) % Word, row, Drawn(Head(out), column, row))
  <2>1. Draw
    BY <1>2, <1>3, <1>4 DEF tty_putchar, CarriageReturn, LineFeed, Tabulate,
       Backspace, Ignore, Printing
  <2> QED BY <2>1 DEF Draw, Printing
<1>5. CASE n = 0 /\ out \in Seq(Glyphs)
  <2>1. Head(out) \in Glyphs /\ Tail(out) \in Seq(Glyphs)
    BY <1>2, <1>5
  <2>2. row' < Height /\ column' < Width
    BY <1>1, <1>4, <2>1, DrawMoves
  <2>3. Echoing'
    BY <1>2, <1>4, <1>5, <2>1 DEF Echoing, Printed
  <2> QED BY <2>2, <2>3 DEF ShownInv
<1>6. CASE n > 0 /\ out = <<line[n - 1]>> /\ line[n - 1] \in Glyphs /\ Shows(n - 1)
  <2> DEFINE c == line[n - 1]
  <2>1. Head(out) = c /\ Tail(out) = <<>>
    BY <1>6
  <2>2. /\ row' < Height /\ column' < Width
        /\ \E up \in {0, Width} :
             /\ Cursor' = Cursor + 1 - up
             /\ \A p \in 0 .. Cursor' - 1 :
                  cells'[p] = IF p = Cursor' - 1 THEN c ELSE cells[p + up]
    BY <1>1, <1>4, <1>6, <2>1, DrawMoves
  <2>3. PICK up \in {0, Width} :
          /\ Cursor' = Cursor + 1 - up
          /\ \A p \in 0 .. Cursor' - 1 :
               cells'[p] = IF p = Cursor' - 1 THEN c ELSE cells[p + up]
    BY <2>2
  <2>4. Cursor \in Nat /\ up \in Nat
    BY <1>1, CursorInside DEF ScreenTypeOK
  <2>5. ASSUME NEW i \in 0 .. n - 1, Cursor' - (n - i) >= 0
        PROVE  cells'[Cursor' - (n - i)] = line[i]
    <3> DEFINE p == Cursor' - (n - i)
    <3>1. Cursor' \in Int /\ p \in 0 .. Cursor' - 1
      BY <1>1, <2>3, <2>4, <2>5
    <3>2. CASE i = n - 1
      <4>1. p = Cursor' - 1
        BY <1>1, <3>1, <3>2
      <4> QED BY <2>3, <3>1, <3>2, <4>1
    <3>3. CASE i # n - 1
      <4>1. p # Cursor' - 1 /\ p + up = Cursor - ((n - 1) - i) /\ p + up >= 0
            /\ i \in 0 .. (n - 1) - 1
        <5>1. \A N, K, J, C, U : /\ N \in Nat /\ J \in 0 .. N - 1 /\ J # N - 1
                                /\ C \in Nat /\ U \in Nat /\ K = C + 1 - U
                                /\ K - (N - J) >= 0
                => /\ K - (N - J) # K - 1
                   /\ K - (N - J) + U = C - ((N - 1) - J)
                   /\ K - (N - J) + U >= 0
                   /\ J \in 0 .. (N - 1) - 1
          OBVIOUS
        <5> QED BY <1>1, <2>3, <2>4, <2>5, <3>3, <5>1
      <4>2. cells[Cursor - ((n - 1) - i)] = line[i]
        BY <1>6, <4>1 DEF Shows
      <4> QED BY <2>3, <3>1, <4>1, <4>2
    <3> QED BY <3>2, <3>3
  <2>6. Shows(n)'
    BY <1>2, <2>5 DEF Shows
  <2>7. out' = <<>>
    BY <1>4, <1>6, <2>1 DEF Printed
  <2> QED BY <2>2, <2>6, <2>7 DEF ShownInv, Echoing
<1>7. CASE out = <<BS>> /\ column # 0 /\ Shows(n + 1)
  <2>1. Backspace
    BY <1>2, <1>3, <1>7 DEF tty_putchar, CarriageReturn, LineFeed, Tabulate,
       Ignore, Draw, Printing, CR, LF, TAB, BS, BELL, DEL
  <2>2. /\ row \in Nat /\ column \in Nat /\ column - 1 \in 0 .. column
        /\ column - 1 \in 0 .. Word - 1
    BY <1>1, <1>7 DEF ScreenTypeOK
  <2>3. BackX = column - 1 /\ BackY = row
    BY <1>7, <2>2 DEF BackX, BackY
  <2>4. /\ Cursor \in Nat /\ Cursor \in Shown /\ Place(column - 1, row) = row * Width + (column - 1)
        /\ Shown = 0 .. Width * Height - 1 /\ row * Width \in Nat /\ Width * Height \in Nat
    BY <1>1, <2>2, CursorInside DEF Shown
  <2>5. /\ column' = column - 1 /\ row' = row /\ out' = <<>>
        /\ cells' = [i \in Shown |-> IF i = Place(column - 1, row) THEN SPACE ELSE cells[i]]
    BY <1>7, <2>1, <2>3 DEF Backspace, Printed, Drawn
  <2>6. Cursor' = Cursor - 1 /\ Place(column - 1, row) = Cursor - 1
    <3> DEFINE a == row * Width
    <3>1. Cursor = a + column /\ Cursor' = a + (column - 1) /\ a \in Nat
          /\ Place(column - 1, row) = a + (column - 1)
      BY <2>4, <2>5 DEF Cursor
    <3> HIDE DEF a
    <3> QED BY <2>2, <3>1
  <2>7. ASSUME NEW i \in 0 .. n - 1, Cursor' - (n - i) >= 0
        PROVE  cells'[Cursor' - (n - i)] = line[i]
    <3> DEFINE p == Cursor' - (n - i)
               b == Width * Height
    <3>1. Cursor \in 0 .. b - 1 /\ b \in Nat
      BY <2>4
    <3> HIDE DEF b
    <3>2. p = Cursor - ((n + 1) - i) /\ p >= 0 /\ p # Cursor - 1 /\ p \in 0 .. b - 1
          /\ i \in 0 .. (n + 1) - 1
      BY <1>1, <2>6, <2>7, <3>1
    <3>3. cells[p] = line[i]
      BY <1>7, <3>2 DEF Shows
    <3> HIDE DEF p
    <3>4. cells'[p] = cells[p]
      BY <2>4, <2>5, <2>6, <3>2 DEF b
    <3> QED BY <3>3, <3>4 DEF p
  <2>8. Shows(n)'
    BY <1>2, <2>7 DEF Shows
  <2>9. column' < Width /\ row' < Height
    BY <1>1, <2>2, <2>5
  <2> QED BY <2>5, <2>8, <2>9 DEF ShownInv, Echoing
<1> QED BY <1>1, <1>2, <1>5, <1>6, <1>7 DEF Echoing

(* Between two keys the echo is complete.                                  *)
LEMMA ShownAtRest ==
  ASSUME ShownInv, At("getdelim"), plain, n \in Nat
  PROVE  row < Height /\ column < Width /\ Shows(n)
<1>1. pc = "getdelim" /\ out = <<>>
  BY DEF At
<1>2. row < Height /\ column < Width /\ Echoing
  BY <1>1 DEF ShownInv
<1>3. CASE n = 0
  <2>1. 0 .. n - 1 = {}
    BY <1>3
  <2> QED BY <1>2, <2>1 DEF Shows
<1>4. \A c : <<c>> # <<>>
  OBVIOUS
<1>5. CASE n # 0
  BY <1>1, <1>2, <1>4, <1>5 DEF Echoing
<1> QED BY <1>2, <1>3, <1>5

LEMMA ShownStep ==
  ASSUME TypeInv, ShownInv, [Next]_vars
  PROVE  ShownInv'
<1>1. CASE PrintStep
  <2>1. UNCHANGED <<pc, plain>>
    BY <1>1 DEF PrintStep, shellVars
  <2> QED BY <1>1, <2>1, EchoIsDrawn DEF ShownInv
<1>2. CASE ShellMain
  <2>1. /\ n' = 0 /\ out' = Prompt /\ row' = row /\ column' = column
        /\ plain' = (column < Width /\ row < Height)
    BY <1>2 DEF ShellMain, Write, screen, TypeInv, AtRest, At
  <2> QED BY <2>1 DEF ShownInv, Echoing
<1>3. CASE TypeBackspace
  <2>1. /\ n > 0 /\ n' = n - 1 /\ out = <<>> /\ out' = <<BS>> /\ n \in Nat
        /\ plain' = (plain /\ column # 0) /\ pc = "getdelim"
        /\ UNCHANGED <<row, column, cells, line, pc>>
    BY <1>3 DEF TypeBackspace, At, Write, screen, TypeInv, ShellTypeOK, Size
  <2>2. ASSUME plain'
        PROVE  row < Height /\ column < Width /\ Shows(n) /\ column # 0
    <3>1. plain /\ column # 0 /\ At("getdelim") /\ n \in Nat
      BY <2>1, <2>2 DEF At
    <3> QED BY <3>1, ShownAtRest
  <2>3. n' + 1 = n
    BY <2>1
  <2>4. ASSUME plain' PROVE Shows(n + 1)'
    BY <2>1, <2>2, <2>3, <2>4 DEF Shows, Cursor
  <2> QED BY <2>1, <2>2, <2>4 DEF ShownInv, Echoing
<1>4. CASE TypeOther
  <2>1. PICK c \in Typable : Store(c) /\ Write(<<c>>) /\ plain' = (plain /\ c \in Glyphs)
    BY <1>4 DEF TypeOther
  <2>2. /\ n \in 0 .. LineMax /\ n' = n + 1 /\ line' = [line EXCEPT ![n] = c]
        /\ out = <<>> /\ out' = <<c>> /\ pc = "getdelim"
        /\ UNCHANGED <<row, column, cells>> /\ line \in [Positions -> Chars]
    <3>1. /\ pc = "getdelim" /\ out = <<>> /\ UNCHANGED <<row, column, cells>>
      BY <1>4 DEF TypeOther, At, screen
    <3>2. n \in 0 .. LineMax /\ line \in [Positions -> Chars]
      BY <3>1 DEF TypeInv, ShellTypeOK, Size
    <3>3. n' = n + 1 /\ line' = [line EXCEPT ![n] = c] /\ out' = <<c>>
      BY <2>1 DEF Store, Write
    <3> QED BY <3>1, <3>2, <3>3
  <2>3. ASSUME plain'
        PROVE  row < Height /\ column < Width /\ Shows(n) /\ c \in Glyphs
    <3>1. plain /\ c \in Glyphs /\ At("getdelim") /\ n \in Nat
      <4>1. plain /\ c \in Glyphs
        BY <2>1, <2>3, Zenon
      <4> QED BY <2>2, <4>1 DEF At
    <3> QED BY <3>1, ShownAtRest
  <2>4. n' > 0 /\ n' - 1 = n /\ line'[n' - 1] = c
    BY <2>2 DEF Positions
  <2>5. \A i \in 0 .. n - 1 : line'[i] = line[i]
    BY <2>2 DEF Positions
  <2>6. ASSUME plain' PROVE Shows(n - 1)'
    BY <2>2, <2>3, <2>4, <2>5, <2>6 DEF Shows, Cursor
  <2> QED BY <2>1, <2>2, <2>3, <2>4, <2>6 DEF ShownInv, Echoing
<1>5. CASE \/ TypeReturn \/ EndLine \/ EmptyLine \/ SplitMore \/ SplitTrailing
           \/ SplitDone \/ ExecuteCommand \/ do_reboot \/ ExecuteUnknown
  <2>1. pc' # "getdelim"
    BY <1>5 DEF TypeReturn, EndLine, EmptyLine, SplitMore, SplitTrailing, SplitDone,
       ExecuteCommand, do_reboot, ExecuteUnknown, Return, Goto
  <2> QED BY <2>1 DEF ShownInv
<1>6. CASE UNCHANGED vars
  BY <1>6 DEF vars, consoleVars, screen, shellVars, ShownInv, Echoing, Shows, Cursor
<1> QED BY <1>1, <1>2, <1>3, <1>4, <1>5, <1>6 DEF Next

(* Whatever was typed and removed, the screen shows the line that getdelim *)
(* will return, as far as it has not scrolled away.                        *)
THEOREM LineIsShown == Spec => []LineShown
<1>1. Init => ShownInv
  BY DEF Init, ShownInv
<1>2. TypeInv /\ ShownInv => LineShown
  <2> SUFFICES ASSUME TypeInv, ShownInv, At("getdelim"), plain
               PROVE  LineShown
    BY DEF LineShown
  <2>1. row \in Nat /\ column \in Nat /\ Width \in Nat /\ n \in Nat
    BY DEF At, TypeInv, ScreenTypeOK, ShellTypeOK, Size
  <2>2. column < Width /\ Shows(n)
    BY <2>1, ShownAtRest
  <2>3. ASSUME NEW i \in 0 .. n - 1, row * Width + column - (n - i) >= 0
        PROVE  cells[row * Width + column - (n - i)] = line[i]
    <3>1. Cursor - (n - i) = row * Width + column - (n - i)
      <4>1. \A a, x, y \in Int : (a + x) - y = a + (x - y)
        OBVIOUS
      <4>2. row * Width \in Int /\ column \in Int /\ n - i \in Int
        BY <2>1
      <4> QED BY <4>1, <4>2 DEF Cursor
    <3>2. Cursor - (n - i) >= 0 => cells[Cursor - (n - i)] = line[i]
      BY <2>2 DEF Shows
    <3> QED BY <2>3, <3>1, <3>2, Zenon
  <2> QED BY <2>2, <2>3 DEF LineShown
<1> QED BY <1>1, <1>2, ShownStep, TypeInvariant, PTL DEF Spec
=============================================================================
