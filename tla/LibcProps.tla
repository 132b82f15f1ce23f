------------------------------ MODULE LibcProps ------------------------------
(* What the conversions, the formatted output and the copies get right.    *)
EXTENDS Libc

(* A directive as a programmer means it: the text in front of it, its      *)
(* flags, width (0 for none), length and symbol, and the argument.         *)
Written_as(d) ==
  d.literal \o <<37>>
    \o (IF d.showbase THEN <<35>> ELSE <<>>)
    \o (IF d.width = 0 THEN <<>> ELSE <<48>> \o uinttostring(d.width, 10))
    \o (IF d.long THEN <<108>> ELSE <<>>) \o <<d.conv>>
Taking(d) == IF d.conv = 37 THEN <<>> ELSE <<d.arg>>
FormatOf(said, tail) == FlattenSeq([i \in DOMAIN said |-> Written_as(said[i])]) \o tail
ArgsOf(said) == FlattenSeq([i \in DOMAIN said |-> Taking(said[i])])
Printf(said, tail) == [fn |-> "printf", fmt |-> FormatOf(said, tail),
                       args |-> ArgsOf(said), said |-> said, tail |-> tail]

Numbers == {100, 98, 112, 117, 120}

(* The values of the type a directive takes from the va_list: int32_t or   *)
(* int64_t for %d, and unsigned for the others.                            *)
Values(d) ==
  LET size == IF d.long THEN LongWord ELSE Word
  IN IF d.conv = 100 THEN -(size \div 2) .. size \div 2 - 1 ELSE 0 .. size - 1

(* What a directive may be: text without a %, a symbol that is no flag, no *)
(* digit and not the length, known or not, and an argument of its type.    *)
Sayable(d) ==
  /\ d.literal \in Seq(Nat \ {37})
  /\ d.showbase \in BOOLEAN /\ d.width \in Nat /\ d.long \in BOOLEAN
  /\ d.conv \in Nat \ ({35, 108} \cup CT_DIG)
  /\ d.conv = 99 => d.arg \in Nat
  /\ d.conv = 115 => d.arg \in Seq(Int)
  /\ d.conv \in Numbers => d.arg \in Values(d)

ASSUME PrintfAssumption ==
  \A c \in Calls : c.fn = "printf" =>
    /\ c = Printf(c.said, c.tail)
    /\ c.said = [i \in 1 .. Len(c.said) |-> c.said[i]] /\ Len(c.said) \in Nat
    /\ c.tail \in Seq(Nat \ {37})
    /\ \A i \in DOMAIN c.said : Sayable(c.said[i])

(* The figures, in capitals, and the numeral of n in a base, which owes     *)
(* nothing to the code: the first power of the base above n gives its      *)
(* length, and figure i is the quotient by the power of its place.         *)
Figures == <<48, 49, 50, 51, 52, 53, 54, 55, 56, 57, 65, 66, 67, 68, 69, 70>>
Numeral(n, base) ==
  LET power[k \in 0 .. n + 1] == IF k = 0 THEN 1 ELSE base * power[k - 1]
      size == CHOOSE l \in 1 .. n + 1 : n < power[l] /\ (l = 1 \/ power[l - 1] <= n)
  IN [i \in 1 .. size |-> Figures[((n \div power[size - i]) % base) + 1]]

(* The sign and the figures of a number in the base its symbol stands for; *)
(* that of b is binary, as in the base printed in front (printf.c:136).    *)
SignOf(d) == IF d.arg < 0 THEN <<45>> ELSE <<>>
FiguresOf(d) ==
  Numeral(IF d.arg < 0 THEN -d.arg ELSE d.arg,
          CASE d.conv = 98 -> 2 [] d.conv \in {112, 120} -> 16 [] OTHER -> 10)
SizeOf(d) == Len(SignOf(d)) + Len(FiguresOf(d))

(* What a directive means: the literal, the base, and the value, a number  *)
(* with the zeros that fill its width between its sign and its figures.    *)
MeaningOf(d) ==
  d.literal
  \o (IF ~d.showbase THEN <<>>
      ELSE IF d.conv \in {112, 120} THEN <<48, 120>>
      ELSE IF d.conv = 98 THEN <<49, 39, 98>> ELSE <<>>)
  \o (CASE d.conv = 37 -> <<37>>
        [] d.conv = 99 -> <<d.arg>>
        [] d.conv = 115 -> IF d.arg = NullPointer THEN <<110, 117, 108, 108>> ELSE d.arg
        [] OTHER -> SignOf(d) \o [i \in 1 .. d.width - SizeOf(d) |-> 48] \o FiguresOf(d))

(* What the code does not print as it is meant: a width of several digits, *)
(* which are added up; a number longer than its width (almost 2^32 zeros); *)
(* a negative number with zeros to fill (they come before the sign); and   *)
(* %b of 2 or more, which is printed in decimal.                           *)
Fits(d) ==
  /\ d.width < 10
  /\ d.conv \in Numbers =>
       /\ d.width = 0 \/ SizeOf(d) = d.width \/ (SizeOf(d) < d.width /\ d.arg >= 0)
       /\ d.conv = 98 => d.arg < 2

(* A format that is meant as its directives say is read as such whatever   *)
(* flags, widths and lengths it combines, every argument goes to its own   *)
(* directive, and printf prints, as sprintf writes, the literals and values*)
(* in order, the numbers in the base of their symbols and filled with zeros*)
(* as long as every directive is none of those Fits excepts.               *)
FormattedAsMeant ==
  (pc = "done" /\ call.fn = "printf" /\ \A i \in DOMAIN call.said : Fits(call.said[i]))
  => LET meaning == FlattenSeq([i \in DOMAIN call.said |-> MeaningOf(call.said[i])])
                      \o call.tail
     IN screen = meaning /\ str = meaning

(* What arg_checkdigits sees is no number: it looks at the first character *)
(* of a decimal number and at the digits from the third on.                *)
SeenToBeNoNumber(s) ==
  IF strncmp0x(s) THEN \E i \in 5 .. Len(s) : ~isxdigit(s[i])
  ELSE ~isdigit(At(s, 1)) \/ \E i \in 3 .. Len(s) : ~isdigit(s[i])

(* The text of a number reads back as the number in every base, the least  *)
(* negative number included, and the whole text is read; the int command   *)
(* raises the interrupt the user wrote in decimal or, in either case, in   *)
(* hexadecimal, and none for a text that is no number by its first         *)
(* character or from its third digit on.  Of another text nothing is said: *)
(* 1x raises interrupt 1 and 300 interrupt 44.                             *)
NumbersReadBack ==
  pc = "done" =>
    /\ call.fn = "inttostring" =>
         strtoll(result, call.base) = [n |-> call.nb, end |-> Len(result) + 1]
    /\ call.fn = "do_int" =>
         IF call.meant # -1 THEN result = call.meant
         ELSE SeenToBeNoNumber(call.arg) => result = -1

(* A copy gives the destination what the source held before the call, also *)
(* when they overlap, if memcpy is used towards lower addresses and        *)
(* memcpyrev towards higher ones, and writes nothing else.                 *)
CopiesSurviveOverlap ==
  (pc = "done" /\ \/ call.fn = "memcpy" /\ call.dest <= call.src
                  \/ call.fn = "memcpyrev" /\ call.dest >= call.src)
  => \A a \in DOMAIN call.mem :
       result[a] = IF a \in call.dest .. call.dest + call.n - 1
                   THEN call.mem[a - call.dest + call.src] ELSE call.mem[a]
=============================================================================
