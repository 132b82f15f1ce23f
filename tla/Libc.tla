-------------------------------- MODULE Libc --------------------------------
(* Numbers to text and back, formatted output, copies of memory and the    *)
(* character classes of libc, with the shell's int command that uses them. *)
(* A character is its code, a string the sequence of its characters before *)
(* the NUL.  A behaviour is one call.                                      *)
EXTENDS Integers, SequencesExt

CONSTANTS Word,       \* unsigned and size_t wrap here: 2^32 in the code
          LongWord,   \* uint64_t wraps here: 2^64 in the code
          Calls       \* the calls to make, records with the field fn

VARIABLES call, pc,
          start,     \* vprintf and vsprintf: str_start
          taken,     \* the arguments taken from the va_list
          screen,    \* what vprintf has printed
          str,       \* what vsprintf has written
          result     \* what the other calls give

libcvars == <<call, pc, start, taken, screen, str, result>>
-----------------------------------------------------------------------------
(* _ctype, as the set of the characters of each class.                     *)
CT_UP == 65 .. 90
CT_LOW == 97 .. 122
CT_DIG == 48 .. 57
CT_HEX == (65 .. 70) \cup (97 .. 102)

isdigit(c) == c \in CT_DIG
isxdigit(c) == c \in CT_DIG \cup CT_HEX
isupper(c) == c \in CT_UP

(* Mutant of tolower: the letter is left alone.                            *)
tolowerMutant(c) == c

tolower(c) == IF isupper(c) THEN c + 32 ELSE c

isdigitinbase(c, base) ==
  IF isdigit(c) THEN base > 10 \/ c - 48 < base
  ELSE isxdigit(c) /\ tolower(c) - 97 + 10 < base

(* str[i], where 0 is the NUL.                                             *)
At(s, i) == IF i <= Len(s) THEN s[i] ELSE 0

Digit(remaining) == IF remaining + 48 > 57 THEN remaining + 55 ELSE remaining + 48

(* The digits come lowest first and are reversed by strnrev.               *)
uinttostring(nb, base) ==
  LET low[n \in 0 .. nb] ==
        <<Digit(n % base)>> \o IF n \div base = 0 THEN <<>> ELSE low[n \div base]
  IN Reverse(low[nb])

(* The negation of the least int64_t overflows, to the right uint64_t.     *)
inttostring(nb, base) ==
  IF nb < 0 THEN <<45>> \o uinttostring((-nb) % LongWord, base)
  ELSE uinttostring(nb, base)

(* How many digits s begins with, and what a digit is worth.               *)
Digits(s, base) == CHOOSE k \in 0 .. Len(s) :
                     /\ \A i \in 1 .. k : isdigitinbase(s[i], base)
                     /\ ~isdigitinbase(At(s, k + 1), base)
Worth(c) == IF isdigit(c) THEN c - 48 ELSE tolower(c) - 97 + 10

(* The number and the place of *endptr.                                    *)
strtoull(s, base) ==
  LET read[k \in 0 .. Len(s)] ==
        IF k = 0 THEN 0 ELSE (read[k - 1] * base + Worth(s[k])) % LongWord
  IN [n |-> read[Digits(s, base)], end |-> Digits(s, base) + 1]

(* The uint64_t is taken for an int64_t.                                   *)
Signed(n) == IF n >= LongWord \div 2 THEN n - LongWord ELSE n
strtoll(s, base) ==
  IF At(s, 1) = 45
  THEN LET r == strtoull(Tail(s), base)
       IN [n |-> Signed((-r.n) % LongWord), end |-> r.end + 1]
  ELSE LET r == strtoull(s, base) IN [n |-> Signed(r.n), end |-> r.end]

-----------------------------------------------------------------------------
(* The copies, byte by byte, in a memory m that is a function of addresses.*)
memcpy(m, dest, src, n) ==
  LET copied[i \in 0 .. n] ==
        IF i = 0 THEN m
        ELSE [copied[i - 1] EXCEPT ![dest + i - 1] = copied[i - 1][src + i - 1]]
  IN copied[n]

(* Mutant of memcpyrev: it goes up as memcpy does.                         *)
memcpyrevMutant(m, dest, src, n) == memcpy(m, dest, src, n)

memcpyrev(m, dest, src, n) ==
  LET copied[i \in 0 .. n] ==
        IF i = n THEN m
        ELSE [copied[i + 1] EXCEPT ![dest + i] = copied[i + 1][src + i]]
  IN copied[0]

(* The int command: the interrupt raised, or -1.  The digits are only      *)
(* checked from the third on, and the number is truncated to a byte.       *)
strncmp0x(s) == At(s, 1) = 48 /\ At(s, 2) = 120
arg_checkdigits(s, base) == \A i \in 3 .. Len(s) : isdigitinbase(s[i], base)
do_int(s) ==
  LET base == IF strncmp0x(s) THEN 16 ELSE 10
      digits == IF strncmp0x(s) THEN SubSeq(s, 3, Len(s)) ELSE s
  IN IF isdigit(At(s, 1)) /\ arg_checkdigits(digits, base)
     THEN strtoull(digits, base).n % 256 ELSE -1

-----------------------------------------------------------------------------
(* The calls the code may make of those above.  A number is an int64_t and *)
(* its base one the assertions allow; a copy stays in the memory there is; *)
(* the argument of the int command is any text: an interrupt written in    *)
(* decimal or, in either case, in hexadecimal, or, with meant = -1, any    *)
(* text that is none of these.                                             *)
Lowercase(s) == [i \in DOMAIN s |-> tolower(s[i])]
Written(n) == {uinttostring(n, 10), <<48, 120>> \o uinttostring(n, 16),
               <<48, 120>> \o Lowercase(uinttostring(n, 16))}

Copyable(m, dest, src, n) ==
  /\ dest \in Int /\ src \in Int /\ n \in Nat
  /\ m = [a \in DOMAIN m |-> m[a]] /\ DOMAIN m \subseteq Int
  /\ dest .. dest + n - 1 \subseteq DOMAIN m
  /\ src .. src + n - 1 \subseteq DOMAIN m

ASSUME LibcAssumption ==
  /\ Word \in Nat /\ Word >= 10
  /\ LongWord \in Nat /\ LongWord >= 256 /\ LongWord % 2 = 0 /\ Word <= LongWord
  /\ \A c \in Calls :
       /\ c.fn = "inttostring" =>
            c.nb \in -(LongWord \div 2) .. LongWord \div 2 - 1 /\ c.base \in 2 .. 16
       /\ c.fn \in {"memcpy", "memcpyrev"} => Copyable(c.mem, c.dest, c.src, c.n)
       /\ c.fn = "do_int" => \/ c.meant \in 0 .. 255 /\ c.arg \in Written(c.meant)
                             \/ /\ c.meant = -1 /\ c.arg \in Seq(Nat)
                                /\ \A n \in 0 .. 255 : c.arg \notin Written(n)

-----------------------------------------------------------------------------
(* What vprintf and vsprintf read of a directive whose % is at mark.  The  *)
(* digits of the width are added up, not read as a number.                 *)
Directive(fmt, mark) ==
  LET showbase == At(fmt, mark + 1) = 35
      m1 == IF showbase THEN mark + 2 ELSE mark + 1
      zero == At(fmt, m1) = 48
      sum[k \in 0 .. Len(fmt)] ==
        IF k = 0 THEN 0 ELSE sum[k - 1] + At(fmt, m1 + k) - 48
      digits == CHOOSE k \in 0 .. Len(fmt) :
                  /\ \A j \in 1 .. k : isdigit(At(fmt, m1 + j)) /\ sum[j - 1] < 21
                  /\ ~isdigit(At(fmt, m1 + k + 1)) \/ sum[k] >= 21
      m2 == IF zero THEN m1 + 1 + digits ELSE m1
      m3 == IF At(fmt, m2) = 108 THEN m2 + 1 ELSE m2
  IN [showbase |-> showbase, width |-> IF zero THEN sum[digits] ELSE 0,
      conv |-> At(fmt, m3), mark |-> m3]

(* c, s, d, b, p, u, x and %.                                              *)
Conversions == {99, 115, 100, 98, 112, 117, 120, 37}
Hexadecimal == {112, 120}
Base(d) == IF ~d.showbase THEN <<>>
           ELSE IF d.conv \in Hexadecimal THEN <<48, 120>>
           ELSE IF d.conv = 98 THEN <<49, 39, 98>> ELSE <<>>

Number(conv, arg) ==
  IF conv = 100 THEN inttostring(arg, 10)
  ELSE uinttostring(arg, IF conv \in Hexadecimal THEN 16 ELSE 10)

(* Mutant of Zeros: one too many.                                          *)
ZerosMutant(d, arg) ==
  [i \in 1 .. (d.width + 1 - Len(Number(d.conv, arg))) % Word |-> 48]

(* The difference is a size_t: a number that is longer than its width is   *)
(* preceded by almost 2^32 zeros.                                          *)
Zeros(d, arg) ==
  [i \in 1 .. (d.width - Len(Number(d.conv, arg))) % Word |-> 48]

NullPointer == <<-1>>

(* The text of a value; of a null pointer it is "null".                    *)
Text(d, arg) ==
  CASE d.conv = 37  -> <<37>>
    [] d.conv = 99  -> <<arg>>
    [] d.conv = 115 -> IF arg = NullPointer THEN <<110, 117, 108, 108>> ELSE arg
    [] OTHER -> IF d.width = 0 THEN Number(d.conv, arg)
                ELSE Zeros(d, arg) \o Number(d.conv, arg)

(* strchr: the next %, or 0.                                               *)
Mark == IF \E i \in start .. Len(call.fmt) : call.fmt[i] = 37
        THEN CHOOSE i \in start .. Len(call.fmt) :
               call.fmt[i] = 37 /\ \A j \in start .. i - 1 : call.fmt[j] # 37
        ELSE 0

(* One turn of the loops of vprintf and vsprintf, side by side: where one  *)
(* prints, the other copies.  strcpy writes no NUL, so that str is only    *)
(* what is copied, not where the string in the buffer ends.                *)
Iterate ==
  /\ pc = "format" /\ Mark # 0
  /\ LET d == Directive(call.fmt, Mark)
         arg == IF d.conv = 37 THEN <<>> ELSE call.args[taken + 1]
         literal == SubSeq(call.fmt, start, Mark - 1)
     IN /\ d.conv \in Conversions
        /\ screen' = screen \o literal \o Base(d) \o Text(d, arg)
        /\ str' = str \o literal \o Base(d) \o Text(d, arg)
        /\ taken' = IF d.conv = 37 THEN taken ELSE taken + 1
        /\ start' = d.mark + 1
  /\ UNCHANGED <<call, pc, result>>

(* An unknown symbol: panic, before the literal in front of it is printed. *)
Panic ==
  /\ pc = "format" /\ Mark # 0
  /\ Directive(call.fmt, Mark).conv \notin Conversions
  /\ pc' = "panic"
  /\ UNCHANGED <<call, start, taken, screen, str, result>>

Rest ==
  /\ pc = "format" /\ Mark = 0
  /\ LET literal == SubSeq(call.fmt, start, Len(call.fmt))
     IN /\ screen' = screen \o literal /\ str' = str \o literal
  /\ pc' = "done"
  /\ UNCHANGED <<call, start, taken, result>>

-----------------------------------------------------------------------------
Give(r) ==
  /\ result' = r /\ pc' = "done"
  /\ UNCHANGED <<call, start, taken, screen, str>>

Number_to_text == call.fn = "inttostring" /\ Give(inttostring(call.nb, call.base))
Copy == /\ call.fn \in {"memcpy", "memcpyrev"}
        /\ Give(IF call.fn = "memcpy"
                THEN memcpy(call.mem, call.dest, call.src, call.n)
                ELSE memcpyrev(call.mem, call.dest, call.src, call.n))
IntCommand == call.fn = "do_int" /\ Give(do_int(call.arg))

LibcInit ==
  /\ call \in Calls
  /\ pc = IF call.fn = "printf" THEN "format" ELSE "call"
  /\ start = 1 /\ taken = 0 /\ screen = <<>> /\ str = <<>>
  /\ result = <<>>

LibcNext ==
  \/ Iterate \/ Panic \/ Rest
  \/ pc = "call" /\ (Number_to_text \/ Copy \/ IntCommand)

LibcSpec == LibcInit /\ [][LibcNext]_libcvars
=============================================================================
