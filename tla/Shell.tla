------------------------------- MODULE Shell -------------------------------
(***************************************************************************)
(* The loop of main over shell_main (shell/shell.c): the prompt, the line  *)
(* read by getdelim (libc/stdio/basic_in.c) with its echo on the console,  *)
(* its arguments and the command they name.  A step of the shell begins    *)
(* when everything before it has been printed.                             *)
(***************************************************************************)
EXTENDS Console

CONSTANTS
  Prompt,    (* SHELL_PROMPT "/> ", a sequence of glyphs                   *)
  LineMax,   (* SHELL_LINE_MAX_LEN                                         *)
  MaxArgs,   (* SHELL_ARGS_MAX_NB                                          *)
  Typable,   (* the characters that getc returns, but for CR and BS        *)
  Commands,  (* the names in cmd_table                                     *)
  Reboot,    (* the one of them that does not return                       *)
  Texts,     (* what the other commands print                              *)
  Unknown    (* "error: unknown command "                                  *)

ASSUME ShellAssumption ==
  /\ Prompt \in Seq(Glyphs) /\ Unknown \in Seq(Chars)
  /\ LineMax \in Nat \ {0} /\ MaxArgs \in Nat \ {0}
  /\ Typable \subseteq Chars \ {CR, BS}
  /\ Commands \subseteq Seq(Chars) /\ Reboot \in Commands
  /\ Texts \subseteq Seq(Chars)

VARIABLES
  line, n,  (* shell_main's array, and how much of it getdelim has filled  *)
  argv,     (* the places in line where the arguments begin; argc is Len   *)
  pc,
  entered,  (* history: line as shell_split_line finds it                  *)
  plain     (* history: since the prompt, the keys pressed are glyphs, and *)
            (* backspaces behind the first column                          *)

shellVars == <<line, n, argv, pc, entered, plain>>
vars == <<consoleVars, shellVars>>

Size == LineMax + 1
Positions == 0 .. LineMax
Unused == [i \in Positions |-> NUL]

At(label) == pc = label /\ out = <<>>
Goto(label) == pc' = label
Write(text) == out' = text

(* Outside shell_main its variables do not exist, and begin anew.          *)
Return ==
  /\ Goto("main")
  /\ line' = Unused /\ n' = 0 /\ argv' = <<>> /\ entered' = Unused
  /\ plain' = FALSE

ShellMain ==
  /\ At("main") /\ Goto("getdelim")
  /\ Write(Prompt)
  /\ plain' = (column < Width /\ row < Height)
  /\ UNCHANGED <<screen, strayed, line, n, argv, entered>>

-----------------------------------------------------------------------------
(* getdelim, for CR and with echo: a character per step.                   *)

Store(c) == line' = [line EXCEPT ![n] = c] /\ n' = n + 1

TypeReturn ==
  /\ At("getdelim") /\ Goto("ended")
  /\ Store(CR) /\ Write(<<CR, LF>>)
  /\ UNCHANGED <<screen, strayed, argv, entered, plain>>

(* Mutant of TypeBackspace: the start of the line is not respected.        *)
TypeBackspaceMutant ==
  /\ At("getdelim")
  /\ n' = n - 1 /\ Write(<<BS>>)
  /\ plain' = (plain /\ column # 0)
  /\ UNCHANGED <<screen, strayed, line, argv, pc, entered>>

(* With nothing to remove, backspace changes nothing.                      *)
TypeBackspace ==
  /\ At("getdelim") /\ n > 0
  /\ n' = n - 1 /\ Write(<<BS>>)
  /\ plain' = (plain /\ column # 0)
  /\ UNCHANGED <<screen, strayed, line, argv, pc, entered>>

TypeOther ==
  /\ At("getdelim")
  /\ \E c \in Typable :
       /\ Store(c) /\ Write(<<c>>)
       /\ plain' = (plain /\ c \in Glyphs)
  /\ Goto(IF n + 1 = Size THEN "ended" ELSE "getdelim")
  /\ UNCHANGED <<screen, strayed, argv, entered>>

(* Mutant of Closed: the last character is not replaced.                   *)
ClosedMutant == [i \in Positions |-> IF i = n THEN NUL ELSE line[i]]

(* getdelim ends the string if there is room, shell_main overwrites CR.    *)
Closed == [i \in Positions |-> IF i \in {n - 1, n} THEN NUL ELSE line[i]]

EndLine ==
  /\ At("ended") /\ n > 1 /\ Goto("split")
  /\ line' = Closed /\ entered' = Closed /\ argv' = <<0>>
  /\ plain' = FALSE
  /\ UNCHANGED <<consoleVars, n>>

EmptyLine ==
  /\ At("ended") /\ n <= 1 /\ Return
  /\ UNCHANGED consoleVars

-----------------------------------------------------------------------------
(* shell_split_line: an argument per step.                                 *)

Last == argv[Len(argv)]

(* strchr finds the space before the string ends.                          *)
IsNextSpace(space) ==
  /\ space >= Last /\ line[space] = SPACE
  /\ \A i \in Last .. space - 1 : line[i] \notin {SPACE, NUL}

(* Mutant of IsNextArg: only one space separates arguments.                *)
IsNextArgMutant(space, next) == next = space + 1

IsNextArg(space, next) ==
  /\ next > space /\ line[next] # SPACE
  /\ \A i \in space + 1 .. next - 1 : line[i] = SPACE

Looping == At("split") /\ Len(argv) <= MaxArgs

(* argv has MaxArgs elements: one more is stored behind it, on whatever    *)
(* the stack holds there, and what happens then is not followed.           *)
SplitMore ==
  /\ Looping
  /\ \E space, next \in Positions :
       /\ IsNextSpace(space) /\ IsNextArg(space, next) /\ line[next] # NUL
       /\ line' = [line EXCEPT ![space] = NUL]
       /\ argv' = Append(argv, next)
  /\ Goto(IF Len(argv) = MaxArgs THEN "overrun" ELSE "split")
  /\ UNCHANGED <<consoleVars, n, entered, plain>>

SplitTrailing ==
  /\ Looping /\ Goto("execute")
  /\ \E space, next \in Positions :
       /\ IsNextSpace(space) /\ IsNextArg(space, next) /\ line[next] = NUL
       /\ line' = [line EXCEPT ![space] = NUL]
  /\ UNCHANGED <<consoleVars, n, argv, entered, plain>>

SplitDone ==
  /\ Looping /\ Goto("execute")
  /\ ~ \E space \in Positions : IsNextSpace(space)
  /\ UNCHANGED <<consoleVars, line, n, argv, entered, plain>>

-----------------------------------------------------------------------------
(* shell_execute.                                                          *)

(* The string at place p, which ends before place end.                     *)
EndsAt(p, end) ==
  end >= p /\ line[end] = NUL /\ \A i \in p .. end - 1 : line[i] # NUL
StringAt(p, end) == [i \in 1 .. end - p |-> line[p + i - 1]]

(* strcmp finds it equal to a name.                                        *)
IsString(p, name) ==
  \E end \in Positions : EndsAt(p, end) /\ StringAt(p, end) = name

ExecuteCommand ==
  /\ At("execute") /\ Return
  /\ \E name \in Commands \ {Reboot} : IsString(argv[1], name)
  /\ \E text \in Texts : Write(text)
  /\ UNCHANGED <<screen, strayed>>

do_reboot ==
  /\ At("execute") /\ Goto("off")
  /\ IsString(argv[1], Reboot)
  /\ UNCHANGED <<consoleVars, line, n, argv, entered, plain>>

ExecuteUnknown ==
  /\ At("execute") /\ Return
  /\ ~ \E name \in Commands : IsString(argv[1], name)
  /\ \E end \in Positions :
       /\ EndsAt(argv[1], end)
       /\ Write(Unknown \o StringAt(argv[1], end) \o <<CR, LF>>)
  /\ UNCHANGED <<screen, strayed>>

-----------------------------------------------------------------------------
Init ==
  /\ ConsoleInit
  /\ line = Unused /\ n = 0 /\ argv = <<>> /\ pc = "main"
  /\ entered = Unused /\ plain = FALSE

PrintStep == tty_putchar /\ UNCHANGED shellVars

Next ==
  \/ PrintStep
  \/ ShellMain
  \/ TypeReturn \/ TypeBackspace \/ TypeOther
  \/ EndLine \/ EmptyLine
  \/ SplitMore \/ SplitTrailing \/ SplitDone
  \/ ExecuteCommand \/ do_reboot \/ ExecuteUnknown

Spec == Init /\ [][Next]_vars
=============================================================================
