------------------------------ MODULE MCShell ------------------------------
(* A screen of two rows of three cells and lines of a few characters, for  *)
(* TLC.                                                                    *)
EXTENDS ShellProps

MCGlyphs == {"a", SPACE, NUL}
MCPrompt == <<"a">>
MCTypable == {"a", SPACE, LF, BELL}
Letters == {"a", SPACE}
MCReboot == <<"a", "a", "a">>
MCCommands == {<<"a">>, MCReboot}
MCTexts == {<<>>, <<TAB, "a", CR, LF>>}
MCUnknown == <<"a">>
=============================================================================
