-------------------------- MODULE MCKeyboardInput ---------------------------
(* Small keyboards, for TLC.                                               *)
EXTENDS KeyboardInputProps

A == 30   LeftShift == 42   RightShift == 54   CapsLock == 58   Delete == 83

SomeKeys == {A, LeftShift, RightShift, CapsLock, Delete}
=============================================================================
