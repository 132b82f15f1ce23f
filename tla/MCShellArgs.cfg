SPECIFICATION Spec
CONSTANTS
  Width = 3
  Height = 2
  Word = 12
  MaxRow = 3
  LineMax = 5
  MaxArgs = 2
  Glyphs <- MCGlyphs
  Prompt <- MCPrompt
  Typable <- Letters
  Commands <- MCCommands
  Reboot <- MCReboot
  Texts <- MCTexts
  Unknown <- MCUnknown
INVARIANT ArgvHoldsArguments
CHECK_DEADLOCK FALSE
