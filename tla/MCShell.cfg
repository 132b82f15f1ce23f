SPECIFICATION Spec
CONSTANTS
  Width = 3
  Height = 2
  Word = 12
  MaxRow = 3
  LineMax = 4
  MaxArgs = 2
  Glyphs <- MCGlyphs
  Prompt <- MCPrompt
  Typable <- MCTypable
  Commands <- MCCommands
  Reboot <- MCReboot
  Texts <- MCTexts
  Unknown <- MCUnknown
INVARIANTS
  TypeOK
  RowOnScreen
  LineShown
  StringsEnd
  ArgumentsAreWords
CHECK_DEADLOCK FALSE
