\* Two lists of three entries, two hlists of three nodes, every directive
\* alone and in pairs, and every number of nine bits.
SPECIFICATION MCSpec
CONSTANTS
  Heads = {h1, h2}
  Entries = {e1, e2, e3}
  LIST_POISON1 = LIST_POISON1
  LIST_POISON2 = LIST_POISON2
  HHeads = {hh1, hh2}
  HNodes = {n1, n2, n3}
  NULL = NULL
  POISON = LIST_POISON1
  Word = 64
  LongWord = 512
  Widths = {0, 1, 3, 9}
  Calls <- AllCalls
SYMMETRY Symmetry
INVARIANTS RingsIntact LoopsSeeEveryEntry HlistsIntact FormattedAsMeant NumbersReadBack CopiesSurviveOverlap
PROPERTIES EveryCallKeepsItsPromise EveryHlistCallKeepsItsPromise
CHECK_DEADLOCK FALSE
