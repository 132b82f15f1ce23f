SPECIFICATION Spec
CONSTANTS
  HeapBeginning = 1
  HEAP_MAX_SIZE = 52
  Word = 128
  Sizes <- MCSizes
  CallocArgs <- MCCallocArgs
INVARIANTS
  ListIntact
  FreeNodesMerged
  Backed
  NoBlockForgotten
PROPERTIES
  CallReturns
  ImplementsAbstractHeap
