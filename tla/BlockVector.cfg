\* One reserved block of three at most; block sizes 8, 4, 2 and 1.
SPECIFICATION Spec
CONSTANTS
  BlockIds = {b1, b2, b3, b4}
  Allocations = {a1, a2, a3}
  Sizes = {1, 4, 7}
  PreferredBlockSize = 8
  MinBlockCount = 1
  MaxBlockCount = 3
  ExplicitBlockSize = FALSE
  DebugMargin = 0
  FreeMemory = {0, 3, 100}
SYMMETRY Symmetry
INVARIANTS DestroyedWhenEmpty EmptyFlagHonest
PROPERTY NoHeapInVain
