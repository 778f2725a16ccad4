\* A pool with one reserved heap of three at most; a pass moves two allocations or five bytes.
SPECIFICATION DefragSpec
CONSTANTS
  BlockIds = {b1, b2, b3}
  Allocations = {a1, a2, a3, t1, t2}
  Temps = {t1, t2}
  Sizes = {1, 4}
  PreferredBlockSize = 8
  MinBlockCount = 1
  MaxBlockCount = 3
  ExplicitBlockSize = TRUE
  DebugMargin = 0
  FreeMemory = {0, 100}
  Algorithm = "full"
  MaxPassBytes = 5
  MaxPassAllocations = 2
  MaxAllocsToIgnore = 2
  IgnoredBits = 2
SYMMETRY DefragSymmetry
INVARIANTS PassWithinLimits TempsAccounted MovesForward
