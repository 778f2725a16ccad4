\* Three threads; blocks of four bytes.
SPECIFICATION Spec
CONSTANTS
  Threads = {t1, t2, t3}
  Objects = {o1, o2, o3}
  BlockIds = {b1, b2}
  PreferredBlockSize = 4
  MaxBlockCount = 2
  Requests <- WithoutFallback
  NoObject = NoObject
  NoThread = NoThread
SYMMETRY Symmetry
INVARIANTS   BudgetExact
PROPERTY NeverAllocateRespected
