\* TLSF: seven 96-byte units and a rest over three memory classes, 256-byte alignment wastes holes.
\* Linear: seven units, 1st is compacted from four items on.
SPECIFICATION Spec
CONSTANTS
  TlsfSize = 736
  LinearSize = 672
  IsVirtual = FALSE
  DebugMargin = 0
  CompactAbove = 3
  AllocSizes = {96, 192, 288}
  Alignments = {32, 256}
INVARIANTS TlsfValid LinearValid RequestComplete
PROPERTY ImplementsHeap
