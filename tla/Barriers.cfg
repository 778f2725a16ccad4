CONSTANTS
  Lists = {l1, l2}
  Textures = {t1}
  Buffers = {b1}
  MaxBatches = 1
SPECIFICATION Spec
INVARIANTS TransitionsSound StatesExact
CHECK_DEADLOCK FALSE
