CONSTANTS
  Lists = {l1, l2}
  Drawing = {l1}
  Adopting = {l2}
  Heaps = {h1}
  Layouts = {"full", "spilling"}
  None = None
  Pages = {1}
  RangeSizes = {1}
  MinimumPage = 2
  IdleResets = 0
  MaxRecords = 1
  OpenResetMayFail = FALSE
SPECIFICATION Spec
INVARIANTS  RenderingTracked BindingsHonest RangesUnique SubmittedSound
CHECK_DEADLOCK FALSE
