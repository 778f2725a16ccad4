\* A heap of two slots and one of one, two images, four handles given out, an index used twice.
SPECIFICATION Spec
CONSTANTS
  g1 = g1
  g2 = g2
  v1 = v1
  v2 = v2
  v3 = v3
  Threads = {t1, t2}
  Heaps = {g1, g2}
  Slots = {v1, v2, v3}
  HeapOf <- TwoAndOne
  SamplerSlots = {s1, s2}
  Descriptions = {d1, d2}
  SamplerBudget = 1
  ImageCount = 2
  NoSlot = NoSlot
  NoSampler = NoSampler
  ViewsKeptAcrossResize = FALSE
  MaxResources = 4
  MaxHandles = 4
  MaxGeneration = 2
INVARIANTS ResourcesExact ViewsOfLiveResources SamplersExact
SYMMETRY Symmetry
