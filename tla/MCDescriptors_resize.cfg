\* As MCDescriptors.cfg, with views of the old images when the swapchain is resized (finding).
SPECIFICATION Spec
CONSTANTS
  g1 = g1
  g2 = g2
  v1 = v1
  v2 = v2
  v3 = v3
  Threads = {t1, t2}
  Heaps = {g1, g2}
  Slots = {v1, v2, v3}
  HeapOf <- TwoAndOne
  SamplerSlots = {s1, s2}
  Descriptions = {d1, d2}
  SamplerBudget = 1
  ImageCount = 1
  NoSlot = NoSlot
  NoSampler = NoSampler
  ViewsKeptAcrossResize = TRUE
  MaxResources = 3
  MaxHandles = 5
  MaxGeneration = 2
INVARIANT ViewsOfLiveResources
SYMMETRY Symmetry
