CONSTANTS
  None = None
  Handles = {r1, r2, r3}
  Heaps = {p1}
  Objects = {o1, o2, o3, host}
  HostObjects = {host}
  Memories = {m1, m2, m3}
  Types = {local, upload}
  Visible = {upload}
  BufferTypes = {local, upload}
  ImageTypes = {local}
  Sizes = {1, 2}
  HeapSizes = {3}
  Offsets = {0, 1, 2, 4}
  Alignment = 2
  MaxMaps = 2
  Adopted = TRUE
  DestroyedBeforeShutdown = FALSE
  Kinds <- MCKinds
  Families <- MCFamilies
  FamilyOf <- MCFamilyOf
  QueueCount <- MCQueueCount
  SpareQueues <- MCSpareQueues
  Supports <- MCSupports
  MaxQueues = 2
  Chains = {r1, r2, r3}
  Counts = {2, 3}
  MinImages = 2
  TrustsIsOk = FALSE
  Stale = Stale
  Features <- MCFeatures
  LayoutDescs <- MCLayoutDescs
  PipelineDescs <- MCPipelineDescs
  SignatureDescs <- MCSignatureDescs
  SamplerCapacity = 4
  StaticSamplerCapacity = 4
  SamplerBudget = 2
  MaxPushDataSize = 132
  MaxTokens = 4
  SetSize = 2
  ResetsFirst = TRUE
  DestroysSets = TRUE
  Layouts <- MCLayouts
  Variables <- MCVariables
  Declared <- MCDeclared
  MaxVariables = 3
  UniformAlignment = 16
  SpillAlignment = 16
  Dynamic = Dynamic
SPECIFICATION Spec
SYMMETRY Symmetry
INVARIANTS MappingsExact   InterfacesMatch LoweringFaithful
