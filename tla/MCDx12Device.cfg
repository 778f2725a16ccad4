\* A registration is taken over by the other timeline, whose event may get the old handle.
\* Two pushes fill a scratch page; two windows share the handles.
SPECIFICATION DeviceSpec
CONSTANTS
  None = None
  Threads = {w, t}
  Waiter = w
  Timelines = {a, b}
  Queues = {g, x}
  Primary = {g}
  Events = {1, 2, 3}
  MaxTimelines = 2
  MaxPoints = 2
  MaxValue = 2
  MaxCalls = 3
  Allocators = {"d"}
  QueueKinds = {"direct", "compute", "copy"}
  Lists = {p, s}
  Drawing = {p}
  RootLayouts = {"A", "B", "C"}
  Ranges <- MCRanges
  RootSources <- MCRootSources
  Signatures <- MCSignatures
  PageSize = 3
  Placement = 2
  MaxWords = 3
  MaxPushes = 2
  Handles = {1, 2, 3, 4}
  Windows = {"w", "v"}
  Counts = {2, 3}
  Sizes = {1, 2}
  StreamDescs <- MCStreamDescs
  RayTracingDescs <- MCRayTracingDescs
  WorkGraphDescs <- MCWorkGraphDescs
  Geometries <- MCGeometries
  Unhandled = {}
  MaxObjects = 3
INVARIANTS  NoLostWake PushDataRight CommandsLegal ObjectsExact
PROPERTY ClosedWhenSettled
SYMMETRY Symmetry
CHECK_DEADLOCK FALSE
