\* Two threads and the waiter, four calls between them; two timelines, two queues.
SPECIFICATION Spec
CONSTANTS
  Threads = {w, t1, t2}
  Waiter = w
  Handles = {h1, h2}
  Queues = {q1, q2}
  NoThread = NoThread
  MaxValue = 2
  MaxCalls = 4
  DestroyDuringIdle = FALSE
INVARIANTS CountersExact WaitsOnLiveSemaphores NoLostWake
PROPERTIES  AllReturn
CHECK_DEADLOCK FALSE
