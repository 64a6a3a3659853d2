SPECIFICATION Spec
CONSTANTS
  h1 = h1
  h2 = h2
  q1 = q1
  q2 = q2
  Handles <- MCHandles
  Queues <- MCQueues
  None = None
  MaxCalls = 2
INVARIANTS TypeOK Accounted MemoryAtRest
CHECK_DEADLOCK FALSE
