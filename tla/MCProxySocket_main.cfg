SPECIFICATION Spec
CONSTANTS
  Threads = {ipc1, ipc2}
  QueueSize = 2
  MaxArrivals = 4
CHECK_DEADLOCK FALSE
INVARIANTS
  EventTellsData
PROPERTIES
  
  ImplementsQueue
