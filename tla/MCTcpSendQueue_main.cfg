\* Two calling threads, packets of one and two pieces, room for two large
\* packets in the queue, four packets in a behaviour.
SPECIFICATION Spec
CONSTANTS
  Threads = {t1, t2}
  t1 = t1
  t2 = t2
  Sizes = {1, 2}
  ControlSize = 2
  MaxQueueSize = 3
  MaxPackets = 4
  Overlap = FALSE
CHECK_DEADLOCK FALSE
SYMMETRY ThreadSymmetry
INVARIANTS
  QueueAccounted
  PushWakesSender
  OneSender
  LostOnlyAfterHeadDrop
  WholeWritesKeepFraming
