\* A two-slot queue whose pulls poll or wait without a time-out.
CONSTANTS
  Depth = 2
  DefaultDepth = 3
  Buffers = {b1, b2, b3}
  Producers = {p1, p2}
  Consumers = {c1, c2}
  Kinds = {"poll", "forever"}
  NULL = NULL
SPECIFICATION FairSpec
INVARIANTS
  TypeOK
  RingConsistent
  RefsMatchHolders
  NoLostWakeup
PROPERTY QueuedBufferIsTaken
