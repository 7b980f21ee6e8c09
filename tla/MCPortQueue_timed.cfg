\* The default depth (three slots) and every kind of pull.
CONSTANTS
  Depth = 0
  DefaultDepth = 3
  Buffers = {b1, b2}
  Producers = {p1, p2}
  Consumers = {c1, c2}
  Kinds = {"poll", "timed", "forever"}
  NULL = NULL
SPECIFICATION FairSpec
PROPERTIES
  RefinesFifo
  TimedPullReturns
