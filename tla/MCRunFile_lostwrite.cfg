\* The last packets cannot be written.
CONSTANTS
  Last = 3
  PortDepth = 1
  Faults = {"mux"}
  Backends = {"mpp"}
  EncQueue = 2
  MaxBlanks = 0
  DecoderRefuses = FALSE
  Scaling = FALSE
SPECIFICATION FairSpec
INVARIANT
  EveryWriteReported
