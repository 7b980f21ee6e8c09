\* Both templates, both encoders; full queues, packets without data, and
\* every call may fail.
CONSTANTS
  Last = 4
  PortDepth = 2
  Faults = {"demux", "dec", "alloc", "scale", "enc", "packet",
            "flush", "mux"}
  Backends = {"mpp", "svt"}
  EncQueue = 2
  MaxBlanks = 1
  DecoderRefuses = TRUE
  Scaling = TRUE
SPECIFICATION FairSpec
INVARIANTS
  TypeOK
  PortInOrder
  StatsAgree
  NoHoles
  NothingHeld
  WriteErrorReported
  AllSentIsWritten
PROPERTIES
  IsTransfer
  Progress
  Terminates
