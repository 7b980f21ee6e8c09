\* Every kind of session whose frames change size when scaled; every call may fail.
CONSTANTS
  Last = 3
  PortDepth = 2
  Faults = {"demux", "dec", "host", "scale", "write"}
  DecoderRefuses = TRUE
  Modes = {"dma", "upscale", "dma_and_upscale", "host"}
  SameSize = FALSE
  Surfaces = 1
SPECIFICATION FairSpec
INVARIANTS
  TypeOK
  RefsBalanced
  AllSentIsWritten
PROPERTIES
  IsTransfer
  Progress
  Terminates
