\* Scaled frames share one target buffer.
CONSTANTS
  Last = 3
  PortDepth = 2
  Faults = {}
  DecoderRefuses = FALSE
  Modes = {"dma_and_upscale"}
  SameSize = FALSE
  Surfaces = 2
SPECIFICATION Spec
INVARIANT
  PortShowsFrames
