\* The decoded frames already have the size the scaler makes.
CONSTANTS
  Last = 3
  PortDepth = 2
  Faults = {}
  DecoderRefuses = FALSE
  Modes = {"dma_and_upscale"}
  SameSize = TRUE
  Surfaces = 2
SPECIFICATION Spec
INVARIANT
  RefsBalanced
