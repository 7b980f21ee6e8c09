\* Two sessions and other code share four descriptors; everything may fail.
CONSTANTS
  Workers = {w1, w2}
  Fds = {0, 1, 2, 3}
  MaxFrames = 1
  Faults = {"heap", "map", "buffer", "frame", "host", "stride", "import", "resize"}
SPECIFICATION Spec
SYMMETRY Symmetry
CHECK_DEADLOCK FALSE
INVARIANTS
  TypeOK
  FilesIntact
  DescriptorsHeld
  NothingLeft
