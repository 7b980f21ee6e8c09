\* One session, nothing fails.
CONSTANTS
  Workers = {w1}
  Fds = {0, 1, 2}
  MaxFrames = 1
  Faults = {}
SPECIFICATION Spec
CHECK_DEADLOCK FALSE
INVARIANTS
  MappingsReturned
