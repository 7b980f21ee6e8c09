\* A second start after a failed or a finished one.
CONSTANTS
  Templates = {"transcode"}
  Backends = {"enc"}
  Faults = {"mux"}
  MaxStarts = 2
SPECIFICATION Spec
INVARIANTS
  DestroyFreesAll
