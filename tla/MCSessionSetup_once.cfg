\* One start of every kind of session; every open may fail, anybody may stop,
\* and the permissions may change at any time.
CONSTANTS
  Templates = {"transcode", "decode", "encode", "live"}
  Backends = {"enc", "svt"}
  Faults = {"create", "queue", "loop", "demux", "dec", "enc", "svt", "mux"}
  MaxStarts = 1
  Descriptions <- MCDescriptions
  Files <- MCFiles
  Grants <- MCGrants
SPECIFICATION SetupSpec
INVARIANTS
  TypeOK
  DestroyFreesAll
  LoopHasNodes
  OkRunWorked
  CodecsAgree
  SizesAgree
  CheckPredictsMpp
