\* Up to three or four frames of every kind of use.
CONSTANT
  MaxStamp = 3
SPECIFICATION Spec
INVARIANTS
  TypeOK
  NothingLeft
  NoFreedRead
  StampsIncrease
  PtsKept
  ReadsBetweenWrites
