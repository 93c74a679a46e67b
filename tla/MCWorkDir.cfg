SPECIFICATION Spec
CONSTANTS
  Paths <- SamplePaths
  MaxEntries = 3
CHECK_DEADLOCK FALSE
INVARIANTS
  TypeOK
  TreeIsArchive
