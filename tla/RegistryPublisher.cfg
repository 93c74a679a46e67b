SPECIFICATION Spec
CONSTANTS
  Registries <- KnownRegistries
  MaxFiles = 3
CHECK_DEADLOCK FALSE
INVARIANTS
  LeavesNoSecrets
  ReadyToRun
  SentLast
  TagSignedAsAsked
PROPERTIES
  ServiceSpec
