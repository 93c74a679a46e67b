SPECIFICATION Spec
CONSTANTS
  Letters = {"a", "b"}
  MaxOutput = 3
  MaxSecret = 3
CHECK_DEADLOCK FALSE
INVARIANTS
  NoSecretRemains
  KeyGoesWhole
  DiagnosticsSurvive
