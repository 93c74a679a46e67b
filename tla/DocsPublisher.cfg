SPECIFICATION Spec
CONSTANTS
  p1 = p1
  p2 = p2
  Publications = {p1, p2}
  Nobody = Nobody
  MaxAssets = 3
CHECK_DEADLOCK FALSE
INVARIANTS
  NothingMissing
  ArrivedInOrder
PROPERTIES
  OkIsFinal
  CallSpec
