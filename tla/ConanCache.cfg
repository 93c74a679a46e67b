SPECIFICATION Spec
CONSTANTS
  Jobs = {j1, j2, j3}
  Recipes = {r1, r2}
  Nobody = Nobody
CHECK_DEADLOCK FALSE
PROPERTIES
  CallSpec
  NeverOlder
