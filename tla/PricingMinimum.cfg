SPECIFICATION Spec
CONSTANTS
  Requests <- AtMinimum
  Parts = 10
  Chances = {1, 3, 8}
INVARIANTS
  NeverBelowMinimum
CHECK_DEADLOCK FALSE
