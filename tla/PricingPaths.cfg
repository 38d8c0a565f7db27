SPECIFICATION Spec
CONSTANTS
  Requests <- MCRequests
  Parts = 10
  Chances = {1, 3, 8}
INVARIANTS
  TypeOK
  NeverRises
  PathIsOptimal
  MinimumIsKept
CHECK_DEADLOCK FALSE
