SPECIFICATION FairSpec
CONSTANTS
  Calls = {c1, c2}
  Queries <- MCQueries
  Amounts <- MCAmounts
  Scores <- MCScores
  Days = {0, 90}
INVARIANTS
  TypeOK
  CollectiblesKeepTheirFloor
  SignalsAndTimePay
PROPERTIES
  AssistEnds
  WriterProceeds
CHECK_DEADLOCK FALSE
