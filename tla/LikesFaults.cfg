SPECIFICATION LikesSpec
CONSTANTS
  Users = {demo, ann, bob}
  NoUser = NoUser
  Newcomers = {newcomer}
  DemoSeller = demo
  SeedItems = 0
  MaxItems = 1
  MaxTxns = 2
  MaxReviews = 0
  Purgeable = {1}
  Outcomes = {"ok", "failed", "lost"}
SYMMETRY OtherUsers
INVARIANTS
  LikesTypeOK
  SaleMatchesItem
  IdsAreFresh
  LikeAnswersHold
  OneSalePerItem
  ListedCanBeSold
  MemoryLeads
PROPERTIES
  NewLikesAreStored
  SalesAreRecorded
