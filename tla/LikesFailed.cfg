SPECIFICATION LikesSpec
CONSTANTS
  Users = {demo, ann}
  NoUser = NoUser
  Newcomers = {}
  DemoSeller = demo
  SeedItems = 1
  MaxItems = 1
  MaxTxns = 1
  MaxReviews = 0
  Purgeable = {1}
  Outcomes = {"ok", "failed"}
INVARIANTS
  FailedLikeChangesNothing
