SPECIFICATION Spec
CONSTANTS
  Users = {demo, ann}
  NoUser = NoUser
  DemoSeller = demo
  SeedItems = 1
  MaxItems = 1
  MaxTxns = 1
  MaxReviews = 2
  Purgeable = {1}
  Outcomes = {"ok", "failed"}
INVARIANTS
  SellerReviewsAfterBuyer
