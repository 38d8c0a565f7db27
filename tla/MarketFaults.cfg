SPECIFICATION Spec
CONSTANTS
  Users = {demo, ann}
  NoUser = NoUser
  DemoSeller = demo
  SeedItems = 2
  MaxItems = 2
  MaxTxns = 1
  MaxReviews = 3
  Purgeable = {1}
  Outcomes = {"ok", "failed", "lost"}
INVARIANTS
  TypeOK
  DeletedSaleIsHidden
  AcknowledgedIsDurable
  OneReviewPerParty
  RatingsCountAnswers
