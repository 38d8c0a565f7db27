SPECIFICATION Spec
CONSTANTS
  Users = {demo, ann, bob}
  NoUser = NoUser
  DemoSeller = demo
  SeedItems = 1
  MaxItems = 2
  MaxTxns = 2
  MaxReviews = 4
  Purgeable = {1}
  Outcomes = {"ok"}
SYMMETRY OtherUsers
INVARIANTS
  WriteThrough
  ReviewsFollowTheSale
  RatingsCurrent
  HiddenSaleIsClosed
