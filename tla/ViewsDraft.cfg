SPECIFICATION ViewsSpec
CONSTANTS
  Users = {demo}
  NoUser = NoUser
  Visits = {v1, v2}
  Guests = {g1}
  Window = 2
  MaxDelay = 1
  MaxTime = 1
  MaxViews = 1
  DemoSeller = demo
  SeedItems = 1
  MaxItems = 1
  MaxTxns = 0
  MaxReviews = 0
  Purgeable = {1}
  Outcomes = {"ok"}
PROPERTIES
  PageIsPublic
