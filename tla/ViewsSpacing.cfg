SPECIFICATION ViewsSpec
CONSTANTS
  Users = {demo}
  NoUser = NoUser
  Visits = {v1, v2}
  Guests = {g1, g2}
  Window = 2
  MaxDelay = 1
  MaxTime = 6
  MaxViews = 3
  DemoSeller = demo
  SeedItems = 0
  MaxItems = 1
  MaxTxns = 0
  MaxReviews = 0
  Purgeable = {1}
  Outcomes = {"ok", "failed"}
SYMMETRY Symmetry
INVARIANTS
  ViewsTypeOK
  ViewsSpaced
  ShownViewsAreStored
