SPECIFICATION FairSpec
CONSTANTS
  MaxUsers = 3
  MaxItems = 2
  Addresses = {"demo", "buyer", "ann", "bob"}
  DemoSeller = "demo"
  DemoBuyer = "buyer"
  SeedItems = 1
  Profiles = {"first", "second"}
  FirstProfile = "first"
  Kinds = {"sale", "review", "like"}
  Outcomes = {"ok", "failed", "lost"}
  Requests = {q1}
  Active = {3}
INVARIANTS
  TypeOK
  AccountsAgree
  AccountAnswersHold
  RatingsFollowReviews
PROPERTIES
  StartServesTables
  ServiceReturns
