SPECIFICATION ConversationSpec
CONSTANTS
  Users = {demo, ann, bob}
  NoUser = NoUser
  DemoSeller = demo
  SeedItems = 1
  MaxItems = 1
  MaxTxns = 1
  MaxReviews = 0
  Purgeable = {1}
  Outcomes = {"ok", "failed", "lost"}
  Posts = {p1, p2}
  MaxMsgs = 3
  MaxTime = 1
PROPERTIES
  TranscriptsAreKept
SYMMETRY Symmetry
INVARIANTS
  ConversationTypeOK
  ReloadKeepsOrder
  SenderIsParty
