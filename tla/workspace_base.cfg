SPECIFICATION SmallSpec
CONSTANTS
  ann = ann
  bob = bob
  eve = eve
  page = page
  NoRole = NoRole
  MaxRequests = 3
  Desks <- AllDesks
  Users <- ThreeUsers
  Roles <- TwoRoles
  Teams0 <- Beginnings
  Plans <- TwoPlans
  PACK = 500
  MaxNews = 2
  MaxRedeliveries = 1
  Accounts <- OneAccount
  PlatformOf <- AtLinkedIn
  MaxTokens = 3
  MaxAttempts = 3
CONSTRAINT RowIsFollowed
CONSTRAINT OneTokenAges
SYMMETRY Alike
INVARIANT OwnerRemains
INVARIANT RowFollowsStripe
INVARIANT TokensSurviveRotation
INVARIANT TriesPostOnce
PROPERTY SeatsWithinPlan
PROPERTY StatusIsWarranted
\* Requests are used once, so every behaviour comes to rest.
CHECK_DEADLOCK FALSE
