SPECIFICATION SmallSpec
CONSTANTS
  ann = ann
  bob = bob
  eve = eve
  page = page
  NoRole = NoRole
  MaxRequests = 3
  Desks <- TeamAlone
  Users <- ThreeUsers
  Roles <- TwoRoles
  Teams0 <- Beginnings
  Plans <- TwoPlans
  PACK = 500
  MaxNews = 2
  MaxRedeliveries = 1
  Accounts <- OneAccount
  PlatformOf <- AtLinkedIn
  MaxTokens = 2
  MaxAttempts = 3
SYMMETRY Alike
INVARIANT InvitedCanJoin
\* Requests are used once, so every behaviour comes to rest.
CHECK_DEADLOCK FALSE
