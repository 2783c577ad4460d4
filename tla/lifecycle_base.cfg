SPECIFICATION FairSpec
CONSTANTS
  c1 = c1
  NoRequest = NoRequest
  Campaigns <- OneCampaign
  Requests <- FourRequests
  MaxAttempts = 2
  MaxStalls = 1
  MaxCrashes = 2
  Environments <- EveryFault
CONSTRAINT InOrder
INVARIANT BoundedRuns
INVARIANT ReviewableNeverBlocked
INVARIANT PublishedWasApproved
INVARIANT NoStrandedCampaign
INVARIANT OneGenerationAtATime
INVARIANT GenerationsStayApart
PROPERTY ImplementsWorkflow
\* A request is used once, so every behaviour comes to rest.
CHECK_DEADLOCK FALSE
