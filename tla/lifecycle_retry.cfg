SPECIFICATION Spec
CONSTANTS
  c1 = c1
  NoRequest = NoRequest
  Campaigns <- OneCampaign
  Requests <- ThreeRequests
  MaxAttempts = 2
  MaxStalls = 1
  MaxCrashes = 0
  Environments <- LateErrors
INVARIANT ReviewedContentWasModerated
\* A request is used once, so every behaviour comes to rest.
CHECK_DEADLOCK FALSE
