SPECIFICATION GatewaySpec
CONSTANTS
  c1 = c1
  c2 = c2
  c3 = c3
  k1 = k1
  k2 = k2
  Callers <- ThreeCallers
  Campaigns <- TwoCampaigns
  CampaignOf <- CampaignOfCaller
  Tasks <- TwoTasks
  AsksFor <- TasksOfCaller
  Cost <- Costs
  MaxCost = 2
  Chain <- Chains
  Included = 1
  Packs = {1}
  MaxShots = 1
  MaxVideos = 1
  MaxBought = 1
  MaxRenewed = 2
  MaxMishaps = 1
SYMMETRY SameCampaign
INVARIANT SpendingIsBounded
INVARIANT ChargedForResultsOnly
PROPERTY ImplementsAccount
