SPECIFICATION Spec
CONSTANTS
  s1 = s1
  s2 = s2
  k1 = k1
  Callers <- TwoShots
  Campaigns <- OneCampaign
  CampaignOf <- SameCampaign
  Tasks <- VideoTasks
  AsksFor <- AnyTask
  Cost <- Costs
  MaxCost = 3
  Chain <- OneProvider
  Included = 9
  Packs = {}
  MaxShots = 3
  MaxVideos = 1
  MaxBought = 0
  MaxRenewed = 0
  MaxMishaps = 1
  Shots <- TwoShots
  Rank <- FirstShotFirst
  WaveOf <- Waves
  LastWave = 1
  MaxRuns = 2
INVARIANT TwoClipsPerShot
INVARIANT ClipsLostOnlyToQuota
PROPERTY StoryboardsEnd
CHECK_DEADLOCK FALSE
