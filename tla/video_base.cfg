SPECIFICATION FairSpec
CONSTANTS
  Unusable = Unusable
  NoScene = NoScene
  Failed = Failed
  NoJudgment = NoJudgment
  NoTranscript = NoTranscript
  IntelligenceReplies <- Briefs
  ConceptReplies <- Concepts
  GateReplies <- Gates
  BlueprintReplies <- Beats
  LookReplies <- Looks
  ShotReplies <- Plans
  StoryboardReplies <- Boards
  Clips <- Footage
  CreditLevels <- Levels
  PLAN = "trial"
  CHANNELS = {"facebook", "email"}
  MAX_REPAIR_ATTEMPTS = 2
  VoiceKinds <- RealOrMock
  Measurements <- Measures
INVARIANT FilmedPlanIsApproved
INVARIANT DeliveredIsComplete
INVARIANT OperativeMatchesCut
PROPERTY OperativeNeverDrops
PROPERTY RepairsAreWarranted
PROPERTY ProductionEnds
\* A job runs once: what the queue does with it afterwards is CampaignLifecycle's.
CHECK_DEADLOCK FALSE
