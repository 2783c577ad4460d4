SPECIFICATION SmallSpec
CONSTANTS
  long = long
  short = short
  here = here
  there = there
  meta = meta
  ads = ads
  shop = shop
  tracked = tracked
  market = market
  shopPage = shopPage
  marketPage = marketPage
  front = front
  side = side
  acme = acme
  other = other
  Unnamed = Unnamed
  NoPage = NoPage
  MaxRequests = 3
  Desks <- DeskPlans
  Keys <- TwoKeys
  Says <- Sides
  Axis <- Axes
  MaxEntries = 3
  MAX_CANDIDATES_PER_SCAN = 1
  Memories0 <- Beginnings
  MaxVariations = 2
  RemovedKey = long
  AddedKey = short
  Platforms <- TwoPlatforms
  PostedOn <- ThreePosts
  MaxAnalyses = 2
  MaxReached = 1
  Recommendations0 <- OneBefore
  Images <- TwoImages
  Pages <- ThreeUrls
  NormalUrl <- Untracked
  Contents <- TwoContents
  PageBrand <- Declared
  Rich <- RichContents
  Brands <- TwoBrands
  Readings <- Seen
  copy = copy
  voice = voice
  Unanswered = Unanswered
  Texts <- TwoTexts
  Replies <- Answers
  Scores <- TwoScores
SYMMETRY Alikes
CONSTRAINT OneUrlChanges
INVARIANT KnowledgeAgrees
INVARIANT EvidenceAddsUp
INVARIANT RevisionsAreNumbered
INVARIANT FiguresAreTrue
INVARIANT RecommendationsStand
INVARIANT AnalysesAreReused
INVARIANT ProfilesAreGrounded
INVARIANT VerdictsAreBacked
\* Requests are used once, so every behaviour comes to rest.
CHECK_DEADLOCK FALSE
