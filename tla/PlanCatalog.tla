----------------------------- MODULE PlanCatalog ------------------------------
(* The catalogue of plans (plans/plan-catalog.ts): the limits of each plan, what *)
(* a call to a model costs in credits, and the channels a plan has.  The whole   *)
(* code reads it; nothing writes it.  Names, prices and features are left out.   *)
EXTENDS Integers, FiniteSets

\* null
NoLimit == -1
Within(n, limit) == limit = NoLimit \/ n <= limit

SocialPlatforms == {"META_FACEBOOK", "META_INSTAGRAM", "LINKEDIN", "GOOGLE_ADS", "TIKTOK"}

\* What may be limited, apart from the channels, which are named.
Limits == {"aiCreditsIncluded", "maxSeats", "maxActiveCampaigns", "maxChannels", "maxImages",
           "maxVideos", "maxVideoShotsPerCampaign", "maxSocialPosts", "maxOptimizerRuns"}

\* A plan one pays for has no limit of its own on images, clips, publications and analyses.
Paid(credits, seats, campaigns, channels) ==
  [aiCreditsIncluded |-> credits, maxSeats |-> seats, maxActiveCampaigns |-> campaigns,
   maxChannels |-> channels, maxImages |-> NoLimit, maxVideos |-> NoLimit,
   maxVideoShotsPerCampaign |-> NoLimit, maxSocialPosts |-> NoLimit,
   maxOptimizerRuns |-> NoLimit, allowedChannels |-> SocialPlatforms]

PLAN_CATALOG ==
  [trial |->
     [aiCreditsIncluded |-> 50000, maxSeats |-> 2, maxActiveCampaigns |-> 3,
      maxChannels |-> 3, maxImages |-> 10, maxVideos |-> 1,
      maxVideoShotsPerCampaign |-> 6, maxSocialPosts |-> 10, maxOptimizerRuns |-> 1,
      allowedChannels |-> {"META_FACEBOOK", "META_INSTAGRAM", "LINKEDIN"}],
   starter |-> Paid(920, 3, 3, 3),
   growth |-> Paid(2585, 10, 10, NoLimit),
   business |-> Paid(6835, 30, 28, NoLimit),
   enterprise |-> Paid(69000, NoLimit, 286, NoLimit)]

Plan == DOMAIN PLAN_CATALOG

\* The plans that Checkout sells: those with a price at Stripe.
SoldPlans == {"starter", "growth", "business"}

\* What one may buy beyond the credits of the plan.
CREDIT_PACKS == [small |-> 500, medium |-> 2000, large |-> 5000]

\* getRecommendedUpgrade: what a refusal recommends; nothing beyond enterprise.
RecommendedUpgrade ==
  [trial |-> "growth", starter |-> "growth", growth |-> "business",
   business |-> "enterprise", enterprise |-> "none"]

CREDIT_COSTS ==
  [campaign_generation |->
     [generateText |-> 8, generateImage |-> 25, generateVideo |-> 150,
      generateAudio |-> 3, transcribeAudio |-> 1, analyzeImage |-> 10],
   moderation |-> [generateText |-> 2, analyzeImage |-> 3, moderateText |-> 0],
   brand_consistency |-> [generateText |-> 2, analyzeImage |-> 3],
   optimizer |-> [generateText |-> 5]]

\* creditCostFor: 5 for what the table does not name.
CreditCost(purpose, task) ==
  IF purpose \in DOMAIN CREDIT_COSTS /\ task \in DOMAIN CREDIT_COSTS[purpose]
  THEN CREDIT_COSTS[purpose][task] ELSE 5

-----------------------------------------------------------------------------
(* The channels of a campaign.                                              *)

\* CHANNEL_SLUG_TO_PLATFORM: e-mail is no social platform.
ChannelPlatform ==
  [facebook |-> "META_FACEBOOK", instagram |-> "META_INSTAGRAM", linkedin |-> "LINKEDIN",
   tiktok |-> "TIKTOK", googleads |-> "GOOGLE_ADS"]

\* mapChannelSlugsToPlatforms
PlatformsOf(channels) == {ChannelPlatform[c] : c \in channels \cap DOMAIN ChannelPlatform}

\* assertChannelsAllowed
PlatformsAllowed(plan, platforms) == platforms \subseteq PLAN_CATALOG[plan].allowedChannels

\* The channels a new campaign may have.
ChannelsAllowed(plan, channels) ==
  /\ Within(Cardinality(channels), PLAN_CATALOG[plan].maxChannels)
  /\ PlatformsAllowed(plan, PlatformsOf(channels))

\* maxActiveCampaigns is what the credits of a plan pay for, at 241 a campaign with its
\* video (the comments of the catalogue); a recommended plan takes no limit back.
ASSUME CatalogIsConsistent ==
  /\ \A plan \in Plan \ {"trial"} :
       PLAN_CATALOG[plan].maxActiveCampaigns = PLAN_CATALOG[plan].aiCreditsIncluded \div 241
  /\ \A plan \in Plan \ {"enterprise"}, limit \in Limits \ {"aiCreditsIncluded"} :
       LET upgrade == PLAN_CATALOG[RecommendedUpgrade[plan]] IN
       PLAN_CATALOG[plan][limit] # NoLimit => Within(PLAN_CATALOG[plan][limit], upgrade[limit])
  /\ \A plan \in Plan \ {"trial", "enterprise"} :
       PLAN_CATALOG[plan].aiCreditsIncluded
         < PLAN_CATALOG[RecommendedUpgrade[plan]].aiCreditsIncluded
===============================================================================
