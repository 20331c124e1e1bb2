CONSTANTS
  NULL = NULL
  Products <- MCProducts
  Sources <- MCSources
  ProductOf <- MCProductOf
  ByHand = {"manual"}
  InitRows <- MCInitRows
  MaxNow = 2
  MaxEdits = 2
  Releases <- MCReleases
  ReleasedFor <- MCReleasedFor
  Package <- MCPackage
  Type <- MCType
  Bucket <- MCBucket
  Targets <- MCTargets
  InitReleases <- MCInitReleases
  Tags <- MCTags
  TesterTags = {"tester"}
  TokenSeconds = 1
  RequestSeconds = 1
  MaxTokens = 1
SPECIFICATION StorySpec
INVARIANTS TypeOK EffectiveAccess ServedWasAllowed OffersMatchDownloads PrivateStaysHidden
CHECK_DEADLOCK FALSE
