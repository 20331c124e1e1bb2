SPECIFICATION StorySpec
CONSTANTS
  NULL = NULL
  WebhookIds <- StoryIds
  Customers = {"c"}
  InitCustomers = {}
  Ids <- MCIds
  WhopIds = {"plan"}
  Products = {"duo"}
  Event <- StoryEvents
  Workers = {w1, w2}
  PackageConfigs <- MCConfigs
  InitPackages <- OnePackage
  DirectProduct <- NoDirect
  MaxNow = 3
  MaxFaults = 1
  MaxEdits = 1
SYMMETRY SomeWorker
INVARIANTS
  TypeOK
  EnsuredThrough
  NoMoreThanAsked
  DatelessDaysOnce
  AnsweredIsApplied
  PeriodPaidOnce
  SubscriptionPeriodIsLatest
PROPERTIES
  LicenseReturnsWithCoverage
  ReplayGrantsNothing
  ImplementsCoverage
