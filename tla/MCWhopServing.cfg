SPECIFICATION StorySpec
CONSTANTS
  NULL = NULL
  WebhookIds <- ServingIds
  Customers = {"c", "d"}
  InitCustomers = {"c", "d"}
  Ids <- MCIds
  WhopIds <- ServingWhopIds
  Products <- MCProducts
  Event <- ServingEvents
  Workers = {"w1"}
  PackageConfigs <- ServingConfigs
  InitPackages <- ServingPackages
  DirectProduct <- ServingDirect
  MaxNow = 1
  MaxFaults = 2
  MaxEdits = 1
INVARIANTS
  PaymentsAreDated
PROPERTIES
  CoverageNeverShrinks
  EveryEventAnswered
