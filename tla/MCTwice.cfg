SPECIFICATION Spec
CONSTANTS
  NULL = NULL
  WebhookIds <- TwiceIds
  Customers = {"c"}
  InitCustomers = {}
  Ids <- MCIds
  WhopIds = {"plan"}
  Products = {"duo"}
  Event <- TwiceEvents
  Workers = {"w1"}
  PackageConfigs <- MCConfigs
  InitPackages <- OnePackage
  DirectProduct <- NoDirect
  MaxNow = 3
  MaxFaults = 0
  MaxEdits = 0
INVARIANTS
  PeriodAddedOnce
