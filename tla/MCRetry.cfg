SPECIFICATION Spec
CONSTANTS
  NULL = NULL
  WebhookIds <- RetryIds
  Customers = {"c"}
  InitCustomers = {}
  Ids <- MCIds
  WhopIds = {"plan"}
  Products = {"duo"}
  Event <- RetryEvents
  Workers = {"w1"}
  PackageConfigs <- MCConfigs
  InitPackages <- OnePackage
  DirectProduct <- NoDirect
  MaxNow = 3
  MaxFaults = 0
  MaxEdits = 0
INVARIANTS
  PaidEnsuresAccess
