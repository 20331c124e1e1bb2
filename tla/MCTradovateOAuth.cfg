SPECIFICATION FairSpec
CONSTANTS
  NULL = NULL
  Desktops <- OwnerAndStranger
  Starters <- Owner
  States = {"s1", "s2"}
  StateSeconds = 1
  KeepSeconds = 0
  Lifetimes = {1, NULL}
  MaxNow = 2
  MaxTokens = 2
  MaxFaults = 1
  MaxEdits = 1
INVARIANTS
  TypeOK
  HandedToOwner
  TokensAreLive
  SessionStaysGood
PROPERTIES
  PollingEnds
  AnswersAdvance
  AuthorizedInTime
CHECK_DEADLOCK FALSE
