CONSTANTS
  Processes = {"server", "script"}
  Packages = {"basic", "all"}
  Products = {"duo", "adam"}
  InitGrants <- MCInitGrants
  MaxStarts = 3
  MaxSaves = 1
SPECIFICATION MCSpec
INVARIANTS RecordedIsDone GrantsSurvive
CHECK_DEADLOCK FALSE
