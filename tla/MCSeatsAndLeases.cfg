SPECIFICATION ConcernSpec
CONSTANTS
  NULL = NULL
  m1 = m1
  m2 = m2
  m3 = m3
  Workers = {w1, w2}
  Machines = {m1, m2, m3}
  Clients = {"trader", "nt8"}
  Products = {"duo", "orb"}
  TraderEnabled = {"duo", "orb"}
  Nt8Enabled = {"orb"}
  DefaultMax = 1
  Overrides <- SeatOverrides
  Grace = 2
  Ends <- LeaseEnds
  MaxNow = 3
  MaxEdits = 2
SYMMETRY
  AnyMachineAndWorker
INVARIANTS
  TypeOK
  SeatsEndWithinGrace
  LeasesEndWithCoverage
PROPERTIES
  SeatsNeverOversold
  SeatsAreKept
