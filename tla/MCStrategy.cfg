SPECIFICATION Spec
CONSTANTS
  NULL = NULL
  m1 = m1
  m2 = m2
  m3 = m3
  Workers = {"w1"}
  Machines = {m1}
  Clients = {"trader", "nt8"}
  Products = {"duo", "orb"}
  TraderEnabled = {"duo"}
  Nt8Enabled = {"duo", "orb"}
  DefaultMax = 1
  Overrides <- SeatOverrides
  Grace = 1
  Ends <- LeaseEnds
  MaxNow = 1
  MaxEdits = 0
INVARIANTS
  CountedWereActive
