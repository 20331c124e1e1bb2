------------------------- MODULE LicenseCheckProofs -------------------------
(***************************************************************************)
(* That leases and seats end when they should, for any machines, products, *)
(* limits, grace period and number of requests.                            *)
(*                                                                         *)
(* LeasesEndWithCoverage is not inductive: it says that a lease which is   *)
(* out covers what it names, not why it still will a second later.         *)
(* LeaseBacked adds where each lease ends: within the grace period, and no *)
(* later than any product it names or than the grace period after the last *)
(* change of coverage.                                                     *)
(*                                                                         *)
(* Neither is SeatsEndWithinGrace, for the same reason: LeaseSeats adds    *)
(* that a lease of a machine without a seat ends a grace period after the  *)
(* last change of seats.  It is kept by an active answer because           *)
(* the machine answered, and every machine before it, are within the limit *)
(* after the row is marked, which is counting in a finite set of rows:     *)
(* RowsInv says that the rows are finitely many and WorkersInv what a      *)
(* check knows of them when its transaction begins.                        *)
(***************************************************************************)
EXTENDS LicenseCheck, FiniteSetTheorems, TLAPS

\* What the server knows of a lease that is out.
Backed(l) ==
  /\ l.features \subseteq Products
  /\ l.exp \in Nat /\ now < l.exp /\ l.exp <= now + Grace
  /\ l.client = "trader" =>
       \/ \A p \in l.features : coverage[p] = NULL \/ l.exp <= coverage[p]
       \/ changed # NULL /\ l.exp <= changed + Grace

LeaseBacked == \A l \in leases : Backed(l)

\* The types the argument needs.
ClockType ==
  /\ now \in Nat
  /\ coverage \in [Products -> Nat \cup {NULL}]
  /\ changed \in Nat \cup {NULL}

LeaseInv == ClockType /\ LeaseBacked

\* No lease is out at the start.
LEMMA LeaseInit == Init => LeaseInv
<1> SUFFICES ASSUME Init PROVE LeaseInv
  OBVIOUS
<1>1. coverage \in [Products -> Nat \cup {NULL}]
  BY LicenseAssumption DEF Init
<1>2. ClockType
  BY <1>1 DEF Init, ClockType
<1>3. LeaseBacked
  BY DEF Init, LeaseBacked
<1> QED
  BY <1>2, <1>3 DEF LeaseInv

\* A lease the server hands out is backed.
LEMMA NewLeaseBacked ==
  ASSUME ClockType, NEW m, NEW client, NEW strategy, NEW l \in NewLeases(m, client, strategy)
  PROVE  Backed(l)
<1>1. /\ l.client = client /\ l.features = LicensedFor(client) /\ l.exp > now
      /\ l.exp \in IF client = "trader" THEN TraderLease ELSE Nt8Lease
  BY DEF NewLeases
<1>2. now \in Nat /\ Grace \in Nat /\ now + Grace \in Nat
  BY LicenseAssumption DEF ClockType
<1>3. LicensedFor(client) \subseteq Products
  BY LicenseAssumption DEF LicensedFor, Enabled
<1> DEFINE bounds == {now + Grace} \cup {coverage[p] : p \in {q \in LicensedFor("trader") : coverage[q] # NULL}}
<1>4. CASE client = "trader"
  <2>1. l.exp \in bounds /\ \A b \in bounds : l.exp <= b
    BY <1>1, <1>4 DEF TraderLease
  <2>2. \A p \in LicensedFor(client) : coverage[p] = NULL \/ coverage[p] \in bounds
    BY <1>4
  <2>3. bounds \subseteq Nat
    BY <1>2, <1>3, <1>4 DEF ClockType
  <2> HIDE DEF bounds
  <2>4. l.exp \in Nat
    BY <2>1, <2>3
  <2>5. l.exp <= now + Grace
    BY <2>1 DEF bounds
  <2> QED
    BY <1>1, <1>2, <1>3, <2>1, <2>2, <2>4, <2>5 DEF Backed
<1>5. CASE client # "trader"
  BY <1>1, <1>2, <1>3, <1>5 DEF Nt8Lease, Backed
<1> QED
  BY <1>4, <1>5

\* Every step keeps the leases that are out backed: a lease is added by Activate
\* only, and coverage is changed by SetCoverage and by the passing of time.
LEMMA LeaseStep ==
  ASSUME LeaseInv, [Next]_vars
  PROVE  LeaseInv'
<1>0. now \in Nat /\ Grace \in Nat
  BY LicenseAssumption DEF LeaseInv, ClockType
<1>1. CASE UNCHANGED <<now, coverage, changed, leases>>
  BY <1>1 DEF LeaseInv, ClockType, LeaseBacked, Backed
<1>2. ASSUME NEW k \in Workers, Activate(k)
      PROVE  LeaseInv'
  <2> DEFINE new == NewLeases(worker[k].machine, worker[k].client, worker[k].strategy)
  <2>1. UNCHANGED <<now, coverage, changed>> /\ leases' = leases \cup new
    BY <1>2 DEF Activate
  <2>2. \A l \in leases : Backed(l)
    BY DEF LeaseInv, LeaseBacked
  <2>3. \A l \in new : Backed(l)
    BY NewLeaseBacked DEF LeaseInv
  <2> HIDE DEF new
  <2>4. \A l : Backed(l) => Backed(l)'
    BY <2>1 DEF Backed
  <2>5. LeaseBacked'
    BY <2>1, <2>2, <2>3, <2>4 DEF LeaseBacked
  <2> QED
    BY <2>1, <2>5 DEF LeaseInv, ClockType
<1>3. ASSUME NEW p \in Products, NEW end \in Ends, SetCoverage(p, end)
      PROVE  LeaseInv'
  <2>1. UNCHANGED <<now, leases>> /\ changed' = now
    BY <1>3 DEF SetCoverage
  <2>2. ClockType'
    BY <1>3, LicenseAssumption DEF SetCoverage, LeaseInv, ClockType
  <2>3. ASSUME NEW l \in leases PROVE Backed(l)'
    BY <1>0, <2>1, <2>3, LicenseAssumption DEF LeaseInv, LeaseBacked, Backed
  <2> QED
    BY <2>1, <2>2, <2>3 DEF LeaseInv, LeaseBacked
<1>4. CASE Tick
  <2>1. now' = now + 1 /\ UNCHANGED <<coverage, changed>> /\ leases' = {l \in leases : l.exp > now'}
    BY <1>4 DEF Tick
  <2>2. ClockType'
    BY <2>1 DEF LeaseInv, ClockType
  <2>3. ASSUME NEW l \in leases, l.exp > now' PROVE Backed(l)'
    BY <1>0, <2>1, <2>3 DEF LeaseInv, LeaseBacked, Backed
  <2> QED
    BY <2>1, <2>2, <2>3 DEF LeaseInv, LeaseBacked
<1>5. ASSUME NEW k \in Workers, FindDevice(k) \/ Conflict(k) \/ Refuse(k)
      PROVE  UNCHANGED <<now, coverage, changed, leases>>
  BY <1>5 DEF FindDevice, Conflict, Refuse
<1>6. ASSUME NEW k \in Workers, NEW m \in Machines, NEW client \in Clients,
             NEW strategy \in Products \cup {NULL}, FindCustomer(k, m, client, strategy)
      PROVE  UNCHANGED <<now, coverage, changed, leases>>
  BY <1>6 DEF FindCustomer
<1>7. ASSUME \/ \E max \in Overrides : set_customer_max_devices(max)
             \/ \E m \in Machines, is_blocked \in BOOLEAN : set_device_blocked(m, is_blocked)
             \/ block_all_customer_devices
             \/ UNCHANGED vars
      PROVE  UNCHANGED <<now, coverage, changed, leases>>
  BY <1>7 DEF set_customer_max_devices, set_device_blocked, block_all_customer_devices, vars
<1> QED
  BY <1>1, <1>2, <1>3, <1>4, <1>5, <1>6, <1>7 DEF Next, Check

\* Every TraderPro lease that is out names only products that are covered, or
\* coverage was changed less than a grace period ago.
THEOREM TraderLeasesEnd == Spec => []LeasesEndWithCoverage
<1>1. Init => LeaseInv
  BY LeaseInit
<1>2. LeaseInv /\ [Next]_vars => LeaseInv'
  BY LeaseStep
<1>3. LeaseInv => LeasesEndWithCoverage
  <2> SUFFICES ASSUME LeaseInv, NEW l \in leases, l.client = "trader"
               PROVE  \/ \A p \in l.features : Licensed(p)
                      \/ changed # NULL /\ now < changed + Grace
    BY DEF LeasesEndWithCoverage
  <2>1. Backed(l) /\ ClockType /\ Grace \in Nat
    BY LicenseAssumption DEF LeaseInv, LeaseBacked
  <2>2. CASE \A p \in l.features : coverage[p] = NULL \/ l.exp <= coverage[p]
    BY <2>1, <2>2 DEF Backed, ClockType, Licensed
  <2>3. CASE changed # NULL /\ l.exp <= changed + Grace
    BY <2>1, <2>3 DEF Backed, ClockType
  <2> QED
    BY <2>1, <2>2, <2>3 DEF Backed
<1> QED
  BY <1>1, <1>2, <1>3, PTL DEF Spec

-----------------------------------------------------------------------------
(* Seats *)

Typed ==
  /\ max_devices \in (Nat \ {0}) \cup {NULL}
  /\ devices \in [Machines -> DeviceRow \cup {NULL}]
  /\ worker \in [Workers -> WorkerState]
  /\ leases \subseteq Lease
  /\ activated \subseteq Machines
  /\ edited \in Nat \cup {NULL} /\ edits \in Nat

\* When a machine was first seen and licensed, in the order this happens.
Dated(row, time) ==
  /\ row.first_seen_at <= time
  /\ row.first_licensed_at # NULL =>
       row.first_seen_at <= row.first_licensed_at /\ row.first_licensed_at <= time

\* Row ids are given in order, and no row goes away.
RowsInv ==
  /\ IsFiniteSet(Rows)
  /\ \A m \in Rows : Dated(devices[m], now) /\ devices[m].rowid <= Cardinality(Rows)
  /\ \A m, n \in Rows : devices[m].rowid = devices[n].rowid => m = n

\* What a check goes by at its next step.
Knows(check, time, rows) ==
  /\ check.pc # "idle" => check.machine \in Machines /\ check.client \in Clients
  /\ check.pc # "idle" => check.max \in Nat \ {0}
  /\ check.pc = "device" => check.seen \in Nat /\ check.seen <= time
  /\ check.pc = "device" /\ check.exists => rows[check.machine] # NULL

WorkersInv == \A k \in Workers : Knows(worker[k], now, devices)

\* A lease of a machine without a seat ends a grace period after the change
\* that took the seat.
LeaseSeats ==
  /\ edited # NULL => edited <= now
  /\ \A l \in leases : MayRun(l.machine) \/ (edited # NULL /\ l.exp <= edited + Grace)

SeatsInv == LeaseInv /\ Typed /\ RowsInv /\ WorkersInv /\ LeaseSeats

LEMMA EffectiveMax ==
  ASSUME NEW max \in (Nat \ {0}) \cup {NULL}
  PROVE  _effective_max_devices(max) \in Nat \ {0}
BY LicenseAssumption DEF _effective_max_devices, AtLeastOne

LEMMA CountedFinite ==
  ASSUME RowsInv
  PROVE  IsFiniteSet(Counted(devices)) /\ Cardinality(Counted(devices)) \in Nat
<1>1. Counted(devices) \subseteq Rows
  BY DEF Counted, Rows
<1> QED
  BY <1>1, FS_Subset, FS_CardinalityType DEF RowsInv

\* As long as no more machines hold seats than the limit, all of them may run.
LEMMA WithinLimit ==
  ASSUME NEW rows, IsFiniteSet(Counted(rows)), NEW max \in Nat, NEW m \in Counted(rows),
         rows[m] \in DeviceRow, Cardinality(Counted(rows)) <= max
  PROVE  _device_is_within_active_limit(rows, m, max)
<1> DEFINE earlier == {n \in Counted(rows) : Before(rows, n, m)}
<1>1. m \notin earlier
  <2>1. rows[m].first_licensed_at \in Nat /\ rows[m].first_seen_at \in Nat /\ rows[m].rowid \in Nat
    BY DEF Counted, DeviceRow
  <2> QED
    BY <2>1 DEF Before
<1>2. earlier \subseteq Counted(rows) \ {m}
  BY <1>1
<1> HIDE DEF earlier
<1>3. /\ IsFiniteSet(Counted(rows) \ {m})
      /\ Cardinality(Counted(rows) \ {m}) = Cardinality(Counted(rows)) - 1
  BY FS_RemoveElement
<1>4. IsFiniteSet(earlier) /\ Cardinality(earlier) <= Cardinality(Counted(rows) \ {m})
  BY <1>2, <1>3, FS_Subset
<1>5. Cardinality(earlier) \in Nat /\ Cardinality(Counted(rows)) \in Nat
  BY <1>4, FS_CardinalityType
<1>6. Cardinality(earlier) < max
  BY <1>3, <1>4, <1>5
<1> QED
  BY <1>6 DEF _device_is_within_active_limit, earlier

\* Seats depend on the limit and on the rows of the machines that have them.
LEMMA SameSeats ==
  ASSUME NEW rows, NEW old, Counted(rows) = Counted(old),
         \A n \in Counted(old) : rows[n] = old[n],
         NEW m, NEW max
  PROVE  _device_is_within_active_limit(rows, m, max) <=> _device_is_within_active_limit(old, m, max)
<1>1. ASSUME m \in Counted(old)
      PROVE  {n \in Counted(rows) : Before(rows, n, m)} = {n \in Counted(old) : Before(old, n, m)}
  BY <1>1 DEF Before
<1> QED
  BY <1>1 DEF _device_is_within_active_limit

-----------------------------------------------------------------------------
(* The transaction of a check *)

\* The rows as a check sees them once its machine m has one.
RowFound(k, m, rows) ==
  /\ m \in Machines
  /\ rows \in [Machines -> DeviceRow \cup {NULL}]
  /\ rows[m] \in DeviceRow /\ rows[m] # NULL
  /\ \A n \in Machines \ {m} : rows[n] = devices[n]
  /\ devices[m] # NULL => rows = devices
  /\ devices[m] = NULL =>
       /\ rows[m].is_blocked = FALSE /\ rows[m].first_seen_at = worker[k].seen
       /\ rows[m].first_licensed_at = NULL
       /\ rows[m].rowid = Cardinality(Rows) + 1
  /\ Counted(rows) = Counted(devices)

LEMMA UpsertedRow ==
  ASSUME SeatsInv, NEW k \in Workers, Ready(k)
  PROVE  RowFound(k, worker[k].machine, Upserted(k))
<1> DEFINE m == worker[k].machine
           rows == Upserted(k)
<1>0. m = worker[k].machine /\ rows = Upserted(k)
  OBVIOUS
<1> HIDE DEF m, rows
<1> SUFFICES RowFound(k, m, rows)
  BY <1>0
<1> USE DEF SeatsInv
<1>1. /\ m \in Machines /\ worker[k].seen \in Nat
      /\ worker[k].exists \in BOOLEAN
      /\ worker[k].exists <=> devices[m] # NULL
      /\ devices \in [Machines -> DeviceRow \cup {NULL}]
  BY <1>0 DEF Ready, WorkersInv, Knows, At, Typed, WorkerState
<1>2. CASE devices[m] # NULL
  BY <1>0, <1>1, <1>2 DEF Upserted, RowFound
<1>3. CASE devices[m] = NULL
  <2> DEFINE row == [is_blocked |-> FALSE, first_seen_at |-> worker[k].seen,
                     first_licensed_at |-> NULL, rowid |-> Cardinality(Rows) + 1]
  <2>1. rows = [devices EXCEPT ![m] = row]
    BY <1>0, <1>1, <1>3 DEF Upserted
  <2>2. Cardinality(Rows) \in Nat
    BY FS_CardinalityType DEF RowsInv
  <2>3. row \in DeviceRow
    BY <1>1, <2>2 DEF DeviceRow
  <2>4. row.is_blocked = FALSE /\ row.first_seen_at = worker[k].seen
        /\ row.first_licensed_at = NULL /\ row.rowid = Cardinality(Rows) + 1
    OBVIOUS
  <2> HIDE DEF row
  <2>5. rows[m] = row /\ \A n \in Machines \ {m} : rows[n] = devices[n]
    BY <1>1, <2>1
  <2>6. Counted(rows) = Counted(devices)
    BY <1>3, <2>4, <2>5 DEF Counted
  <2> QED
    BY <1>1, <1>3, <2>1, <2>3, <2>4, <2>5, <2>6, RowAssumption DEF RowFound
<1> QED
  BY <1>2, <1>3

LEMMA MarkedRow ==
  ASSUME now \in Nat, NEW m \in Machines, NEW rows \in [Machines -> DeviceRow \cup {NULL}],
         rows[m] \in DeviceRow, NEW new, new = Marked(rows, m)
  PROVE  /\ new \in [Machines -> DeviceRow \cup {NULL}]
         /\ new[m] \in DeviceRow /\ new[m] # NULL
         /\ \A n \in Machines \ {m} : new[n] = rows[n]
         /\ new[m].is_blocked = rows[m].is_blocked /\ new[m].rowid = rows[m].rowid
         /\ new[m].first_seen_at = rows[m].first_seen_at
         /\ rows[m].first_licensed_at = NULL => new[m].first_licensed_at = now
         /\ rows[m].first_licensed_at # NULL => new[m] = rows[m]
<1> DEFINE at == IF rows[m].first_licensed_at = NULL THEN now ELSE rows[m].first_licensed_at
           row == [rows[m] EXCEPT !.first_licensed_at = at]
<1>1. new = [rows EXCEPT ![m] = row]
  BY DEF Marked
<1>2. at \in Nat
  BY DEF DeviceRow
<1>3. rows[m].first_licensed_at = NULL => at = now
  OBVIOUS
<1>4. rows[m].first_licensed_at # NULL => at = rows[m].first_licensed_at
  OBVIOUS
<1> HIDE DEF at
<1>5. /\ row \in DeviceRow /\ row.is_blocked = rows[m].is_blocked /\ row.rowid = rows[m].rowid
      /\ row.first_seen_at = rows[m].first_seen_at /\ row.first_licensed_at = at
  BY <1>2 DEF DeviceRow
<1>6. rows[m].first_licensed_at # NULL => row = rows[m]
  BY <1>4 DEF DeviceRow
<1> HIDE DEF row
<1>7. new[m] = row /\ \A n \in Machines \ {m} : new[n] = rows[n]
  BY <1>1
<1> QED
  BY <1>1, <1>3, <1>5, <1>6, <1>7, RowAssumption

\* One row is written: a new one gets the next row id.
LEMMA RowWritten ==
  ASSUME SeatsInv, NEW m \in Machines, devices'[m] \in DeviceRow,
         \A n \in Machines \ {m} : devices'[n] = devices[n],
         now' = now, Dated(devices'[m], now),
         devices[m] # NULL => devices'[m].rowid = devices[m].rowid,
         devices[m] = NULL => devices'[m].rowid = Cardinality(Rows) + 1
  PROVE  RowsInv'
<1> USE DEF SeatsInv
<1>1. Cardinality(Rows) \in Nat /\ \A n \in Rows : devices[n] \in DeviceRow
  BY FS_CardinalityType DEF RowsInv, Typed, Rows
<1>2. Rows' = Rows \cup {m} /\ (m \in Rows <=> devices[m] # NULL)
  BY RowAssumption DEF Rows
<1>3. /\ IsFiniteSet(Rows \cup {m})
      /\ Cardinality(Rows \cup {m}) = IF m \in Rows THEN Cardinality(Rows) ELSE Cardinality(Rows) + 1
  BY FS_AddElement DEF RowsInv
<1>4. IsFiniteSet(Rows') /\ Cardinality(Rows') = IF m \in Rows THEN Cardinality(Rows) ELSE Cardinality(Rows) + 1
  BY <1>2, <1>3
<1>5. ASSUME NEW n \in Rows'
      PROVE  Dated(devices'[n], now) /\ devices'[n].rowid <= Cardinality(Rows')
  <2>1. CASE n = m
    BY <1>1, <1>2, <1>4, <2>1 DEF RowsInv, Dated, DeviceRow
  <2>2. CASE n # m
    <3>1. n \in Rows /\ devices'[n] = devices[n]
      BY <1>2, <1>5, <2>2 DEF Rows
    <3>2. devices[n].rowid \in Nat /\ devices[n].rowid <= Cardinality(Rows) /\ Dated(devices[n], now)
      BY <1>1, <3>1 DEF RowsInv, DeviceRow
    <3> QED
      BY <1>1, <1>4, <3>1, <3>2 DEF Dated
  <2> QED
    BY <2>1, <2>2
<1>6. ASSUME NEW n \in Rows', NEW o \in Rows', devices'[n].rowid = devices'[o].rowid
      PROVE  n = o
  <2>1. ASSUME NEW r \in Rows, r # m PROVE devices'[r] = devices[r] /\ devices[r].rowid # devices'[m].rowid
    <3>1. devices'[r] = devices[r]
      BY <2>1 DEF Rows
    <3>2. devices[r].rowid \in Nat /\ devices[r].rowid <= Cardinality(Rows)
      BY <1>1 DEF RowsInv, DeviceRow
    <3> QED
      BY <1>1, <1>2, <2>1, <3>1, <3>2 DEF RowsInv
  <2>2. CASE n # m /\ o # m
    BY <1>2, <1>6, <2>1, <2>2 DEF RowsInv
  <2> QED
    BY <1>2, <1>6, <2>1, <2>2
<1> QED
  BY <1>4, <1>5, <1>6 DEF RowsInv, SeatsInv

\* One check moves on, and no row has gone away.
LEMMA WorkerMoved ==
  ASSUME SeatsInv, NEW k \in Workers, NEW check \in WorkerState,
         worker' = [worker EXCEPT ![k] = check], now' = now, Knows(check, now, devices'),
         \A n \in Machines : devices[n] # NULL => devices'[n] # NULL
  PROVE  worker' \in [Workers -> WorkerState] /\ WorkersInv'
<1>1. worker \in [Workers -> WorkerState] /\ WorkersInv
  BY DEF SeatsInv, Typed
<1>2. worker'[k] = check /\ \A j \in Workers \ {k} : worker'[j] = worker[j]
  BY <1>1
<1>3. worker' \in [Workers -> WorkerState]
  BY <1>1
<1>4. ASSUME NEW j \in Workers PROVE Knows(worker'[j], now', devices')
  <2>1. CASE j = k
    BY <1>2, <2>1
  <2>2. CASE j # k
    <3>1. Knows(worker[j], now, devices) /\ worker'[j] = worker[j]
      BY <1>1, <1>2, <2>2 DEF WorkersInv
    <3> QED
      BY <3>1 DEF Knows
  <2> QED
    BY <2>1, <2>2
<1>5. WorkersInv'
  BY <1>4 DEF WorkersInv
<1> QED
  BY <1>3, <1>5

LEMMA IdleKnows ==
  ASSUME NEW time, NEW rows
  PROVE  Idle \in WorkerState /\ Knows(Idle, time, rows)
BY DEF Idle, WorkerState, Knows

\* What an active answer does to the seats.
LEMMA ActivatedSeats ==
  ASSUME SeatsInv, NEW k \in Workers, Activate(k), NEW m, m = worker[k].machine
  PROVE  /\ m \in Machines /\ worker[k].max \in Nat \ {0} /\ worker[k].client \in Clients
         /\ devices' \in [Machines -> DeviceRow \cup {NULL}] /\ devices'[m] \in DeviceRow
         /\ RowsInv' /\ worker' \in [Workers -> WorkerState] /\ WorkersInv'
         /\ \A n \in Counted(devices) : devices'[n] = devices[n]
         /\ m \in Counted(devices') /\ Counted(devices') = Counted(devices) \cup {m}
         /\ IsFiniteSet(Counted(devices'))
         /\ m \in Counted(devices) => _device_is_within_active_limit(devices, m, worker[k].max)
         /\ m \notin Counted(devices) => Cardinality(Counted(devices')) <= worker[k].max
<1> DEFINE rows == Upserted(k)
<1>0. rows = Upserted(k)
  OBVIOUS
<1> HIDE DEF rows
<1>1. Ready(k) /\ ~rows[m].is_blocked /\ ~OverLimit(rows, m, worker[k].max)
  BY <1>0 DEF Activate, Allowed
<1>2. devices' = Marked(rows, m) /\ now' = now /\ worker' = [worker EXCEPT ![k] = Idle]
  BY <1>0 DEF Activate
<1>3. /\ m \in Machines /\ rows \in [Machines -> DeviceRow \cup {NULL}]
      /\ rows[m] \in DeviceRow /\ rows[m] # NULL
      /\ \A n \in Machines \ {m} : rows[n] = devices[n]
      /\ devices[m] # NULL => rows = devices
      /\ devices[m] = NULL =>
           /\ rows[m].is_blocked = FALSE /\ rows[m].first_seen_at = worker[k].seen
           /\ rows[m].first_licensed_at = NULL
           /\ rows[m].rowid = Cardinality(Rows) + 1
      /\ Counted(rows) = Counted(devices)
  <2>1. RowFound(k, worker[k].machine, Upserted(k))
    BY <1>1, UpsertedRow
  <2>2. RowFound(k, m, rows)
    BY <1>0, <2>1
  <2> QED
    BY <2>2 DEF RowFound
<1> USE DEF SeatsInv
<1>4. now \in Nat
  BY DEF LeaseInv, ClockType
<1>5. /\ devices' \in [Machines -> DeviceRow \cup {NULL}]
      /\ devices'[m] \in DeviceRow /\ devices'[m] # NULL
      /\ \A n \in Machines \ {m} : devices'[n] = rows[n]
      /\ devices'[m].is_blocked = rows[m].is_blocked /\ devices'[m].rowid = rows[m].rowid
      /\ devices'[m].first_seen_at = rows[m].first_seen_at
      /\ rows[m].first_licensed_at = NULL => devices'[m].first_licensed_at = now
      /\ rows[m].first_licensed_at # NULL => devices'[m] = rows[m]
  BY <1>2, <1>3, <1>4, MarkedRow
<1>6. /\ worker[k].seen \in Nat /\ worker[k].seen <= now /\ worker[k].max \in Nat \ {0}
      /\ worker[k].client \in Clients
  BY <1>1 DEF Ready, WorkersInv, Knows, At
<1>7. \A n \in Machines \ {m} : devices'[n] = devices[n]
  BY <1>3, <1>5
<1>8. Dated(devices'[m], now)
  <2>1. rows[m].first_seen_at \in Nat /\ rows[m].first_seen_at <= now
    BY <1>3, <1>6 DEF RowsInv, Rows, Dated, DeviceRow
  <2>2. CASE rows[m].first_licensed_at = NULL
    BY <1>4, <1>5, <2>1, <2>2 DEF Dated
  <2>3. CASE rows[m].first_licensed_at # NULL
    <3>1. devices'[m] = devices[m] /\ m \in Rows
      BY <1>3, <1>5, <2>3 DEF Rows
    <3> QED
      BY <3>1 DEF RowsInv
  <2> QED
    BY <2>2, <2>3
<1>9. RowsInv'
  BY <1>2, <1>3, <1>5, <1>7, <1>8, RowWritten
<1>9a. \A n \in Machines : devices[n] # NULL => devices'[n] # NULL
  BY <1>5, <1>7
<1>10. worker' \in [Workers -> WorkerState] /\ WorkersInv'
  BY <1>2, <1>9a, IdleKnows, WorkerMoved
<1>11. devices'[m].first_licensed_at # NULL /\ ~devices'[m].is_blocked
  BY <1>1, <1>4, <1>5, LicenseAssumption
<1>12. m \in Counted(devices') /\ Counted(devices') = Counted(devices) \cup {m}
  BY <1>3, <1>5, <1>7, <1>11 DEF Counted
<1>13. m \in Counted(devices) => rows = devices /\ devices'[m] = devices[m]
  BY <1>3, <1>5 DEF Counted
<1>14. IsFiniteSet(Counted(devices)) /\ Cardinality(Counted(devices)) \in Nat
  BY CountedFinite
<1>15. /\ IsFiniteSet(Counted(devices) \cup {m})
       /\ m \notin Counted(devices) =>
            Cardinality(Counted(devices) \cup {m}) = Cardinality(Counted(devices)) + 1
  BY <1>14, FS_AddElement
<1>16. m \in Counted(devices) => _device_is_within_active_limit(devices, m, worker[k].max)
  BY <1>1, <1>13 DEF OverLimit
<1>17. m \notin Counted(devices) => ~(Cardinality(Counted(devices)) >= worker[k].max)
  BY <1>1, <1>3 DEF OverLimit
<1>18. m \notin Counted(devices) => Cardinality(Counted(devices')) <= worker[k].max
  BY <1>6, <1>12, <1>14, <1>15, <1>17
<1>19. \A n \in Counted(devices) : devices'[n] = devices[n]
  BY <1>7, <1>13 DEF Counted
<1> QED
  BY <1>3, <1>5, <1>6, <1>9, <1>10, <1>12, <1>15, <1>16, <1>18, <1>19

\* An answer given by the limit in force takes no seat away, and the machine
\* that got it may run.
LEMMA SeatsAfterAnswer ==
  ASSUME SeatsInv, NEW k \in Workers, Activate(k), ~UsesOldLimit(k),
         NEW m, m = worker[k].machine
  PROVE  MayRun(m)' /\ \A n \in Machines : MayRun(n) => MayRun(n)'
<1> DEFINE max == worker[k].max
<1>1. max = Limit /\ Limit' = Limit
  BY DEF UsesOldLimit, Limit, Activate
<1>3. /\ m \in Machines /\ max \in Nat \ {0}
      /\ devices' \in [Machines -> DeviceRow \cup {NULL}] /\ devices'[m] \in DeviceRow
      /\ \A n \in Counted(devices) : devices'[n] = devices[n]
      /\ m \in Counted(devices') /\ Counted(devices') = Counted(devices) \cup {m}
      /\ IsFiniteSet(Counted(devices'))
      /\ m \in Counted(devices) => _device_is_within_active_limit(devices, m, max)
      /\ m \notin Counted(devices) => Cardinality(Counted(devices')) <= max
  BY ActivatedSeats
<1> HIDE DEF max
<1>4. CASE m \in Counted(devices)
  <2>1. Counted(devices') = Counted(devices)
    BY <1>3, <1>4
  <2>2. \A n, limit : _device_is_within_active_limit(devices', n, limit)
                       <=> _device_is_within_active_limit(devices, n, limit)
    BY <1>3, <2>1, SameSeats
  <2> QED
    BY <1>1, <1>3, <1>4, <2>2 DEF MayRun
<1>5. CASE m \notin Counted(devices)
  <2>1. ASSUME NEW n \in Counted(devices') PROVE _device_is_within_active_limit(devices', n, max)
    <3>1. devices'[n] \in DeviceRow
      BY <1>3, <2>1 DEF Counted
    <3> QED
      BY <1>3, <1>5, <3>1, WithinLimit
  <2>2. \A n : MayRun(n) => n \in Counted(devices)
    BY DEF MayRun, _device_is_within_active_limit
  <2> QED
    BY <1>1, <1>3, <2>1, <2>2 DEF MayRun
<1> QED
  BY <1>4, <1>5

-----------------------------------------------------------------------------
(* Every step keeps SeatsInv *)

\* What a step has to keep besides LeaseInv.
Seats == Typed /\ RowsInv /\ WorkersInv /\ LeaseSeats

LEMMA RowsStay ==
  ASSUME SeatsInv, devices' = devices, now' \in Nat, now <= now'
  PROVE  RowsInv'
<1>1. now \in Nat /\ RowsInv /\ \A m \in Rows : devices[m] \in DeviceRow
  BY DEF SeatsInv, LeaseInv, ClockType, Typed, Rows
<1>2. Rows' = Rows
  BY DEF Rows
<1>3. \A m \in Rows : Dated(devices[m], now')
  BY <1>1 DEF RowsInv, Dated, DeviceRow
<1> QED
  BY <1>1, <1>2, <1>3 DEF RowsInv

LEMMA WorkersStay ==
  ASSUME SeatsInv, worker' = worker, now' \in Nat, now <= now',
         \A n \in Machines : devices[n] # NULL => devices'[n] # NULL
  PROVE  WorkersInv'
<1>1. now \in Nat /\ WorkersInv
  BY DEF SeatsInv, LeaseInv, ClockType
<1>2. \A k \in Workers : Knows(worker[k], now', devices')
  BY <1>1 DEF WorkersInv, Knows
<1> QED
  BY <1>2 DEF WorkersInv

\* No lease is new, and no machine has lost its seat.
LEMMA LeasesStay ==
  ASSUME SeatsInv, leases' \subseteq leases, edited' = edited, now' \in Nat, now <= now',
         \A n \in Machines : MayRun(n) => MayRun(n)'
  PROVE  LeaseSeats'
<1>1. /\ now \in Nat /\ LeaseSeats /\ edited \in Nat \cup {NULL}
      /\ \A l \in leases : l.machine \in Machines
  BY DEF SeatsInv, LeaseInv, ClockType, Typed, Lease
<1>2. edited' # NULL => edited' <= now'
  BY <1>1, LicenseAssumption DEF LeaseSeats
<1>3. ASSUME NEW l \in leases'
      PROVE  MayRun(l.machine)' \/ (edited' # NULL /\ l.exp <= edited' + Grace)
  BY <1>1, <1>3 DEF LeaseSeats
<1> QED
  BY <1>2, <1>3 DEF LeaseSeats

\* A change of seats is dated now, and every lease ends within the grace period.
LEMMA LeasesEndFromNow ==
  ASSUME LeaseInv', edited' = now'
  PROVE  LeaseSeats'
<1>1. now' \in Nat /\ \A l \in leases' : l.exp <= now' + Grace
  BY DEF LeaseInv, ClockType, LeaseBacked, Backed
<1> QED
  BY <1>1, LicenseAssumption DEF LeaseSeats

LEMMA SameMayRun ==
  ASSUME devices' = devices, max_devices' = max_devices
  PROVE  \A n : MayRun(n) <=> MayRun(n)'
BY DEF MayRun, Limit

LEMMA FindCustomerSeats ==
  ASSUME SeatsInv, NEW k \in Workers, NEW m \in Machines, NEW client \in Clients,
         NEW strategy \in Products \cup {NULL}, FindCustomer(k, m, client, strategy)
  PROVE  Seats'
<1> DEFINE max == _effective_max_devices(max_devices)
           check == [Idle EXCEPT !.pc = "customer", !.machine = m, !.client = client,
                                 !.strategy = strategy, !.max = max]
<1>1. /\ worker' = [worker EXCEPT ![k] = check] /\ now' = now /\ devices' = devices
      /\ UNCHANGED <<max_devices, leases, activated, edited, edits>>
  BY DEF FindCustomer
<1>2. now \in Nat /\ Typed
  BY DEF SeatsInv, LeaseInv, ClockType
<1>3. max \in Nat \ {0}
  BY <1>2, EffectiveMax DEF Typed
<1> HIDE DEF max
<1>4. check \in WorkerState /\ Knows(check, now, devices')
  BY <1>3 DEF Idle, WorkerState, Knows
<1> HIDE DEF check
<1>5. worker' \in [Workers -> WorkerState] /\ WorkersInv'
  BY <1>1, <1>4, WorkerMoved
<1>6. RowsInv' /\ LeaseSeats'
  BY <1>1, <1>2, RowsStay, LeasesStay, SameMayRun
<1>7. Typed'
  BY <1>1, <1>2, <1>5 DEF Typed
<1> QED
  BY <1>5, <1>6, <1>7 DEF Seats

LEMMA FindDeviceSeats ==
  ASSUME SeatsInv, NEW k \in Workers, FindDevice(k)
  PROVE  Seats'
<1> DEFINE exists == devices[worker[k].machine] # NULL
           check == [worker[k] EXCEPT !.pc = "device", !.seen = now, !.exists = exists]
<1>1. /\ worker' = [worker EXCEPT ![k] = check] /\ now' = now /\ devices' = devices
      /\ UNCHANGED <<max_devices, leases, activated, edited, edits>>
  BY DEF FindDevice
<1>2. now \in Nat /\ Typed
  BY DEF SeatsInv, LeaseInv, ClockType
<1>3. /\ worker[k] \in WorkerState /\ worker[k].machine \in Machines
      /\ worker[k].client \in Clients /\ worker[k].max \in Nat \ {0}
  BY DEF SeatsInv, Typed, WorkersInv, Knows, FindDevice, At
<1>4. exists \in BOOLEAN /\ exists = (devices[worker[k].machine] # NULL)
  OBVIOUS
<1> HIDE DEF exists
<1>5. /\ check \in WorkerState
      /\ check.pc = "device" /\ check.seen = now /\ check.exists = exists
      /\ check.machine = worker[k].machine /\ check.client = worker[k].client
      /\ check.max = worker[k].max
  <2> DEFINE w == worker[k]
  <2>1. w \in WorkerState /\ w = worker[k]
    BY <1>3
  <2> HIDE DEF w
  <2>2. check = [w EXCEPT !.pc = "device", !.seen = now, !.exists = exists]
    BY <2>1
  <2> HIDE DEF check
  <2>3. check \in WorkerState
    BY <1>2, <1>4, <2>1, <2>2 DEF WorkerState
  <2>4. /\ check.pc = "device" /\ check.seen = now /\ check.exists = exists
        /\ check.machine = w.machine /\ check.client = w.client /\ check.max = w.max
    BY <2>1, <2>2 DEF WorkerState
  <2> QED
    BY <2>1, <2>3, <2>4
<1> HIDE DEF check
<1>6. Knows(check, now, devices')
  <2>1. check.exists => devices'[check.machine] # NULL
    BY <1>1, <1>4, <1>5
  <2>2. check.machine \in Machines /\ check.client \in Clients /\ check.max \in Nat \ {0}
    BY <1>3, <1>5
  <2>3. check.seen \in Nat /\ check.seen <= now
    BY <1>2, <1>5
  <2> QED
    BY <2>1, <2>2, <2>3 DEF Knows
<1>7. worker' \in [Workers -> WorkerState] /\ WorkersInv'
  BY <1>1, <1>5, <1>6, WorkerMoved
<1>8. RowsInv' /\ LeaseSeats'
  BY <1>1, <1>2, RowsStay, LeasesStay, SameMayRun
<1>9. Typed'
  BY <1>1, <1>2, <1>7 DEF Typed
<1> QED
  BY <1>7, <1>8, <1>9 DEF Seats

LEMMA ConflictSeats ==
  ASSUME SeatsInv, NEW k \in Workers, Conflict(k)
  PROVE  Seats'
<1>1. /\ worker' = [worker EXCEPT ![k] = Idle] /\ now' = now /\ devices' = devices
      /\ UNCHANGED <<max_devices, leases, activated, edited, edits>>
  BY DEF Conflict
<1>2. now \in Nat /\ Typed
  BY DEF SeatsInv, LeaseInv, ClockType
<1>3. worker' \in [Workers -> WorkerState] /\ WorkersInv'
  BY <1>1, IdleKnows, WorkerMoved
<1>4. RowsInv' /\ LeaseSeats'
  BY <1>1, <1>2, RowsStay, LeasesStay, SameMayRun
<1>5. Typed'
  BY <1>1, <1>2, <1>3 DEF Typed
<1> QED
  BY <1>3, <1>4, <1>5 DEF Seats

\* A refused machine gets a row and no seat.
LEMMA RefuseSeats ==
  ASSUME SeatsInv, NEW k \in Workers, Refuse(k)
  PROVE  Seats' /\ Counted(devices') = Counted(devices) /\ \A n : MayRun(n) <=> MayRun(n)'
<1> DEFINE m == worker[k].machine
           rows == Upserted(k)
<1>1. /\ Ready(k) /\ devices' = rows /\ worker' = [worker EXCEPT ![k] = Idle]
      /\ now' = now /\ UNCHANGED <<max_devices, leases, activated, edited, edits>>
  BY DEF Refuse
<1>2. RowFound(k, m, rows)
  BY <1>1, UpsertedRow
<1>3. worker[k].seen \in Nat /\ worker[k].seen <= now
  BY <1>1 DEF SeatsInv, WorkersInv, Knows, Ready, At
<1> HIDE DEF m, rows
<1>4. now \in Nat /\ Typed /\ RowsInv
  BY DEF SeatsInv, LeaseInv, ClockType
<1>5. \A n \in Machines : devices[n] # NULL => devices'[n] # NULL
  BY <1>1, <1>2 DEF RowFound
<1>6. RowsInv'
  <2>1. CASE devices[m] # NULL
    BY <1>1, <1>2, <1>4, <2>1, RowsStay DEF RowFound
  <2>2. CASE devices[m] = NULL
    <3>1. Dated(devices'[m], now)
      BY <1>1, <1>2, <1>3, <2>2 DEF RowFound, Dated
    <3> QED
      BY <1>1, <1>2, <2>2, <3>1, RowWritten DEF RowFound
  <2> QED
    BY <2>1, <2>2
<1>7. worker' \in [Workers -> WorkerState] /\ WorkersInv'
  BY <1>1, <1>5, IdleKnows, WorkerMoved
<1>8. Typed'
  BY <1>1, <1>2, <1>4, <1>7 DEF Typed, RowFound
<1>9. Counted(devices') = Counted(devices)
  BY <1>1, <1>2 DEF RowFound
<1>10. \A n \in Counted(devices) : devices'[n] = devices[n]
  BY <1>1, <1>2 DEF RowFound, Counted
<1>11. \A n : MayRun(n) <=> MayRun(n)'
  BY <1>1, <1>9, <1>10, SameSeats DEF MayRun, Limit
<1>12. LeaseSeats'
  BY <1>1, <1>4, <1>11, LeasesStay
<1> QED
  BY <1>6, <1>7, <1>8, <1>9, <1>11, <1>12 DEF Seats

\* A machine that is given a lease may run by the limit the check had read; that
\* of another machine may have been lowered since, and then the change is now.
LEMMA ActivateSeats ==
  ASSUME SeatsInv, NEW k \in Workers, Activate(k), LeaseInv'
  PROVE  Seats'
<1> DEFINE m == worker[k].machine
           new == NewLeases(m, worker[k].client, worker[k].strategy)
<1>1. /\ now' = now /\ UNCHANGED <<max_devices, edits>> /\ leases' = leases \cup new
      /\ activated' \subseteq activated \cup {m}
      /\ UsesOldLimit(k) => edited' = now
      /\ ~UsesOldLimit(k) => edited' = edited
  BY DEF Activate
<1>2. /\ m \in Machines /\ worker[k].client \in Clients
      /\ devices' \in [Machines -> DeviceRow \cup {NULL}]
      /\ RowsInv' /\ worker' \in [Workers -> WorkerState] /\ WorkersInv'
  BY ActivatedSeats
<1>3. \A l \in new : l.machine = m
  BY DEF NewLeases
<1>4. now \in Nat /\ Typed /\ LeaseSeats
  BY DEF SeatsInv, LeaseInv, ClockType
<1>5. new \subseteq Lease
  <2> SUFFICES ASSUME NEW l \in new PROVE l \in Lease
    OBVIOUS
  <2>1. l.exp \in Nat /\ l.features \subseteq Products
    BY <1>1 DEF LeaseInv, LeaseBacked, Backed
  <2> QED
    BY <1>2, <2>1 DEF NewLeases, Lease
<1>6. Typed'
  BY <1>1, <1>2, <1>4, <1>5 DEF Typed
<1>7. CASE UsesOldLimit(k)
  <2>1. LeaseSeats'
    BY <1>1, <1>7, LeasesEndFromNow
  <2> QED
    BY <1>2, <1>6, <2>1 DEF Seats
<1>8. CASE ~UsesOldLimit(k)
  <2> HIDE DEF new
  <2>1. ASSUME NEW n, n = m PROVE MayRun(n)'
    BY <1>8, <2>1, SeatsAfterAnswer
  <2>2. \A n \in Machines : MayRun(n) => MayRun(n)'
    <3>1. PICK n : n = m
      OBVIOUS
    <3> QED
      BY <1>8, <3>1, SeatsAfterAnswer
  <2>3. ASSUME NEW l \in leases'
        PROVE  MayRun(l.machine)' \/ (edited' # NULL /\ l.exp <= edited' + Grace)
    <3>1. CASE l \in new
      BY <1>3, <2>1, <3>1
    <3>2. CASE l \in leases
      BY <1>1, <1>4, <1>8, <2>2, <3>2 DEF LeaseSeats, Typed, Lease
    <3> QED
      BY <1>1, <3>1, <3>2
  <2>4. LeaseSeats'
    BY <1>1, <1>4, <1>8, <2>3 DEF LeaseSeats
  <2> QED
    BY <1>2, <1>6, <2>4 DEF Seats
<1> QED
  BY <1>7, <1>8

LEMMA LimitSeats ==
  ASSUME SeatsInv, NEW max \in Overrides, set_customer_max_devices(max), LeaseInv'
  PROVE  Seats'
<1>1. /\ now' = now /\ devices' = devices /\ worker' = worker /\ edited' = now
      /\ max_devices' = max /\ edits' = edits + 1 /\ UNCHANGED <<leases, activated>>
  BY DEF set_customer_max_devices, Edit
<1>2. now \in Nat /\ Typed
  BY DEF SeatsInv, LeaseInv, ClockType
<1>3. Typed'
  BY <1>1, <1>2, LicenseAssumption DEF Typed
<1> QED
  BY <1>1, <1>2, <1>3, RowsStay, WorkersStay, LeasesEndFromNow DEF Seats

LEMMA BlockSeats ==
  ASSUME SeatsInv, NEW m \in Machines, NEW is_blocked \in BOOLEAN,
         set_device_blocked(m, is_blocked), LeaseInv'
  PROVE  Seats'
<1> DEFINE row == [devices[m] EXCEPT !.is_blocked = is_blocked]
<1>1. /\ now' = now /\ devices' = [devices EXCEPT ![m] = row] /\ devices[m] # NULL
      /\ worker' = worker /\ edited' = now /\ edits' = edits + 1
      /\ UNCHANGED <<max_devices, leases, activated>>
  BY DEF set_device_blocked, Edit
<1>2. now \in Nat /\ Typed /\ devices[m] \in DeviceRow
  BY <1>1 DEF SeatsInv, LeaseInv, ClockType, Typed
<1>3. /\ row \in DeviceRow /\ row.rowid = devices[m].rowid
      /\ row.first_seen_at = devices[m].first_seen_at
      /\ row.first_licensed_at = devices[m].first_licensed_at
  BY <1>2 DEF DeviceRow
<1> HIDE DEF row
<1>4. /\ devices' \in [Machines -> DeviceRow \cup {NULL}] /\ devices'[m] = row
      /\ \A n \in Machines \ {m} : devices'[n] = devices[n]
  BY <1>1, <1>2, <1>3 DEF Typed
<1>5. Dated(devices'[m], now)
  <2>1. Dated(devices[m], now)
    BY <1>1 DEF SeatsInv, RowsInv, Rows
  <2> QED
    BY <1>3, <1>4, <2>1 DEF Dated
<1>6. RowsInv'
  BY <1>1, <1>3, <1>4, <1>5, RowWritten
<1>7. WorkersInv'
  BY <1>1, <1>2, <1>3, <1>4, RowAssumption, WorkersStay
<1>8. Typed'
  BY <1>1, <1>2, <1>4 DEF Typed
<1> QED
  BY <1>1, <1>6, <1>7, <1>8, LeasesEndFromNow DEF Seats

LEMMA BlockAllSeats ==
  ASSUME SeatsInv, block_all_customer_devices, LeaseInv'
  PROVE  Seats'
<1>1. /\ now' = now /\ worker' = worker /\ edited' = now /\ edits' = edits + 1
      /\ devices' = [n \in Machines |-> IF devices[n] = NULL THEN NULL
                                        ELSE [devices[n] EXCEPT !.is_blocked = TRUE]]
      /\ UNCHANGED <<max_devices, leases, activated>>
  BY DEF block_all_customer_devices, Edit
<1>2. now \in Nat /\ Typed /\ RowsInv
  BY DEF SeatsInv, LeaseInv, ClockType
<1>3. ASSUME NEW n \in Machines, devices[n] # NULL
      PROVE  /\ devices'[n] \in DeviceRow /\ devices'[n] # NULL
             /\ devices'[n].rowid = devices[n].rowid
             /\ devices'[n].first_seen_at = devices[n].first_seen_at
             /\ devices'[n].first_licensed_at = devices[n].first_licensed_at
  <2>1. devices[n] \in DeviceRow /\ devices'[n] = [devices[n] EXCEPT !.is_blocked = TRUE]
    BY <1>1, <1>2, <1>3 DEF Typed
  <2> DEFINE row == devices[n]
             blocked == [row EXCEPT !.is_blocked = TRUE]
  <2>2. row \in DeviceRow /\ row = devices[n] /\ devices'[n] = blocked
    BY <2>1
  <2> HIDE DEF row
  <2>3. /\ blocked \in DeviceRow /\ blocked.rowid = row.rowid
        /\ blocked.first_seen_at = row.first_seen_at
        /\ blocked.first_licensed_at = row.first_licensed_at
    BY <2>2 DEF DeviceRow
  <2> HIDE DEF blocked
  <2> QED
    BY <2>2, <2>3, RowAssumption
<1>4. \A n \in Machines : devices[n] = NULL => devices'[n] = NULL
  BY <1>1
<1>5. devices' \in [Machines -> DeviceRow \cup {NULL}]
  <2>1. \A n \in Machines : devices'[n] \in DeviceRow \cup {NULL}
    BY <1>3, <1>4
  <2> QED
    BY <1>1, <2>1
<1>6. Rows' = Rows
  BY <1>3, <1>4 DEF Rows
<1>7. RowsInv'
  <2>1. ASSUME NEW n \in Rows PROVE Dated(devices'[n], now') /\ devices'[n].rowid <= Cardinality(Rows)
    BY <1>1, <1>2, <1>3 DEF RowsInv, Dated, Rows
  <2>2. \A n, o \in Rows : devices'[n].rowid = devices'[o].rowid => n = o
    BY <1>2, <1>3 DEF RowsInv, Rows
  <2> QED
    BY <1>2, <1>6, <2>1, <2>2 DEF RowsInv
<1>8. WorkersInv'
  BY <1>1, <1>2, <1>3, WorkersStay
<1>9. Typed'
  BY <1>1, <1>2, <1>5 DEF Typed
<1> QED
  BY <1>1, <1>7, <1>8, <1>9, LeasesEndFromNow DEF Seats

\* Coverage and time leave the seats alone.
LEMMA QuietSeats ==
  ASSUME SeatsInv, now' \in Nat, now <= now', leases' \subseteq leases, edits' \in Nat,
         UNCHANGED <<max_devices, devices, worker, activated, edited>>
  PROVE  Seats'
<1>1. Typed
  BY DEF SeatsInv
<1>2. Typed'
  BY <1>1 DEF Typed
<1> QED
  BY <1>2, RowsStay, WorkersStay, LeasesStay, SameMayRun DEF Seats

\* No machine has a row at the start, and no check is under way.
LEMMA SeatsInit == Init => SeatsInv
<1> SUFFICES ASSUME Init PROVE SeatsInv
  OBVIOUS
<1>1. LeaseInv
  BY LeaseInit
<1>2. \A k \in Workers : worker[k] \in WorkerState /\ Knows(worker[k], now, devices)
  BY IdleKnows DEF Init
<1>3. Rows = {}
  BY DEF Init, Rows
<1>4. RowsInv
  BY <1>3, FS_EmptySet DEF RowsInv
<1>5. Typed
  BY <1>2 DEF Init, Typed
<1>6. WorkersInv /\ LeaseSeats
  BY <1>2 DEF Init, WorkersInv, LeaseSeats
<1> QED
  BY <1>1, <1>4, <1>5, <1>6 DEF SeatsInv

LEMMA SeatsStep ==
  ASSUME SeatsInv, [Next]_vars
  PROVE  SeatsInv'
<1>1. LeaseInv'
  BY LeaseStep DEF SeatsInv
<1> SUFFICES Seats'
  BY <1>1 DEF SeatsInv, Seats
<1>2. now \in Nat /\ now + 1 \in Nat /\ edits \in Nat /\ edits + 1 \in Nat
  BY DEF SeatsInv, LeaseInv, ClockType, Typed
<1>3. ASSUME NEW k \in Workers, NEW m \in Machines, NEW client \in Clients,
             NEW strategy \in Products \cup {NULL}, FindCustomer(k, m, client, strategy)
      PROVE  Seats'
  BY <1>3, FindCustomerSeats
<1>4. ASSUME NEW k \in Workers, Check(k)
      PROVE  Seats'
  BY <1>1, <1>4, FindDeviceSeats, ConflictSeats, RefuseSeats, ActivateSeats DEF Check
<1>5. ASSUME NEW max \in Overrides, set_customer_max_devices(max)
      PROVE  Seats'
  BY <1>1, <1>5, LimitSeats
<1>6. ASSUME NEW m \in Machines, NEW is_blocked \in BOOLEAN, set_device_blocked(m, is_blocked)
      PROVE  Seats'
  BY <1>1, <1>6, BlockSeats
<1>7. CASE block_all_customer_devices
  BY <1>1, <1>7, BlockAllSeats
<1>8. ASSUME NEW p \in Products, NEW end \in Ends, SetCoverage(p, end)
      PROVE  Seats'
  BY <1>2, <1>8, QuietSeats DEF SetCoverage, Edit
<1>9. CASE Tick
  BY <1>2, <1>9, QuietSeats DEF Tick
<1>10. CASE UNCHANGED vars
  BY <1>2, <1>10, QuietSeats DEF vars
<1> QED
  BY <1>3, <1>4, <1>5, <1>6, <1>7, <1>8, <1>9, <1>10 DEF Next

LEMMA SeatsAlways == Spec => []SeatsInv
<1>1. Init => SeatsInv
  BY SeatsInit
<1>2. SeatsInv /\ [Next]_vars => SeatsInv'
  BY SeatsStep
<1> QED
  BY <1>1, <1>2, PTL DEF Spec

-----------------------------------------------------------------------------
(* What follows from SeatsInv *)

\* Rows of devices are well formed, each with a row id of its own, and a machine
\* is first licensed no earlier than it is first seen.
THEOREM TypesCorrect == Spec => []TypeOK
<1>1. SeatsInv => TypeOK
  <2> SUFFICES ASSUME SeatsInv PROVE TypeOK
    OBVIOUS
  <2>1. \A m \in Counted(devices) : devices[m].first_seen_at <= devices[m].first_licensed_at
    BY DEF SeatsInv, RowsInv, Dated, Counted, Rows
  <2> QED
    BY <2>1 DEF SeatsInv, LeaseInv, ClockType, Typed, RowsInv, TypeOK
<1> QED
  BY <1>1, SeatsAlways, PTL

\* A lease that is out is of a machine that may run, or seats were changed less
\* than a grace period ago.
THEOREM SeatsEnd == Spec => []SeatsEndWithinGrace
<1>1. SeatsInv => SeatsEndWithinGrace
  <2> SUFFICES ASSUME SeatsInv, NEW l \in leases, ~MayRun(l.machine)
               PROVE  edited # NULL /\ now < edited + Grace
    BY DEF SeatsEndWithinGrace
  <2>1. edited # NULL /\ l.exp <= edited + Grace
    BY DEF SeatsInv, LeaseSeats
  <2>2. now \in Nat /\ l.exp \in Nat /\ now < l.exp
    BY DEF SeatsInv, LeaseInv, ClockType, LeaseBacked, Backed
  <2>3. edited \in Nat /\ Grace \in Nat
    BY <2>1, LicenseAssumption DEF SeatsInv, Typed
  <2> QED
    BY <2>1, <2>2, <2>3
<1> QED
  BY <1>1, SeatsAlways, PTL

\* The check that adds a machine to those with seats leaves no more of them than
\* the limit it read, whatever other checks and administrators do meanwhile.
THEOREM NoSeatIsOversold == Spec => SeatsNeverOversold
<1> DEFINE Seated(k) == /\ At(k, "device") /\ At(k, "idle")'
                        /\ Counted(devices') # Counted(devices)
                        => Cardinality(Counted(devices')) <= worker[k].max
<1>1. ASSUME SeatsInv, [Next]_vars, NEW k \in Workers
      PROVE  Seated(k)
  <2> USE <1>1
  <2> SUFFICES ASSUME At(k, "device"), At(k, "idle")', Counted(devices') # Counted(devices)
               PROVE  Cardinality(Counted(devices')) <= worker[k].max
    OBVIOUS
  <2>1. worker'[k] # worker[k] /\ devices' # devices
    BY DEF At
  <2>2. PICK j \in Workers : Check(j)
    BY <2>1 DEF Next, FindCustomer, set_customer_max_devices, set_device_blocked,
                block_all_customer_devices, SetCoverage, Tick, vars
  <2>3. Activate(j)
    BY <2>1, <2>2, RefuseSeats DEF Check, FindDevice, Conflict
  <2>4. j = k
    BY <2>1, <2>3 DEF Activate, SeatsInv, Typed
  <2> DEFINE m == worker[k].machine
  <2>5. /\ Counted(devices') = Counted(devices) \cup {m}
        /\ m \notin Counted(devices) => Cardinality(Counted(devices')) <= worker[k].max
    BY <2>3, <2>4, ActivatedSeats
  <2> HIDE DEF m
  <2>6. m \notin Counted(devices)
    BY <2>5
  <2> QED
    BY <2>5, <2>6
<1>2. SeatsInv /\ [Next]_vars => [\A k \in Workers : Seated(k)]_vars
  BY <1>1
<1> QED
  BY <1>2, SeatsAlways, PTL DEF Spec, SeatsNeverOversold

\* Only an administrator, or a check that goes by an older limit, takes a seat
\* away from a machine.
THEOREM SeatsStay == Spec => SeatsAreKept
<1> DEFINE Taken == \/ edited' = now /\ edits' # edits
                    \/ \E k \in Workers : worker'[k] # worker[k] /\ UsesOldLimit(k)
           Kept(m) == MayRun(m) /\ ~MayRun(m)' => Taken
<1>1. ASSUME SeatsInv, [Next]_vars, NEW m \in Machines
      PROVE  Kept(m)
  <2> USE <1>1
  <2> SUFFICES ASSUME MayRun(m), ~MayRun(m)' PROVE Taken
    OBVIOUS
  <2>1. ~(devices' = devices /\ max_devices' = max_devices)
    BY SameMayRun
  <2>2. edits \in Nat
    BY DEF SeatsInv, Typed
  <2>3. CASE \E k \in Workers : Check(k)
    <3>1. PICK k \in Workers : Activate(k)
      BY <2>1, <2>3, RefuseSeats DEF Check, FindDevice, Conflict
    <3>2. UsesOldLimit(k)
      <4>1. PICK n : n = worker[k].machine
        OBVIOUS
      <4> QED
        BY <3>1, <4>1, SeatsAfterAnswer
    <3>3. worker'[k] = Idle /\ worker[k].pc = "device"
      BY <3>1 DEF Activate, Ready, At, SeatsInv, Typed
    <3> QED
      BY <3>2, <3>3 DEF Idle
  <2>4. CASE ~\E k \in Workers : Check(k)
    <3>1. edited' = now /\ edits' = edits + 1
      BY <2>1, <2>4 DEF Next, FindCustomer, set_customer_max_devices, set_device_blocked,
                        block_all_customer_devices, SetCoverage, Tick, Edit, vars
    <3> QED
      BY <2>2, <3>1
  <2> QED
    BY <2>3, <2>4
<1>2. SeatsInv /\ [Next]_vars => [\A m \in Machines : Kept(m)]_vars
  BY <1>1
<1> QED
  BY <1>2, SeatsAlways, PTL DEF Spec, SeatsAreKept
=============================================================================
