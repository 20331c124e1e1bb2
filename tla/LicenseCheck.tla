---------------------------- MODULE LicenseCheck ----------------------------
(***************************************************************************)
(* check_license and check_nt8_license for one customer: which machines    *)
(* hold the customer's seats, and which signed leases are out.             *)
(*                                                                         *)
(* A check reads the customer and looks for the machine outside any        *)
(* transaction; its first write takes SQLite's write lock, and everything  *)
(* from there on (count, decision, mark, lease) is one transaction.        *)
(*                                                                         *)
(*   FindCustomer, FindDevice   the reads before the lock                  *)
(*   Decide                     the transaction, with its answer           *)
(*   Conflict                   the row was inserted by another check      *)
(*                                                                         *)
(* Meanwhile administrators block machines and change limits, and webhooks *)
(* and administrators change what the customer has coverage for.           *)
(***************************************************************************)
EXTENDS Integers, FiniteSets

CONSTANTS
  NULL,          \* SQL NULL
  Workers,       \* requests served at the same time
  Machines,      \* machine fingerprints
  Clients,       \* the clients in use, of "trader" and "nt8"
  Products,      \* licensed products
  TraderEnabled, \* products.trader_enabled
  Nt8Enabled,    \* products.nt8_enabled, with an nt8_strategy_key
  DefaultMax,    \* AUTOEDGE_TRADER_MAX_DEVICES
  Overrides,     \* the values an administrator may give customers.max_devices
  Grace,         \* grace_period_seconds
  Ends,          \* the ends coverage may be given
  MaxNow,        \* bound: last second
  MaxEdits       \* bound: changes of limits, blocks and coverage

ASSUME LicenseAssumption ==
  /\ NULL \notin Nat
  /\ NULL \notin Machines /\ NULL \notin Products /\ NULL \notin Workers
  /\ Clients \subseteq {"trader", "nt8"} /\ NULL \notin Clients
  /\ TraderEnabled \subseteq Products /\ Nt8Enabled \subseteq Products
  /\ DefaultMax \in Int /\ Overrides \subseteq (Nat \ {0}) \cup {NULL}
  /\ Grace \in Nat /\ Ends \subseteq Nat \cup {NULL}
  /\ MaxNow \in Nat /\ MaxEdits \in Nat

VARIABLES
  now,         \* the second
  max_devices, \* customers.max_devices
  devices,     \* rows of devices, NULL where there is none
  coverage,    \* when the best grant of each product ends; NULL: never
  worker,      \* what each check has read
  leases,      \* leases that have not expired
  activated,   \* history: machines that have had an active answer
  edited,      \* history: second of the last change of limits or blocks, or of
               \* the last active answer under a limit that had been changed
  changed,     \* history: second of the last change of coverage
  edits        \* bound

vars == <<now, max_devices, devices, coverage, worker, leases, activated,
          edited, changed, edits>>

Enabled(client) == IF client = "trader" THEN TraderEnabled ELSE Nt8Enabled

Idle == [pc |-> "idle", machine |-> NULL, client |-> NULL, strategy |-> NULL,
         max |-> NULL, seen |-> NULL, exists |-> FALSE]

At(k, pc) == worker[k].pc = pc

-----------------------------------------------------------------------------
(* Seats *)

AtLeastOne(n) == IF n < 1 THEN 1 ELSE n

_effective_max_devices(override) ==
  AtLeastOne(IF override = NULL THEN DefaultMax ELSE override)

Counted(rows) ==
  {m \in Machines : rows[m] # NULL /\ ~rows[m].is_blocked /\ rows[m].first_licensed_at # NULL}

\* ORDER BY first_licensed_at, first_seen_at, rowid.
Before(rows, m, n) ==
  LET a == rows[m]
      b == rows[n]
  IN  \/ a.first_licensed_at < b.first_licensed_at
      \/ /\ a.first_licensed_at = b.first_licensed_at
         /\ \/ a.first_seen_at < b.first_seen_at
            \/ a.first_seen_at = b.first_seen_at /\ a.rowid < b.rowid

_device_is_within_active_limit(rows, m, max) ==
  /\ m \in Counted(rows)
  /\ Cardinality({n \in Counted(rows) : Before(rows, n, m)}) < max

\* Error to be caught: one machine too many.
OverLimitBeyond(rows, m, max) ==
  IF m \in Counted(rows) THEN ~_device_is_within_active_limit(rows, m, max)
  ELSE Cardinality(Counted(rows)) > max

\* Error to be caught: the limit is enforced on new machines only.
OverLimitNewOnly(rows, m, max) ==
  m \notin Counted(rows) /\ Cardinality(Counted(rows)) >= max

\* A new machine needs a free seat, one that has a seat must be early enough.
OverLimit(rows, m, max) ==
  IF m \in Counted(rows) THEN ~_device_is_within_active_limit(rows, m, max)
  ELSE Cardinality(Counted(rows)) >= max

-----------------------------------------------------------------------------
(* Coverage and leases *)

Licensed(p) == coverage[p] = NULL \/ coverage[p] > now

LicensedFor(client) == {p \in Enabled(client) : Licensed(p)}

\* Error to be caught: a lease lasts for the grace period, whatever it covers.
TraderLeaseGrace == {now + Grace}

\* _issue_trader_license_lease: grace, or the first end of a licensed product.
TraderLease ==
  LET bounds == {now + Grace} \cup {coverage[p] : p \in {q \in LicensedFor("trader") : coverage[q] # NULL}}
  IN  {exp \in bounds : \A b \in bounds : exp <= b}

\* check_nt8_license: grace from the moment of the answer.
Nt8Lease == {now + Grace}

\* No lease that ends at once, none for a strategy that is not licensed.
NewLeases(m, client, strategy) ==
  {[machine |-> m, client |-> client, features |-> LicensedFor(client), exp |-> exp] :
     exp \in {e \in IF client = "trader" THEN TraderLease ELSE Nt8Lease :
               e > now /\ strategy \in LicensedFor(client) \cup {NULL}}}

-----------------------------------------------------------------------------
(* One check *)

\* _find_customer; the row it returns is used to the end of the check.
FindCustomer(k, m, client, strategy) ==
  /\ At(k, "idle")
  /\ strategy = NULL \/ client = "nt8"
  /\ worker' = [worker EXCEPT ![k] =
                  [Idle EXCEPT !.pc = "customer", !.machine = m, !.client = client,
                               !.strategy = strategy,
                               !.max = _effective_max_devices(max_devices)]]
  /\ UNCHANGED <<now, max_devices, devices, coverage, leases, activated, edited, changed, edits>>

\* _upsert_device up to its first write.
FindDevice(k) ==
  /\ At(k, "customer")
  /\ worker' = [worker EXCEPT ![k] =
                  [@ EXCEPT !.pc = "device", !.seen = now,
                            !.exists = devices[worker[k].machine] # NULL]]
  /\ UNCHANGED <<now, max_devices, devices, coverage, leases, activated, edited, changed, edits>>

Rows == {m \in Machines : devices[m] # NULL}

\* The rows once the machine's is inserted or updated.
Upserted(k) ==
  IF worker[k].exists THEN devices
  ELSE [devices EXCEPT ![worker[k].machine] =
          [is_blocked |-> FALSE, first_seen_at |-> worker[k].seen,
           first_licensed_at |-> NULL, rowid |-> Cardinality(Rows) + 1]]

\* Error to be caught: the first licensing is forgotten.
MarkedAgain(rows, m) == [rows EXCEPT ![m].first_licensed_at = now]

\* _mark_device_licensed
Marked(rows, m) ==
  [rows EXCEPT ![m].first_licensed_at = IF @ = NULL THEN now ELSE @]

\* Another check has inserted the machine since it was looked for: the insert
\* breaks UNIQUE(customer_id, fingerprint_hash) and the request fails.
Conflict(k) ==
  /\ At(k, "device")
  /\ ~worker[k].exists /\ devices[worker[k].machine] # NULL
  /\ worker' = [worker EXCEPT ![k] = Idle]
  /\ UNCHANGED <<now, max_devices, devices, coverage, leases, activated, edited, changed, edits>>

Allowed(k) ==
  LET m    == worker[k].machine
      rows == Upserted(k)
  IN  /\ ~rows[m].is_blocked
      /\ LicensedFor(worker[k].client) # {}
      /\ ~OverLimit(rows, m, worker[k].max)

\* Error to be caught: a row inserted meanwhile is replaced.
ReadyAnyway(k) == At(k, "device")

Ready(k) == At(k, "device") /\ (worker[k].exists \/ devices[worker[k].machine] = NULL)

\* device_blocked, device_limit_exceeded, or no coverage: the machine is
\* recorded all the same.
Refuse(k) ==
  /\ Ready(k) /\ ~Allowed(k)
  /\ devices' = Upserted(k)
  /\ worker' = [worker EXCEPT ![k] = Idle]
  /\ UNCHANGED <<now, max_devices, coverage, leases, activated, edited, changed, edits>>

\* The limit was changed after the check had read it.
UsesOldLimit(k) == worker[k].max # _effective_max_devices(max_devices)

\* The machine takes a seat, or keeps it, and is given a lease.  NT8 may ask
\* for a strategy that is not licensed: its answer is unlicensed_strategy, and
\* the machine was marked before that was looked at.
Activate(k) ==
  LET m   == worker[k].machine
      new == NewLeases(m, worker[k].client, worker[k].strategy)
  IN  /\ Ready(k) /\ Allowed(k)
      /\ devices' = Marked(Upserted(k), m)
      /\ leases' = leases \cup new
      /\ activated' = IF worker[k].strategy \in LicensedFor(worker[k].client) \cup {NULL}
                      THEN activated \cup {m} ELSE activated
      /\ edited' = IF UsesOldLimit(k) THEN now ELSE edited
      /\ worker' = [worker EXCEPT ![k] = Idle]
      /\ UNCHANGED <<now, max_devices, coverage, changed, edits>>

-----------------------------------------------------------------------------
(* Administrators, webhooks and time; each request needs a free worker *)

ServerFree == \E k \in Workers : At(k, "idle")

Edit == ServerFree /\ edits < MaxEdits /\ edits' = edits + 1

set_customer_max_devices(max) ==
  /\ Edit
  /\ max_devices' = max /\ edited' = now
  /\ UNCHANGED <<now, devices, coverage, worker, leases, activated, changed>>

set_device_blocked(m, is_blocked) ==
  /\ Edit /\ devices[m] # NULL
  /\ devices' = [devices EXCEPT ![m].is_blocked = is_blocked]
  /\ edited' = now
  /\ UNCHANGED <<now, max_devices, coverage, worker, leases, activated, changed>>

block_all_customer_devices ==
  /\ Edit
  /\ devices' = [m \in Machines |->
                   IF devices[m] = NULL THEN NULL ELSE [devices[m] EXCEPT !.is_blocked = TRUE]]
  /\ edited' = now
  /\ UNCHANGED <<now, max_devices, coverage, worker, leases, activated, changed>>

\* manual_set_entitlement, remove_entitlement or a webhook: the best grant of
\* a product ends earlier or later than before.
SetCoverage(p, end) ==
  /\ Edit /\ coverage[p] # end
  /\ coverage' = [coverage EXCEPT ![p] = end]
  /\ changed' = now
  /\ UNCHANGED <<now, max_devices, devices, worker, leases, activated, edited>>

\* Leases run out by themselves.
Tick ==
  /\ now < MaxNow
  /\ now' = now + 1
  /\ leases' = {l \in leases : l.exp > now'}
  /\ UNCHANGED <<max_devices, devices, coverage, worker, activated, edited, changed, edits>>

-----------------------------------------------------------------------------
Init ==
  /\ now = 0
  /\ max_devices = NULL
  /\ devices = [m \in Machines |-> NULL]
  /\ coverage \in [Products -> Ends]
  /\ worker = [k \in Workers |-> Idle]
  /\ leases = {} /\ activated = {}
  /\ edited = NULL /\ changed = NULL /\ edits = 0

Check(k) == FindDevice(k) \/ Conflict(k) \/ Refuse(k) \/ Activate(k)

Next ==
  \/ \E k \in Workers, m \in Machines, client \in Clients, strategy \in Products \cup {NULL} :
       FindCustomer(k, m, client, strategy)
  \/ \E k \in Workers : Check(k)
  \/ \E max \in Overrides : set_customer_max_devices(max)
  \/ \E m \in Machines, is_blocked \in BOOLEAN : set_device_blocked(m, is_blocked)
  \/ block_all_customer_devices
  \/ \E p \in Products, end \in Ends : SetCoverage(p, end)
  \/ Tick

Spec == Init /\ [][Next]_vars

-----------------------------------------------------------------------------
(* Types *)

DeviceRow == [is_blocked : BOOLEAN, first_seen_at : Nat,
              first_licensed_at : Nat \cup {NULL}, rowid : Nat \ {0}]

\* A query that finds no row answers None.
ASSUME RowAssumption == NULL \notin DeviceRow

WorkerState ==
  [pc : {"idle", "customer", "device"}, machine : Machines \cup {NULL},
   client : Clients \cup {NULL}, strategy : Products \cup {NULL},
   max : (Nat \ {0}) \cup {NULL}, seen : Nat \cup {NULL}, exists : BOOLEAN]

Lease == [machine : Machines, client : Clients, features : SUBSET Products, exp : Nat]

\* Rows of devices are well formed and ordered by a rowid of their own, and a
\* machine is first licensed no earlier than it is first seen.
TypeOK ==
  /\ now \in Nat
  /\ max_devices \in (Nat \ {0}) \cup {NULL}
  /\ devices \in [Machines -> DeviceRow \cup {NULL}]
  /\ \A m, n \in Rows : devices[m].rowid = devices[n].rowid => m = n
  /\ \A m \in Counted(devices) : devices[m].first_seen_at <= devices[m].first_licensed_at
  /\ coverage \in [Products -> Nat \cup {NULL}]
  /\ worker \in [Workers -> WorkerState]
  /\ leases \subseteq Lease
  /\ activated \subseteq Machines
  /\ edited \in Nat \cup {NULL} /\ changed \in Nat \cup {NULL} /\ edits \in Nat

-----------------------------------------------------------------------------
(* What the checks promise *)

Limit == _effective_max_devices(max_devices)

MayRun(m) == _device_is_within_active_limit(devices, m, Limit)

\* Two machines cannot both take the last seat: a check that adds a machine
\* leaves no more of them than the limit it read, however checks and edits
\* interleave (the count is read under the write lock, the limit before it).
SeatsNeverOversold ==
  [][\A k \in Workers :
       /\ At(k, "device") /\ At(k, "idle")'
       /\ Counted(devices') # Counted(devices)
       => Cardinality(Counted(devices')) <= worker[k].max]_vars

\* A machine that may run loses its seat to an administrator only, or to a
\* check that had read the limit before an administrator lowered it: never to
\* another machine's check alone, whatever the order in which machines were
\* first seen and licensed.
SeatsAreKept ==
  [][\A m \in Machines :
       MayRun(m) /\ ~MayRun(m)' =>
         \/ edited' = now /\ edits' # edits
         \/ \E k \in Workers : worker'[k] # worker[k] /\ UsesOldLimit(k)]_vars

\* project-memory, Device Limits; README, Notes: lowering a limit and blocking
\* a machine are enforced on the next check.  A lease handed out before gives
\* a machine at most the grace period after the last such change, or after
\* the last check that was under way then.
SeatsEndWithinGrace ==
  \A l \in leases : MayRun(l.machine) \/ (edited # NULL /\ now < edited + Grace)

\* es256-protection: a lease ends with the grace period or with the first
\* feature it names.  A TraderPro lease that is out names a feature that is
\* no longer covered only within the grace period after coverage was changed:
\* coverage that merely ends takes every lease with it.
LeasesEndWithCoverage ==
  \A l \in leases :
    l.client = "trader" =>
      \/ \A p \in l.features : Licensed(p)
      \/ changed # NULL /\ now < changed + Grace

\* README, Notes: devices are counted only after a successful active license
\* check.
CountedWereActive == Counted(devices) \subseteq activated
=============================================================================
