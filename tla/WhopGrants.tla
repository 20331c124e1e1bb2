----------------------------- MODULE WhopGrants -----------------------------
(***************************************************************************)
(* POST /api/whop/entitlements: how a Whop webhook becomes licensed        *)
(* coverage.  One request runs five database sessions, and the process can *)
(* crash, or a session can raise, between any two of them; Whop delivers   *)
(* an event again until it is answered, in any order and more than once.   *)
(*                                                                         *)
(*   Lookup, RecordReceived    webhook_events: duplicate, or 'received'    *)
(*   FindMapping               which package or product the event is about *)
(*   EnsureCustomer            create_or_update_customer                   *)
(*   ApplyPackage, ApplyDirect BEGIN IMMEDIATE: subscription, rows, ledger *)
(*   MarkProcessed, MarkFailed webhook_events: the outcome                 *)
(*                                                                         *)
(* Meanwhile administrators save packages and remove rows.                 *)
(***************************************************************************)
EXTENDS WhopEvents, FiniteSets

CONSTANTS
  InitCustomers,  \* the customers of the start, with their identifiers
  Workers,        \* requests served at the same time
  PackageConfigs, \* the ways an administrator may save a package
  InitPackages,   \* the packages of the start, a function on WhopIds
  DirectProduct,  \* products.whop_product_id, a function on WhopIds
  MaxNow,         \* bound: last day
  MaxFaults,      \* bound: crashes and raised exceptions
  MaxEdits        \* bound: administrator actions

\* A row of whop_packages with its whop_package_grants, days by product.
IsPackage(cfg) ==
  \E ps \in SUBSET Products :
    cfg \in [is_active : BOOLEAN, is_ignored : BOOLEAN,
            default_days : MaybeTime, grants : [ps -> MaybeTime]]

\* upsert_whop_package: a licensing package has days for every grant.
ValidPackage(cfg) ==
  cfg.is_ignored \/ cfg.default_days # NULL \/ \A p \in DOMAIN cfg.grants : cfg.grants[p] # NULL

\* A row of entitlements.
Row == [customer : Customers, product : Products, status : EntitlementStatuses,
        starts : Time, expires : MaybeTime, revoked : BOOLEAN]

\* A row of subscriptions.
SubscriptionRow ==
  [customer : Customers,
   status : {"active", "trialing", "expired", "revoked", "suspended", "past_due", "unknown"},
   start : MaybeTime, end : MaybeTime]

ASSUME PackagesAssumption ==
  /\ NULL \notin Workers /\ NULL \notin PackageConfigs
  /\ NULL \notin Row /\ NULL \notin SubscriptionRow
  /\ NULL \notin {"received", "processed", "failed"}
  /\ MaxNow \in Nat /\ MaxFaults \in Nat /\ MaxEdits \in Nat
  /\ \A cfg \in PackageConfigs : IsPackage(cfg) /\ ValidPackage(cfg)
  /\ InitPackages \in [WhopIds -> PackageConfigs \cup {NULL}]
  /\ DirectProduct \in [WhopIds -> Products \cup {NULL}]

VARIABLES
  now,             \* the day
  webhook_events,  \* status of each webhook id, NULL when it has no row
  customers,       \* customers with a row
  packages,        \* whop_packages and their grants, by whop_id
  subscriptions,   \* subscriptions by whop_membership_id
  entitlements,    \* entitlements with source 'whop', by key
  ledger,          \* license_grant_ledger
  worker,          \* what each request has read and where it stands
  acked,           \* events Whop has had a 2xx answer for
  applied,         \* history: day an event's effect was first committed
  faults, edits    \* bounds

vars == <<now, webhook_events, customers, packages, subscriptions,
          entitlements, ledger, worker, acked, applied, faults, edits>>

\* Who has a row keeps the identifiers of the start; CustomerIdentity says how
\* rows come by them.  An event with identifiers of several customers is one
\* about rows of the start.
ASSUME CustomersAssumption ==
  /\ InitCustomers \subseteq Customers
  /\ \A w \in WebhookIds :
       /\ Event[w].customer \notin Event[w].also
       /\ Event[w].also # {} => {Event[w].customer} \cup Event[w].also \subseteq InitCustomers

-----------------------------------------------------------------------------
(* Rows *)

\* Unique index (source, external_id, package_id) of migration 013.
PackageKey(w, pkg, prod) == <<PackageRoot(w, pkg), pkg, prod>>
DirectKey(w)             == <<DirectRoot(w), NULL, NULL>>

Keys == {PackageKey(w, pkg, prod) : w \in WebhookIds, pkg \in WhopIds, prod \in Products}
          \cup {DirectKey(w) : w \in WebhookIds}

Idle == [pc |-> "idle", event |-> NULL, plan |-> NULL, package |-> NULL, product |-> NULL]

At(k, pc) == worker[k].pc = pc

Goto(k, pc) == worker' = [worker EXCEPT ![k].pc = pc]

-----------------------------------------------------------------------------
(* process_whop_event, first session *)

\* Error to be caught: an event that is being processed is refused.
LookupRefusing(k, w) ==
  /\ At(k, "idle") /\ webhook_events[w] # "received"
  /\ worker' = [worker EXCEPT ![k] = [Idle EXCEPT !.pc = "new", !.event = w]]
  /\ UNCHANGED <<now, webhook_events, customers, packages, subscriptions,
                 entitlements, ledger, acked, applied, faults, edits>>

\* A delivery arrives and its id is looked up; a processed one is answered.
Lookup(k, w) ==
  /\ At(k, "idle")
  /\ IF webhook_events[w] = "processed"
     THEN /\ acked' = acked \cup {w}
          /\ UNCHANGED worker
     ELSE /\ worker' = [worker EXCEPT ![k] = [Idle EXCEPT !.pc = "new", !.event = w]]
          /\ UNCHANGED acked
  /\ UNCHANGED <<now, webhook_events, customers, packages, subscriptions,
                 entitlements, ledger, applied, faults, edits>>

\* Error to be caught: the event is marked before its effect is committed.
RecordProcessed(k) ==
  /\ At(k, "new")
  /\ webhook_events' = [webhook_events EXCEPT ![worker[k].event] = "processed"]
  /\ Goto(k, "received")
  /\ UNCHANGED <<now, customers, packages, subscriptions, entitlements,
                 ledger, acked, applied, faults, edits>>

RecordReceived(k) ==
  /\ At(k, "new")
  /\ webhook_events' = [webhook_events EXCEPT ![worker[k].event] = "received"]
  /\ Goto(k, "received")
  /\ UNCHANGED <<now, customers, packages, subscriptions, entitlements,
                 ledger, acked, applied, faults, edits>>

-----------------------------------------------------------------------------
(* _upsert_whop_entitlement, second session *)

\* The plan is looked for before the product, for packages ...
FindPackage(e) ==
  IF e.plan # NULL /\ packages[e.plan] # NULL THEN e.plan
  ELSE IF e.product # NULL /\ packages[e.product] # NULL THEN e.product
  ELSE NULL

\* ... and the product before the plan, for direct products.
FindProduct(e) ==
  IF e.product # NULL /\ DirectProduct[e.product] # NULL THEN DirectProduct[e.product]
  ELSE IF e.plan # NULL THEN DirectProduct[e.plan]
  ELSE NULL

FirstApplied(w) == [applied EXCEPT ![w] = OrElse(@, now)]

\* An unmapped event is audited and has no other effect.
FindMapping(k) ==
  LET w    == worker[k].event
      pkg  == FindPackage(Event[w])
      prod == FindProduct(Event[w])
  IN  /\ At(k, "received")
      /\ \/ /\ pkg # NULL
            /\ worker' = [worker EXCEPT ![k] = [@ EXCEPT !.pc = "mapped", !.plan = pkg,
                                                         !.package = packages[pkg]]]
            /\ UNCHANGED applied
         \/ /\ pkg = NULL /\ prod # NULL
            /\ worker' = [worker EXCEPT ![k] = [@ EXCEPT !.pc = "mapped", !.product = prod]]
            /\ UNCHANGED applied
         \/ /\ pkg = NULL /\ prod = NULL
            /\ Goto(k, "done")
            /\ applied' = FirstApplied(w)
      /\ UNCHANGED <<now, webhook_events, customers, packages, subscriptions,
                     entitlements, ledger, acked, faults, edits>>

\* The row that is found would be given an identifier of another row.
Clash(e) == e.also \cap customers # {}

\* Third session: create_or_update_customer.  An event with identifiers of two
\* customers fails on the UNIQUE columns, and every time it is sent again.
EnsureCustomer(k) ==
  LET e == Event[worker[k].event]
  IN  /\ At(k, "mapped")
      /\ \/ ~Clash(e) /\ customers' = customers \cup {e.customer} /\ Goto(k, "customer")
         \/ Clash(e) /\ UNCHANGED customers /\ Goto(k, "raised")
      /\ UNCHANGED <<now, webhook_events, packages, subscriptions, entitlements,
                     ledger, acked, applied, faults, edits>>

-----------------------------------------------------------------------------
(* Fourth session, BEGIN IMMEDIATE: one serialized write transaction *)

\* Error to be caught: the last event applied wins.
SubscriptionOverwritten(e, old) ==
  [customer |-> e.customer, status |-> normalize_subscription_status(e.raw, e.event),
   start |-> e.start, end |-> e.end]

\* _upsert_whop_subscription: dates only move forward, and an expiration that
\* a later known period contradicts leaves the status alone.
UpdatedSubscription(e, old) ==
  LET status == normalize_subscription_status(e.raw, e.event)
      stale  == /\ status = "expired" /\ old.end # NULL
                /\ IF e.end = NULL THEN old.end > now ELSE e.end < old.end
  IN  IF old = NULL
      THEN [customer |-> e.customer, status |-> status, start |-> e.start, end |-> e.end]
      ELSE [customer |-> e.customer,
            status   |-> IF stale THEN old.status ELSE status,
            start    |-> later_time(old.start, e.start),
            end      |-> later_time(old.end, e.end)]

UpsertSubscription(e) ==
  subscriptions' =
    IF e.membership = NULL THEN subscriptions
    ELSE [subscriptions EXCEPT ![e.membership] = UpdatedSubscription(e, @)]

Expiry(r) == IF r = NULL THEN NULL ELSE r.expires

\* Error to be caught: the date of the last event applied wins.
ReachLatest(r, target) == OrElse(target, Expiry(r))

\* Coverage never moves back, and a row without expiry keeps none.
Reach(r, target) ==
  IF r # NULL /\ r.expires = NULL THEN NULL ELSE later_time(Expiry(r), target)

\* Error to be caught: as much coverage as before counts as more.
ExtendsOrMeets(r, target) ==
  r = NULL \/ (r.expires # NULL /\ target # NULL /\ target >= r.expires)

Extends(r, target) ==
  r = NULL \/ (r.expires # NULL /\ target # NULL /\ target > r.expires)

StartsAt(r, e) ==
  LET starts == OrElse(earlier_time(IF r = NULL THEN NULL ELSE r.starts, e.start), now)
  IN  IF IsPaid(GrantKind(e)) THEN earlier_time(starts, now) ELSE starts

Outcome(status, expires, revoked) ==
  [status |-> status, expires |-> expires, revoked |-> revoked]

\* Error to be caught: every grant lifts a revocation or suspension.
GrantedAnyway(r, e, target) ==
  Outcome(normalize_entitlement_status(e.raw, e.event), Reach(r, target), FALSE)

\* Trial, paid, renewal: only more coverage lifts a revocation or suspension.
Granted(r, e, target) ==
  IF r # NULL /\ r.status \in {"revoked", "suspended"} /\ ~Extends(r, target)
  THEN Outcome(r.status, Reach(r, target), r.revoked)
  ELSE Outcome(IF r # NULL /\ r.status = "active" /\ GrantKind(e) = "trial"
               THEN "active" ELSE normalize_entitlement_status(e.raw, e.event),
               Reach(r, target), FALSE)

\* Expiration: nothing changes while coverage lasts, except that a row which
\* had been marked expired before its date is active again.
Lapsed(r, kept, dated) ==
  IF r # NULL /\ (r.expires = NULL \/ r.expires > now)
  THEN Outcome(IF r.status = "expired" /\ ~r.revoked THEN "active" ELSE r.status,
               kept, r.revoked)
  ELSE Outcome("expired", OrElse(OrElse(Expiry(r), dated), now), FALSE)

\* kept is the expiry a row keeps when nothing is granted, dated the expiry a
\* row without one is given by an expiration or a suspension.
NewOutcome(r, e, target, kept, dated) ==
  LET kind == GrantKind(e)
  IN  IF IsGrant(kind)          THEN Granted(r, e, target)
      ELSE IF kind = "revoke"   THEN Outcome("revoked", kept, TRUE)
      ELSE IF kind = "expire"   THEN Lapsed(r, kept, dated)
      ELSE Outcome("suspended", OrElse(Expiry(r), dated), FALSE)

NewRow(r, e, prod, outcome) ==
  [customer |-> e.customer, product |-> prod, status |-> outcome.status,
   starts |-> StartsAt(r, e), expires |-> outcome.expires, revoked |-> outcome.revoked]

DirectRow(r, e, prod) ==
  LET target == entitlement_expiry_target(e, NULL, now)
      kept   == Reach(r, target)
  IN  IF GrantKind(e) = "ignored" THEN r
      ELSE NewRow(r, e, prod, NewOutcome(r, e, target, kept, kept))

PackageRow(r, e, prod, days) ==
  LET target == GrantTarget(e, Expiry(r), days, now)
  IN  NewRow(r, e, prod,
             NewOutcome(r, e, target, IF r = NULL THEN target ELSE r.expires, target))

FingerprintKnown(w, pkg, prod) ==
  \E l \in ledger : l.event_fingerprint = GrantFingerprint(w, pkg, prod)

\* Error to be caught: only fingerprints are compared.
PeriodsNotCompared(e, pkg, prod) == FALSE

PaidPeriodDuplicate(e, pkg, prod) ==
  /\ IsPaid(GrantKind(e)) /\ e.membership # NULL /\ e.start # NULL
  /\ \E l \in ledger : /\ l.customer = e.customer /\ l.package = pkg /\ l.product = prod
                       /\ l.subscription = e.membership /\ l.period_start = e.start
                       /\ IsPaid(l.grant_kind) /\ l.days_applied > 0

\* Error to be caught: only periods are compared.
DuplicatePeriodOnly(w, pkg, prod) == PaidPeriodDuplicate(Event[w], pkg, prod)

\* Granted already: by the same payment, trial or period.
Duplicate(w, pkg, prod) ==
  FingerprintKnown(w, pkg, prod) \/ PaidPeriodDuplicate(Event[w], pkg, prod)

\* The grants that leave row and ledger alone.
Suppressed(w, pkg, prod, r, days) ==
  LET e      == Event[w]
      target == GrantTarget(e, Expiry(r), days, now)
  IN  \/ GrantKind(e) = "ignored"
      \/ /\ IsGrant(GrantKind(e)) /\ Duplicate(w, pkg, prod)
         /\ RelativeDays(e, days) \/ r = NULL \/ ~Extends(r, target)

DaysApplied(w, pkg, prod, r, days) ==
  LET e      == Event[w]
      target == GrantTarget(e, Expiry(r), days, now)
      after  == Reach(r, target)
  IN  IF ~IsGrant(GrantKind(e)) \/ Duplicate(w, pkg, prod) \/ ~Extends(r, target) THEN 0
      ELSE IF GrantKind(e) = "trial" /\ after # NULL THEN ceil_days(after - now)
      ELSE OrElse(days, 0)

LedgerEntry(w, pkg, prod, r, days) ==
  [event_fingerprint |-> GrantFingerprint(w, pkg, prod),
   customer          |-> Event[w].customer,
   package           |-> pkg,
   product           |-> prod,
   subscription      |-> Event[w].membership,
   grant_kind        |-> GrantKind(Event[w]),
   period_start      |-> Event[w].start,
   days_applied      |-> DaysApplied(w, pkg, prod, r, days)]

\* The package row is the one FindMapping read; its grants are read here.
ApplyPackage(k) ==
  LET w       == worker[k].event
      pkg     == worker[k].plan
      read    == worker[k].package
      grants  == packages[pkg].grants
      granted == IF read.is_active /\ ~read.is_ignored THEN DOMAIN grants ELSE {}
      Days(p) == IF grants[p] # NULL THEN grants[p] ELSE read.default_days
      RowOf(p) == entitlements[PackageKey(w, pkg, p)]
      done    == {p \in granted : ~Suppressed(w, pkg, p, RowOf(p), Days(p))}
  IN  /\ At(k, "customer") /\ pkg # NULL
      /\ UpsertSubscription(Event[w])
      /\ entitlements' = [key \in Keys |->
           IF \E p \in done : key = PackageKey(w, pkg, p)
           THEN PackageRow(entitlements[key], Event[w], key[3], Days(key[3]))
           ELSE entitlements[key]]
      /\ ledger' = ledger \cup
           {LedgerEntry(w, pkg, p, RowOf(p), Days(p)) :
              p \in {q \in done : ~FingerprintKnown(w, pkg, q)}}
      /\ applied' = FirstApplied(w)
      /\ Goto(k, "done")
      /\ UNCHANGED <<now, webhook_events, customers, packages, acked, faults, edits>>

ApplyDirect(k) ==
  LET w == worker[k].event
  IN  /\ At(k, "customer") /\ worker[k].plan = NULL
      /\ UpsertSubscription(Event[w])
      /\ entitlements' = [entitlements EXCEPT ![DirectKey(w)] =
                            DirectRow(@, Event[w], worker[k].product)]
      /\ applied' = FirstApplied(w)
      /\ Goto(k, "done")
      /\ UNCHANGED <<now, webhook_events, customers, packages, ledger,
                     acked, faults, edits>>

-----------------------------------------------------------------------------
(* process_whop_event, last session *)

Finish(k) == worker' = [worker EXCEPT ![k] = Idle]

MarkProcessed(k) ==
  /\ At(k, "done")
  /\ webhook_events' = [webhook_events EXCEPT ![worker[k].event] = "processed"]
  /\ acked' = acked \cup {worker[k].event}
  /\ Finish(k)
  /\ UNCHANGED <<now, customers, packages, subscriptions, entitlements,
                 ledger, applied, faults, edits>>

\* A session of _upsert_whop_entitlement raises and is rolled back ...
Raise(k) ==
  /\ worker[k].pc \in {"received", "mapped", "customer"}
  /\ faults < MaxFaults
  /\ faults' = faults + 1
  /\ Goto(k, "raised")
  /\ UNCHANGED <<now, webhook_events, customers, packages, subscriptions,
                 entitlements, ledger, acked, applied, edits>>

\* ... and the event is marked; Whop gets a 500.
MarkFailed(k) ==
  /\ At(k, "raised")
  /\ webhook_events' = [webhook_events EXCEPT ![worker[k].event] = "failed"]
  /\ Finish(k)
  /\ UNCHANGED <<now, customers, packages, subscriptions, entitlements,
                 ledger, acked, applied, faults, edits>>

\* One of the sessions on webhook_events raises: no answer, nothing marked.
Abort(k) ==
  /\ worker[k].pc \in {"new", "done", "raised"}
  /\ faults < MaxFaults
  /\ faults' = faults + 1
  /\ Finish(k)
  /\ UNCHANGED <<now, webhook_events, customers, packages, subscriptions,
                 entitlements, ledger, acked, applied, edits>>

\* The process dies and systemd restarts it.
Crash ==
  /\ \E k \in Workers : worker[k] # Idle
  /\ faults < MaxFaults
  /\ faults' = faults + 1
  /\ worker' = [k \in Workers |-> Idle]
  /\ UNCHANGED <<now, webhook_events, customers, packages, subscriptions,
                 entitlements, ledger, acked, applied, edits>>

-----------------------------------------------------------------------------
(* Administrators, and time *)

\* Error to be caught: an administrator's request is served at any time.
ServerFreeAnyway == TRUE

\* An administrator's request needs a free worker like any other: with one
\* worker it never falls between the sessions of a webhook.
ServerFree == \E k \in Workers : At(k, "idle")

\* upsert_whop_package: the row and all its grants are replaced.
SavePackage(pkg, cfg) ==
  /\ ServerFree /\ edits < MaxEdits
  /\ edits' = edits + 1
  /\ packages' = [packages EXCEPT ![pkg] = cfg]
  /\ UNCHANGED <<now, webhook_events, customers, subscriptions, entitlements,
                 ledger, worker, acked, applied, faults>>

remove_entitlement(key) ==
  /\ ServerFree /\ edits < MaxEdits /\ entitlements[key] # NULL
  /\ edits' = edits + 1
  /\ entitlements' = [entitlements EXCEPT ![key] = NULL]
  /\ UNCHANGED <<now, webhook_events, customers, packages, subscriptions,
                 ledger, worker, acked, applied, faults>>

Tick ==
  /\ now < MaxNow
  /\ now' = now + 1
  /\ UNCHANGED <<webhook_events, customers, packages, subscriptions, entitlements,
                 ledger, worker, acked, applied, faults, edits>>

-----------------------------------------------------------------------------
Init ==
  /\ now = 0
  /\ webhook_events = [w \in WebhookIds |-> NULL]
  /\ customers = InitCustomers
  /\ packages = InitPackages
  /\ subscriptions = [m \in Ids |-> NULL]
  /\ entitlements = [key \in Keys |-> NULL]
  /\ ledger = {}
  /\ worker = [k \in Workers |-> Idle]
  /\ acked = {}
  /\ applied = [w \in WebhookIds |-> NULL]
  /\ faults = 0 /\ edits = 0

Step(k) ==
  \/ RecordReceived(k) \/ FindMapping(k) \/ EnsureCustomer(k)
  \/ ApplyPackage(k) \/ ApplyDirect(k) \/ MarkProcessed(k) \/ MarkFailed(k)

Next ==
  \/ \E k \in Workers, w \in WebhookIds : Lookup(k, w)
  \/ \E k \in Workers : Step(k) \/ Raise(k) \/ Abort(k)
  \/ Crash
  \/ \E pkg \in WhopIds, cfg \in PackageConfigs : SavePackage(pkg, cfg)
  \/ \E key \in Keys : remove_entitlement(key)
  \/ Tick

\* A request that was accepted runs on; Whop sends an event again until it is
\* answered, and some delivery finds the server free.
Fairness ==
  /\ \A k \in Workers : WF_vars(Step(k))
  /\ \A w \in WebhookIds : SF_vars(w \notin acked /\ \E k \in Workers : Lookup(k, w))

Spec == Init /\ [][Next]_vars

FairSpec == Spec /\ Fairness

-----------------------------------------------------------------------------
(* Types *)

MappedTo(e) == IF FindPackage(e) # NULL THEN "package"
               ELSE IF FindProduct(e) # NULL THEN "product" ELSE "nothing"

WorkerState ==
  [pc      : {"idle", "new", "received", "mapped", "customer", "done", "raised"},
   event   : WebhookIds \cup {NULL},
   plan    : WhopIds \cup {NULL},
   package : PackageConfigs \cup {NULL},
   product : Products \cup {NULL}]

LedgerRow ==
  [event_fingerprint : {GrantFingerprint(w, pkg, prod) :
                          w \in WebhookIds, pkg \in WhopIds, prod \in Products},
   customer     : Customers,
   package      : WhopIds,
   product      : Products,
   subscription : Ids \cup {NULL},
   grant_kind   : Kinds \ {"ignored"},
   period_start : MaybeTime,
   days_applied : Nat]

\* Every table holds rows its schema admits: the CHECKs and foreign keys of
\* migrations 001 and 002, the UNIQUE fingerprint of the ledger.
TypeOK ==
  /\ now \in Time
  /\ webhook_events \in [WebhookIds -> {NULL, "received", "processed", "failed"}]
  /\ customers \in SUBSET Customers
  /\ packages \in [WhopIds -> PackageConfigs \cup {NULL}]
  /\ subscriptions \in [Ids -> SubscriptionRow \cup {NULL}]
  /\ entitlements \in [Keys -> Row \cup {NULL}]
  /\ \A key \in Keys : entitlements[key] # NULL => entitlements[key].customer \in customers
  /\ ledger \subseteq LedgerRow
  /\ \A l, m \in ledger : l.event_fingerprint = m.event_fingerprint => l = m
  /\ worker \in [Workers -> WorkerState]
  /\ acked \in SUBSET WebhookIds
  /\ applied \in [WebhookIds -> MaybeTime]
  /\ faults \in Nat /\ edits \in Nat

-----------------------------------------------------------------------------
(* What the webhook endpoint promises *)

\* The rows as sources of coverage.
Standing(r) ==
  IF r = NULL THEN "absent"
  ELSE IF r.status \in {"revoked", "suspended"} THEN "blocked"
  ELSE IF r.status = "expired" THEN "lapsed" ELSE "good"

\* An event is answered or marked 'processed' only after its effect was
\* committed, wherever a session raised or the process died before
\* (process_whop_event: the last session follows the fourth).
AnsweredIsApplied ==
  \A w \in WebhookIds :
    w \in acked \/ webhook_events[w] = "processed" => applied[w] # NULL

\* A membership period is paid for once: of the paid and renewal events that
\* share a period start only one is credited with days, whatever their ids,
\* kinds and order (license_grant_ledger, _paid_period_duplicate_exists).
PeriodPaidOnce ==
  \A l, m \in ledger :
    /\ l.subscription # NULL /\ l.period_start # NULL
    /\ IsPaid(l.grant_kind) /\ l.days_applied > 0
    /\ IsPaid(m.grant_kind) /\ m.days_applied > 0
    /\ <<l.customer, l.package, l.product, l.subscription, l.period_start>> =
       <<m.customer, m.package, m.product, m.subscription, m.period_start>>
    => l = m

\* An event that is applied again, because the process died before it could
\* be marked, grants nothing a second time, as long as administrators keep out
\* of it.
ReplayGrantsNothing ==
  [][\A k \in Workers :
       /\ edits = 0
       /\ At(k, "customer") /\ At(k, "done")'
       /\ worker[k].plan # NULL
       /\ applied[worker[k].event] # NULL
       /\ IsGrant(GrantKind(Event[worker[k].event]))
       => UNCHANGED <<entitlements, ledger>>]_vars

\* A webhook never takes coverage away: a date never moves back nor gives
\* way to none, and a row without a date is given one only by an event that
\* revokes or suspends it.
CoverageNeverShrinks ==
  [][\A key \in Keys :
       LET r == entitlements[key]
           s == entitlements'[key]
       IN  r # NULL /\ s # NULL =>
             IF r.expires = NULL
             THEN s.expires = NULL \/ s.status \in {"revoked", "suspended"}
             ELSE s.expires # NULL /\ s.expires >= r.expires]_vars

\* The row licenses its product on a day (_current_grants): one marked
\* expired before its date is read as active.
Licensed(r, day) ==
  /\ r # NULL /\ ~r.revoked
  /\ \/ r.status \in {"active", "trialing"}
     \/ r.status = "expired" /\ r.expires # NULL
  /\ r.starts <= day
  /\ r.expires = NULL \/ r.expires > day

\* Once a row was revoked, suspended or ran out, its product is licensed
\* again only by coverage beyond the date it had, however the intermediate
\* statuses follow each other.
LicenseReturnsWithCoverage ==
  [][\A key \in Keys :
       LET r == entitlements[key]
           s == entitlements'[key]
       IN  /\ r # NULL /\ ~Licensed(r, now) /\ r.starts <= now
           /\ Licensed(s, now')
           => s.expires # r.expires]_vars

\* The subscription carries the latest period any applied event named, in
\* whatever order they were applied, while administrators leave the package
\* that maps them alone.
SubscriptionPeriodIsLatest ==
  \A m \in Ids :
    LET named == {w \in WebhookIds :
                    /\ applied[w] # NULL /\ Event[w].membership = m
                    /\ MappedTo(Event[w]) # "nothing"}
    IN  edits = 0 =>
        /\ \A w \in named :
             /\ subscriptions[m] # NULL
             /\ later_time(subscriptions[m].end, Event[w].end) = subscriptions[m].end
        /\ subscriptions[m] # NULL =>
             \E w \in named : subscriptions[m].end = Event[w].end

\* The events whose effect on a row was committed, and the date each asked
\* for when it was, under the package as it stands.
AppliedTo(key) ==
  {w \in WebhookIds :
     /\ applied[w] # NULL
     /\ key[2] # NULL /\ FindPackage(Event[w]) = key[2]
     /\ key[1] = PackageRoot(w, key[2])
     /\ packages[key[2]].is_active /\ ~packages[key[2]].is_ignored
     /\ key[3] \in DOMAIN packages[key[2]].grants
     /\ GrantKind(Event[w]) # "ignored"}

PackageDays(key) == OrElse(packages[key[2]].grants[key[3]], packages[key[2]].default_days)

Asked(w, key) == entitlement_expiry_target(Event[w], PackageDays(key), applied[w])

\* What Whop has to send for some of the promises below: a payment is made for
\* one purchase, and its ids are not those of customers; an event that revokes
\* or suspends says until when; one that names the end of a period names its
\* start.
PaymentsAreOfOnePurchase ==
  /\ Customers \cap Ids = {}
  /\ \A v, w \in WebhookIds :
       Event[v].payment # NULL /\ Event[v].payment = Event[w].payment =>
         \A field \in {"customer", "membership", "item", "plan", "product"} :
           Event[v][field] = Event[w][field]

BlocksAreDated ==
  \A w \in WebhookIds : GrantKind(Event[w]) \in {"revoke", "suspend"} => Event[w].end # NULL

PeriodsAreComplete ==
  \A w \in WebhookIds :
    LET e == Event[w]
    IN  /\ IsPaid(GrantKind(e)) /\ e.end # NULL => e.start # NULL
        /\ GrantKind(e) = "trial" => OrElse(e.trial_end, e.end) # NULL \/ e.start # NULL
        /\ GrantKind(e) = "expire" => e.end # NULL

\* README, Lifecycle handling: paid events ensure access through the later of
\* the event's period end and the configured package period.  Whatever else
\* happened, the row of an applied grant covers what the grant asked for, as
\* long as administrators keep out of it.
EnsuredThrough ==
  \A key \in Keys : \A w \in AppliedTo(key) :
    edits = 0 /\ IsGrant(GrantKind(Event[w])) =>
      /\ entitlements[key] # NULL
      /\ \/ entitlements[key].expires = NULL
         \/ RelativeDays(Event[w], PackageDays(key))
         \/ entitlements[key].expires >= Asked(w, key)

\* And it covers no more: deliveries in any order, repeated and interrupted,
\* leave the date that one of the applied events asked for.  For rows whose
\* events all carry their period.
NoMoreThanAsked ==
  \A key \in Keys :
    /\ edits = 0 /\ entitlements[key] # NULL /\ key[2] # NULL
    /\ \A w \in AppliedTo(key) : ~RelativeDays(Event[w], PackageDays(key))
    => \E w \in AppliedTo(key) : entitlements[key].expires = Asked(w, key)

\* README, Lifecycle handling: paid events ensure access through the later of
\* period end and package period.  When every event that is not a grant came
\* on an earlier day, the row of an applied payment is usable for as long as
\* that payment asked for.
PaidEnsuresAccess ==
  \A key \in Keys : \A w \in AppliedTo(key) :
    /\ IsPaid(GrantKind(Event[w]))
    /\ now < Asked(w, key)
    /\ \A v \in AppliedTo(key) :
         IsGrant(GrantKind(Event[v])) \/ applied[v] < applied[w]
    => Licensed(entitlements[key], now)

\* README, Lifecycle handling: a payment and its matching membership update
\* cannot add the same period twice.  For events of one period: coverage ends
\* no later than one of them asked for.
PeriodAddedOnce ==
  \A key \in Keys :
    Expiry(entitlements[key]) # NULL =>
      \E w \in AppliedTo(key) : entitlements[key].expires <= Asked(w, key)

\* upsert_whop_package refuses a licensing package without days for every
\* grant, so a row that a payment made active has an end, although the
\* package's row is read two sessions before its grants.
PaymentsAreDated ==
  \A key \in Keys :
    key[2] # NULL /\ Standing(entitlements[key]) = "good"
      => entitlements[key].expires # NULL

\* The compatibility case: payments without dates add the package's days once
\* each.  When no other payment reached the row, its coverage is at least that
\* long from one of them on; when nothing else did, it is also at most that
\* long from one of them.
DatelessDaysOnce ==
  \A key \in Keys :
    LET paid  == {w \in AppliedTo(key) : IsPaid(GrantKind(Event[w]))}
        total == PackageDays(key) * Cardinality({Event[w].payment : w \in paid})
    IN  /\ edits = 0 /\ paid # {}
        /\ \A w \in paid : RelativeDays(Event[w], PackageDays(key))
        => /\ \E w \in paid : entitlements[key].expires >= applied[w] + total
           /\ paid = AppliedTo(key) =>
                \E w \in paid : entitlements[key].expires <= applied[w] + total

Abstract == INSTANCE Coverage WITH
  Sources  <- Keys,
  day      <- now,
  standing <- [key \in Keys |-> Standing(entitlements[key])],
  through  <- [key \in Keys |-> Expiry(entitlements[key])]

\* Every transaction does to the rows only what Coverage allows: coverage
\* moves forward, and a revoked or suspended row is usable again only with
\* more coverage.
ImplementsCoverage == Abstract!Spec
=============================================================================
