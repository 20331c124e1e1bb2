-------------------------- MODULE WhopGrantsProofs --------------------------
(***************************************************************************)
(* Proofs about WhopGrants, for any number of workers, any events, any     *)
(* packages and without bound on time, faults and administrators' edits.   *)
(***************************************************************************)
EXTENDS WhopGrants, TLAPS

-----------------------------------------------------------------------------
(* The operators of WhopEvents *)

\* The word lists of normalize_entitlement_status cover every text.
LEMMA StatusType ==
  ASSUME NEW raw, NEW event
  PROVE  normalize_entitlement_status(raw, event) \in EntitlementStatuses
BY DEF normalize_entitlement_status, EntitlementStatuses

\* _grant_kind returns one of the kinds; only "ignored" is not acted on.
LEMMA KindType ==
  ASSUME NEW e
  PROVE  GrantKind(e) \in Kinds
BY DEF GrantKind, Kinds

\* The dates helpers return dates, and the later date is no earlier than
\* either argument.
LEMMA TimeType ==
  ASSUME NEW a \in MaybeTime, NEW b \in MaybeTime
  PROVE  /\ later_time(a, b) \in MaybeTime
         /\ earlier_time(a, b) \in MaybeTime
         /\ OrElse(a, b) \in MaybeTime
BY DEF MaybeTime, later_time, earlier_time, OrElse

\* What an event asks for is a date or nothing (entitlement_expiry_target and
\* the compatibility case of _apply_whop_package_grant).
LEMMA TargetType ==
  ASSUME NEW e \in EventRecord, NEW before \in MaybeTime,
         NEW days \in MaybeTime, NEW today \in Nat
  PROVE  /\ entitlement_expiry_target(e, days, today) \in MaybeTime
         /\ GrantTarget(e, before, days, today) \in MaybeTime
<1>1. e.start \in MaybeTime /\ e.end \in MaybeTime /\ e.trial_end \in MaybeTime
  BY DEF EventRecord
<1>2. NULL \notin Nat
  BY EventsAssumption
<1>3. entitlement_expiry_target(e, days, today) \in MaybeTime
  BY <1>1, <1>2 DEF entitlement_expiry_target, OrElse, later_time, MaybeTime
<1>4. RelativeDays(e, days) => later_time(before, today) + days \in MaybeTime
  BY <1>2 DEF RelativeDays, later_time, MaybeTime
<1> QED
  BY <1>3, <1>4 DEF GrantTarget

-----------------------------------------------------------------------------
(* Rows *)

\* The fields of an event are of their columns' types.
LEMMA EventType ==
  ASSUME NEW w \in WebhookIds
  PROVE  /\ Event[w] \in EventRecord
         /\ Event[w].customer \in Customers
         /\ Event[w].membership \in Ids \cup {NULL}
         /\ Event[w].start \in MaybeTime
         /\ Event[w].end \in MaybeTime
         /\ Event[w].plan \in WhopIds \cup {NULL}
         /\ Event[w].product \in WhopIds \cup {NULL}
BY EventsAssumption DEF EventRecord

\* Whatever an event is, the row written for it has a status of the schema,
\* a start and a date or none.
LEMMA NewRowType ==
  ASSUME NEW r \in Row \cup {NULL}, NEW e \in EventRecord, NEW prod \in Products,
         NEW target \in MaybeTime, NEW kept \in MaybeTime, NEW dated \in MaybeTime,
         now \in Nat
  PROVE  NewRow(r, e, prod, NewOutcome(r, e, target, kept, dated)) \in Row
<1> DEFINE outcome == NewOutcome(r, e, target, kept, dated)
<1>1. Expiry(r) \in MaybeTime
  BY DEF Expiry, Row, MaybeTime
<1>2. Reach(r, target) \in MaybeTime
  BY <1>1 DEF Reach, later_time, MaybeTime
<1>3. normalize_entitlement_status(e.raw, e.event) \in EntitlementStatuses
  BY StatusType
<1>4. r # NULL => r.status \in EntitlementStatuses /\ r.revoked \in BOOLEAN /\ r.expires \in MaybeTime
  BY DEF Row
<1>5. Granted(r, e, target) \in [status : EntitlementStatuses, expires : MaybeTime, revoked : BOOLEAN]
  BY <1>2, <1>3, <1>4 DEF Granted, Outcome, EntitlementStatuses
<1>6. Lapsed(r, kept, dated) \in [status : EntitlementStatuses, expires : MaybeTime, revoked : BOOLEAN]
  BY <1>1, <1>4 DEF Lapsed, Outcome, EntitlementStatuses, OrElse, MaybeTime
<1>7. outcome \in [status : EntitlementStatuses, expires : MaybeTime, revoked : BOOLEAN]
  BY <1>1, <1>5, <1>6 DEF NewOutcome, Outcome, EntitlementStatuses, OrElse
<1>8. StartsAt(r, e) \in Time
  <2>1. e.start \in MaybeTime /\ (r # NULL => r.starts \in Nat)
    BY DEF EventRecord, Row, Time
  <2>2. QED
    BY <2>1, EventsAssumption DEF StartsAt, earlier_time, OrElse, MaybeTime, Time
<1>9. e.customer \in Customers
  BY DEF EventRecord
<1> QED
  BY <1>7, <1>8, <1>9 DEF NewRow, Row

\* The row of a direct product.
LEMMA DirectRowType ==
  ASSUME NEW r \in Row \cup {NULL}, NEW w \in WebhookIds, NEW prod \in Products,
         now \in Nat
  PROVE  DirectRow(r, Event[w], prod) \in Row \cup {NULL}
<1>1. Event[w] \in EventRecord
  BY EventType
<1> DEFINE target == entitlement_expiry_target(Event[w], NULL, now)
<1>2. target \in MaybeTime
  BY <1>1, TargetType DEF MaybeTime
<1>3. Reach(r, target) \in MaybeTime
  BY <1>2 DEF Reach, later_time, MaybeTime, Expiry, Row
<1> QED
  BY <1>1, <1>2, <1>3, NewRowType DEF DirectRow

\* The row of a product of a package.
LEMMA PackageRowType ==
  ASSUME NEW r \in Row \cup {NULL}, NEW w \in WebhookIds, NEW prod \in Products,
         NEW days \in MaybeTime, now \in Nat
  PROVE  PackageRow(r, Event[w], prod, days) \in Row
<1>1. Event[w] \in EventRecord
  BY EventType
<1>2. Expiry(r) \in MaybeTime
  BY DEF Expiry, Row, MaybeTime
<1> DEFINE target == GrantTarget(Event[w], Expiry(r), days, now)
<1>3. target \in MaybeTime
  BY <1>1, <1>2, TargetType
<1>4. (IF r = NULL THEN target ELSE r.expires) \in MaybeTime
  BY <1>3 DEF Row
<1> HIDE DEF target
<1>5. NewRow(r, Event[w], prod, NewOutcome(r, Event[w], target,
             IF r = NULL THEN target ELSE r.expires, target)) \in Row
  BY <1>1, <1>3, <1>4, NewRowType
<1> QED
  BY <1>5 DEF PackageRow, target

\* The subscription keeps a status of the schema and dates.
LEMMA SubscriptionType ==
  ASSUME NEW old \in SubscriptionRow \cup {NULL}, NEW w \in WebhookIds
  PROVE  UpdatedSubscription(Event[w], old) \in SubscriptionRow
<1> DEFINE e      == Event[w]
           status == normalize_subscription_status(e.raw, e.event)
<1>1. e.customer \in Customers /\ e.start \in MaybeTime /\ e.end \in MaybeTime
  BY EventType
<1>2. status \in {"active", "trialing", "expired", "revoked", "suspended", "past_due", "unknown"}
  BY StatusType DEF normalize_subscription_status, EntitlementStatuses
<1>3. CASE old = NULL
  BY <1>1, <1>2, <1>3 DEF UpdatedSubscription, SubscriptionRow
<1>4. CASE old # NULL
  <2>1. /\ old.status \in {"active", "trialing", "expired", "revoked", "suspended", "past_due", "unknown"}
        /\ old.start \in MaybeTime /\ old.end \in MaybeTime
    BY <1>4 DEF SubscriptionRow
  <2>2. later_time(old.start, e.start) \in MaybeTime /\ later_time(old.end, e.end) \in MaybeTime
    BY <1>1, <2>1, TimeType
  <2> HIDE DEF e, status
  <2>3. UpdatedSubscription(e, old) \in SubscriptionRow
    BY <1>1, <1>2, <1>4, <2>1, <2>2 DEF UpdatedSubscription, SubscriptionRow, status
  <2> QED
    BY <2>3 DEF e
<1> QED
  BY <1>3, <1>4

\* What FindMapping and ApplyPackage read of a package.
LEMMA PackageType ==
  ASSUME NEW cfg \in PackageConfigs
  PROVE  /\ cfg # NULL
         /\ cfg.default_days \in MaybeTime
         /\ DOMAIN cfg.grants \subseteq Products
         /\ \A p \in DOMAIN cfg.grants : cfg.grants[p] \in MaybeTime
BY PackagesAssumption DEF IsPackage

\* A package found for an event is one of the stored packages.
LEMMA FoundPackage ==
  ASSUME NEW w \in WebhookIds, FindPackage(Event[w]) # NULL
  PROVE  /\ FindPackage(Event[w]) \in WhopIds
         /\ packages[FindPackage(Event[w])] # NULL
BY EventType DEF FindPackage

\* A direct product found for an event is one of the licensed products.
LEMMA FoundProduct ==
  ASSUME NEW w \in WebhookIds, FindProduct(Event[w]) # NULL
  PROVE  FindProduct(Event[w]) \in Products
<1>1. /\ Event[w].plan \in WhopIds \cup {NULL}
      /\ Event[w].product \in WhopIds \cup {NULL}
  BY EventType
<1>2. DirectProduct \in [WhopIds -> Products \cup {NULL}]
  BY PackagesAssumption
<1> QED
  BY <1>1, <1>2 DEF FindProduct

-----------------------------------------------------------------------------
(* The inductive invariant *)

\* What a request has read agrees with what it is about to write.
Reads(f) ==
  /\ f.pc # "idle" => f.event \in WebhookIds
  /\ f.pc \in {"new", "received"} => f.plan = NULL
  /\ f.pc \in {"mapped", "customer"} =>
       \/ f.plan \in WhopIds /\ packages[f.plan] # NULL /\ f.package \in PackageConfigs
       \/ f.plan = NULL /\ f.product \in Products
  /\ f.pc = "customer" => Event[f.event].customer \in customers
  /\ f.pc = "done" => applied[f.event] # NULL

InFlight == \A k \in Workers : Reads(worker[k])

IInv == TypeOK /\ InFlight /\ AnsweredIsApplied

\* The empty database satisfies the invariant.
LEMMA InitIInv == Init => IInv
<1> SUFFICES ASSUME Init PROVE IInv
  OBVIOUS
<1>1. \A k \in Workers : worker[k] = Idle
  BY DEF Init
<1>2. Idle \in WorkerState /\ Idle.pc = "idle"
  BY DEF Idle, WorkerState
<1>3. TypeOK
  BY <1>2, PackagesAssumption, CustomersAssumption DEF Init, TypeOK, Time, MaybeTime
<1>4. InFlight
  BY <1>1, <1>2 DEF InFlight, Reads
<1>5. AnsweredIsApplied
  BY PackagesAssumption DEF Init, AnsweredIsApplied
<1> QED
  BY <1>3, <1>4, <1>5 DEF IInv

\* The ledger never records a negative number of days.
LEMMA DaysAppliedType ==
  ASSUME NEW w \in WebhookIds, NEW pkg, NEW prod, NEW r \in Row \cup {NULL},
         NEW days \in MaybeTime, now \in Nat
  PROVE  DaysApplied(w, pkg, prod, r, days) \in Nat
<1> DEFINE target == GrantTarget(Event[w], Expiry(r), days, now)
<1>1. Expiry(r) \in MaybeTime
  BY DEF Expiry, Row, MaybeTime
<1>2. target \in MaybeTime
  BY <1>1, EventType, TargetType
<1> HIDE DEF target
<1>3. Reach(r, target) \in MaybeTime
  BY <1>1, <1>2 DEF Reach, later_time, MaybeTime
<1>4. Reach(r, target) # NULL => ceil_days(Reach(r, target) - now) \in Nat
  BY <1>3 DEF MaybeTime, ceil_days
<1>5. OrElse(days, 0) \in Nat
  BY DEF OrElse, MaybeTime
<1> QED
  BY <1>4, <1>5 DEF DaysApplied, target

\* A request only ever holds an event it was given.
LEMMA EventOf ==
  ASSUME IInv, NEW k \in Workers, worker[k].pc # "idle"
  PROVE  worker[k].event \in WebhookIds
BY DEF IInv, InFlight, Reads

\* No step deletes a package or a customer or forgets a committed effect.
Grows ==
  /\ \A pkg \in WhopIds : packages[pkg] # NULL => packages'[pkg] # NULL
  /\ customers \subseteq customers'
  /\ \A w \in WebhookIds : applied[w] # NULL => applied'[w] # NULL

\* So what the other requests have read still holds after a step of one.
LEMMA InFlightKept ==
  ASSUME IInv, Grows, NEW k \in Workers, Reads(worker[k])',
         \A j \in Workers \ {k} : worker'[j] = worker[j]
  PROVE  InFlight'
<1> SUFFICES ASSUME NEW j \in Workers \ {k} PROVE Reads(worker[j])'
  BY DEF InFlight
<1> QED
  BY DEF IInv, InFlight, Reads, Grows

\* The transaction of a package grant keeps the invariant: rows, subscription
\* and ledger stay well formed, and the event it applies is recorded as applied.
LEMMA ApplyPackageIInv ==
  ASSUME IInv, NEW k \in Workers, ApplyPackage(k)
  PROVE  IInv'
<1> DEFINE w   == worker[k].event
           pkg == worker[k].plan
           read == worker[k].package
           grants == packages[pkg].grants
           granted == IF read.is_active /\ ~read.is_ignored THEN DOMAIN grants ELSE {}
           Days(p) == IF grants[p] # NULL THEN grants[p] ELSE read.default_days
           RowOf(p) == entitlements[PackageKey(w, pkg, p)]
           done == {p \in granted : ~Suppressed(w, pkg, p, RowOf(p), Days(p))}
           new == {LedgerEntry(w, pkg, p, RowOf(p), Days(p)) :
                     p \in {q \in done : ~FingerprintKnown(w, pkg, q)}}
<1>1. /\ w \in WebhookIds /\ pkg \in WhopIds /\ packages[pkg] \in PackageConfigs
      /\ read \in PackageConfigs
      /\ Event[w].customer \in customers
  BY DEF ApplyPackage, At, IInv, InFlight, Reads, TypeOK
<1>2. \A p \in granted : p \in Products /\ Days(p) \in MaybeTime
  BY <1>1, PackageType
<1>3. \A p \in Products : PackageKey(w, pkg, p) \in Keys /\ PackageKey(w, pkg, p)[3] = p
  BY <1>1 DEF Keys, PackageKey
<1>4. \A p \in Products : RowOf(p) \in Row \cup {NULL}
  BY <1>3 DEF IInv, TypeOK
<1>5. now \in Nat
  BY DEF IInv, TypeOK, Time
<1>6. \A key \in Keys : \/ entitlements'[key] = entitlements[key]
                        \/ /\ entitlements'[key] \in Row
                           /\ entitlements'[key].customer = Event[w].customer
  <2> SUFFICES ASSUME NEW key \in Keys,
                      NEW p \in done, key = PackageKey(w, pkg, p)
               PROVE  /\ entitlements'[key] \in Row
                      /\ entitlements'[key].customer = Event[w].customer
    BY DEF ApplyPackage
  <2>1. p \in Products /\ Days(p) \in MaybeTime
    BY <1>2
  <2>2. entitlements'[key] = PackageRow(RowOf(p), Event[w], p, Days(p))
    BY <1>3, <2>1 DEF ApplyPackage
  <2>3. RowOf(p) \in Row \cup {NULL}
    BY <1>4, <2>1
  <2> HIDE DEF w, RowOf, Days
  <2>4. PackageRow(RowOf(p), Event[w], p, Days(p)) \in Row
    BY <1>1, <1>5, <2>1, <2>3, PackageRowType
  <2>5. PackageRow(RowOf(p), Event[w], p, Days(p)).customer = Event[w].customer
    BY DEF PackageRow, NewRow
  <2> QED
    BY <2>2, <2>4, <2>5
<1>7. entitlements' \in [Keys -> Row \cup {NULL}]
  <2> DEFINE rowOf(key) == IF \E p \in done : key = PackageKey(w, pkg, p)
                           THEN PackageRow(entitlements[key], Event[w], key[3], Days(key[3]))
                           ELSE entitlements[key]
  <2>1. entitlements' = [key \in Keys |-> rowOf(key)]
    BY DEF ApplyPackage
  <2> HIDE DEF rowOf
  <2>2. \A key \in Keys : rowOf(key) \in Row \cup {NULL}
    BY <1>6, <2>1 DEF IInv, TypeOK
  <2> QED
    BY <2>1, <2>2
<1>8. \A key \in Keys : entitlements'[key] # NULL => entitlements'[key].customer \in customers'
  <2>1. customers' = customers
    BY DEF ApplyPackage
  <2>2. \A key \in Keys : entitlements[key] # NULL => entitlements[key].customer \in customers
    BY DEF IInv, TypeOK
  <2> QED
    BY <1>1, <1>6, <2>1, <2>2
<1>9. subscriptions' \in [Ids -> SubscriptionRow \cup {NULL}]
  BY <1>1, SubscriptionType DEF ApplyPackage, UpsertSubscription, IInv, TypeOK
<1>10. new \subseteq LedgerRow
  <2> SUFFICES ASSUME NEW p \in done
               PROVE  LedgerEntry(w, pkg, p, RowOf(p), Days(p)) \in LedgerRow
    BY DEF LedgerRow
  <2>1. p \in Products /\ Days(p) \in MaybeTime
    BY <1>2
  <2>2. RowOf(p) \in Row \cup {NULL}
    BY <1>4, <2>1
  <2>3. /\ Event[w].customer \in Customers /\ Event[w].membership \in Ids \cup {NULL}
        /\ Event[w].start \in MaybeTime
    BY <1>1, EventType
  <2>4. GrantKind(Event[w]) \in Kinds \ {"ignored"}
    BY KindType DEF Suppressed
  <2> HIDE DEF w, pkg, RowOf, Days
  <2>5. DaysApplied(w, pkg, p, RowOf(p), Days(p)) \in Nat
    BY <1>1, <1>5, <2>1, <2>2, DaysAppliedType
  <2> QED
    BY <1>1, <2>1, <2>3, <2>4, <2>5 DEF LedgerEntry, LedgerRow
<1>11. \A l, m \in ledger' : l.event_fingerprint = m.event_fingerprint => l = m
  <2>1. \A p \in Products : LedgerEntry(w, pkg, p, RowOf(p), Days(p)).event_fingerprint
                              = GrantFingerprint(w, pkg, p)
    BY DEF LedgerEntry
  <2>2. ledger' = ledger \cup new
    BY DEF ApplyPackage
  <2>3. \A l \in new : \A m \in ledger : l.event_fingerprint # m.event_fingerprint
    BY <1>2, <2>1 DEF FingerprintKnown
  <2>4. \A p, q \in Products : GrantFingerprint(w, pkg, p) = GrantFingerprint(w, pkg, q) => p = q
    BY DEF GrantFingerprint
  <2>5. \A l, m \in new : l.event_fingerprint = m.event_fingerprint => l = m
    BY <1>2, <2>1, <2>4
  <2>6. \A l, m \in ledger : l.event_fingerprint = m.event_fingerprint => l = m
    BY DEF IInv, TypeOK
  <2> QED
    BY <2>2, <2>3, <2>5, <2>6
<1>12. applied' \in [WebhookIds -> MaybeTime]
  BY <1>5 DEF ApplyPackage, FirstApplied, OrElse, MaybeTime, IInv, TypeOK
<1>13. worker' \in [Workers -> WorkerState]
  BY DEF ApplyPackage, Goto, IInv, TypeOK, WorkerState
<1>14. TypeOK'
  <2>1. ledger' \subseteq LedgerRow
    BY <1>10 DEF ApplyPackage, IInv, TypeOK
  <2> QED
    BY <1>7, <1>8, <1>9, <1>11, <1>12, <1>13, <2>1 DEF ApplyPackage, IInv, TypeOK
<1>15. \A v \in WebhookIds : applied[v] # NULL => applied'[v] # NULL
  BY EventsAssumption DEF ApplyPackage, FirstApplied, OrElse, IInv, TypeOK
<1>16. applied'[w] # NULL
  BY <1>1, <1>5, EventsAssumption DEF ApplyPackage, FirstApplied, OrElse, IInv, TypeOK
<1>17. InFlight'
  <2>1. worker' = [worker EXCEPT ![k].pc = "done"]
    BY DEF ApplyPackage, Goto
  <2>2. worker'[k].pc = "done" /\ worker'[k].event = w
    BY <2>1 DEF IInv, TypeOK, WorkerState
  <2>3. \A j \in Workers \ {k} : worker'[j] = worker[j]
    BY <2>1 DEF IInv, TypeOK
  <2>4. Grows
    BY <1>15 DEF ApplyPackage, Grows
  <2>5. Reads(worker[k])'
    BY <1>1, <1>16, <2>2 DEF Reads
  <2> QED
    BY <2>3, <2>4, <2>5, InFlightKept
<1>18. AnsweredIsApplied'
  BY <1>15 DEF ApplyPackage, AnsweredIsApplied, IInv
<1> QED
  BY <1>14, <1>17, <1>18 DEF IInv

\* The transaction of a direct product keeps the invariant.
LEMMA ApplyDirectIInv ==
  ASSUME IInv, NEW k \in Workers, ApplyDirect(k)
  PROVE  IInv'
<1> DEFINE w == worker[k].event
           prod == worker[k].product
<1>1. w \in WebhookIds /\ prod \in Products /\ Event[w].customer \in customers
  BY PackagesAssumption, EventsAssumption DEF ApplyDirect, At, IInv, InFlight, Reads
<1>2. now \in Nat
  BY DEF IInv, TypeOK, Time
<1>3. DirectKey(w) \in Keys /\ entitlements[DirectKey(w)] \in Row \cup {NULL}
  BY <1>1 DEF Keys, IInv, TypeOK
<1>4. entitlements'[DirectKey(w)] = DirectRow(entitlements[DirectKey(w)], Event[w], prod)
  BY <1>3 DEF ApplyDirect, IInv, TypeOK
<1>5. entitlements'[DirectKey(w)] \in Row \cup {NULL}
  BY <1>1, <1>2, <1>3, <1>4, DirectRowType
<1>6. entitlements' \in [Keys -> Row \cup {NULL}]
  BY <1>4, <1>5 DEF ApplyDirect, IInv, TypeOK
<1>7. \/ entitlements'[DirectKey(w)] = entitlements[DirectKey(w)]
      \/ entitlements'[DirectKey(w)].customer = Event[w].customer
  BY <1>4 DEF DirectRow, NewRow
<1>8. \A key \in Keys : entitlements'[key] # NULL => entitlements'[key].customer \in customers
  <2>1. \A key \in Keys \ {DirectKey(w)} : entitlements'[key] = entitlements[key]
    BY <1>3 DEF ApplyDirect, IInv, TypeOK
  <2>2. \A key \in Keys : entitlements[key] # NULL => entitlements[key].customer \in customers
    BY DEF IInv, TypeOK
  <2> QED
    BY <1>1, <1>3, <1>7, <2>1, <2>2
<1>9. subscriptions' \in [Ids -> SubscriptionRow \cup {NULL}]
  BY <1>1, SubscriptionType DEF ApplyDirect, UpsertSubscription, IInv, TypeOK
<1>10. applied' \in [WebhookIds -> MaybeTime]
  BY <1>2 DEF ApplyDirect, FirstApplied, OrElse, MaybeTime, IInv, TypeOK
<1>11. worker' \in [Workers -> WorkerState]
  BY DEF ApplyDirect, Goto, IInv, TypeOK, WorkerState
<1>12. TypeOK'
  BY <1>6, <1>8, <1>9, <1>10, <1>11 DEF ApplyDirect, IInv, TypeOK
<1>13. \A v \in WebhookIds : applied[v] # NULL => applied'[v] # NULL
  BY EventsAssumption DEF ApplyDirect, FirstApplied, OrElse, IInv, TypeOK
<1>14. applied'[w] # NULL
  BY <1>1, <1>2, EventsAssumption DEF ApplyDirect, FirstApplied, OrElse, IInv, TypeOK
<1>15. InFlight'
  <2>1. worker' = [worker EXCEPT ![k].pc = "done"]
    BY DEF ApplyDirect, Goto
  <2>2. worker'[k].pc = "done" /\ worker'[k].event = w
    BY <2>1 DEF IInv, TypeOK, WorkerState
  <2>3. \A j \in Workers \ {k} : worker'[j] = worker[j]
    BY <2>1 DEF IInv, TypeOK
  <2>4. Grows
    BY <1>13 DEF ApplyDirect, Grows
  <2>5. Reads(worker[k])'
    BY <1>1, <1>14, <2>2 DEF Reads
  <2> QED
    BY <2>3, <2>4, <2>5, InFlightKept
<1>16. AnsweredIsApplied'
  BY <1>13 DEF ApplyDirect, AnsweredIsApplied, IInv
<1> QED
  BY <1>12, <1>15, <1>16 DEF IInv

\* The lookup of the mapping keeps the invariant: what the request reads is a
\* stored package or a product, and an unmapped event counts as applied.
LEMMA FindMappingIInv ==
  ASSUME IInv, NEW k \in Workers, FindMapping(k)
  PROVE  IInv'
<1> DEFINE w    == worker[k].event
           pkg  == FindPackage(Event[w])
           prod == FindProduct(Event[w])
<1>1. w \in WebhookIds /\ worker[k] \in WorkerState
  BY EventOf DEF FindMapping, At, IInv, TypeOK
<1>2. pkg # NULL => pkg \in WhopIds /\ packages[pkg] # NULL /\ packages[pkg] \in PackageConfigs
  BY <1>1, FoundPackage DEF IInv, TypeOK
<1>3. prod # NULL => prod \in Products
  BY <1>1, FoundProduct
<1> HIDE DEF pkg, prod
<1>4. worker[k].pc = "received" /\ worker[k].plan = NULL
  BY DEF FindMapping, At, IInv, InFlight, Reads
<1>5. CASE pkg = NULL /\ prod = NULL
  <2>1. applied' = FirstApplied(w) /\ worker' = [worker EXCEPT ![k].pc = "done"]
    BY <1>5 DEF FindMapping, Goto, pkg, prod
  <2>2. now \in Nat
    BY DEF IInv, TypeOK, Time
  <2>3. /\ applied' \in [WebhookIds -> MaybeTime]
        /\ \A v \in WebhookIds : applied[v] # NULL => applied'[v] # NULL
        /\ applied'[w] # NULL
    BY <1>1, <2>1, <2>2, EventsAssumption DEF FirstApplied, OrElse, MaybeTime, IInv, TypeOK
  <2>4. /\ worker' \in [Workers -> WorkerState]
        /\ worker'[k].pc = "done" /\ worker'[k].event = w
        /\ \A j \in Workers \ {k} : worker'[j] = worker[j]
    BY <1>1, <2>1 DEF WorkerState, IInv, TypeOK
  <2>5. TypeOK'
    BY <2>3, <2>4 DEF FindMapping, IInv, TypeOK
  <2>6. Grows
    BY <2>3 DEF FindMapping, Grows
  <2>7. Reads(worker[k])'
    BY <1>1, <2>3, <2>4 DEF Reads
  <2>8. InFlight'
    BY <2>4, <2>6, <2>7, InFlightKept
  <2>9. AnsweredIsApplied'
    BY <2>3 DEF FindMapping, AnsweredIsApplied, IInv
  <2> QED
    BY <2>5, <2>8, <2>9 DEF IInv
<1>6. CASE pkg # NULL \/ prod # NULL
  <2> DEFINE g == IF pkg # NULL
                  THEN [worker[k] EXCEPT !.pc = "mapped", !.plan = pkg,
                                         !.package = packages[pkg]]
                  ELSE [worker[k] EXCEPT !.pc = "mapped", !.product = prod]
  <2>1. applied' = applied /\ worker' = [worker EXCEPT ![k] = g]
    BY <1>6 DEF FindMapping, pkg, prod
  <2>2. g \in WorkerState
    BY <1>1, <1>2, <1>3, <1>6 DEF WorkerState
  <2>3. g.pc = "mapped" /\ g.event = w
    BY <1>1 DEF WorkerState
  <2>4. \/ g.plan \in WhopIds /\ packages[g.plan] # NULL /\ g.package \in PackageConfigs
        \/ g.plan = NULL /\ g.product \in Products
    BY <1>1, <1>2, <1>3, <1>4, <1>6 DEF WorkerState
  <2> HIDE DEF g
  <2>5. /\ worker' \in [Workers -> WorkerState]
        /\ worker'[k] = g
        /\ \A j \in Workers \ {k} : worker'[j] = worker[j]
    BY <2>1, <2>2 DEF IInv, TypeOK
  <2>6. TypeOK'
    BY <2>1, <2>5 DEF FindMapping, IInv, TypeOK
  <2>7. Grows
    BY <2>1 DEF FindMapping, Grows
  <2>8. Reads(worker[k])'
    BY <1>1, <2>3, <2>4, <2>5 DEF FindMapping, Reads
  <2>9. InFlight'
    BY <2>5, <2>7, <2>8, InFlightKept
  <2>10. AnsweredIsApplied'
    BY <2>1 DEF FindMapping, AnsweredIsApplied, IInv
  <2> QED
    BY <2>6, <2>9, <2>10 DEF IInv
<1> QED
  BY <1>5, <1>6

\* The steps that only move one request on, to g.
LEMMA MoveIInv ==
  ASSUME IInv, NEW k \in Workers, NEW g \in WorkerState,
         worker' = [worker EXCEPT ![k] = g],
         Reads(g)', Grows,
         webhook_events' \in [WebhookIds -> {NULL, "received", "processed", "failed"}],
         customers' \in SUBSET Customers, acked' \in SUBSET WebhookIds, faults' \in Nat,
         UNCHANGED <<now, packages, subscriptions, entitlements, ledger, applied, edits>>,
         AnsweredIsApplied'
  PROVE  IInv'
<1>1. /\ worker' \in [Workers -> WorkerState]
      /\ worker'[k] = g
      /\ \A j \in Workers \ {k} : worker'[j] = worker[j]
  BY DEF IInv, TypeOK
<1>2. \A key \in Keys : entitlements'[key] # NULL => entitlements'[key].customer \in customers'
  BY DEF Grows, IInv, TypeOK
<1>3. TypeOK'
  BY <1>1, <1>2 DEF IInv, TypeOK
<1>4. Reads(worker[k])'
  BY <1>1 DEF Reads
<1>5. InFlight'
  BY <1>1, <1>4, InFlightKept
<1> QED
  BY <1>3, <1>5 DEF IInv

\* Every step of the system keeps the invariant.
LEMMA NextIInv ==
  ASSUME IInv, [Next]_vars
  PROVE  IInv'
<1>0. /\ worker \in [Workers -> WorkerState] /\ acked \in SUBSET WebhookIds
      /\ webhook_events \in [WebhookIds -> {NULL, "received", "processed", "failed"}]
      /\ customers \in SUBSET Customers /\ faults \in Nat
  BY DEF IInv, TypeOK
<1>id. Idle \in WorkerState /\ Reads(Idle) /\ Reads(Idle)'
  BY DEF Idle, WorkerState, Reads
<1>1. ASSUME NEW k \in Workers, NEW w \in WebhookIds, Lookup(k, w)
      PROVE  IInv'
  <2>1. CASE webhook_events[w] = "processed"
    <3>1. acked' \in SUBSET WebhookIds /\ UNCHANGED worker
      BY <1>0, <1>1, <2>1 DEF Lookup
    <3>2. TypeOK'
      BY <1>1, <3>1 DEF Lookup, IInv, TypeOK
    <3>3. InFlight'
      BY <1>1, <3>1 DEF Lookup, IInv, InFlight, Reads
    <3>4. AnsweredIsApplied'
      BY <1>1, <2>1 DEF Lookup, IInv, AnsweredIsApplied
    <3> QED
      BY <3>2, <3>3, <3>4 DEF IInv
  <2>2. CASE webhook_events[w] # "processed"
    <3> DEFINE g == [Idle EXCEPT !.pc = "new", !.event = w]
    <3>1. g \in WorkerState /\ Reads(g)'
      BY DEF Idle, WorkerState, Reads
    <3>2. worker' = [worker EXCEPT ![k] = g]
      BY <1>1, <2>2 DEF Lookup
    <3> HIDE DEF g
    <3> QED
      BY <1>0, <1>1, <2>2, <3>1, <3>2, MoveIInv DEF Lookup, Grows, IInv, AnsweredIsApplied
  <2> QED
    BY <2>1, <2>2
<1>2. ASSUME NEW k \in Workers, RecordReceived(k)
      PROVE  IInv'
  <2> PICK g : g = [worker[k] EXCEPT !.pc = "received"]
    OBVIOUS
  <2>1. g \in WorkerState /\ Reads(g)'
    BY <1>0, <1>2 DEF RecordReceived, At, IInv, InFlight, Reads, WorkerState
  <2>2. worker' = [worker EXCEPT ![k] = g]
    BY <1>0, <1>2 DEF RecordReceived, Goto, WorkerState
  <2>3. AnsweredIsApplied'
    BY <1>0, <1>2 DEF RecordReceived, IInv, AnsweredIsApplied
  <2> QED
    BY <1>0, <1>2, <2>1, <2>2, <2>3, MoveIInv DEF RecordReceived, Grows
<1>3. ASSUME NEW k \in Workers, EnsureCustomer(k)
      PROVE  IInv'
  <2>1. worker[k].event \in WebhookIds /\ worker[k].pc = "mapped"
    BY <1>3, EventOf DEF EnsureCustomer, At
  <2>pc. PICK pc \in {"customer", "raised"} :
           /\ Goto(k, pc)
           /\ pc = "customer" => Event[worker[k].event].customer \in customers'
    BY <1>3 DEF EnsureCustomer
  <2> PICK g : g = [worker[k] EXCEPT !.pc = pc]
    OBVIOUS
  <2>2. g \in WorkerState /\ Reads(g)'
    BY <1>0, <1>3, <2>1, <2>pc DEF EnsureCustomer, IInv, InFlight, Reads, WorkerState
  <2>3. worker' = [worker EXCEPT ![k] = g]
    BY <1>0, <2>pc DEF Goto, WorkerState
  <2>4. customers' \in SUBSET Customers
    BY <1>0, <1>3, <2>1, EventType DEF EnsureCustomer
  <2>5. AnsweredIsApplied'
    BY <1>3 DEF EnsureCustomer, IInv, AnsweredIsApplied
  <2> QED
    BY <1>0, <1>3, <2>2, <2>3, <2>4, <2>5, MoveIInv DEF EnsureCustomer, Grows
<1>4. ASSUME NEW k \in Workers, MarkProcessed(k)
      PROVE  IInv'
  <2>1. worker[k].event \in WebhookIds /\ applied[worker[k].event] # NULL
    BY <1>4 DEF MarkProcessed, At, IInv, InFlight, Reads
  <2>2. AnsweredIsApplied'
    BY <1>0, <1>4, <2>1 DEF MarkProcessed, IInv, AnsweredIsApplied
  <2> QED
    BY <1>0, <1>id, <1>4, <2>1, <2>2, MoveIInv DEF MarkProcessed, Finish, Grows
<1>5. ASSUME NEW k \in Workers, Raise(k)
      PROVE  IInv'
  <2> PICK g : g = [worker[k] EXCEPT !.pc = "raised"]
    OBVIOUS
  <2>1. g \in WorkerState /\ Reads(g)'
    BY <1>0, <1>5 DEF Raise, IInv, InFlight, Reads, WorkerState
  <2>2. worker' = [worker EXCEPT ![k] = g]
    BY <1>0, <1>5 DEF Raise, Goto, WorkerState
  <2>3. AnsweredIsApplied'
    BY <1>5 DEF Raise, IInv, AnsweredIsApplied
  <2>4. faults' \in Nat
    BY <1>0, <1>5 DEF Raise
  <2> QED
    BY <1>0, <1>5, <2>1, <2>2, <2>3, <2>4, MoveIInv DEF Raise, Grows
<1>6. ASSUME NEW k \in Workers, MarkFailed(k)
      PROVE  IInv'
  <2>1. AnsweredIsApplied'
    BY <1>0, <1>6 DEF MarkFailed, IInv, AnsweredIsApplied
  <2> QED
    BY <1>0, <1>id, <1>6, <2>1, MoveIInv DEF MarkFailed, Finish, Grows
<1>7. ASSUME NEW k \in Workers, Abort(k)
      PROVE  IInv'
  <2>1. AnsweredIsApplied'
    BY <1>7 DEF Abort, IInv, AnsweredIsApplied
  <2>2. faults' \in Nat
    BY <1>0, <1>7 DEF Abort
  <2> QED
    BY <1>0, <1>id, <1>7, <2>1, <2>2, MoveIInv DEF Abort, Finish, Grows
<1>8. CASE Crash
  <2>1. TypeOK'
    BY <1>0, <1>id, <1>8 DEF Crash, IInv, TypeOK
  <2>2. InFlight'
    BY <1>id, <1>8 DEF Crash, InFlight
  <2>3. AnsweredIsApplied'
    BY <1>8 DEF Crash, IInv, AnsweredIsApplied
  <2> QED
    BY <2>1, <2>2, <2>3 DEF IInv
<1>9. ASSUME NEW pkg \in WhopIds, NEW cfg \in PackageConfigs, SavePackage(pkg, cfg)
      PROVE  IInv'
  <2>1. TypeOK'
    BY <1>9 DEF SavePackage, IInv, TypeOK
  <2>2. cfg # NULL
    BY PackageType
  <2>3. InFlight'
    BY <1>9, <2>2 DEF SavePackage, IInv, TypeOK, InFlight, Reads
  <2>4. AnsweredIsApplied'
    BY <1>9 DEF SavePackage, IInv, AnsweredIsApplied
  <2> QED
    BY <2>1, <2>3, <2>4 DEF IInv
<1>10. ASSUME NEW key \in Keys, remove_entitlement(key)
       PROVE  IInv'
  <2>1. TypeOK'
    BY <1>10 DEF remove_entitlement, IInv, TypeOK
  <2>2. InFlight'
    BY <1>10 DEF remove_entitlement, IInv, InFlight, Reads
  <2>3. AnsweredIsApplied'
    BY <1>10 DEF remove_entitlement, IInv, AnsweredIsApplied
  <2> QED
    BY <2>1, <2>2, <2>3 DEF IInv
<1>11. CASE Tick
  <2>1. TypeOK'
    BY <1>11 DEF Tick, IInv, TypeOK, Time
  <2>2. InFlight'
    BY <1>11 DEF Tick, IInv, InFlight, Reads
  <2>3. AnsweredIsApplied'
    BY <1>11 DEF Tick, IInv, AnsweredIsApplied
  <2> QED
    BY <2>1, <2>2, <2>3 DEF IInv
<1>12. CASE UNCHANGED vars
  <2>1. TypeOK'
    BY <1>12 DEF vars, IInv, TypeOK
  <2>2. InFlight'
    BY <1>12 DEF vars, IInv, InFlight, Reads
  <2>3. AnsweredIsApplied'
    BY <1>12 DEF vars, IInv, AnsweredIsApplied
  <2> QED
    BY <2>1, <2>2, <2>3 DEF IInv
<1> QED
  BY <1>1, <1>2, <1>3, <1>4, <1>5, <1>6, <1>7, <1>8, <1>9, <1>10, <1>11, <1>12,
     FindMappingIInv, ApplyPackageIInv, ApplyDirectIInv
     DEF Next, Step

-----------------------------------------------------------------------------
(* Theorems *)

\* Every reachable state satisfies the invariant.
THEOREM Invariant == Spec => []IInv
<1>1. Init => IInv
  BY InitIInv
<1>2. IInv /\ [Next]_vars => IInv'
  BY NextIInv
<1> QED
  BY <1>1, <1>2, PTL DEF Spec

\* Tables hold rows their schema admits: whatever the events, packages and
\* interleavings, no CHECK, foreign key or UNIQUE constraint can fail.
THEOREM TypesCorrect == Spec => []TypeOK
<1>1. IInv => TypeOK
  BY DEF IInv
<1> QED
  BY <1>1, Invariant, PTL

\* An event is answered or marked 'processed' only after its effect was
\* committed, for any number of requests, crashes and repeated deliveries.
THEOREM AnsweredEventsAreApplied == Spec => []AnsweredIsApplied
<1>1. IInv => AnsweredIsApplied
  BY DEF IInv
<1> QED
  BY <1>1, Invariant, PTL

-----------------------------------------------------------------------------
(* What a transaction does, by product *)

\* What ApplyPackage grants, and for how many days.
GrantedBy(k) ==
  IF worker[k].package.is_active /\ ~worker[k].package.is_ignored
  THEN DOMAIN packages[worker[k].plan].grants ELSE {}

DaysOf(k, p) ==
  LET grants == packages[worker[k].plan].grants
  IN  IF grants[p] # NULL THEN grants[p] ELSE worker[k].package.default_days

RowFor(w, pkg, p) == entitlements[PackageKey(w, pkg, p)]

Applies(k, w, pkg, p) ==
  p \in GrantedBy(k) /\ ~Suppressed(w, pkg, p, RowFor(w, pkg, p), DaysOf(k, p))

\* A row is written, and the ledger gets an entry unless it has one, for each
\* product of the package that is not suppressed, and for nothing else.
LEMMA PackageApplied ==
  ASSUME IInv, NEW k \in Workers, ApplyPackage(k),
         NEW w, w = worker[k].event, NEW pkg, pkg = worker[k].plan
  PROVE  /\ w \in WebhookIds /\ pkg \in WhopIds
         /\ worker[k].package \in PackageConfigs /\ packages[pkg] \in PackageConfigs
         /\ \A p \in GrantedBy(k) : p \in Products /\ DaysOf(k, p) \in MaybeTime
         /\ \A p \in Products : PackageKey(w, pkg, p) \in Keys
         /\ \A p : Applies(k, w, pkg, p) =>
              entitlements'[PackageKey(w, pkg, p)]
                = PackageRow(RowFor(w, pkg, p), Event[w], p, DaysOf(k, p))
         /\ \A key \in Keys :
              \/ entitlements'[key] = entitlements[key]
              \/ \E p : Applies(k, w, pkg, p) /\ key = PackageKey(w, pkg, p)
         /\ ledger' = ledger \cup
              {LedgerEntry(w, pkg, p, RowFor(w, pkg, p), DaysOf(k, p)) :
                 p \in {q \in GrantedBy(k) : Applies(k, w, pkg, q) /\ ~FingerprintKnown(w, pkg, q)}}
         /\ applied' = FirstApplied(w) /\ UNCHANGED <<now, packages, edits>>
<1> DEFINE grants == packages[pkg].grants
           read == worker[k].package
           granted == IF read.is_active /\ ~read.is_ignored THEN DOMAIN grants ELSE {}
           Days(p) == IF grants[p] # NULL THEN grants[p] ELSE read.default_days
           done == {p \in granted : ~Suppressed(w, pkg, p, RowFor(w, pkg, p), Days(p))}
<1>1. /\ w \in WebhookIds /\ pkg \in WhopIds /\ packages[pkg] \in PackageConfigs
      /\ read \in PackageConfigs
  BY DEF ApplyPackage, At, IInv, InFlight, Reads, TypeOK
<1>2. granted = GrantedBy(k) /\ \A p : Days(p) = DaysOf(k, p)
  BY DEF GrantedBy, DaysOf
<1>3. \A p \in granted : p \in Products /\ Days(p) \in MaybeTime
  BY <1>1, PackageType
<1>4. \A p \in Products : PackageKey(w, pkg, p) \in Keys
  BY <1>1 DEF Keys
<1>5. /\ entitlements' = [key \in Keys |->
           IF \E p \in done : key = PackageKey(w, pkg, p)
           THEN PackageRow(entitlements[key], Event[w], key[3], Days(key[3]))
           ELSE entitlements[key]]
      /\ ledger' = ledger \cup
           {LedgerEntry(w, pkg, p, RowFor(w, pkg, p), Days(p)) :
              p \in {q \in done : ~FingerprintKnown(w, pkg, q)}}
      /\ applied' = FirstApplied(w) /\ UNCHANGED <<now, packages, edits>>
  BY DEF ApplyPackage, RowFor
<1> HIDE DEF granted, Days
<1>6. \A p : p \in done <=> Applies(k, w, pkg, p)
  BY <1>2 DEF Applies
<1>7. \A p \in Products : PackageKey(w, pkg, p)[3] = p
  BY DEF PackageKey
<1>8. ASSUME NEW p, Applies(k, w, pkg, p)
      PROVE  entitlements'[PackageKey(w, pkg, p)]
               = PackageRow(RowFor(w, pkg, p), Event[w], p, DaysOf(k, p))
  <2>1. p \in done /\ p \in Products
    BY <1>2, <1>3, <1>6, <1>8 DEF Applies
  <2> HIDE DEF done
  <2> QED
    BY <1>2, <1>4, <1>5, <1>7, <2>1 DEF RowFor
<1>9. ASSUME NEW key \in Keys, entitlements'[key] # entitlements[key]
      PROVE  \E p : Applies(k, w, pkg, p) /\ key = PackageKey(w, pkg, p)
  BY <1>5, <1>6, <1>9
<1>10. {LedgerEntry(w, pkg, p, RowFor(w, pkg, p), Days(p)) :
          p \in {q \in done : ~FingerprintKnown(w, pkg, q)}}
       = {LedgerEntry(w, pkg, p, RowFor(w, pkg, p), DaysOf(k, p)) :
            p \in {q \in GrantedBy(k) : Applies(k, w, pkg, q) /\ ~FingerprintKnown(w, pkg, q)}}
  BY <1>2, <1>6 DEF Applies
<1> QED
  BY <1>1, <1>2, <1>3, <1>4, <1>5, <1>8, <1>9, <1>10

\* Only ApplyPackage writes to the ledger.
LEMMA LedgerStep ==
  ASSUME [Next]_vars, ledger' # ledger
  PROVE  \E k \in Workers : ApplyPackage(k)
BY DEF Next, Step, Lookup, RecordReceived, FindMapping, EnsureCustomer, ApplyDirect,
       MarkProcessed, MarkFailed, Raise, Abort, Crash, SavePackage, remove_entitlement,
       Tick, vars

\* An entry with days is of an event that none in the ledger duplicates.
LEMMA DaysOfNew ==
  ASSUME NEW w, NEW pkg, NEW p, NEW r, NEW days,
         NEW l, l = LedgerEntry(w, pkg, p, r, days)
  PROVE  /\ l.event_fingerprint = GrantFingerprint(w, pkg, p)
         /\ l.customer = Event[w].customer /\ l.package = pkg /\ l.product = p
         /\ l.subscription = Event[w].membership /\ l.grant_kind = GrantKind(Event[w])
         /\ l.period_start = Event[w].start
         /\ l.days_applied > 0 => ~Duplicate(w, pkg, p)
BY DEF LedgerEntry, DaysApplied

\* Of the paid and renewal events that share a period of a membership only one
\* is credited with days, whatever their ids, kinds and order.
THEOREM PeriodsArePaidOnce == Spec => []PeriodPaidOnce
<1> DEFINE Period(l) == <<l.customer, l.package, l.product, l.subscription, l.period_start>>
           Credited(l) == /\ l.subscription # NULL /\ l.period_start # NULL
                          /\ IsPaid(l.grant_kind) /\ l.days_applied > 0
<1>1. Init => PeriodPaidOnce
  BY DEF Init, PeriodPaidOnce
<1>2. ASSUME IInv, PeriodPaidOnce, [Next]_vars
      PROVE  PeriodPaidOnce'
  <2>1. CASE ledger' = ledger
    BY <1>2, <2>1 DEF PeriodPaidOnce
  <2>2. CASE ledger' # ledger
    <3>1. PICK k \in Workers : ApplyPackage(k)
      BY <1>2, <2>2, LedgerStep
    <3> PICK w, pkg : w = worker[k].event /\ pkg = worker[k].plan
      OBVIOUS
    <3> DEFINE new == {LedgerEntry(w, pkg, p, RowFor(w, pkg, p), DaysOf(k, p)) :
                         p \in {q \in GrantedBy(k) : Applies(k, w, pkg, q) /\ ~FingerprintKnown(w, pkg, q)}}
    <3>2. ledger' = ledger \cup new
      BY <1>2, <3>1, PackageApplied
    <3>3. ASSUME NEW l \in new
          PROVE  /\ l = LedgerEntry(w, pkg, l.product, RowFor(w, pkg, l.product), DaysOf(k, l.product))
                 /\ Credited(l) => \A m \in ledger : Credited(m) => Period(l) # Period(m)
      <4>1. PICK p : l = LedgerEntry(w, pkg, p, RowFor(w, pkg, p), DaysOf(k, p))
        OBVIOUS
      <4> HIDE DEF new
      <4>2. /\ l.customer = Event[w].customer /\ l.package = pkg /\ l.product = p
            /\ l.subscription = Event[w].membership /\ l.grant_kind = GrantKind(Event[w])
            /\ l.period_start = Event[w].start
            /\ l.days_applied > 0 => ~Duplicate(w, pkg, p)
        BY <4>1, DaysOfNew
      <4>3. Credited(l) => ~PaidPeriodDuplicate(Event[w], pkg, p)
        BY <4>2 DEF Duplicate
      <4> QED
        BY <4>1, <4>2, <4>3 DEF PaidPeriodDuplicate
    <3> HIDE DEF new
    <3>4. ASSUME NEW l \in ledger', NEW m \in ledger', Credited(l), Credited(m), Period(l) = Period(m)
          PROVE  l = m
      <4>1. CASE l \in new /\ m \in new
        BY <3>3, <3>4, <4>1
      <4>2. CASE l \in ledger /\ m \in ledger
        BY <1>2, <3>4, <4>2 DEF PeriodPaidOnce
      <4> QED
        BY <3>2, <3>3, <3>4, <4>1, <4>2
    <3> QED
      BY <3>4 DEF PeriodPaidOnce
  <2> QED
    BY <2>1, <2>2
<1> QED
  BY <1>1, <1>2, Invariant, PTL DEF Spec

-----------------------------------------------------------------------------
(* What a request has read, while administrators keep out of it *)

OneWorker == \A j, k \in Workers : j = k

\* No package is saved while a request is between its sessions.
Undisturbed == edits = 0 \/ OneWorker

UpToDate(f) ==
  f.pc \in {"mapped", "customer"} =>
    /\ Undisturbed /\ f.plan # NULL => f.package = packages[f.plan]
    /\ edits = 0 => f.plan = FindPackage(Event[f.event])
    /\ edits = 0 => MappedTo(Event[f.event]) # "nothing"

ReadsInv == \A k \in Workers : UpToDate(worker[k])

LEMMA ReadsStep ==
  ASSUME IInv, ReadsInv, [Next]_vars
  PROVE  ReadsInv'
<1>0. worker \in [Workers -> WorkerState] /\ edits \in Nat
  BY DEF IInv, TypeOK
<1>1. ASSUME UNCHANGED <<packages, edits>>,
             \A j \in Workers : \/ worker'[j] = worker[j]
                                \/ worker'[j].pc \notin {"mapped", "customer"}
                                \/ UpToDate(worker'[j])
      PROVE  ReadsInv'
  <2> SUFFICES ASSUME NEW j \in Workers PROVE UpToDate(worker[j])'
    BY DEF ReadsInv
  <2>1. CASE worker'[j] = worker[j]
    BY <1>1, <2>1 DEF ReadsInv, UpToDate, Undisturbed, MappedTo, FindPackage
  <2>2. CASE worker'[j].pc \notin {"mapped", "customer"}
    BY <2>2 DEF UpToDate
  <2>3. CASE UpToDate(worker'[j])
    BY <1>1, <2>3 DEF UpToDate, Undisturbed, MappedTo, FindPackage
  <2> QED
    BY <1>1, <2>1, <2>2, <2>3
<1>2. ASSUME NEW k \in Workers, FindMapping(k)
      PROVE  ReadsInv'
  <2> DEFINE e   == Event[worker[k].event]
             pkg == FindPackage(e)
  <2>1. worker[k].plan = NULL
    BY <1>2 DEF FindMapping, At, IInv, InFlight, Reads
  <2>2. /\ worker'[k].event = worker[k].event
        /\ \A j \in Workers \ {k} : worker'[j] = worker[j]
    BY <1>0, <1>2 DEF FindMapping, Goto, WorkerState
  <2>3. CASE pkg # NULL
    <3> DEFINE g == [worker[k] EXCEPT !.pc = "mapped", !.plan = pkg, !.package = packages[pkg]]
    <3>0. worker' = [worker EXCEPT ![k] = g] /\ worker[k] \in WorkerState
      BY <1>0, <1>2, <2>3 DEF FindMapping
    <3> HIDE DEF pkg
    <3>1. worker'[k].plan = pkg /\ worker'[k].package = packages[pkg]
      <4>1. g.plan = pkg /\ g.package = packages[pkg]
        BY <3>0 DEF WorkerState
      <4> HIDE DEF g
      <4> QED
        BY <1>0, <3>0, <4>1
    <3> USE DEF pkg
    <3>2. UpToDate(worker'[k])
      BY <2>2, <2>3, <3>1 DEF UpToDate, MappedTo
    <3> QED
      BY <1>1, <1>2, <2>2, <3>2 DEF FindMapping
  <2>4. CASE pkg = NULL /\ FindProduct(e) # NULL
    <3>1. worker'[k].plan = NULL
      BY <1>0, <1>2, <2>1, <2>4 DEF FindMapping, WorkerState
    <3>2. UpToDate(worker'[k])
      BY <2>2, <2>4, <3>1 DEF UpToDate, MappedTo
    <3> QED
      BY <1>1, <1>2, <2>2, <3>2 DEF FindMapping
  <2>5. CASE pkg = NULL /\ FindProduct(e) = NULL
    <3>1. worker'[k].pc = "done"
      BY <1>0, <1>2, <2>5 DEF FindMapping, Goto, WorkerState
    <3> QED
      BY <1>1, <1>2, <2>2, <3>1 DEF FindMapping
  <2> QED
    BY <2>3, <2>4, <2>5
<1>3. ASSUME NEW k \in Workers, EnsureCustomer(k)
      PROVE  ReadsInv'
  <2>1. /\ worker[k].pc = "mapped"
        /\ worker'[k].plan = worker[k].plan /\ worker'[k].package = worker[k].package
        /\ worker'[k].event = worker[k].event
        /\ \A j \in Workers \ {k} : worker'[j] = worker[j]
    BY <1>0, <1>3 DEF EnsureCustomer, At, Goto, WorkerState
  <2>2. UpToDate(worker'[k])
    BY <2>1 DEF ReadsInv, UpToDate
  <2> QED
    BY <1>1, <1>3, <2>1, <2>2 DEF EnsureCustomer
<1>4. ASSUME NEW k \in Workers,
             \/ RecordReceived(k) \/ ApplyPackage(k) \/ ApplyDirect(k) \/ MarkProcessed(k)
             \/ MarkFailed(k) \/ Raise(k) \/ Abort(k) \/ \E w \in WebhookIds : Lookup(k, w)
      PROVE  ReadsInv'
  <2>1. UNCHANGED <<packages, edits>>
    BY <1>4 DEF RecordReceived, ApplyPackage, ApplyDirect, MarkProcessed, MarkFailed, Raise,
                Abort, Lookup
  <2>2. /\ \A j \in Workers \ {k} : worker'[j] = worker[j]
        /\ worker'[k] = worker[k] \/ worker'[k].pc \in {"idle", "new", "received", "done", "raised"}
    <3>1. CASE RecordReceived(k) \/ ApplyPackage(k) \/ ApplyDirect(k) \/ Raise(k)
      <4>1. \E pc \in {"received", "done", "raised"} : worker' = [worker EXCEPT ![k].pc = pc]
        BY <3>1 DEF RecordReceived, ApplyPackage, ApplyDirect, Raise, Goto
      <4> QED
        BY <1>0, <4>1 DEF WorkerState
    <3>2. CASE MarkProcessed(k) \/ MarkFailed(k) \/ Abort(k)
      BY <1>0, <3>2 DEF MarkProcessed, MarkFailed, Abort, Finish, Idle
    <3>3. CASE \E w \in WebhookIds : Lookup(k, w)
      BY <1>0, <3>3 DEF Lookup, Idle
    <3> QED
      BY <1>4, <3>1, <3>2, <3>3
  <2> QED
    BY <1>1, <2>1, <2>2
<1>5. CASE Crash
  <2>1. \A j \in Workers : worker'[j].pc = "idle"
    BY <1>5 DEF Crash, Idle
  <2> QED
    BY <1>1, <1>5, <2>1 DEF Crash
<1>6. CASE Tick \/ UNCHANGED vars
  BY <1>1, <1>6 DEF Tick, vars
<1>7. ASSUME \/ \E pkg \in WhopIds, cfg \in PackageConfigs : SavePackage(pkg, cfg)
             \/ \E key \in Keys : remove_entitlement(key)
      PROVE  ReadsInv'
  <2>1. edits' # 0 /\ worker' = worker /\ ServerFree
    BY <1>0, <1>7 DEF SavePackage, remove_entitlement
  <2>2. OneWorker => \A k \in Workers : worker'[k].pc = "idle"
    BY <2>1 DEF OneWorker, ServerFree, At
  <2>3. \A k \in Workers : UpToDate(worker[k])'
    BY <2>1, <2>2 DEF UpToDate, Undisturbed, OneWorker
  <2> QED
    BY <2>3 DEF ReadsInv
<1> QED
  BY <1>2, <1>3, <1>4, <1>5, <1>6, <1>7 DEF Next, Step

\* What every request has read is what it would read again.
LEMMA ReadsAreCurrent == Spec => [](IInv /\ ReadsInv)
<1>1. Init => ReadsInv
  BY DEF Init, ReadsInv, UpToDate, Idle
<1>2. IInv /\ ReadsInv /\ [Next]_vars => ReadsInv'
  BY ReadsStep
<1> QED
  BY <1>1, <1>2, Invariant, PTL DEF Spec

-----------------------------------------------------------------------------
(* The subscription *)

\* Steps other than the applications of an event leave subscriptions, rows,
\* ledger and applied alone, unless an administrator acts.
LEMMA EffectStep ==
  ASSUME IInv, [Next]_vars, edits' = 0
  PROVE  /\ edits = 0 /\ packages' = packages
         /\ \/ UNCHANGED <<subscriptions, entitlements, ledger, applied>>
            \/ \E k \in Workers : FindMapping(k) \/ ApplyPackage(k) \/ ApplyDirect(k)
<1>1. edits \in Nat
  BY DEF IInv, TypeOK
<1>2. ASSUME NEW k \in Workers, Step(k)
      PROVE  /\ UNCHANGED <<edits, packages>>
             /\ \/ UNCHANGED <<subscriptions, entitlements, ledger, applied>>
                \/ FindMapping(k) \/ ApplyPackage(k) \/ ApplyDirect(k)
  BY <1>2 DEF Step, RecordReceived, FindMapping, EnsureCustomer, ApplyPackage, ApplyDirect,
              MarkProcessed, MarkFailed
<1>3. ASSUME NEW k \in Workers, Raise(k) \/ Abort(k) \/ \E w \in WebhookIds : Lookup(k, w)
      PROVE  UNCHANGED <<edits, packages, subscriptions, entitlements, ledger, applied>>
  BY <1>3 DEF Raise, Abort, Lookup
<1>4. ASSUME Crash \/ Tick \/ UNCHANGED vars
      PROVE  UNCHANGED <<edits, packages, subscriptions, entitlements, ledger, applied>>
  BY <1>4 DEF Crash, Tick, vars
<1>5. ASSUME \/ \E pkg \in WhopIds, cfg \in PackageConfigs : SavePackage(pkg, cfg)
             \/ \E key \in Keys : remove_entitlement(key)
      PROVE  FALSE
  BY <1>1, <1>5 DEF SavePackage, remove_entitlement
<1> QED
  BY <1>2, <1>3, <1>4, <1>5 DEF Next

\* The event of an application is applied, and no other one newly so.
LEMMA AppliedAfter ==
  ASSUME IInv, NEW w \in WebhookIds, applied' = FirstApplied(w)
  PROVE  /\ applied' \in [WebhookIds -> MaybeTime] /\ applied'[w] # NULL
         /\ applied'[w] = IF applied[w] = NULL THEN now ELSE applied[w]
         /\ \A v \in WebhookIds : v # w => applied'[v] = applied[v]
BY EventsAssumption DEF IInv, TypeOK, FirstApplied, OrElse, MaybeTime, Time

\* The applied events of a membership that a package or product maps.
Naming(m) ==
  {w \in WebhookIds : /\ applied[w] # NULL /\ Event[w].membership = m
                      /\ MappedTo(Event[w]) # "nothing"}

\* A subscription row ends with the latest period of some events.
EndsLatest(row, events) ==
  /\ \A w \in events : row # NULL /\ later_time(row.end, Event[w].end) = row.end
  /\ row # NULL => \E w \in events : row.end = Event[w].end

\* One more event, and the row that _upsert_whop_subscription writes for it.
LEMMA OneMorePeriod ==
  ASSUME NEW row \in SubscriptionRow \cup {NULL}, NEW events \in SUBSET WebhookIds,
         EndsLatest(row, events), NEW w \in WebhookIds
  PROVE  EndsLatest(UpdatedSubscription(Event[w], row), events \cup {w})
<1> DEFINE s == UpdatedSubscription(Event[w], row)
<1> SUFFICES EndsLatest(s, events \cup {w})
  OBVIOUS
<1>1. s # NULL /\ s \in SubscriptionRow
  <2>1. s \in SubscriptionRow
    BY SubscriptionType
  <2>2. NULL \notin SubscriptionRow
    BY PackagesAssumption
  <2> QED
    BY <2>1, <2>2
<1>2. \A v \in WebhookIds : Event[v].end \in MaybeTime
  BY EventType
<1>3. CASE row = NULL
  <2>1. s.end = Event[w].end
    BY <1>3 DEF UpdatedSubscription
  <2>2. events = {}
    BY <1>3 DEF EndsLatest
  <2>3. later_time(s.end, Event[w].end) = s.end
    BY <1>2, <2>1 DEF later_time, MaybeTime
  <2> HIDE DEF s
  <2> QED
    BY <1>1, <2>1, <2>2, <2>3 DEF EndsLatest
<1>4. CASE row # NULL
  <2>1. s.end = later_time(row.end, Event[w].end)
    BY <1>4 DEF UpdatedSubscription
  <2>2. row.end \in MaybeTime
    BY <1>4 DEF SubscriptionRow
  <2> HIDE DEF s
  <2>3. \A v \in events \cup {w} : later_time(s.end, Event[v].end) = s.end
    <3>1. later_time(s.end, Event[w].end) = s.end
      BY <1>2, <2>1, <2>2 DEF later_time, MaybeTime
    <3>2. ASSUME NEW v \in events PROVE later_time(s.end, Event[v].end) = s.end
      <4>1. later_time(row.end, Event[v].end) = row.end /\ Event[v].end \in MaybeTime
        BY <1>2 DEF EndsLatest
      <4> QED
        BY <1>2, <2>1, <2>2, <4>1, EventsAssumption DEF later_time, MaybeTime
    <3> QED
      BY <3>1, <3>2
  <2>4. s.end = row.end \/ s.end = Event[w].end
    BY <2>1 DEF later_time
  <2> QED
    BY <1>1, <1>4, <2>3, <2>4 DEF EndsLatest
<1> QED
  BY <1>3, <1>4

\* The subscription carries the latest period of the applied events, in
\* whatever order and however often they were applied.
THEOREM SubscriptionIsLatest == Spec => []SubscriptionPeriodIsLatest
<1> DEFINE Latest == edits = 0 => \A m \in Ids : EndsLatest(subscriptions[m], Naming(m))
<1>1. Init => Latest
  BY DEF Init, EndsLatest, Naming
<1>2. ASSUME IInv, ReadsInv, Latest, [Next]_vars
      PROVE  Latest'
  <2> SUFFICES ASSUME edits' = 0, NEW m \in Ids
               PROVE  EndsLatest(subscriptions'[m], Naming(m)')
    OBVIOUS
  <2>1. edits = 0 /\ packages' = packages /\ EndsLatest(subscriptions[m], Naming(m))
    BY <1>2, EffectStep
  <2>2. \A w \in WebhookIds : MappedTo(Event[w])' = MappedTo(Event[w])
    BY <2>1 DEF MappedTo, FindPackage
  <2>3. CASE UNCHANGED <<subscriptions, entitlements, ledger, applied>>
    <3>1. Naming(m)' = Naming(m)
      BY <2>2, <2>3 DEF Naming
    <3> QED
      BY <2>1, <2>3, <3>1
  <2>4. ASSUME NEW k \in Workers, FindMapping(k)
        PROVE  EndsLatest(subscriptions'[m], Naming(m)')
    <3> DEFINE w == worker[k].event
    <3>1. w \in WebhookIds
      BY <1>2, <2>4, EventOf DEF FindMapping, At
    <3>2. \/ applied' = applied
          \/ applied' = FirstApplied(w) /\ MappedTo(Event[w]) = "nothing"
      <4>1. CASE FindPackage(Event[w]) = NULL /\ FindProduct(Event[w]) = NULL
        BY <2>4, <4>1 DEF FindMapping, MappedTo
      <4>2. CASE FindPackage(Event[w]) # NULL
        BY <2>4, <4>2 DEF FindMapping
      <4>3. CASE FindPackage(Event[w]) = NULL /\ FindProduct(Event[w]) # NULL
        BY <2>4, <4>3 DEF FindMapping
      <4> QED
        BY <4>1, <4>2, <4>3
    <3>3. Naming(m)' = Naming(m)
      BY <1>2, <2>2, <3>1, <3>2, AppliedAfter DEF Naming
    <3>4. subscriptions' = subscriptions
      BY <2>4 DEF FindMapping
    <3> QED
      BY <2>1, <3>3, <3>4
  <2>5. ASSUME NEW k \in Workers, ApplyPackage(k) \/ ApplyDirect(k)
        PROVE  EndsLatest(subscriptions'[m], Naming(m)')
    <3> DEFINE w == worker[k].event
    <3>1. w \in WebhookIds /\ MappedTo(Event[w]) # "nothing"
      BY <1>2, <2>1, <2>5, EventOf DEF ApplyPackage, ApplyDirect, At, ReadsInv, UpToDate
    <3>2. applied' = FirstApplied(w) /\ UpsertSubscription(Event[w])
      BY <2>5 DEF ApplyPackage, ApplyDirect
    <3> HIDE DEF w
    <3>3. subscriptions \in [Ids -> SubscriptionRow \cup {NULL}]
      BY <1>2 DEF IInv, TypeOK
    <3>4. CASE Event[w].membership = m
      <4>1. subscriptions'[m] = UpdatedSubscription(Event[w], subscriptions[m])
        BY <3>2, <3>3, <3>4, EventsAssumption DEF UpsertSubscription
      <4>2. Naming(m)' = Naming(m) \cup {w}
        BY <1>2, <2>2, <3>1, <3>2, <3>4, AppliedAfter DEF Naming
      <4>3. EndsLatest(UpdatedSubscription(Event[w], subscriptions[m]), Naming(m) \cup {w})
        BY <2>1, <3>1, <3>3, OneMorePeriod DEF Naming
      <4> QED
        BY <4>1, <4>2, <4>3
    <3>5. CASE Event[w].membership # m
      <4>1. subscriptions'[m] = subscriptions[m]
        BY <3>2, <3>3, <3>5 DEF UpsertSubscription
      <4>2. Naming(m)' = Naming(m)
        BY <1>2, <2>2, <3>1, <3>2, <3>5, AppliedAfter DEF Naming
      <4> QED
        BY <2>1, <4>1, <4>2
    <3> QED
      BY <3>4, <3>5
  <2> QED
    BY <1>2, <2>3, <2>4, <2>5, EffectStep
<1>3. Latest => SubscriptionPeriodIsLatest
  BY DEF SubscriptionPeriodIsLatest, EndsLatest, Naming
<1> HIDE DEF Latest
<1> QED
  BY <1>1, <1>2, <1>3, ReadsAreCurrent, PTL DEF Spec
=============================================================================
