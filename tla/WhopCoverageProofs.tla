------------------------- MODULE WhopCoverageProofs -------------------------
(***************************************************************************)
(* That webhooks and administrators do to the rows of entitlements only    *)
(* what Coverage allows, and what follows for one row: coverage never      *)
(* shrinks, and a license that was lost returns only with more of it.      *)
(*                                                                         *)
(* Every step leaves a row alone, removes it, or writes it with NewRow     *)
(* (RowStep); the lemmas before say what NewRow does to any row, for any   *)
(* event, date and number of days.                                         *)
(*                                                                         *)
(* Then what the rows owe to the events: a row covers what the grants that *)
(* were applied asked for, its date is one an applied event asked for, a   *)
(* payment without dates adds its days once, and a grant that is applied   *)
(* again changes nothing.  These hold for events as Whop sends them; the   *)
(* conditions are hypotheses of the theorems.                              *)
(***************************************************************************)
EXTENDS WhopGrantsProofs, FiniteSetTheorems

\* The ways NewRow is used: what a row keeps is its expiry or what it reaches.
Written(r, s) ==
  \E e \in EventRecord, prod \in Products,
     target \in MaybeTime, kept \in MaybeTime, dated \in MaybeTime :
    /\ GrantKind(e) # "ignored"
    /\ r # NULL => kept \in {r.expires, Reach(r, target)}
    /\ s = NewRow(r, e, prod, NewOutcome(r, e, target, kept, dated))

\* What _apply_whop_package_grant writes, by the kind of the event.
LEMMA PackageRowWritten ==
  ASSUME NEW r \in Row \cup {NULL}, NEW w \in WebhookIds, NEW prod \in Products,
         NEW days \in MaybeTime, now \in Nat, GrantKind(Event[w]) # "ignored"
  PROVE  Written(r, PackageRow(r, Event[w], prod, days))
<1>1. Event[w] \in EventRecord
  BY EventType
<1>2. Expiry(r) \in MaybeTime
  BY DEF Expiry, Row, MaybeTime
<1> DEFINE target == GrantTarget(Event[w], Expiry(r), days, now)
           kept   == IF r = NULL THEN target ELSE r.expires
<1>3. target \in MaybeTime
  BY <1>1, <1>2, TargetType
<1>4. kept \in MaybeTime
  BY <1>3 DEF Row
<1>5. PackageRow(r, Event[w], prod, days) =
        NewRow(r, Event[w], prod, NewOutcome(r, Event[w], target, kept, target))
  BY DEF PackageRow
<1>6. r # NULL => kept \in {r.expires, Reach(r, target)}
  OBVIOUS
<1> HIDE DEF target, kept
<1> QED
  BY <1>1, <1>3, <1>4, <1>5, <1>6 DEF Written

\* What _upsert_direct_whop_entitlement writes, by the kind of the event.
LEMMA DirectRowWritten ==
  ASSUME NEW r \in Row \cup {NULL}, NEW w \in WebhookIds, NEW prod \in Products,
         now \in Nat, GrantKind(Event[w]) # "ignored"
  PROVE  Written(r, DirectRow(r, Event[w], prod))
<1>1. Event[w] \in EventRecord
  BY EventType
<1> DEFINE target == entitlement_expiry_target(Event[w], NULL, now)
           kept   == Reach(r, target)
<1>2. target \in MaybeTime
  BY <1>1, TargetType DEF MaybeTime
<1>3. kept \in MaybeTime
  BY <1>2 DEF Reach, later_time, MaybeTime, Expiry, Row
<1>4. DirectRow(r, Event[w], prod) =
        NewRow(r, Event[w], prod, NewOutcome(r, Event[w], target, kept, kept))
  BY DEF DirectRow
<1>5. r # NULL => kept \in {r.expires, Reach(r, target)}
  OBVIOUS
<1> HIDE DEF target, kept
<1> QED
  BY <1>1, <1>2, <1>3, <1>4, <1>5 DEF Written

\* Only three actions touch entitlements, and none of them moves the clock.
LEMMA RowStep ==
  ASSUME IInv, [Next]_vars, NEW key \in Keys
  PROVE  \/ entitlements'[key] = entitlements[key]
         \/ entitlements'[key] = NULL /\ now' = now
         \/ Written(entitlements[key], entitlements'[key]) /\ now' = now
<1>1. entitlements \in [Keys -> Row \cup {NULL}] /\ now \in Nat
  BY DEF IInv, TypeOK, Time
<1>2. ASSUME NEW k \in Workers, ApplyPackage(k)
      PROVE  \/ entitlements'[key] = entitlements[key]
             \/ Written(entitlements[key], entitlements'[key]) /\ now' = now
  <2> DEFINE w   == worker[k].event
             pkg == worker[k].plan
             read == worker[k].package
             grants == packages[pkg].grants
             granted == IF read.is_active /\ ~read.is_ignored THEN DOMAIN grants ELSE {}
             Days(p) == IF grants[p] # NULL THEN grants[p] ELSE read.default_days
             RowOf(p) == entitlements[PackageKey(w, pkg, p)]
             done == {p \in granted : ~Suppressed(w, pkg, p, RowOf(p), Days(p))}
  <2>1. w \in WebhookIds /\ pkg \in WhopIds /\ packages[pkg] \in PackageConfigs
        /\ read \in PackageConfigs
    BY <1>2 DEF ApplyPackage, At, IInv, InFlight, Reads, TypeOK
  <2>2. SUFFICES ASSUME NEW p \in done, key = PackageKey(w, pkg, p)
                 PROVE  Written(entitlements[key], entitlements'[key]) /\ now' = now
    BY <1>2 DEF ApplyPackage
  <2>3. p \in Products /\ Days(p) \in MaybeTime
    BY <2>1, PackageType
  <2>4. key[3] = p
    BY <2>2 DEF PackageKey
  <2>5. entitlements'[key] = PackageRow(entitlements[key], Event[w], p, Days(p)) /\ now' = now
    BY <1>2, <2>2, <2>4 DEF ApplyPackage
  <2>6. GrantKind(Event[w]) # "ignored"
    BY <2>2 DEF Suppressed
  <2> HIDE DEF w, Days
  <2>7. Written(entitlements[key], PackageRow(entitlements[key], Event[w], p, Days(p)))
    BY <1>1, <2>1, <2>3, <2>6, PackageRowWritten
  <2> QED
    BY <2>5, <2>7
<1>3. ASSUME NEW k \in Workers, ApplyDirect(k)
      PROVE  \/ entitlements'[key] = entitlements[key]
             \/ Written(entitlements[key], entitlements'[key]) /\ now' = now
  <2> DEFINE w == worker[k].event
             prod == worker[k].product
  <2>1. w \in WebhookIds /\ prod \in Products
    BY <1>3, PackagesAssumption, EventsAssumption DEF ApplyDirect, At, IInv, InFlight, Reads
  <2>2. CASE key = DirectKey(w) /\ GrantKind(Event[w]) # "ignored"
    <3>1. entitlements'[key] = DirectRow(entitlements[key], Event[w], prod) /\ now' = now
      BY <1>1, <1>3, <2>2 DEF ApplyDirect
    <3>2. Written(entitlements[key], DirectRow(entitlements[key], Event[w], prod))
      BY <1>1, <2>1, <2>2, DirectRowWritten
    <3> QED
      BY <3>1, <3>2
  <2>3. CASE key = DirectKey(w) /\ GrantKind(Event[w]) = "ignored"
    BY <1>1, <1>3, <2>3 DEF ApplyDirect, DirectRow
  <2>4. CASE key # DirectKey(w)
    BY <1>1, <1>3, <2>4 DEF ApplyDirect
  <2> QED
    BY <2>2, <2>3, <2>4
<1>4. ASSUME NEW k2 \in Keys, remove_entitlement(k2)
      PROVE  \/ entitlements'[key] = entitlements[key]
             \/ entitlements'[key] = NULL /\ now' = now
  BY <1>1, <1>4 DEF remove_entitlement
<1>5. ASSUME NEW k \in Workers,
             \/ RecordReceived(k) \/ FindMapping(k) \/ EnsureCustomer(k)
             \/ MarkProcessed(k) \/ MarkFailed(k) \/ Raise(k) \/ Abort(k)
      PROVE  entitlements' = entitlements
  BY <1>5 DEF RecordReceived, FindMapping, EnsureCustomer, MarkProcessed, MarkFailed, Raise, Abort
<1>6. ASSUME NEW k \in Workers, NEW w \in WebhookIds, Lookup(k, w)
      PROVE  entitlements' = entitlements
  BY <1>6 DEF Lookup
<1>7. ASSUME \/ Crash \/ Tick \/ UNCHANGED vars
             \/ \E pkg \in WhopIds, cfg \in PackageConfigs : SavePackage(pkg, cfg)
      PROVE  entitlements' = entitlements
  BY <1>7 DEF Crash, Tick, vars, SavePackage
<1> QED
  BY <1>2, <1>3, <1>4, <1>5, <1>6, <1>7 DEF Next, Step

-----------------------------------------------------------------------------
(* What a write does to one row *)

\* The grants are the events whose status is usable.
LEMMA GrantStatus ==
  ASSUME NEW e, GrantKind(e) # "ignored"
  PROVE  /\ IsGrant(GrantKind(e)) <=>
              normalize_entitlement_status(e.raw, e.event) \in {"active", "trialing"}
         /\ GrantKind(e) \in {"trial", "paid", "renewal", "revoke", "expire", "suspend"}
BY DEF GrantKind, normalize_entitlement_status, is_cancel_at_period_end_event, IsGrant

\* Reach is the later of the two dates, and none when the row has none.
LEMMA ReachForward ==
  ASSUME NEW r \in Row, NEW target \in MaybeTime
  PROVE  /\ r.expires = NULL => Reach(r, target) = NULL
         /\ r.expires # NULL =>
              /\ Reach(r, target) \in Nat
              /\ Reach(r, target) >= r.expires
              /\ Reach(r, target) # r.expires <=> Extends(r, target)
<1>1. r.expires \in MaybeTime /\ r # NULL
  BY PackagesAssumption DEF Row
<1> QED
  BY <1>1, EventsAssumption DEF Reach, Expiry, later_time, Extends, MaybeTime

\* What the statuses and flags of a row always satisfy.
Fits(r) ==
  /\ r.status # "pending"
  /\ r.revoked => r.status = "revoked"
  /\ r.status = "expired" => r.expires # NULL

\* A row that is written over keeps its date or moves it forward; it leaves
\* revocation or suspension only with a later date, and lapses only once its
\* date has passed.
LEMMA WriteEffect ==
  ASSUME NEW r \in Row, NEW s, Fits(r), Written(r, s), now \in Nat
  PROVE  /\ s \in Row /\ Fits(s)
         /\ \/ s.expires = r.expires
            \/ r.expires # NULL /\ s.expires # NULL /\ s.expires > r.expires
            \/ r.expires = NULL /\ s.status \in {"revoked", "suspended"}
         /\ r.status \in {"revoked", "suspended"} /\ s.status \in {"active", "trialing"}
              => s.expires # r.expires
         /\ s.status = "expired" =>
              /\ s.expires = r.expires /\ s.expires <= now
              /\ ~Licensed(s, now)
         /\ r.starts <= now /\ ~Licensed(r, now) /\ Licensed(s, now)
              => s.expires # r.expires
<1> PICK e \in EventRecord, prod \in Products,
         target \in MaybeTime, kept \in MaybeTime, dated \in MaybeTime :
           /\ GrantKind(e) # "ignored"
           /\ r # NULL => kept \in {r.expires, Reach(r, target)}
           /\ s = NewRow(r, e, prod, NewOutcome(r, e, target, kept, dated))
  BY DEF Written
<1> DEFINE o == NewOutcome(r, e, target, kept, dated)
<1>1. r # NULL /\ r.expires \in MaybeTime /\ r.status \in EntitlementStatuses /\ r.revoked \in BOOLEAN
  BY PackagesAssumption DEF Row
<1>2. s \in Row
  BY NewRowType
<1>3. s.status = o.status /\ s.expires = o.expires /\ s.revoked = o.revoked
  BY DEF NewRow
<1>4. NULL \notin Nat
  BY EventsAssumption
<1>5. \/ kept = r.expires
      \/ r.expires # NULL /\ kept # NULL /\ kept > r.expires
  BY <1>1, <1>4, ReachForward DEF MaybeTime
<1>6. CASE IsGrant(GrantKind(e))
  <2>1. o = Granted(r, e, target)
    BY <1>6 DEF NewOutcome
  <2>2. o.expires = Reach(r, target)
    BY <2>1 DEF Granted, Outcome
  <2>3. \/ o.status = r.status /\ o.revoked = r.revoked
           /\ r.status \in {"revoked", "suspended"} /\ ~Extends(r, target)
        \/ o.status \in {"active", "trialing"} /\ o.revoked = FALSE
           /\ (r.status \in {"revoked", "suspended"} => Extends(r, target))
    <3>1. normalize_entitlement_status(e.raw, e.event) \in {"active", "trialing"}
      BY <1>6, GrantStatus
    <3> DEFINE status == IF r.status = "active" /\ GrantKind(e) = "trial" THEN "active"
                         ELSE normalize_entitlement_status(e.raw, e.event)
    <3>2. CASE r.status \in {"revoked", "suspended"} /\ ~Extends(r, target)
      <4>1. o = [status |-> r.status, expires |-> Reach(r, target), revoked |-> r.revoked]
        BY <1>1, <2>1, <3>2 DEF Granted, Outcome
      <4> QED
        BY <3>2, <4>1
    <3>3. CASE ~(r.status \in {"revoked", "suspended"} /\ ~Extends(r, target))
      <4>1. o = [status |-> status, expires |-> Reach(r, target), revoked |-> FALSE]
        BY <1>1, <2>1, <3>3 DEF Granted, Outcome
      <4>2. status \in {"active", "trialing"}
        BY <3>1
      <4> HIDE DEF o, status
      <4>3. o.status = status /\ o.revoked = FALSE
        BY <4>1
      <4> QED
        BY <3>3, <4>2, <4>3
    <3> QED
      BY <3>2, <3>3
  <2>4. Extends(r, target) => Reach(r, target) # r.expires
    BY <1>1, ReachForward DEF Extends
  <2>5. \/ s.expires = r.expires
        \/ r.expires # NULL /\ s.expires # NULL /\ s.expires > r.expires
    BY <1>1, <1>3, <2>2, ReachForward, <1>4 DEF MaybeTime
  <2> HIDE DEF o
  <2>6. s.status # "expired" /\ Fits(s)
    BY <1>3, <2>3 DEF Fits
  <2>7. r.status \in {"revoked", "suspended"} /\ s.status \in {"active", "trialing"}
          => s.expires # r.expires
    BY <1>3, <2>2, <2>3, <2>4
  <2>8. r.starts <= now /\ ~Licensed(r, now) /\ Licensed(s, now) => s.expires # r.expires
    BY <1>1, <1>3, <2>3, <2>7 DEF Licensed, Fits, EntitlementStatuses
  <2> QED
    BY <1>2, <2>5, <2>6, <2>7, <2>8
<1>7. CASE GrantKind(e) = "revoke"
  <2>1. s.status = "revoked" /\ s.expires = kept /\ s.revoked
    BY <1>3, <1>7 DEF NewOutcome, IsGrant, Outcome
  <2> QED
    BY <1>2, <1>5, <2>1 DEF Fits, Licensed
<1>8. CASE GrantKind(e) = "expire"
  <2>1. o = Lapsed(r, kept, dated)
    BY <1>8 DEF NewOutcome, IsGrant
  <2>2. CASE r.expires = NULL \/ r.expires > now
    <3> DEFINE status == IF r.status = "expired" /\ ~r.revoked THEN "active" ELSE r.status
    <3>0. o = [status |-> status, expires |-> kept, revoked |-> r.revoked]
      BY <1>1, <2>1, <2>2 DEF Lapsed, Outcome
    <3>1. s.status = status /\ s.expires = kept /\ s.revoked = r.revoked
      BY <1>3, <3>0
    <3>2. s.status # "expired" /\ Fits(s)
      BY <3>1 DEF Fits
    <3>3. r.starts <= now /\ ~Licensed(r, now) => ~Licensed(s, now)
      BY <1>1, <2>2, <3>1 DEF Licensed, Fits, EntitlementStatuses
    <3> QED
      BY <1>2, <1>5, <3>1, <3>2, <3>3
  <2>3. CASE r.expires # NULL /\ ~(r.expires > now)
    <3>1. s.status = "expired" /\ s.expires = r.expires /\ s.revoked = FALSE
      BY <1>1, <1>3, <2>1, <2>3 DEF Lapsed, Outcome, OrElse, Expiry
    <3>2. s.expires \in Nat /\ s.expires <= now
      BY <1>1, <2>3, <3>1 DEF MaybeTime
    <3> QED
      BY <1>2, <2>3, <3>1, <3>2 DEF Fits, Licensed
  <2> QED
    BY <2>2, <2>3
<1>9. CASE GrantKind(e) = "suspend"
  <2>1. s.status = "suspended" /\ s.expires = OrElse(Expiry(r), dated) /\ s.revoked = FALSE
    BY <1>3, <1>9 DEF NewOutcome, IsGrant, Outcome
  <2>2. r.expires # NULL => s.expires = r.expires
    BY <1>1, <2>1 DEF OrElse, Expiry
  <2> QED
    BY <1>2, <2>1, <2>2 DEF Fits, Licensed
<1> QED
  BY <1>6, <1>7, <1>8, <1>9, GrantStatus DEF IsGrant

\* A row that is written for the first time fits as well.
LEMMA FirstWrite ==
  ASSUME NEW s, Written(NULL, s), now \in Nat
  PROVE  s \in Row /\ Fits(s)
<1> PICK e \in EventRecord, prod \in Products,
         target \in MaybeTime, kept \in MaybeTime, dated \in MaybeTime :
           /\ GrantKind(e) # "ignored"
           /\ s = NewRow(NULL, e, prod, NewOutcome(NULL, e, target, kept, dated))
  BY DEF Written
<1> DEFINE o == NewOutcome(NULL, e, target, kept, dated)
<1>1. s.status = o.status /\ s.expires = o.expires /\ s.revoked = o.revoked
  BY DEF NewRow
<1>2. s \in Row
  BY NewRowType
<1>3. IsGrant(GrantKind(e)) => o.status \in {"active", "trialing"} /\ o.revoked = FALSE
  BY GrantStatus DEF NewOutcome, Granted, Outcome
<1>4. GrantKind(e) = "expire" => o.status = "expired" /\ o.expires # NULL /\ o.revoked = FALSE
  BY EventsAssumption DEF NewOutcome, Lapsed, Outcome, IsGrant, OrElse, Expiry
<1>5. GrantKind(e) \in {"revoke", "suspend"} =>
        \/ o.status = "revoked"
        \/ o.status = "suspended" /\ o.revoked = FALSE
  BY DEF NewOutcome, Outcome, IsGrant
<1> HIDE DEF o
<1> QED
  BY <1>1, <1>2, <1>3, <1>4, <1>5, GrantStatus DEF Fits, IsGrant

\* Only Tick moves the clock, and it moves nothing else.
LEMMA ClockStep ==
  ASSUME now \in Nat, [Next]_vars
  PROVE  /\ now' \in Nat /\ now' >= now
         /\ now' # now => now' > now /\ entitlements' = entitlements
<1>1. CASE Tick
  BY <1>1 DEF Tick
<1>2. ASSUME NEW k \in Workers,
             \/ Step(k) \/ Raise(k) \/ Abort(k) \/ \E w \in WebhookIds : Lookup(k, w)
      PROVE  now' = now
  BY <1>2 DEF Step, Lookup, RecordReceived, FindMapping, EnsureCustomer, ApplyPackage,
              ApplyDirect, MarkProcessed, MarkFailed, Raise, Abort
<1>3. ASSUME \/ Crash \/ UNCHANGED vars
             \/ \E pkg \in WhopIds, cfg \in PackageConfigs : SavePackage(pkg, cfg)
             \/ \E key \in Keys : remove_entitlement(key)
      PROVE  now' = now
  BY <1>3 DEF Crash, vars, SavePackage, remove_entitlement
<1> QED
  BY <1>1, <1>2, <1>3 DEF Next

-----------------------------------------------------------------------------
(* The invariant of the rows *)

RowsFit == \A key \in Keys : entitlements[key] # NULL => Fits(entitlements[key])

\* A row is removed, kept, opened, or rewritten as WriteEffect says.
LEMMA RowEffect ==
  ASSUME IInv, RowsFit, [Next]_vars, NEW key \in Keys,
         entitlements'[key] # entitlements[key], entitlements'[key] # NULL
  PROVE  /\ now' = now /\ now \in Nat
         /\ entitlements[key] \in Row \cup {NULL}
         /\ Written(entitlements[key], entitlements'[key])
         /\ entitlements[key] # NULL => entitlements[key] \in Row /\ Fits(entitlements[key])
         /\ entitlements'[key] \in Row /\ Fits(entitlements'[key])
<1>1. entitlements[key] \in Row \cup {NULL} /\ now \in Nat
  BY DEF IInv, TypeOK, Time
<1>2. Written(entitlements[key], entitlements'[key]) /\ now' = now
  BY RowStep
<1>3. entitlements[key] # NULL => Fits(entitlements[key])
  BY DEF RowsFit
<1>4. entitlements'[key] \in Row /\ Fits(entitlements'[key])
  BY <1>1, <1>2, <1>3, WriteEffect, FirstWrite
<1> QED
  BY <1>1, <1>2, <1>3, <1>4

\* Every step leaves rows whose status, flag and dates agree.
LEMMA RowsFitStep ==
  ASSUME IInv, RowsFit, [Next]_vars
  PROVE  RowsFit'
<1> SUFFICES ASSUME NEW key \in Keys, entitlements'[key] # NULL
             PROVE  Fits(entitlements'[key])
  BY DEF RowsFit, Keys
<1> QED
  BY RowEffect DEF RowsFit

\* The statuses, flags and dates of a row agree in every reachable state.
LEMMA RowsAlwaysFit == Spec => [](IInv /\ RowsFit)
<1>1. Init => RowsFit
  BY DEF Init, RowsFit
<1>2. IInv /\ RowsFit /\ [Next]_vars => RowsFit'
  BY RowsFitStep
<1> QED
  BY <1>1, <1>2, Invariant, PTL DEF Spec

-----------------------------------------------------------------------------
(* Theorems *)

\* No event, whatever it carries and in whatever order it comes, takes away
\* coverage that a row has.
THEOREM CoverageOnlyGrows == Spec => CoverageNeverShrinks
<1> DEFINE A == \A key \in Keys :
                  LET r == entitlements[key]
                      s == entitlements'[key]
                  IN  r # NULL /\ s # NULL =>
                        IF r.expires = NULL
                        THEN s.expires = NULL \/ s.status \in {"revoked", "suspended"}
                        ELSE s.expires # NULL /\ s.expires >= r.expires
<1>1. IInv /\ RowsFit /\ [Next]_vars => A
  <2> SUFFICES ASSUME IInv, RowsFit, [Next]_vars, NEW key \in Keys,
                      entitlements[key] # NULL, entitlements'[key] # NULL
               PROVE  IF entitlements[key].expires = NULL
                      THEN \/ entitlements'[key].expires = NULL
                           \/ entitlements'[key].status \in {"revoked", "suspended"}
                      ELSE /\ entitlements'[key].expires # NULL
                           /\ entitlements'[key].expires >= entitlements[key].expires
    OBVIOUS
  <2>1. entitlements[key].expires \in MaybeTime
    BY DEF IInv, TypeOK, Row
  <2>2. CASE entitlements'[key] = entitlements[key]
    BY <2>1, <2>2 DEF MaybeTime
  <2>3. CASE entitlements'[key] # entitlements[key]
    <3>1. entitlements'[key].expires \in MaybeTime
      BY <2>3, RowEffect DEF Row
    <3> QED
      BY <2>1, <2>3, <3>1, RowEffect, WriteEffect, EventsAssumption DEF MaybeTime
  <2> QED
    BY <2>2, <2>3
<1>2. A => [A]_vars
  OBVIOUS
<1> QED
  BY <1>1, RowsAlwaysFit, PTL DEF Spec, CoverageNeverShrinks

\* A row that no longer licenses its product does so again only with a date
\* it did not have before.
THEOREM LicenseNeedsCoverage == Spec => LicenseReturnsWithCoverage
<1> DEFINE A == \A key \in Keys :
                  LET r == entitlements[key]
                      s == entitlements'[key]
                  IN  /\ r # NULL /\ ~Licensed(r, now) /\ r.starts <= now
                      /\ Licensed(s, now')
                      => s.expires # r.expires
<1>1. IInv /\ RowsFit /\ [Next]_vars => A
  <2> SUFFICES ASSUME IInv, RowsFit, [Next]_vars, NEW key \in Keys,
                      entitlements[key] # NULL, ~Licensed(entitlements[key], now),
                      entitlements[key].starts <= now,
                      Licensed(entitlements'[key], now')
               PROVE  entitlements'[key].expires # entitlements[key].expires
    OBVIOUS
  <2>1. entitlements'[key] # NULL
    BY DEF Licensed
  <2>2. CASE entitlements'[key] # entitlements[key]
    BY <2>1, <2>2, RowEffect, WriteEffect
  <2>3. CASE entitlements'[key] = entitlements[key]
    <3>1. now \in Nat /\ now' \in Nat /\ now' >= now
      <4>1. now \in Nat
        BY DEF IInv, TypeOK, Time
      <4> QED
        BY <4>1, ClockStep
    <3>2. entitlements[key].expires \in MaybeTime
      BY DEF IInv, TypeOK, Row
    <3>3. Licensed(entitlements[key], now)
      BY <2>3, <3>1, <3>2 DEF Licensed, MaybeTime
    <3> QED
      BY <3>3
  <2> QED
    BY <2>2, <2>3
<1> QED
  BY <1>1, RowsAlwaysFit, PTL DEF Spec, LicenseReturnsWithCoverage

\* What webhooks, crashes, repeated deliveries and administrators do to the
\* rows is what Coverage allows to be done to sources of coverage.
THEOREM CoverageImplemented == Spec => ImplementsCoverage
<1>1. Init => Abstract!Init
  BY DEF Init, Abstract!Init, Standing, Expiry
<1>2. IInv /\ RowsFit /\ [Next]_vars => [Abstract!Next]_Abstract!vars
  <2> SUFFICES ASSUME IInv, RowsFit, [Next]_vars
               PROVE  [Abstract!Next]_Abstract!vars
    OBVIOUS
  <2>1. now \in Nat /\ entitlements \in [Keys -> Row \cup {NULL}]
    BY DEF IInv, TypeOK, Time
  <2>2. CASE now' # now
    <3>1. now' > now /\ entitlements' = entitlements
      BY <2>1, <2>2, ClockStep
    <3> QED
      BY <3>1 DEF Abstract!Next
  <2>3. CASE now' = now
    <3>1. ASSUME NEW key \in Keys
          PROVE  Abstract!Change(key)
      <4> DEFINE r == entitlements[key]
                 s == entitlements'[key]
      <4>0. r # NULL => r.status \in EntitlementStatuses /\ r.expires \in MaybeTime
        BY <2>1 DEF Row
      <4>1. CASE s = NULL
        BY <4>1 DEF Abstract!Change, Abstract!Remove, Standing, Expiry
      <4>2. CASE s # NULL /\ s = r
        BY <4>2 DEF Abstract!Change, Abstract!Stay, Abstract!Forward
      <4>3. CASE s # NULL /\ r = NULL
        BY <4>3 DEF Abstract!Change, Abstract!Open, Standing
      <4>4. CASE s # NULL /\ r # NULL /\ s # r
        <5>1. /\ s \in Row /\ Fits(s) /\ r \in Row /\ Fits(r) /\ Written(r, s)
          BY <4>4, RowEffect
        <5>2. s.status \in EntitlementStatuses \ {"pending"} /\ r.status \in EntitlementStatuses \ {"pending"}
          BY <5>1 DEF Row, Fits
        <5> DEFINE forward == \/ s.expires = r.expires
                              \/ r.expires # NULL /\ s.expires # NULL /\ s.expires > r.expires
        <5>3. CASE s.status \in {"active", "trialing"}
          <6>1. forward
            BY <2>1, <5>1, <5>3, WriteEffect
          <6>2. r.status \in {"revoked", "suspended"} => s.expires # r.expires
            BY <2>1, <5>1, <5>3, WriteEffect
          <6> QED
            BY <4>4, <5>2, <5>3, <6>1, <6>2
            DEF Abstract!Change, Abstract!Extend, Abstract!Resume, Abstract!Forward,
                Standing, Expiry, EntitlementStatuses
        <5>4. CASE s.status = "expired"
          <6>1. s.expires = r.expires /\ s.expires <= now /\ r.expires # NULL
            BY <2>1, <5>1, <5>4, WriteEffect DEF Fits
          <6> QED
            BY <4>4, <5>4, <6>1 DEF Abstract!Change, Abstract!Lapse, Standing, Expiry
        <5>5. CASE s.status \in {"revoked", "suspended"}
          <6>1. forward \/ r.expires = NULL
            BY <2>1, <5>1, WriteEffect
          <6> QED
            BY <4>4, <5>5, <6>1
            DEF Abstract!Change, Abstract!Block, Abstract!Forward, Abstract!Dated, Standing, Expiry
        <5> QED
          BY <5>2, <5>3, <5>4, <5>5 DEF EntitlementStatuses
      <4> QED
        BY <4>1, <4>2, <4>3, <4>4
    <3>2. [key \in Keys |-> Standing(entitlements'[key])] \in [Keys -> Abstract!Standings]
      BY DEF Standing, Abstract!Standings
    <3> QED
      BY <2>3, <3>1, <3>2 DEF Abstract!Next
  <2> QED
    BY <2>2, <2>3
<1> QED
  BY <1>1, <1>2, RowsAlwaysFit, PTL DEF Spec, ImplementsCoverage, Abstract!Spec

-----------------------------------------------------------------------------
(* What the events asked for *)

\* A key with a package is the key of an event, its package and a product.
LEMMA KeyShape ==
  ASSUME NEW key \in Keys, key[2] # NULL
  PROVE  /\ key[2] \in WhopIds /\ key[3] \in Products
         /\ key = <<key[1], key[2], key[3]>>
<1>1. PICK w \in WebhookIds, pkg \in WhopIds, prod \in Products : key = PackageKey(w, pkg, prod)
  BY DEF Keys, DirectKey
<1> QED
  BY <1>1 DEF PackageKey

\* A package that licenses has days for every grant: whatever a grant asks for
\* under it is a date.  The other kinds ask for the end they carry.
LEMMA TargetDated ==
  ASSUME NEW w \in WebhookIds, NEW before \in MaybeTime, NEW days \in Nat, NEW today \in Nat
  PROVE  /\ IsGrant(GrantKind(Event[w])) => GrantTarget(Event[w], before, days, today) \in Nat
         /\ ~IsGrant(GrantKind(Event[w])) =>
              /\ GrantTarget(Event[w], before, days, today) = Event[w].end
              /\ entitlement_expiry_target(Event[w], days, today) = Event[w].end
         /\ ~RelativeDays(Event[w], days) =>
              GrantTarget(Event[w], before, days, today)
                = entitlement_expiry_target(Event[w], days, today)
<1> DEFINE e == Event[w]
<1>1. e.start \in MaybeTime /\ e.end \in MaybeTime /\ e.trial_end \in MaybeTime
  BY EventType DEF EventRecord
<1>2. days # NULL /\ NULL \notin Nat
  BY EventsAssumption
<1> HIDE DEF e
<1>3. later_time(before, today) + days \in Nat
  BY <1>2 DEF later_time, MaybeTime
<1>4. OrElse(e.start, today) + days \in Nat
  BY <1>1, <1>2 DEF OrElse, MaybeTime
<1>5. IsGrant(GrantKind(e)) => entitlement_expiry_target(e, days, today) \in Nat
  <2>1. later_time(e.end, OrElse(e.start, today) + days) \in Nat
    BY <1>1, <1>2, <1>4 DEF later_time, MaybeTime
  <2>2. OrElse(e.trial_end, e.end) # NULL => OrElse(e.trial_end, e.end) \in Nat
    BY <1>1 DEF OrElse, MaybeTime
  <2> QED
    BY <1>2, <1>4, <2>1, <2>2 DEF entitlement_expiry_target, IsGrant, IsPaid
<1>6. ~IsGrant(GrantKind(e)) => entitlement_expiry_target(e, days, today) = e.end
  BY DEF entitlement_expiry_target, IsGrant, IsPaid
<1>7. RelativeDays(e, days) => IsGrant(GrantKind(e))
  BY DEF RelativeDays, IsGrant, IsPaid
<1> USE DEF e
<1> QED
  BY <1>3, <1>5, <1>6, <1>7 DEF GrantTarget

\* The date of the row that _apply_whop_package_grant writes.
LEMMA PackageRowExpiry ==
  ASSUME NEW r \in Row \cup {NULL}, NEW w \in WebhookIds, NEW prod, NEW days,
         GrantKind(Event[w]) # "ignored",
         NEW target, target = GrantTarget(Event[w], Expiry(r), days, now),
         NEW s, s = PackageRow(r, Event[w], prod, days)
  PROVE  \/ /\ IsGrant(GrantKind(Event[w]))
            /\ s.expires = Reach(r, target)
            /\ r # NULL /\ r.status \in {"revoked", "suspended"} /\ ~Extends(r, target)
                 => s.status = r.status
         \/ /\ GrantKind(Event[w]) = "revoke" /\ s.status = "revoked"
            /\ s.expires = IF r = NULL THEN target ELSE r.expires
         \/ /\ GrantKind(Event[w]) = "expire"
            /\ s.expires = IF r = NULL THEN OrElse(target, now) ELSE r.expires
            /\ \/ s.status = "expired"
               \/ r # NULL /\ r.status \in {"expired", s.status}
         \/ /\ GrantKind(Event[w]) = "suspend" /\ s.status = "suspended"
            /\ s.expires = OrElse(Expiry(r), target)
<1> DEFINE e == Event[w]
           kept == IF r = NULL THEN target ELSE r.expires
           o == NewOutcome(r, e, target, kept, target)
<1>1. s.status = o.status /\ s.expires = o.expires
  BY DEF PackageRow, NewRow
<1>2. r # NULL => r.expires \in MaybeTime
  BY DEF Row
<1>3. CASE IsGrant(GrantKind(e))
  <2>1. o = Granted(r, e, target)
    BY <1>3 DEF NewOutcome
  <2>2. o.expires = Reach(r, target)
    BY <2>1 DEF Granted, Outcome
  <2>3. r # NULL /\ r.status \in {"revoked", "suspended"} /\ ~Extends(r, target)
          => o.status = r.status
    BY <2>1 DEF Granted, Outcome
  <2> QED
    BY <1>1, <1>3, <2>2, <2>3
<1>4. CASE GrantKind(e) = "revoke"
  BY <1>1, <1>4 DEF NewOutcome, Outcome, IsGrant
<1>5. CASE GrantKind(e) = "expire"
  <2>1. o = Lapsed(r, kept, target)
    BY <1>5 DEF NewOutcome, IsGrant
  <2>2. CASE r # NULL /\ (r.expires = NULL \/ r.expires > now)
    BY <1>1, <1>5, <2>1, <2>2 DEF Lapsed, Outcome
  <2>3. CASE ~(r # NULL /\ (r.expires = NULL \/ r.expires > now))
    <3>1. o.status = "expired" /\ o.expires = OrElse(OrElse(Expiry(r), target), now)
      BY <2>1, <2>3 DEF Lapsed, Outcome
    <3>2. OrElse(OrElse(Expiry(r), target), now) = IF r = NULL THEN OrElse(target, now) ELSE r.expires
      BY <2>3 DEF OrElse, Expiry
    <3> QED
      BY <1>1, <1>5, <3>1, <3>2
  <2> QED
    BY <2>2, <2>3
<1>6. CASE GrantKind(e) = "suspend"
  BY <1>1, <1>6 DEF NewOutcome, Outcome, IsGrant
<1> QED
  BY <1>3, <1>4, <1>5, <1>6, GrantStatus DEF IsGrant

\* What a transaction reads of an undisturbed package: the row FindMapping
\* read is the one stored, so every grant has days.
LEMMA CurrentPackage ==
  ASSUME IInv, ReadsInv, Undisturbed, NEW k \in Workers, ApplyPackage(k),
         NEW pkg, pkg = worker[k].plan
  PROVE  /\ worker[k].package = packages[pkg]
         /\ GrantedBy(k) = IF packages[pkg].is_active /\ ~packages[pkg].is_ignored
                           THEN DOMAIN packages[pkg].grants ELSE {}
         /\ \A p \in GrantedBy(k) :
              /\ DaysOf(k, p) \in Nat
              /\ DaysOf(k, p) = OrElse(packages[pkg].grants[p], packages[pkg].default_days)
<1>1. worker[k].pc = "customer" /\ pkg # NULL
  BY DEF ApplyPackage, At
<1>2. worker[k].package = packages[pkg]
  BY <1>1 DEF ReadsInv, UpToDate
<1>3. GrantedBy(k) = IF packages[pkg].is_active /\ ~packages[pkg].is_ignored
                     THEN DOMAIN packages[pkg].grants ELSE {}
  BY <1>2 DEF GrantedBy
<1>4. ASSUME NEW p \in GrantedBy(k)
      PROVE  /\ DaysOf(k, p) \in Nat
             /\ DaysOf(k, p) = OrElse(packages[pkg].grants[p], packages[pkg].default_days)
  <2>1. packages[pkg] \in PackageConfigs /\ DaysOf(k, p) \in MaybeTime
    BY PackageApplied
  <2>2. ValidPackage(packages[pkg])
    BY <2>1, PackagesAssumption
  <2>3. ~packages[pkg].is_ignored /\ p \in DOMAIN packages[pkg].grants
    BY <1>3
  <2>4. DaysOf(k, p) # NULL
    BY <1>2, <2>2, <2>3 DEF ValidPackage, DaysOf
  <2> QED
    BY <1>2, <2>1, <2>4 DEF DaysOf, OrElse, MaybeTime
<1> QED
  BY <1>2, <1>3, <1>4

\* How a step of Next changes a row of a package: not, or it is removed, or it
\* is written for a product of a transaction that is not suppressed.
WrittenBy(k, key) ==
  /\ ApplyPackage(k)
  /\ Applies(k, worker[k].event, key[2], key[3])
  /\ key[2] = worker[k].plan /\ key = PackageKey(worker[k].event, key[2], key[3])
  /\ entitlements'[key] = PackageRow(entitlements[key], Event[worker[k].event], key[3], DaysOf(k, key[3]))

LEMMA PackageRowStep ==
  ASSUME IInv, [Next]_vars, NEW key \in Keys, key[2] # NULL
  PROVE  \/ entitlements'[key] = entitlements[key]
         \/ entitlements'[key] = NULL /\ edits' # 0
         \/ \E k \in Workers : WrittenBy(k, key)
<1>1. ASSUME NEW k \in Workers, ApplyPackage(k), entitlements'[key] # entitlements[key]
      PROVE  WrittenBy(k, key)
  <2>1. PICK w, pkg : w = worker[k].event /\ pkg = worker[k].plan
    OBVIOUS
  <2>2. PICK p : Applies(k, w, pkg, p) /\ key = PackageKey(w, pkg, p)
    BY <1>1, <2>1, PackageApplied
  <2>3. key[2] = pkg /\ key[3] = p
    BY <2>2 DEF PackageKey
  <2>4. entitlements'[key] = PackageRow(entitlements[key], Event[w], p, DaysOf(k, p))
    BY <1>1, <2>1, <2>2, PackageApplied DEF RowFor
  <2> QED
    BY <1>1, <2>1, <2>2, <2>3, <2>4 DEF WrittenBy
<1>2. ASSUME NEW k \in Workers, ApplyDirect(k)
      PROVE  entitlements'[key] = entitlements[key]
  BY <1>2 DEF ApplyDirect, DirectKey, IInv, TypeOK
<1>3. ASSUME NEW key2 \in Keys, remove_entitlement(key2)
      PROVE  \/ entitlements'[key] = entitlements[key]
             \/ entitlements'[key] = NULL /\ edits' # 0
  BY <1>3 DEF remove_entitlement, IInv, TypeOK
<1>4. ASSUME NEW k \in Workers,
             \/ RecordReceived(k) \/ FindMapping(k) \/ EnsureCustomer(k)
             \/ MarkProcessed(k) \/ MarkFailed(k) \/ Raise(k) \/ Abort(k)
             \/ \E w \in WebhookIds : Lookup(k, w)
      PROVE  entitlements' = entitlements
  BY <1>4 DEF RecordReceived, FindMapping, EnsureCustomer, MarkProcessed, MarkFailed, Raise,
              Abort, Lookup
<1>5. ASSUME \/ Crash \/ Tick \/ UNCHANGED vars
             \/ \E pkg \in WhopIds, cfg \in PackageConfigs : SavePackage(pkg, cfg)
      PROVE  entitlements' = entitlements
  BY <1>5 DEF Crash, Tick, vars, SavePackage
<1> QED
  BY <1>1, <1>2, <1>3, <1>4, <1>5 DEF Next, Step

\* With one worker the row of a package that a payment made active has an end.
THEOREM PaidRowsAreDated ==
  ASSUME OneWorker PROVE Spec => []PaymentsAreDated
<1>1. Init => PaymentsAreDated
  BY DEF Init, PaymentsAreDated, Standing
<1>2. ASSUME IInv, ReadsInv, RowsFit, PaymentsAreDated, [Next]_vars
      PROVE  PaymentsAreDated'
  <2> SUFFICES ASSUME NEW key \in Keys, key[2] # NULL, Standing(entitlements'[key]) = "good"
               PROVE  entitlements'[key].expires # NULL
    BY DEF PaymentsAreDated, Standing, Keys
  <2>1. CASE entitlements'[key] = entitlements[key]
    BY <1>2, <2>1 DEF PaymentsAreDated
  <2>2. CASE entitlements'[key] = NULL
    BY <2>2 DEF Standing
  <2>3. ASSUME NEW k \in Workers, WrittenBy(k, key), entitlements'[key] # NULL
        PROVE  entitlements'[key].expires # NULL
    <3>1. PICK w, p, days : w = worker[k].event /\ p = key[3] /\ days = DaysOf(k, p)
      OBVIOUS
    <3>2. w \in WebhookIds /\ p \in GrantedBy(k) /\ days \in Nat /\ GrantKind(Event[w]) # "ignored"
      BY <1>2, <2>3, <3>1, PackageApplied, CurrentPackage
      DEF WrittenBy, Applies, Suppressed, Undisturbed
    <3> DEFINE r == entitlements[key]
               s == entitlements'[key]
               target == GrantTarget(Event[w], Expiry(r), days, now)
    <3>3. r \in Row \cup {NULL} /\ now \in Nat /\ (r # NULL => Fits(r) /\ r.expires \in MaybeTime)
      BY <1>2 DEF IInv, TypeOK, Time, RowsFit, Row
    <3>4. Expiry(r) \in MaybeTime
      BY <3>3 DEF Expiry, MaybeTime
    <3>5. IsGrant(GrantKind(Event[w])) => target \in Nat
      BY <3>2, <3>3, <3>4, TargetDated
    <3>6. s = PackageRow(r, Event[w], p, days)
      BY <2>3, <3>1 DEF WrittenBy
    <3>7. r # NULL /\ r.expires = NULL => r.status \in {"revoked", "suspended"}
      BY <1>2, <3>3 DEF PaymentsAreDated, Standing, Fits
    <3>8. s.status \notin {"revoked", "suspended", "expired"}
      BY <2>3 DEF Standing
    <3> HIDE DEF r, s, target
    <3>9. \/ /\ IsGrant(GrantKind(Event[w])) /\ s.expires = Reach(r, target)
             /\ r # NULL /\ r.status \in {"revoked", "suspended"} /\ ~Extends(r, target)
                  => s.status = r.status
          \/ /\ GrantKind(Event[w]) = "expire"
             /\ s.expires = IF r = NULL THEN OrElse(target, now) ELSE r.expires
             /\ r # NULL /\ r.status \in {"expired", s.status}
      <4>1. target = GrantTarget(Event[w], Expiry(r), days, now)
        BY DEF target
      <4> QED
        BY <3>2, <3>3, <3>6, <3>8, <4>1, PackageRowExpiry
    <3>10. CASE r = NULL \/ r.expires # NULL
      BY <3>3, <3>5, <3>9, <3>10, EventsAssumption DEF Reach, Expiry, later_time, MaybeTime, s
    <3>11. CASE r # NULL /\ r.expires = NULL
      BY <3>3, <3>7, <3>8, <3>9, <3>11 DEF Extends, Fits
    <3> QED
      BY <3>10, <3>11
  <2> QED
    BY <1>2, <2>1, <2>2, <2>3, PackageRowStep
<1> QED
  BY <1>1, <1>2, ReadsAreCurrent, RowsAlwaysFit, PTL DEF Spec

-----------------------------------------------------------------------------
(* Rows and ledger, while administrators keep out of it *)

\* Events that were applied to a row stay applied to it, and go on asking for
\* what they asked for; a new one is that of a package transaction.
AppliedStep(key) ==
  /\ \A v \in AppliedTo(key) : v \in AppliedTo(key)' /\ Asked(v, key)' = Asked(v, key)
  /\ PackageDays(key)' = PackageDays(key)
  /\ \A v \in AppliedTo(key)' : v \in AppliedTo(key) \/
       \E k \in Workers :
         /\ ApplyPackage(k) /\ v = worker[k].event /\ key[2] = worker[k].plan
         /\ key = PackageKey(v, key[2], key[3]) /\ key[3] \in GrantedBy(k)
         /\ Asked(v, key)' = entitlement_expiry_target(Event[v], PackageDays(key), now)

LEMMA AppliedToStep ==
  ASSUME IInv, ReadsInv, [Next]_vars, edits' = 0, NEW key \in Keys
  PROVE  AppliedStep(key)
<1>1. edits = 0 /\ packages' = packages
  BY EffectStep
<1>2. PackageDays(key)' = PackageDays(key)
  BY <1>1 DEF PackageDays
<1>3. \A v \in WebhookIds : FindPackage(Event[v])' = FindPackage(Event[v])
  BY <1>1 DEF FindPackage
<1>4. CASE applied' = applied
  BY <1>1, <1>2, <1>3, <1>4 DEF AppliedStep, AppliedTo, Asked
<1>5. ASSUME NEW k \in Workers, NEW w \in WebhookIds, w = worker[k].event, applied' = FirstApplied(w),
             \/ ApplyPackage(k) /\ worker[k].plan = FindPackage(Event[w])
             \/ FindPackage(Event[w]) = NULL
      PROVE  AppliedStep(key)
  <2>1. /\ applied'[w] # NULL /\ applied'[w] = IF applied[w] = NULL THEN now ELSE applied[w]
        /\ \A v \in WebhookIds : v # w => applied'[v] = applied[v]
    BY <1>5, AppliedAfter
  <2>2. \A v \in WebhookIds : applied[v] # NULL => applied'[v] = applied[v]
    BY <2>1
  <2>3. \A v \in AppliedTo(key) : v \in AppliedTo(key)' /\ Asked(v, key)' = Asked(v, key)
    BY <1>1, <1>2, <1>3, <2>2 DEF AppliedTo, Asked
  <2>4. ASSUME NEW v \in AppliedTo(key)', v \notin AppliedTo(key)
        PROVE  /\ ApplyPackage(k) /\ v = worker[k].event /\ key[2] = worker[k].plan
               /\ key = PackageKey(v, key[2], key[3]) /\ key[3] \in GrantedBy(k)
               /\ Asked(v, key)' = entitlement_expiry_target(Event[v], PackageDays(key), now)
    <3>1. /\ v \in WebhookIds /\ key[2] # NULL /\ FindPackage(Event[v]) = key[2]
          /\ key[1] = PackageRoot(v, key[2])
          /\ packages[key[2]].is_active /\ ~packages[key[2]].is_ignored
          /\ key[3] \in DOMAIN packages[key[2]].grants
      BY <1>1, <1>3, <2>4 DEF AppliedTo
    <3>2. v = w /\ applied[w] = NULL
      BY <1>1, <1>3, <2>1, <2>4 DEF AppliedTo
    <3>3. ApplyPackage(k) /\ key[2] = worker[k].plan
      BY <1>5, <3>1, <3>2
    <3>4. key[3] \in GrantedBy(k)
      BY <1>1, <3>1, <3>3, CurrentPackage DEF Undisturbed
    <3>5. key = PackageKey(v, key[2], key[3])
      BY <3>1, KeyShape DEF PackageKey
    <3>6. Asked(v, key)' = entitlement_expiry_target(Event[v], PackageDays(key), now)
      BY <1>2, <2>1, <3>2 DEF Asked
    <3> QED
      BY <1>5, <3>2, <3>3, <3>4, <3>5, <3>6
  <2> QED
    BY <1>2, <2>3, <2>4 DEF AppliedStep
<1>6. ASSUME NEW k \in Workers, ApplyPackage(k) \/ ApplyDirect(k)
      PROVE  AppliedStep(key)
  <2>1. PICK w : w = worker[k].event
    OBVIOUS
  <2>2. w \in WebhookIds /\ applied' = FirstApplied(w)
    BY <1>6, <2>1, EventOf DEF ApplyPackage, ApplyDirect, At
  <2>3. worker[k].plan = FindPackage(Event[w])
    BY <1>1, <1>6, <2>1 DEF ApplyPackage, ApplyDirect, At, ReadsInv, UpToDate
  <2>4. ApplyDirect(k) => worker[k].plan = NULL
    BY DEF ApplyDirect
  <2> QED
    BY <1>5, <1>6, <2>1, <2>2, <2>3, <2>4
<1>7. ASSUME NEW k \in Workers, FindMapping(k), applied' # applied
      PROVE  AppliedStep(key)
  <2>1. PICK w : w = worker[k].event
    OBVIOUS
  <2>2. w \in WebhookIds
    BY <1>7, <2>1, EventOf DEF FindMapping, At
  <2>3. FindPackage(Event[w]) = NULL
    BY <1>7, <2>1 DEF FindMapping
  <2>4. applied' = FirstApplied(w)
    BY <1>7, <2>1, <2>3 DEF FindMapping
  <2> QED
    BY <1>5, <2>1, <2>2, <2>3, <2>4
<1> QED
  BY <1>4, <1>6, <1>7, EffectStep

\* The row of a package has a date once it exists.
RowsDated ==
  edits = 0 => \A key \in Keys :
    key[2] # NULL /\ entitlements[key] # NULL => entitlements[key].expires # NULL

\* What a write means to the row of a package: it keeps its date, or it gets
\* the one the event asks for.
LEMMA PackageWrite ==
  ASSUME IInv, ReadsInv, edits = 0, NEW key \in Keys, key[2] # NULL,
         NEW k \in Workers, WrittenBy(k, key),
         NEW w, w = worker[k].event,
         NEW days, days = PackageDays(key),
         NEW r, r = entitlements[key],
         NEW target, target = GrantTarget(Event[w], Expiry(r), days, now),
         NEW s, s = entitlements'[key]
  PROVE  /\ w \in WebhookIds /\ days \in Nat /\ GrantKind(Event[w]) # "ignored"
         /\ days = DaysOf(k, key[3])
         /\ r \in Row \cup {NULL} /\ Expiry(r) \in MaybeTime /\ target \in MaybeTime
         /\ now \in Nat /\ s \in Row /\ s # NULL
         /\ IsGrant(GrantKind(Event[w])) => target \in Nat /\ s.expires = Reach(r, target)
         /\ ~IsGrant(GrantKind(Event[w])) =>
              /\ target = Event[w].end
              /\ Expiry(r) # NULL => s.expires = Expiry(r)
              /\ Expiry(r) = NULL =>
                   \/ r # NULL /\ s.expires = NULL
                   \/ GrantKind(Event[w]) # "expire" /\ s.expires = target
                   \/ GrantKind(Event[w]) = "expire" /\ s.expires = OrElse(target, now)
<1>1. PICK p : p = key[3]
  OBVIOUS
<1>2. w \in WebhookIds /\ p \in GrantedBy(k) /\ GrantKind(Event[w]) # "ignored" /\ p \in Products
  BY <1>1, PackageApplied DEF WrittenBy, Applies, Suppressed
<1>3. days \in Nat /\ days = DaysOf(k, p)
  BY <1>1, <1>2, CurrentPackage DEF WrittenBy, PackageDays, Undisturbed
<1>4. r \in Row \cup {NULL} /\ now \in Nat
  BY DEF IInv, TypeOK, Time
<1>5. Expiry(r) \in MaybeTime
  BY <1>4 DEF Expiry, MaybeTime, Row
<1>6. /\ target \in MaybeTime
      /\ IsGrant(GrantKind(Event[w])) => target \in Nat
      /\ ~IsGrant(GrantKind(Event[w])) => target = Event[w].end
  <2>1. /\ IsGrant(GrantKind(Event[w])) => target \in Nat
        /\ ~IsGrant(GrantKind(Event[w])) => target = Event[w].end
    BY <1>2, <1>3, <1>4, <1>5, TargetDated
  <2>2. Event[w].end \in MaybeTime
    BY <1>2, EventType
  <2> QED
    BY <2>1, <2>2 DEF MaybeTime
<1>7. s = PackageRow(r, Event[w], p, days)
  BY <1>1, <1>3 DEF WrittenBy
<1>8. s \in Row /\ s # NULL
  BY <1>2, <1>3, <1>4, <1>7, PackageRowType, PackagesAssumption DEF MaybeTime
<1>9. \/ IsGrant(GrantKind(Event[w])) /\ s.expires = Reach(r, target)
      \/ /\ GrantKind(Event[w]) = "revoke"
         /\ s.expires = IF r = NULL THEN target ELSE r.expires
      \/ /\ GrantKind(Event[w]) = "expire"
         /\ s.expires = IF r = NULL THEN OrElse(target, now) ELSE r.expires
      \/ GrantKind(Event[w]) = "suspend" /\ s.expires = OrElse(Expiry(r), target)
  BY <1>2, <1>4, <1>7, PackageRowExpiry
<1>10. ~IsGrant(GrantKind(Event[w])) =>
         /\ Expiry(r) # NULL => s.expires = Expiry(r)
         /\ Expiry(r) = NULL =>
              \/ r # NULL /\ s.expires = NULL
              \/ GrantKind(Event[w]) # "expire" /\ s.expires = target
              \/ GrantKind(Event[w]) = "expire" /\ s.expires = OrElse(target, now)
  BY <1>9 DEF Expiry, OrElse, IsGrant
<1>11. IsGrant(GrantKind(Event[w])) => s.expires = Reach(r, target)
  BY <1>9 DEF IsGrant
<1> QED
  BY <1>1, <1>2, <1>3, <1>4, <1>5, <1>6, <1>8, <1>10, <1>11

LEMMA RowsDatedStep ==
  ASSUME BlocksAreDated, IInv, ReadsInv, RowsDated, [Next]_vars
  PROVE  RowsDated'
<1> SUFFICES ASSUME edits' = 0, NEW key \in Keys, key[2] # NULL, entitlements'[key] # NULL
             PROVE  entitlements'[key].expires # NULL
  BY DEF RowsDated, Keys
<1>1. edits = 0
  BY EffectStep
<1>2. ASSUME NEW k \in Workers, WrittenBy(k, key)
      PROVE  entitlements'[key].expires # NULL
  <2>1. PICK w, days, r, s :
          /\ w = worker[k].event /\ days = PackageDays(key)
          /\ r = entitlements[key] /\ s = entitlements'[key]
    OBVIOUS
  <2>2. PICK target : target = GrantTarget(Event[w], Expiry(r), days, now)
    OBVIOUS
  <2>3. /\ w \in WebhookIds /\ GrantKind(Event[w]) # "ignored"
        /\ r \in Row \cup {NULL} /\ Expiry(r) \in MaybeTime
        /\ IsGrant(GrantKind(Event[w])) => target \in Nat /\ s.expires = Reach(r, target)
        /\ ~IsGrant(GrantKind(Event[w])) =>
              /\ target = Event[w].end
              /\ Expiry(r) # NULL => s.expires = Expiry(r)
              /\ Expiry(r) = NULL =>
                   \/ r # NULL /\ s.expires = NULL
                   \/ GrantKind(Event[w]) # "expire" /\ s.expires = target
                   \/ GrantKind(Event[w]) = "expire" /\ s.expires = OrElse(target, now)
    BY <1>1, <1>2, <2>1, <2>2, PackageWrite
  <2>4. r # NULL => r.expires # NULL /\ Expiry(r) # NULL
    BY <1>1, <2>1 DEF RowsDated, Expiry
  <2>5. now \in Nat /\ NULL \notin Nat
    BY EventsAssumption DEF IInv, TypeOK, Time
  <2>6. CASE IsGrant(GrantKind(Event[w]))
    <3>1. Reach(r, target) # NULL
      BY <2>3, <2>4, <2>5, <2>6 DEF Reach, Expiry, later_time, MaybeTime
    <3> QED
      BY <2>1, <2>3, <2>6, <3>1
  <2>7. CASE ~IsGrant(GrantKind(Event[w]))
    <3>1. GrantKind(Event[w]) \in {"revoke", "suspend"} => target # NULL
      BY <2>3, <2>7 DEF BlocksAreDated
    <3>2. GrantKind(Event[w]) \in {"revoke", "suspend", "expire"}
      BY <2>3, <2>7, GrantStatus DEF IsGrant
    <3>3. OrElse(target, now) # NULL
      BY <2>5 DEF OrElse
    <3>4. Expiry(r) = NULL => r = NULL
      BY <2>4
    <3> QED
      BY <2>1, <2>3, <2>7, <3>1, <3>2, <3>3, <3>4
  <2> QED
    BY <2>6, <2>7
<1>3. CASE entitlements'[key] = entitlements[key]
  BY <1>1, <1>3 DEF RowsDated
<1> QED
  BY <1>2, <1>3, PackageRowStep

-----------------------------------------------------------------------------
(* What the ledger says of the rows *)

\* Two events whose grants have one fingerprint are about one row.
LEMMA OneFingerprintOneRow ==
  ASSUME PaymentsAreOfOnePurchase, NEW v \in WebhookIds, NEW w \in WebhookIds,
         IsGrant(GrantKind(Event[w])),
         NEW pkg, NEW p, NEW pkg2, NEW p2,
         pkg = FindPackage(Event[w]), pkg2 = FindPackage(Event[v]),
         GrantFingerprint(v, pkg2, p2) = GrantFingerprint(w, pkg, p)
  PROVE  PackageKey(v, pkg2, p2) = PackageKey(w, pkg, p)
<1> DEFINE RootOf(e) == OrElse(OrElse(e.membership, e.item), e.customer)
           e == Event[w]
           f == Event[v]
<1>1. /\ e.customer \in Customers /\ f.customer \in Customers
      /\ e.membership \in Ids \cup {NULL} /\ f.membership \in Ids \cup {NULL}
      /\ e.item \in Ids \cup {NULL} /\ f.item \in Ids \cup {NULL}
  BY EventType DEF EventRecord
<1>2. Customers \cap Ids = {}
  BY DEF PaymentsAreOfOnePurchase
<1>3. GrantKind(e) \in {"trial", "paid", "renewal"}
  BY DEF IsGrant
<1>4. CASE GrantKind(e) = "trial"
  <2>1. GrantFingerprint(w, pkg, p) = <<"trial", RootOf(e), pkg, p, OrElse(e.trial_end, e.end)>>
    BY <1>4 DEF GrantFingerprint
  <2>2. GrantKind(f) = "trial"
    BY <2>1 DEF GrantFingerprint, IsPaid
  <2>3. GrantFingerprint(v, pkg2, p2) = <<"trial", RootOf(f), pkg2, p2, OrElse(f.trial_end, f.end)>>
    BY <2>2 DEF GrantFingerprint
  <2> HIDE DEF RootOf
  <2>4. RootOf(e) = RootOf(f) /\ pkg = pkg2 /\ p = p2
    BY <2>1, <2>3
  <2> QED
    BY <1>1, <1>2, <2>4 DEF PackageKey, PackageRoot, RootOf, OrElse
<1>5. CASE IsPaid(GrantKind(e)) /\ e.payment # NULL
  <2>1. GrantFingerprint(w, pkg, p) = <<"payment", e.payment, p>>
    BY <1>5 DEF GrantFingerprint, IsPaid
  <2>2. IsPaid(GrantKind(f)) /\ f.payment # NULL
    BY <2>1, KindType DEF GrantFingerprint, IsPaid, Kinds
  <2>3. GrantFingerprint(v, pkg2, p2) = <<"payment", f.payment, p2>>
    BY <2>2 DEF GrantFingerprint, IsPaid
  <2>4. f.payment = e.payment /\ p = p2
    BY <2>1, <2>3
  <2>5. \A field \in {"customer", "membership", "item", "plan", "product"} : f[field] = e[field]
    BY <2>2, <2>4 DEF PaymentsAreOfOnePurchase
  <2>6. /\ e.customer = f.customer /\ e.membership = f.membership /\ e.item = f.item
        /\ e.plan = f.plan /\ e.product = f.product
    <3>1. e["customer"] = f["customer"] /\ e["membership"] = f["membership"] /\ e["item"] = f["item"]
          /\ e["plan"] = f["plan"] /\ e["product"] = f["product"]
      BY <2>5
    <3> QED
      BY <3>1
  <2>7. pkg = pkg2
    BY <2>6 DEF FindPackage
  <2> QED
    BY <2>4, <2>6, <2>7 DEF PackageKey, PackageRoot
<1>6. CASE IsPaid(GrantKind(e)) /\ e.payment = NULL
  <2>1. GrantFingerprint(w, pkg, p)
          = <<"period", RootOf(e), pkg, p, e.start, IF e.start = NULL THEN e.end ELSE NULL>>
    BY <1>6 DEF GrantFingerprint, IsPaid
  <2>2. IsPaid(GrantKind(f)) /\ f.payment = NULL
    BY <2>1 DEF GrantFingerprint, IsPaid
  <2>3. GrantFingerprint(v, pkg2, p2)
          = <<"period", RootOf(f), pkg2, p2, f.start, IF f.start = NULL THEN f.end ELSE NULL>>
    BY <2>2 DEF GrantFingerprint, IsPaid
  <2> HIDE DEF RootOf
  <2>4. RootOf(e) = RootOf(f) /\ pkg = pkg2 /\ p = p2
    BY <2>1, <2>3
  <2> QED
    BY <1>1, <1>2, <2>4 DEF PackageKey, PackageRoot, RootOf, OrElse
<1> QED
  BY <1>3, <1>4, <1>5, <1>6 DEF IsPaid

\* An entry is of an applied event, and its row exists.
EntryOf(l, w) ==
  /\ applied[w] # NULL /\ l.package = FindPackage(Event[w])
  /\ l.package \in WhopIds /\ l.product \in Products
  /\ l.event_fingerprint = GrantFingerprint(w, l.package, l.product)
  /\ l.subscription = Event[w].membership
  /\ entitlements[PackageKey(w, l.package, l.product)] # NULL

EntriesHaveRows == edits = 0 => \A l \in ledger : \E w \in WebhookIds : EntryOf(l, w)

\* A grant that is granted already has a row.
LEMMA DuplicateHasRow ==
  ASSUME PaymentsAreOfOnePurchase, EntriesHaveRows, edits = 0,
         NEW w \in WebhookIds, IsGrant(GrantKind(Event[w])),
         NEW pkg, pkg = FindPackage(Event[w]), NEW p, Duplicate(w, pkg, p)
  PROVE  entitlements[PackageKey(w, pkg, p)] # NULL
<1>1. CASE FingerprintKnown(w, pkg, p)
  <2>1. PICK l \in ledger : l.event_fingerprint = GrantFingerprint(w, pkg, p)
    BY <1>1 DEF FingerprintKnown
  <2>2. PICK v \in WebhookIds : EntryOf(l, v)
    BY <2>1 DEF EntriesHaveRows
  <2>3. PICK pkg2, p2 : pkg2 = l.package /\ p2 = l.product
    OBVIOUS
  <2>4. pkg2 = FindPackage(Event[v]) /\ GrantFingerprint(v, pkg2, p2) = GrantFingerprint(w, pkg, p)
    BY <2>1, <2>2, <2>3 DEF EntryOf
  <2>5. PackageKey(v, pkg2, p2) = PackageKey(w, pkg, p)
    BY <2>4, OneFingerprintOneRow
  <2> QED
    BY <2>2, <2>3, <2>5 DEF EntryOf
<1>2. CASE PaidPeriodDuplicate(Event[w], pkg, p)
  <2>1. PICK l \in ledger : /\ l.package = pkg /\ l.product = p
                            /\ l.subscription = Event[w].membership /\ Event[w].membership # NULL
    BY <1>2 DEF PaidPeriodDuplicate
  <2>2. PICK v \in WebhookIds : EntryOf(l, v)
    BY <2>1 DEF EntriesHaveRows
  <2>3. PackageKey(v, l.package, l.product) = PackageKey(w, pkg, p)
    BY <2>1, <2>2 DEF EntryOf, PackageKey, PackageRoot
  <2> QED
    BY <2>2, <2>3 DEF EntryOf
<1> QED
  BY <1>1, <1>2 DEF Duplicate

\* Nobody takes a row away but an administrator.
LEMMA RowStays ==
  ASSUME IInv, [Next]_vars, edits' = 0, NEW key \in Keys, key[2] # NULL, entitlements[key] # NULL
  PROVE  entitlements'[key] # NULL
<1>1. ASSUME NEW k \in Workers, WrittenBy(k, key)
      PROVE  entitlements'[key] # NULL
  BY <1>1, PackageApplied, PackageRowType, PackagesAssumption DEF WrittenBy, Applies, IInv, TypeOK, Time
<1> QED
  BY <1>1, PackageRowStep

LEMMA EntriesHaveRowsStep ==
  ASSUME IInv, ReadsInv, EntriesHaveRows, [Next]_vars
  PROVE  EntriesHaveRows'
<1> SUFFICES ASSUME edits' = 0, NEW l \in ledger'
             PROVE  \E w \in WebhookIds : EntryOf(l, w)'
  BY DEF EntriesHaveRows
<1>1. edits = 0 /\ packages' = packages
  BY EffectStep
<1>2. \A v \in WebhookIds : FindPackage(Event[v])' = FindPackage(Event[v])
  BY <1>1 DEF FindPackage
<1>3. CASE l \in ledger
  <2>1. PICK w \in WebhookIds : EntryOf(l, w)
    BY <1>1, <1>3 DEF EntriesHaveRows
  <2>2. applied'[w] # NULL
    <3>1. ASSUME NEW k \in Workers, FindMapping(k) \/ ApplyPackage(k) \/ ApplyDirect(k)
          PROVE  applied' = applied \/ applied' = FirstApplied(worker[k].event)
      BY <3>1 DEF FindMapping, ApplyPackage, ApplyDirect
    <3>2. ASSUME NEW v, applied' = FirstApplied(v)
          PROVE  applied'[w] # NULL
      BY <2>1, <3>2, EventsAssumption DEF EntryOf, FirstApplied, OrElse, IInv, TypeOK
    <3> QED
      BY <2>1, <3>1, <3>2, EffectStep DEF EntryOf
  <2>3. entitlements'[PackageKey(w, l.package, l.product)] # NULL
    <3>1. PICK key : key = PackageKey(w, l.package, l.product)
      OBVIOUS
    <3>2. key \in Keys /\ key[2] # NULL
      BY <2>1, <3>1, EventsAssumption DEF EntryOf, Keys, PackageKey
    <3> QED
      BY <2>1, <3>1, <3>2, RowStays DEF EntryOf
  <2> QED
    BY <1>2, <2>1, <2>2, <2>3 DEF EntryOf
<1>4. CASE l \notin ledger
  <2>1. PICK k \in Workers : ApplyPackage(k)
    BY <1>4, LedgerStep
  <2>2. PICK w, pkg : w = worker[k].event /\ pkg = worker[k].plan
    OBVIOUS
  <2>3. PICK p \in GrantedBy(k) : /\ Applies(k, w, pkg, p)
                                  /\ l = LedgerEntry(w, pkg, p, RowFor(w, pkg, p), DaysOf(k, p))
    BY <1>4, <2>1, <2>2, PackageApplied
  <2>4. /\ w \in WebhookIds /\ pkg \in WhopIds /\ p \in Products
        /\ DaysOf(k, p) \in MaybeTime /\ PackageKey(w, pkg, p) \in Keys
        /\ entitlements'[PackageKey(w, pkg, p)]
             = PackageRow(RowFor(w, pkg, p), Event[w], p, DaysOf(k, p))
        /\ applied' = FirstApplied(w)
    BY <2>1, <2>2, <2>3, PackageApplied
  <2>5. pkg = FindPackage(Event[w])
    BY <1>1, <2>1, <2>2 DEF ApplyPackage, At, ReadsInv, UpToDate
  <2>6. applied'[w] # NULL
    BY <2>4, AppliedAfter
  <2>7. entitlements'[PackageKey(w, pkg, p)] # NULL
    <3>1. PICK r, days : r = RowFor(w, pkg, p) /\ days = DaysOf(k, p)
      OBVIOUS
    <3>2. r \in Row \cup {NULL} /\ now \in Nat
      BY <2>4, <3>1 DEF RowFor, IInv, TypeOK, Time
    <3>3. PackageRow(r, Event[w], p, days) \in Row
      BY <2>4, <3>1, <3>2, PackageRowType
    <3> QED
      BY <2>4, <3>1, <3>3, PackagesAssumption
  <2>8. /\ l.event_fingerprint = GrantFingerprint(w, pkg, p)
        /\ l.package = pkg /\ l.product = p /\ l.subscription = Event[w].membership
    BY <2>3, DaysOfNew
  <2> QED
    BY <1>2, <2>4, <2>5, <2>6, <2>7, <2>8 DEF EntryOf
<1> QED
  BY <1>3, <1>4

-----------------------------------------------------------------------------
(* An applied grant is in the ledger, and its row covers what it asked for *)

Kept(key, w) ==
  /\ Duplicate(w, key[2], key[3])
  /\ entitlements[key] # NULL
  /\ \/ RelativeDays(Event[w], PackageDays(key))
     \/ entitlements[key].expires >= Asked(w, key)

GrantsAreKept ==
  edits = 0 =>
    \A key \in Keys : \A w \in AppliedTo(key) : IsGrant(GrantKind(Event[w])) => Kept(key, w)

\* A grant that is in the ledger stays in it.
LEMMA DuplicateStays ==
  ASSUME IInv, [Next]_vars, NEW w, NEW pkg, NEW p, Duplicate(w, pkg, p)
  PROVE  Duplicate(w, pkg, p)'
<1>1. ledger \subseteq ledger'
  <2>1. ASSUME NEW k \in Workers, ApplyPackage(k) PROVE ledger \subseteq ledger'
    BY <2>1, PackageApplied
  <2> QED
    BY <2>1, LedgerStep
<1> QED
  BY <1>1 DEF Duplicate, FingerprintKnown, PaidPeriodDuplicate

\* The row of a package keeps its date or moves it forward.
LEMMA DateStays ==
  ASSUME IInv, RowsFit, RowsDated, RowsDated', [Next]_vars, edits = 0, edits' = 0,
         NEW key \in Keys, key[2] # NULL, entitlements[key] # NULL
  PROVE  /\ entitlements'[key] # NULL
         /\ entitlements[key].expires \in Nat /\ entitlements'[key].expires \in Nat
         /\ entitlements'[key].expires >= entitlements[key].expires
<1>1. entitlements'[key] # NULL
  BY RowStays
<1>2. entitlements[key].expires \in Nat
  BY DEF RowsDated, IInv, TypeOK, Row, MaybeTime
<1>3. CASE entitlements'[key] = entitlements[key]
  BY <1>1, <1>2, <1>3
<1>4. CASE entitlements'[key] # entitlements[key]
  <2>1. PICK r, s : r = entitlements[key] /\ s = entitlements'[key]
    OBVIOUS
  <2>2. r \in Row /\ s \in Row /\ Fits(r) /\ Written(r, s) /\ now \in Nat
    BY <1>1, <1>4, <2>1, RowEffect
  <2>3. \/ s.expires = r.expires
        \/ s.expires # NULL /\ s.expires > r.expires
    BY <1>2, <2>1, <2>2, WriteEffect, EventsAssumption
  <2>4. s.expires \in MaybeTime
    BY <2>2 DEF Row
  <2> QED
    BY <1>1, <1>2, <2>1, <2>3, <2>4 DEF MaybeTime
<1> QED
  BY <1>3, <1>4

\* A grant whose transaction commits.
LEMMA GrantIsKept ==
  ASSUME PaymentsAreOfOnePurchase, IInv, ReadsInv, RowsFit, RowsDated, RowsDated', EntriesHaveRows,
         [Next]_vars, edits = 0, edits' = 0,
         NEW key \in Keys, key[2] # NULL, NEW k \in Workers, ApplyPackage(k),
         NEW w, w = worker[k].event, IsGrant(GrantKind(Event[w])),
         key[2] = worker[k].plan, key = PackageKey(w, key[2], key[3]), key[3] \in GrantedBy(k)
  PROVE  /\ Duplicate(w, key[2], key[3])'
         /\ entitlements'[key] # NULL
         /\ \/ RelativeDays(Event[w], PackageDays(key))
            \/ entitlements'[key].expires >= entitlement_expiry_target(Event[w], PackageDays(key), now)
<1>1. PICK pkg, p, r, s, days :
        /\ pkg = key[2] /\ p = key[3] /\ r = entitlements[key] /\ s = entitlements'[key]
        /\ days = PackageDays(key)
  OBVIOUS
<1>2. PICK target : target = GrantTarget(Event[w], Expiry(r), days, now)
  OBVIOUS
<1>3. w \in WebhookIds /\ pkg = FindPackage(Event[w])
  BY <1>1, PackageApplied DEF ApplyPackage, At, ReadsInv, UpToDate
<1>4. days \in Nat /\ days = DaysOf(k, p) /\ r = RowFor(w, pkg, p)
  BY <1>1, CurrentPackage DEF PackageDays, Undisturbed, RowFor
<1>5. r \in Row \cup {NULL} /\ now \in Nat /\ NULL \notin Nat
  BY <1>1, EventsAssumption DEF IInv, TypeOK, Time
<1>6. Expiry(r) \in MaybeTime
  BY <1>5 DEF Expiry, MaybeTime, Row
<1>7. /\ target \in Nat
      /\ ~RelativeDays(Event[w], days) => target = entitlement_expiry_target(Event[w], days, now)
  <2>1. PICK before \in MaybeTime : before = Expiry(r)
    BY <1>6
  <2>2. /\ GrantTarget(Event[w], before, days, now) \in Nat
        /\ ~RelativeDays(Event[w], days) =>
             GrantTarget(Event[w], before, days, now) = entitlement_expiry_target(Event[w], days, now)
    BY <1>3, <1>4, <1>5, TargetDated
  <2> QED
    BY <1>2, <2>1, <2>2
<1>8. r # NULL => /\ s # NULL /\ r.expires \in Nat /\ s.expires \in Nat /\ s.expires >= r.expires
  BY <1>1, DateStays
<1>9. CASE Applies(k, w, pkg, p)
  <2>1. s = PackageRow(r, Event[w], p, days)
    BY <1>1, <1>4, <1>9, PackageApplied
  <2>2. s # NULL /\ s.expires = Reach(r, target)
    <3>1. PICK t : t = PackageRow(r, Event[w], p, days)
      OBVIOUS
    <3>2. t.expires = Reach(r, target)
      BY <1>2, <1>3, <1>5, <3>1, PackageRowExpiry DEF IsGrant
    <3>3. p \in Products
      BY <1>1, PackageApplied
    <3>4. t \in Row
      BY <1>3, <1>4, <1>5, <3>1, <3>3, PackageRowType DEF MaybeTime
    <3> QED
      BY <2>1, <3>1, <3>2, <3>4, PackagesAssumption
  <2>3. s.expires >= target
    BY <1>5, <1>7, <1>8, <2>2 DEF Reach, Expiry, later_time
  <2>4. FingerprintKnown(w, pkg, p)'
    <3>1. CASE FingerprintKnown(w, pkg, p)
      <4>1. Duplicate(w, pkg, p) /\ ledger \subseteq ledger'
        BY <3>1, PackageApplied DEF Duplicate
      <4> QED
        BY <3>1, <4>1 DEF FingerprintKnown
    <3>2. CASE ~FingerprintKnown(w, pkg, p)
      <4>1. PICK l : l = LedgerEntry(w, pkg, p, RowFor(w, pkg, p), DaysOf(k, p))
        OBVIOUS
      <4>2. l \in ledger'
        BY <1>1, <1>9, <3>2, <4>1, PackageApplied
      <4>3. l.event_fingerprint = GrantFingerprint(w, pkg, p)
        BY <4>1, DaysOfNew
      <4> QED
        BY <4>2, <4>3 DEF FingerprintKnown
    <3> QED
      BY <3>1, <3>2
  <2> QED
    BY <1>1, <1>7, <2>2, <2>3, <2>4 DEF Duplicate
<1>10. CASE ~Applies(k, w, pkg, p)
  <2>1. Suppressed(w, pkg, p, r, days)
    BY <1>1, <1>4, <1>10 DEF Applies
  <2>2. Duplicate(w, pkg, p) /\ (RelativeDays(Event[w], days) \/ r = NULL \/ ~Extends(r, target))
    BY <1>2, <2>1 DEF Suppressed, IsGrant
  <2>3. r # NULL
    BY <1>1, <1>3, <2>2, DuplicateHasRow
  <2>4. RelativeDays(Event[w], days) \/ s.expires >= target
    BY <1>5, <1>7, <1>8, <2>2, <2>3 DEF Extends
  <2>5. Duplicate(w, pkg, p)'
    BY <2>2, DuplicateStays
  <2> QED
    BY <1>1, <1>7, <1>8, <2>3, <2>4, <2>5
<1> QED
  BY <1>9, <1>10

LEMMA GrantsAreKeptStep ==
  ASSUME PaymentsAreOfOnePurchase, IInv, ReadsInv, RowsFit, RowsDated, RowsDated', EntriesHaveRows,
         GrantsAreKept, [Next]_vars
  PROVE  GrantsAreKept'
<1> SUFFICES ASSUME edits' = 0, NEW key \in Keys, NEW w \in AppliedTo(key)',
                    IsGrant(GrantKind(Event[w]))
             PROVE  Kept(key, w)'
  BY DEF GrantsAreKept
<1>1. edits = 0 /\ AppliedStep(key)
  BY EffectStep, AppliedToStep
<1>2. key[2] # NULL /\ PackageDays(key)' = PackageDays(key)
  BY <1>1 DEF AppliedTo, AppliedStep
<1>3. CASE w \in AppliedTo(key)
  <2>1. Kept(key, w) /\ Asked(w, key)' = Asked(w, key)
    BY <1>1, <1>3 DEF GrantsAreKept, AppliedStep
  <2>2. /\ entitlements'[key] # NULL
        /\ entitlements[key].expires \in Nat /\ entitlements'[key].expires \in Nat
        /\ entitlements'[key].expires >= entitlements[key].expires
    BY <1>1, <1>2, <2>1, DateStays DEF Kept
  <2>3. RelativeDays(Event[w], PackageDays(key)) \/ Asked(w, key) \in Nat
    <3>1. PICK days : days = PackageDays(key)
      OBVIOUS
    <3>2. days \in Nat
      <4>1. PICK cfg : cfg = packages[key[2]]
        OBVIOUS
      <4>2. cfg \in PackageConfigs /\ ~cfg.is_ignored /\ key[3] \in DOMAIN cfg.grants
        BY <1>3, <4>1, FoundPackage DEF AppliedTo, IInv, TypeOK
      <4>3. cfg.default_days \in MaybeTime /\ cfg.grants[key[3]] \in MaybeTime /\ ValidPackage(cfg)
        BY <4>2, PackageType, PackagesAssumption
      <4> QED
        BY <3>1, <4>1, <4>2, <4>3 DEF PackageDays, OrElse, ValidPackage, MaybeTime
    <3>3. w \in WebhookIds /\ applied[w] \in Nat
      BY <1>3 DEF AppliedTo, IInv, TypeOK, MaybeTime
    <3>4. ~RelativeDays(Event[w], days) =>
            entitlement_expiry_target(Event[w], days, applied[w]) \in Nat
      <4>1. NULL \in MaybeTime
        BY DEF MaybeTime
      <4> QED
        BY <3>2, <3>3, <4>1, TargetDated
    <3> QED
      BY <3>1, <3>4 DEF Asked
  <2>4. Duplicate(w, key[2], key[3])'
    BY <2>1, DuplicateStays DEF Kept
  <2> QED
    BY <1>2, <2>1, <2>2, <2>3, <2>4 DEF Kept
<1>4. CASE w \notin AppliedTo(key)
  <2>1. PICK k \in Workers :
          /\ ApplyPackage(k) /\ w = worker[k].event /\ key[2] = worker[k].plan
          /\ key = PackageKey(w, key[2], key[3]) /\ key[3] \in GrantedBy(k)
          /\ Asked(w, key)' = entitlement_expiry_target(Event[w], PackageDays(key), now)
    BY <1>1, <1>4 DEF AppliedStep
  <2> QED
    BY <1>1, <1>2, <2>1, GrantIsKept DEF Kept
<1> QED
  BY <1>3, <1>4

\* What is known of the applied grants, in every reachable state.
LEMMA GrantsStayKept ==
  ASSUME PaymentsAreOfOnePurchase, BlocksAreDated
  PROVE  Spec => [](IInv /\ ReadsInv /\ RowsDated /\ GrantsAreKept)
<1> DEFINE Inv == IInv /\ ReadsInv /\ RowsFit /\ RowsDated /\ EntriesHaveRows /\ GrantsAreKept
<1>1. Init => RowsDated /\ EntriesHaveRows /\ GrantsAreKept
  BY DEF Init, RowsDated, EntriesHaveRows, GrantsAreKept, AppliedTo
<1>2. ASSUME IInv, ReadsInv, RowsFit, RowsDated, EntriesHaveRows, GrantsAreKept, [Next]_vars
      PROVE  RowsDated' /\ EntriesHaveRows' /\ GrantsAreKept'
  <2>1. RowsDated' /\ EntriesHaveRows'
    BY <1>2, RowsDatedStep, EntriesHaveRowsStep
  <2> QED
    BY <1>2, <2>1, GrantsAreKeptStep
<1> QED
  BY <1>1, <1>2, ReadsAreCurrent, RowsAlwaysFit, PTL DEF Spec

\* Whatever else happens, the row of an applied grant covers what the grant
\* asked for.
THEOREM GrantsAreEnsured ==
  ASSUME PaymentsAreOfOnePurchase, BlocksAreDated PROVE Spec => []EnsuredThrough
<1>1. GrantsAreKept => EnsuredThrough
  BY DEF GrantsAreKept, Kept, EnsuredThrough
<1> QED
  BY <1>1, GrantsStayKept, PTL

\* What an event with its period asks for is the same on every day.
LEMMA TargetFixed ==
  ASSUME PeriodsAreComplete, NEW w \in WebhookIds, NEW days \in Nat,
         ~RelativeDays(Event[w], days), NEW t, NEW u
  PROVE  entitlement_expiry_target(Event[w], days, t) = entitlement_expiry_target(Event[w], days, u)
<1> DEFINE e == Event[w]
<1>1. days # NULL
  BY EventsAssumption
<1>2. CASE IsPaid(GrantKind(e))
  <2>1. e.start # NULL
    BY <1>1, <1>2 DEF PeriodsAreComplete, RelativeDays
  <2> QED
    BY <2>1 DEF entitlement_expiry_target, OrElse
<1>3. CASE GrantKind(e) = "trial"
  <2>1. OrElse(e.trial_end, e.end) # NULL \/ e.start # NULL
    BY <1>3 DEF PeriodsAreComplete
  <2> QED
    BY <1>3, <2>1 DEF entitlement_expiry_target, OrElse
<1>4. CASE ~IsPaid(GrantKind(e)) /\ GrantKind(e) # "trial"
  BY <1>4 DEF entitlement_expiry_target
<1> QED
  BY <1>2, <1>3, <1>4

\* The event of a transaction that writes a row is applied to that row.
LEMMA WriterIsApplied ==
  ASSUME IInv, ReadsInv, [Next]_vars, edits = 0, NEW key \in Keys, key[2] # NULL,
         NEW k \in Workers, WrittenBy(k, key), NEW w, w = worker[k].event
  PROVE  w \in AppliedTo(key)'
<1>1. /\ w \in WebhookIds /\ applied' = FirstApplied(w) /\ packages' = packages
      /\ GrantKind(Event[w]) # "ignored" /\ key[3] \in GrantedBy(k)
  BY PackageApplied DEF WrittenBy, Applies, Suppressed
<1>2. applied'[w] # NULL
  BY <1>1, AppliedAfter
<1>3. FindPackage(Event[w]) = key[2] /\ FindPackage(Event[w])' = FindPackage(Event[w])
  BY <1>1 DEF WrittenBy, ApplyPackage, At, ReadsInv, UpToDate, FindPackage
<1>4. /\ packages[key[2]].is_active /\ ~packages[key[2]].is_ignored
      /\ key[3] \in DOMAIN packages[key[2]].grants
  BY <1>1, CurrentPackage DEF WrittenBy, Undisturbed
<1>5. key[1] = PackageRoot(w, key[2])
  BY DEF WrittenBy, PackageKey
<1> QED
  BY <1>1, <1>2, <1>3, <1>4, <1>5 DEF AppliedTo

\* The date of a row is one that an applied event asked for, whatever the
\* order of deliveries, and however often they were repeated or interrupted.
THEOREM DatesWereAskedFor ==
  ASSUME PeriodsAreComplete PROVE Spec => []NoMoreThanAsked
<1>1. Init => NoMoreThanAsked
  BY DEF Init, NoMoreThanAsked
<1>2. ASSUME IInv, ReadsInv, NoMoreThanAsked, [Next]_vars
      PROVE  NoMoreThanAsked'
  <2> SUFFICES ASSUME edits' = 0, NEW key \in Keys, key[2] # NULL, entitlements'[key] # NULL,
                      \A w \in AppliedTo(key)' : ~RelativeDays(Event[w], PackageDays(key)')
               PROVE  \E w \in AppliedTo(key)' : entitlements'[key].expires = Asked(w, key)'
    BY DEF NoMoreThanAsked, Keys
  <2>1. edits = 0 /\ AppliedStep(key)
    BY <1>2, EffectStep, AppliedToStep
  <2>2. PackageDays(key)' = PackageDays(key)
    BY <2>1 DEF AppliedStep
  <2>3. ASSUME entitlements[key] # NULL, entitlements'[key].expires = entitlements[key].expires
        PROVE  \E w \in AppliedTo(key)' : entitlements'[key].expires = Asked(w, key)'
    <3>1. \A w \in AppliedTo(key) : ~RelativeDays(Event[w], PackageDays(key))
      BY <2>1, <2>2 DEF AppliedStep
    <3>2. PICK w \in AppliedTo(key) : entitlements[key].expires = Asked(w, key)
      BY <1>2, <2>1, <2>3, <3>1 DEF NoMoreThanAsked
    <3> QED
      BY <2>1, <2>3, <3>2 DEF AppliedStep
  <2>4. ASSUME NEW k \in Workers, WrittenBy(k, key)
        PROVE  \E w \in AppliedTo(key)' : entitlements'[key].expires = Asked(w, key)'
    <3>1. PICK w, days, r, s :
            /\ w = worker[k].event /\ days = PackageDays(key)
            /\ r = entitlements[key] /\ s = entitlements'[key]
      OBVIOUS
    <3>2. PICK target : target = GrantTarget(Event[w], Expiry(r), days, now)
      OBVIOUS
    <3>3. /\ w \in WebhookIds /\ days \in Nat /\ GrantKind(Event[w]) # "ignored"
          /\ Expiry(r) \in MaybeTime
          /\ IsGrant(GrantKind(Event[w])) => s.expires = Reach(r, target)
          /\ ~IsGrant(GrantKind(Event[w])) =>
               /\ target = Event[w].end
               /\ Expiry(r) # NULL => s.expires = Expiry(r)
               /\ Expiry(r) = NULL =>
                    \/ r # NULL /\ s.expires = NULL
                    \/ GrantKind(Event[w]) # "expire" /\ s.expires = target
                    \/ GrantKind(Event[w]) = "expire" /\ s.expires = OrElse(target, now)
      BY <1>2, <2>1, <2>4, <3>1, <3>2, PackageWrite
    <3>4. s.expires = target \/ (r # NULL /\ s.expires = r.expires)
      <4>1. CASE IsGrant(GrantKind(Event[w]))
        BY <3>3, <4>1 DEF Reach, later_time, Expiry
      <4>2. CASE ~IsGrant(GrantKind(Event[w]))
        <5>1. GrantKind(Event[w]) = "expire" => OrElse(target, now) = target
          BY <3>3, <4>2 DEF PeriodsAreComplete, OrElse
        <5> QED
          BY <3>3, <4>2, <5>1 DEF Expiry
      <4> QED
        BY <4>1, <4>2
    <3>5. CASE s.expires = target
      <4>1. w \in AppliedTo(key)'
        BY <1>2, <2>1, <2>4, <3>1, WriterIsApplied
      <4>2. ~RelativeDays(Event[w], days)
        BY <2>2, <3>1, <4>1
      <4>3. target = entitlement_expiry_target(Event[w], days, now)
        BY <3>2, <4>2 DEF GrantTarget
      <4>4. Asked(w, key)' = entitlement_expiry_target(Event[w], days, applied'[w])
        BY <2>2, <3>1 DEF Asked
      <4>5. entitlement_expiry_target(Event[w], days, applied'[w]) = target
        BY <3>3, <4>2, <4>3, TargetFixed
      <4> QED
        BY <3>1, <3>5, <4>1, <4>4, <4>5
    <3>6. CASE r # NULL /\ s.expires = r.expires
      BY <2>3, <3>1, <3>6
    <3> QED
      BY <3>4, <3>5, <3>6
  <2> QED
    BY <1>2, <2>3, <2>4, PackageRowStep
<1> QED
  BY <1>1, <1>2, ReadsAreCurrent, PTL DEF Spec

\* Only the transaction of its request brings a mapped event to its end.
LEMMA OnlyApplyPackage ==
  ASSUME IInv, [Next]_vars, NEW k \in Workers,
         At(k, "customer"), At(k, "done")', worker[k].plan # NULL
  PROVE  ApplyPackage(k)
<1>1. worker \in [Workers -> WorkerState]
  BY DEF IInv, TypeOK
<1>2. ASSUME NEW j \in Workers, j # k, Step(j) \/ Raise(j) \/ Abort(j) \/ \E w \in WebhookIds : Lookup(j, w)
      PROVE  worker'[k] = worker[k]
  <2>1. CASE RecordReceived(j) \/ EnsureCustomer(j) \/ ApplyPackage(j) \/ ApplyDirect(j) \/ Raise(j)
    <3>1. \E pc \in {"received", "customer", "done", "raised"} : worker' = [worker EXCEPT ![j].pc = pc]
      BY <2>1 DEF RecordReceived, EnsureCustomer, ApplyPackage, ApplyDirect, Raise, Goto
    <3> QED
      BY <1>1, <1>2, <3>1
  <2>2. CASE MarkProcessed(j) \/ MarkFailed(j) \/ Abort(j) \/ \E w \in WebhookIds : Lookup(j, w)
    BY <1>1, <1>2, <2>2 DEF MarkProcessed, MarkFailed, Abort, Finish, Lookup
  <2>3. CASE FindMapping(j)
    BY <1>1, <1>2, <2>3 DEF FindMapping, Goto
  <2> QED
    BY <1>2, <2>1, <2>2, <2>3 DEF Step
<1>3. ASSUME \/ Crash \/ Tick \/ UNCHANGED vars
             \/ \E pkg \in WhopIds, cfg \in PackageConfigs : SavePackage(pkg, cfg)
             \/ \E key \in Keys : remove_entitlement(key)
      PROVE  worker'[k] = worker[k] \/ worker'[k].pc = "idle"
  BY <1>3 DEF Crash, Tick, vars, SavePackage, remove_entitlement, Idle
<1>4. ASSUME \/ RecordReceived(k) \/ FindMapping(k) \/ EnsureCustomer(k) \/ ApplyDirect(k)
             \/ MarkProcessed(k) \/ MarkFailed(k) \/ Raise(k) \/ Abort(k)
             \/ \E w \in WebhookIds : Lookup(k, w)
      PROVE  FALSE
  <2>1. CASE Raise(k)
    BY <1>1, <2>1 DEF Raise, Goto, At, WorkerState
  <2>2. CASE EnsureCustomer(k) \/ RecordReceived(k) \/ FindMapping(k) \/ ApplyDirect(k)
    BY <2>2 DEF EnsureCustomer, RecordReceived, FindMapping, ApplyDirect, At
  <2>3. CASE MarkProcessed(k) \/ MarkFailed(k) \/ Abort(k) \/ \E w \in WebhookIds : Lookup(k, w)
    BY <2>3 DEF MarkProcessed, MarkFailed, Abort, Lookup, At
  <2> QED
    BY <1>4, <2>1, <2>2, <2>3
<1>5. worker'[k] # worker[k] /\ worker'[k].pc # "idle"
  BY DEF At
<1> QED
  BY <1>2, <1>3, <1>4, <1>5 DEF Next, Step

\* A grant that is applied again is suppressed for every product: neither rows
\* nor ledger change.
THEOREM ReplaysGrantNothing ==
  ASSUME PaymentsAreOfOnePurchase, BlocksAreDated, PeriodsAreComplete
  PROVE  Spec => ReplayGrantsNothing
<1> DEFINE A == \A k \in Workers :
                  /\ edits = 0
                  /\ At(k, "customer") /\ At(k, "done")'
                  /\ worker[k].plan # NULL
                  /\ applied[worker[k].event] # NULL
                  /\ IsGrant(GrantKind(Event[worker[k].event]))
                  => UNCHANGED <<entitlements, ledger>>
<1>1. ASSUME IInv, ReadsInv, RowsDated, GrantsAreKept, [Next]_vars
      PROVE  A
  <2> SUFFICES ASSUME NEW k \in Workers, edits = 0, At(k, "customer"), At(k, "done")',
                      worker[k].plan # NULL, applied[worker[k].event] # NULL,
                      IsGrant(GrantKind(Event[worker[k].event]))
               PROVE  UNCHANGED <<entitlements, ledger>>
    OBVIOUS
  <2>1. ApplyPackage(k)
    BY <1>1, OnlyApplyPackage
  <2>2. PICK w, pkg : w = worker[k].event /\ pkg = worker[k].plan
    OBVIOUS
  <2>3. w \in WebhookIds /\ pkg \in WhopIds /\ pkg = FindPackage(Event[w])
    BY <1>1, <2>1, <2>2, PackageApplied DEF ApplyPackage, At, ReadsInv, UpToDate
  <2>4. ASSUME NEW p, Applies(k, w, pkg, p)
        PROVE  FALSE
    <3>1. p \in GrantedBy(k) /\ ~Suppressed(w, pkg, p, RowFor(w, pkg, p), DaysOf(k, p))
      BY <2>4 DEF Applies
    <3>2. PICK key, r, days :
            key = PackageKey(w, pkg, p) /\ r = entitlements[key] /\ days = DaysOf(k, p)
      OBVIOUS
    <3>3. /\ key \in Keys /\ key[2] = pkg /\ key[3] = p /\ key[1] = PackageRoot(w, pkg)
          /\ key[2] # NULL
      BY <1>1, <2>1, <2>2, <2>3, <3>1, <3>2, PackageApplied, EventsAssumption DEF PackageKey
    <3>4. /\ days \in Nat /\ days = PackageDays(key)
          /\ packages[pkg].is_active /\ ~packages[pkg].is_ignored
          /\ p \in DOMAIN packages[pkg].grants
      BY <1>1, <2>1, <2>2, <3>1, <3>2, <3>3, CurrentPackage DEF PackageDays, Undisturbed
    <3>5. w \in AppliedTo(key)
      BY <2>2, <2>3, <3>3, <3>4 DEF AppliedTo, IsGrant
    <3>6. Kept(key, w)
      BY <1>1, <2>2, <3>3, <3>5 DEF GrantsAreKept
    <3>7. PICK target : target = GrantTarget(Event[w], Expiry(r), days, now)
      OBVIOUS
    <3>8. ~RelativeDays(Event[w], days) => target = Asked(w, key)
      <4>1. ASSUME ~RelativeDays(Event[w], days)
            PROVE  target = entitlement_expiry_target(Event[w], days, applied[w])
        BY <2>3, <3>4, <3>7, <4>1, TargetFixed DEF GrantTarget
      <4> QED
        BY <3>4, <4>1 DEF Asked
    <3>9. r # NULL /\ r.expires \in Nat
      BY <1>1, <3>2, <3>3, <3>6 DEF Kept, RowsDated, IInv, TypeOK, Row, MaybeTime
    <3>10. RelativeDays(Event[w], days) \/ r.expires >= target
      BY <3>2, <3>4, <3>6, <3>8 DEF Kept
    <3>11. target \in Nat
      <4>1. PICK before \in MaybeTime : before = Expiry(r)
        BY <3>9 DEF Expiry, MaybeTime
      <4>2. now \in Nat
        BY <1>1 DEF IInv, TypeOK, Time
      <4>3. GrantTarget(Event[w], before, days, now) \in Nat
        BY <2>2, <2>3, <3>4, <4>2, TargetDated
      <4> QED
        BY <3>7, <4>1, <4>3
    <3>12. RelativeDays(Event[w], days) \/ ~Extends(r, target)
      BY <3>9, <3>10, <3>11 DEF Extends
    <3>13. Duplicate(w, pkg, p)
      BY <3>3, <3>6 DEF Kept
    <3>14. Suppressed(w, pkg, p, r, days)
      BY <2>2, <3>7, <3>12, <3>13 DEF Suppressed
    <3> QED
      BY <3>1, <3>2, <3>14 DEF RowFor
  <2>5. ledger' = ledger
    <3> DEFINE new == {LedgerEntry(w, pkg, p, RowFor(w, pkg, p), DaysOf(k, p)) :
                         p \in {q \in GrantedBy(k) : Applies(k, w, pkg, q) /\ ~FingerprintKnown(w, pkg, q)}}
    <3>1. ledger' = ledger \cup new
      BY <1>1, <2>1, <2>2, PackageApplied
    <3>2. {q \in GrantedBy(k) : Applies(k, w, pkg, q) /\ ~FingerprintKnown(w, pkg, q)} = {}
      BY <2>4
    <3>3. new = {}
      BY <3>2
    <3> QED
      BY <3>1, <3>3
  <2>6. entitlements' = entitlements
    <3>1. \A key \in Keys : entitlements'[key] = entitlements[key]
      BY <1>1, <2>1, <2>2, <2>4, PackageApplied
    <3>2. entitlements' \in [Keys -> Row \cup {NULL}] /\ entitlements \in [Keys -> Row \cup {NULL}]
      BY <1>1, NextIInv DEF IInv, TypeOK
    <3> QED
      BY <3>1, <3>2
  <2> QED
    BY <2>5, <2>6
<1>2. A => [A]_vars
  OBVIOUS
<1> QED
  BY <1>1, <1>2, GrantsStayKept, PTL DEF Spec, ReplayGrantsNothing

-----------------------------------------------------------------------------
(* The days of payments without dates *)

PaidFor(key) == {w \in AppliedTo(key) : IsPaid(GrantKind(Event[w]))}

PaymentsOf(key) == {Event[w].payment : w \in PaidFor(key)}

\* No other payment reached the row than those whose days go after coverage.
OnlyRelative(key) == \A w \in PaidFor(key) : RelativeDays(Event[w], PackageDays(key))

DaysOfPayments(key) == PackageDays(key) * Cardinality(PaymentsOf(key))

\* DatelessDaysOnce, and that the payments are finitely many.
DaysAreCounted ==
  edits = 0 => \A key \in Keys : OnlyRelative(key) =>
    /\ IsFiniteSet(PaymentsOf(key))
    /\ PaidFor(key) # {} =>
         /\ \E w \in PaidFor(key) : entitlements[key].expires >= applied[w] + DaysOfPayments(key)
         /\ PaidFor(key) = AppliedTo(key) =>
              \E w \in PaidFor(key) : entitlements[key].expires <= applied[w] + DaysOfPayments(key)

\* A row of a package was written by an event.
RowsHaveEvents ==
  edits = 0 => \A key \in Keys :
    key[2] # NULL /\ entitlements[key] # NULL => AppliedTo(key) # {}

LEMMA RowsHaveEventsStep ==
  ASSUME IInv, ReadsInv, RowsHaveEvents, [Next]_vars
  PROVE  RowsHaveEvents'
<1> SUFFICES ASSUME edits' = 0, NEW key \in Keys, key[2] # NULL, entitlements'[key] # NULL
             PROVE  AppliedTo(key)' # {}
  BY DEF RowsHaveEvents, Keys
<1>1. edits = 0 /\ AppliedStep(key)
  BY EffectStep, AppliedToStep
<1>2. CASE entitlements'[key] = entitlements[key]
  BY <1>1, <1>2 DEF RowsHaveEvents, AppliedStep
<1>3. ASSUME NEW k \in Workers, WrittenBy(k, key)
      PROVE  AppliedTo(key)' # {}
  BY <1>1, <1>3, WriterIsApplied
<1> QED
  BY <1>2, <1>3, PackageRowStep

\* The payments without dates of one row have the fingerprints of their ids.
LEMMA PaymentFingerprint ==
  ASSUME NEW v \in WebhookIds, NEW w \in WebhookIds, NEW pkg, NEW p, NEW days, NEW days2,
         RelativeDays(Event[v], days), RelativeDays(Event[w], days2),
         PackageRoot(v, pkg) = PackageRoot(w, pkg), Event[v].payment = Event[w].payment
  PROVE  GrantFingerprint(v, pkg, p) = GrantFingerprint(w, pkg, p)
<1> DEFINE RootOf(e) == OrElse(OrElse(e.membership, e.item), e.customer)
           e == Event[w]
           f == Event[v]
<1>1. /\ IsPaid(GrantKind(e)) /\ IsPaid(GrantKind(f))
      /\ e.start = NULL /\ e.end = NULL /\ f.start = NULL /\ f.end = NULL
  BY DEF RelativeDays
<1>2. CASE e.payment # NULL
  BY <1>1, <1>2 DEF GrantFingerprint, IsPaid
<1>3. CASE e.payment = NULL
  <2>1. RootOf(e) = RootOf(f)
    <3>1. PackageRoot(w, pkg) = IF OrElse(e.membership, e.item) # NULL
                                THEN <<OrElse(e.membership, e.item)>> ELSE <<pkg, e.customer>>
      BY DEF PackageRoot, OrElse
    <3>2. PackageRoot(v, pkg) = IF OrElse(f.membership, f.item) # NULL
                                THEN <<OrElse(f.membership, f.item)>> ELSE <<pkg, f.customer>>
      BY DEF PackageRoot, OrElse
    <3>3. PICK a, b, c, d : a = OrElse(e.membership, e.item) /\ b = OrElse(f.membership, f.item)
                            /\ c = e.customer /\ d = f.customer
      OBVIOUS
    <3>4. (IF a # NULL THEN <<a>> ELSE <<pkg, c>>) = (IF b # NULL THEN <<b>> ELSE <<pkg, d>>)
      BY <3>1, <3>2, <3>3
    <3>5. OrElse(a, c) = OrElse(b, d)
      BY <3>4 DEF OrElse
    <3> QED
      BY <3>3, <3>5
  <2>2. GrantFingerprint(w, pkg, p) = <<"period", RootOf(e), pkg, p, NULL, NULL>>
    BY <1>1, <1>3 DEF GrantFingerprint, IsPaid
  <2>3. GrantFingerprint(v, pkg, p) = <<"period", RootOf(f), pkg, p, NULL, NULL>>
    BY <1>1, <1>3 DEF GrantFingerprint, IsPaid
  <2> QED
    BY <2>1, <2>2, <2>3
<1> QED
  BY <1>2, <1>3

\* Who shares the fingerprint of a payment is of that payment.
LEMMA FingerprintOfPayment ==
  ASSUME NEW v \in WebhookIds, NEW w \in WebhookIds, IsPaid(GrantKind(Event[w])),
         NEW pkg, NEW p, NEW pkg2, NEW p2,
         GrantFingerprint(v, pkg2, p2) = GrantFingerprint(w, pkg, p)
  PROVE  IsPaid(GrantKind(Event[v])) /\ Event[v].payment = Event[w].payment
<1> DEFINE RootOf(e) == OrElse(OrElse(e.membership, e.item), e.customer)
           e == Event[w]
           f == Event[v]
<1>1. CASE e.payment # NULL
  <2>1. GrantFingerprint(w, pkg, p) = <<"payment", e.payment, p>>
    BY <1>1 DEF GrantFingerprint, IsPaid
  <2>2. IsPaid(GrantKind(f)) /\ f.payment # NULL
    BY <2>1, KindType DEF GrantFingerprint, IsPaid, Kinds
  <2>3. GrantFingerprint(v, pkg2, p2) = <<"payment", f.payment, p2>>
    BY <2>2 DEF GrantFingerprint, IsPaid
  <2> QED
    BY <2>1, <2>2, <2>3
<1>2. CASE e.payment = NULL
  <2>1. GrantFingerprint(w, pkg, p)
          = <<"period", RootOf(e), pkg, p, e.start, IF e.start = NULL THEN e.end ELSE NULL>>
    BY <1>2 DEF GrantFingerprint, IsPaid
  <2> QED
    BY <1>2, <2>1 DEF GrantFingerprint, IsPaid
<1> QED
  BY <1>1, <1>2

\* The day of the first application stays, and one event is applied a step.
LEMMA AppliedStays ==
  ASSUME IInv, ReadsInv, [Next]_vars, edits' = 0, NEW key \in Keys
  PROVE  /\ \A v \in AppliedTo(key) : applied'[v] = applied[v]
         /\ \A k \in Workers, v \in AppliedTo(key)' :
              ApplyPackage(k) /\ v \notin AppliedTo(key) => v = worker[k].event /\ applied'[v] = now
<1>1. edits = 0 /\ packages' = packages
  BY EffectStep
<1>2. ASSUME NEW k \in Workers, FindMapping(k) \/ ApplyPackage(k) \/ ApplyDirect(k), applied' # applied
      PROVE  \E w \in WebhookIds : applied' = FirstApplied(w)
  <2>1. PICK w : w = worker[k].event
    OBVIOUS
  <2>2. w \in WebhookIds
    <3>1. CASE FindMapping(k)
      <4>1. worker[k].pc # "idle"
        BY <3>1 DEF FindMapping, At
      <4> QED
        BY <2>1, <4>1, EventOf
    <3>2. CASE ApplyPackage(k) \/ ApplyDirect(k)
      BY <2>1, <3>2, EventOf DEF ApplyPackage, ApplyDirect, At
    <3> QED
      BY <1>2, <3>1, <3>2
  <2>3. applied' = FirstApplied(w)
    <3>1. CASE FindMapping(k)
      <4>1. FindPackage(Event[w]) = NULL
        BY <1>2, <2>1, <3>1 DEF FindMapping
      <4> QED
        BY <1>2, <2>1, <3>1, <4>1 DEF FindMapping
    <3>2. CASE ApplyPackage(k) \/ ApplyDirect(k)
      BY <2>1, <3>2 DEF ApplyPackage, ApplyDirect
    <3> QED
      BY <1>2, <3>1, <3>2
  <2> QED
    BY <2>2, <2>3
<1>3. \A v \in AppliedTo(key) : applied'[v] = applied[v]
  <2> SUFFICES ASSUME NEW v \in AppliedTo(key), applied' # applied
               PROVE  applied'[v] = applied[v]
    OBVIOUS
  <2>1. PICK w \in WebhookIds : applied' = FirstApplied(w)
    BY <1>2, EffectStep
  <2> QED
    BY <2>1, AppliedAfter DEF AppliedTo
<1>4. ASSUME NEW k \in Workers, NEW v \in AppliedTo(key)', ApplyPackage(k), v \notin AppliedTo(key)
      PROVE  v = worker[k].event /\ applied'[v] = now
  <2>1. PICK w : w = worker[k].event
    OBVIOUS
  <2>2. w \in WebhookIds /\ applied' = FirstApplied(w)
    BY <1>4, <2>1, PackageApplied
  <2>3. v \in WebhookIds /\ applied'[v] # NULL /\ applied[v] = NULL
    BY <1>1, <1>4 DEF AppliedTo, FindPackage
  <2> QED
    BY <2>1, <2>2, <2>3, AppliedAfter
<1> QED
  BY <1>3, <1>4

\* What is known of an applied payment without dates.
LEMMA PaymentIsKnown ==
  ASSUME GrantsAreKept, edits = 0, NEW key \in Keys, NEW w \in PaidFor(key),
         RelativeDays(Event[w], PackageDays(key))
  PROVE  FingerprintKnown(w, key[2], key[3]) /\ entitlements[key] # NULL
<1>1. w \in AppliedTo(key) /\ IsGrant(GrantKind(Event[w]))
  BY DEF PaidFor, IsGrant, IsPaid
<1>2. Kept(key, w)
  BY <1>1 DEF GrantsAreKept
<1> QED
  BY <1>2 DEF Kept, Duplicate, PaidPeriodDuplicate, RelativeDays

\* A payment with a known fingerprint was counted.
LEMMA KnownIsCounted ==
  ASSUME PaymentsAreOfOnePurchase, EntriesHaveRows, edits = 0, NEW key \in Keys,
         NEW w \in WebhookIds, key[2] # NULL, key[2] = FindPackage(Event[w]),
         key = PackageKey(w, key[2], key[3]),
         packages[key[2]].is_active, ~packages[key[2]].is_ignored,
         key[3] \in DOMAIN packages[key[2]].grants,
         IsPaid(GrantKind(Event[w])), FingerprintKnown(w, key[2], key[3])
  PROVE  Event[w].payment \in PaymentsOf(key)
<1>1. PICK l \in ledger : l.event_fingerprint = GrantFingerprint(w, key[2], key[3])
  BY DEF FingerprintKnown
<1>2. PICK v \in WebhookIds : EntryOf(l, v)
  BY <1>1 DEF EntriesHaveRows
<1>3. PICK pkg, p, pkg2, p2 : pkg = key[2] /\ p = key[3] /\ pkg2 = l.package /\ p2 = l.product
  OBVIOUS
<1>4. /\ applied[v] # NULL /\ pkg2 = FindPackage(Event[v])
      /\ GrantFingerprint(v, pkg2, p2) = GrantFingerprint(w, pkg, p)
  BY <1>1, <1>2, <1>3 DEF EntryOf
<1>5. PackageKey(v, pkg2, p2) = PackageKey(w, pkg, p)
  BY <1>3, <1>4, OneFingerprintOneRow DEF IsGrant, IsPaid
<1>6. IsPaid(GrantKind(Event[v])) /\ Event[v].payment = Event[w].payment
  BY <1>4, FingerprintOfPayment
<1>7. pkg2 = pkg /\ key[1] = PackageRoot(v, key[2])
  BY <1>3, <1>5 DEF PackageKey
<1>8. v \in AppliedTo(key)
  BY <1>3, <1>4, <1>6, <1>7 DEF AppliedTo, IsPaid
<1> QED
  BY <1>6, <1>8 DEF PaymentsOf, PaidFor

\* A payment without dates writes its row once.
LEMMA KnownWritesNothing ==
  ASSUME IInv, ReadsInv, edits = 0, NEW key \in Keys, key[2] # NULL,
         NEW k \in Workers, WrittenBy(k, key), NEW w, w = worker[k].event,
         RelativeDays(Event[w], PackageDays(key))
  PROVE  ~FingerprintKnown(w, key[2], key[3])
<1>1. PICK days, r : days = PackageDays(key) /\ r = entitlements[key]
  OBVIOUS
<1>2. days = DaysOf(k, key[3])
  BY <1>1, PackageWrite
<1>3. ~Suppressed(w, key[2], key[3], r, days)
  <2>1. r = RowFor(w, key[2], key[3])
    BY <1>1 DEF WrittenBy, RowFor
  <2> QED
    BY <1>2, <2>1 DEF WrittenBy, Applies
<1> QED
  BY <1>1, <1>3 DEF Suppressed, Duplicate, RelativeDays, IsPaid, IsGrant

\* What a payment without dates that is new does to its row.
LEMMA NewPayment ==
  ASSUME PaymentsAreOfOnePurchase, IInv, ReadsInv, RowsDated, GrantsAreKept, edits = 0,
         NEW key \in Keys, key[2] # NULL, OnlyRelative(key), NEW k \in Workers, ApplyPackage(k),
         NEW w, w = worker[k].event, key[2] = worker[k].plan,
         key = PackageKey(w, key[2], key[3]), key[3] \in GrantedBy(k),
         NEW days, days = PackageDays(key),
         RelativeDays(Event[w], days), ~FingerprintKnown(w, key[2], key[3]),
         NEW r, r = entitlements[key]
  PROVE  /\ Event[w].payment \notin PaymentsOf(key)
         /\ r = NULL => entitlements'[key].expires = now + days
         /\ r # NULL => /\ r.expires \in Nat
                        /\ entitlements'[key].expires
                             = (IF r.expires >= now THEN r.expires ELSE now) + days
<1>1. PICK p, s : p = key[3] /\ s = entitlements'[key]
  OBVIOUS
<1>2. PICK target : target = GrantTarget(Event[w], Expiry(r), days, now)
  OBVIOUS
<1>3. w \in WebhookIds /\ IsPaid(GrantKind(Event[w])) /\ Event[w].start = NULL
  BY PackageApplied DEF RelativeDays
<1>4. days = DaysOf(k, p) /\ r = RowFor(w, key[2], p)
  BY <1>1, CurrentPackage DEF PackageDays, Undisturbed, RowFor
<1>5. Applies(k, w, key[2], p)
  <2>1. ~Suppressed(w, key[2], p, r, days)
    BY <1>1, <1>3 DEF Suppressed, Duplicate, PaidPeriodDuplicate, IsPaid
  <2> QED
    BY <1>1, <1>4, <2>1 DEF Applies
<1>6. WrittenBy(k, key)
  <2>1. entitlements'[key] = PackageRow(entitlements[key], Event[w], p, DaysOf(k, p))
    BY <1>1, <1>5, PackageApplied DEF RowFor
  <2> QED
    BY <1>1, <1>5, <2>1 DEF WrittenBy
<1>7. days \in Nat /\ now \in Nat /\ r \in Row \cup {NULL} /\ s.expires = Reach(r, target)
  BY <1>1, <1>2, <1>3, <1>6, PackageWrite DEF IsPaid, IsGrant
<1>8. target = later_time(Expiry(r), now) + days
  BY <1>2 DEF GrantTarget
<1>9. Event[w].payment \notin PaymentsOf(key)
  <2> SUFFICES ASSUME NEW u \in PaidFor(key), Event[u].payment = Event[w].payment
               PROVE  FALSE
    BY DEF PaymentsOf
  <2>1. u \in WebhookIds /\ PackageRoot(u, key[2]) = key[1]
    BY DEF PaidFor, AppliedTo
  <2>2. PackageRoot(w, key[2]) = key[1]
    BY DEF PackageKey
  <2>3. RelativeDays(Event[u], days) /\ FingerprintKnown(u, key[2], key[3])
    BY PaymentIsKnown DEF OnlyRelative
  <2>4. GrantFingerprint(u, key[2], key[3]) = GrantFingerprint(w, key[2], key[3])
    BY <1>3, <2>1, <2>2, <2>3, PaymentFingerprint
  <2> QED
    BY <2>3, <2>4 DEF FingerprintKnown
<1>10. NULL \notin Nat
  BY EventsAssumption
<1>11. r = NULL => s.expires = now + days
  BY <1>7, <1>8 DEF Reach, Expiry, later_time
<1>12. ASSUME r # NULL
       PROVE  /\ r.expires \in Nat
              /\ s.expires = (IF r.expires >= now THEN r.expires ELSE now) + days
  <2>1. r.expires \in Nat
    BY <1>7, <1>12 DEF RowsDated, Row, MaybeTime
  <2>2. PICK x : x = r.expires
    OBVIOUS
  <2>3. target = (IF x >= now THEN x ELSE now) + days
    BY <1>7, <1>8, <1>10, <1>12, <2>1, <2>2 DEF Expiry, later_time
  <2>4. s.expires = IF x >= target THEN x ELSE target
    BY <1>7, <1>10, <1>12, <2>1, <2>2, <2>3 DEF Reach, Expiry, later_time
  <2> QED
    BY <1>7, <2>1, <2>2, <2>3, <2>4
<1> QED
  BY <1>1, <1>9, <1>11, <1>12

\* Sums of days, as the bounds need them.
LEMMA MoreDays ==
  ASSUME NEW days \in Nat, NEW n \in Nat
  PROVE  days * n \in Nat /\ days * (n + 1) = days * n + days
OBVIOUS

LEMMA DaysAreCountedStep ==
  ASSUME PaymentsAreOfOnePurchase, IInv, ReadsInv, RowsFit, RowsDated, RowsDated', EntriesHaveRows,
         GrantsAreKept, RowsHaveEvents, DaysAreCounted, [Next]_vars
  PROVE  DaysAreCounted'
<1> SUFFICES ASSUME edits' = 0, NEW key \in Keys, OnlyRelative(key)'
             PROVE  LET Q == PaidFor(key)'
                        total == PackageDays(key) * Cardinality(PaymentsOf(key)')
                    IN  /\ IsFiniteSet(PaymentsOf(key))'
                        /\ Q # {} =>
                             /\ \E w \in Q : entitlements'[key].expires >= applied'[w] + total
                             /\ Q = AppliedTo(key)' =>
                                  \E w \in Q : entitlements'[key].expires <= applied'[w] + total
  <2>1. edits' = 0 => \A key \in Keys : PackageDays(key)' = PackageDays(key)
    BY EffectStep, AppliedToStep DEF AppliedStep
  <2> QED
    BY <2>1 DEF DaysAreCounted, DaysOfPayments
<1> DEFINE P == PaidFor(key)
           Q == PaidFor(key)'
           A == AppliedTo(key)
           B == AppliedTo(key)'
           n == Cardinality(PaymentsOf(key))
           m == Cardinality(PaymentsOf(key)')
           days == PackageDays(key)
<1>1. edits = 0 /\ AppliedStep(key)
  BY EffectStep, AppliedToStep
<1>2. /\ A \subseteq B /\ P \subseteq Q /\ P \subseteq A /\ Q \subseteq B
      /\ \A w \in B : w \in A /\ w \in Q => w \in P
  BY <1>1 DEF AppliedStep, PaidFor
<1>3. OnlyRelative(key) /\ \A w \in Q : RelativeDays(Event[w], days)
  BY <1>1, <1>2 DEF OnlyRelative, AppliedStep
<1>4. /\ IsFiniteSet(PaymentsOf(key))
      /\ P # {} =>
           /\ \E w \in P : entitlements[key].expires >= applied[w] + days * n
           /\ P = A => \E w \in P : entitlements[key].expires <= applied[w] + days * n
  BY <1>1, <1>3 DEF DaysAreCounted, DaysOfPayments
<1>5. n \in Nat
  BY <1>4, FS_CardinalityType
<1>6. \A w \in B : w \in WebhookIds /\ key[2] # NULL
  BY DEF AppliedTo
<1>7. \A w \in P : applied'[w] = applied[w] /\ applied[w] \in Nat
  BY <1>1, <1>2, AppliedStays DEF AppliedTo, IInv, TypeOK, MaybeTime
<1>8. \A w \in P : FingerprintKnown(w, key[2], key[3]) /\ entitlements[key] # NULL
  BY <1>1, <1>3, PaymentIsKnown DEF OnlyRelative
<1>9. P # {} => /\ entitlements[key].expires \in Nat /\ entitlements'[key].expires \in Nat
                /\ entitlements'[key].expires >= entitlements[key].expires
  BY <1>1, <1>2, <1>6, <1>8, DateStays
<1>10. Q # {} => days \in Nat
  <2> SUFFICES ASSUME NEW w \in Q PROVE days \in Nat
    OBVIOUS
  <2>1. PICK cfg : cfg = packages[key[2]]
    OBVIOUS
  <2>2. packages' = packages
    BY EffectStep
  <2>3. /\ w \in WebhookIds /\ FindPackage(Event[w]) = key[2] /\ key[2] # NULL
        /\ ~packages[key[2]].is_ignored /\ key[3] \in DOMAIN packages[key[2]].grants
    BY <2>2 DEF PaidFor, AppliedTo, FindPackage
  <2>4. cfg \in PackageConfigs /\ ~cfg.is_ignored /\ key[3] \in DOMAIN cfg.grants
    BY <2>1, <2>3, FoundPackage DEF IInv, TypeOK
  <2>5. cfg.default_days \in MaybeTime /\ cfg.grants[key[3]] \in MaybeTime /\ ValidPackage(cfg)
    BY <2>4, PackageType, PackagesAssumption
  <2> QED
    BY <2>1, <2>4, <2>5 DEF PackageDays, OrElse, ValidPackage, MaybeTime
\* A row is not written by a payment that is known.
<1>11. ASSUME Q = B, Q # {}, \A k \in Workers : ApplyPackage(k) /\ worker[k].event \in Q =>
                               FingerprintKnown(worker[k].event, key[2], key[3])
       PROVE  entitlements'[key] = entitlements[key]
  <2>1. key[2] # NULL
    BY <1>2, <1>6, <1>11
  <2>2. ASSUME NEW k \in Workers, WrittenBy(k, key) PROVE FALSE
    <3>1. worker[k].event \in Q
      BY <1>1, <1>11, <2>1, <2>2, WriterIsApplied
    <3>2. ~FingerprintKnown(worker[k].event, key[2], key[3])
      BY <1>1, <1>3, <2>1, <2>2, <3>1, KnownWritesNothing
    <3> QED
      BY <1>11, <2>2, <3>1, <3>2 DEF WrittenBy
  <2> QED
    BY <1>1, <2>1, <2>2, PackageRowStep
<1> SUFFICES /\ IsFiniteSet(PaymentsOf(key)')
             /\ Q # {} =>
                  /\ \E w \in Q : entitlements'[key].expires >= applied'[w] + days * m
                  /\ Q = B => \E w \in Q : entitlements'[key].expires <= applied'[w] + days * m
  OBVIOUS
<1> HIDE DEF P, Q, A, B, days
\* Nothing that is paid was added.
<1>12. CASE Q = P
  <2>1. PaymentsOf(key)' = PaymentsOf(key)
    BY <1>12 DEF PaymentsOf, P, Q
  <2>2. Q # {} => \E w \in Q : entitlements'[key].expires >= applied'[w] + days * m
    <3> SUFFICES ASSUME Q # {} PROVE \E w \in Q : entitlements'[key].expires >= applied'[w] + days * m
      OBVIOUS
    <3>1. PICK w \in P : entitlements[key].expires >= applied[w] + days * n
      BY <1>4, <1>12
    <3>2. PICK t, x, y, a : t = days * n /\ x = entitlements[key].expires
                            /\ y = entitlements'[key].expires /\ a = applied[w]
      OBVIOUS
    <3>3. t \in Nat /\ x \in Nat /\ y \in Nat /\ a \in Nat /\ y >= x /\ x >= a + t
      BY <1>5, <1>7, <1>9, <1>10, <1>12, <3>1, <3>2, MoreDays
    <3>4. y >= a + t
      BY <3>3
    <3> QED
      BY <1>7, <1>12, <2>1, <3>2, <3>4
  <2>3. ASSUME Q # {}, Q = B
        PROVE  \E w \in Q : entitlements'[key].expires <= applied'[w] + days * m
    <3>1. P = A
      BY <1>2, <1>12, <2>3
    <3>2. entitlements'[key] = entitlements[key]
      BY <1>8, <1>11, <1>12, <2>3
    <3>3. PICK w \in P : entitlements[key].expires <= applied[w] + days * n
      BY <1>4, <1>12, <2>3, <3>1
    <3> QED
      BY <1>7, <1>12, <2>1, <3>2, <3>3
  <2> QED
    BY <1>4, <2>1, <2>2, <2>3
\* A payment was added.
<1>13. CASE Q # P
  <2>1. PICK v \in Q : v \notin P
    BY <1>2, <1>13
  <2>2. v \in B /\ v \notin A
    BY <1>2, <2>1
  <2>3. PICK k \in Workers :
          /\ ApplyPackage(k) /\ v = worker[k].event /\ key[2] = worker[k].plan
          /\ key = PackageKey(v, key[2], key[3]) /\ key[3] \in GrantedBy(k)
    BY <1>1, <2>2 DEF AppliedStep, A, B
  <2>4. applied'[v] = now /\ now \in Nat
    BY <1>1, <2>2, <2>3, AppliedStays DEF A, B, IInv, TypeOK, Time
  <2>5. Q = P \cup {v}
    <3> SUFFICES ASSUME NEW u \in Q, u \notin P PROVE u = v
      BY <1>2
    <3>1. u \in B /\ u \notin A
      BY <1>2
    <3> QED
      BY <1>1, <2>3, <3>1, AppliedStays DEF A, B
  <2>6. PaymentsOf(key)' = PaymentsOf(key) \cup {Event[v].payment}
    BY <2>5 DEF PaymentsOf, P, Q
  <2>7. IsFiniteSet(PaymentsOf(key)')
    BY <1>4, <2>6, FS_AddElement
  <2>8. RelativeDays(Event[v], days) /\ days \in Nat /\ v \in WebhookIds /\ key[2] # NULL
    BY <1>3, <1>6, <1>10, <2>1, <2>2
  <2>9. Q = B => P = A
    BY <1>2, <2>2, <2>5
  <2>10. CASE FingerprintKnown(v, key[2], key[3])
    <3>1. Event[v].payment \in PaymentsOf(key)
      <4>1. /\ key[2] = FindPackage(Event[v]) /\ IsPaid(GrantKind(Event[v]))
            /\ packages[key[2]].is_active /\ ~packages[key[2]].is_ignored
            /\ key[3] \in DOMAIN packages[key[2]].grants
        <5>1. packages' = packages
          BY EffectStep
        <5> QED
          BY <2>2, <2>8, <5>1 DEF AppliedTo, B, RelativeDays, FindPackage
      <4> QED
        BY <1>1, <2>3, <2>8, <2>10, <4>1, KnownIsCounted
    <3>2. PaymentsOf(key)' = PaymentsOf(key) /\ P # {}
      BY <2>6, <3>1 DEF PaymentsOf, P
    <3>3. \E w \in Q : entitlements'[key].expires >= applied'[w] + days * m
      <4>1. PICK w \in P : entitlements[key].expires >= applied[w] + days * n
        BY <1>4, <3>2
      <4>2. PICK t, x, y, a : t = days * n /\ x = entitlements[key].expires
                              /\ y = entitlements'[key].expires /\ a = applied[w]
        OBVIOUS
      <4>3. t \in Nat /\ x \in Nat /\ y \in Nat /\ a \in Nat /\ y >= x /\ x >= a + t
        BY <1>5, <1>7, <1>9, <2>8, <3>2, <4>1, <4>2, MoreDays
      <4>4. y >= a + t
        BY <4>3
      <4> QED
        BY <1>7, <2>5, <3>2, <4>2, <4>4
    <3>4. ASSUME Q = B
          PROVE  \E w \in Q : entitlements'[key].expires <= applied'[w] + days * m
      <4>1. entitlements'[key] = entitlements[key]
        BY <1>8, <1>11, <2>1, <2>5, <2>10, <3>4
      <4>2. PICK w \in P : entitlements[key].expires <= applied[w] + days * n
        BY <1>4, <2>9, <3>2, <3>4
      <4> QED
        BY <1>7, <2>5, <3>2, <4>1, <4>2
    <3> QED
      BY <2>7, <3>3, <3>4
  <2>11. CASE ~FingerprintKnown(v, key[2], key[3])
    <3>1. PICK r, y, t : r = entitlements[key] /\ y = entitlements'[key].expires /\ t = days * n
      OBVIOUS
    <3>2. /\ Event[v].payment \notin PaymentsOf(key)
          /\ r = NULL => y = now + days
          /\ r # NULL => r.expires \in Nat /\ y = (IF r.expires >= now THEN r.expires ELSE now) + days
      BY <1>1, <1>3, <2>3, <2>8, <2>11, <3>1, NewPayment DEF days
    <3>3. m = n + 1 /\ t \in Nat /\ days * m = t + days
      <4>1. m = n + 1
        BY <1>4, <2>6, <3>2, FS_AddElement
      <4>2. PICK i \in Nat : i = n
        BY <1>5
      <4> QED
        BY <2>8, <3>1, <4>1, <4>2, MoreDays
    <3>4. CASE P = {}
      <4>1. t = 0
        <5>1. PaymentsOf(key) = {}
          BY <3>4 DEF PaymentsOf, P
        <5>2. n = 0
          BY <5>1, FS_EmptySet
        <5> QED
          BY <2>8, <3>1, <5>2
      <4>2. y >= now + days
        BY <2>4, <2>8, <3>2
      <4>3. y >= applied'[v] + days * m
        BY <2>4, <2>8, <3>3, <4>1, <4>2
      <4>4. Q = B => r = NULL
        BY <1>1, <2>8, <2>9, <3>1, <3>4 DEF RowsHaveEvents, A
      <4>5. Q = B => y <= applied'[v] + days * m
        BY <2>4, <2>8, <3>2, <3>3, <4>1, <4>4
      <4> QED
        BY <2>5, <2>7, <3>1, <4>3, <4>5
    <3>5. CASE P # {}
      <4>1. r # NULL /\ r.expires \in Nat
        BY <1>8, <3>1, <3>2, <3>5
      <4>2. PICK x \in Nat : x = r.expires
        BY <4>1
      <4>3. y = (IF x >= now THEN x ELSE now) + days
        BY <3>2, <4>1, <4>2
      <4>4. \E w \in Q : y >= applied'[w] + days * m
        <5>1. PICK w \in P : x >= applied[w] + t
          BY <1>4, <3>1, <3>5, <4>2
        <5>2. PICK a \in Nat : a = applied[w]
          BY <1>7
        <5>3. y >= a + (t + days)
          BY <2>4, <2>8, <3>3, <4>2, <4>3, <5>1, <5>2
        <5> QED
          BY <1>7, <2>5, <3>3, <5>2, <5>3
      <4>5. ASSUME Q = B PROVE \E w \in Q : y <= applied'[w] + days * m
        <5>1. PICK w \in P : x <= applied[w] + t
          BY <1>4, <2>9, <3>1, <3>5, <4>2, <4>5
        <5>2. PICK a \in Nat : a = applied[w]
          BY <1>7
        <5>3. CASE x >= now
          <6>1. y <= a + (t + days)
            BY <2>4, <2>8, <3>3, <4>3, <5>1, <5>2, <5>3
          <6> QED
            BY <1>7, <2>5, <3>3, <5>2, <6>1
        <5>4. CASE ~(x >= now)
          <6>1. y <= now + (t + days)
            BY <2>4, <2>8, <3>3, <4>3, <5>4
          <6> QED
            BY <2>4, <2>5, <3>3, <6>1
        <5> QED
          BY <5>3, <5>4
      <4> QED
        BY <2>7, <3>1, <4>4, <4>5
    <3> QED
      BY <3>4, <3>5
  <2> QED
    BY <2>10, <2>11
<1> QED
  BY <1>12, <1>13

\* Payments without dates add the days of their package once each, however
\* often, in whatever order and with whatever interruptions they are applied.
THEOREM DatelessDaysCounted ==
  ASSUME PaymentsAreOfOnePurchase, BlocksAreDated PROVE Spec => []DatelessDaysOnce
<1>1. Init => RowsDated /\ EntriesHaveRows /\ GrantsAreKept /\ RowsHaveEvents /\ DaysAreCounted
  <2> SUFFICES ASSUME Init
               PROVE  RowsDated /\ EntriesHaveRows /\ GrantsAreKept /\ RowsHaveEvents /\ DaysAreCounted
    OBVIOUS
  <2>1. \A key \in Keys : AppliedTo(key) = {} /\ entitlements[key] = NULL
    BY DEF Init, AppliedTo
  <2>2. \A key \in Keys : PaidFor(key) = {} /\ PaymentsOf(key) = {}
    BY <2>1 DEF PaidFor, PaymentsOf
  <2>3. DaysAreCounted
    BY <2>2, FS_EmptySet DEF DaysAreCounted
  <2> QED
    BY <2>1, <2>3 DEF Init, RowsDated, EntriesHaveRows, GrantsAreKept, RowsHaveEvents
<1>2. ASSUME IInv, ReadsInv, RowsFit, RowsDated, EntriesHaveRows, GrantsAreKept, RowsHaveEvents,
             DaysAreCounted, [Next]_vars
      PROVE  RowsDated' /\ EntriesHaveRows' /\ GrantsAreKept' /\ RowsHaveEvents' /\ DaysAreCounted'
  <2>1. RowsDated' /\ EntriesHaveRows' /\ RowsHaveEvents'
    BY <1>2, RowsDatedStep, EntriesHaveRowsStep, RowsHaveEventsStep
  <2> QED
    BY <1>2, <2>1, GrantsAreKeptStep, DaysAreCountedStep
<1>3. DaysAreCounted => DatelessDaysOnce
  BY DEF DaysAreCounted, DatelessDaysOnce, OnlyRelative, DaysOfPayments, PaidFor, PaymentsOf
<1> QED
  BY <1>1, <1>2, <1>3, ReadsAreCurrent, RowsAlwaysFit, PTL DEF Spec
=============================================================================
