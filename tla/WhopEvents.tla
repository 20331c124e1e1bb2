----------------------------- MODULE WhopEvents -----------------------------
(***************************************************************************)
(* What one Whop event says: the entitlement status and the kind of grant  *)
(* read from its texts, the dates it carries, the row and the ledger key   *)
(* it is about.  Pure operators of service.py; the events themselves are   *)
(* the constant Event, one record per webhook id, with the fields that     *)
(* _extract_customer_info, _extract_whop_ids and                           *)
(* _extract_subscription_info take out of the payload.                     *)
(*                                                                         *)
(* Times are whole days.  A missing value (SQL NULL, Python None) is NULL. *)
(* A text is the set of the word classes it contains, each named after one *)
(* of the words of its class.                                              *)
(***************************************************************************)
EXTENDS Integers

CONSTANTS
  NULL,          \* a missing value
  WebhookIds,    \* the webhook ids Whop uses
  Customers,     \* customers the events name
  Ids,           \* membership, payment and payload ids
  WhopIds,       \* Whop plan and product ids, which packages are keyed by
  Products,      \* licensed products
  Event          \* what the event with a given webhook id carries

Time == Nat
MaybeTime == Nat \cup {NULL}

Words == {"refund", "suspend", "past_due", "expire", "cancel_at_period_end",
          "active", "paid", "renew", "trial"}

EventRecord ==
  [customer   : Customers,
   also       : SUBSET Customers,     \* others whose identifiers it carries
   membership : Ids \cup {NULL},      \* subscription_info["membership_id"]
   item       : Ids \cup {NULL},      \* subscription_info["entitlement_id"]
   payment    : Ids \cup {NULL},
   plan       : WhopIds \cup {NULL},
   product    : WhopIds \cup {NULL},
   raw        : SUBSET Words,         \* the status text of the payload
   event      : SUBSET Words,         \* the event name
   start      : MaybeTime,            \* subscription_info["period_start"]
   end        : MaybeTime,            \* subscription_info["expires_at"]
   trial_end  : MaybeTime]

ASSUME EventsAssumption ==
  /\ NULL \notin Nat \cup Customers \cup Ids \cup WhopIds \cup Products \cup WebhookIds
  /\ Event \in [WebhookIds -> EventRecord]

-----------------------------------------------------------------------------
(* Times *)

later_time(a, b) ==
  IF a = NULL THEN b ELSE IF b = NULL \/ a >= b THEN a ELSE b

earlier_time(a, b) ==
  IF a = NULL THEN b ELSE IF b = NULL \/ a <= b THEN a ELSE b

\* Python's `a or b`.
OrElse(a, b) == IF a = NULL THEN b ELSE a

\* Error to be caught: without the max(0, ...).
ceil_days_unclamped(delta) == delta

ceil_days(delta) == IF delta > 0 THEN delta ELSE 0

-----------------------------------------------------------------------------
(* Statuses and kinds *)

is_cancel_at_period_end_event(event) == "cancel_at_period_end" \in event

\* The words of the five lists, the most drastic one first.
normalize_entitlement_status(raw, event) ==
  LET Says(words) == (raw \cup event) \cap words # {}
  IN  IF is_cancel_at_period_end_event(event) /\ "active" \in raw THEN "active"
      ELSE IF Says({"refund"})                         THEN "revoked"
      ELSE IF Says({"suspend", "past_due"})            THEN "suspended"
      ELSE IF Says({"expire", "cancel_at_period_end"}) THEN "expired"
      ELSE IF Says({"active", "paid", "renew"})        THEN "active"
      ELSE IF Says({"trial"})                          THEN "trialing"
      ELSE "pending"

normalize_subscription_status(raw, event) ==
  LET status == normalize_entitlement_status(raw, event)
  IN  IF status = "suspended" /\ "past_due" \in raw \cup event THEN "past_due"
      ELSE IF status = "pending" THEN "unknown"
      ELSE status

EntitlementStatuses ==
  {"active", "trialing", "expired", "revoked", "suspended", "pending"}

Kinds == {"trial", "paid", "renewal", "revoke", "expire", "suspend", "ignored"}

GrantKind(e) ==
  LET status == normalize_entitlement_status(e.raw, e.event)
  IN  IF is_cancel_at_period_end_event(e.event) THEN "ignored"
      ELSE IF status = "revoked"                THEN "revoke"
      ELSE IF status = "expired"                THEN "expire"
      ELSE IF status = "suspended"              THEN "suspend"
      ELSE IF status = "trialing"               THEN "trial"
      ELSE IF "renew" \in e.event               THEN "renewal"
      ELSE IF status = "active"                 THEN "paid"
      ELSE "ignored"

IsPaid(kind)  == kind \in {"paid", "renewal"}
IsGrant(kind) == kind \in {"trial", "paid", "renewal"}

-----------------------------------------------------------------------------
(* The date an event asks coverage to reach *)

entitlement_expiry_target(e, days, now) ==
  LET kind       == GrantKind(e)
      configured == OrElse(e.start, now) + days
      trial      == OrElse(e.trial_end, e.end)
  IN  IF kind = "trial" /\ trial # NULL THEN trial
      ELSE IF kind = "trial"
           THEN IF days = NULL THEN NULL ELSE configured
      ELSE IF ~IsPaid(kind) \/ days = NULL THEN e.end
      ELSE later_time(e.end, configured)

\* A paid event without any date: its days go after the current coverage.
RelativeDays(e, days) ==
  /\ IsPaid(GrantKind(e))
  /\ days # NULL /\ e.start = NULL /\ e.end = NULL

\* Error to be caught: every paid event adds its days after current coverage.
GrantTargetAdding(e, before, days, now) ==
  IF IsPaid(GrantKind(e)) /\ days # NULL
  THEN later_time(before, now) + days
  ELSE entitlement_expiry_target(e, days, now)

GrantTarget(e, before, days, now) ==
  IF RelativeDays(e, days)
  THEN later_time(before, now) + days
  ELSE entitlement_expiry_target(e, days, now)

-----------------------------------------------------------------------------
(* Which row and which ledger entry an event is about *)

\* entitlements.external_id of a package grant, up to the product.
PackageRoot(w, pkg) ==
  LET e == Event[w]
  IN  IF e.membership # NULL THEN <<e.membership>>
      ELSE IF e.item # NULL  THEN <<e.item>>
      ELSE <<pkg, e.customer>>

\* entitlements.external_id of a direct product.
DirectRoot(w) == <<OrElse(OrElse(Event[w].membership, Event[w].item), w)>>

\* Error to be caught: every event has a fingerprint of its own.
GrantFingerprintByEvent(w, pkg, prod) == <<GrantKind(Event[w]), w, prod>>

GrantFingerprint(w, pkg, prod) ==
  LET e    == Event[w]
      kind == GrantKind(e)
      root == OrElse(OrElse(e.membership, e.item), e.customer)
  IN  IF kind = "trial"
      THEN <<"trial", root, pkg, prod, OrElse(e.trial_end, e.end)>>
      ELSE IF IsPaid(kind) /\ e.payment # NULL
      THEN <<"payment", e.payment, prod>>
      ELSE IF IsPaid(kind)
      THEN <<"period", root, pkg, prod, e.start, IF e.start = NULL THEN e.end ELSE NULL>>
      ELSE <<kind, w, prod>>
=============================================================================
