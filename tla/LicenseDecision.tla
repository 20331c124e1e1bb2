-------------------------- MODULE LicenseDecision --------------------------
(***************************************************************************)
(* What a check decides from the rows of entitlements of one customer.  A  *)
(* product may be covered by several sources: the packages and products of *)
(* Whop memberships, and one row that administrators set by hand.  Every   *)
(* row has a status and dates of its own; the check takes one of them for  *)
(* each product.                                                           *)
(*                                                                         *)
(* Whop's rows are written by webhooks; here they do what Coverage allows  *)
(* (WhopGrants implements it).  Clients are TraderPro.                     *)
(***************************************************************************)
EXTENDS Integers, FiniteSets, SequencesExt

CONSTANTS
  NULL,      \* SQL NULL
  Products,  \* products.id
  Sources,   \* rows the customer may have, by source and external_id
  ProductOf, \* entitlements.product_id of each of them
  ByHand,    \* the sources set by administrators
  InitRows,  \* the rows of the start
  MaxNow,    \* bound: last second
  MaxEdits   \* bound: requests of administrators and webhooks

Time == 0..MaxNow
Dates == 0..MaxNow + 1

EntitlementStatuses == {"active", "trialing", "expired", "revoked", "suspended", "pending"}

Row == [status : EntitlementStatuses, starts : Dates, expires : Dates \cup {NULL},
        revoked : BOOLEAN, updated : Time]

Product == [is_active : BOOLEAN, trader_enabled : BOOLEAN, private : BOOLEAN]

\* A table has finitely many rows; a row of Whop's expires on a date.
ASSUME DecisionAssumption ==
  /\ MaxNow \in Nat /\ MaxEdits \in Nat
  /\ ProductOf \in [Sources -> Products] /\ ByHand \subseteq Sources
  /\ InitRows \subseteq [Sources -> Row \cup {NULL}]
  /\ NULL \notin Nat /\ NULL \notin Row /\ NULL \notin Products
  /\ \A rows \in InitRows :
       /\ IsFiniteSet({s \in Sources : rows[s] # NULL})
       /\ \A s \in Sources \ ByHand :
            rows[s] # NULL /\ rows[s].status = "expired" => rows[s].expires # NULL

VARIABLES
  now,           \* the second
  entitlements,  \* the customer's rows, NULL where there is none
  products,      \* rows of products
  removed,       \* products named in entitlement.removed entries of audit_log
  edits          \* bound

decisionVars == <<now, entitlements, products, removed, edits>>

-----------------------------------------------------------------------------
(* _current_grants: one row for each product *)

Rows(p) == {s \in Sources : ProductOf[s] = p /\ entitlements[s] # NULL}

Elapsed(s) == entitlements[s].expires # NULL /\ entitlements[s].expires <= now

\* A lapsed Whop row whose date is still to come is read as active.
ReadStatus(s) ==
  LET r == entitlements[s]
  IN  IF s \notin ByHand /\ r.status = "expired" /\ ~r.revoked
         /\ r.expires # NULL /\ ~Elapsed(s)
      THEN "active" ELSE r.status

IsLicensed(s) ==
  /\ products[ProductOf[s]].is_active
  /\ ReadStatus(s) \in {"active", "trialing"}
  /\ ~entitlements[s].revoked
  /\ entitlements[s].starts <= now
  /\ ~Elapsed(s)

LastsLonger(s, t) ==
  LET a == entitlements[s].expires
      b == entitlements[t].expires
  IN  b # NULL /\ (a = NULL \/ a > b)

\* Error to be caught: the row written last is taken, whatever it says.
BetterIfLonger(t, s) ==
  IF IsLicensed(s) /\ IsLicensed(t) /\ LastsLonger(s, t) THEN s ELSE t

\* The row kept when s is met after t.
Better(t, s) ==
  CASE IsLicensed(s) /\ ~IsLicensed(t) -> s
    [] IsLicensed(s) /\ IsLicensed(t) /\ LastsLonger(s, t) -> s
    [] OTHER -> t

\* ORDER BY updated_at DESC: rows written in the same second come in any order.
Orders(p) ==
  {o \in SetToSeqs(Rows(p)) :
     \A i, j \in DOMAIN o : i < j => entitlements[o[i]].updated >= entitlements[o[j]].updated}

\* The row kept in the end when the rows are met in order o.
Kept(o) ==
  LET after[i \in DOMAIN o] == IF i = 1 THEN o[1] ELSE Better(after[i - 1], o[i])
  IN  after[Len(o)]

\* The rows that may be taken for a product that has any.
Best(p) == {Kept(o) : o \in Orders(p) \ {<<>>}}

\* _filter_grants_for_client, for TraderPro.
Granted == {p \in Products : Rows(p) # {} /\ products[p].trader_enabled}

LicensedProducts == {p \in Granted : \E s \in Best(p) : IsLicensed(s)}

\* _entitlement_states: the products it tells of.
EntitlementStates == Granted \cup {p \in removed : Rows(p) = {} /\ products[p].trader_enabled}

-----------------------------------------------------------------------------
(* What changes the rows *)

MayEdit == edits < MaxEdits /\ edits' = edits + 1 /\ UNCHANGED now

WithRow(s, r) ==
  entitlements' = [entitlements EXCEPT ![s] = r] /\ UNCHANGED <<products, removed>>

\* Saving replaces status and expiry exactly; the start is that of the insert.
manual_set_entitlement(s) ==
  /\ MayEdit /\ s \in ByHand
  /\ \E status \in EntitlementStatuses, expires \in Dates \cup {NULL} :
       WithRow(s, [status  |-> status,
                   starts  |-> IF entitlements[s] = NULL THEN now ELSE entitlements[s].starts,
                   expires |-> expires, revoked |-> status = "revoked", updated |-> now])

remove_entitlement(s) ==
  /\ MayEdit /\ entitlements[s] # NULL
  /\ entitlements' = [entitlements EXCEPT ![s] = NULL]
  /\ removed' = removed \cup {ProductOf[s]}
  /\ UNCHANGED products

Standing(s) ==
  LET r == entitlements[s]
  IN  IF r = NULL THEN "absent"
      ELSE CASE r.status \in {"active", "trialing"} -> "good"
             [] r.status = "expired" -> "lapsed"
             [] OTHER -> "blocked"

Whop == INSTANCE Coverage WITH
  Sources  <- Sources \ ByHand,
  day      <- now,
  standing <- [s \in Sources \ ByHand |-> Standing(s)],
  through  <- [s \in Sources \ ByHand |-> IF entitlements[s] = NULL THEN NULL
                                          ELSE entitlements[s].expires]

\* What a webhook does to one source; the products do not depend on each
\* other.  A start is never moved forward, an expired row has a date, and none
\* is pending.
ProcessWhopEvent(s) ==
  /\ MayEdit /\ s \notin ByHand
  /\ \E status \in EntitlementStatuses \ {"pending"}, starts \in 0..now + 1, expires \in Dates \cup {NULL} :
       /\ entitlements[s] # NULL => starts <= entitlements[s].starts
       /\ status = "expired" => expires # NULL
       /\ WithRow(s, [status  |-> status, starts |-> starts, expires |-> expires,
                      revoked |-> status = "revoked", updated |-> now])
       /\ Whop!Change(s)

upsert_product(p) ==
  /\ MayEdit
  /\ \E row \in Product : products' = [products EXCEPT ![p] = row]
  /\ UNCHANGED <<entitlements, removed>>

DecisionInit ==
  /\ now = 0 /\ edits = 0 /\ removed = {}
  /\ entitlements \in InitRows
  /\ products \in [Products -> Product]

DecisionEdit ==
  \/ \E s \in Sources :
       manual_set_entitlement(s) \/ remove_entitlement(s) \/ ProcessWhopEvent(s)
  \/ \E p \in Products : upsert_product(p)

DecisionTypeOK ==
  /\ now \in Time /\ edits \in 0..MaxEdits /\ removed \subseteq Products
  /\ entitlements \in [Sources -> Row \cup {NULL}]
  /\ products \in [Products -> Product]

-----------------------------------------------------------------------------
(* Properties *)

\* A source covers its product, taken by itself.
Covers(s) ==
  LET r == entitlements[s]
  IN  /\ r # NULL /\ products[ProductOf[s]].is_active
      /\ r.starts <= now /\ ~r.revoked
      /\ r.expires = NULL \/ now < r.expires
      /\ r.status \in {"active", "trialing"} \cup (IF s \in ByHand THEN {} ELSE {"expired"})

\* project-memory, Grant behavior: effective access uses the active source with
\* Lifetime or the latest expiry, so one source ending cannot mask another
\* active source.  Whichever row is taken for a product, it is licensed if any
\* row covers the product, and none of these lasts longer.
EffectiveAccess ==
  \A p \in Products : \A s \in Best(p) :
    LET covering == {t \in Rows(p) : Covers(t)}
    IN  /\ IsLicensed(s) <=> covering # {}
        /\ covering # {} => s \in covering /\ ~\E t \in covering : LastsLonger(t, s)
=============================================================================
