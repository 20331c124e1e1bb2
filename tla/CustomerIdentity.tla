-------------------------- MODULE CustomerIdentity --------------------------
(***************************************************************************)
(* Which row of customers a call is about.  Webhooks and administrators    *)
(* name a customer by email, Whop user id or Whop member id, any of them   *)
(* may be missing; create_or_update_customer takes a row that matches one  *)
(* of them, or inserts one with a new license key.  A webhook then gives   *)
(* the coverage of its membership to that customer, in a session of its    *)
(* own.  A check looks the customer up with what the client sends.         *)
(*                                                                         *)
(* Persons are who the calls are about; the server does not know them.     *)
(* The SELECT of a call runs before its write takes the lock, and several  *)
(* requests may be served at a time.                                       *)
(***************************************************************************)
EXTENDS FiniteSets, Naturals

CONSTANTS
  NULL,         \* a value that is missing: SQL NULL, or blank after strip
  Ids,          \* customers.id; bound: customers
  Keys,         \* license keys; bound: keys generated
  Persons,
  Emails, Users, Members,  \* normalized identifiers
  Memberships,  \* subscriptions.whop_membership_id
  Calls,        \* what webhooks and administrators send
  Workers,      \* requests served at the same time
  MaxCalls      \* bound: requests and rotations

Kinds == {"email", "whop_user_id", "whop_member_id"}
Values == Emails \cup Users \cup Members

\* A form of an administrator has no membership.
Call == [person : Persons, ids : [Kinds -> Values \cup {NULL}], membership : Memberships \cup {NULL}]

Row == [ids : [Kinds -> Values \cup {NULL}], key : Keys]

Named(call) == {<<kind, call.ids[kind]>> : kind \in {k \in Kinds : call.ids[k] # NULL}}

\* No two persons share an identifier, and a membership is one person's.
ASSUME IdentityAssumption ==
  /\ Calls \subseteq Call /\ MaxCalls \in Nat
  /\ NULL \notin Ids /\ NULL \notin Keys /\ NULL \notin Values
  /\ NULL \notin Call /\ NULL \notin Row
  /\ \A c, d \in Calls : c.person # d.person =>
       Named(c) \cap Named(d) = {} /\ (c.membership = d.membership => c.membership = NULL)

VARIABLES
  customers,  \* rows of customers, NULL where there is none
  covered,    \* customer_id of a membership's subscription and entitlements
  worker,     \* the call each worker serves and what it has read
  issued,     \* history: the customer each key was generated for
  served,     \* history: the rows the accepted calls of a person were about
  calls       \* bound

vars == <<customers, covered, worker, issued, served, calls>>

Idle == [pc |-> "idle", call |-> NULL, customer |-> NULL]

-----------------------------------------------------------------------------
(* create_or_update_customer *)

Held(id) ==
  IF customers[id] = NULL THEN {}
  ELSE {<<k, customers[id].ids[k]>> : k \in {j \in Kinds : customers[id].ids[j] # NULL}}

\* SELECT ... WHERE email_normalized = ? OR whop_user_id = ? OR whop_member_id = ?
Matching(call) == {id \in Ids : Held(id) \cap Named(call) # {}}

\* Error to be caught: only the email is UNIQUE.
ConflictOnEmail(ids, id) ==
  \E other \in Ids \ {id} :
    customers[other] # NULL /\ ids["email"] # NULL /\ customers[other].ids["email"] = ids["email"]

\* A UNIQUE constraint refuses these identifiers in row id.
Conflict(ids, id) ==
  \E other \in Ids \ {id}, kind \in Kinds :
    customers[other] # NULL /\ ids[kind] # NULL /\ customers[other].ids[kind] = ids[kind]

Start(w, call) ==
  /\ worker[w] = Idle /\ calls < MaxCalls /\ calls' = calls + 1
  /\ worker' = [worker EXCEPT ![w] = [Idle EXCEPT !.pc = "find", !.call = call]]
  /\ UNCHANGED <<customers, covered, issued, served>>

\* Any of the rows that match.
Find(w) ==
  LET found == Matching(worker[w].call)
  IN  /\ worker[w].pc = "find"
      /\ \E id \in IF found = {} THEN {NULL} ELSE found :
           worker' = [worker EXCEPT ![w].pc = "write", ![w].customer = id]
      /\ UNCHANGED <<customers, covered, issued, served, calls>>

\* The session is committed; only a webhook goes on.
Accept(w, id) ==
  LET call == worker[w].call
  IN  /\ served' = [served EXCEPT ![call.person] = @ \cup {id}]
      /\ worker' = [worker EXCEPT ![w] = IF call.membership = NULL THEN Idle
                                         ELSE [@ EXCEPT !.pc = "grant", !.customer = id]]

Insert(w) ==
  LET ids == worker[w].call.ids
  IN  /\ worker[w].pc = "write" /\ worker[w].customer = NULL
      /\ \E id \in Ids, key \in Keys :
           /\ customers[id] = NULL /\ issued[key] = NULL /\ ~Conflict(ids, id)
           /\ customers' = [customers EXCEPT ![id] = [ids |-> ids, key |-> key]]
           /\ issued' = [issued EXCEPT ![key] = id]
           /\ Accept(w, id)
      /\ UNCHANGED <<covered, calls>>

\* COALESCE(?, column): what the call does not name is kept.
Merged(old, new) == [kind \in Kinds |-> IF new[kind] = NULL THEN old[kind] ELSE new[kind]]

Update(w) ==
  LET id == worker[w].customer
  IN  /\ worker[w].pc = "write" /\ id # NULL
      /\ ~Conflict(worker[w].call.ids, id)
      /\ customers' = [customers EXCEPT ![id].ids = Merged(@, worker[w].call.ids)]
      /\ Accept(w, id)
      /\ UNCHANGED <<covered, issued, calls>>

\* sqlite3.IntegrityError: a webhook is marked failed, a form answered 500.
Refuse(w) ==
  /\ worker[w].pc = "write" /\ Conflict(worker[w].call.ids, worker[w].customer)
  /\ worker' = [worker EXCEPT ![w] = Idle]
  /\ UNCHANGED <<customers, covered, issued, served, calls>>

-----------------------------------------------------------------------------
(* The other sessions *)

\* _upsert_whop_subscription and the entitlements set customer_id each time.
Grant(w) ==
  /\ worker[w].pc = "grant"
  /\ covered' = [covered EXCEPT ![worker[w].call.membership] = worker[w].customer]
  /\ worker' = [worker EXCEPT ![w] = Idle]
  /\ UNCHANGED <<customers, issued, served, calls>>

\* The request is lost; what it committed stays.
Crash ==
  /\ \E w \in Workers : worker[w] # Idle
  /\ worker' = [w \in Workers |-> Idle]
  /\ UNCHANGED <<customers, covered, issued, served, calls>>

rotate_customer_license_key(id) ==
  /\ customers[id] # NULL /\ calls < MaxCalls /\ calls' = calls + 1
  /\ \E key \in Keys :
       /\ issued[key] = NULL
       /\ customers' = [customers EXCEPT ![id].key = key]
       /\ issued' = [issued EXCEPT ![key] = id]
  /\ UNCHANGED <<covered, worker, served>>

-----------------------------------------------------------------------------
(* What a check finds *)

With(kind, value) ==
  {id \in Ids : value # NULL /\ customers[id] # NULL /\ customers[id].ids[kind] = value}

WithKey(key) == {id \in Ids : customers[id] # NULL /\ customers[id].key = key}

\* Error to be caught: a key that matches nobody ends the search.
KeyOrNobody(key, email, id, user) ==
  IF key # NULL THEN WithKey(key)
  ELSE IF id \in Ids /\ customers[id] # NULL THEN {id}
  ELSE IF With("email", email) # {} THEN With("email", email)
  ELSE With("whop_user_id", user)

\* What is given and matches nobody is passed over.
_find_customer(key, email, id, user) ==
  IF WithKey(key) # {} THEN WithKey(key)
  ELSE IF id \in Ids /\ customers[id] # NULL THEN {id}
  ELSE IF With("email", email) # {} THEN With("email", email)
  ELSE With("whop_user_id", user)

-----------------------------------------------------------------------------

Init ==
  /\ customers = [id \in Ids |-> NULL] /\ covered = [m \in Memberships |-> NULL]
  /\ worker = [w \in Workers |-> Idle] /\ issued = [k \in Keys |-> NULL]
  /\ served = [p \in Persons |-> {}] /\ calls = 0

Next ==
  \/ \E w \in Workers :
       \/ \E call \in Calls : Start(w, call)
       \/ Find(w) \/ Insert(w) \/ Update(w) \/ Refuse(w) \/ Grant(w)
  \/ Crash
  \/ \E id \in Ids : rotate_customer_license_key(id)

Spec == Init /\ [][Next]_vars

-----------------------------------------------------------------------------
(* Properties *)

\* The identifiers all calls about a person name.
Anchors(p) == {a \in Kinds \X Values : \A c \in Calls : c.person = p => a \in Named(c)}

\* A person whose calls all name one identifier is one customer, however the
\* calls overlap and whatever else they name; nobody else is that customer, and
\* a call that found it is never refused, so a webhook that failed because two
\* calls inserted at once is accepted when it is sent again.
OneCustomerPerPerson ==
  \A p \in Persons : Anchors(p) # {} =>
    /\ \A a, b \in served[p] : a = b
    /\ \A q \in Persons \ {p} : served[p] \cap served[q] = {}
    /\ \A w \in Workers :
         worker[w].pc = "write" /\ worker[w].call.person = p /\ worker[w].customer # NULL =>
           ~Conflict(worker[w].call.ids, worker[w].customer)

Said(p, kind) == {NULL} \cup {c.ids[kind] : c \in {d \in Calls : d.person = p}}

\* README, Customer activation: a check may name a license key, an email, a
\* customer id or a Whop user id.  Once a webhook has given a person coverage,
\* every check that names what their calls always name finds the customer who
\* has it, old keys and emails in the same check notwithstanding; and a key
\* finds the customer it was generated for, or nobody once it was replaced.
CoverageIsFound ==
  /\ \A call \in Calls : LET m == call.membership IN
       m # NULL /\ covered[m] # NULL =>
         \A email \in Said(call.person, "email"), user \in Said(call.person, "whop_user_id") :
           {<<"email", email>>, <<"whop_user_id", user>>} \cap Anchors(call.person) # {} =>
             \A key \in {NULL} \cup {k \in Keys : issued[k] = covered[m]} :
               _find_customer(key, email, NULL, user) = {covered[m]}
  /\ \A k \in Keys : issued[k] # NULL => WithKey(k) \subseteq {issued[k]}
  /\ \A id \in Ids : customers[id] # NULL => WithKey(customers[id].key) = {id}
=============================================================================
