----------------------- MODULE CustomerIdentityProofs -----------------------
(***************************************************************************)
(* A person whose calls all name one identifier is one customer, for any   *)
(* persons, calls and number of requests at a time.                        *)
(*                                                                         *)
(* The UNIQUE constraints alone do not give it: a lookup may find a row by *)
(* an identifier that row no longer has when it is written.  What does is  *)
(* that every identifier a row holds was named by a person the row served  *)
(* (HeldInv), so that a row found by a person is, and stays, that          *)
(* person's (FoundInv).                                                    *)
(***************************************************************************)
EXTENDS CustomerIdentity, TLAPS

Serving(w) == worker[w].pc # "idle"

TypesInv ==
  /\ customers \in [Ids -> Row \cup {NULL}]
  /\ served \in [Persons -> SUBSET Ids]
  /\ worker \in [Workers -> [pc : {"idle", "find", "write", "grant"},
                             call : Calls \cup {NULL}, customer : Ids \cup {NULL}]]
  /\ \A w \in Workers : Serving(w) => worker[w].call \in Calls

\* Row id holds value v of a kind.
Holds(id, k, v) == customers[id] # NULL /\ v # NULL /\ customers[id].ids[k] = v

\* The call names value v of a kind.
Names(call, k, v) == v # NULL /\ call.ids[k] = v

UniqueInv ==
  \A a, b \in Ids : \A k \in Kinds, v \in Values : Holds(a, k, v) /\ Holds(b, k, v) => a = b

ServedInv ==
  /\ \A p \in Persons : \A id \in served[p] : customers[id] # NULL
  /\ \A p, q \in Persons : \A id \in Ids : id \in served[p] /\ id \in served[q] => p = q

HeldInv ==
  \A id \in Ids : \A k \in Kinds, v \in Values : Holds(id, k, v) =>
    \E c \in Calls : Names(c, k, v) /\ id \in served[c.person]

FoundInv ==
  \A w \in Workers : worker[w].pc = "write" /\ worker[w].customer # NULL =>
    worker[w].customer \in served[worker[w].call.person]

\* All calls about p name value v of a kind.
Anchor(p, k, v) == \A c \in Calls : c.person = p => Names(c, k, v)

AnchorInv ==
  \A p \in Persons : \A k \in Kinds, v \in Values : Anchor(p, k, v) =>
    \A id \in served[p] : Holds(id, k, v)

IdentityInv ==
  TypesInv /\ UniqueInv /\ ServedInv /\ HeldInv /\ FoundInv /\ AnchorInv

-----------------------------------------------------------------------------
(* Facts about calls and rows *)

\* The fields of a call.
LEMMA CallFields ==
  ASSUME NEW c \in Calls
  PROVE  /\ c.person \in Persons /\ c.ids \in [Kinds -> Values \cup {NULL}]
         /\ c # NULL
BY IdentityAssumption DEF Call

\* Two persons never name the same value.
LEMMA OwnValues ==
  ASSUME NEW c \in Calls, NEW d \in Calls, NEW k \in Kinds, NEW v,
         Names(c, k, v), Names(d, k, v)
  PROVE  c.person = d.person
<1>1. <<k, v>> \in Named(c) /\ <<k, v>> \in Named(d)
  BY DEF Named, Names
<1> QED BY <1>1, IdentityAssumption

\* A row that matches a call has a value the call names.
LEMMA MatchingHolds ==
  ASSUME TypesInv, NEW c \in Calls, NEW id \in Matching(c)
  PROVE  id \in Ids /\ \E k \in Kinds, v \in Values : Holds(id, k, v) /\ Names(c, k, v)
<1>1. id \in Ids /\ Held(id) \cap Named(c) # {}
  BY DEF Matching
<1>2. PICK a : a \in Held(id) /\ a \in Named(c)
  BY <1>1
<1>3. customers[id] # NULL
  BY <1>2 DEF Held
<1>4. PICK k \in Kinds : a = <<k, customers[id].ids[k]>> /\ customers[id].ids[k] # NULL
  BY <1>2, <1>3 DEF Held
<1>5. PICK j \in Kinds : a = <<j, c.ids[j]>> /\ c.ids[j] # NULL
  BY <1>2 DEF Named
<1>6. j = k /\ c.ids[k] = customers[id].ids[k]
  BY <1>4, <1>5
<1>7. c.ids[k] \in Values
  BY <1>5, <1>6, CallFields
<1> QED BY <1>1, <1>3, <1>4, <1>5, <1>6, <1>7 DEF Holds, Names

\* What a person's call found by the values it names served that person.
LEMMA FoundIsServed ==
  ASSUME IdentityInv, NEW c \in Calls, NEW id \in Ids, NEW k \in Kinds, NEW v \in Values,
         Holds(id, k, v), Names(c, k, v)
  PROVE  id \in served[c.person]
<1>1. PICK d \in Calls : Names(d, k, v) /\ id \in served[d.person]
  BY DEF IdentityInv, HeldInv
<1>2. d.person = c.person
  BY <1>1, OwnValues
<1> QED BY <1>1, <1>2

-----------------------------------------------------------------------------
(* The steps *)

LEMMA InitInv == Init => IdentityInv
<1> SUFFICES ASSUME Init PROVE IdentityInv
  OBVIOUS
<1>1. \A id \in Ids : customers[id] = NULL
  BY DEF Init
<1>2. TypesInv
  BY DEF Init, TypesInv, Idle, Serving
<1>3. \A p \in Persons : served[p] = {}
  BY DEF Init
<1>4. UniqueInv /\ HeldInv
  BY <1>1 DEF UniqueInv, HeldInv, Holds
<1>5. ServedInv /\ AnchorInv
  BY <1>3 DEF ServedInv, AnchorInv
<1>6. FoundInv
  BY DEF Init, FoundInv, Idle
<1> QED BY <1>2, <1>4, <1>5, <1>6 DEF IdentityInv

\* Rows and persons unchanged: what is left is what the workers read.
LEMMA WorkerStep ==
  ASSUME IdentityInv, UNCHANGED <<customers, served>>, TypesInv', FoundInv'
  PROVE  IdentityInv'
<1> USE DEF IdentityInv
<1>1. \A id \in Ids : \A k \in Kinds, v \in Values : Holds(id, k, v)' = Holds(id, k, v)
  BY DEF Holds
<1>2. UniqueInv'
  BY <1>1 DEF UniqueInv
<1>3. ServedInv'
  BY DEF ServedInv
<1>4. HeldInv'
  BY <1>1 DEF HeldInv
<1>5. AnchorInv'
  BY <1>1, CallFields DEF AnchorInv, TypesInv
<1> QED BY <1>2, <1>3, <1>4, <1>5

LEMMA StartInv ==
  ASSUME IdentityInv, NEW w \in Workers, NEW call \in Calls, Start(w, call)
  PROVE  IdentityInv'
<1> USE DEF IdentityInv
<1>1. TypesInv'
  BY DEF Start, TypesInv, Serving, Idle
<1>2. FoundInv'
  BY DEF Start, FoundInv, TypesInv, Idle
<1> QED BY <1>1, <1>2, WorkerStep DEF Start

LEMMA FindInv ==
  ASSUME IdentityInv, NEW w \in Workers, Find(w)
  PROVE  IdentityInv'
<1> USE DEF IdentityInv
<1> DEFINE call == worker[w].call
           found == Matching(call)
<1>1. call \in Calls
  BY DEF Find, TypesInv, Serving
<1>2. PICK id \in IF found = {} THEN {NULL} ELSE found :
        worker' = [worker EXCEPT ![w].pc = "write", ![w].customer = id]
  BY DEF Find
<1>3. id # NULL => id \in Ids /\ id \in served[call.person]
  <2> SUFFICES ASSUME id # NULL PROVE id \in Ids /\ id \in served[call.person]
    OBVIOUS
  <2>1. id \in Matching(call)
    BY <1>2
  <2>2. id \in Ids /\ \E k \in Kinds, v \in Values : Holds(id, k, v) /\ Names(call, k, v)
    BY <1>1, <2>1, MatchingHolds
  <2> QED BY <1>1, <2>2, FoundIsServed
<1>4. TypesInv'
  <2>1. worker'[w] = [worker[w] EXCEPT !.pc = "write", !.customer = id]
    BY <1>2 DEF TypesInv
  <2>2. worker'[w].call = call /\ worker'[w].pc = "write" /\ worker'[w].customer = id
    BY <2>1 DEF TypesInv
  <2>3. \A x \in Workers : x # w => worker'[x] = worker[x]
    BY <1>2 DEF TypesInv
  <2> QED BY <1>1, <1>2, <1>3, <2>2, <2>3 DEF Find, TypesInv, Serving
<1>5. FoundInv'
  BY <1>2, <1>3 DEF Find, FoundInv, TypesInv
<1> QED BY <1>4, <1>5, WorkerStep DEF Find

\* What Accept does to the worker.
LEMMA AcceptTypes ==
  ASSUME TypesInv, NEW w \in Workers, worker[w].pc = "write", NEW id \in Ids, Accept(w, id)
  PROVE  /\ worker' \in [Workers -> [pc : {"idle", "find", "write", "grant"},
                                     call : Calls \cup {NULL}, customer : Ids \cup {NULL}]]
         /\ \A x \in Workers : Serving(x)' => worker'[x].call \in Calls
         /\ \A x \in Workers : worker'[x].pc = "write" => x # w /\ worker'[x] = worker[x]
<1>1. worker[w].call \in Calls
  BY DEF TypesInv, Serving
<1>2. \A x \in Workers : x # w => worker'[x] = worker[x]
  BY DEF Accept, TypesInv
<1>3. worker'[w] = Idle \/ worker'[w] = [worker[w] EXCEPT !.pc = "grant", !.customer = id]
  BY DEF Accept, TypesInv
<1> DEFINE Read == [pc : {"idle", "find", "write", "grant"},
                     call : Calls \cup {NULL}, customer : Ids \cup {NULL}]
<1>a. worker[w] \in Read
  BY DEF TypesInv
<1>b. [worker[w] EXCEPT !.pc = "grant", !.customer = id] \in Read
  BY <1>a
<1>c. [worker[w] EXCEPT !.pc = "grant", !.customer = id].pc = "grant"
      /\ [worker[w] EXCEPT !.pc = "grant", !.customer = id].call = worker[w].call
  BY <1>a
<1>d. Idle \in Read /\ Idle.pc = "idle"
  BY DEF Idle
<1>4. worker'[w] \in Read /\ worker'[w].pc \in {"idle", "grant"}
  BY <1>3, <1>b, <1>c, <1>d
<1>5. worker'[w].pc # "idle" => worker'[w].call \in Calls
  BY <1>1, <1>3, <1>c, <1>d
<1>6. worker' \in [Workers -> [pc : {"idle", "find", "write", "grant"},
                               call : Calls \cup {NULL}, customer : Ids \cup {NULL}]]
  BY <1>2, <1>4 DEF Accept, TypesInv
<1> QED BY <1>2, <1>4, <1>5, <1>6 DEF TypesInv, Serving

LEMMA InsertInv ==
  ASSUME IdentityInv, NEW w \in Workers, Insert(w)
  PROVE  IdentityInv'
<1> USE DEF IdentityInv
<1> DEFINE call == worker[w].call
<1>1. call \in Calls /\ call.person \in Persons /\ call.ids \in [Kinds -> Values \cup {NULL}]
  BY CallFields DEF Insert, TypesInv, Serving
<1>2. PICK id \in Ids, key \in Keys :
        /\ customers[id] = NULL /\ ~Conflict(call.ids, id)
        /\ customers' = [customers EXCEPT ![id] = [ids |-> call.ids, key |-> key]]
        /\ Accept(w, id)
  BY DEF Insert
<1>3. [ids |-> call.ids, key |-> key] \in Row
  BY <1>1, <1>2 DEF Row
<1>4. /\ customers'[id] = [ids |-> call.ids, key |-> key]
      /\ \A other \in Ids : other # id => customers'[other] = customers[other]
  BY <1>2 DEF TypesInv
<1>5. served' = [served EXCEPT ![call.person] = @ \cup {id}]
  BY <1>2 DEF Accept
<1>6. \A p \in Persons : id \notin served[p]
  BY <1>2 DEF ServedInv
<1>7. TypesInv'
  BY <1>1, <1>2, <1>3, <1>5, AcceptTypes DEF TypesInv, Insert
<1>8. /\ \A k \in Kinds, v \in Values : Holds(id, k, v)' <=> Names(call, k, v)
      /\ \A k \in Kinds, v \in Values : ~Holds(id, k, v)
      /\ \A other \in Ids : other # id =>
           \A k \in Kinds, v \in Values : Holds(other, k, v)' <=> Holds(other, k, v)
      /\ customers'[id] # NULL
  BY <1>2, <1>3, <1>4, IdentityAssumption DEF Holds, Names
<1>9. UniqueInv'
  <2>1. \A other \in Ids : other # id => \A k \in Kinds, v \in Values :
          ~(Names(call, k, v) /\ Holds(other, k, v))
    BY <1>2 DEF Conflict, Names, Holds
  <2> QED BY <1>8, <2>1 DEF UniqueInv
<1>10. ServedInv'
  BY <1>1, <1>4, <1>5, <1>6, <1>8 DEF ServedInv, TypesInv
<1>11. HeldInv'
  <2>1. \A p \in Persons : served[p] \subseteq served'[p]
    BY <1>1, <1>5 DEF TypesInv
  <2>2. id \in served'[call.person]
    BY <1>1, <1>5 DEF TypesInv
  <2> QED BY <1>1, <1>8, <2>1, <2>2, CallFields DEF HeldInv, Names
<1>12. FoundInv'
  <2>1. \A x \in Workers : worker'[x].pc = "write" => x # w /\ worker'[x] = worker[x]
    BY <1>2, AcceptTypes DEF Insert
  <2>2. \A x \in Workers : worker[x].pc = "write" =>
          worker[x].call.person \in Persons
    BY CallFields DEF TypesInv, Serving
  <2> QED BY <1>1, <1>5, <2>1, <2>2 DEF FoundInv, TypesInv
<1>13. AnchorInv'
  <2>1. \A p \in Persons : \A other \in served'[p] : other # id => other \in served[p]
    BY <1>1, <1>5 DEF TypesInv
  <2>2. \A p \in Persons : id \in served'[p] => p = call.person
    BY <1>1, <1>5, <1>6 DEF TypesInv
  <2>3. \A p \in Persons : served'[p] \subseteq Ids
    BY <1>7 DEF TypesInv
  <2>4. \A p \in Persons, k \in Kinds, v \in Values :
          Anchor(p, k, v)' => Anchor(p, k, v) /\ (p = call.person => Names(call, k, v))
    BY <1>1 DEF Anchor, Names
  <2> QED BY <1>8, <2>1, <2>2, <2>3, <2>4 DEF AnchorInv
<1> QED BY <1>7, <1>9, <1>10, <1>11, <1>12, <1>13

LEMMA UpdateInv ==
  ASSUME IdentityInv, NEW w \in Workers, Update(w)
  PROVE  IdentityInv'
<1> USE DEF IdentityInv
<1> DEFINE call == worker[w].call
<1>1. call \in Calls /\ call.person \in Persons /\ call.ids \in [Kinds -> Values \cup {NULL}]
  BY CallFields DEF Update, TypesInv, Serving
<1>2. PICK id \in Ids :
        /\ id = worker[w].customer /\ id \in served[call.person] /\ customers[id] # NULL
        /\ ~Conflict(call.ids, id) /\ Accept(w, id)
  BY <1>1 DEF Update, TypesInv, FoundInv, ServedInv
<1>3. customers[id] \in Row /\ Merged(customers[id].ids, call.ids) \in [Kinds -> Values \cup {NULL}]
  BY <1>1, <1>2 DEF TypesInv, Merged, Row
<1>4. /\ customers'[id] = [customers[id] EXCEPT !.ids = Merged(customers[id].ids, call.ids)]
      /\ customers' \in [Ids -> Row \cup {NULL}]
      /\ \A other \in Ids : other # id => customers'[other] = customers[other]
  BY <1>2, <1>3 DEF Update, TypesInv, Row
<1>5. served' = served
  BY <1>1, <1>2 DEF Accept, TypesInv
<1>6. TypesInv'
  BY <1>2, <1>4, <1>5, AcceptTypes DEF TypesInv, Update
<1>7. customers'[id] # NULL /\ customers'[id].ids = Merged(customers[id].ids, call.ids)
  BY <1>3, <1>4, IdentityAssumption DEF Row
<1>8. /\ \A k \in Kinds, v \in Values : Names(call, k, v) => Holds(id, k, v)'
      /\ \A k \in Kinds, v \in Values :
           Holds(id, k, v)' => Names(call, k, v) \/ Holds(id, k, v)
      /\ \A k \in Kinds, v \in Values :
           Holds(id, k, v) /\ ~Holds(id, k, v)' => call.ids[k] # NULL /\ call.ids[k] # v
      /\ \A other \in Ids : other # id =>
           \A k \in Kinds, v \in Values : Holds(other, k, v)' <=> Holds(other, k, v)
  BY <1>2, <1>4, <1>7 DEF Holds, Names, Merged
<1>9. UniqueInv'
  <2>1. \A other \in Ids : other # id => \A k \in Kinds, v \in Values :
          ~(Names(call, k, v) /\ Holds(other, k, v))
    BY <1>2 DEF Conflict, Names, Holds
  <2> QED BY <1>2, <1>8, <2>1 DEF UniqueInv
<1>10. ServedInv'
  BY <1>2, <1>4, <1>5, <1>7 DEF ServedInv, TypesInv
<1>11. HeldInv'
  BY <1>1, <1>2, <1>5, <1>8, CallFields DEF HeldInv, Names
<1>12. FoundInv'
  <2>1. \A x \in Workers : worker'[x].pc = "write" => x # w /\ worker'[x] = worker[x]
    BY <1>2, AcceptTypes DEF Update
  <2> QED BY <1>5, <2>1 DEF FoundInv
<1>13. AnchorInv'
  <2>1. \A p \in Persons, k \in Kinds, v \in Values :
          Anchor(p, k, v)' => Anchor(p, k, v) /\ (p = call.person => Names(call, k, v))
    BY <1>1 DEF Anchor, Names
  <2>2. \A p \in Persons : id \in served[p] => p = call.person
    BY <1>1, <1>2 DEF ServedInv
  <2>3. \A p \in Persons : served[p] \subseteq Ids
    BY DEF TypesInv
  <2> QED BY <1>5, <1>8, <2>1, <2>2, <2>3 DEF AnchorInv
<1> QED BY <1>6, <1>9, <1>10, <1>11, <1>12, <1>13

LEMMA RotateInv ==
  ASSUME IdentityInv, NEW id \in Ids, rotate_customer_license_key(id)
  PROVE  IdentityInv'
<1> USE DEF IdentityInv
<1>1. PICK key \in Keys : customers' = [customers EXCEPT ![id].key = key]
  BY DEF rotate_customer_license_key
<1>2. customers[id] \in Row
  BY DEF rotate_customer_license_key, TypesInv
<1>3. /\ customers'[id] = [customers[id] EXCEPT !.key = key]
      /\ \A other \in Ids : other # id => customers'[other] = customers[other]
  BY <1>1 DEF TypesInv
<1>4. customers'[id] \in Row /\ customers'[id].ids = customers[id].ids
  BY <1>2, <1>3 DEF Row
<1>5. \A a \in Ids : /\ customers'[a] # NULL <=> customers[a] # NULL
                     /\ \A k \in Kinds, v \in Values : Holds(a, k, v)' = Holds(a, k, v)
  BY <1>2, <1>3, <1>4, IdentityAssumption DEF Holds
<1>6. UNCHANGED <<worker, served>>
  BY DEF rotate_customer_license_key
<1>7. TypesInv'
  BY <1>1, <1>3, <1>4, <1>6 DEF TypesInv, Serving
<1>8. UniqueInv' /\ HeldInv'
  BY <1>5, <1>6 DEF UniqueInv, HeldInv, Names
<1>9. ServedInv' /\ FoundInv'
  BY <1>5, <1>6 DEF ServedInv, FoundInv, TypesInv
<1>10. AnchorInv'
  BY <1>5, <1>6 DEF AnchorInv, TypesInv, Anchor, Names
<1> QED BY <1>7, <1>8, <1>9, <1>10

LEMMA EndInv ==
  ASSUME IdentityInv, NEW w \in Workers, Refuse(w) \/ Grant(w) \/ Crash
  PROVE  IdentityInv'
<1> USE DEF IdentityInv
<1>1. UNCHANGED <<customers, served>>
  BY DEF Refuse, Grant, Crash
<1>2. \A x \in Workers : worker'[x] = worker[x] \/ worker'[x] = Idle
  BY DEF Refuse, Grant, Crash, TypesInv
<1>3. Idle \in [pc : {"idle", "find", "write", "grant"},
                call : Calls \cup {NULL}, customer : Ids \cup {NULL}] /\ Idle.pc = "idle"
  BY DEF Idle
<1>4. TypesInv'
  BY <1>1, <1>2, <1>3 DEF TypesInv, Serving, Refuse, Grant, Crash
<1>5. FoundInv'
  BY <1>1, <1>2, <1>3 DEF FoundInv
<1> QED BY <1>1, <1>4, <1>5, WorkerStep

LEMMA StepInv == IdentityInv /\ [Next]_vars => IdentityInv'
<1> SUFFICES ASSUME IdentityInv, [Next]_vars PROVE IdentityInv'
  OBVIOUS
<1>1. ASSUME NEW w \in Workers, NEW call \in Calls, Start(w, call) PROVE IdentityInv'
  BY <1>1, StartInv
<1>2. ASSUME NEW w \in Workers, Find(w) PROVE IdentityInv'
  BY <1>2, FindInv
<1>3. ASSUME NEW w \in Workers, Insert(w) PROVE IdentityInv'
  BY <1>3, InsertInv
<1>4. ASSUME NEW w \in Workers, Update(w) PROVE IdentityInv'
  BY <1>4, UpdateInv
<1>5. ASSUME NEW w \in Workers, Refuse(w) \/ Grant(w) PROVE IdentityInv'
  BY <1>5, EndInv
<1>6. CASE Crash
  <2>1. PICK w \in Workers : worker[w] # Idle
    BY <1>6 DEF Crash
  <2> QED BY <1>6, <2>1, EndInv
<1>7. ASSUME NEW id \in Ids, rotate_customer_license_key(id) PROVE IdentityInv'
  BY <1>7, RotateInv
<1>8. CASE UNCHANGED vars
  <2>1. UNCHANGED <<customers, served, worker>>
    BY <1>8 DEF vars
  <2>2. TypesInv' /\ FoundInv'
    BY <2>1 DEF IdentityInv, TypesInv, FoundInv, Serving
  <2> QED BY <2>1, <2>2, WorkerStep
<1> QED BY <1>1, <1>2, <1>3, <1>4, <1>5, <1>6, <1>7, <1>8 DEF Next

LEMMA InvGivesOne == IdentityInv => OneCustomerPerPerson
<1> SUFFICES ASSUME IdentityInv, NEW p \in Persons, Anchors(p) # {}
             PROVE  /\ \A a, b \in served[p] : a = b
                    /\ \A q \in Persons \ {p} : served[p] \cap served[q] = {}
                    /\ \A w \in Workers :
                         worker[w].pc = "write" /\ worker[w].call.person = p
                           /\ worker[w].customer # NULL =>
                             ~Conflict(worker[w].call.ids, worker[w].customer)
  BY DEF OneCustomerPerPerson
<1> USE DEF IdentityInv
<1>1. served[p] \subseteq Ids
  BY DEF TypesInv
<1>2. PICK k \in Kinds, v \in Values : \A c \in Calls : c.person = p => <<k, v>> \in Named(c)
  BY DEF Anchors
<1>3. Anchor(p, k, v)
  BY <1>2 DEF Anchor, Named, Names
<1>4. \A a, b \in served[p] : a = b
  BY <1>1, <1>3 DEF AnchorInv, UniqueInv
<1>5. \A q \in Persons \ {p} : served[p] \cap served[q] = {}
  BY <1>1 DEF ServedInv
<1>6. ASSUME NEW w \in Workers, worker[w].pc = "write", worker[w].call.person = p,
             worker[w].customer # NULL, Conflict(worker[w].call.ids, worker[w].customer)
      PROVE  FALSE
  <2>1. worker[w].call \in Calls /\ worker[w].customer \in served[p]
    BY <1>6 DEF TypesInv, Serving, FoundInv
  <2>2. PICK other \in Ids \ {worker[w].customer}, j \in Kinds :
          /\ customers[other] # NULL /\ worker[w].call.ids[j] # NULL
          /\ customers[other].ids[j] = worker[w].call.ids[j]
    BY <1>6 DEF Conflict
  <2>3. worker[w].call.ids[j] \in Values
    BY <2>1, <2>2, CallFields
  <2>4. Holds(other, j, worker[w].call.ids[j]) /\ Names(worker[w].call, j, worker[w].call.ids[j])
    BY <2>2 DEF Holds, Names
  <2>5. other \in served[p]
    BY <1>6, <2>1, <2>3, <2>4, FoundIsServed
  <2> QED BY <1>4, <2>1, <2>2, <2>5
<1> QED BY <1>4, <1>5, <1>6

-----------------------------------------------------------------------------

\* create_or_update_customer: a person whose calls all name one identifier is
\* one customer and nobody else is, whatever else the calls name, however many
\* are served at a time and wherever the process dies; a call that found that
\* customer is never refused by a UNIQUE constraint.
THEOREM PersonsAreOneCustomer == Spec => []OneCustomerPerPerson
<1>1. Init => IdentityInv
  BY InitInv
<1>2. IdentityInv /\ [Next]_vars => IdentityInv'
  BY StepInv
<1>3. IdentityInv => OneCustomerPerPerson
  BY InvGivesOne
<1> QED BY <1>1, <1>2, <1>3, PTL DEF Spec

-----------------------------------------------------------------------------
(* Keys and coverage *)

\* A row's key was generated for it.
KeyInv ==
  /\ issued \in [Keys -> Ids \cup {NULL}]
  /\ \A id \in Ids : customers[id] # NULL => issued[customers[id].key] = id

\* A webhook gives coverage to a customer that served its person.
GrantInv ==
  \A w \in Workers : worker[w].pc = "grant" =>
    /\ worker[w].call.membership # NULL
    /\ worker[w].customer \in served[worker[w].call.person]

\* So does the coverage that was given.
CoveredInv ==
  /\ covered \in [Memberships -> Ids \cup {NULL}]
  /\ \A m \in Memberships : covered[m] # NULL =>
       \E c \in Calls : c.membership = m /\ covered[m] \in served[c.person]

FindingInv == IdentityInv /\ KeyInv /\ GrantInv /\ CoveredInv

LEMMA FindingInit == Init => FindingInv
<1> SUFFICES ASSUME Init PROVE FindingInv
  OBVIOUS
<1>1. IdentityInv
  BY InitInv
<1>2. KeyInv
  BY DEF Init, KeyInv
<1>3. GrantInv
  BY DEF Init, GrantInv, Idle
<1>4. CoveredInv
  BY DEF Init, CoveredInv
<1> QED BY <1>1, <1>2, <1>3, <1>4 DEF FindingInv

\* What served a person goes on serving it.
LEMMA ServedGrows ==
  ASSUME IdentityInv, [Next]_vars
  PROVE  \A p \in Persons : served[p] \subseteq served'[p]
<1> USE DEF IdentityInv, TypesInv
<1>1. ASSUME NEW w \in Workers, NEW id, Accept(w, id)
      PROVE  \A p \in Persons : served[p] \subseteq served'[p]
  BY <1>1 DEF Accept
<1>2. ASSUME NEW w \in Workers, Insert(w)
      PROVE  \A p \in Persons : served[p] \subseteq served'[p]
  BY <1>1, <1>2 DEF Insert
<1>3. ASSUME NEW w \in Workers, Update(w)
      PROVE  \A p \in Persons : served[p] \subseteq served'[p]
  BY <1>1, <1>3 DEF Update
<1>4. CASE UNCHANGED served
  BY <1>4
<1> QED BY <1>2, <1>3, <1>4 DEF Next, Start, Find, Refuse, Grant, Crash,
                                rotate_customer_license_key, vars

\* A new key is nobody's yet; the other rows keep theirs.
LEMMA NewKey ==
  ASSUME TypesInv, KeyInv, NEW id \in Ids, NEW key \in Keys, issued[key] = NULL,
         issued' = [issued EXCEPT ![key] = id],
         customers' \in [Ids -> Row \cup {NULL}], customers'[id] # NULL => customers'[id].key = key,
         \A other \in Ids : other # id => customers'[other] = customers[other]
  PROVE  KeyInv'
<1>1. ASSUME NEW other \in Ids, customers'[other] # NULL
      PROVE  issued'[customers'[other].key] = other
  <2>1. CASE other = id
    BY <1>1, <2>1 DEF KeyInv
  <2>2. CASE other # id
    <3>1. customers[other] # NULL /\ customers'[other] = customers[other]
      BY <1>1, <2>2
    <3>2. issued[customers[other].key] = other
      BY <3>1 DEF KeyInv
    <3>3. customers[other].key \in Keys
      BY <3>1 DEF TypesInv, Row
    <3>4. customers[other].key # key
      BY <3>2, IdentityAssumption
    <3> QED BY <3>1, <3>2, <3>3, <3>4 DEF KeyInv
  <2> QED BY <2>1, <2>2
<1> QED BY <1>1 DEF KeyInv

LEMMA KeyStep ==
  ASSUME IdentityInv, KeyInv, [Next]_vars
  PROVE  KeyInv'
<1> USE DEF IdentityInv
<1>1. TypesInv'
  BY StepInv
<1>2. ASSUME NEW w \in Workers, Insert(w) PROVE KeyInv'
  <2>1. worker[w].call \in Calls
    BY <1>2 DEF Insert, TypesInv, Serving
  <2>2. PICK id \in Ids, key \in Keys :
          /\ issued[key] = NULL
          /\ customers' = [customers EXCEPT ![id] = [ids |-> worker[w].call.ids, key |-> key]]
          /\ issued' = [issued EXCEPT ![key] = id]
    BY <1>2 DEF Insert
  <2>3. customers'[id].key = key /\ \A other \in Ids : other # id => customers'[other] = customers[other]
    BY <2>2 DEF TypesInv
  <2> QED BY <1>1, <2>2, <2>3, NewKey DEF TypesInv
<1>3. ASSUME NEW w \in Workers, Update(w) PROVE KeyInv'
  <2> DEFINE id == worker[w].customer
  <2>1. id \in Ids /\ customers[id] # NULL
    <3>1. worker[w].call.person \in Persons
      BY <1>3, CallFields DEF Update, TypesInv, Serving
    <3> QED BY <1>3, <3>1 DEF Update, TypesInv, FoundInv, ServedInv
  <2>2. customers[id] \in Row
    BY <2>1 DEF TypesInv
  <2>3. customers'[id].key = customers[id].key
    BY <1>3, <2>1, <2>2 DEF Update, TypesInv, Row
  <2>4. \A other \in Ids : other # id => customers'[other] = customers[other]
    BY <1>3 DEF Update, TypesInv
  <2>5. issued' = issued
    BY <1>3 DEF Update
  <2> QED BY <2>1, <2>3, <2>4, <2>5 DEF KeyInv
<1>4. ASSUME NEW id \in Ids, rotate_customer_license_key(id) PROVE KeyInv'
  <2>1. PICK key \in Keys : /\ issued[key] = NULL
                            /\ customers' = [customers EXCEPT ![id].key = key]
                            /\ issued' = [issued EXCEPT ![key] = id]
    BY <1>4 DEF rotate_customer_license_key
  <2>2. customers[id] \in Row
    BY <1>4 DEF rotate_customer_license_key, TypesInv
  <2>3. customers'[id].key = key /\ \A other \in Ids : other # id => customers'[other] = customers[other]
    BY <2>1, <2>2 DEF TypesInv, Row
  <2> QED BY <1>1, <2>1, <2>3, NewKey DEF TypesInv
<1>5. CASE UNCHANGED <<customers, issued>>
  BY <1>5 DEF KeyInv
<1> QED BY <1>2, <1>3, <1>4, <1>5 DEF Next, Start, Find, Refuse, Grant, Crash, vars

\* A worker comes to "grant" by Accept only.
LEMMA GrantStep ==
  ASSUME IdentityInv, GrantInv, [Next]_vars
  PROVE  GrantInv'
<1> USE DEF IdentityInv
<1>1. \A p \in Persons : served[p] \subseteq served'[p]
  BY ServedGrows
<1>2. ASSUME NEW x \in Workers, worker'[x] = worker[x], worker'[x].pc = "grant"
      PROVE  /\ worker'[x].call.membership # NULL
             /\ worker'[x].customer \in served'[worker'[x].call.person]
  <2>1. worker[x].call \in Calls
    BY <1>2 DEF TypesInv, Serving
  <2> QED BY <1>1, <1>2, <2>1, CallFields DEF GrantInv
<1>3. ASSUME NEW w \in Workers, NEW id \in Ids, worker[w].pc = "write", Accept(w, id)
      PROVE  GrantInv'
  <2>1. worker[w].call \in Calls /\ worker[w].call.person \in Persons
    BY <1>3, CallFields DEF TypesInv, Serving
  <2>2. id \in served'[worker[w].call.person]
    BY <1>3, <2>1 DEF Accept, TypesInv
  <2>3. \A x \in Workers : x # w => worker'[x] = worker[x]
    BY <1>3 DEF Accept, TypesInv
  <2>4. worker'[w] = IF worker[w].call.membership = NULL THEN Idle
                     ELSE [worker[w] EXCEPT !.pc = "grant", !.customer = id]
    BY <1>3 DEF Accept, TypesInv
  <2>5. worker'[w].pc = "grant" =>
          /\ worker'[w].call.membership # NULL
          /\ worker'[w].customer \in served'[worker'[w].call.person]
    <3>1. CASE worker[w].call.membership = NULL
      BY <2>4, <3>1 DEF Idle
    <3>2. CASE worker[w].call.membership # NULL
      <4>1. worker'[w].call = worker[w].call /\ worker'[w].customer = id
        BY <2>4, <3>2 DEF TypesInv
      <4> QED BY <2>2, <3>2, <4>1
    <3> QED BY <3>1, <3>2
  <2> QED BY <1>2, <2>3, <2>5 DEF GrantInv
<1>4. ASSUME NEW w \in Workers, Insert(w) PROVE GrantInv'
  BY <1>3, <1>4 DEF Insert
<1>5. ASSUME NEW w \in Workers, Update(w) PROVE GrantInv'
  <2>1. worker[w].customer \in Ids
    BY <1>5 DEF Update, TypesInv
  <2> QED BY <1>3, <1>5, <2>1 DEF Update
<1>6. ASSUME \A x \in Workers : worker'[x] = worker[x] \/ worker'[x].pc # "grant"
      PROVE  GrantInv'
  BY <1>2, <1>6 DEF GrantInv
<1>7. ASSUME NEW w \in Workers, NEW call \in Calls, Start(w, call) PROVE GrantInv'
  <2>1. \A x \in Workers : worker'[x] = worker[x] \/ worker'[x].pc # "grant"
    BY <1>7 DEF Start, TypesInv, Idle
  <2> QED BY <1>6, <2>1
<1>8. ASSUME NEW w \in Workers, Find(w) PROVE GrantInv'
  <2>1. \A x \in Workers : worker'[x] = worker[x] \/ worker'[x].pc # "grant"
    BY <1>8 DEF Find, TypesInv
  <2> QED BY <1>6, <2>1
<1>9. ASSUME NEW w \in Workers, Refuse(w) \/ Grant(w) PROVE GrantInv'
  <2>1. \A x \in Workers : worker'[x] = worker[x] \/ worker'[x].pc # "grant"
    BY <1>9 DEF Refuse, Grant, TypesInv, Idle
  <2> QED BY <1>6, <2>1
<1>10. CASE Crash
  <2>1. \A x \in Workers : worker'[x].pc # "grant"
    BY <1>10 DEF Crash, Idle
  <2> QED BY <1>6, <2>1
<1>11. CASE UNCHANGED worker
  BY <1>6, <1>11
<1> QED BY <1>4, <1>5, <1>7, <1>8, <1>9, <1>10, <1>11 DEF Next, rotate_customer_license_key, vars

LEMMA CoveredStep ==
  ASSUME IdentityInv, GrantInv, CoveredInv, [Next]_vars
  PROVE  CoveredInv'
<1> USE DEF IdentityInv
<1>1. \A p \in Persons : served[p] \subseteq served'[p]
  BY ServedGrows
<1>2. ASSUME NEW m \in Memberships, covered'[m] = covered[m], covered'[m] # NULL
      PROVE  \E c \in Calls : c.membership = m /\ covered'[m] \in served'[c.person]
  BY <1>1, <1>2, CallFields DEF CoveredInv
<1>3. ASSUME NEW w \in Workers, Grant(w) PROVE CoveredInv'
  <2> DEFINE call == worker[w].call
  <2>1. call \in Calls /\ call.membership \in Memberships /\ call.person \in Persons
    <3>1. call \in Calls
      BY <1>3 DEF Grant, TypesInv, Serving
    <3>2. call.membership # NULL
      BY <1>3 DEF Grant, GrantInv
    <3> QED BY <3>1, <3>2, IdentityAssumption DEF Call
  <2>2. worker[w].customer \in served'[call.person]
    BY <1>1, <1>3, <2>1 DEF Grant, GrantInv
  <2>3. covered' = [covered EXCEPT ![call.membership] = worker[w].customer]
    BY <1>3 DEF Grant
  <2>4. worker[w].customer \in Ids \cup {NULL}
    BY DEF TypesInv
  <2>5. ASSUME NEW m \in Memberships, covered'[m] # NULL
        PROVE  \E c \in Calls : c.membership = m /\ covered'[m] \in served'[c.person]
    BY <1>2, <2>1, <2>2, <2>3, <2>5 DEF CoveredInv
  <2> QED BY <2>3, <2>4, <2>5 DEF CoveredInv
<1>4. CASE UNCHANGED covered
  BY <1>2, <1>4 DEF CoveredInv
<1> QED BY <1>3, <1>4 DEF Next, Start, Find, Insert, Update, Refuse, Crash,
                          rotate_customer_license_key, vars

\* A row that holds what a person said is the one that serves a person who has
\* an anchor.
LEMMA SaidFinds ==
  ASSUME IdentityInv, NEW p \in Persons, NEW home \in served[p],
         NEW j \in Kinds, NEW u \in Values, Anchor(p, j, u),
         NEW k \in Kinds, NEW v \in Said(p, k), NEW id \in With(k, v)
  PROVE  id = home
<1> USE DEF IdentityInv
<1>1. id \in Ids /\ v # NULL /\ customers[id] # NULL /\ customers[id].ids[k] = v
  BY DEF With
<1>2. PICK c \in Calls : c.person = p /\ c.ids[k] = v
  BY <1>1 DEF Said
<1>3. v \in Values
  BY <1>1, <1>2, CallFields
<1>4. id \in served[c.person]
  BY <1>1, <1>2, <1>3, FoundIsServed DEF Holds, Names
<1>5. Holds(id, j, u) /\ Holds(home, j, u) /\ home \in Ids
  BY <1>2, <1>4 DEF AnchorInv, TypesInv
<1> QED BY <1>1, <1>5 DEF UniqueInv

LEMMA InvFindsCoverage == FindingInv => CoverageIsFound
<1> SUFFICES ASSUME FindingInv PROVE CoverageIsFound
  OBVIOUS
<1> USE DEF FindingInv, IdentityInv
<1>1. ASSUME NEW k \in Keys, NEW id \in WithKey(k)
      PROVE  issued[k] = id
  BY DEF WithKey, KeyInv
<1>2. \A k \in Keys : issued[k] # NULL => WithKey(k) \subseteq {issued[k]}
  BY <1>1
<1>3. ASSUME NEW id \in Ids, customers[id] # NULL
      PROVE  WithKey(customers[id].key) = {id}
  <2>1. customers[id].key \in Keys
    BY <1>3 DEF TypesInv, Row
  <2>2. id \in WithKey(customers[id].key)
    BY <1>3 DEF WithKey
  <2> QED BY <1>1, <2>1, <2>2
<1>4. ASSUME NEW call \in Calls, call.membership # NULL, covered[call.membership] # NULL,
             NEW email \in Said(call.person, "email"),
             NEW user \in Said(call.person, "whop_user_id"),
             {<<"email", email>>, <<"whop_user_id", user>>} \cap Anchors(call.person) # {},
             NEW key \in {NULL} \cup {k \in Keys : issued[k] = covered[call.membership]}
      PROVE  _find_customer(key, email, NULL, user) = {covered[call.membership]}
  <2> DEFINE p == call.person
             home == covered[call.membership]
  <2>1. call.membership \in Memberships /\ p \in Persons
    BY <1>4, IdentityAssumption DEF Call
  <2>2. PICK c \in Calls : c.membership = call.membership /\ home \in served[c.person]
    BY <1>4, <2>1 DEF CoveredInv
  <2>3. home \in served[p]
    BY <1>4, <2>2, IdentityAssumption
  <2>4. PICK j \in Kinds, u \in Values :
          /\ \A d \in Calls : d.person = p => <<j, u>> \in Named(d)
          /\ <<j, u>> = <<"email", email>> \/ <<j, u>> = <<"whop_user_id", user>>
    BY <1>4 DEF Anchors
  <2>5. Anchor(p, j, u)
    <3>1. ASSUME NEW d \in Calls, d.person = p PROVE Names(d, j, u)
      BY <2>4, <3>1 DEF Named, Names
    <3> QED BY <3>1 DEF Anchor
  <2>6. Holds(home, j, u) /\ home \in Ids
    BY <2>1, <2>3, <2>5 DEF AnchorInv, TypesInv
  <2>7. With("email", email) \subseteq {home} /\ With("whop_user_id", user) \subseteq {home}
    BY <2>1, <2>3, <2>5, SaidFinds DEF Kinds
  <2>8. \/ With("email", email) = {home}
        \/ With("whop_user_id", user) = {home}
    <3>1. home \in With(j, u)
      BY <2>6 DEF Holds, With
    <3> QED BY <2>4, <2>7, <3>1
  <2>9. WithKey(key) = {} \/ WithKey(key) = {home}
    <3>1. CASE key = NULL
      <4>1. ASSUME NEW id \in WithKey(key) PROVE FALSE
        BY <3>1, <4>1, IdentityAssumption DEF WithKey, TypesInv, Row
      <4> QED BY <4>1
    <3>2. CASE key \in Keys /\ issued[key] = home
      BY <1>1, <3>2
    <3> QED BY <3>1, <3>2
  <2>10. NULL \notin Ids
    BY IdentityAssumption
  <2> QED BY <2>7, <2>8, <2>9, <2>10 DEF _find_customer
<1> QED BY <1>2, <1>3, <1>4 DEF CoverageIsFound

\* _find_customer: once a webhook gave a person coverage, a check that names
\* what all calls about the person name finds the customer who has it, whatever
\* old email or key it names too; a key finds the customer it was generated
\* for, or nobody.
THEOREM ChecksFindCoverage == Spec => []CoverageIsFound
<1>1. Init => FindingInv
  BY FindingInit
<1>2. FindingInv /\ [Next]_vars => FindingInv'
  BY StepInv, KeyStep, GrantStep, CoveredStep DEF FindingInv
<1>3. FindingInv => CoverageIsFound
  BY InvFindsCoverage
<1> QED BY <1>1, <1>2, <1>3, PTL DEF Spec
=============================================================================
