------------------------------ MODULE Coverage ------------------------------
(***************************************************************************)
(* What the webhook endpoint and the administrators may do to a source of  *)
(* coverage (one row of entitlements), whatever the events say and however *)
(* they are delivered.  A source is absent, good, lapsed or blocked        *)
(* (revoked or suspended), and covers its product through a date, or NULL  *)
(* when it has none.                                                       *)
(*                                                                         *)
(*   - Coverage only moves forward while the source exists; one without a  *)
(*     date is given one only when it is blocked.                          *)
(*   - A blocked source is good again only when it is extended; it may     *)
(*     lapse only once its date has passed.                                *)
(*   - A lapsed source that is good again without an extension was lapsed  *)
(*     with the same date: it covers no day it did not already cover.      *)
(***************************************************************************)
EXTENDS Integers

CONSTANTS Sources, NULL

VARIABLES day, standing, through

vars == <<day, standing, through>>

Standings == {"absent", "good", "lapsed", "blocked"}

Init ==
  /\ day \in Nat
  /\ standing = [s \in Sources |-> "absent"]
  /\ through = [s \in Sources |-> NULL]

Forward(s) ==
  \/ through'[s] = through[s]
  \/ through[s] # NULL /\ through'[s] # NULL /\ through'[s] > through[s]

\* A source without a date may be given one.
Dated(s) == through[s] = NULL

Open(s) == standing[s] = "absent" /\ standing'[s] # "absent"

Extend(s) ==
  /\ standing[s] # "absent" /\ standing'[s] = "good"
  /\ Forward(s) /\ through'[s] # through[s]

Block(s) ==
  /\ standing[s] # "absent" /\ standing'[s] = "blocked"
  /\ Forward(s) \/ Dated(s)

Lapse(s) ==
  /\ standing[s] # "absent" /\ standing'[s] = "lapsed"
  /\ through[s] # NULL /\ through[s] <= day
  /\ through'[s] = through[s]

Resume(s) ==
  /\ standing[s] \in {"good", "lapsed"} /\ standing'[s] = "good"
  /\ Forward(s)

Remove(s) == standing'[s] = "absent" /\ through'[s] = NULL

Stay(s) == standing'[s] = standing[s] /\ Forward(s)

Change(s) ==
  Open(s) \/ Extend(s) \/ Block(s) \/ Lapse(s) \/ Resume(s) \/ Remove(s) \/ Stay(s)

\* One transaction may touch many sources: every product of a package.
Next ==
  \/ /\ standing' \in [Sources -> Standings]
     /\ \A s \in Sources : Change(s)
     /\ day' = day
  \/ /\ day' > day /\ UNCHANGED <<standing, through>>

Spec == Init /\ [][Next]_vars
=============================================================================
