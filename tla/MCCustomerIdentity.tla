------------------------- MODULE MCCustomerIdentity -------------------------
(***************************************************************************)
(* Three persons.  Ann's webhooks always name her Whop user, with an email *)
(* that changes and two memberships, whose ids stand in for a member id;   *)
(* bob was entered by email and always named by it; the calls about cid    *)
(* name an email or a user and, later, both.                               *)
(***************************************************************************)
EXTENDS CustomerIdentity, TLC

Says(person, email, user, member, membership) ==
  [person |-> person, membership |-> membership,
   ids |-> [kind \in Kinds |-> CASE kind = "email" -> email
                                 [] kind = "whop_user_id" -> user
                                 [] kind = "whop_member_id" -> member]]

MCCalls ==
  {Says("ann", "ann@old", "user_a", "mem_1", "mem_1"),
   Says("ann", "ann@new", "user_a", "mem_2", "mem_2"),
   Says("ann", NULL, "user_a", "mem_1", "mem_1"),
   Says("bob", "bob@mail", NULL, NULL, NULL),
   Says("bob", "bob@mail", "user_b", "mem_3", "mem_3"),
   Says("cid", "cid@mail", NULL, NULL, NULL),
   Says("cid", NULL, "user_c", "mem_4", "mem_4"),
   Says("cid", "cid@mail", "user_c", "mem_4", "mem_4")}

Symmetry == Permutations(Ids) \cup Permutations(Keys) \cup Permutations(Workers)
=============================================================================
