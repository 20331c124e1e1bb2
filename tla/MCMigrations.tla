---------------------------- MODULE MCMigrations ----------------------------
(***************************************************************************)
(* A server and a script of the operator start on a new database or on one *)
(* with the grants of two packages; a package is saved while migration 003 *)
(* is run, or was left by a process that died.                             *)
(***************************************************************************)
EXTENDS Migrations

MCInitGrants == {<<"basic", "duo">>, <<"all", "duo">>, <<"all", "adam">>}

MCNext ==
  /\ Next
  /\ saved' # saved => Old \in schema \/ \E p \in Processes : process[p].n = 3

MCSpec == Init /\ [][MCNext]_vars
=============================================================================
