----------------------------- MODULE Migrations -----------------------------
(***************************************************************************)
(* Applying migrations when the server, or a script of the operator,       *)
(* starts.  executescript first commits what is pending and then runs each *)
(* statement in a transaction of its own; the name of the migration is     *)
(* inserted after it, and stays pending until the next script or the end   *)
(* of the session.  A process may die between any two statements, and a    *)
(* second process may apply the migrations at the same time.  Meanwhile    *)
(* the server of before may save packages.                                 *)
(*                                                                         *)
(* Tables and columns are names; rows are kept of the grants of packages,  *)
(* which migration 003 moves to a new table.  Indexes are left out.        *)
(***************************************************************************)
EXTENDS Naturals, Sequences

CONSTANTS
  Processes,   \* servers and scripts that start
  Packages,    \* whop_packages.id
  Products,    \* products.id
  InitGrants,  \* the grants of the start, if the database is not a new one
  MaxStarts,   \* bound: starts
  MaxSaves     \* bound: packages saved meanwhile

ASSUME MigrationsAssumption ==
  InitGrants \subseteq Packages \X Products /\ MaxStarts \in Nat /\ MaxSaves \in Nat

VARIABLES
  recorded,  \* names in schema_migrations, by number
  schema,    \* tables and columns there are
  rows,      \* rows of whop_package_grants and whop_package_grants_old
  process,   \* where each process stands
  starts,    \* bound
  saved,     \* history: the grants last saved
  cut        \* history: migrations somebody died in that were run twice

vars == <<recorded, schema, rows, process, starts, saved, cut>>

Idle == [pc |-> "idle", applied |-> {}, n |-> 0, i |-> 1]

-----------------------------------------------------------------------------
(* The scripts, by what a second run of a statement does *)

Grants == "whop_package_grants"
Old == "whop_package_grants_old"

Create(t) == [op |-> "create", name |-> t, to |-> t]     \* IF NOT EXISTS
Make(t) == [op |-> "make", name |-> t, to |-> t]         \* fails if it exists
Add(c) == [op |-> "make", name |-> c, to |-> c]          \* ADD COLUMN, likewise
Rename(t, u) == [op |-> "rename", name |-> t, to |-> u]
Copy(t, u) == [op |-> "copy", name |-> t, to |-> u]      \* INSERT ... SELECT
Drop(t) == [op |-> "drop", name |-> t, to |-> t]
Fill(t) == [op |-> "fill", name |-> t, to |-> t]         \* may be run again

\* 001 to 005.  Those after them do again what these do: tables if they are
\* missing, columns, and data that is filled in.
Scripts ==
  << <<Create("customers"), Create("products"), Create("subscriptions"), Create("entitlements"),
       Create("devices"), Create("license_checks"), Create("audit_log"),
       Create("webhook_events"), Create("admin_users"), Create("admin_sessions")>>,
     <<Create("whop_packages"), Create(Grants), Create("license_grant_ledger")>>,
     <<Rename(Grants, Old), Make(Grants), Copy(Old, Grants), Drop(Old)>>,
     <<Create("trader_releases"), Create("release_download_tokens"), Create("release_downloads")>>,
     <<Add("max_devices"), Add("first_licensed_at"), Add("last_licensed_at"), Fill("devices")>> >>

Last == Len(Scripts)

Fails(s) ==
  CASE s.op = "create" -> FALSE
    [] s.op = "make"   -> s.name \in schema
    [] s.op = "rename" -> s.name \notin schema \/ s.to \in schema
    [] s.op = "copy"   -> \/ s.name \notin schema \/ s.to \notin schema
                          \/ rows[s.name] \cap rows[s.to] # {}  \* UNIQUE (package_id, product_id)
    [] s.op \in {"drop", "fill"} -> s.name \notin schema

\* A statement that does not fail.
Run(s) ==
  /\ schema' = CASE s.op \in {"create", "make"} -> schema \cup {s.name}
                 [] s.op = "rename" -> (schema \ {s.name}) \cup {s.to}
                 [] s.op = "drop"   -> schema \ {s.name}
                 [] OTHER           -> schema
  /\ rows' = CASE s.op = "rename" -> [rows EXCEPT ![s.to] = rows[s.name], ![s.name] = {}]
               [] s.op = "copy"   -> [rows EXCEPT ![s.to] = @ \cup rows[s.name]]
               [] s.op = "drop" /\ s.name = Old -> [rows EXCEPT ![Old] = {}]
               [] OTHER           -> rows

-----------------------------------------------------------------------------
(* apply_migrations *)

At(p, pc) == process[p].pc = pc

\* A pending name holds the write lock.
Unlocked(p) == \A q \in Processes \ {p} : ~At(q, "pending")

\* The next migration that was not applied when the process started.
NextMigration(applied, n) ==
  LET left == {m \in n + 1..Last : m \notin applied}
  IN  IF left = {} THEN Idle
      ELSE [pc |-> "run", applied |-> applied, i |-> 1,
            n |-> CHOOSE m \in left : \A k \in left : m <= k]

apply_migrations(p) ==
  /\ At(p, "idle") /\ starts < MaxStarts /\ starts' = starts + 1
  /\ process' = [process EXCEPT ![p] = NextMigration(recorded, 0)]
  /\ UNCHANGED <<recorded, schema, rows, saved, cut>>

Current(p) == Scripts[process[p].n][process[p].i]

\* The statement after this one, or the name once the script is done.
Onward(place) ==
  IF place.i < Len(Scripts[place.n]) THEN [place EXCEPT !.i = place.i + 1]
  ELSE [place EXCEPT !.pc = "insert"]

\* Error to be caught: the script goes on after a statement that failed.
SkipFailed(p) ==
  process' = [process EXCEPT ![p] = Onward(process[p])]

\* Error to be caught: a migration that failed is recorded.
RecordFailed(p) == process' = [process EXCEPT ![p].pc = "insert"]

\* The exception ends the process; the session has nothing pending.
Failed(p) == process' = [process EXCEPT ![p] = Idle]

Statement(p) ==
  /\ At(p, "run") /\ Unlocked(p)
  /\ IF Fails(Current(p)) THEN Failed(p) /\ UNCHANGED <<schema, rows>>
     ELSE /\ Run(Current(p))
          /\ process' = [process EXCEPT ![p] = Onward(process[p])]
  /\ UNCHANGED <<recorded, starts, saved, cut>>

\* INSERT INTO schema_migrations, where name is the PRIMARY KEY.
Record(p) ==
  /\ At(p, "insert") /\ Unlocked(p)
  /\ process' = [process EXCEPT ![p] = IF process[p].n \in recorded THEN Idle
                                       ELSE [@ EXCEPT !.pc = "pending"]]
  /\ UNCHANGED <<recorded, schema, rows, starts, saved, cut>>

\* By the next executescript, or at the end of the session.
Commit(p) ==
  /\ At(p, "pending")
  /\ recorded' = recorded \cup {process[p].n}
  /\ process' = [process EXCEPT ![p] = NextMigration(@.applied, @.n)]
  /\ UNCHANGED <<schema, rows, starts, saved, cut>>

\* Another process is at the same migration, or has been.
RunTwice(p) ==
  process[p].n \in recorded \/ \E q \in Processes \ {p} : process[q].n = process[p].n

\* A pending name is rolled back.
Crash(p) ==
  /\ ~At(p, "idle")
  /\ process' = [process EXCEPT ![p] = Idle]
  /\ cut' = IF At(p, "run") /\ RunTwice(p) THEN cut \cup {process[p].n} ELSE cut
  /\ UNCHANGED <<recorded, schema, rows, starts, saved>>

\* The server of before replaces the grants of a package, in one transaction.
upsert_whop_package(package) ==
  /\ saved[2] < MaxSaves
  /\ Grants \in schema /\ \A p \in Processes : ~At(p, "pending")
  /\ \E products \in SUBSET Products :
       LET Saved(grants) == {g \in grants : g[1] # package} \cup {<<package, q>> : q \in products}
       IN  /\ rows' = [rows EXCEPT ![Grants] = Saved(@)]
           /\ saved' = <<Saved(saved[1]), saved[2] + 1>>
  /\ UNCHANGED <<recorded, schema, process, starts, cut>>

-----------------------------------------------------------------------------

\* What a script makes that no statement after it takes away.
Leaves(n) ==
  {Scripts[n][i].name : i \in {j \in DOMAIN Scripts[n] :
     /\ Scripts[n][j].op \in {"create", "make"}
     /\ \A m \in n..Last : \A k \in DOMAIN Scripts[m] :
          (m > n \/ k > j) /\ Scripts[m][k].op \in {"rename", "drop"} =>
            Scripts[m][k].name # Scripts[n][j].name}}

\* A new database, or one of before migration 003 with grants.
Init ==
  /\ \/ recorded = {} /\ schema = {} /\ saved = <<{}, 0>>
     \/ /\ recorded = 1..2 /\ saved = <<InitGrants, 0>>
        /\ schema = {Scripts[1][i].name : i \in DOMAIN Scripts[1]}
                      \cup {Scripts[2][i].name : i \in DOMAIN Scripts[2]}
  /\ rows = [t \in {Grants, Old} |-> IF t = Grants THEN saved[1] ELSE {}]
  /\ process = [p \in Processes |-> Idle] /\ starts = 0 /\ cut = {}

Next ==
  \/ \E p \in Processes : \/ apply_migrations(p) \/ Statement(p) \/ Record(p)
                          \/ Commit(p) \/ Crash(p)
  \/ \E package \in Packages : upsert_whop_package(package)

Spec == Init /\ [][Next]_vars

-----------------------------------------------------------------------------
(* Properties *)

\* project-memory, Schema And Migration Notes: migrations are recorded in
\* schema_migrations.  What is recorded has been done: the tables and columns
\* of the migration are there, wherever processes died and whoever else was
\* applying it, with one exception.  A process that starts before another has
\* recorded migration 003 runs it again and takes the new table away until its
\* next statement, and if it dies there for good; then the table lacks nothing
\* but its name, and stands under the old one.
RecordedIsDone ==
  \A n \in recorded :
    \/ Leaves(n) \subseteq schema
    \/ /\ Leaves(n) \ schema = {Grants} /\ Old \in schema
       /\ n \in cut \/ \E p \in Processes : At(p, "run") /\ process[p].n = n /\ process[p].i = 2

\* Migration 003 loses no grant: what administrators saved last, before it or
\* while it ran, is in the new table or in the one it is copied from, whoever
\* died or failed in between and if two processes run it.
GrantsSurvive == saved[1] \subseteq rows[Grants] \cup rows[Old]
=============================================================================
