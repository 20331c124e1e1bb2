-------------------------- MODULE MigrationsProofs --------------------------
(***************************************************************************)
(* Migration 003 loses no grant, and what is recorded has been done,       *)
(* whatever the number of processes that apply the migrations, of their    *)
(* crashes and of packages saved meanwhile.                                *)
(*                                                                         *)
(* What makes it so is the RENAME at the start of 003: while               *)
(* whop_package_grants_old is there nobody else gets beyond it, and only   *)
(* the one process that got beyond it drops that table, after it copied    *)
(* the rows.  The other scripts take nothing away, so that what a process  *)
(* has made is there when it records the script.                           *)
(***************************************************************************)
EXTENDS Migrations, TLAPS

\* A process stands at statement i of script n.
AtStatement(p, n, i) == At(p, "run") /\ process[p].n = n /\ process[p].i = i

\* A process is in 003, beyond its RENAME.
Moving(p) == At(p, "run") /\ process[p].n = 3 /\ process[p].i # 1

Place == [pc : {"idle", "run", "insert", "pending"}, applied : SUBSET Nat, n : Nat, i : Nat]

PlacesInv ==
  /\ process \in [Processes -> Place]
  /\ recorded \subseteq Nat
  /\ \A p \in Processes : At(p, "run") =>
       process[p].n \in 1..Last /\ process[p].i \in 1..Len(Scripts[process[p].n])
  /\ DOMAIN rows = {Grants, Old}

\* One process at a time moves the grants, and the old table is there.
MovingInv ==
  \A p \in Processes : Moving(p) =>
    Old \in schema /\ \A q \in Processes : Moving(q) => q = p

GrantsInv ==
  /\ Old \notin schema => rows[Old] = {}
  /\ GrantsSurvive
  /\ \A p \in Processes : AtStatement(p, 3, 4) => saved[1] \subseteq rows[Grants]

MigrationsInv == PlacesInv /\ MovingInv /\ GrantsInv

-----------------------------------------------------------------------------
(* The scripts *)

LEMMA ScriptLengths ==
  /\ Last = 5
  /\ Len(Scripts[1]) = 10 /\ Len(Scripts[2]) = 3 /\ Len(Scripts[3]) = 4
  /\ Len(Scripts[4]) = 3 /\ Len(Scripts[5]) = 4
BY DEF Last, Scripts

\* Statements outside 003 make or fill something.
LEMMA OtherScripts ==
  ASSUME NEW n \in {1, 2, 4, 5}, NEW i \in 1..Len(Scripts[n])
  PROVE  Scripts[n][i].op \in {"create", "make", "fill"}
<1>1. CASE n = 1
  BY <1>1, ScriptLengths DEF Scripts, Create
<1>2. CASE n = 2
  BY <1>2, ScriptLengths DEF Scripts, Create
<1>3. CASE n = 4
  BY <1>3, ScriptLengths DEF Scripts, Create
<1>4. CASE n = 5
  BY <1>4, ScriptLengths DEF Scripts, Add, Fill
<1> QED BY <1>1, <1>2, <1>3, <1>4

LEMMA Script003 ==
  /\ Scripts[3][1] = Rename(Grants, Old)
  /\ Scripts[3][2] = Make(Grants)
  /\ Scripts[3][3] = Copy(Old, Grants)
  /\ Scripts[3][4] = Drop(Old)
BY DEF Scripts

\* Where a process goes on after a migration.
LEMMA NextPlace ==
  ASSUME NEW applied \in SUBSET Nat, NEW n \in Nat
  PROVE  LET next == NextMigration(applied, n)
         IN  \/ next = Idle
             \/ \E m \in 1..Last : next = [pc |-> "run", applied |-> applied, i |-> 1, n |-> m]
<1> DEFINE left == {m \in n + 1..Last : m \notin applied}
<1>1. CASE left = {}
  BY <1>1 DEF NextMigration
<1>2. CASE left # {}
  <2>1. left \subseteq 1..5
    BY ScriptLengths
  <2>2. \E m \in left : \A k \in left : m <= k
    <3>1. CASE 1 \in left
      BY <2>1, <3>1
    <3>2. CASE 1 \notin left /\ 2 \in left
      BY <2>1, <3>2
    <3>3. CASE 1 \notin left /\ 2 \notin left /\ 3 \in left
      BY <2>1, <3>3
    <3>4. CASE 1 \notin left /\ 2 \notin left /\ 3 \notin left /\ 4 \in left
      BY <2>1, <3>4
    <3>5. CASE 1 \notin left /\ 2 \notin left /\ 3 \notin left /\ 4 \notin left
      BY <1>2, <2>1, <3>5
    <3> QED BY <3>1, <3>2, <3>3, <3>4, <3>5
  <2> DEFINE m == CHOOSE m \in left : \A k \in left : m <= k
  <2>3. m \in left
    BY <2>2
  <2>4. m \in 1..Last
    BY <2>1, <2>3, ScriptLengths
  <2>5. NextMigration(applied, n) = [pc |-> "run", applied |-> applied, i |-> 1, n |-> m]
    BY <1>2 DEF NextMigration
  <2> QED BY <2>4, <2>5
<1> QED BY <1>1, <1>2

-----------------------------------------------------------------------------
(* The steps *)

LEMMA MigrationsInit == Init => MigrationsInv
<1> SUFFICES ASSUME Init PROVE MigrationsInv
  OBVIOUS
<1>1. \A p \in Processes : process[p] = Idle
  BY DEF Init
<1>2. recorded \subseteq Nat
  BY DEF Init
<1>3. /\ process \in [Processes -> Place]
      /\ \A p \in Processes : ~At(p, "run")
  BY <1>1 DEF Init, Idle, At, Place
<1>4. PlacesInv
  BY <1>2, <1>3 DEF Init, PlacesInv
<1>5. MovingInv
  BY <1>3 DEF MovingInv, Moving
<1>6. rows[Old] = {} /\ rows[Grants] = saved[1]
  BY DEF Init, Grants, Old
<1>7. GrantsInv
  BY <1>3, <1>6 DEF GrantsInv, GrantsSurvive, AtStatement
<1> QED BY <1>4, <1>5, <1>7 DEF MigrationsInv

\* Steps that change no table, and leave nobody further in a script.
LEMMA QuietStep ==
  ASSUME MigrationsInv, PlacesInv', UNCHANGED <<schema, rows, saved>>,
         \A q \in Processes : \/ process'[q] = process[q]
                              \/ process'[q].pc # "run" \/ process'[q].i = 1
  PROVE  MigrationsInv'
<1>1. \A q \in Processes : Moving(q)' => Moving(q)
  BY DEF Moving, At
<1>2. \A q \in Processes : AtStatement(q, 3, 4)' => AtStatement(q, 3, 4)
  BY DEF AtStatement, At
<1>3. MovingInv'
  BY <1>1 DEF MigrationsInv, MovingInv
<1>4. GrantsInv'
  BY <1>2 DEF MigrationsInv, GrantsInv, GrantsSurvive
<1> QED BY <1>3, <1>4 DEF MigrationsInv

\* One process goes elsewhere, at the start of a script or outside any.
LEMMA GoesTo ==
  ASSUME MigrationsInv, NEW p \in Processes, NEW place, UNCHANGED <<schema, rows, saved>>,
         recorded' \subseteq Nat, process' = [process EXCEPT ![p] = place],
         place \in Place,
         place.pc = "run" => place.i = 1 /\ place.n \in 1..Last
  PROVE  MigrationsInv'
<1>1. process'[p] = place /\ \A q \in Processes : q # p => process'[q] = process[q]
  BY DEF MigrationsInv, PlacesInv
<1>2. ASSUME NEW n \in 1..Last PROVE 1 \in 1..Len(Scripts[n])
  <2>1. n \in {1, 2, 3, 4, 5}
    BY ScriptLengths
  <2>2. Len(Scripts[n]) \in {10, 3, 4}
    BY <2>1, ScriptLengths
  <2>3. \A l \in {10, 3, 4} : 1 \in 1..l
    OBVIOUS
  <2> QED BY <2>2, <2>3
<1>3. \A q \in Processes : At(q, "run")' =>
        process'[q].n \in 1..Last /\ process'[q].i \in 1..Len(Scripts[process'[q].n])
  BY <1>1, <1>2 DEF MigrationsInv, PlacesInv, At
<1>4. PlacesInv'
  BY <1>3 DEF MigrationsInv, PlacesInv
<1> QED BY <1>1, <1>4, QuietStep

LEMMA OneFurther ==
  ASSUME NEW place \in Place, NEW next, next = [place EXCEPT !.i = place.i + 1]
  PROVE  next \in Place /\ next.n = place.n /\ next.i = place.i + 1
<1>1. place.i + 1 \in Nat
  BY DEF Place
<1> QED BY <1>1 DEF Place

\* A statement that does not fail, by its effect on the tables.
LEMMA MovesOn ==
  ASSUME MigrationsInv, NEW p \in Processes, At(p, "run"), UNCHANGED recorded,
         DOMAIN rows' = {Grants, Old},
         process' = [process EXCEPT ![p] = Onward(process[p])]
  PROVE  /\ PlacesInv'
         /\ \A q \in Processes : q # p => process'[q] = process[q]
         /\ process'[p].n = process[p].n
         /\ process[p].i = Len(Scripts[process[p].n]) => ~At(p, "run")'
         /\ process[p].i # Len(Scripts[process[p].n]) => process'[p].i = process[p].i + 1
<1> USE DEF MigrationsInv, PlacesInv
<1>1. /\ process[p] \in Place /\ process[p].n \in 1..Last
      /\ process[p].i \in 1..Len(Scripts[process[p].n])
  OBVIOUS
<1>2. Len(Scripts[process[p].n]) \in Nat
  <2>1. process[p].n \in {1, 2, 3, 4, 5}
    BY <1>1, ScriptLengths
  <2> QED BY <2>1, ScriptLengths
<1>3. \A q \in Processes : q # p => process'[q] = process[q]
  OBVIOUS
<1>4. CASE process[p].i < Len(Scripts[process[p].n])
  <2>1. process'[p] = [process[p] EXCEPT !.i = process[p].i + 1]
    BY <1>4 DEF Onward
  <2>2. process'[p] \in Place /\ process'[p].n = process[p].n /\ process'[p].i = process[p].i + 1
    BY <1>1, <2>1, OneFurther
  <2>3. process'[p].i \in 1..Len(Scripts[process[p].n])
    BY <1>1, <1>2, <1>4, <2>2
  <2>4. process' \in [Processes -> Place]
    BY <1>3, <2>2
  <2> QED BY <1>1, <1>2, <1>3, <1>4, <2>2, <2>3, <2>4 DEF At
<1>5. CASE process[p].i = Len(Scripts[process[p].n])
  <2>1. process'[p] = [process[p] EXCEPT !.pc = "insert"]
    BY <1>2, <1>5 DEF Onward
  <2>2. process'[p] \in Place /\ process'[p].n = process[p].n /\ process'[p].pc = "insert"
    BY <1>1, <2>1 DEF Place
  <2>3. process' \in [Processes -> Place]
    BY <1>3, <2>2
  <2> QED BY <1>3, <1>5, <2>2, <2>3 DEF At
<1> QED BY <1>1, <1>2, <1>4, <1>5

LEMMA StatementKeeps ==
  ASSUME MigrationsInv, NEW p \in Processes, Statement(p)
  PROVE  MigrationsInv'
<1> DEFINE n == process[p].n
           i == process[p].i
<1> USE DEF MigrationsInv
<1>1. /\ At(p, "run") /\ n \in {1, 2, 3, 4, 5} /\ i \in 1..Len(Scripts[n])
      /\ UNCHANGED <<recorded, saved>> /\ DOMAIN rows = {Grants, Old} /\ Grants # Old
  BY ScriptLengths DEF Statement, PlacesInv, Grants, Old
<1>2. CASE Fails(Current(p))
  <2>1. Failed(p) /\ UNCHANGED <<schema, rows>>
    BY <1>2 DEF Statement
  <2>2. Idle \in Place /\ Idle.pc = "idle"
    BY DEF Idle, Place
  <2>3. recorded' \subseteq Nat
    BY <1>1 DEF PlacesInv
  <2> QED BY <1>1, <2>1, <2>2, <2>3, GoesTo DEF Failed
<1>3. CASE ~Fails(Current(p))
  <2>1. Run(Current(p)) /\ process' = [process EXCEPT ![p] = Onward(process[p])]
    BY <1>3 DEF Statement
  <2>2. DOMAIN rows' = {Grants, Old}
    BY <1>1, <2>1 DEF Run
  <2>3. /\ PlacesInv'
        /\ \A q \in Processes : q # p => process'[q] = process[q]
        /\ process'[p].n = n
        /\ i = Len(Scripts[n]) => ~At(p, "run")'
        /\ i # Len(Scripts[n]) => process'[p].i = i + 1
    BY <1>1, <2>1, <2>2, MovesOn
  <2>4. \A q \in Processes : q # p => /\ Moving(q)' <=> Moving(q)
                                      /\ AtStatement(q, 3, 4)' <=> AtStatement(q, 3, 4)
    BY <2>3 DEF Moving, AtStatement, At
  <2>5. CASE n # 3
    <3>1. Current(p).op \in {"create", "make", "fill"}
      BY <1>1, <2>5, OtherScripts DEF Current
    <3>2. rows' = rows /\ schema \subseteq schema'
      BY <2>1, <3>1 DEF Run
    <3>3. ~Moving(p)' /\ ~AtStatement(p, 3, 4)'
      BY <2>3, <2>5 DEF Moving, AtStatement
    <3>4. MovingInv'
      BY <2>4, <3>2, <3>3 DEF MovingInv
    <3>5. GrantsInv'
      BY <1>1, <2>4, <3>2, <3>3 DEF GrantsInv, GrantsSurvive
    <3> QED BY <2>3, <3>4, <3>5
  <2>6. CASE n = 3 /\ i = 1
    <3>1. Current(p) = Rename(Grants, Old)
      BY <2>6, Script003 DEF Current
    <3>2. Old \notin schema /\ Old \in schema'
      BY <1>3, <2>1, <3>1 DEF Fails, Run, Rename
    <3>3. rows'[Old] = rows[Grants]
      BY <1>1, <2>1, <3>1 DEF Run, Rename
    <3>4. \A q \in Processes : ~Moving(q) /\ ~AtStatement(q, 3, 4)
      BY <3>2 DEF MovingInv, Moving, AtStatement
    <3>5. ~AtStatement(p, 3, 4)'
      BY <2>3, <2>6, ScriptLengths DEF AtStatement
    <3>6. MovingInv'
      BY <2>4, <3>2, <3>4 DEF MovingInv
    <3>7. GrantsInv'
      BY <1>1, <2>4, <3>2, <3>3, <3>4, <3>5 DEF GrantsInv, GrantsSurvive
    <3> QED BY <2>3, <3>6, <3>7
  <2>7. CASE n = 3 /\ i = 2
    <3>1. Current(p) = Make(Grants)
      BY <2>7, Script003 DEF Current
    <3>2. rows' = rows /\ schema \subseteq schema'
      BY <2>1, <3>1 DEF Run, Make
    <3>3. Moving(p) /\ ~AtStatement(p, 3, 4)'
      BY <1>1, <2>3, <2>7, ScriptLengths DEF Moving, AtStatement
    <3>4. MovingInv'
      BY <2>4, <3>2, <3>3 DEF MovingInv
    <3>5. GrantsInv'
      BY <1>1, <2>4, <3>2, <3>3 DEF GrantsInv, GrantsSurvive
    <3> QED BY <2>3, <3>4, <3>5
  <2>8. CASE n = 3 /\ i = 3
    <3>1. Current(p) = Copy(Old, Grants)
      BY <2>8, Script003 DEF Current
    <3>2. /\ schema' = schema /\ rows'[Old] = rows[Old]
          /\ rows'[Grants] = rows[Grants] \cup rows[Old]
      BY <1>1, <2>1, <3>1 DEF Run, Copy
    <3>3. Moving(p)
      BY <1>1, <2>8 DEF Moving
    <3>4. MovingInv'
      BY <2>4, <3>2, <3>3 DEF MovingInv
    <3>5. GrantsInv'
      BY <1>1, <3>2 DEF GrantsInv, GrantsSurvive
    <3> QED BY <2>3, <3>4, <3>5
  <2>9. CASE n = 3 /\ i = 4
    <3>1. Current(p) = Drop(Old)
      BY <2>9, Script003 DEF Current
    <3>2. rows'[Grants] = rows[Grants] /\ rows'[Old] = {}
      BY <1>1, <2>1, <3>1 DEF Run, Drop
    <3>3. Moving(p) /\ AtStatement(p, 3, 4)
      BY <1>1, <2>9 DEF Moving, AtStatement
    <3>4. ~At(p, "run")'
      BY <2>3, <2>9, ScriptLengths
    <3>5. \A q \in Processes : ~Moving(q)' /\ ~AtStatement(q, 3, 4)'
      BY <2>4, <3>3, <3>4 DEF MovingInv, Moving, AtStatement, At
    <3>6. MovingInv'
      BY <3>5 DEF MovingInv
    <3>7. GrantsInv'
      BY <1>1, <3>2, <3>3, <3>5 DEF GrantsInv, GrantsSurvive
    <3> QED BY <2>3, <3>6, <3>7
  <2>10. n # 3 \/ i \in {1, 2, 3, 4}
    <3>1. \A l : l = 4 => 1..l = {1, 2, 3, 4}
      OBVIOUS
    <3>2. n = 3 => Len(Scripts[n]) = 4
      BY ScriptLengths
    <3> QED BY <1>1, <3>1, <3>2
  <2> QED BY <2>5, <2>6, <2>7, <2>8, <2>9, <2>10
<1> QED BY <1>2, <1>3

LEMMA SaveKeeps ==
  ASSUME MigrationsInv, NEW package \in Packages, upsert_whop_package(package)
  PROVE  MigrationsInv'
<1> DEFINE Saved(grants, products) ==
             {g \in grants : g[1] # package} \cup {<<package, q>> : q \in products}
<1> USE DEF MigrationsInv
<1>1. PICK products \in SUBSET Products :
        /\ rows' = [rows EXCEPT ![Grants] = Saved(rows[Grants], products)]
        /\ saved' = <<Saved(saved[1], products), saved[2] + 1>>
  BY DEF upsert_whop_package
<1>2. UNCHANGED <<process, schema, recorded>>
  BY DEF upsert_whop_package
<1>3. /\ rows'[Grants] = Saved(rows[Grants], products) /\ rows'[Old] = rows[Old]
      /\ saved'[1] = Saved(saved[1], products) /\ DOMAIN rows' = {Grants, Old}
  BY <1>1 DEF PlacesInv, Grants, Old
<1>4. PlacesInv'
  BY <1>2, <1>3 DEF PlacesInv, At
<1>5. MovingInv'
  BY <1>2 DEF MovingInv, Moving, At
<1>6. GrantsInv'
  BY <1>2, <1>3 DEF GrantsInv, GrantsSurvive, AtStatement, At
<1> QED BY <1>4, <1>5, <1>6

LEMMA MigrationsStep == MigrationsInv /\ [Next]_vars => MigrationsInv'
<1> SUFFICES ASSUME MigrationsInv, [Next]_vars PROVE MigrationsInv'
  OBVIOUS
<1> USE DEF MigrationsInv
<1>1. ASSUME NEW p \in Processes, apply_migrations(p) PROVE MigrationsInv'
  <2> DEFINE next == NextMigration(recorded, 0)
  <2>1. /\ process' = [process EXCEPT ![p] = next]
        /\ UNCHANGED <<recorded, schema, rows, saved>> /\ recorded' \subseteq Nat
    BY <1>1 DEF apply_migrations, PlacesInv
  <2>2. next \in Place /\ (next.pc = "run" => next.i = 1 /\ next.n \in 1..Last)
    <3>1. next = Idle \/ \E m \in 1..Last : next = [pc |-> "run", applied |-> recorded, i |-> 1, n |-> m]
      BY NextPlace DEF PlacesInv
    <3>2. recorded \in SUBSET Nat
      BY DEF PlacesInv
    <3> HIDE DEF next
    <3> QED BY <3>1, <3>2, ScriptLengths DEF Idle, Place
  <2> QED BY <2>1, <2>2, GoesTo
<1>2. ASSUME NEW p \in Processes, Statement(p) PROVE MigrationsInv'
  BY <1>2, StatementKeeps
<1>3. ASSUME NEW p \in Processes, Record(p) PROVE MigrationsInv'
  <2> DEFINE place == IF process[p].n \in recorded THEN Idle ELSE [process[p] EXCEPT !.pc = "pending"]
  <2>1. /\ process' = [process EXCEPT ![p] = place]
        /\ UNCHANGED <<recorded, schema, rows, saved>> /\ recorded' \subseteq Nat
    BY <1>3 DEF Record, PlacesInv
  <2>2. place \in Place /\ place.pc # "run"
    BY DEF PlacesInv, Place, Idle
  <2> QED BY <2>1, <2>2, GoesTo
<1>4. ASSUME NEW p \in Processes, Commit(p) PROVE MigrationsInv'
  <2> DEFINE next == NextMigration(process[p].applied, process[p].n)
  <2>1. /\ process' = [process EXCEPT ![p] = next]
        /\ UNCHANGED <<schema, rows, saved>>
        /\ process[p].applied \in SUBSET Nat /\ process[p].n \in Nat
    BY <1>4 DEF Commit, PlacesInv, Place
  <2>2. recorded' \subseteq Nat
    BY <1>4, <2>1 DEF Commit, PlacesInv
  <2>3. next \in Place /\ (next.pc = "run" => next.i = 1 /\ next.n \in 1..Last)
    <3>1. \/ next = Idle
          \/ \E m \in 1..Last : next = [pc |-> "run", applied |-> process[p].applied, i |-> 1, n |-> m]
      BY <2>1, NextPlace
    <3> HIDE DEF next
    <3> QED BY <2>1, <3>1, ScriptLengths DEF Idle, Place
  <2> QED BY <2>1, <2>2, <2>3, GoesTo
<1>5. ASSUME NEW p \in Processes, Crash(p) PROVE MigrationsInv'
  <2>1. /\ process' = [process EXCEPT ![p] = Idle]
        /\ UNCHANGED <<recorded, schema, rows, saved>> /\ recorded' \subseteq Nat
    BY <1>5 DEF Crash, PlacesInv
  <2>2. Idle \in Place /\ Idle.pc = "idle"
    BY DEF Idle, Place
  <2> QED BY <2>1, <2>2, GoesTo
<1>6. ASSUME NEW package \in Packages, upsert_whop_package(package) PROVE MigrationsInv'
  BY <1>6, SaveKeeps
<1>7. CASE UNCHANGED vars
  <2>1. PlacesInv'
    BY <1>7 DEF vars, PlacesInv, At
  <2> QED BY <1>7, <2>1, QuietStep DEF vars
<1> QED BY <1>1, <1>2, <1>3, <1>4, <1>5, <1>6, <1>7 DEF Next

-----------------------------------------------------------------------------

\* apply_migrations and migration 003: the grants that were saved last are in
\* whop_package_grants or in the table they are copied from, for any number of
\* processes and starts, wherever they die, and whatever is saved meanwhile.
THEOREM NoGrantIsLost == Spec => []GrantsSurvive
<1>1. Init => MigrationsInv
  BY MigrationsInit
<1>2. MigrationsInv /\ [Next]_vars => MigrationsInv'
  BY MigrationsStep
<1>3. MigrationsInv => GrantsSurvive
  BY DEF MigrationsInv, GrantsInv
<1> QED BY <1>1, <1>2, <1>3, PTL DEF Spec

-----------------------------------------------------------------------------
(* What is recorded has been done *)

\* A process has run all of a script, and is yet to record it.
Over(p, n) == process[p].pc \in {"insert", "pending"} /\ process[p].n = n

\* What the statements of a script before the i-th have made, but for the
\* tables that 003 takes away.
MadeBefore(n, i) ==
  {Scripts[n][j].name : j \in {k \in 1..i - 1 : Scripts[n][k].op \in {"create", "make"}}}
    \ {Grants, Old}

MadeBy(n) == MadeBefore(n, Len(Scripts[n]) + 1)

\* The new table of 003 is missing only between the RENAME of a process that
\* came late and its second statement, and if it died there; the old one is
\* there then.
GrantsThere ==
  \/ Grants \in schema
  \/ Old \in schema /\ (3 \in cut \/ \E q \in Processes : AtStatement(q, 3, 2))

KnownScripts ==
  /\ recorded \subseteq 1..Last
  /\ \A p \in Processes : ~At(p, "idle") => process[p].n \in 1..Last

DoneInv ==
  /\ KnownScripts
  /\ \A n \in 1..Last : n \in recorded \/ (\E p \in Processes : Over(p, n)) => MadeBy(n) \subseteq schema
  /\ 3 \in recorded \/ (\E p \in Processes : Over(p, 3)) => GrantsThere
  /\ \A p \in Processes : At(p, "run") => MadeBefore(process[p].n, process[p].i) \subseteq schema
  /\ \A p \in Processes : AtStatement(p, 3, 3) \/ AtStatement(p, 3, 4) => Grants \in schema

RecordedInv == MigrationsInv /\ DoneInv

LEMMA MadeFirst == ASSUME NEW n PROVE MadeBefore(n, 1) = {}
<1>1. 1..1 - 1 = {}
  OBVIOUS
<1> QED BY <1>1 DEF MadeBefore

LEMMA MadeNext ==
  ASSUME NEW n, NEW i \in Nat \ {0}, NEW x \in MadeBefore(n, i + 1)
  PROVE  /\ x \notin {Grants, Old}
         /\ \/ x \in MadeBefore(n, i)
            \/ Scripts[n][i].op \in {"create", "make"} /\ x = Scripts[n][i].name
<1>1. \A j \in 1..(i + 1) - 1 : j \in 1..i - 1 \/ j = i
  OBVIOUS
<1> QED BY <1>1 DEF MadeBefore

LEMMA ScriptDomains ==
  ASSUME NEW n \in 1..Last
  PROVE  /\ n \in {1, 2, 3, 4, 5}
         /\ Len(Scripts[n]) \in {3, 4, 10}
         /\ DOMAIN Scripts[n] = 1..Len(Scripts[n])
         /\ \A j \in DOMAIN Scripts[n] : j \in 1..(Len(Scripts[n]) + 1) - 1
<1>1. n \in {1, 2, 3, 4, 5}
  BY ScriptLengths
<1>2. Len(Scripts[n]) \in {3, 4, 10}
  BY <1>1, ScriptLengths
<1>3. DOMAIN Scripts[n] = 1..Len(Scripts[n])
  <2>1. DOMAIN Scripts[1] = 1..10 /\ DOMAIN Scripts[2] = 1..3 /\ DOMAIN Scripts[3] = 1..4
        /\ DOMAIN Scripts[4] = 1..3 /\ DOMAIN Scripts[5] = 1..4
    BY DEF Scripts
  <2> QED BY <1>1, <2>1, ScriptLengths
<1>4. \A l \in {3, 4, 10} : \A j \in 1..l : j \in 1..(l + 1) - 1
  OBVIOUS
<1> QED BY <1>1, <1>2, <1>3, <1>4

\* No script but 003 makes the tables that 003 takes away for good.
LEMMA LeavesAreMade ==
  ASSUME NEW n \in 1..Last, n # 3
  PROVE  Leaves(n) \subseteq MadeBy(n)
<1>1. \A j \in DOMAIN Scripts[n] : j \in 1..(Len(Scripts[n]) + 1) - 1
  BY ScriptDomains
<1>2. ASSUME NEW x \in Leaves(n) PROVE x \notin {Grants, Old}
  <2>1. PICK j \in DOMAIN Scripts[n] :
          /\ x = Scripts[n][j].name
          /\ \A m \in n..Last : \A k \in DOMAIN Scripts[m] :
               (m > n \/ k > j) /\ Scripts[m][k].op \in {"rename", "drop"} =>
                 Scripts[m][k].name # Scripts[n][j].name
    BY <1>2 DEF Leaves
  <2>2. CASE n = 2
    <3>1. 3 \in n..Last /\ 1 \in DOMAIN Scripts[3] /\ 4 \in DOMAIN Scripts[3] /\ 3 > n
      BY <2>2, ScriptLengths DEF Scripts
    <3>2. /\ Scripts[3][1].op = "rename" /\ Scripts[3][1].name = Grants
          /\ Scripts[3][4].op = "drop" /\ Scripts[3][4].name = Old
      BY Script003 DEF Rename, Drop
    <3> QED BY <2>1, <3>1, <3>2
  <2>3. CASE n = 1
    BY <2>1, <2>3 DEF Scripts, Create, Grants, Old
  <2>4. CASE n = 4
    BY <2>1, <2>4 DEF Scripts, Create, Grants, Old
  <2>5. CASE n = 5
    BY <2>1, <2>5 DEF Scripts, Add, Fill, Grants, Old
  <2> QED BY <2>2, <2>3, <2>4, <2>5, ScriptLengths
<1> QED BY <1>1, <1>2 DEF Leaves, MadeBy, MadeBefore

LEMMA Leaves003 == Leaves(3) \subseteq {Grants}
<1>1. DOMAIN Scripts[3] = 1..4
  BY DEF Scripts
<1>2. \A j \in 1..4 : j = 1 \/ j = 2 \/ j = 3 \/ j = 4
  OBVIOUS
<1>3. \A j \in DOMAIN Scripts[3] :
        Scripts[3][j].op \in {"create", "make"} => Scripts[3][j].name = Grants
  BY <1>1, <1>2, Script003 DEF Rename, Make, Copy, Drop
<1> QED BY <1>3 DEF Leaves

\* A process is nowhere further in a script, nor done with another one.
NoFurther(q) ==
  \/ process'[q] = process[q]
  \/ process'[q].pc = "idle"
  \/ process'[q].pc = "run" /\ process'[q].i = 1
  \/ \E n \in 1..Last : Over(q, n) /\ Over(q, n)'

Recordable003 == 3 \in recorded \/ \E q \in Processes : Over(q, 3)

LEMMA DoneStays ==
  ASSUME DoneInv, KnownScripts', schema' = schema, recorded' = recorded,
         \A q \in Processes : NoFurther(q),
         GrantsThere /\ Recordable003 => GrantsThere'
  PROVE  DoneInv'
<1>1. \A n \in 1..Last, q \in Processes : Over(q, n)' => Over(q, n)
  BY DEF Over, NoFurther
<1>2. \A q \in Processes, i \in {3, 4} : AtStatement(q, 3, i)' => AtStatement(q, 3, i)
  BY DEF AtStatement, At, Over, NoFurther
<1>3. ASSUME NEW q \in Processes, At(q, "run")'
      PROVE  MadeBefore(process'[q].n, process'[q].i) \subseteq schema'
  <2>1. CASE process'[q].i = 1
    BY <2>1, MadeFirst
  <2>2. CASE process'[q] = process[q]
    BY <1>3, <2>2 DEF DoneInv, At
  <2> QED BY <1>3, <2>1, <2>2 DEF At, Over, NoFurther
<1>4. 3 \in 1..Last
  BY ScriptLengths
<1>5. \A n \in 1..Last : n \in recorded' \/ (\E p \in Processes : Over(p, n)') => MadeBy(n) \subseteq schema'
  BY <1>1 DEF DoneInv
<1>6. 3 \in recorded' \/ (\E p \in Processes : Over(p, 3)') => GrantsThere'
  BY <1>1, <1>4 DEF DoneInv, Recordable003
<1>7. \A p \in Processes : AtStatement(p, 3, 3)' \/ AtStatement(p, 3, 4)' => Grants \in schema'
  BY <1>2 DEF DoneInv
<1> QED BY <1>3, <1>5, <1>6, <1>7 DEF DoneInv

LEMMA DoneInit == Init => DoneInv
<1> SUFFICES ASSUME Init PROVE DoneInv
  OBVIOUS
<1>1. \A p \in Processes : process[p].pc = "idle"
  BY DEF Init, Idle
<1>2. recorded \subseteq {1, 2} /\ (recorded # {} =>
        schema = {Scripts[1][i].name : i \in DOMAIN Scripts[1]}
                   \cup {Scripts[2][i].name : i \in DOMAIN Scripts[2]})
  BY DEF Init
<1>3. ASSUME NEW n \in {1, 2}, NEW x \in MadeBy(n)
      PROVE  \E i \in DOMAIN Scripts[n] : x = Scripts[n][i].name
  <2>1. n \in 1..Last
    BY ScriptLengths
  <2>2. DOMAIN Scripts[n] = 1..Len(Scripts[n]) /\ Len(Scripts[n]) \in {3, 4, 10}
    BY <2>1, ScriptDomains
  <2>3. \A l \in {3, 4, 10} : \A j \in 1..(l + 1) - 1 : j \in 1..l
    OBVIOUS
  <2> QED BY <2>2, <2>3 DEF MadeBy, MadeBefore
<1>4. \A n \in recorded : MadeBy(n) \subseteq schema
  BY <1>2, <1>3
<1>5. 1..Last = {1, 2, 3, 4, 5}
  BY ScriptLengths
<1> QED BY <1>1, <1>2, <1>4, <1>5 DEF DoneInv, KnownScripts, At, Over, AtStatement

\* Only the name of a script and its tables matter to a migration that starts.
LEMMA StartsKnown ==
  ASSUME NEW applied \in SUBSET Nat, NEW n \in Nat
  PROVE  LET next == NextMigration(applied, n)
         IN  \/ next.pc = "idle"
             \/ next.pc = "run" /\ next.i = 1 /\ next.n \in 1..Last
BY NextPlace DEF Idle

\* What a statement that did not fail leaves behind it.
LEMMA StatementMakes ==
  ASSUME MigrationsInv, DoneInv, NEW p \in Processes, Statement(p), ~Fails(Current(p))
  PROVE  /\ MadeBefore(process[p].n, process[p].i + 1) \subseteq schema'
         /\ \A x \in schema : x \in schema' \/ x \in {Grants, Old}
         /\ process[p].n # 3 => schema \subseteq schema'
<1> DEFINE n == process[p].n
           i == process[p].i
           s == Current(p)
<1>1. /\ At(p, "run") /\ n \in 1..Last /\ n \in {1, 2, 3, 4, 5} /\ i \in 1..Len(Scripts[n])
      /\ i \in Nat \ {0} /\ s = Scripts[n][i] /\ Run(s)
  <2>1. At(p, "run") /\ Run(s) /\ n \in 1..Last /\ i \in 1..Len(Scripts[n]) /\ s = Scripts[n][i]
    BY DEF Statement, Current, MigrationsInv, PlacesInv
  <2>2. n \in {1, 2, 3, 4, 5} /\ Len(Scripts[n]) \in {3, 4, 10}
    BY <2>1, ScriptDomains
  <2>3. \A l \in {3, 4, 10} : \A j \in 1..l : j \in Nat \ {0}
    OBVIOUS
  <2> QED BY <2>1, <2>2, <2>3
<1>2. MadeBefore(n, i) \subseteq schema
  BY <1>1 DEF DoneInv
<1>3. \/ s.op \in {"create", "make", "fill"}
      \/ n = 3 /\ s \in {Rename(Grants, Old), Make(Grants), Copy(Old, Grants), Drop(Old)}
  <2>1. CASE n = 3
    <3>1. \A l : l = 4 => 1..l = {1, 2, 3, 4}
      OBVIOUS
    <3>2. i \in {1, 2, 3, 4}
      BY <1>1, <2>1, <3>1, ScriptLengths
    <3> QED BY <1>1, <2>1, <3>2, Script003
  <2>2. CASE n # 3
    BY <1>1, <2>2, OtherScripts
  <2> QED BY <2>1, <2>2
<1> HIDE DEF s
<1>4. /\ \A x \in schema : x \in schema' \/ x \in {Grants, Old}
      /\ s.op \in {"create", "make"} => s.name \in schema'
      /\ n # 3 => schema \subseteq schema'
  <2>1. CASE s.op \in {"create", "make", "fill"}
    BY <1>1, <2>1 DEF Run
  <2>2. CASE s \in {Rename(Grants, Old), Make(Grants), Copy(Old, Grants), Drop(Old)} /\ n = 3
    <3>0. n = 3 /\ schema' = CASE s.op \in {"create", "make"} -> schema \cup {s.name}
                                [] s.op = "rename" -> (schema \ {s.name}) \cup {s.to}
                                [] s.op = "drop"   -> schema \ {s.name}
                                [] OTHER           -> schema
      BY <1>1, <2>2 DEF Run
    <3>1. CASE s = Rename(Grants, Old)
      <4>1. s.op = "rename" /\ s.name = Grants
        BY <3>1 DEF Rename
      <4> QED BY <3>0, <4>1
    <3>2. CASE s = Make(Grants)
      <4>1. s.op = "make" /\ s.name = Grants
        BY <3>2 DEF Make
      <4> QED BY <3>0, <4>1
    <3>3. CASE s = Copy(Old, Grants)
      <4>1. s.op = "copy"
        BY <3>3 DEF Copy
      <4> QED BY <3>0, <4>1
    <3>4. CASE s = Drop(Old)
      <4>1. s.op = "drop" /\ s.name = Old
        BY <3>4 DEF Drop
      <4> QED BY <3>0, <4>1
    <3> QED BY <2>2, <3>1, <3>2, <3>3, <3>4
  <2> QED BY <1>3, <2>1, <2>2
<1>5. ASSUME NEW x \in MadeBefore(n, i + 1) PROVE x \in schema'
  BY <1>1, <1>2, <1>4, MadeNext
<1> QED BY <1>4, <1>5

LEMMA StatementDone ==
  ASSUME MigrationsInv, DoneInv, NEW p \in Processes, Statement(p)
  PROVE  DoneInv'
<1> DEFINE n == process[p].n
           i == process[p].i
<1> USE DEF MigrationsInv
<1>1. /\ At(p, "run") /\ n \in {1, 2, 3, 4, 5} /\ i \in 1..Len(Scripts[n])
      /\ UNCHANGED <<recorded, saved, cut>> /\ DOMAIN rows = {Grants, Old} /\ Grants # Old
      /\ process \in [Processes -> Place]
  BY ScriptLengths DEF Statement, PlacesInv, Grants, Old
<1>2. CASE Fails(Current(p))
  <2>1. Failed(p) /\ UNCHANGED <<schema, rows>>
    BY <1>2 DEF Statement
  <2>2. process'[p].pc = "idle" /\ \A q \in Processes : q # p => process'[q] = process[q]
    BY <1>1, <2>1 DEF Failed, Idle
  <2>3. KnownScripts'
    BY <1>1, <2>2 DEF DoneInv, KnownScripts, At
  <2>4. AtStatement(p, 3, 2) => Grants \in schema
    <3> SUFFICES ASSUME AtStatement(p, 3, 2) PROVE Grants \in schema
      OBVIOUS
    <3>1. Current(p) = Make(Grants)
      BY Script003 DEF Current, AtStatement
    <3> QED BY <1>2, <3>1 DEF Fails, Make
  <2>5. GrantsThere => GrantsThere'
    BY <1>1, <2>1, <2>2, <2>4 DEF GrantsThere, AtStatement, At
  <2>6. \A q \in Processes : NoFurther(q)
    BY <2>2 DEF NoFurther
  <2>7. schema' = schema /\ recorded' = recorded
    BY <1>1, <2>1
  <2> QED BY <2>3, <2>5, <2>6, <2>7, DoneStays
<1>3. CASE ~Fails(Current(p))
  <2>1. Run(Current(p)) /\ process' = [process EXCEPT ![p] = Onward(process[p])]
    BY <1>3 DEF Statement
  <2>2. DOMAIN rows' = {Grants, Old}
    BY <1>1, <2>1 DEF Run
  <2>3. /\ \A q \in Processes : q # p => process'[q] = process[q]
        /\ process'[p].n = n
        /\ i = Len(Scripts[n]) => ~At(p, "run")'
        /\ i # Len(Scripts[n]) => process'[p].i = i + 1
    BY <1>1, <2>1, <2>2, MovesOn
  <2>4. /\ MadeBefore(n, i + 1) \subseteq schema'
        /\ \A x \in schema : x \in schema' \/ x \in {Grants, Old}
        /\ n # 3 => schema \subseteq schema'
    BY <1>3, StatementMakes
  <2>5. ASSUME NEW m, NEW k, MadeBefore(m, k) \subseteq schema PROVE MadeBefore(m, k) \subseteq schema'
    BY <2>4, <2>5 DEF MadeBefore
  <2>6. n \in 1..Last
    BY <1>1, ScriptLengths
  <2>7. KnownScripts'
    BY <1>1, <2>3, <2>6 DEF DoneInv, KnownScripts, At
  <2>8. ASSUME NEW m \in 1..Last, m \in recorded' \/ \E q \in Processes : Over(q, m)'
        PROVE  MadeBy(m) \subseteq schema'
    <3>1. CASE m \in recorded \/ \E q \in Processes : Over(q, m)
      <4>1. MadeBy(m) \subseteq schema
        BY <3>1 DEF DoneInv
      <4> QED BY <2>5, <4>1 DEF MadeBy
    <3>2. CASE Over(p, m)'
      <4>1. m = n /\ i = Len(Scripts[n])
        <5>1. process'[p] = Onward(process[p]) /\ process'[p].pc # "run"
          BY <1>1, <2>1, <3>2 DEF Over
        <5>2. ~(i < Len(Scripts[n]))
          BY <1>1, <5>1 DEF Onward, Place, At
        <5>3. Len(Scripts[n]) \in {3, 4, 10}
          BY <2>6, ScriptDomains
        <5>4. \A l \in {3, 4, 10} : \A j \in 1..l : ~(j < l) => j = l
          OBVIOUS
        <5> QED BY <1>1, <2>3, <3>2, <5>2, <5>3, <5>4 DEF Over
      <4> QED BY <2>4, <4>1 DEF MadeBy
    <3> QED BY <1>1, <2>3, <2>8, <3>1, <3>2 DEF Over
  <2>9. ASSUME NEW q \in Processes, At(q, "run")'
        PROVE  MadeBefore(process'[q].n, process'[q].i) \subseteq schema'
    <3>1. CASE q = p
      BY <2>3, <2>4, <2>9, <3>1
    <3>2. CASE q # p
      BY <2>3, <2>5, <2>9, <3>2 DEF DoneInv, At
    <3> QED BY <3>1, <3>2
  <2>10. /\ \A q \in Processes : AtStatement(q, 3, 3)' \/ AtStatement(q, 3, 4)' => Grants \in schema'
         /\ 3 \in recorded' \/ (\E q \in Processes : Over(q, 3)') => GrantsThere'
    <3> DEFINE Here == /\ \A q \in Processes : AtStatement(q, 3, 3)' \/ AtStatement(q, 3, 4)' => Grants \in schema'
                       /\ 3 \in recorded' \/ (\E q \in Processes : Over(q, 3)') => GrantsThere'
    <3>1. \A q \in Processes : q # p =>
            /\ \A k \in {2, 3, 4} : AtStatement(q, 3, k)' <=> AtStatement(q, 3, k)
            /\ Over(q, 3)' <=> Over(q, 3)
      BY <2>3 DEF AtStatement, At, Over
    <3>2. CASE n # 3
      BY <1>1, <2>3, <2>4, <3>1, <3>2 DEF DoneInv, GrantsThere, AtStatement, Over
    <3>3. CASE n = 3 /\ i = 1
      <4>1. Current(p) = Rename(Grants, Old)
        BY <3>3, Script003 DEF Current
      <4>2. Old \notin schema
        BY <1>3, <4>1 DEF Fails, Rename
      <4>3. \A q \in Processes : q # p => ~AtStatement(q, 3, 3) /\ ~AtStatement(q, 3, 4)
        BY <4>2 DEF MovingInv, Moving, AtStatement
      <4>4. AtStatement(p, 3, 2)'
        <5>1. i < Len(Scripts[n])
          BY <3>3, ScriptLengths
        <5>2. process'[p] = [process[p] EXCEPT !.i = process[p].i + 1]
          BY <1>1, <2>1, <5>1 DEF Onward
        <5>3. process'[p].pc = "run"
          BY <1>1, <5>2 DEF At, Place
        <5> QED BY <2>3, <3>3, <5>3, ScriptLengths DEF AtStatement, At
      <4>5. Old \in schema'
        BY <2>1, <4>1 DEF Run, Rename
      <4> QED BY <3>1, <4>3, <4>4, <4>5 DEF GrantsThere, AtStatement
    <3>4. CASE n = 3 /\ i # 1
      <4>1. Grants \in schema'
        <5>1. i \in {2, 3, 4}
          <6>1. \A l : l = 4 => 1..l = {1, 2, 3, 4}
            OBVIOUS
          <6> QED BY <1>1, <3>4, <6>1, ScriptLengths
        <5>2. CASE i = 2
          <6>1. Current(p) = Make(Grants)
            BY <3>4, <5>2, Script003 DEF Current
          <6> QED BY <2>1, <6>1 DEF Run, Make
        <5>3. CASE i = 3
          <6>1. Current(p) = Copy(Old, Grants) /\ Grants \in schema
            BY <1>1, <3>4, <5>3, Script003 DEF Current, DoneInv, AtStatement
          <6> QED BY <2>1, <6>1 DEF Run, Copy
        <5>4. CASE i = 4
          <6>1. Current(p) = Drop(Old) /\ Grants \in schema
            BY <1>1, <3>4, <5>4, Script003 DEF Current, DoneInv, AtStatement
          <6> QED BY <1>1, <2>1, <6>1 DEF Run, Drop
        <5> QED BY <5>1, <5>2, <5>3, <5>4
      <4> QED BY <4>1 DEF GrantsThere
    <3> QED BY <3>2, <3>3, <3>4
  <2> QED BY <2>7, <2>8, <2>9, <2>10 DEF DoneInv
<1> QED BY <1>2, <1>3

LEMMA DoneStep == MigrationsInv /\ DoneInv /\ [Next]_vars => DoneInv'
<1> SUFFICES ASSUME MigrationsInv, DoneInv, [Next]_vars PROVE DoneInv'
  OBVIOUS
<1>0. process \in [Processes -> Place]
  BY DEF MigrationsInv, PlacesInv
<1>1. ASSUME NEW p \in Processes, apply_migrations(p) PROVE DoneInv'
  <2>1. /\ process' = [process EXCEPT ![p] = NextMigration(recorded, 0)] /\ At(p, "idle")
        /\ UNCHANGED <<recorded, schema, cut>>
    BY <1>1 DEF apply_migrations
  <2>2. \/ process'[p].pc = "idle"
        \/ process'[p].pc = "run" /\ process'[p].i = 1 /\ process'[p].n \in 1..Last
    BY <1>0, <2>1, StartsKnown DEF MigrationsInv, PlacesInv
  <2>3. \A q \in Processes : q # p => process'[q] = process[q]
    BY <1>0, <2>1
  <2>4. KnownScripts'
    BY <2>1, <2>2, <2>3 DEF DoneInv, KnownScripts, At
  <2>5. GrantsThere => GrantsThere'
    BY <2>1, <2>3 DEF GrantsThere, AtStatement, At
  <2>6. \A q \in Processes : NoFurther(q)
    BY <2>2, <2>3 DEF NoFurther
  <2> QED BY <2>1, <2>4, <2>5, <2>6, DoneStays
<1>2. ASSUME NEW p \in Processes, Statement(p) PROVE DoneInv'
  BY <1>2, StatementDone
<1>3. ASSUME NEW p \in Processes, Record(p) PROVE DoneInv'
  <2> DEFINE place == IF process[p].n \in recorded THEN Idle ELSE [process[p] EXCEPT !.pc = "pending"]
  <2>1. /\ At(p, "insert") /\ UNCHANGED <<recorded, schema, cut>>
        /\ process' = [process EXCEPT ![p] = place]
    BY <1>3 DEF Record
  <2>2. \/ process'[p].pc = "idle"
        \/ process'[p].pc = "pending" /\ process'[p].n = process[p].n
    <3>1. process'[p] = place /\ process[p] \in Place
      BY <1>0, <2>1
    <3> QED BY <3>1 DEF Idle, Place
  <2>3. \A q \in Processes : q # p => process'[q] = process[q]
    BY <1>0, <2>1
  <2>4. process[p].n \in 1..Last
    BY <2>1 DEF DoneInv, KnownScripts, At
  <2>5. KnownScripts'
    BY <2>1, <2>2, <2>3, <2>4 DEF DoneInv, KnownScripts, At
  <2>6. GrantsThere => GrantsThere'
    BY <2>1, <2>3 DEF GrantsThere, AtStatement, At
  <2>7. \A q \in Processes : NoFurther(q)
    BY <2>1, <2>2, <2>3, <2>4 DEF NoFurther, Over, At
  <2> QED BY <2>1, <2>5, <2>6, <2>7, DoneStays
<1>4. ASSUME NEW p \in Processes, Commit(p) PROVE DoneInv'
  <2> DEFINE n == process[p].n
             next == NextMigration(process[p].applied, process[p].n)
  <2>1. /\ At(p, "pending") /\ process' = [process EXCEPT ![p] = next]
        /\ recorded' = recorded \cup {n} /\ UNCHANGED <<schema, cut>>
        /\ process[p].applied \in SUBSET Nat /\ n \in Nat
    BY <1>0, <1>4 DEF Commit, Place
  <2>2. \/ next.pc = "idle"
        \/ next.pc = "run" /\ next.i = 1 /\ next.n \in 1..Last
    BY <2>1, StartsKnown
  <2> HIDE DEF next
  <2>3. process'[p] = next /\ \A q \in Processes : q # p => process'[q] = process[q]
    BY <1>0, <2>1
  <2>4. Over(p, n) /\ n \in 1..Last
    BY <2>1 DEF Over, At, DoneInv, KnownScripts
  <2>5. KnownScripts'
    BY <2>1, <2>2, <2>3, <2>4 DEF DoneInv, KnownScripts, At
  <2>6. GrantsThere => GrantsThere'
    BY <2>1, <2>3 DEF GrantsThere, AtStatement, At
  <2>7. \A m \in 1..Last : m \in recorded' \/ (\E q \in Processes : Over(q, m)') =>
          m \in recorded \/ \E q \in Processes : Over(q, m)
    BY <2>1, <2>2, <2>3, <2>4 DEF Over
  <2>8. 3 \in 1..Last
    BY ScriptLengths
  <2>9. ASSUME NEW q \in Processes, At(q, "run")'
        PROVE  MadeBefore(process'[q].n, process'[q].i) \subseteq schema'
    <3>1. CASE q = p
      BY <2>2, <2>3, <2>9, <3>1, MadeFirst DEF At
    <3>2. CASE q # p
      BY <2>1, <2>3, <2>9, <3>2 DEF DoneInv, At
    <3> QED BY <3>1, <3>2
  <2>10. \A q \in Processes : AtStatement(q, 3, 3)' \/ AtStatement(q, 3, 4)' => Grants \in schema'
    BY <2>1, <2>2, <2>3 DEF DoneInv, AtStatement, At
  <2>11. \A m \in 1..Last : m \in recorded' \/ (\E q \in Processes : Over(q, m)') => MadeBy(m) \subseteq schema'
    BY <2>1, <2>7 DEF DoneInv
  <2>12. 3 \in recorded' \/ (\E q \in Processes : Over(q, 3)') => GrantsThere'
    BY <2>6, <2>7, <2>8 DEF DoneInv
  <2> QED BY <2>5, <2>9, <2>10, <2>11, <2>12 DEF DoneInv
<1>5. ASSUME NEW p \in Processes, Crash(p) PROVE DoneInv'
  <2>1. /\ process' = [process EXCEPT ![p] = Idle] /\ UNCHANGED <<recorded, schema>>
        /\ cut' = IF At(p, "run") /\ RunTwice(p) THEN cut \cup {process[p].n} ELSE cut
    BY <1>5 DEF Crash
  <2>2. process'[p].pc = "idle" /\ \A q \in Processes : q # p => process'[q] = process[q]
    BY <1>0, <2>1 DEF Idle
  <2>3. KnownScripts'
    BY <2>1, <2>2 DEF DoneInv, KnownScripts, At
  <2>4. ASSUME GrantsThere, Recordable003 PROVE GrantsThere'
    <3>1. CASE AtStatement(p, 3, 2)
      <4>1. At(p, "run") /\ process[p].n = 3 /\ ~Over(p, 3)
        BY <3>1 DEF AtStatement, At, Over
      <4>2. RunTwice(p)
        BY <2>4, <4>1 DEF RunTwice, Recordable003, Over
      <4>3. Old \in schema
        BY <3>1 DEF MigrationsInv, MovingInv, Moving, AtStatement
      <4> QED BY <2>1, <4>1, <4>2, <4>3 DEF GrantsThere
    <3>2. CASE ~AtStatement(p, 3, 2)
      BY <2>1, <2>2, <2>4, <3>2 DEF GrantsThere, AtStatement, At
    <3> QED BY <3>1, <3>2
  <2>5. \A q \in Processes : NoFurther(q)
    BY <2>2 DEF NoFurther
  <2> QED BY <2>1, <2>3, <2>4, <2>5, DoneStays
<1>6. ASSUME NEW package \in Packages, upsert_whop_package(package) PROVE DoneInv'
  <2>1. UNCHANGED <<recorded, schema, process, cut>>
    BY <1>6 DEF upsert_whop_package
  <2> QED BY <2>1 DEF DoneInv, KnownScripts, GrantsThere, AtStatement, At, Over
<1>7. CASE UNCHANGED vars
  BY <1>7 DEF vars, DoneInv, KnownScripts, GrantsThere, AtStatement, At, Over
<1> QED BY <1>1, <1>2, <1>3, <1>4, <1>5, <1>6, <1>7 DEF Next

\* apply_migrations: the tables and columns of every migration that is
\* recorded are there, for any number of processes, starts and crashes.  The
\* exception is the table whop_package_grants: a second process that runs 003
\* has renamed it and is yet to make the new one, or died there; then the
\* table with the old name is there.
THEOREM WhatIsRecordedIsDone == Spec => []RecordedIsDone
<1>1. Init => RecordedInv
  BY MigrationsInit, DoneInit DEF RecordedInv
<1>2. RecordedInv /\ [Next]_vars => RecordedInv'
  BY MigrationsStep, DoneStep DEF RecordedInv
<1>3. RecordedInv => RecordedIsDone
  <2> SUFFICES ASSUME RecordedInv, NEW n \in recorded
               PROVE  \/ Leaves(n) \subseteq schema
                      \/ /\ Leaves(n) \ schema = {Grants} /\ Old \in schema
                         /\ \/ n \in cut
                            \/ \E p \in Processes : At(p, "run") /\ process[p].n = n /\ process[p].i = 2
    BY DEF RecordedIsDone
  <2>1. n \in 1..Last
    BY DEF RecordedInv, DoneInv, KnownScripts
  <2>2. CASE n = 3
    <3>1. GrantsThere /\ Leaves(n) \subseteq {Grants}
      BY <2>2, Leaves003 DEF RecordedInv, DoneInv
    <3> QED BY <2>2, <3>1 DEF GrantsThere, AtStatement
  <2>3. CASE n # 3
    BY <2>1, <2>3, LeavesAreMade DEF RecordedInv, DoneInv
  <2> QED BY <2>2, <2>3
<1> QED BY <1>1, <1>2, <1>3, PTL DEF Spec
=============================================================================
