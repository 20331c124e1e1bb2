------------------------ MODULE ReleaseRetentionProofs ------------------------
(***************************************************************************)
(* For any streams, paths, counts and numbers of releases: retention       *)
(* spares the files other releases need, provided no file has two paths,   *)
(* and the tokens it revokes stay dead; it deactivates none of the newest  *)
(* releases, leaves no more of them active, and no file that none needs.   *)
(***************************************************************************)
EXTENDS ReleaseRetention, FiniteSetTheorems, TLAPS

-----------------------------------------------------------------------------
(* Rows *)

RequestRecord ==
  [pc : {"idle", "prune", "unlink"}, release : Ids \cup {NULL},
   paths : SUBSET Paths, left : SUBSET Files]

\* The paths a pruning is about to unlink belong to no release outside the
\* stale ones of its stream.
PathsUnshared ==
  /\ releases \in [Ids -> ReleaseRow \cup {NULL}]
  /\ request \in RequestRecord
  /\ At("prune") => request.release \in Rows
  /\ At("unlink") => request.release \in Rows /\ request.paths \subseteq UnsharedPaths(request.release)

\* What Stale and UnsharedPaths say depends on the streams and paths of the
\* rows alone, which pruning does not touch.
LEMMA SameRowsSameStale ==
  ASSUME Rows' = Rows,
         \A m \in Rows : releases'[m].stream = releases[m].stream,
         \A m \in Rows : releases'[m].path = releases[m].path,
         NEW n \in Rows
  PROVE  Stale(n)' = Stale(n) /\ UnsharedPaths(n)' = UnsharedPaths(n)
<1>1. ASSUME NEW k \in Rows PROVE InStream(k)' = InStream(k)
  BY <1>1 DEF InStream
<1>2. Stale(n)' = Stale(n)
  BY <1>1 DEF Stale
<1>3. Stale(n) \subseteq Rows
  BY DEF Stale, InStream
<1>4. UnsharedPaths(n)' = UnsharedPaths(n)
  BY <1>2, <1>3 DEF UnsharedPaths
<1> QED BY <1>2, <1>4

\* Stale releases of a stream are rows.
LEMMA StaleAreRows == \A n : Stale(n) \subseteq Rows /\ Pruned(n) \subseteq Rows
  BY DEF Stale, InStream, Pruned

\* Pruning deactivates rows and changes nothing else of them.
LEMMA PruneKeepsRows ==
  ASSUME PathsUnshared, prune_release_artifacts
  PROVE  /\ Rows' = Rows
         /\ \A m \in Rows : releases'[m].stream = releases[m].stream
         /\ \A m \in Rows : releases'[m].path = releases[m].path
         /\ releases' \in [Ids -> ReleaseRow \cup {NULL}]
<1>1. \A m \in Pruned(request.release) : m \in Ids /\ releases[m] \in ReleaseRow
  BY StaleAreRows DEF Rows, PathsUnshared
<1>2. \A m \in Pruned(request.release) :
        /\ releases'[m] = [releases[m] EXCEPT !.is_active = FALSE]
        /\ releases'[m] \in ReleaseRow
  BY <1>1 DEF prune_release_artifacts, ReleaseRow
<1>3. \A m \in Pruned(request.release) :
        releases'[m].stream = releases[m].stream /\ releases'[m].path = releases[m].path
  BY <1>1, <1>2 DEF ReleaseRow
<1>4. \A m \in Ids \ Pruned(request.release) : releases'[m] = releases[m]
  BY DEF prune_release_artifacts
<1>5. \A m \in Ids : releases'[m] # NULL <=> releases[m] # NULL
  <2>1. NULL \notin ReleaseRow
    BY RetentionAssumption DEF ReleaseRow
  <2> QED
    BY <1>1, <1>2, <1>4, <2>1
<1>6. Rows' = Rows
  BY <1>5 DEF Rows
<1>7. releases' \in [Ids -> ReleaseRow \cup {NULL}]
  BY <1>2, <1>4 DEF prune_release_artifacts, PathsUnshared
<1> QED BY <1>3, <1>4, <1>6, <1>7 DEF Rows

\* A registration or an edit keeps the rows well formed.
LEMMA SavedRow ==
  ASSUME NEW s \in Streams, NEW p \in Paths, NEW a \in BOOLEAN
  PROVE  Row(s, p, a) \in ReleaseRow
  BY DEF Row, ReleaseRow

\* Nothing is unlinked that shares its path with a release that stays.
LEMMA PathsStayUnshared == PathsUnshared /\ [Next]_vars => PathsUnshared'
<1> SUFFICES ASSUME PathsUnshared, [Next]_vars PROVE PathsUnshared'
  OBVIOUS
<1> PICK n : n = request.release
  OBVIOUS
<1>1. ASSUME releases' = releases, request' = Idle PROVE PathsUnshared'
  BY <1>1 DEF PathsUnshared, At, Idle, RequestRecord
<1>2. ASSUME releases' = releases, request'.pc = request.pc, request'.release = request.release,
             request'.paths \subseteq request.paths,
             request' \in RequestRecord
      PROVE  PathsUnshared'
  <2>1. Rows' = Rows /\ (n \in Rows => UnsharedPaths(n)' = UnsharedPaths(n))
    BY <1>2, SameRowsSameStale DEF Rows
  <2> QED
    BY <1>2, <2>1 DEF PathsUnshared, At
<1>3. ASSUME NEW p \in Paths, Upload(FileOf[p]) PROVE PathsUnshared'
  <2>1. releases' = releases /\ FileOf[p] \in Files
    BY <1>3 DEF Upload, Files
  <2>2. request' = [request EXCEPT !.left = {}] \/ request' = [request EXCEPT !.left = @ \cup {FileOf[p]}]
    BY <1>3 DEF Upload
  <2>3. request \in RequestRecord
    BY DEF PathsUnshared
  <2>4. request'.pc = request.pc /\ request'.release = request.release
        /\ request'.paths \subseteq request.paths /\ request' \in RequestRecord
    BY <2>1, <2>2, <2>3 DEF RequestRecord
  <2> QED
    BY <1>2, <2>1, <2>4
<1>4. ASSUME NEW p \in Paths, Unlink(p) PROVE PathsUnshared'
  <2>1. releases' = releases /\ FileOf[p] \in Files
    BY <1>4 DEF Unlink, Files
  <2>2. \/ request' = [request EXCEPT !.paths = @ \ {p}]
        \/ request' = [request EXCEPT !.paths = @ \ {p}, !.left = @ \cup {FileOf[p]}]
    BY <1>4 DEF Unlink
  <2>3. request \in RequestRecord
    BY DEF PathsUnshared
  <2>4. request.left \cup {FileOf[p]} \subseteq Files /\ request.paths \ {p} \subseteq request.paths
        /\ request.paths \ {p} \subseteq Paths
    BY <2>1, <2>3 DEF RequestRecord
  <2>5. CASE request' = [request EXCEPT !.paths = @ \ {p}]
    BY <1>2, <2>1, <2>3, <2>4, <2>5 DEF RequestRecord
  <2>6. CASE request' = [request EXCEPT !.paths = @ \ {p}, !.left = @ \cup {FileOf[p]}]
    <3>1. request'.pc = request.pc /\ request'.release = request.release
          /\ request'.paths = request.paths \ {p}
      BY <2>3, <2>6 DEF RequestRecord
    <3>2. request' \in RequestRecord
      BY <2>3, <2>4, <2>6 DEF RequestRecord
    <3> QED
      BY <1>2, <2>1, <2>4, <3>1, <3>2
  <2> QED
    BY <2>2, <2>5, <2>6
<1>5. ASSUME NEW s \in Streams, NEW p \in Paths, NEW a \in BOOLEAN, upsert_release(s, p, a)
      PROVE  PathsUnshared'
  <2>1. Row(s, p, a) \in ReleaseRow /\ Row(s, p, a) # NULL
    BY SavedRow, RetentionAssumption DEF ReleaseRow
  <2>2. PICK m \in Ids :
          /\ releases' = [releases EXCEPT ![m] = Row(s, p, a)]
          /\ request' = [Idle EXCEPT !.pc = "prune", !.release = m]
    BY <1>5 DEF upsert_release
  <2>3. releases' \in [Ids -> ReleaseRow \cup {NULL}] /\ releases'[m] # NULL
    BY <2>1, <2>2 DEF PathsUnshared
  <2> QED
    BY <2>2, <2>3 DEF PathsUnshared, At, Rows, Idle, RequestRecord
<1>6. ASSUME NEW m \in Ids, NEW s \in Streams, NEW p \in Paths, NEW a \in BOOLEAN,
             EditRelease(m, s, p, a)
      PROVE  PathsUnshared'
  <2>1. releases' \in [Ids -> ReleaseRow \cup {NULL}]
    BY <1>6, SavedRow DEF EditRelease, PathsUnshared
  <2> QED
    BY <1>6, <2>1 DEF EditRelease, PathsUnshared, At
<1>7. ASSUME prune_release_artifacts PROVE PathsUnshared'
  <2>1. n \in Rows /\ request'.release = n /\ request'.pc = "unlink"
        /\ request' = [request EXCEPT !.pc = "unlink", !.paths = ArtifactPaths(n)]
    BY <1>7 DEF prune_release_artifacts, PathsUnshared, At
  <2>2. Rows' = Rows /\ UnsharedPaths(n)' = UnsharedPaths(n)
    BY <1>7, <2>1, PruneKeepsRows, SameRowsSameStale
  <2>3. ArtifactPaths(n) \subseteq UnsharedPaths(n) /\ UnsharedPaths(n) \subseteq Paths
    BY StaleAreRows DEF ArtifactPaths, UnsharedPaths, PathsUnshared, Rows, ReleaseRow
  <2>4. request'.pc = "unlink" /\ request'.release = n /\ request'.paths = ArtifactPaths(n)
        /\ request' \in RequestRecord
    BY <2>1, <2>3 DEF PathsUnshared, RequestRecord
  <2>5. releases' \in [Ids -> ReleaseRow \cup {NULL}]
    BY <1>7, PruneKeepsRows
  <2>6. request'.paths \subseteq UnsharedPaths(n)'
    BY <2>2, <2>3, <2>4
  <2> QED
    BY <2>1, <2>2, <2>4, <2>5, <2>6 DEF PathsUnshared, At
<1>8. CASE Redirect \/ Crash
  BY <1>1, <1>8 DEF Redirect, Crash
<1>9. CASE \/ \E t \in Tokens, m \in Ids : create_release_download_token(t, m)
           \/ \E t \in Tokens : ExpireToken(t)
           \/ UNCHANGED vars
  <2>1. releases' = releases /\ request' = request
    BY <1>9 DEF create_release_download_token, ExpireToken, vars
  <2> QED
    BY <1>2, <2>1 DEF PathsUnshared
<1> QED
  BY <1>3, <1>4, <1>5, <1>6, <1>7, <1>8, <1>9 DEF Next

-----------------------------------------------------------------------------
(* NeededFilesStay *)

\* No file can be named in two ways.
OnePathPerFile == \A p, q \in Paths : FileOf[p] = FileOf[q] => p = q

\* A step that unlinks a file hits stale releases only.
LEMMA UnlinkHitsStale ==
  ASSUME OnePathPerFile, PathsUnshared, Next, NEW f \in files \ files', NEW n \in Rows,
         FileOf[releases[n].path] = f
  PROVE  n \in Stale(request.release)
<1>1. PICK p \in Paths : Unlink(p) /\ f = FileOf[p]
  BY DEF Next, Upload, Unlink, upsert_release, EditRelease, prune_release_artifacts, Redirect,
         Crash, create_release_download_token, ExpireToken
<1>2. releases[n].path \in Paths
  BY DEF Rows, PathsUnshared, ReleaseRow
<1>3. releases[n].path = p
  BY <1>1, <1>2 DEF OnePathPerFile
<1>4. p \in UnsharedPaths(request.release)
  BY <1>1 DEF Unlink, PathsUnshared
<1> QED
  BY <1>3, <1>4 DEF UnsharedPaths

\* README, release artifact retention: with one path for each file, pruning
\* deletes no file that a release outside the pruned ones references.  (The
\* run aliases shows that the condition is needed.)
THEOREM RetentionSparesNeededFiles ==
  ASSUME OnePathPerFile PROVE Spec => NeededFilesStay
<1>1. Init => PathsUnshared
  BY DEF Init, Idle, PathsUnshared, At, RequestRecord
<1>2. PathsUnshared /\ [Next]_vars => PathsUnshared'
  BY PathsStayUnshared
<1>3. PathsUnshared /\ [Next]_vars =>
        [\A f \in files \ files', n \in Rows :
           FileOf[releases[n].path] = f => n \in Stale(request.release)]_vars
  BY UnlinkHitsStale
<1> QED
  BY <1>1, <1>2, <1>3, PTL DEF Spec, NeededFilesStay

-----------------------------------------------------------------------------
(* RevokedNeverServe *)

\* A revoked token has no row, and will be drawn by nobody again.
RevokedInv ==
  /\ revoked \subseteq drawn
  /\ \A t \in Tokens : tokens[t] # NULL => t \in drawn
  /\ \A t \in revoked : t \in Tokens /\ tokens[t] = NULL
  /\ tokens \in [Tokens -> Ids \cup {NULL}]

\* No step brings a revoked token back.
LEMMA RevokedStep == PathsUnshared /\ RevokedInv /\ [Next]_vars => RevokedInv'
<1> SUFFICES ASSUME PathsUnshared, RevokedInv, [Next]_vars PROVE RevokedInv'
  OBVIOUS
<1>1. CASE prune_release_artifacts
  <2> DEFINE gone == Pruned(request.release)
  <2>1. tokens' = [t \in Tokens |-> IF tokens[t] # NULL /\ tokens[t] \in gone THEN NULL ELSE tokens[t]]
    BY <1>1 DEF prune_release_artifacts, WithoutTokensOf
  <2>2. \A m \in Ids \ gone : releases'[m] = releases[m]
    BY <1>1 DEF prune_release_artifacts
  <2>3. revoked' = revoked \cup {t \in Tokens : tokens[t] # NULL /\ releases[tokens[t]] # releases'[tokens[t]]}
        /\ drawn' = drawn
    BY <1>1 DEF prune_release_artifacts
  <2>4. \A t \in Tokens : tokens[t] # NULL => tokens[t] \in Ids
    BY DEF RevokedInv
  <2>5. \A t \in revoked' : t \in Tokens /\ tokens'[t] = NULL /\ t \in drawn
    BY <2>1, <2>2, <2>3, <2>4 DEF RevokedInv
  <2> QED
    BY <2>1, <2>3, <2>5 DEF RevokedInv
<1>2. CASE \E t \in Tokens, n \in Ids : create_release_download_token(t, n)
  BY <1>2 DEF create_release_download_token, RevokedInv
<1>3. CASE \E t \in Tokens : ExpireToken(t)
  BY <1>3 DEF ExpireToken, RevokedInv
<1>4. CASE UNCHANGED <<tokens, drawn, revoked>>
  BY <1>4 DEF RevokedInv
<1> QED
  BY <1>1, <1>2, <1>3, <1>4
  DEF Next, vars, Upload, Unlink, upsert_release, EditRelease, Redirect, Crash

\* README, release artifact retention: outstanding download tokens of a pruned
\* release are revoked.  None of them ever serves a file again.
THEOREM RevokedTokensAreDead == Spec => []RevokedNeverServe
<1>1. Init => PathsUnshared /\ RevokedInv
  BY DEF Init, Idle, PathsUnshared, At, RequestRecord, RevokedInv
<1>2. PathsUnshared /\ RevokedInv /\ [Next]_vars => PathsUnshared' /\ RevokedInv'
  BY PathsStayUnshared, RevokedStep
<1>3. RevokedInv => RevokedNeverServe
  BY DEF RevokedInv, RevokedNeverServe, Serves
<1> QED
  BY <1>1, <1>2, <1>3, PTL DEF Spec
-----------------------------------------------------------------------------
(* TypeOK *)

RowsNumbered == \A n \in Rows : 1..n \subseteq Rows

\* What is about to be unlinked belongs to releases that were deactivated.
PathsOfPruned ==
  /\ request.release \in Rows \cup {NULL}
  /\ ~At("unlink") => request.paths = {}
  /\ At("unlink") => \A p \in request.paths :
       \E m \in Stale(request.release) : releases[m].path = p /\ ~releases[m].is_active

TokensOfRows == tokens \in [Tokens -> Rows \cup {NULL}] /\ drawn \subseteq Tokens

FilesAndCounts ==
  files \subseteq Files /\ faults \in Nat /\ edits \in Nat /\ uploads \in Nat

TypeInv == PathsUnshared /\ RevokedInv /\ RowsNumbered /\ PathsOfPruned /\ TokensOfRows
           /\ FilesAndCounts

LEMMA RowsAreFinite == IsFiniteSet(Rows) /\ Cardinality(Rows) \in Nat
<1>1. IsFiniteSet(Ids)
  <2>1. MaxReleases \in Int /\ 1 \in Int
    BY RetentionAssumption
  <2>. QED
    BY <2>1, FS_Interval, Zenon DEF Ids
<1>2. Rows \in SUBSET Ids
  BY DEF Rows
<1>. QED
  BY <1>1, <1>2, FS_Subset, FS_CardinalityType

\* Rows without a gap are as many as the last of them says.
LEMMA RowsWithoutGap ==
  ASSUME RowsNumbered
  PROVE  1..Cardinality(Rows) \subseteq Rows
<1>. PICK c \in Nat : c = Cardinality(Rows)
  BY RowsAreFinite
<1>. SUFFICES ASSUME NEW x \in 1..c, x \notin Rows PROVE FALSE
  OBVIOUS
<1>1. \A n \in Rows : n \in Nat /\ n >= 1
  BY RetentionAssumption DEF Rows, Ids
<1>2. \A n \in Rows : n < x
  BY <1>1 DEF RowsNumbered
<1>. PICK y \in Nat : y = x - 1
  OBVIOUS
<1>3. Rows \in SUBSET (1..y)
  BY <1>1, <1>2
<1>4. IsFiniteSet(1..y) /\ Cardinality(1..y) = (IF 1 > y THEN 0 ELSE y - 1 + 1)
  <2>1. y \in Int /\ 1 \in Int
    OBVIOUS
  <2>. QED
    BY <2>1, FS_Interval, Zenon
<1>5. c <= Cardinality(1..y)
  BY <1>3, <1>4, FS_Subset
<1>. QED
  BY <1>4, <1>5

\* A release takes the next number.
LEMMA RegistrationTypes ==
  ASSUME TypeInv, NEW s \in Streams, NEW p \in Paths, NEW a \in BOOLEAN, upsert_release(s, p, a)
  PROVE  RowsNumbered' /\ PathsOfPruned' /\ TokensOfRows'
<1>. PICK n : n = Cardinality(Rows) + 1
  OBVIOUS
<1>1. n \in Ids /\ n \in Nat /\ Cardinality(Rows) \in Nat
  BY RowsAreFinite DEF upsert_release
<1>2. /\ releases' = [releases EXCEPT ![n] = Row(s, p, a)]
      /\ request' = [Idle EXCEPT !.pc = "prune", !.release = n]
      /\ tokens' = tokens /\ drawn' = drawn
  BY DEF upsert_release
<1>3. Row(s, p, a) # NULL
  BY SavedRow, RetentionAssumption DEF ReleaseRow
<1>4. Rows' = Rows \cup {n}
  BY <1>1, <1>2, <1>3 DEF Rows, TypeInv, PathsUnshared
<1>5. 1..n \subseteq Rows'
  <2>1. 1..Cardinality(Rows) \subseteq Rows
    BY RowsWithoutGap DEF TypeInv
  <2>. QED
    BY <2>1, <1>1, <1>4
<1>6. RowsNumbered'
  BY <1>4, <1>5 DEF TypeInv, RowsNumbered
<1>7. PathsOfPruned'
  BY <1>2, <1>4 DEF PathsOfPruned, Idle, At
<1>8. TokensOfRows'
  BY <1>2, <1>4 DEF TypeInv, TokensOfRows
<1>. QED
  BY <1>6, <1>7, <1>8

\* The paths of a pruning are those of releases it deactivated, now or before.
LEMMA PruneTypes ==
  ASSUME TypeInv, prune_release_artifacts
  PROVE  RowsNumbered' /\ PathsOfPruned' /\ TokensOfRows'
<1>. PICK n : n = request.release
  OBVIOUS
<1>1. /\ n \in Rows /\ request'.release = n /\ request'.pc = "unlink"
      /\ request'.paths = ArtifactPaths(n)
  BY DEF prune_release_artifacts, TypeInv, PathsUnshared, At, RequestRecord
<1>2. Rows' = Rows /\ Stale(n)' = Stale(n)
      /\ \A m \in Rows : releases'[m].path = releases[m].path
  BY <1>1, PruneKeepsRows, SameRowsSameStale DEF TypeInv
<1>3. ASSUME NEW p \in ArtifactPaths(n)
      PROVE  \E m \in Stale(n) : releases'[m].path = p /\ ~releases'[m].is_active
  <2>1. PICK m \in Stale(n) : releases[m].path = p
    BY <1>3 DEF ArtifactPaths, UnsharedPaths
  <2>2. m \in Pruned(n) /\ m \in Rows
    BY <1>3, <2>1, StaleAreRows DEF Pruned
  <2>3. releases[m] \in ReleaseRow
    BY <2>2 DEF Rows, TypeInv, PathsUnshared
  <2>4. releases'[m] = [releases[m] EXCEPT !.is_active = FALSE]
    BY <2>2 DEF prune_release_artifacts, Rows
  <2>. QED
    BY <1>2, <2>1, <2>2, <2>3, <2>4 DEF ReleaseRow
<1>4. \A p \in request'.paths :
        \E m \in Stale(request.release)' : releases'[m].path = p /\ ~releases'[m].is_active
  BY <1>1, <1>2, <1>3
<1>5. PathsOfPruned'
  BY <1>1, <1>2, <1>4 DEF PathsOfPruned, At
<1>6. RowsNumbered'
  BY <1>2 DEF TypeInv, RowsNumbered
<1>7. TokensOfRows'
  BY <1>2 DEF TypeInv, TokensOfRows, prune_release_artifacts, WithoutTokensOf
<1>. QED
  BY <1>5, <1>6, <1>7

\* Steps that leave the releases alone, and at most take a path away.
LEMMA SameReleasesTypes ==
  ASSUME TypeInv, releases' = releases, request'.release \in {request.release, NULL},
         \/ request' = Idle
         \/ /\ request'.pc = request.pc /\ request'.release = request.release
            /\ request'.paths \subseteq request.paths,
         tokens' \in [Tokens -> Rows \cup {NULL}], drawn' \subseteq Tokens
  PROVE  RowsNumbered' /\ PathsOfPruned' /\ TokensOfRows'
<1>1. Rows' = Rows
  BY DEF Rows
<1>2. \A n : Stale(n)' = Stale(n)
  BY <1>1 DEF Stale, InStream
<1>3. RowsNumbered' /\ TokensOfRows'
  BY <1>1 DEF TypeInv, RowsNumbered, TokensOfRows
<1>4. CASE request' = Idle
  BY <1>3, <1>4 DEF PathsOfPruned, Idle, At
<1>5. CASE request'.pc = request.pc /\ request'.release = request.release
           /\ request'.paths \subseteq request.paths
  <2>1. PathsOfPruned
    BY DEF TypeInv
  <2>2. PathsOfPruned'
    BY <1>1, <1>2, <1>5, <2>1 DEF PathsOfPruned, At
  <2>. QED
    BY <1>3, <2>2
<1>. QED
  BY <1>4, <1>5

LEMMA TypesStep == TypeInv /\ [Next]_vars => TypeInv'
<1>. SUFFICES ASSUME TypeInv, [Next]_vars PROVE TypeInv'
  OBVIOUS
<1>1. PathsUnshared' /\ RevokedInv'
  BY PathsStayUnshared, RevokedStep DEF TypeInv
<1>2. request \in RequestRecord /\ tokens \in [Tokens -> Rows \cup {NULL}] /\ drawn \subseteq Tokens
  BY DEF TypeInv, PathsUnshared, TokensOfRows
<1>3. FilesAndCounts'
  <2>1. FilesAndCounts
    BY DEF TypeInv
  <2>2. ASSUME NEW p \in Paths, Upload(FileOf[p]) \/ Unlink(p) PROVE FilesAndCounts'
    BY <2>1, <2>2 DEF FilesAndCounts, Files, Upload, Unlink
  <2>3. ASSUME NEW s \in Streams, NEW p \in Paths, NEW a \in BOOLEAN, NEW n \in Ids,
               EditRelease(n, s, p, a)
        PROVE  FilesAndCounts'
    BY <2>1, <2>3 DEF FilesAndCounts, EditRelease
  <2>4. CASE prune_release_artifacts \/ Redirect \/ Crash
    BY <2>1, <2>4 DEF FilesAndCounts, prune_release_artifacts, Redirect, Crash
  <2>5. ASSUME NEW t \in Tokens, NEW n \in Ids, create_release_download_token(t, n)
        PROVE  FilesAndCounts'
    BY <2>1, <2>5 DEF FilesAndCounts, create_release_download_token
  <2>6. CASE UNCHANGED vars
    BY <2>1, <2>6 DEF FilesAndCounts, vars
  <2>7. ASSUME NEW s \in Streams, NEW p \in Paths, NEW a \in BOOLEAN, upsert_release(s, p, a)
        PROVE  FilesAndCounts'
    BY <2>1, <2>7 DEF FilesAndCounts, upsert_release
  <2>8. ASSUME NEW t \in Tokens, ExpireToken(t) PROVE FilesAndCounts'
    BY <2>1, <2>8 DEF FilesAndCounts, ExpireToken
  <2>. QED
    BY <2>2, <2>3, <2>4, <2>5, <2>6, <2>7, <2>8 DEF Next
<1>4. RowsNumbered' /\ PathsOfPruned' /\ TokensOfRows'
  <2>1. ASSUME NEW p \in Paths, Upload(FileOf[p]) PROVE RowsNumbered' /\ PathsOfPruned' /\ TokensOfRows'
    <3>1. /\ releases' = releases /\ tokens' = tokens /\ drawn' = drawn
          /\ request'.pc = request.pc /\ request'.release = request.release
          /\ request'.paths = request.paths
      BY <2>1, <1>2 DEF Upload, RequestRecord
    <3>. QED
      BY <3>1, <1>2, SameReleasesTypes
  <2>2. ASSUME NEW p \in Paths, Unlink(p) PROVE RowsNumbered' /\ PathsOfPruned' /\ TokensOfRows'
    <3>1. /\ releases' = releases /\ tokens' = tokens /\ drawn' = drawn
          /\ request'.pc = request.pc /\ request'.release = request.release
          /\ request'.paths \subseteq request.paths
      BY <2>2, <1>2 DEF Unlink, RequestRecord
    <3>. QED
      BY <3>1, <1>2, SameReleasesTypes
  <2>3. ASSUME NEW s \in Streams, NEW p \in Paths, NEW a \in BOOLEAN, upsert_release(s, p, a)
        PROVE  RowsNumbered' /\ PathsOfPruned' /\ TokensOfRows'
    BY <2>3, RegistrationTypes
  <2>4. ASSUME NEW s \in Streams, NEW p \in Paths, NEW a \in BOOLEAN, NEW n \in Ids,
               EditRelease(n, s, p, a)
        PROVE  RowsNumbered' /\ PathsOfPruned' /\ TokensOfRows'
    <3>1. /\ releases' = [releases EXCEPT ![n] = Row(s, p, a)] /\ n \in Rows
          /\ request' = request /\ At("idle") /\ tokens' = tokens /\ drawn' = drawn
      BY <2>4 DEF EditRelease
    <3>2. Row(s, p, a) # NULL
      BY SavedRow, RetentionAssumption DEF ReleaseRow
    <3>3. Rows' = Rows
      BY <3>1, <3>2 DEF Rows, TypeInv, PathsUnshared
    <3>4. RowsNumbered' /\ TokensOfRows'
      BY <3>1, <3>3 DEF TypeInv, RowsNumbered, TokensOfRows
    <3>5. PathsOfPruned'
      BY <3>1, <3>3 DEF TypeInv, PathsOfPruned, At
    <3>. QED
      BY <3>4, <3>5
  <2>5. CASE prune_release_artifacts
    BY <2>5, PruneTypes
  <2>6. CASE Redirect \/ Crash
    <3>1. releases' = releases /\ tokens' = tokens /\ drawn' = drawn /\ request' = Idle
          /\ request'.release \in {request.release, NULL}
      BY <2>6 DEF Redirect, Crash, Idle
    <3>. QED
      BY <3>1, <1>2, SameReleasesTypes
  <2>7. ASSUME NEW t \in Tokens, NEW n \in Ids, create_release_download_token(t, n)
        PROVE  RowsNumbered' /\ PathsOfPruned' /\ TokensOfRows'
    <3>1. releases' = releases /\ request' = request
          /\ tokens' \in [Tokens -> Rows \cup {NULL}] /\ drawn' \subseteq Tokens
      BY <2>7, <1>2 DEF create_release_download_token
    <3>. QED
      BY <3>1, SameReleasesTypes
  <2>8. ASSUME NEW t \in Tokens, ExpireToken(t) PROVE RowsNumbered' /\ PathsOfPruned' /\ TokensOfRows'
    <3>1. releases' = releases /\ request' = request
          /\ tokens' \in [Tokens -> Rows \cup {NULL}] /\ drawn' \subseteq Tokens
      BY <2>8, <1>2 DEF ExpireToken
    <3>. QED
      BY <3>1, SameReleasesTypes
  <2>9. CASE UNCHANGED vars
    BY <2>9, <1>2, SameReleasesTypes DEF vars
  <2>. QED
    BY <2>1, <2>2, <2>3, <2>4, <2>5, <2>6, <2>7, <2>8, <2>9 DEF Next
<1>. QED
  BY <1>1, <1>3, <1>4 DEF TypeInv

LEMMA TypesAtStart == Init => TypeInv
<1>. SUFFICES ASSUME Init PROVE TypeInv
  OBVIOUS
<1>1. PathsUnshared /\ RevokedInv
  BY DEF Init, Idle, PathsUnshared, At, RequestRecord, RevokedInv
<1>2. Rows = {}
  BY DEF Init, Rows
<1>3. RowsNumbered /\ PathsOfPruned /\ TokensOfRows /\ FilesAndCounts
  BY <1>2 DEF Init, Idle, RowsNumbered, PathsOfPruned, TokensOfRows, FilesAndCounts, At
<1>. QED
  BY <1>1, <1>3 DEF TypeInv

\* Releases are numbered without gaps whatever is registered, edited and cut
\* short, and what is about to be unlinked is the file of a pruned release.
THEOREM TypesCorrect == Spec => []TypeOK
<1>1. TypeInv => TypeOK
  <2>. SUFFICES ASSUME TypeInv PROVE TypeOK
    OBVIOUS
  <2>1. /\ PathsUnshared /\ RevokedInv /\ RowsNumbered /\ PathsOfPruned /\ TokensOfRows
        /\ FilesAndCounts
    BY DEF TypeInv
  <2>2. request \in RequestRecord /\ request.release \in Rows \cup {NULL}
    BY <2>1 DEF PathsUnshared, PathsOfPruned
  <2>3. request \in [pc : {"idle", "prune", "unlink"}, release : Rows \cup {NULL},
                     paths : SUBSET Paths, left : SUBSET Files]
    BY <2>2 DEF RequestRecord
  <2>4. ~At("idle") => request.release \in Rows
    BY <2>1, <2>2 DEF PathsUnshared, RequestRecord, At
  <2>5. \A p \in request.paths :
          \E m \in Stale(request.release) : releases[m].path = p /\ ~releases[m].is_active
    BY <2>1 DEF PathsOfPruned
  <2>. QED
    BY <2>1, <2>3, <2>4, <2>5
    DEF TypeOK, PathsUnshared, RevokedInv, RowsNumbered, TokensOfRows, FilesAndCounts
<1>. QED
  BY <1>1, TypesAtStart, TypesStep, PTL DEF Spec
-----------------------------------------------------------------------------
(* NewestAreKept and ActiveWithinCount *)

\* Only a pruning deactivates a release while one is due.
LEMMA OnlyPruneDeactivates ==
  ASSUME Next, At("prune"), releases' # releases
  PROVE  prune_release_artifacts
BY DEF Next, At, Upload, Unlink, upsert_release, EditRelease, Redirect, Crash,
       create_release_download_token, ExpireToken

\* Releases of one stream have the same stream.
LEMMA OneStream ==
  ASSUME NEW n \in Rows, NEW m \in InStream(n)
  PROVE  m \in Rows /\ InStream(m) = InStream(n)
BY DEF InStream

LEMMA NewestStep ==
  ASSUME PathsUnshared, Next, NEW m \in Rows,
         At("prune"), releases[m].is_active, ~releases'[m].is_active
  PROVE  Cardinality({k \in InStream(m) : k > m}) >= KeepCount
<1>. PICK n : n = request.release
  OBVIOUS
<1>1. prune_release_artifacts
  BY OnlyPruneDeactivates
<1>2. n \in Rows
  BY DEF PathsUnshared
<1>3. m \in Stale(n)
  BY <1>1 DEF prune_release_artifacts, Pruned, Rows
<1>4. InStream(m) = InStream(n) /\ Cardinality({k \in InStream(n) : k > m}) >= KeepCount
  BY <1>2, <1>3, OneStream DEF Stale
<1>. QED
  BY <1>4

\* README, release artifact retention: the newest releases of a stream are
\* kept.  A pruning deactivates a release only if KeepCount newer ones exist.
THEOREM PruningKeepsTheNewest == Spec => NewestAreKept
<1>1. TypeInv /\ [Next]_vars =>
        [\A m \in Rows : At("prune") /\ releases[m].is_active /\ ~releases'[m].is_active
           => Cardinality({k \in InStream(m) : k > m}) >= KeepCount]_vars
  BY NewestStep DEF TypeInv
<1>. QED
  BY <1>1, TypesAtStart, TypesStep, PTL DEF Spec, NewestAreKept

\* Of a finite set of numbers, those with fewer than count numbers above them
\* are at most count: each has another number of them above it.
LEMMA AtMostCount ==
  ASSUME NEW S, IsFiniteSet(S), S \subseteq Nat, NEW count \in Nat
  PROVE  Cardinality({m \in S : Cardinality({k \in S : k > m}) < count}) <= count
<1>. PICK A : A = {m \in S : Cardinality({k \in S : k > m}) < count}
  OBVIOUS
<1>. PICK above : above = [m \in S |-> Cardinality({k \in S : k > m})]
  OBVIOUS
<1>1. ASSUME NEW m \in S
      PROVE  IsFiniteSet({k \in S : k > m}) /\ above[m] \in Nat
             /\ above[m] = Cardinality({k \in S : k > m})
  <2>1. {k \in S : k > m} \in SUBSET S
    OBVIOUS
  <2>. QED
    BY <2>1, FS_Subset, FS_CardinalityType
<1>2. ASSUME NEW m \in S, NEW l \in S, m < l
      PROVE  above[m] # above[l]
  <2>0. \A k \in S : k \in Nat /\ l \in Nat /\ m \in Nat
    OBVIOUS
  <2>1. {k \in S : k > l} \in SUBSET {k \in S : k > m}
    <3>1. \A k \in S : k > l => k > m
      BY <1>2, <2>0
    <3>. QED
      BY <3>1
  <2>2. {k \in S : k > l} # {k \in S : k > m}
    BY <1>2
  <2>3. Cardinality({k \in S : k > l}) # Cardinality({k \in S : k > m})
    BY <1>1, <2>1, <2>2, FS_Subset
  <2>. QED
    BY <1>1, <2>3
<1>3. \A m, l \in S : m # l => above[m] # above[l]
  <2>1. \A m, l \in S : m # l => m < l \/ l < m
    OBVIOUS
  <2>. QED
    BY <1>2, <2>1
<1>. PICK last \in Int : last = count - 1
  OBVIOUS
<1>. PICK rank : rank = [m \in A |-> above[m]]
  OBVIOUS
<1>4. rank \in [A -> 0..last]
  <2>1. ASSUME NEW m \in A PROVE m \in S /\ above[m] \in 0..last
    <3>1. m \in S /\ Cardinality({k \in S : k > m}) < count
      OBVIOUS
    <3>. QED
      BY <1>1, <3>1
  <2>. QED
    BY <2>1
<1>5. rank \in Injection(A, 0..last)
  BY <1>3, <1>4 DEF Injection, IsInjective
<1>6. IsFiniteSet(0..last) /\ Cardinality(0..last) = (IF 0 > last THEN 0 ELSE last - 0 + 1)
  <2>1. 0 \in Int /\ last \in Int
    OBVIOUS
  <2>. QED
    BY <2>1, FS_Interval, Zenon
<1>7. Cardinality(A) <= Cardinality(0..last)
  BY <1>5, <1>6, FS_Injection
<1>8. Cardinality(A) <= count
  <2>1. Cardinality(0..last) = count
    BY <1>6
  <2>. QED
    BY <1>7, <2>1
<1>. QED
  BY <1>8

LEMMA CountStep ==
  ASSUME TypeInv, Next, At("prune"), request'.pc = "unlink", KeepCount > 0
  PROVE  Cardinality({m \in InStream(request.release) : releases'[m].is_active}) <= KeepCount
<1>. PICK n : n = request.release
  OBVIOUS
<1>. PICK S : S = InStream(n)
  OBVIOUS
<1>. PICK kept : kept = {m \in S : Cardinality({k \in S : k > m}) < KeepCount}
  OBVIOUS
<1>1. prune_release_artifacts
  <2>1. request' # request
    BY DEF At
  <2>. QED
    BY <2>1 DEF Next, At, Upload, Unlink, upsert_release, EditRelease, Redirect, Crash, Idle,
                create_release_download_token, ExpireToken, TypeInv, PathsUnshared, RequestRecord
<1>2. S \subseteq Rows /\ S \subseteq Nat /\ IsFiniteSet(S)
  <2>1. S \in SUBSET Rows
    BY DEF InStream
  <2>2. IsFiniteSet(S)
    BY <2>1, RowsAreFinite, FS_Subset
  <2>. QED
    BY <2>1, <2>2, RetentionAssumption DEF Rows, Ids
<1>3. ASSUME NEW m \in S, releases'[m].is_active PROVE m \in kept
  <2>1. m \in Ids /\ releases[m] \in ReleaseRow
    BY <1>2 DEF Rows, TypeInv, PathsUnshared
  <2>2. m \notin Pruned(n)
    <3>1. SUFFICES ASSUME m \in Pruned(n) PROVE FALSE
      OBVIOUS
    <3>2. releases'[m] = [releases[m] EXCEPT !.is_active = FALSE]
      BY <1>1, <2>1, <3>1 DEF prune_release_artifacts
    <3>. QED
      BY <1>3, <2>1, <3>2 DEF ReleaseRow
  <2>3. releases'[m] = releases[m]
    BY <1>1, <2>1, <2>2 DEF prune_release_artifacts
  <2>4. m \notin Stale(n)
    BY <1>3, <2>2, <2>3 DEF Pruned
  <2>5. ~(Cardinality({k \in S : k > m}) >= KeepCount)
    BY <1>3, <2>4 DEF Stale
  <2>6. Cardinality({k \in S : k > m}) \in Nat
    <3>1. {k \in S : k > m} \in SUBSET S
      OBVIOUS
    <3>. QED
      BY <1>2, <3>1, FS_Subset, FS_CardinalityType
  <2>. QED
    BY <2>5, <2>6, RetentionAssumption
<1>4. Cardinality(kept) <= KeepCount
  BY <1>2, AtMostCount, RetentionAssumption
<1>5. IsFiniteSet(kept) /\ Cardinality(kept) \in Nat
  <2>1. kept \in SUBSET S
    OBVIOUS
  <2>. QED
    BY <1>2, <2>1, FS_Subset, FS_CardinalityType
<1>. PICK active : active = {m \in S : releases'[m].is_active}
  OBVIOUS
<1>6. active \in SUBSET kept
  BY <1>3
<1>7. Cardinality(active) <= Cardinality(kept) /\ Cardinality(active) \in Nat
  BY <1>5, <1>6, FS_Subset, FS_CardinalityType
<1>. QED
  BY <1>4, <1>5, <1>7, RetentionAssumption

\* A pruning leaves at most KeepCount releases of its stream active, however
\* many were published again, or left by a crash, before it.
THEOREM PruningBoundsTheActive == Spec => ActiveWithinCount
<1>1. TypeInv /\ [Next]_vars =>
        [At("prune") /\ request'.pc = "unlink" /\ KeepCount > 0
         => Cardinality({m \in InStream(request.release) : releases'[m].is_active}) <= KeepCount]_vars
  BY CountStep
<1>. QED
  BY <1>1, TypesAtStart, TypesStep, PTL DEF Spec, ActiveWithinCount

-----------------------------------------------------------------------------
(* PrunedFilesGo *)

\* While a pruning unlinks, an unshared path whose file is there, and was not
\* passed over or copied anew, is still to come.
PathsToCome ==
  At("unlink") =>
    \A p \in UnsharedPaths(request.release) :
      FileOf[p] \in files \ request.left => p \in request.paths

LEMMA PathsToComeStep == PathsUnshared /\ PathsToCome /\ [Next]_vars => PathsToCome'
<1>. SUFFICES ASSUME PathsUnshared, PathsToCome, [Next]_vars PROVE PathsToCome'
  OBVIOUS
<1>. PICK n : n = request.release
  OBVIOUS
<1>0. request \in RequestRecord
  BY DEF PathsUnshared
<1>1. ASSUME releases' = releases PROVE \A m : UnsharedPaths(m)' = UnsharedPaths(m)
  BY <1>1 DEF UnsharedPaths, Stale, InStream, Rows
<1>2. CASE request'.pc # "unlink"
  BY <1>2 DEF PathsToCome, At
<1>3. ASSUME NEW p \in Paths, Upload(FileOf[p]) PROVE PathsToCome'
  <2>1. CASE At("idle")
    BY <1>0, <1>3, <2>1 DEF Upload, PathsToCome, At, RequestRecord
  <2>2. CASE ~At("idle")
    <3>1. /\ files' = files \cup {FileOf[p]} /\ releases' = releases
          /\ request' = [request EXCEPT !.left = @ \cup {FileOf[p]}]
      BY <1>3, <2>2 DEF Upload
    <3>2. /\ request'.left = request.left \cup {FileOf[p]} /\ request'.pc = request.pc
          /\ request'.release = n /\ request'.paths = request.paths
      BY <1>0, <3>1 DEF RequestRecord
    <3>. QED
      BY <1>1, <3>1, <3>2 DEF PathsToCome, At
  <2>. QED
    BY <2>1, <2>2
<1>4. ASSUME NEW p \in Paths, Unlink(p) PROVE PathsToCome'
  <2>1. At("unlink") /\ releases' = releases
    BY <1>4 DEF Unlink
  <2>2. CASE /\ files' = files \ {FileOf[p]}
             /\ request' = [request EXCEPT !.paths = @ \ {p}]
    <3>1. /\ request'.left = request.left /\ request'.pc = request.pc
          /\ request'.release = n /\ request'.paths = request.paths \ {p}
      BY <1>0, <2>2 DEF RequestRecord
    <3>. QED
      BY <1>1, <2>1, <2>2, <3>1 DEF PathsToCome, At
  <2>3. CASE /\ files' = files
             /\ request' = [request EXCEPT !.paths = @ \ {p}, !.left = @ \cup {FileOf[p]}]
    <3>1. /\ request'.left = request.left \cup {FileOf[p]} /\ request'.pc = request.pc
          /\ request'.release = n /\ request'.paths = request.paths \ {p}
      BY <1>0, <2>3 DEF RequestRecord
    <3>. QED
      BY <1>1, <2>1, <2>3, <3>1 DEF PathsToCome, At
  <2>. QED
    BY <1>4, <2>2, <2>3 DEF Unlink
<1>5. ASSUME NEW s \in Streams, NEW p \in Paths, NEW a \in BOOLEAN, upsert_release(s, p, a)
      PROVE  PathsToCome'
  BY <1>2, <1>5 DEF upsert_release, Idle
<1>6. ASSUME NEW m \in Ids, NEW s \in Streams, NEW p \in Paths, NEW a \in BOOLEAN,
             EditRelease(m, s, p, a)
      PROVE  PathsToCome'
  BY <1>2, <1>6 DEF EditRelease, At
<1>7. CASE prune_release_artifacts
  <2>1. /\ n \in Rows /\ request'.release = n /\ request'.paths = ArtifactPaths(n)
        /\ files' = files
    BY <1>0, <1>7 DEF prune_release_artifacts, PathsUnshared, RequestRecord
  <2>2. UnsharedPaths(n)' = UnsharedPaths(n)
    BY <1>7, <2>1, PruneKeepsRows, SameRowsSameStale
  <2>. QED
    BY <2>1, <2>2 DEF PathsToCome, ArtifactPaths
<1>8. CASE Redirect \/ Crash
  BY <1>2, <1>8 DEF Redirect, Crash, Idle
<1>9. CASE \/ \E t \in Tokens, m \in Ids : create_release_download_token(t, m)
           \/ \E t \in Tokens : ExpireToken(t)
           \/ UNCHANGED vars
  <2>1. releases' = releases /\ request' = request /\ files' = files
    BY <1>9 DEF create_release_download_token, ExpireToken, vars
  <2>. QED
    BY <1>1, <2>1 DEF PathsToCome, At
<1>. QED
  BY <1>3, <1>4, <1>5, <1>6, <1>7, <1>8, <1>9 DEF Next

LEMMA NothingLeftOver ==
  ASSUME TypeInv, PathsToCome, Next, At("unlink"), At("idle")', faults' = faults,
         NEW m \in Stale(request.release)
  PROVE  \/ FileOf[releases[m].path] \notin files' \ request.left
         \/ \E n \in Rows \ Stale(request.release) : releases[n].path = releases[m].path
<1>0. request \in RequestRecord /\ faults + 1 # faults
  BY DEF TypeInv, PathsUnshared, FilesAndCounts
<1>1. Redirect
  BY <1>0 DEF Next, At, Upload, Unlink, upsert_release, EditRelease, prune_release_artifacts,
              Crash, create_release_download_token, ExpireToken, RequestRecord
<1>2. request.paths = {} /\ files' = files
  BY <1>1 DEF Redirect
<1>3. CASE releases[m].path \in UnsharedPaths(request.release)
  BY <1>2, <1>3 DEF PathsToCome
<1>4. CASE releases[m].path \notin UnsharedPaths(request.release)
  BY <1>4 DEF UnsharedPaths
<1>. QED
  BY <1>3, <1>4

\* A pruning that ends in order leaves no file behind that only pruned releases
\* of its stream need, except those that could not be deleted or came anew.
THEOREM PruningRemovesTheFiles == Spec => PrunedFilesGo
<1>1. Init => PathsToCome
  BY DEF Init, Idle, PathsToCome, At
<1>2. TypeInv /\ PathsToCome /\ [Next]_vars =>
        [/\ At("unlink") /\ At("idle")' /\ faults' = faults
         => \A m \in Stale(request.release) :
              \/ FileOf[releases[m].path] \notin files' \ request.left
              \/ \E n \in Rows \ Stale(request.release) : releases[n].path = releases[m].path]_vars
  BY NothingLeftOver
<1>3. TypeInv /\ PathsToCome /\ [Next]_vars => PathsToCome'
  BY PathsToComeStep DEF TypeInv
<1>. QED
  BY <1>1, <1>2, <1>3, TypesAtStart, TypesStep, PTL DEF Spec, PrunedFilesGo
=============================================================================
