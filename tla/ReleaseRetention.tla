-------------------------- MODULE ReleaseRetention --------------------------
(***************************************************************************)
(* Releases, their artifact files and their download tokens.  Operators    *)
(* copy a file and register a release; the server then keeps the newest    *)
(* releases of the stream (release type, product, channel, platform): the  *)
(* others are deactivated and their tokens deleted in one transaction, and *)
(* their files unlinked after it.                                          *)
(*                                                                         *)
(* The server serves one request at a time, and may die between the insert *)
(* of a release, the transaction that prunes and any of the unlinks.       *)
(* Releases are numbered as they are registered, which is the order of     *)
(* created_at and rowid.                                                   *)
(***************************************************************************)
EXTENDS Integers, FiniteSets

CONSTANTS
  NULL,         \* SQL NULL
  Streams,      \* release type, product, channel and platform
  Paths,        \* values of artifact_path
  FileOf,       \* the file _artifact_path resolves a path to
  Tokens,       \* download tokens
  KeepCount,    \* AUTOEDGE_RELEASE_ARTIFACT_RETENTION_COUNT
  MaxReleases,  \* bound: releases registered
  MaxEdits,     \* bound: edits of releases
  MaxUploads,   \* bound: files copied to the artifact directory
  MaxFaults     \* bound: crashes, and files that cannot be deleted

ASSUME RetentionAssumption ==
  /\ NULL \notin Nat /\ NULL \notin Streams
  /\ NULL \notin [stream : Streams, path : Paths, is_active : BOOLEAN]
  /\ FileOf \in [Paths -> {FileOf[p] : p \in Paths}]
  /\ KeepCount \in Nat /\ MaxReleases \in Nat /\ MaxEdits \in Nat
  /\ MaxUploads \in Nat /\ MaxFaults \in Nat

VARIABLES
  releases,  \* rows of trader_releases, NULL where there is none
  files,     \* files in the artifact directory
  tokens,    \* rows of release_download_tokens, NULL where there is none
  request,   \* the registration being served
  drawn,     \* history: tokens that were ever created
  revoked,   \* history: tokens of releases when they were pruned
  faults, edits, uploads

vars == <<releases, files, tokens, request, drawn, revoked, faults, edits, uploads>>

Ids == 1..MaxReleases

\* left: files that could not be deleted, or were copied anew meanwhile.
Idle == [pc |-> "idle", release |-> NULL, paths |-> {}, left |-> {}]

At(pc) == request.pc = pc

Rows == {n \in Ids : releases[n] # NULL}

Row(s, p, is_active) == [stream |-> s, path |-> p, is_active |-> is_active]

-----------------------------------------------------------------------------
(* What retention prunes *)

InStream(n) == {m \in Rows : releases[m].stream = releases[n].stream}

\* Error to be caught: the oldest are kept.
StaleNewest(n) ==
  {m \in InStream(n) :
     KeepCount > 0 /\ Cardinality({k \in InStream(n) : k < m}) >= KeepCount}

\* matching_rows[keep_count:], and none when keep_count is 0.
Stale(n) ==
  {m \in InStream(n) :
     KeepCount > 0 /\ Cardinality({k \in InStream(n) : k > m}) >= KeepCount}

\* Error to be caught: only rows of the stream share a file.
UnsharedInStream(n) ==
  {releases[m].path : m \in Stale(n)} \ {releases[m].path : m \in InStream(n) \ Stale(n)}

\* Paths are compared as they were typed.
UnsharedPaths(n) ==
  {releases[m].path : m \in Stale(n)} \ {releases[m].path : m \in Rows \ Stale(n)}

\* Error to be caught: only releases that are deactivated now have files.
ArtifactPathsOfActive(n) ==
  {p \in UnsharedPaths(n) :
     FileOf[p] \in files /\ \E m \in Stale(n) : releases[m].path = p /\ releases[m].is_active}

\* Files of releases pruned before are tried again.
ArtifactPaths(n) == {p \in UnsharedPaths(n) : FileOf[p] \in files}

\* Error to be caught: a release stays active while its file goes.
PrunedNoFile(n) == {m \in Stale(n) : releases[m].path \notin ArtifactPaths(n)}

\* Error to be caught: only releases that lose their file are pruned.
PrunedWithFile(n) == {m \in Stale(n) : releases[m].path \in ArtifactPaths(n)}

\* pruned_release_ids
Pruned(n) == {m \in Stale(n) : releases[m].is_active \/ releases[m].path \in ArtifactPaths(n)}

-----------------------------------------------------------------------------
(* Registering and editing releases: admin_releases *)

\* An operator copies a file to the artifact directory.
Upload(f) ==
  /\ uploads < MaxUploads
  /\ uploads' = uploads + 1
  /\ files' = files \cup {f}
  /\ request' = [request EXCEPT !.left = IF At("idle") THEN {} ELSE @ \cup {f}]
  /\ UNCHANGED <<releases, tokens, drawn, revoked, faults, edits>>

\* upsert_release without a release id.  The file need not be there.
upsert_release(s, p, is_active) ==
  LET n == Cardinality(Rows) + 1
  IN  /\ At("idle") /\ n \in Ids
      /\ releases' = [releases EXCEPT ![n] = Row(s, p, is_active)]
      /\ request' = [Idle EXCEPT !.pc = "prune", !.release = n]
      /\ UNCHANGED <<files, tokens, drawn, revoked, faults, edits, uploads>>

\* upsert_release with a release id: no pruning follows.
EditRelease(n, s, p, is_active) ==
  /\ At("idle") /\ n \in Rows /\ edits < MaxEdits
  /\ releases[n] # Row(s, p, is_active)
  /\ releases' = [releases EXCEPT ![n] = Row(s, p, is_active)]
  /\ edits' = edits + 1
  /\ UNCHANGED <<files, tokens, request, drawn, revoked, faults, uploads>>

\* Error to be caught: tokens of a release that is deactivated are kept.
WithoutTokensOfNone(ids) == tokens

WithoutTokensOf(ids) ==
  [t \in Tokens |-> IF tokens[t] # NULL /\ tokens[t] \in ids THEN NULL ELSE tokens[t]]

\* prune_release_artifacts: its transaction.
prune_release_artifacts ==
  LET n == request.release
  IN  /\ At("prune")
      /\ releases' = [m \in Ids |-> IF m \in Pruned(n) THEN [releases[m] EXCEPT !.is_active = FALSE]
                                    ELSE releases[m]]
      /\ tokens' = WithoutTokensOf(Pruned(n))
      /\ request' = [request EXCEPT !.pc = "unlink", !.paths = ArtifactPaths(n)]
      /\ revoked' = revoked \cup
           {t \in Tokens : tokens[t] # NULL /\ releases[tokens[t]] # releases'[tokens[t]]}
      /\ UNCHANGED <<files, drawn, faults, edits, uploads>>

\* The files go one by one; one that cannot be deleted is passed over.
Unlink(p) ==
  /\ At("unlink") /\ p \in request.paths
  /\ \/ /\ files' = files \ {FileOf[p]}
        /\ request' = [request EXCEPT !.paths = @ \ {p}]
        /\ UNCHANGED faults
     \/ /\ faults < MaxFaults
        /\ faults' = faults + 1
        /\ request' = [request EXCEPT !.paths = @ \ {p}, !.left = @ \cup {FileOf[p]}]
        /\ UNCHANGED files
  /\ UNCHANGED <<releases, tokens, drawn, revoked, edits, uploads>>

Redirect ==
  /\ At("unlink") /\ request.paths = {}
  /\ request' = Idle
  /\ UNCHANGED <<releases, files, tokens, drawn, revoked, faults, edits, uploads>>

\* The process dies, or a session raises and is rolled back.
Crash ==
  /\ ~At("idle") /\ faults < MaxFaults
  /\ faults' = faults + 1
  /\ request' = Idle
  /\ UNCHANGED <<releases, files, tokens, drawn, revoked, edits, uploads>>

-----------------------------------------------------------------------------
(* Downloads *)

\* For a customer that is licensed for the release and in its audience.
create_release_download_token(t, n) ==
  /\ At("idle") /\ t \notin drawn
  /\ n \in Rows /\ releases[n].is_active
  /\ tokens' = [tokens EXCEPT ![t] = n]
  /\ drawn' = drawn \cup {t}
  /\ UNCHANGED <<releases, files, request, revoked, faults, edits, uploads>>

\* expires_at passes: from then on the token is as good as none.
ExpireToken(t) ==
  /\ tokens[t] # NULL
  /\ tokens' = [tokens EXCEPT ![t] = NULL]
  /\ UNCHANGED <<releases, files, request, drawn, revoked, faults, edits, uploads>>

\* resolve_release_download answers with the file; all it writes is when the
\* token was used.
Serves(t) ==
  /\ tokens[t] # NULL
  /\ releases[tokens[t]].is_active
  /\ FileOf[releases[tokens[t]].path] \in files

-----------------------------------------------------------------------------
Init ==
  /\ releases = [n \in Ids |-> NULL]
  /\ files = {}
  /\ tokens = [t \in Tokens |-> NULL]
  /\ request = Idle
  /\ drawn = {} /\ revoked = {}
  /\ faults = 0 /\ edits = 0 /\ uploads = 0

Next ==
  \/ \E p \in Paths : Upload(FileOf[p]) \/ Unlink(p)
  \/ \E s \in Streams, p \in Paths, is_active \in BOOLEAN :
       \/ upsert_release(s, p, is_active)
       \/ \E n \in Ids : EditRelease(n, s, p, is_active)
  \/ prune_release_artifacts \/ Redirect \/ Crash
  \/ \E t \in Tokens, n \in Ids : create_release_download_token(t, n)
  \/ \E t \in Tokens : ExpireToken(t)

Spec == Init /\ [][Next]_vars

-----------------------------------------------------------------------------
(* Types *)

Files == {FileOf[p] : p \in Paths}

ReleaseRow == [stream : Streams, path : Paths, is_active : BOOLEAN]

\* Rows are numbered without gaps; the files that are about to go belong to
\* pruned releases of the stream that was registered in.
TypeOK ==
  /\ releases \in [Ids -> ReleaseRow \cup {NULL}]
  /\ \A n \in Rows : 1..n \subseteq Rows
  /\ files \subseteq Files
  /\ tokens \in [Tokens -> Rows \cup {NULL}]
  /\ request \in [pc : {"idle", "prune", "unlink"}, release : Rows \cup {NULL},
                  paths : SUBSET Paths, left : SUBSET Files]
  /\ ~At("idle") => request.release \in Rows
  /\ \A p \in request.paths :
       \E m \in Stale(request.release) : releases[m].path = p /\ ~releases[m].is_active
  /\ drawn \subseteq Tokens /\ revoked \subseteq drawn
  /\ faults \in Nat /\ edits \in Nat /\ uploads \in Nat

-----------------------------------------------------------------------------
(* What retention promises *)

\* README, release artifact retention: a file is deleted only when no other
\* release references it.  No file goes that a release outside the pruned
\* ones needs, in whatever stream, active or not.
NeededFilesStay ==
  [][\A f \in files \ files', n \in Rows :
       FileOf[releases[n].path] = f => n \in Stale(request.release)]_vars

\* A pruning that is not cut short leaves no file that only pruned releases of
\* the stream need, those of releases included whose pruning died half-way or
\* whose file could not be deleted then.
PrunedFilesGo ==
  [][/\ At("unlink") /\ At("idle")' /\ faults' = faults
     => \A m \in Stale(request.release) :
          \/ FileOf[releases[m].path] \notin files' \ request.left
          \/ \E n \in Rows \ Stale(request.release) : releases[n].path = releases[m].path]_vars

\* A token whose release was pruned serves nothing, though an administrator
\* copies the file and publishes the release again.
RevokedNeverServe == \A t \in revoked : ~Serves(t)

\* A release that is deactivated by pruning has KeepCount newer ones in its
\* stream: drafts and releases that were edited into the stream count as well,
\* those of other streams do not.
NewestAreKept ==
  [][\A m \in Rows :
       At("prune") /\ releases[m].is_active /\ ~releases'[m].is_active
       => Cardinality({k \in InStream(m) : k > m}) >= KeepCount]_vars

\* After a pruning no more than KeepCount releases of the stream are active,
\* whatever was published again, or left by a crash, in between.
ActiveWithinCount ==
  [][At("prune") /\ request'.pc = "unlink" /\ KeepCount > 0
     => Cardinality({m \in InStream(request.release) : releases'[m].is_active}) <= KeepCount]_vars
=============================================================================
