-------------------------- MODULE MCReleaseRetention --------------------------
(***************************************************************************)
(* Instances of ReleaseRetention for TLC: one release is kept of each of   *)
(* two streams, which may share files.                                     *)
(***************************************************************************)
EXTENDS ReleaseRetention, TLC

OwnFiles == [p \in Paths |-> p]

\* The artifact directory is /data: a relative path and an absolute one.
AliasedFiles == [p \in Paths |-> "duo.zip"]
=============================================================================
