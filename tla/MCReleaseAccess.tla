-------------------------- MODULE MCReleaseAccess --------------------------
(***************************************************************************)
(* Instances of ReleaseAccess, each behaviour one story:                   *)
(*   sources  three sources of one product; webhooks and administrators    *)
(*            write them while time passes, releases stay as they are      *)
(*   targets  one license; two releases of a product, one of TraderPro     *)
(*            Desktop and one saved as a desktop release under another key *)
(*            targeted in every way, tags, seat and product edited         *)
(*   tokens   one license; a token is drawn and used while rights, targets *)
(*            and time change                                              *)
(***************************************************************************)
EXTENDS ReleaseAccess

VARIABLE story

MCProducts == {"duo"}
MCSources == {"trial", "plan", "manual"}
MCProductOf == [s \in MCSources |-> "duo"]

Until(expires) ==
  [status |-> "active", starts |-> 0, expires |-> expires, revoked |-> FALSE, updated |-> 0]

\* The plan of the start; the other rows are written in the story.
NoRows == [s \in MCSources |-> NULL]
OneRow == [NoRows EXCEPT !["plan"] = Until(NULL)]
MCInitRows == {NoRows, OneRow, [NoRows EXCEPT !["plan"] = Until(1)]}

MCReleases == 1..4
MCReleasedFor == <<"duo", "duo", NULL, NULL>>
MCPackage == <<"duo", "duo", "trader-desktop", "other">>
MCType == <<"strategy_package", "strategy_package", "trader_desktop", "trader_desktop">>
MCBucket == <<0, 50, 99, 0>>
MCTags == {"internal", "tester", "other"}

To(channel, mode, required, listed, percent) ==
  [is_active |-> TRUE, is_required |-> FALSE, channel |-> channel, audience_mode |-> mode,
   required_tags |-> required, listed |-> listed, rollout_percent |-> percent]

Public == To("stable", "all", {}, FALSE, 100)
Withdrawn == [Public EXCEPT !.is_active = FALSE]
Mandatory == [Public EXCEPT !.is_required = TRUE]

Targeted ==
  {To(c, "all", q, FALSE, 100) : c \in Channels, q \in {{}, {"other"}}}
    \cup {To(c, "allowlist", q, l, 100) : c \in Channels, q \in {{}, {"other"}}, l \in BOOLEAN}
    \cup {To(c, "roles", {"other"}, FALSE, 100) : c \in Channels}
    \cup {To(c, "percent", q, FALSE, n) : c \in Channels, q \in {{}, {"other"}}, n \in {0, 50, 51, 100}}
    \cup {To("stable", "disabled", {}, TRUE, 100), Withdrawn, Mandatory}

MCInitReleases ==
  {<<Public, t, Public, Public>> : t \in Targeted} \cup
  {<<Withdrawn, t, t, t>> : t \in Targeted}

MCTargets == {Public, Withdrawn, To("beta", "roles", {"other"}, FALSE, 100)}

Sold == [is_active |-> TRUE, trader_enabled |-> TRUE, private |-> FALSE]

StoryInit ==
  /\ Init
  /\ \/ /\ story = "sources" /\ tags = {} /\ products["duo"] = Sold
        /\ releases = <<Public, Public, Public, Public>>
     \/ story = "targets" /\ entitlements = OneRow
     \/ /\ story = "tokens" /\ entitlements = OneRow /\ products["duo"] = Sold
        /\ releases[1] = Public /\ releases[2] \in Targets /\ tags \subseteq {"other"}

Fits ==
  CASE story = "sources" -> now' <= 1 /\ UNCHANGED <<products, releases, tags, seat, request>>
    [] story = "targets" -> UNCHANGED <<now, entitlements, request>>
    [] story = "tokens"  -> /\ tags' \subseteq {"other"} /\ request'.release \notin {1, 4}
                            /\ entitlements' \in {entitlements, NoRows}
                            /\ products' \in {products, [products EXCEPT !["duo"].is_active = FALSE]}

\* A step of Next that belongs to the story.
StoryNext ==
  /\ story = "targets" => edits = 0
  /\ Step /\ Fits /\ NoteAllowed
  /\ UNCHANGED <<releases[4], updated[4]>>
  /\ story' = story

StorySpec == StoryInit /\ [][StoryNext]_<<vars, story>>
=============================================================================
