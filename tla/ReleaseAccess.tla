--------------------------- MODULE ReleaseAccess ---------------------------
(***************************************************************************)
(* Which releases one customer is shown and may download on one platform.  *)
(* The manifest and the download token each start with a license check;    *)
(* the releases are then filtered by audience and channel, by code of      *)
(* their own.  A token is used later, when only the token's date and       *)
(* whether the release is active are looked at.                            *)
(*                                                                         *)
(* The server serves one request at a time: between the sessions of a      *)
(* request time passes, or the process dies.                               *)
(***************************************************************************)
EXTENDS LicenseDecision

CONSTANTS
  Releases,       \* rows of trader_releases, numbered as they were created
  ReleasedFor,    \* product_id of each, NULL for TraderPro Desktop
  Package,        \* product_key of each, or what stands in for it
  Type,           \* release_type of each
  Bucket,         \* rollout bucket of the customer for each, 0..99
  Targets,        \* the ways an administrator may save a release
  InitReleases,   \* the releases of the start
  Tags,           \* tags the customer may have
  TesterTags,     \* those that open beta and canary
  TokenSeconds,   \* max(60, AUTOEDGE_RELEASE_DOWNLOAD_TOKEN_SECONDS)
  RequestSeconds, \* bound: seconds a request may take
  MaxTokens       \* bound: download tokens

Channels == {"stable", "beta", "canary", "internal"}
AudienceModes == {"all", "allowlist", "roles", "percent", "disabled"}
ReleaseTypes == {"strategy_package", "extension_package", "trader_desktop"}
DefaultTypes == {"strategy_package", "trader_desktop"}

\* What an administrator enters, as far as this customer is concerned.  A
\* release that is active is published.
Target == [is_active : BOOLEAN, is_required : BOOLEAN, channel : Channels,
           audience_mode : AudienceModes, required_tags : SUBSET Tags,
           listed : BOOLEAN, rollout_percent : 0..100]

ASSUME AccessAssumption ==
  /\ Releases \subseteq Nat /\ IsFiniteSet(Releases)
  /\ ReleasedFor \in [Releases -> Products \cup {NULL}]
  /\ Type \in [Releases -> ReleaseTypes]
  /\ \A r \in Releases : ReleasedFor[r] = NULL <=> Type[r] = "trader_desktop"
  /\ Bucket \in [Releases -> 0..99] /\ Targets \subseteq Target
  /\ InitReleases \subseteq [Releases -> Target]
  /\ TokenSeconds \in Nat /\ RequestSeconds \in Nat /\ MaxTokens \in Nat

VARIABLES
  releases,  \* what was saved last for each release
  updated,   \* trader_releases.updated_at
  tags,      \* customers.tags_json
  seat,      \* what LicenseCheck says of the machine
  request,   \* the download token being made
  tokens,    \* rows of release_download_tokens
  allowed    \* history: when a token could last be had for each release

accessVars == <<releases, updated, tags, seat, request, tokens, allowed>>
vars == <<decisionVars, accessVars>>

Seats == {"ok", "over_limit", "blocked"}

Idle == [release |-> NULL, channel |-> NULL, licensed |-> {}, since |-> NULL]

-----------------------------------------------------------------------------
(* Audience and channel *)

Priority(channel) ==
  CASE channel = "stable" -> 0 [] channel = "beta" -> 1
    [] channel = "canary" -> 2 [] channel = "internal" -> 3

_release_audience_match(r) ==
  LET t == releases[r]
      has_tag == t.required_tags \cap tags # {}
  IN  /\ t.audience_mode # "disabled"
      /\ \/ t.channel = "internal" /\ "internal" \in tags
         \/ t.audience_mode = "all" /\ (t.required_tags = {} \/ has_tag)
         \/ t.audience_mode = "allowlist" /\ (t.listed \/ has_tag)
         \/ t.audience_mode = "roles" /\ has_tag
         \/ /\ t.audience_mode = "percent" /\ (t.required_tags = {} \/ has_tag)
            /\ Bucket[r] < t.rollout_percent

_release_visible_to_customer(r, requested) ==
  LET t == releases[r]
  IN  /\ _release_audience_match(r)
      /\ \/ Priority(t.channel) <= Priority(requested)
         \/ t.audience_mode \in {"allowlist", "roles"}
         \/ "internal" \in tags /\ t.channel \in {"beta", "canary", "internal"}
         \/ tags \cap TesterTags # {} /\ t.channel \in {"beta", "canary"}

Visible(r, channel) ==
  releases[r].is_active /\ _release_visible_to_customer(r, channel)

-----------------------------------------------------------------------------
(* The manifest *)

\* licensed_strategies of check_license.
Licensed == IF seat = "ok" THEN LicensedProducts ELSE {}

Private == {p \in Products : products[p].private}

\* Error to be caught: any release of the product will do.
PrivateWithRelease(channel, licensed) ==
  {p \in Private \cap licensed : \E r \in Releases : ReleasedFor[r] = p /\ releases[r].is_active}

\* _private_manifest_product_ids: the private products that are not kept back.
VisiblePrivate(channel, licensed) ==
  {p \in Private \cap licensed :
     /\ products[p].is_active /\ products[p].trader_enabled
     /\ \E r \in Releases : ReleasedFor[r] = p /\ Visible(r, channel)}

\* ORDER of _release_sort_key.
Newer(r, s) ==
  LET key(x) == <<Priority(releases[x].channel), IF releases[x].is_required THEN 1 ELSE 0,
                  updated[x], x>>
  IN  \E i \in 1..4 : key(r)[i] > key(s)[i] /\ \A j \in 1..i - 1 : key(r)[j] = key(s)[j]

SameGroup(r, s) == Type[r] = Type[s] /\ Package[r] = Package[s]

\* TRADER_DESKTOP_PRODUCT_ID
DesktopKey == "trader-desktop"

\* Error to be caught: a desktop release is offered under any key.
CandidatesOfAnyKey(types, licensed) ==
  {r \in Releases : /\ releases[r].is_active /\ Type[r] \in types
                    /\ ReleasedFor[r] \in licensed \cup {NULL}}

\* Packages of licensed products; of the desktop releases those saved under
\* the key of TraderPro Desktop.
Candidates(types, licensed) ==
  {r \in Releases : /\ releases[r].is_active /\ Type[r] \in types
                    /\ ReleasedFor[r] \in licensed \cup {NULL}
                    /\ Type[r] = "trader_desktop" => Package[r] = DesktopKey}

Newest(rs) == {r \in rs : \A s \in rs : SameGroup(r, s) => s = r \/ Newer(r, s)}

\* Error to be caught: the newest of all is offered, if it is visible.
VisibleOfNewest(candidates, channel) ==
  {r \in Newest(candidates) : _release_visible_to_customer(r, channel)}

\* The newest of those the customer may see, in each package.
_select_visible_releases(candidates, channel) ==
  Newest({r \in candidates : _release_visible_to_customer(r, channel)})

_manifest_license_response(licensed, hidden) ==
  [strategies |-> licensed \ hidden, lease |-> licensed \ hidden,
   states     |-> (IF seat = "blocked" THEN {} ELSE EntitlementStates) \ hidden]

_trader_manifest_packages(hidden) ==
  {p \in Products : products[p].is_active /\ products[p].trader_enabled} \ hidden

\* licensed is the answer of the check it starts with.
release_manifest(licensed, channel, types) ==
  LET hidden == Private \ VisiblePrivate(channel, licensed)
  IN  [license  |-> _manifest_license_response(licensed, hidden),
       packages |-> _trader_manifest_packages(hidden),
       releases |-> IF licensed = {} THEN {}
                    ELSE _select_visible_releases(Candidates(types, licensed), channel)]

-----------------------------------------------------------------------------
(* Download tokens *)

\* What create_release_download_token asks once the license is active.
MayHave(r, channel, licensed) ==
  Visible(r, channel) /\ ReleasedFor[r] \in licensed \cup {NULL}

\* Error to be caught: the answer of the check is not looked at.
CheckLicenseAnyway(r, channel) ==
  /\ request = Idle
  /\ request' = [release |-> r, channel |-> channel, licensed |-> Licensed, since |-> now]
  /\ UNCHANGED <<decisionVars, releases, updated, tags, seat, tokens>>

\* The first session; without an active license there is no second one.
CheckLicense(r, channel) ==
  /\ request = Idle /\ Licensed # {}
  /\ request' = [release |-> r, channel |-> channel, licensed |-> Licensed, since |-> now]
  /\ UNCHANGED <<decisionVars, releases, updated, tags, seat, tokens>>

\* The second session: a token, or a refusal.
create_release_download_token ==
  /\ request # Idle /\ request' = Idle
  /\ tokens' = IF MayHave(request.release, request.channel, request.licensed)
               THEN tokens \cup {[release |-> request.release, expires |-> now + TokenSeconds]}
               ELSE tokens
  /\ Cardinality(tokens') <= MaxTokens
  /\ UNCHANGED <<decisionVars, releases, updated, tags, seat>>

Crash ==
  /\ request # Idle /\ request' = Idle
  /\ UNCHANGED <<decisionVars, releases, updated, tags, seat, tokens>>

\* Error to be caught: the date of the token is not looked at.
ServesWhileActive(t) == releases[t.release].is_active

\* resolve_release_download; ReleaseRetention says whether the file is there.
Serves(t) == now < t.expires /\ releases[t.release].is_active

-----------------------------------------------------------------------------
(* Administrators, seats and time *)

upsert_release(r) ==
  /\ request = Idle /\ MayEdit
  /\ \E target \in Targets : releases' = [releases EXCEPT ![r] = target]
  /\ updated' = [updated EXCEPT ![r] = now]
  /\ UNCHANGED <<entitlements, products, removed, tags, seat, request, tokens>>

set_customer_tags ==
  /\ request = Idle /\ MayEdit
  /\ tags' \in SUBSET Tags
  /\ UNCHANGED <<entitlements, products, removed, releases, updated, seat, request, tokens>>

\* Limits, blocks and checks of other machines.
ChangeSeat ==
  /\ request = Idle /\ MayEdit
  /\ seat' \in Seats
  /\ UNCHANGED <<entitlements, products, removed, releases, updated, tags, request, tokens>>

EditRights ==
  /\ request = Idle /\ DecisionEdit
  /\ UNCHANGED <<releases, updated, tags, seat, request, tokens>>

Tick ==
  /\ now < MaxNow /\ now' = now + 1
  /\ request # Idle => now < request.since + RequestSeconds
  /\ UNCHANGED <<entitlements, products, removed, edits>>
  /\ UNCHANGED <<releases, updated, tags, seat, request, tokens>>

\* The releases a token could be had for.
Downloadable(licensed) ==
  {r \in Releases : licensed # {} /\ \E channel \in Channels : MayHave(r, channel, licensed)}

Init ==
  /\ DecisionInit /\ releases \in InitReleases /\ updated = [r \in Releases |-> 0]
  /\ tags \in SUBSET Tags /\ seat = "ok" /\ request = Idle /\ tokens = {}
  /\ allowed = [r \in Releases |-> IF r \in Downloadable(Licensed) THEN now ELSE NULL]

Step ==
  \/ \E r \in Releases, channel \in Channels : CheckLicense(r, channel)
  \/ create_release_download_token \/ Crash
  \/ EditRights \/ \E r \in Releases : upsert_release(r)
  \/ set_customer_tags \/ ChangeSeat \/ Tick

NoteAllowed ==
  \E licensed \in {Licensed'} :
    allowed' = [r \in Releases |-> IF r \in Downloadable(licensed)' THEN now' ELSE allowed[r]]

Next == Step /\ NoteAllowed

Spec == Init /\ [][Next]_vars

-----------------------------------------------------------------------------
(* Properties *)

TypeOK ==
  /\ DecisionTypeOK /\ releases \in [Releases -> Target] /\ updated \in [Releases -> Time]
  /\ tags \subseteq Tags /\ seat \in Seats
  /\ request \in {Idle} \cup
       [release : Releases, channel : Channels, licensed : (SUBSET Products) \ {{}}, since : Time]
  /\ tokens \subseteq [release : Releases, expires : TokenSeconds..MaxNow + TokenSeconds]
  /\ allowed \in [Releases -> Time \cup {NULL}]

\* README, TraderPro Release Download: the server checks the license, device
\* limit and release targeting again before issuing a short-lived token.  What
\* is served today the customer was entitled to a token's life ago, and the
\* time its request took, however rights, targets and tags changed since.
ServedWasAllowed ==
  \A t \in tokens :
    Serves(t) => /\ allowed[t.release] # NULL
                 /\ now < allowed[t.release] + TokenSeconds + RequestSeconds

\* The manifest and the download token filter releases apart from each other.
\* What is offered would be given, and of a package of which the customer could
\* have some release one is offered, whatever else it contains; a release is
\* one of TraderPro Desktop by its type and by its key (README, TraderPro
\* Release Download), and one of these at most is the update of the desktop.
\* A desktop release under another key is given to who asks and offered to none.
OffersMatchDownloads ==
  LET licensed == Licensed
  IN  \A channel \in Channels, types \in {DefaultTypes, ReleaseTypes} :
        LET offered == release_manifest(licensed, channel, types).releases
            had     == {r \in Releases : Type[r] \in types /\ licensed # {}
                                         /\ MayHave(r, channel, licensed)}
            desktop == {r \in had : Type[r] = "trader_desktop"}
        IN  /\ offered \subseteq had
            /\ \A r \in had \ desktop : Cardinality({o \in offered : SameGroup(o, r)}) = 1
            /\ Cardinality(offered \cap desktop)
                 = IF \E r \in desktop : Package[r] = DesktopKey THEN 1 ELSE 0

\* README, Seeded packages: a private product is omitted from all manifest
\* data unless the customer has an active entitlement and an active release
\* of it is visible after channel, audience and rollout checks.
PrivateStaysHidden ==
  LET licensed == Licensed
  IN  \A channel \in Channels, p \in Products :
        LET m    == release_manifest(licensed, channel, ReleaseTypes)
            told == m.license.strategies \cup m.license.lease \cup m.license.states
                      \cup m.packages \cup {ReleasedFor[r] : r \in m.releases}
        IN  products[p].private /\ p \in told =>
              \E s \in Sources, r \in Releases :
                /\ ProductOf[s] = p /\ Covers(s)
                /\ ReleasedFor[r] = p /\ Visible(r, channel)
=============================================================================
