------------------------ MODULE ReleaseAccessProofs ------------------------
(***************************************************************************)
(* For any sources, releases, targets and tags: a token serves only what   *)
(* was allowed shortly before; the row that is taken for a product is the  *)
(* best of them; nothing of a private product is told without a right to   *)
(* it; the manifest offers what the download token gives.                  *)
(*                                                                         *)
(* What the fold over the rows keeps is proved by induction on the rows    *)
(* met, in the form of LeastNumber: of the numbers for which a statement   *)
(* fails, there would be a least one.                                      *)
(***************************************************************************)
EXTENDS ReleaseAccess, FiniteSetTheorems, SequenceTheorems, WellFoundedInduction, TLAPS

\* What the server knows of the time, and of the request being served: a
\* release it may be given now could be had when the license was checked.
TimesInv ==
  /\ now \in Nat
  /\ allowed \in [Releases -> Nat \cup {NULL}]
  /\ \A r \in Releases : allowed[r] # NULL => allowed[r] <= now

RequestInv ==
  request # Idle =>
    /\ request.release \in Releases /\ request.channel \in Channels
    /\ request.licensed # {}
    /\ request.since \in Nat /\ now <= request.since + RequestSeconds
    /\ \A r \in {request.release}, channel \in {request.channel}, licensed \in {request.licensed} :
         MayHave(r, channel, licensed) => allowed[r] # NULL /\ request.since <= allowed[r]

TokensInv ==
  \A t \in tokens :
    /\ t.release \in Releases /\ t.expires \in Nat
    /\ allowed[t.release] # NULL
    /\ t.expires <= allowed[t.release] + TokenSeconds + RequestSeconds

AccessInv == TimesInv /\ RequestInv /\ TokensInv

\* What a check says depends on what it reads only.
LEMMA SameAnswer ==
  ASSUME UNCHANGED <<decisionVars, releases, updated, tags, seat>>
  PROVE  Licensed' = Licensed
BY DEF Licensed, LicensedProducts, Granted, Best, Orders, Rows, Kept, Better, IsLicensed,
       ReadStatus, Elapsed, LastsLonger, decisionVars

LEMMA SameMayHave ==
  ASSUME UNCHANGED <<releases, tags>>, NEW r, NEW channel, NEW licensed
  PROVE  MayHave(r, channel, licensed)' <=> MayHave(r, channel, licensed)
BY DEF MayHave, Visible, _release_visible_to_customer, _release_audience_match

\* The record of what could be had only moves forward.
LEMMA AllowedMovesOn ==
  ASSUME TimesInv, NoteAllowed, now' \in Nat, now <= now'
  PROVE  /\ TimesInv'
         /\ \A r \in Releases : allowed[r] # NULL => allowed'[r] # NULL /\ allowed[r] <= allowed'[r]
<1>1. PICK licensed :
        allowed' = [r \in Releases |-> IF r \in Downloadable(licensed)' THEN now' ELSE allowed[r]]
  BY DEF NoteAllowed
<1>2. NULL \notin Nat
  BY DecisionAssumption
<1>. QED
  BY <1>1, <1>2 DEF TimesInv

\* A step that leaves the tokens alone keeps what is known of them.
LEMMA TokensKept ==
  ASSUME AccessInv, NoteAllowed, now' \in Nat, now <= now', UNCHANGED tokens
  PROVE  TimesInv' /\ TokensInv'
<1>1. TimesInv'
  BY AllowedMovesOn DEF AccessInv
<1>2. ASSUME NEW t \in tokens
      PROVE  /\ t.release \in Releases /\ t.expires \in Nat
             /\ allowed'[t.release] # NULL
             /\ t.expires <= allowed'[t.release] + TokenSeconds + RequestSeconds
  <2>1. /\ t.release \in Releases /\ t.expires \in Nat
        /\ allowed[t.release] # NULL
        /\ t.expires <= allowed[t.release] + TokenSeconds + RequestSeconds
    BY DEF AccessInv, TokensInv
  <2>2. allowed'[t.release] # NULL /\ allowed[t.release] <= allowed'[t.release]
    BY <2>1, AllowedMovesOn DEF AccessInv
  <2>3. allowed[t.release] \in Nat /\ allowed'[t.release] \in Nat
    BY <1>1, <2>1, <2>2 DEF AccessInv, TimesInv
  <2>. QED
    BY <2>1, <2>2, <2>3, AccessAssumption
<1>. QED
  BY <1>1, <1>2 DEF TokensInv

LEMMA CheckKeeps ==
  ASSUME AccessInv, NoteAllowed,
         NEW r \in Releases, NEW channel \in Channels, CheckLicense(r, channel)
  PROVE  AccessInv'
<1>1. now' = now /\ tokens' = tokens
  BY DEF CheckLicense, decisionVars
<1>2. now \in Nat
  BY DEF AccessInv, TimesInv
<1>3. TimesInv' /\ TokensInv'
  BY <1>1, <1>2, TokensKept
<1>4. Licensed' = Licensed
  BY SameAnswer DEF CheckLicense
<1>5. /\ request'.release = r /\ request'.channel = channel
      /\ request'.licensed = Licensed /\ request'.since = now /\ Licensed # {}
  BY DEF CheckLicense
<1>6. ASSUME NEW l, l = Licensed, MayHave(r, channel, l)'
      PROVE  allowed'[r] # NULL /\ now <= allowed'[r]
  <2>1. PICK licensed :
          /\ licensed = Licensed'
          /\ allowed' = [s \in Releases |-> IF s \in Downloadable(licensed)' THEN now' ELSE allowed[s]]
    BY DEF NoteAllowed
  <2>2. licensed = l
    BY <2>1, <1>4, <1>6
  <2>3. MayHave(r, channel, licensed)'
    BY <2>2, <1>6
  <2>4. r \in Downloadable(licensed)'
    BY <2>2, <2>3, <1>5, <1>6 DEF Downloadable
  <2>. QED
    BY <2>1, <2>4, <1>1, <1>2, DecisionAssumption
<1>7. ASSUME NEW s \in {request'.release}, NEW c \in {request'.channel}, NEW l \in {request'.licensed},
             MayHave(s, c, l)'
      PROVE  allowed'[s] # NULL /\ request'.since <= allowed'[s]
  <2>1. s = r /\ c = channel /\ l = Licensed
    BY <1>5
  <2>2. MayHave(r, channel, l)'
    BY <1>7, <2>1
  <2>. QED
    BY <2>1, <2>2, <1>5, <1>6
<1>8. RequestInv'
  BY <1>1, <1>2, <1>5, <1>7, AccessAssumption DEF RequestInv
<1>. QED
  BY <1>3, <1>8 DEF AccessInv

\* Time, and requests that leave the releases and tags alone, keep RequestInv.
LEMMA RequestKept ==
  ASSUME AccessInv, NoteAllowed, now' \in Nat, now <= now',
         UNCHANGED <<releases, tags, request>>,
         request # Idle => now' <= request.since + RequestSeconds
  PROVE  RequestInv'
<1>1. TimesInv' /\ \A r \in Releases : allowed[r] # NULL => allowed'[r] # NULL /\ allowed[r] <= allowed'[r]
  BY AllowedMovesOn DEF AccessInv
<1>2. ASSUME request # Idle,
             NEW r \in {request.release}, NEW channel \in {request.channel},
             NEW licensed \in {request.licensed}, MayHave(r, channel, licensed)'
      PROVE  allowed'[r] # NULL /\ request.since <= allowed'[r]
  <2>1. MayHave(r, channel, licensed)
    BY <1>2, SameMayHave
  <2>2. r \in Releases /\ request.since \in Nat /\ allowed[r] # NULL /\ request.since <= allowed[r]
    BY <1>2, <2>1 DEF AccessInv, RequestInv
  <2>3. allowed'[r] # NULL /\ allowed[r] <= allowed'[r]
    BY <2>2, <1>1
  <2>4. allowed[r] \in Nat /\ allowed'[r] \in Nat
    BY <1>1, <2>2, <2>3 DEF AccessInv, TimesInv
  <2>. QED
    BY <2>2, <2>3, <2>4
<1>. QED
  BY <1>2 DEF AccessInv, RequestInv

LEMMA DrawKeeps ==
  ASSUME AccessInv, NoteAllowed, create_release_download_token
  PROVE  AccessInv'
<1>1. now' = now /\ request' = Idle /\ request # Idle
  BY DEF create_release_download_token, decisionVars
<1>2. now \in Nat
  BY DEF AccessInv, TimesInv
<1>3. /\ TimesInv'
      /\ \A r \in Releases : allowed[r] # NULL => allowed'[r] # NULL /\ allowed[r] <= allowed'[r]
  BY <1>1, <1>2, AllowedMovesOn DEF AccessInv
<1>4. ASSUME NEW t \in tokens'
      PROVE  /\ t.release \in Releases /\ t.expires \in Nat
             /\ allowed[t.release] # NULL
             /\ t.expires <= allowed[t.release] + TokenSeconds + RequestSeconds
  <2>1. CASE t \in tokens
    BY <2>1 DEF AccessInv, TokensInv
  <2>2. CASE t \notin tokens
    <3>1. /\ MayHave(request.release, request.channel, request.licensed)
          /\ t = [release |-> request.release, expires |-> now + TokenSeconds]
      BY <2>2, <1>4 DEF create_release_download_token
    <3>2. /\ request.release \in Releases /\ request.since \in Nat
          /\ now <= request.since + RequestSeconds
          /\ allowed[request.release] # NULL /\ request.since <= allowed[request.release]
      BY <3>1, <1>1 DEF AccessInv, RequestInv
    <3>3. allowed[request.release] \in Nat
      BY <3>2 DEF AccessInv, TimesInv
    <3>. QED
      BY <3>1, <3>2, <3>3, <1>2, AccessAssumption
  <2>. QED
    BY <2>1, <2>2
<1>5. TokensInv'
  <2>1. ASSUME NEW t \in tokens'
        PROVE  /\ t.release \in Releases /\ t.expires \in Nat
               /\ allowed'[t.release] # NULL
               /\ t.expires <= allowed'[t.release] + TokenSeconds + RequestSeconds
    <3>1. allowed'[t.release] # NULL /\ allowed[t.release] <= allowed'[t.release]
      BY <1>3, <1>4, <2>1
    <3>2. allowed[t.release] \in Nat /\ allowed'[t.release] \in Nat
      BY <1>3, <1>4, <3>1 DEF AccessInv, TimesInv
    <3>. QED
      BY <3>1, <3>2, <1>4, AccessAssumption
  <2>. QED
    BY <2>1 DEF TokensInv
<1>6. RequestInv'
  BY <1>1 DEF RequestInv
<1>. QED
  BY <1>3, <1>5, <1>6 DEF AccessInv

\* A request that is served between two token requests.
LEMMA IdleKeeps ==
  ASSUME AccessInv, NoteAllowed, request' = Idle, UNCHANGED <<now, tokens>>
  PROVE  AccessInv'
<1>1. now \in Nat
  BY DEF AccessInv, TimesInv
<1>2. TimesInv' /\ TokensInv'
  BY <1>1, TokensKept
<1>. QED
  BY <1>2 DEF AccessInv, RequestInv

LEMMA TickKeeps ==
  ASSUME AccessInv, NoteAllowed, Tick
  PROVE  AccessInv'
<1>1. now \in Nat /\ now' = now + 1 /\ UNCHANGED <<releases, tags, request, tokens>>
  BY DEF Tick, AccessInv, TimesInv
<1>2. TimesInv' /\ TokensInv'
  BY <1>1, TokensKept
<1>3. request # Idle => now' <= request.since + RequestSeconds
  BY <1>1, AccessAssumption DEF Tick, AccessInv, RequestInv
<1>4. RequestInv'
  BY <1>1, <1>3, RequestKept
<1>. QED
  BY <1>2, <1>4 DEF AccessInv

LEMMA AccessInvInit == Init => AccessInv
BY DecisionAssumption, AccessAssumption
   DEF Init, DecisionInit, AccessInv, TimesInv, RequestInv, TokensInv

LEMMA AccessInvStep == AccessInv /\ [Next]_vars => AccessInv'
<1>. SUFFICES ASSUME AccessInv, [Next]_vars
             PROVE  AccessInv'
  OBVIOUS
<1>1. CASE Next
  <2>1. NoteAllowed
    BY <1>1 DEF Next
  <2>2. CASE \E r \in Releases, channel \in Channels : CheckLicense(r, channel)
    BY <2>1, <2>2, CheckKeeps
  <2>3. CASE create_release_download_token
    BY <2>1, <2>3, DrawKeeps
  <2>4. CASE Crash
    BY <2>1, <2>4, IdleKeeps DEF Crash, decisionVars
  <2>5. CASE EditRights
    BY <2>1, <2>5, IdleKeeps
       DEF EditRights, DecisionEdit, MayEdit, manual_set_entitlement, remove_entitlement,
           ProcessWhopEvent, upsert_product
  <2>6. CASE \E r \in Releases : upsert_release(r)
    BY <2>1, <2>6, IdleKeeps DEF upsert_release, MayEdit
  <2>7. CASE set_customer_tags
    BY <2>1, <2>7, IdleKeeps DEF set_customer_tags, MayEdit
  <2>8. CASE ChangeSeat
    BY <2>1, <2>8, IdleKeeps DEF ChangeSeat, MayEdit
  <2>9. CASE Tick
    BY <2>1, <2>9, TickKeeps
  <2>. QED
    BY <1>1, <2>2, <2>3, <2>4, <2>5, <2>6, <2>7, <2>8, <2>9 DEF Next, Step
<1>2. CASE UNCHANGED vars
  <2>1. ASSUME NEW r, NEW channel, NEW licensed
        PROVE  MayHave(r, channel, licensed)' <=> MayHave(r, channel, licensed)
    BY <1>2, SameMayHave DEF vars, accessVars
  <2>. QED
    BY <1>2, <2>1 DEF vars, decisionVars, accessVars, AccessInv, TimesInv, RequestInv, TokensInv
<1>. QED
  BY <1>1, <1>2

\* README, TraderPro Release Download: a token is short-lived, and whatever it
\* serves the customer was entitled to download when it was asked for, for any
\* sources of coverage, targets, tags and edits in between.
THEOREM DownloadsWereAllowed == Spec => []ServedWasAllowed
<1>1. AccessInv => ServedWasAllowed
  <2>. SUFFICES ASSUME AccessInv, NEW t \in tokens, Serves(t)
               PROVE  /\ allowed[t.release] # NULL
                      /\ now < allowed[t.release] + TokenSeconds + RequestSeconds
    BY DEF ServedWasAllowed
  <2>1. /\ t.release \in Releases /\ t.expires \in Nat /\ allowed[t.release] # NULL
        /\ t.expires <= allowed[t.release] + TokenSeconds + RequestSeconds
    BY DEF AccessInv, TokensInv
  <2>2. allowed[t.release] \in Nat /\ now \in Nat
    BY <2>1 DEF AccessInv, TimesInv
  <2>. QED
    BY <2>1, <2>2, AccessAssumption DEF Serves
<1>. QED
  BY <1>1, AccessInvInit, AccessInvStep, PTL DEF Spec
-----------------------------------------------------------------------------
(* TypeOK *)

\* The customer has finitely many rows, and those of Whop expire on a date.
RowsInv ==
  /\ IsFiniteSet({s \in Sources : entitlements[s] # NULL})
  /\ \A s \in Sources \ ByHand :
       entitlements[s] # NULL /\ entitlements[s].status = "expired" => entitlements[s].expires # NULL

LEMMA NoRowIsNull == NULL \notin Row
BY DecisionAssumption

\* One row is written at a time.
LEMMA WrittenRow ==
  ASSUME entitlements \in [Sources -> Row \cup {NULL}], RowsInv,
         NEW s \in Sources, NEW r \in Row \cup {NULL},
         entitlements' = [entitlements EXCEPT ![s] = r],
         s \notin ByHand /\ r # NULL => (r.status = "expired" => r.expires # NULL)
  PROVE  entitlements' \in [Sources -> Row \cup {NULL}] /\ RowsInv'
<1>. PICK had : had = {x \in Sources : entitlements[x] # NULL}
  OBVIOUS
<1>. PICK have : have = {x \in Sources : entitlements'[x] # NULL}
  OBVIOUS
<1>1. have \in SUBSET (had \cup {s}) /\ IsFiniteSet(had)
  BY DEF RowsInv
<1>2. IsFiniteSet(have)
  <2>1. IsFiniteSet(had \cup {s})
    BY <1>1, FS_AddElement
  <2>. QED
    BY <1>1, <2>1, FS_Subset
<1>. QED
  BY <1>2 DEF RowsInv

LEMMA DecisionEditTypes ==
  ASSUME DecisionTypeOK, RowsInv, DecisionEdit
  PROVE  DecisionTypeOK' /\ RowsInv'
<1>1. /\ now' = now /\ edits \in 0..MaxEdits /\ edits < MaxEdits /\ edits' = edits + 1
      /\ now \in Time /\ MaxNow \in Nat /\ MaxEdits \in Nat
      /\ entitlements \in [Sources -> Row \cup {NULL}]
  BY DecisionAssumption
  DEF DecisionTypeOK, DecisionEdit, MayEdit, manual_set_entitlement, remove_entitlement,
      ProcessWhopEvent, upsert_product
<1>2. edits' \in 0..MaxEdits /\ now \in Dates /\ now' \in Time
  BY <1>1 DEF Time, Dates
<1>3. ASSUME NEW s \in Sources, NEW r \in Row \cup {NULL},
             entitlements' = [entitlements EXCEPT ![s] = r], products' = products,
             removed' \subseteq Products,
             s \notin ByHand /\ r # NULL => (r.status = "expired" => r.expires # NULL)
      PROVE  DecisionTypeOK' /\ RowsInv'
  <2>1. entitlements' \in [Sources -> Row \cup {NULL}] /\ RowsInv'
    BY <1>1, <1>3, WrittenRow
  <2>. QED
    BY <1>2, <1>3, <2>1 DEF DecisionTypeOK
<1>4. ASSUME NEW s \in Sources, manual_set_entitlement(s) PROVE DecisionTypeOK' /\ RowsInv'
  <2>. DEFINE Saved(status, expires) ==
         [status  |-> status,
          starts  |-> IF entitlements[s] = NULL THEN now ELSE entitlements[s].starts,
          expires |-> expires, revoked |-> status = "revoked", updated |-> now]
  <2>0. PICK status \in EntitlementStatuses, expires \in Dates \cup {NULL} :
          WithRow(s, Saved(status, expires)) /\ s \in ByHand
    BY <1>4 DEF manual_set_entitlement
  <2>1. PICK r : r = Saved(status, expires) /\ WithRow(s, r) /\ s \in ByHand
    BY <2>0
  <2>2. (IF entitlements[s] = NULL THEN now ELSE entitlements[s].starts) \in Dates
    BY <1>1, <1>2 DEF Row
  <2>3. r \in Row
    BY <1>1, <2>1, <2>2 DEF Row
  <2>. QED
    BY <1>3, <2>1, <2>3 DEF WithRow, DecisionTypeOK
<1>5. ASSUME NEW s \in Sources, remove_entitlement(s) PROVE DecisionTypeOK' /\ RowsInv'
  <2>1. removed' \subseteq Products
    BY <1>5, DecisionAssumption DEF remove_entitlement, DecisionTypeOK
  <2>. QED
    BY <1>3, <1>5, <2>1 DEF remove_entitlement
<1>6. ASSUME NEW s \in Sources, ProcessWhopEvent(s) PROVE DecisionTypeOK' /\ RowsInv'
  <2>. DEFINE Written(status, starts, expires) ==
         [status |-> status, starts |-> starts, expires |-> expires,
          revoked |-> status = "revoked", updated |-> now]
  <2>0. PICK status \in EntitlementStatuses, starts \in 0..now + 1, expires \in Dates \cup {NULL} :
          WithRow(s, Written(status, starts, expires)) /\ (status = "expired" => expires # NULL)
    BY <1>6 DEF ProcessWhopEvent
  <2>1. PICK r :
          /\ r = Written(status, starts, expires) /\ WithRow(s, r)
          /\ (status = "expired" => expires # NULL)
    BY <2>0
  <2>2. starts \in Dates
    BY <1>1, <2>1 DEF Time, Dates
  <2>3. r \in Row /\ r.status = status /\ r.expires = expires
    BY <1>1, <2>1, <2>2 DEF Row
  <2>. QED
    BY <1>3, <2>1, <2>3 DEF WithRow, DecisionTypeOK
<1>7. ASSUME NEW p \in Products, upsert_product(p) PROVE DecisionTypeOK' /\ RowsInv'
  BY <1>2, <1>7 DEF upsert_product, DecisionTypeOK, RowsInv
<1>. QED
  BY <1>4, <1>5, <1>6, <1>7 DEF DecisionEdit

AccessTypes == TypeOK /\ RowsInv

LEMMA LicensedAreProducts == Licensed \subseteq Products
BY DEF Licensed, LicensedProducts, Granted

LEMMA AccessTypesStep == AccessTypes /\ [Next]_vars => AccessTypes'
<1>. SUFFICES ASSUME AccessTypes, [Next]_vars PROVE AccessTypes'
  OBVIOUS
<1>0. DecisionTypeOK /\ RowsInv /\ now \in Time /\ MaxNow \in Nat /\ TokenSeconds \in Nat
  BY DecisionAssumption, AccessAssumption DEF AccessTypes, TypeOK, DecisionTypeOK
<1>. DEFINE TokenRow == [release : Releases, expires : TokenSeconds..MaxNow + TokenSeconds]
            Request  == [release : Releases, channel : Channels,
                         licensed : (SUBSET Products) \ {{}}, since : Time]
<1>1. ASSUME Next PROVE now' \in Time
  BY <1>0, <1>1
  DEF Next, Step, Time, CheckLicense, create_release_download_token, Crash, EditRights, upsert_release,
      set_customer_tags, ChangeSeat, Tick, decisionVars, DecisionEdit, MayEdit,
      manual_set_entitlement, remove_entitlement, ProcessWhopEvent, upsert_product
<1>2. ASSUME Next PROVE allowed' \in [Releases -> Time \cup {NULL}]
  <2>1. PICK licensed :
          allowed' = [r \in Releases |-> IF r \in Downloadable(licensed)' THEN now' ELSE allowed[r]]
    BY <1>2 DEF Next, NoteAllowed
  <2>2. allowed \in [Releases -> Time \cup {NULL}]
    BY DEF AccessTypes, TypeOK
  <2>. QED
    BY <1>1, <1>2, <2>1, <2>2
<1>3. ASSUME NEW r \in Releases, NEW channel \in Channels, Next, CheckLicense(r, channel)
      PROVE  AccessTypes'
  <2>0. PICK licensed : licensed = Licensed
    OBVIOUS
  <2>1. request' \in Request
    <3>1. licensed \in (SUBSET Products) \ {{}}
      BY <1>3, <2>0, LicensedAreProducts DEF CheckLicense
    <3>2. request' = [release |-> r, channel |-> channel, licensed |-> licensed, since |-> now]
      BY <1>3, <2>0 DEF CheckLicense
    <3>. QED
      BY <1>0, <3>1, <3>2
  <2>2. DecisionTypeOK' /\ RowsInv'
    BY <1>0, <1>3 DEF CheckLicense, decisionVars, DecisionTypeOK, RowsInv
  <2>. QED
    BY <1>2, <1>3, <2>1, <2>2 DEF CheckLicense, AccessTypes, TypeOK
<1>4. ASSUME Next, create_release_download_token PROVE AccessTypes'
  <2>1. request.release \in Releases
    BY <1>4 DEF create_release_download_token, AccessTypes, TypeOK
  <2>2. now + TokenSeconds \in TokenSeconds..MaxNow + TokenSeconds
    BY <1>0 DEF Time
  <2>3. tokens' \subseteq TokenRow
    BY <1>4, <2>1, <2>2 DEF create_release_download_token, AccessTypes, TypeOK
  <2>4. DecisionTypeOK' /\ RowsInv'
    BY <1>0, <1>4 DEF create_release_download_token, decisionVars, DecisionTypeOK, RowsInv
  <2>. QED
    BY <1>2, <1>4, <2>3, <2>4 DEF create_release_download_token, AccessTypes, TypeOK
<1>5. ASSUME Next, Crash PROVE AccessTypes'
  <2>1. DecisionTypeOK' /\ RowsInv'
    BY <1>0, <1>5 DEF Crash, decisionVars, DecisionTypeOK, RowsInv
  <2>. QED
    BY <1>2, <1>5, <2>1 DEF Crash, AccessTypes, TypeOK
<1>6. ASSUME Next, EditRights PROVE AccessTypes'
  <2>1. DecisionTypeOK' /\ RowsInv'
    BY <1>0, <1>6, DecisionEditTypes DEF EditRights
  <2>. QED
    BY <1>2, <1>6, <2>1 DEF EditRights, AccessTypes, TypeOK
<1>7. ASSUME Next, NEW r \in Releases, upsert_release(r) PROVE AccessTypes'
  <2>1. DecisionTypeOK' /\ RowsInv'
    BY <1>0, <1>7, DecisionAssumption DEF upsert_release, MayEdit, DecisionTypeOK, RowsInv
  <2>2. releases' \in [Releases -> Target] /\ updated' \in [Releases -> Time]
    BY <1>0, <1>7, AccessAssumption DEF upsert_release, AccessTypes, TypeOK
  <2>. QED
    BY <1>2, <1>7, <2>1, <2>2 DEF upsert_release, AccessTypes, TypeOK
<1>8. ASSUME Next, set_customer_tags \/ ChangeSeat PROVE AccessTypes'
  <2>1. /\ now' = now /\ edits' = edits + 1 /\ edits < MaxEdits
        /\ UNCHANGED <<entitlements, products, removed>>
    BY <1>8 DEF set_customer_tags, ChangeSeat, MayEdit
  <2>2. DecisionTypeOK' /\ RowsInv'
    BY <1>0, <2>1, DecisionAssumption DEF DecisionTypeOK, RowsInv
  <2>. QED
    BY <1>2, <1>8, <2>2 DEF set_customer_tags, ChangeSeat, AccessTypes, TypeOK
<1>9. ASSUME Next, Tick PROVE AccessTypes'
  <2>1. DecisionTypeOK' /\ RowsInv'
    BY <1>0, <1>1, <1>9 DEF Tick, DecisionTypeOK, RowsInv
  <2>. QED
    BY <1>2, <1>9, <2>1 DEF Tick, AccessTypes, TypeOK
<1>10. CASE UNCHANGED vars
  BY <1>10 DEF vars, decisionVars, accessVars, AccessTypes, TypeOK, DecisionTypeOK, RowsInv
<1>. QED
  BY <1>3, <1>4, <1>5, <1>6, <1>7, <1>8, <1>9, <1>10 DEF Next, Step

LEMMA AccessTypesInit == Init => AccessTypes
<1>. SUFFICES ASSUME Init PROVE AccessTypes
  OBVIOUS
<1>1. DecisionTypeOK /\ RowsInv
  BY DecisionAssumption DEF Init, DecisionInit, DecisionTypeOK, RowsInv, Time
<1>2. now \in Time /\ 0 \in Time
  BY DecisionAssumption DEF Init, DecisionInit, Time
<1>. QED
  BY <1>1, <1>2, AccessAssumption DEF Init, AccessTypes, TypeOK, Seats

\* Every row of entitlements, release, request and token keeps its form
\* through checks, edits, webhooks and crashes.
THEOREM TypesCorrect == Spec => []TypeOK
<1>1. AccessTypes => TypeOK
  BY DEF AccessTypes
<1>. QED
  BY <1>1, AccessTypesInit, AccessTypesStep, PTL DEF Spec
-----------------------------------------------------------------------------
(* Choosing among the rows of a product *)

\* Every set of numbers has a least one: what is proved of all numbers below
\* may have no least exception.
LEMMA LeastNumber ==
  ASSUME NEW T, T \subseteq Nat, T # {}
  PROVE  \E n \in T : \A m \in T : n <= m
<1>. DEFINE R == {ss \in Nat \X Nat : ss[1] < ss[2]}
<1>1. IsWellFoundedOn(R, Nat)
  BY NatLessThanWellFounded, Zenon DEF OpToRel
<1>. HIDE DEF R
<1>2. PICK n \in T : \A y \in T : ~(<<y, n>> \in R)
  BY <1>1, WFMin
<1>3. ASSUME NEW m \in T PROVE n <= m
  <2>1. m \in Nat /\ n \in Nat
    OBVIOUS
  <2>2. ~(m < n)
    BY <1>2, <2>1 DEF R
  <2>. QED
    BY <2>1, <2>2
<1>. QED
  BY <1>3

\* g says which row is kept after each of the first k rows of o.
KeepsUpTo(o, k, g) == g = [i \in 1..k |-> IF i = 1 THEN o[1] ELSE Better(g[i - 1], o[i])]

\* There is such a g.
LEMMA RowsAreMet ==
  ASSUME NEW o, NEW n \in Nat
  PROVE  \E g : KeepsUpTo(o, n, g)
<1>. DEFINE Fails == {k \in Nat : ~\E g : KeepsUpTo(o, k, g)}
<1>1. SUFFICES Fails = {}
  OBVIOUS
<1>2. SUFFICES ASSUME Fails # {} PROVE FALSE
  OBVIOUS
<1>3. PICK k \in Fails : \A m \in Fails : k <= m
  <2>1. Fails \subseteq Nat
    OBVIOUS
  <2>. QED
    BY <1>2, <2>1, LeastNumber
<1>4. k \in Nat
  OBVIOUS
<1>5. CASE k = 0
  <2>1. PICK g : g = [i \in 1..k |-> o[1]]
    OBVIOUS
  <2>2. KeepsUpTo(o, k, g)
    BY <1>5, <2>1 DEF KeepsUpTo
  <2>. QED
    BY <2>2
<1>6. CASE k # 0
  <2>1. k - 1 \in Nat /\ k - 1 \notin Fails
    BY <1>3, <1>4, <1>6
  <2>2. PICK g : KeepsUpTo(o, k - 1, g)
    BY <2>1
  <2>3. PICK h : h = [i \in 1..k |-> IF i = 1 THEN o[1] ELSE Better(g[i - 1], o[i])]
    OBVIOUS
  <2>4. ASSUME NEW i \in 1..k - 1 PROVE h[i] = g[i]
    BY <1>4, <2>2, <2>3 DEF KeepsUpTo
  <2>5. ASSUME NEW i \in 1..k, i # 1 PROVE h[i - 1] = g[i - 1]
    <3>1. i - 1 \in 1..k - 1
      BY <1>4, <2>5
    <3>. QED
      BY <2>4, <3>1
  <2>6. h = [i \in 1..k |-> IF i = 1 THEN o[1] ELSE Better(h[i - 1], o[i])]
    BY <2>3, <2>5
  <2>7. KeepsUpTo(o, k, h)
    BY <2>6 DEF KeepsUpTo
  <2>. QED
    BY <2>7
<1>. QED
  BY <1>5, <1>6

LEMMA KeptIsTheLast ==
  ASSUME NEW o, NEW n \in Nat, DOMAIN o = 1..n
  PROVE  \E g : KeepsUpTo(o, n, g) /\ Kept(o) = g[Len(o)]
<1>. DEFINE Recurs(g) == g = [i \in DOMAIN o |-> IF i = 1 THEN o[1] ELSE Better(g[i - 1], o[i])]
            chosen == CHOOSE g : Recurs(g)
<1>1. Kept(o) = chosen[Len(o)]
  BY Zenon DEF Kept
<1>2. PICK h : KeepsUpTo(o, n, h)
  BY RowsAreMet
<1>3. Recurs(h)
  BY <1>2 DEF KeepsUpTo
<1>4. Recurs(chosen)
  <2>. HIDE DEF Recurs
  <2>. QED
    BY <1>3
<1>. QED
  BY <1>1, <1>4 DEF KeepsUpTo

\* The better of two rows is one of them; it is licensed if one of them is, and
\* then no licensed one lasts longer.
LEMMA BetterOfTwo ==
  ASSUME DecisionTypeOK, NEW t \in Sources, NEW s \in Sources,
         entitlements[t] # NULL, entitlements[s] # NULL
  PROVE  /\ Better(t, s) \in {t, s}
         /\ IsLicensed(t) \/ IsLicensed(s) => IsLicensed(Better(t, s))
         /\ IsLicensed(t) => ~LastsLonger(t, Better(t, s))
         /\ IsLicensed(s) => ~LastsLonger(s, Better(t, s))
<1>1. ASSUME NEW x \in {s, t} PROVE entitlements[x].expires \in Nat \cup {NULL}
  BY DecisionAssumption DEF DecisionTypeOK, Row, Dates
<1>2. ~LastsLonger(s, s) /\ ~LastsLonger(t, t)
  BY <1>1 DEF LastsLonger
<1>3. ~(LastsLonger(s, t) /\ LastsLonger(t, s))
  BY <1>1, DecisionAssumption DEF LastsLonger
<1>. QED
  BY <1>2, <1>3 DEF Better

LEMMA NotLongerChains ==
  ASSUME DecisionTypeOK, NEW t \in Sources, NEW s \in Sources, NEW r \in Sources,
         entitlements[t] # NULL, entitlements[s] # NULL, entitlements[r] # NULL,
         ~LastsLonger(r, t), ~LastsLonger(t, s)
  PROVE  ~LastsLonger(r, s)
<1>1. ASSUME NEW x \in {r, s, t} PROVE entitlements[x].expires \in Nat \cup {NULL}
  BY DecisionAssumption DEF DecisionTypeOK, Row, Dates
<1>. QED
  BY <1>1, DecisionAssumption DEF LastsLonger

\* x is the best of the first i rows of o.
BestOfFirst(o, i, x) ==
  /\ \E j \in 1..i : x = o[j]
  /\ \A j \in 1..i : IsLicensed(o[j]) => IsLicensed(x) /\ ~LastsLonger(o[j], x)

LEMMA BestSoFar ==
  ASSUME DecisionTypeOK, NEW p, NEW n \in Nat, NEW o \in [1..n -> Rows(p)],
         NEW g, KeepsUpTo(o, n, g), NEW i \in 1..n
  PROVE  BestOfFirst(o, i, g[i])
<1>. DEFINE Fails == {k \in 1..n : ~BestOfFirst(o, k, g[k])}
<1>1. SUFFICES ASSUME Fails # {} PROVE FALSE
  OBVIOUS
<1>2. PICK k \in Fails : \A m \in Fails : k <= m
  <2>1. Fails \subseteq Nat
    OBVIOUS
  <2>. QED
    BY <1>1, <2>1, LeastNumber
<1>3. k \in 1..n /\ ~BestOfFirst(o, k, g[k])
  OBVIOUS
<1>4. ASSUME NEW j \in 1..n PROVE o[j] \in Sources /\ entitlements[o[j]] # NULL
  BY DEF Rows
<1>5. CASE k = 1
  <2>1. g[k] = o[k]
    BY <1>3, <1>5 DEF KeepsUpTo
  <2>2. Better(o[k], o[k]) = o[k] /\ (IsLicensed(o[k]) => ~LastsLonger(o[k], o[k]))
    BY <1>3, <1>4, BetterOfTwo
  <2>3. \A j \in 1..k : j = k
    BY <1>5
  <2>. QED
    BY <1>3, <1>5, <2>1, <2>2, <2>3 DEF BestOfFirst
<1>6. CASE k # 1
  <2>1. k - 1 \in 1..n /\ k - 1 \notin Fails
    BY <1>2, <1>3, <1>6
  <2>2. PICK t : t = g[k - 1]
    OBVIOUS
  <2>3. BestOfFirst(o, k - 1, t)
    BY <2>1, <2>2
  <2>4. PICK s : s = o[k]
    OBVIOUS
  <2>5. PICK x : x = Better(t, s)
    OBVIOUS
  <2>6. g[k] = x
    BY <1>3, <1>6, <2>2, <2>4, <2>5 DEF KeepsUpTo
  <2>7. PICK j0 \in 1..k - 1 : t = o[j0]
    BY <2>3 DEF BestOfFirst
  <2>8. /\ t \in Sources /\ entitlements[t] # NULL /\ s \in Sources /\ entitlements[s] # NULL
        /\ j0 \in 1..k
    BY <1>3, <1>4, <2>4, <2>7
  <2>9. /\ x \in {t, s}
        /\ IsLicensed(t) \/ IsLicensed(s) => IsLicensed(x)
        /\ IsLicensed(t) => ~LastsLonger(t, x)
        /\ IsLicensed(s) => ~LastsLonger(s, x)
    BY <2>5, <2>8, BetterOfTwo
  <2>10. \E j \in 1..k : x = o[j]
    BY <1>3, <2>4, <2>7, <2>8, <2>9
  <2>11. ASSUME NEW j \in 1..k, IsLicensed(o[j])
         PROVE  IsLicensed(x) /\ ~LastsLonger(o[j], x)
    <3>1. CASE j = k
      BY <2>4, <2>9, <2>11, <3>1
    <3>2. CASE j # k
      <4>1. j \in 1..k - 1 /\ j \in 1..n
        BY <1>3, <3>2
      <4>2. IsLicensed(t) /\ ~LastsLonger(o[j], t)
        BY <2>3, <2>11, <4>1 DEF BestOfFirst
      <4>3. x \in Sources /\ entitlements[x] # NULL /\ o[j] \in Sources /\ entitlements[o[j]] # NULL
        BY <1>4, <2>8, <2>9, <4>1
      <4>. QED
        BY <2>8, <2>9, <4>2, <4>3, NotLongerChains
    <3>. QED
      BY <3>1, <3>2
  <2>12. BestOfFirst(o, k, x)
    BY <2>10, <2>11 DEF BestOfFirst
  <2>. QED
    BY <1>3, <2>6, <2>12
<1>. QED
  BY <1>5, <1>6

\* An order of the rows meets each of them.
LEMMA OrdersMeetAll ==
  ASSUME RowsInv, NEW p, NEW o \in Orders(p), o # <<>>
  PROVE  \E n \in Nat : /\ n # 0 /\ Len(o) = n /\ o \in [1..n -> Rows(p)]
                        /\ \A t \in Rows(p) : \E j \in 1..n : o[j] = t
<1>. PICK rows : rows = Rows(p)
  OBVIOUS
<1>1. IsFiniteSet(rows)
  <2>. DEFINE all == {s \in Sources : entitlements[s] # NULL}
  <2>1. rows \in SUBSET all /\ IsFiniteSet(all)
    BY DEF Rows, RowsInv
  <2>. HIDE DEF all
  <2>. QED
    BY <2>1, FS_Subset
<1>2. PICK n \in Nat : n = Cardinality(rows)
  BY <1>1, FS_CardinalityType
<1>3. o \in [1..n -> rows] /\ \A i, j \in 1..n : i # j => o[i] # o[j]
  BY <1>2 DEF Orders, SetToSeqs
<1>4. o \in Injection(1..n, rows)
  BY <1>3 DEF Injection, IsInjective
<1>5. IsFiniteSet(1..n) /\ Cardinality(1..n) = n
  <2>1. 1 \in Int /\ n \in Int
    OBVIOUS
  <2>2. IsFiniteSet(1..n) /\ Cardinality(1..n) = (IF 1 > n THEN 0 ELSE n - 1 + 1)
    BY <2>1, FS_Interval, Zenon
  <2>. QED
    BY <2>2
<1>6. o \in Surjection(1..n, rows)
  BY <1>1, <1>2, <1>4, <1>5, FS_Injection
<1>7. o \in Seq(rows) /\ Len(o) = n
  <2>1. o \in Seq(rows)
    BY <1>3, SeqDef
  <2>2. Len(o) \in Nat /\ DOMAIN o = 1..Len(o)
    BY <2>1, LenProperties
  <2>. QED
    BY <1>3, <2>1, <2>2
<1>8. n # 0
  BY <1>7, EmptySeq
<1>. QED
  BY <1>3, <1>6, <1>7, <1>8 DEF Surjection

\* For the rows that exist, being licensed is being covered.
LEMMA LicensedIsCovered ==
  ASSUME DecisionTypeOK, RowsInv, NEW s \in Sources, entitlements[s] # NULL
  PROVE  IsLicensed(s) <=> Covers(s)
<1>. PICK r : r = entitlements[s]
  OBVIOUS
<1>1. r \in Row /\ now \in Nat
  BY DecisionAssumption DEF DecisionTypeOK, Time
<1>2. r.expires \in Nat \cup {NULL} /\ r.status \in EntitlementStatuses
  BY <1>1 DEF Row, Dates
<1>3. s \notin ByHand /\ r.status = "expired" => r.expires # NULL
  BY DEF RowsInv
<1>4. Elapsed(s) <=> ~(r.expires = NULL \/ now < r.expires)
  BY <1>1, <1>2, DecisionAssumption DEF Elapsed
<1>5. CASE s \notin ByHand /\ r.status = "expired"
  BY <1>3, <1>4, <1>5 DEF IsLicensed, Covers, ReadStatus
<1>6. CASE ~(s \notin ByHand /\ r.status = "expired")
  <2>1. ReadStatus(s) = r.status
    BY <1>6 DEF ReadStatus
  <2>. QED
    BY <1>4, <1>6, <2>1 DEF IsLicensed, Covers
<1>. QED
  BY <1>5, <1>6

\* Whichever row is taken is one of the product's; it is licensed if one of
\* them is, and then none that is lasts longer.
LEMMA BestIsBest ==
  ASSUME DecisionTypeOK, RowsInv, NEW p, NEW s \in Best(p)
  PROVE  /\ s \in Rows(p)
         /\ \A t \in Rows(p) : IsLicensed(t) => IsLicensed(s) /\ ~LastsLonger(t, s)
<1>1. PICK o \in Orders(p) : o # <<>> /\ s = Kept(o)
  BY DEF Best
<1>2. PICK n \in Nat : /\ n # 0 /\ Len(o) = n /\ o \in [1..n -> Rows(p)]
                       /\ \A t \in Rows(p) : \E j \in 1..n : o[j] = t
  BY <1>1, OrdersMeetAll
<1>3. PICK g : KeepsUpTo(o, n, g) /\ Kept(o) = g[n]
  <2>1. DOMAIN o = 1..n /\ Len(o) = n
    BY <1>2
  <2>. QED
    BY <2>1, KeptIsTheLast
<1>4. BestOfFirst(o, n, s)
  <2>1. n \in 1..n
    BY <1>2
  <2>. QED
    BY <1>1, <1>2, <1>3, <2>1, BestSoFar
<1>. QED
  BY <1>2, <1>4 DEF BestOfFirst

\* project-memory, Grant behavior: one source ending cannot mask another
\* active source.  In whatever order the rows of a product are met, the one
\* taken covers the product if any does, and lasts longest.
THEOREM AccessIsEffective == Spec => []EffectiveAccess
<1>1. AccessTypes => EffectiveAccess
  <2>. SUFFICES ASSUME AccessTypes, NEW p \in Products, NEW s \in Best(p), NEW covering,
                       covering = {t \in Rows(p) : Covers(t)}
                PROVE  /\ IsLicensed(s) <=> covering # {}
                       /\ covering # {} => s \in covering /\ ~\E t \in covering : LastsLonger(t, s)
    BY DEF EffectiveAccess
  <2>1. DecisionTypeOK /\ RowsInv
    BY DEF AccessTypes, TypeOK
  <2>2. /\ s \in Rows(p)
        /\ \A t \in Rows(p) : IsLicensed(t) => IsLicensed(s) /\ ~LastsLonger(t, s)
    BY <2>1, BestIsBest
  <2>3. \A t \in Rows(p) : IsLicensed(t) <=> Covers(t)
    BY <2>1, LicensedIsCovered DEF Rows
  <2>. QED
    BY <2>2, <2>3
<1>. QED
  BY <1>1, AccessTypesInit, AccessTypesStep, PTL DEF Spec
\* README, Seeded packages: nothing of a private product is told to a customer
\* whose rows do not cover it, or who may see no release of it.
THEOREM PrivateIsHidden == Spec => []PrivateStaysHidden
<1>1. ASSUME AccessTypes, NEW p \in Licensed
      PROVE  \E s \in Sources : ProductOf[s] = p /\ Covers(s)
  <2>1. PICK s \in Best(p) : IsLicensed(s)
    BY <1>1 DEF Licensed, LicensedProducts
  <2>2. DecisionTypeOK /\ RowsInv
    BY <1>1 DEF AccessTypes, TypeOK
  <2>3. s \in Sources /\ ProductOf[s] = p /\ entitlements[s] # NULL
    BY <2>1, <2>2, BestIsBest DEF Rows
  <2>. QED
    BY <2>1, <2>2, <2>3, LicensedIsCovered
<1>2. AccessTypes => PrivateStaysHidden
  <2>. SUFFICES ASSUME AccessTypes, NEW channel \in Channels, NEW p \in Products,
                       products[p].private,
                       NEW licensed, licensed = Licensed,
                       NEW m, m = release_manifest(licensed, channel, ReleaseTypes),
                       p \in m.license.strategies \cup m.license.lease \cup m.license.states
                               \cup m.packages \cup {ReleasedFor[r] : r \in m.releases}
                PROVE  \E s \in Sources, r \in Releases :
                         /\ ProductOf[s] = p /\ Covers(s)
                         /\ ReleasedFor[r] = p /\ Visible(r, channel)
    BY Zenon DEF PrivateStaysHidden
  <2>. DEFINE hidden == Private \ VisiblePrivate(channel, licensed)
  <2>1. /\ m.license = _manifest_license_response(licensed, hidden)
        /\ m.packages = _trader_manifest_packages(hidden)
        /\ m.releases = IF licensed = {} THEN {}
                        ELSE _select_visible_releases(Candidates(ReleaseTypes, licensed), channel)
    BY DEF release_manifest
  <2>2. p \in Private
    BY DEF Private
  <2>3. CASE p \in m.license.strategies \cup m.license.lease \cup m.license.states \cup m.packages
    <3>1. p \notin hidden
      BY <2>1, <2>3 DEF _manifest_license_response, _trader_manifest_packages
    <3>2. p \in VisiblePrivate(channel, licensed)
      BY <2>2, <3>1
    <3>3. p \in licensed /\ \E r \in Releases : ReleasedFor[r] = p /\ Visible(r, channel)
      BY <3>2 DEF VisiblePrivate
    <3>. QED
      BY <1>1, <3>3
  <2>4. CASE p \in {ReleasedFor[r] : r \in m.releases}
    <3>1. PICK r \in m.releases : ReleasedFor[r] = p
      BY <2>4
    <3>2. r \in Candidates(ReleaseTypes, licensed) /\ _release_visible_to_customer(r, channel)
      BY <2>1, <3>1 DEF _select_visible_releases, Newest
    <3>3. r \in Releases /\ Visible(r, channel) /\ p \in licensed \cup {NULL}
      BY <3>1, <3>2 DEF Candidates, Visible
    <3>4. p \in licensed
      BY <3>3, DecisionAssumption
    <3>. QED
      BY <1>1, <3>1, <3>3, <3>4
  <2>. QED
    BY <2>3, <2>4
<1>. QED
  BY <1>2, AccessTypesInit, AccessTypesStep, PTL DEF Spec

-----------------------------------------------------------------------------
(* The newest release of a package *)

\* The sort key of a release.
KeyOf(x) ==
  <<Priority(releases[x].channel), IF releases[x].is_required THEN 1 ELSE 0, updated[x], x>>

\* k comes after l, digit by digit.
Beyond(k, l) ==
  \/ k[1] > l[1]
  \/ k[1] = l[1] /\ k[2] > l[2]
  \/ k[1] = l[1] /\ k[2] = l[2] /\ k[3] > l[3]
  \/ k[1] = l[1] /\ k[2] = l[2] /\ k[3] = l[3] /\ k[4] > l[4]

LEMMA NewerIsBeyond ==
  ASSUME NEW r, NEW s
  PROVE  Newer(r, s) <=> Beyond(KeyOf(r), KeyOf(s))
<1>. PICK k, l : k = KeyOf(r) /\ l = KeyOf(s)
  OBVIOUS
<1>1. Newer(r, s) <=> \E i \in 1..4 : k[i] > l[i] /\ \A j \in 1..i - 1 : k[j] = l[j]
  BY DEF Newer, KeyOf
<1>2. ASSUME NEW i \in 1..4, k[i] > l[i] /\ \A j \in 1..i - 1 : k[j] = l[j]
      PROVE  Beyond(k, l)
  <2>1. CASE i = 1
    BY <1>2, <2>1 DEF Beyond
  <2>2. CASE i = 2
    BY <1>2, <2>2 DEF Beyond
  <2>3. CASE i = 3
    BY <1>2, <2>3 DEF Beyond
  <2>4. CASE i = 4
    BY <1>2, <2>4 DEF Beyond
  <2>. QED
    BY <2>1, <2>2, <2>3, <2>4
<1>3. ASSUME Beyond(k, l)
      PROVE  \E i \in 1..4 : k[i] > l[i] /\ \A j \in 1..i - 1 : k[j] = l[j]
  <2>1. CASE k[1] > l[1]
    <3>1. \A j \in 1..1 - 1 : k[j] = l[j]
      OBVIOUS
    <3>. QED
      BY <2>1, <3>1
  <2>2. CASE k[1] = l[1] /\ k[2] > l[2]
    <3>1. \A j \in 1..2 - 1 : k[j] = l[j]
      BY <2>2
    <3>. QED
      BY <2>2, <3>1
  <2>3. CASE k[1] = l[1] /\ k[2] = l[2] /\ k[3] > l[3]
    <3>1. \A j \in 1..3 - 1 : k[j] = l[j]
      BY <2>3
    <3>. QED
      BY <2>3, <3>1
  <2>4. CASE k[1] = l[1] /\ k[2] = l[2] /\ k[3] = l[3] /\ k[4] > l[4]
    <3>1. \A j \in 1..4 - 1 : k[j] = l[j]
      BY <2>4
    <3>. QED
      BY <2>4, <3>1
  <2>. QED
    BY <1>3, <2>1, <2>2, <2>3, <2>4 DEF Beyond
<1>. QED
  BY <1>1, <1>2, <1>3

\* Releases are ordered one after the other: no two have the same key.
LEMMA NewerIsAnOrder ==
  ASSUME TypeOK, NEW q \in Releases, NEW r \in Releases, NEW s \in Releases
  PROVE  /\ ~(Newer(r, s) /\ Newer(s, r))
         /\ r # s => Newer(r, s) \/ Newer(s, r)
         /\ Newer(q, r) /\ Newer(r, s) => Newer(q, s)
<1>. DEFINE K == Int \X Int \X Int \X Int
<1>1. ASSUME NEW x \in Releases PROVE KeyOf(x) \in K /\ KeyOf(x)[4] = x
  <2>1. releases[x].channel \in Channels
    BY DEF TypeOK, Target
  <2>2. Priority(releases[x].channel) \in Int
    BY <2>1 DEF Priority, Channels
  <2>3. updated[x] \in Int /\ x \in Int
    BY AccessAssumption, DecisionAssumption DEF TypeOK, Time
  <2>. QED
    BY <2>2, <2>3 DEF KeyOf
<1>2. PICK j \in K, k \in K, l \in K : /\ j = KeyOf(q) /\ k = KeyOf(r) /\ l = KeyOf(s)
                                       /\ k[4] = r /\ l[4] = s
  BY <1>1
<1>3. ~(Beyond(k, l) /\ Beyond(l, k)) /\ (r # s => Beyond(k, l) \/ Beyond(l, k))
  BY <1>2 DEF Beyond
<1>4. Beyond(j, k) /\ Beyond(k, l) => Beyond(j, l)
  BY DEF Beyond
<1>. QED
  BY <1>2, <1>3, <1>4, NewerIsBeyond

\* Of the releases of one package, one is the newest.
LEMMA OneIsNewest ==
  ASSUME TypeOK, NEW rs \in SUBSET Releases, NEW r \in rs
  PROVE  \E n : {o \in Newest(rs) : SameGroup(o, r)} = {n}
<1>. DEFINE group == {x \in rs : SameGroup(x, r)}
            above(x) == {y \in group : Newer(y, x)}
            counts == {Cardinality(above(x)) : x \in group}
<1>1. IsFiniteSet(group) /\ group \subseteq Releases /\ r \in group
  <2>1. group \in SUBSET Releases
    OBVIOUS
  <2>2. r \in group
    BY DEF SameGroup
  <2>. HIDE DEF group
  <2>. QED
    BY <2>1, <2>2, AccessAssumption, FS_Subset
<1>2. \A x \in rs, y \in group : SameGroup(x, y) <=> x \in group
  BY DEF SameGroup
<1>. HIDE DEF group
<1>3. ASSUME NEW x \in group PROVE IsFiniteSet(above(x)) /\ Cardinality(above(x)) \in Nat
  <2>1. above(x) \in SUBSET group
    OBVIOUS
  <2>. HIDE DEF above
  <2>. QED
    BY <1>1, <2>1, FS_Subset, FS_CardinalityType
<1>4. PICK n \in group : \A x \in group : Cardinality(above(n)) <= Cardinality(above(x))
  <2>1. counts \subseteq Nat /\ counts # {}
    BY <1>1, <1>3
  <2>2. PICK c \in counts : \A d \in counts : c <= d
    <3>. HIDE DEF counts
    <3>. QED
      BY <2>1, LeastNumber
  <2>. QED
    BY <2>2
<1>5. ASSUME NEW s \in group, s # n PROVE Newer(n, s)
  <2>1. SUFFICES ASSUME ~Newer(n, s) PROVE FALSE
    OBVIOUS
  <2>2. Newer(s, n) /\ ~Newer(s, s)
    BY <1>1, <1>5, <2>1, NewerIsAnOrder
  <2>3. \A x \in group : Newer(x, s) => Newer(x, n)
    BY <1>1, <2>2, NewerIsAnOrder
  <2>4. above(s) \in SUBSET above(n) /\ s \in above(n) /\ s \notin above(s)
    BY <2>2, <2>3
  <2>5. /\ IsFiniteSet(above(n)) /\ Cardinality(above(s)) \in Nat /\ Cardinality(above(n)) \in Nat
        /\ Cardinality(above(n)) <= Cardinality(above(s))
    BY <1>3, <1>4
  <2>. HIDE DEF above
  <2>6. Cardinality(above(s)) <= Cardinality(above(n))
        /\ (Cardinality(above(n)) = Cardinality(above(s)) => above(n) = above(s))
    BY <2>4, <2>5, FS_Subset
  <2>. QED
    BY <2>4, <2>5, <2>6
<1>6. n \in rs /\ SameGroup(n, r) /\ n \in Newest(rs)
  <2>1. n \in rs /\ SameGroup(n, r)
    BY DEF group
  <2>2. \A s \in rs : SameGroup(n, s) => s \in group
    BY <2>1 DEF group, SameGroup
  <2>. QED
    BY <1>5, <2>1, <2>2 DEF Newest
<1>7. ASSUME NEW o \in Newest(rs), SameGroup(o, r) PROVE o = n
  <2>1. o \in rs /\ o \in group /\ SameGroup(o, n)
    BY <1>6, <1>7 DEF Newest, group, SameGroup
  <2>2. n = o \/ Newer(o, n)
    BY <1>6, <1>7, <2>1 DEF Newest
  <2>. QED
    BY <1>1, <1>5, <2>1, <2>2, NewerIsAnOrder
<1>8. {o \in Newest(rs) : SameGroup(o, r)} = {n}
  BY <1>6, <1>7
<1>. QED
  BY <1>8

\* README, TraderPro Release Download: the manifest and the download token
\* agree.  What is offered would be given; of each package the customer could
\* have something of, one release is offered; and one of TraderPro Desktop if
\* the customer could have any that is saved under its key, and never two.
THEOREM OffersAreGiven == Spec => []OffersMatchDownloads
<1>1. TypeOK => OffersMatchDownloads
  <2>. DEFINE Offered(licensed, channel, types) == release_manifest(licensed, channel, types).releases
              Had(licensed, channel, types) ==
                {r \in Releases : Type[r] \in types /\ licensed # {} /\ MayHave(r, channel, licensed)}
              Desktop(had) == {r \in had : Type[r] = "trader_desktop"}
              Match(offered, had, desktop) ==
                /\ offered \subseteq had
                /\ \A r \in had \ desktop : Cardinality({o \in offered : SameGroup(o, r)}) = 1
                /\ Cardinality(offered \cap desktop)
                     = IF \E r \in desktop : Package[r] = DesktopKey THEN 1 ELSE 0
  <2>0. SUFFICES ASSUME TypeOK, NEW licensed, NEW channel \in Channels,
                        NEW types \in {DefaultTypes, ReleaseTypes}
                 PROVE  Match(Offered(licensed, channel, types), Had(licensed, channel, types),
                              Desktop(Had(licensed, channel, types)))
    BY Zenon DEF OffersMatchDownloads
  <2>. PICK offered, had, desktop :
         /\ offered = Offered(licensed, channel, types) /\ had = Had(licensed, channel, types)
         /\ desktop = Desktop(had)
    OBVIOUS
  <2>1. offered = IF licensed = {} THEN {}
                  ELSE _select_visible_releases(Candidates(types, licensed), channel)
    BY DEF release_manifest
  <2>2. CASE licensed = {}
    <3>1. offered = {} /\ had = {} /\ desktop = {}
      BY <2>1, <2>2
    <3>. QED
      BY <3>1, FS_EmptySet
  <2>3. CASE licensed # {}
    <3>. PICK seen : seen = {r \in Candidates(types, licensed) : _release_visible_to_customer(r, channel)}
      OBVIOUS
    <3>1. seen = {r \in had : Type[r] = "trader_desktop" => Package[r] = DesktopKey}
      BY <2>3 DEF Candidates, MayHave, Visible
    <3>2. offered = Newest(seen) /\ offered \subseteq seen /\ seen \in SUBSET Releases
      BY <2>1, <2>3, <3>1 DEF _select_visible_releases, Newest
    <3>3. ASSUME NEW r \in seen PROVE \E n : {o \in offered : SameGroup(o, r)} = {n}
      BY <2>0, <3>2, <3>3, OneIsNewest
    <3>4. offered \subseteq had
      BY <3>1, <3>2
    <3>5. ASSUME NEW r \in had \ desktop PROVE Cardinality({o \in offered : SameGroup(o, r)}) = 1
      <4>1. r \in seen
        BY <3>1, <3>5
      <4>2. PICK n : {o \in offered : SameGroup(o, r)} = {n}
        BY <3>3, <4>1
      <4>. QED
        BY <4>2, FS_Singleton
    <3>6. CASE \E r \in desktop : Package[r] = DesktopKey
      <4>1. PICK r \in desktop : Package[r] = DesktopKey
        BY <3>6
      <4>2. r \in seen /\ Type[r] = "trader_desktop"
        BY <3>1, <4>1
      <4>3. PICK n : {o \in offered : SameGroup(o, r)} = {n}
        BY <3>3, <4>2
      <4>4. offered \cap desktop = {o \in offered : SameGroup(o, r)}
        BY <3>1, <3>2, <4>1, <4>2 DEF SameGroup
      <4>5. Cardinality(offered \cap desktop) = 1
        BY <4>3, <4>4, FS_Singleton
      <4>. QED
        BY <3>4, <3>5, <3>6, <4>5
    <3>7. CASE ~\E r \in desktop : Package[r] = DesktopKey
      <4>1. offered \cap desktop = {}
        BY <3>1, <3>2, <3>7
      <4>2. Cardinality(offered \cap desktop) = 0
        BY <4>1, FS_EmptySet
      <4>. QED
        BY <3>4, <3>5, <3>7, <4>2
    <3>. QED
      BY <3>6, <3>7
  <2>. QED
    BY <2>2, <2>3
<1>2. AccessTypes => TypeOK
  BY DEF AccessTypes
<1>. QED
  BY <1>1, <1>2, AccessTypesInit, AccessTypesStep, PTL DEF Spec
=============================================================================
