--------------------------- MODULE TradovateOAuth ---------------------------
(***************************************************************************)
(* The Tradovate login of TraderPro Desktop.  A licensed desktop starts a  *)
(* login and polls for its outcome with a one-time state; the customer's   *)
(* browser comes back with a code, which the server exchanges for an       *)
(* access token; the desktop collects the token with a session id that     *)
(* lets it renew the token later.                                          *)
(*                                                                         *)
(* The server serves one request at a time (app.py, main), but a request   *)
(* runs several database sessions with calls to Tradovate in between: time *)
(* passes, and the process may die.  Token and session numbers stand for   *)
(* the random texts.                                                       *)
(***************************************************************************)
EXTENDS Integers

CONSTANTS
  NULL,          \* SQL NULL
  Desktops,      \* a customer with a machine
  Starters,      \* bound: the desktops among them that start logins
  States,        \* the random states of the logins
  StateSeconds,  \* max(60, TRADOVATE_OAUTH_STATE_SECONDS)
  KeepSeconds,   \* seven days
  Lifetimes,     \* lifetimes of tokens, NULL when Tradovate names none
  MaxNow,        \* bound: last second
  MaxTokens,     \* bound: tokens Tradovate issues
  MaxFaults,     \* bound: crashes and raised exceptions
  MaxEdits       \* bound: changes of licenses

ASSUME OAuthAssumption ==
  /\ NULL \notin Nat /\ NULL \notin Desktops /\ NULL \notin States
  /\ Starters \subseteq Desktops
  /\ StateSeconds \in Nat \ {0} /\ KeepSeconds \in Nat
  /\ Lifetimes \subseteq (Nat \ {0}) \cup {NULL}
  /\ MaxNow \in Nat /\ MaxTokens \in Nat /\ MaxFaults \in Nat /\ MaxEdits \in Nat

VARIABLES
  now,       \* the second
  rows,      \* tradovate_oauth_states by state, NULL where there is none
  licensed,  \* desktops whose license check is answered active
  request,   \* the request being served
  started,   \* whose login each state is, NULL when it was not drawn yet
  issued,    \* tokens and session ids drawn so far
  answer,    \* the last answer each login's desktop has had
  handed,    \* history: who was handed which session and a live token
  faults, edits

vars == <<now, rows, licensed, request, started, issued, answer, handed, faults, edits>>

Statuses == {"pending", "authorized", "failed", "expired"}

Idle == [pc |-> "idle", desktop |-> NULL, state |-> NULL, token |-> NULL, lifetime |-> NULL]

At(pc) == request.pc = pc

Goto(pc) == request' = [request EXCEPT !.pc = pc]

-----------------------------------------------------------------------------
(* Rows *)

NewState(d) ==
  [status |-> "pending", owner |-> d, created_at |-> now,
   state_expires_at |-> now + StateSeconds,
   token |-> NULL, token_expires_at |-> NULL, session |-> NULL]

Overdue(row) ==
  \/ row.status = "pending" /\ row.state_expires_at <= now
  \/ row.status = "authorized" /\ row.token_expires_at # NULL /\ row.token_expires_at <= now

\* Error to be caught: only tokens expire.
ExpireTokenOnly(row) ==
  IF row.status = "authorized" /\ Overdue(row) THEN [row EXCEPT !.status = "expired"] ELSE row

\* Error to be caught: only logins expire.
ExpireLoginOnly(row) ==
  IF row.status = "pending" /\ Overdue(row) THEN [row EXCEPT !.status = "expired"] ELSE row

\* _expire_tradovate_oauth_row_if_needed
Expire(row) == IF Overdue(row) THEN [row EXCEPT !.status = "expired"] ELSE row

\* _cleanup_tradovate_oauth_states: rows whose token may be in use stay.
Cleaned(row) ==
  IF row = NULL THEN NULL
  ELSE LET swept == IF row.status = "pending" THEN Expire(row) ELSE row
       IN  IF swept.status # "authorized" /\ swept.created_at < now - KeepSeconds
           THEN NULL ELSE swept

\* Error to be caught: every answer draws a session id of its own.
WithSessionAlways(row) == [row EXCEPT !.session = issued + 1]

\* Error to be caught: the last login's session id is used again.
WithSessionAgain(row) == IF row.session = NULL THEN [row EXCEPT !.session = issued] ELSE row

\* _tradovate_oauth_session_id: a row of before migration 011 is given one.
WithSession(row) == IF row.session = NULL THEN [row EXCEPT !.session = issued + 1] ELSE row

ExpiryOf(lifetime) == IF lifetime = NULL THEN NULL ELSE now + lifetime

-----------------------------------------------------------------------------
(* Starting a login *)

\* check_license, in a session of its own; other answers than active end the
\* request.  Bound: a login expires within the seconds of the model.
start_tradovate_oauth(d, s) ==
  /\ At("idle") /\ d \in licensed \cap Starters /\ started[s] = NULL
  /\ now + StateSeconds <= MaxNow
  /\ request' = [Idle EXCEPT !.pc = "start", !.desktop = d, !.state = s]
  /\ started' = [started EXCEPT ![s] = d]
  /\ UNCHANGED <<now, rows, licensed, issued, answer, handed, faults, edits>>

InsertState ==
  /\ At("start")
  /\ rows' = [s \in States |-> IF s = request.state THEN NewState(request.desktop)
                               ELSE Cleaned(rows[s])]
  /\ answer' = [answer EXCEPT ![request.state] = "pending"]
  /\ request' = Idle
  /\ UNCHANGED <<now, licensed, started, issued, handed, faults, edits>>

-----------------------------------------------------------------------------
(* The browser comes back *)

\* Error to be caught: a login that was settled is taken up again.
OpenAgain(row) == row.status # "expired"

Open(row) == row.status = "pending"

\* tradovate_oauth_callback, up to the call to Tradovate.  A browser may come
\* back more than once, with an error or with a code.
tradovate_oauth_callback(s, has_code) ==
  /\ At("idle") /\ rows[s] # NULL
  /\ LET row == Expire(rows[s])
     IN  /\ rows' = [rows EXCEPT ![s] = row]
         /\ request' = IF Open(row)
                       THEN [Idle EXCEPT !.pc = IF has_code THEN "exchange" ELSE "fail", !.state = s]
                       ELSE Idle
  /\ UNCHANGED <<now, licensed, started, issued, answer, handed, faults, edits>>

\* exchange_code and me, calls to Tradovate; only the first may fail the login.
Exchange(lifetime) ==
  /\ At("exchange")
  /\ \/ /\ issued < MaxTokens
        /\ issued' = issued + 1
        /\ request' = [request EXCEPT !.pc = "authorize", !.token = issued + 1, !.lifetime = lifetime]
     \/ Goto("fail") /\ UNCHANGED issued
  /\ UNCHANGED <<now, rows, licensed, started, answer, handed, faults, edits>>

\* No condition on the status of the row: the callback has just looked.
fail_tradovate_oauth ==
  /\ At("fail")
  /\ rows' = [rows EXCEPT ![request.state].status = "failed"]
  /\ request' = Idle
  /\ UNCHANGED <<now, licensed, started, issued, answer, handed, faults, edits>>

\* Error to be caught: the login is not looked at again after the exchange.
AuthorizedUnseen(row, token, lifetime) ==
  [row EXCEPT !.status = "authorized", !.token = token,
              !.token_expires_at = ExpiryOf(lifetime), !.session = token]

\* The login may have expired during the exchange.
Authorized(row, token, lifetime) ==
  IF ~Open(Expire(row)) THEN Expire(row)
  ELSE [row EXCEPT !.status = "authorized", !.token = token,
                   !.token_expires_at = ExpiryOf(lifetime), !.session = token]

authorize_tradovate_oauth ==
  /\ At("authorize")
  /\ rows' = [rows EXCEPT ![request.state] = Authorized(@, request.token, request.lifetime)]
  /\ request' = Idle
  /\ UNCHANGED <<now, licensed, started, issued, answer, handed, faults, edits>>

-----------------------------------------------------------------------------
(* The desktop collects the token, and renews it *)

Handed(d, s, row) ==
  [desktop |-> d, state |-> s, session |-> row.session,
   live |-> row.token_expires_at = NULL \/ now < row.token_expires_at]

\* check_license, in a session of its own; without an active license the
\* answer is failed, whatever the login's status.
CheckLicense(pc, d, s) ==
  /\ At("idle") /\ started[s] # NULL /\ d \in licensed
  /\ request' = [Idle EXCEPT !.pc = pc, !.desktop = d, !.state = s]
  /\ UNCHANGED <<now, rows, licensed, started, issued, answer, handed, faults, edits>>

complete_tradovate_oauth(d, s) == CheckLicense("claim", d, s)

\* The desktop names its login by the session id, or by the state.
tradovate_oauth_refresh(d, s) == CheckLicense("renewal", d, s)

\* Error to be caught: whoever knows the state is given the token.
BoundToAnyone(row, d) == TRUE

BoundTo(row, d) == row.owner = d

\* _tradovate_oauth_claim_or_refresh_context: what the row answers, and the
\* row it leaves.
Outcome(row, d) ==
  IF row = NULL THEN "expired"
  ELSE IF ~BoundTo(row, d) THEN "mismatch"
  ELSE row.status

Context(s) == IF rows[s] = NULL THEN NULL ELSE Expire(rows[s])

\* The owner's desktop hears the status; a mismatch is not about its login.
Answered(s, outcome) ==
  answer' = IF outcome = "mismatch" THEN answer ELSE [answer EXCEPT ![s] = outcome]

Claim ==
  LET s   == request.state
      d   == request.desktop
      row == Context(s)
  IN  /\ At("claim")
      /\ Answered(s, Outcome(row, d))
      /\ IF Outcome(row, d) = "authorized"
         THEN /\ rows' = [rows EXCEPT ![s] = WithSession(row)]
              /\ issued' = IF WithSession(row) = row THEN issued ELSE issued + 1
              /\ handed' = handed \cup {Handed(d, s, WithSession(row))}
         ELSE /\ rows' = [rows EXCEPT ![s] = row]
              /\ UNCHANGED <<issued, handed>>
      /\ request' = Idle
      /\ UNCHANGED <<now, licensed, started, faults, edits>>

RefreshContext ==
  LET s   == request.state
      row == Context(s)
  IN  /\ At("renewal")
      /\ IF Outcome(row, request.desktop) = "authorized"
         THEN /\ rows' = [rows EXCEPT ![s] = WithSession(row)]
              /\ issued' = IF WithSession(row) = row THEN issued ELSE issued + 1
              /\ Goto("renew")
              /\ UNCHANGED answer
         ELSE /\ rows' = [rows EXCEPT ![s] = row]
              /\ Answered(s, Outcome(row, request.desktop))
              /\ request' = Idle
              /\ UNCHANGED issued
      /\ UNCHANGED <<now, licensed, started, handed, faults, edits>>

\* renew_access_token, a call to Tradovate; a failure changes nothing.
Renew(lifetime) ==
  /\ At("renew")
  /\ \/ /\ issued < MaxTokens
        /\ issued' = issued + 1
        /\ request' = [request EXCEPT !.pc = "store", !.token = issued + 1, !.lifetime = lifetime]
     \/ request' = Idle /\ UNCHANGED issued
  /\ UNCHANGED <<now, rows, licensed, started, answer, handed, faults, edits>>

store_tradovate_oauth_refresh ==
  LET s   == request.state
      row == WithSession([rows[s] EXCEPT !.token = request.token,
                                         !.token_expires_at = ExpiryOf(request.lifetime)])
  IN  /\ At("store")
      /\ IF rows[s].status = "authorized"
         THEN /\ rows' = [rows EXCEPT ![s] = row]
              /\ handed' = handed \cup {Handed(request.desktop, s, row)}
         ELSE UNCHANGED <<rows, handed>>
      /\ answer' = [answer EXCEPT ![s] = rows[s].status]
      /\ request' = Idle
      /\ UNCHANGED <<now, licensed, started, issued, faults, edits>>

-----------------------------------------------------------------------------
(* Everything else *)

\* The process dies, or a session raises and is rolled back.
Crash ==
  /\ ~At("idle") /\ faults < MaxFaults
  /\ faults' = faults + 1
  /\ request' = Idle
  /\ UNCHANGED <<now, rows, licensed, started, issued, answer, handed, edits>>

\* Administrators and webhooks change what desktops are licensed, between
\* requests; coverage also ends by itself.
SetLicensed(d) ==
  /\ edits < MaxEdits /\ (d \in licensed \/ At("idle"))
  /\ edits' = edits + 1
  /\ licensed' = IF d \in licensed THEN licensed \ {d} ELSE licensed \cup {d}
  /\ UNCHANGED <<now, rows, request, started, issued, answer, handed, faults>>

\* Bound: a login that is being started expires within the model.
Tick ==
  /\ now < MaxNow
  /\ At("start") => now + StateSeconds < MaxNow
  /\ now' = now + 1
  /\ UNCHANGED <<rows, licensed, request, started, issued, answer, handed, faults, edits>>

-----------------------------------------------------------------------------
\* A login of before migration 011 has no session id.
Legacy(d) ==
  [NewState(d) EXCEPT !.status = "authorized", !.token = 0, !.token_expires_at = MaxNow]

Init ==
  /\ now = 0 /\ issued = 0
  /\ licensed = Desktops
  /\ request = Idle
  /\ started \in {[s \in States |-> NULL]} \cup {[s \in States |-> IF s = t THEN d ELSE NULL] :
                                                 t \in States, d \in Starters}
  /\ rows = [s \in States |-> IF started[s] = NULL THEN NULL ELSE Legacy(started[s])]
  /\ answer = [s \in States |-> IF started[s] = NULL THEN NULL ELSE "authorized"]
  /\ handed = {}
  /\ faults = 0 /\ edits = 0

Serve ==
  \/ InsertState \/ fail_tradovate_oauth \/ authorize_tradovate_oauth
  \/ Claim \/ RefreshContext \/ store_tradovate_oauth_refresh
  \/ \E lifetime \in Lifetimes : Exchange(lifetime) \/ Renew(lifetime)

Next ==
  \/ \E d \in Desktops, s \in States :
       \/ start_tradovate_oauth(d, s)
       \/ complete_tradovate_oauth(d, s)
       \/ tradovate_oauth_refresh(d, s)
  \/ \E s \in States, has_code \in BOOLEAN : tradovate_oauth_callback(s, has_code)
  \/ Serve \/ Crash \/ Tick
  \/ \E d \in Desktops : SetLicensed(d)

Spec == Init /\ [][Next]_vars

\* Requests are served to their end and time passes; the desktop polls until
\* it hears how its login ended.  Nobody makes the browser come back.
Fairness ==
  /\ WF_vars(Serve) /\ WF_vars(Tick)
  /\ \A s \in States : SF_vars(\E d \in Desktops : started[s] = d /\ complete_tradovate_oauth(d, s))

FairSpec == Spec /\ Fairness

-----------------------------------------------------------------------------
(* Types *)

Row == [status : Statuses, owner : Desktops, created_at : Nat, state_expires_at : Nat,
        token : Nat \cup {NULL}, token_expires_at : Nat \cup {NULL},
        session : Nat \cup {NULL}]

\* A query that finds no row answers None.
ASSUME RowAssumption == NULL \notin Row

Request ==
  [pc : {"idle", "start", "exchange", "fail", "authorize", "claim", "renewal", "renew", "store"},
   desktop : Desktops \cup {NULL}, state : States \cup {NULL},
   token : Nat \cup {NULL}, lifetime : Nat \cup {NULL}]

\* Rows belong to the desktop that drew their state, an authorized row holds a
\* token, and no two rows share a session id (UNIQUE).
TypeOK ==
  /\ now \in Nat
  /\ rows \in [States -> Row \cup {NULL}]
  /\ licensed \subseteq Desktops
  /\ request \in Request
  /\ started \in [States -> Desktops \cup {NULL}]
  /\ issued \in Nat
  /\ answer \in [States -> Statuses \cup {NULL}]
  /\ faults \in Nat /\ edits \in Nat
  /\ \A s \in States : rows[s] # NULL =>
       /\ rows[s].owner = started[s]
       /\ rows[s].status = "authorized" => rows[s].token # NULL
       /\ \A t \in States \ {s} :
            rows[t] # NULL /\ rows[s].session # NULL => rows[s].session # rows[t].session

-----------------------------------------------------------------------------
(* What a login promises *)

Later(status) ==
  CASE status = "pending"    -> Statuses
    [] status = "authorized" -> {"authorized", "expired"}
    [] status = "failed"     -> {"failed", "expired"}
    [] status = "expired"    -> {"expired"}

\* project-memory, Tradovate OAuth: complete answers pending, authorized,
\* failed or expired.  Once the owner's desktop has heard how its login ended,
\* no browser that comes back, crash, clean-up or renewal makes it anything
\* but expired.  The "failed" a desktop hears when its license is not active is
\* about the license, not the login, and is left out.
AnswersAdvance ==
  [][\A s \in States : answer[s] # NULL => answer'[s] \in Later(answer[s])]_vars

\* project-memory, Security: completion and refresh stay bound to the desktop
\* that started the login.  Nobody else is ever handed its token, nor a
\* session id that renews it.
HandedToOwner == \A h \in handed : started[h.state] = h.desktop

\* A login that is not finished in TRADOVATE_OAUTH_STATE_SECONDS cannot be
\* authorized any more, even when it ran out while Tradovate was asked.
AuthorizedInTime ==
  [][\A s \in States :
       /\ rows[s] # NULL /\ rows'[s] # NULL
       /\ rows[s].status = "pending" /\ rows'[s].status = "authorized"
       => now < rows[s].state_expires_at]_vars

\* No desktop is handed a token that has expired already.
TokensAreLive == \A h \in handed : h.live

\* project-memory: oauth_session_id is the durable refresh handle.  The one a
\* desktop was handed first stays good for as long as the login is authorized,
\* over repeated completions, renewals and logins of before migration 011.
SessionStaysGood ==
  \A h \in handed :
    rows[h.state] # NULL /\ rows[h.state].status = "authorized" =>
      h.session = rows[h.state].session

\* A desktop that keeps polling hears how its login ended, whether or not its
\* browser ever comes back and whatever crashes, unless it loses its license.
PollingEnds ==
  \A s \in States :
    answer[s] = "pending" ~> answer[s] # "pending" \/ started[s] \notin licensed
=============================================================================
