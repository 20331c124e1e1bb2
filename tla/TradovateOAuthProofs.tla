------------------------ MODULE TradovateOAuthProofs ------------------------
(***************************************************************************)
(* The promises of a Tradovate login, for any desktops, states, lifetimes  *)
(* and numbers of requests, crashes and changes of licenses.               *)
(*                                                                         *)
(* None of them is inductive: they speak of answers and tokens given       *)
(* before, while the steps of a request rely on what the request found in  *)
(* its row.  OAuthInv adds both: RequestInv says what a request may rely   *)
(* on at each of its steps, since no other request is served in between;   *)
(* AnswersInv and HandedInv say what a row remembers of every answer and   *)
(* of every session id given for it.                                       *)
(***************************************************************************)
EXTENDS TradovateOAuth, TLAPS

Types ==
  /\ now \in Nat
  /\ rows \in [States -> Row \cup {NULL}]
  /\ licensed \subseteq Desktops
  /\ request \in Request
  /\ started \in [States -> Desktops \cup {NULL}]
  /\ issued \in Nat
  /\ answer \in [States -> Statuses \cup {NULL}]
  /\ faults \in Nat /\ edits \in Nat

\* Nobody holds this session id.
Unheld(n) == \A s \in States : rows[s] # NULL => rows[s].session # n

RowFits(s) ==
  /\ started[s] = NULL => rows[s] = NULL /\ answer[s] = NULL
  /\ rows[s] # NULL =>
       /\ rows[s].owner = started[s]
       /\ rows[s].status = "authorized" => rows[s].token # NULL
       /\ rows[s].session # NULL => rows[s].session \in 1..issued
       /\ \A t \in States \ {s} :
            rows[t] # NULL /\ rows[s].session # NULL => rows[s].session # rows[t].session

RowsInv == \A s \in States : RowFits(s)

RequestInv ==
  /\ ~At("idle") => request.state \in States /\ started[request.state] # NULL
  /\ request.pc \in {"start", "claim", "renewal", "renew", "store"} => request.desktop # NULL
  /\ At("start") =>
       /\ rows[request.state] = NULL /\ answer[request.state] = NULL
       /\ started[request.state] = request.desktop
       /\ \A h \in handed : h.state # request.state
  /\ request.pc \in {"exchange", "fail", "authorize"} =>
       /\ rows[request.state] # NULL
       /\ rows[request.state].status = "pending"
  /\ At("authorize") => request.token \in 1..issued /\ Unheld(request.token)
  /\ request.pc \in {"renew", "store"} =>
       /\ rows[request.state] # NULL
       /\ rows[request.state].status = "authorized"
       /\ rows[request.state].owner = request.desktop
       /\ rows[request.state].session # NULL
  /\ At("store") => request.token # NULL /\ request.lifetime # 0

\* What a row may become once its login was answered with a status.
EndsOf(status) ==
  CASE status = "pending"    -> Statuses
    [] status = "authorized" -> {"authorized", "expired"}
    [] status = "failed"     -> {"failed"}
    [] status = "expired"    -> {"expired"}

AnswersInv ==
  \A s \in States :
    answer[s] # NULL /\ rows[s] # NULL => rows[s].status \in EndsOf(answer[s])

HandedFits(h) ==
  /\ h.state \in States /\ h.desktop # NULL /\ started[h.state] = h.desktop
  /\ h.session \in Nat
  /\ h.live
  /\ rows[h.state] # NULL =>
       /\ rows[h.state].status \in {"authorized", "expired"}
       /\ rows[h.state].session = h.session

HandedInv == \A h \in handed : HandedFits(h)

OAuthInv == Types /\ RowsInv /\ RequestInv /\ AnswersInv /\ HandedInv

-----------------------------------------------------------------------------
(* Rows *)

\* What time may do to a row: it expires, and nothing else about it changes.
Aged(old, new) ==
  /\ new.owner = old.owner /\ new.token = old.token /\ new.session = old.session
  /\ new.token_expires_at = old.token_expires_at
  /\ new.state_expires_at = old.state_expires_at
  /\ \/ new.status = old.status
     \/ old.status \in {"pending", "authorized"} /\ new.status = "expired"

LEMMA ExpiredRow ==
  ASSUME now \in Nat, NEW row \in Row
  PROVE  /\ Expire(row) \in Row
         /\ Aged(row, Expire(row))
         /\ Expire(row).status = "pending" => now < row.state_expires_at
         /\ Expire(row).status = "authorized" =>
              row.token_expires_at = NULL \/ now < row.token_expires_at
BY OAuthAssumption DEF Expire, Overdue, Row, Statuses, Aged

LEMMA CleanedRow ==
  ASSUME now \in Nat, NEW row \in Row \cup {NULL}
  PROVE  /\ Cleaned(row) \in Row \cup {NULL}
         /\ row = NULL => Cleaned(row) = NULL
         /\ Cleaned(row) # NULL => Cleaned(row) \in Row /\ row \in Row /\ Aged(row, Cleaned(row))
<1>1. CASE row = NULL
  BY <1>1, RowAssumption DEF Cleaned
<1>2. CASE row # NULL
  <2>1. row \in Row /\ Expire(row) \in Row /\ Aged(row, Expire(row)) /\ Aged(row, row)
    BY <1>2, ExpiredRow DEF Aged
  <2>2. Cleaned(row) \in {NULL, row, Expire(row)}
    BY <1>2 DEF Cleaned
  <2> QED
    BY <1>2, <2>1, <2>2, RowAssumption
<1> QED
  BY <1>1, <1>2

LEMMA RowWithSession ==
  ASSUME issued \in Nat, NEW row \in Row
  PROVE  /\ WithSession(row) \in Row
         /\ WithSession(row).session # NULL
         /\ row.session # NULL => WithSession(row) = row
         /\ row.session = NULL => WithSession(row).session = issued + 1 /\ WithSession(row) # row
         /\ WithSession(row).owner = row.owner /\ WithSession(row).token = row.token
         /\ WithSession(row).status = row.status
         /\ WithSession(row).token_expires_at = row.token_expires_at
         /\ WithSession(row).state_expires_at = row.state_expires_at
BY OAuthAssumption DEF WithSession, Row

LEMMA AuthorizedRow ==
  ASSUME now \in Nat, NEW row \in Row, row.status = "pending", NEW token \in Nat,
         NEW lifetime \in Nat \cup {NULL},
         NEW new, new = Authorized(row, token, lifetime)
  PROVE  /\ new \in Row
         /\ new.owner = row.owner
         /\ \/ new.status = "expired" /\ new.session = row.session
            \/ /\ new.status = "authorized" /\ new.session = token /\ new.token = token
               /\ now < row.state_expires_at
<1>1. /\ Expire(row) \in Row /\ Aged(row, Expire(row))
      /\ Expire(row).status = "pending" => now < row.state_expires_at
  BY ExpiredRow
<1>2. ExpiryOf(lifetime) \in Nat \cup {NULL}
  BY OAuthAssumption DEF ExpiryOf
<1>3. CASE Expire(row).status # "pending"
  BY <1>1, <1>3 DEF Authorized, Open, Aged
<1>4. CASE Expire(row).status = "pending"
  <2>1. Authorized(row, token, lifetime) =
          [row EXCEPT !.status = "authorized", !.token = token,
                      !.token_expires_at = ExpiryOf(lifetime), !.session = token]
    BY <1>4 DEF Authorized, Open
  <2> QED
    BY <1>1, <1>2, <1>4, <2>1 DEF Row, Statuses
<1> QED
  BY <1>3, <1>4

-----------------------------------------------------------------------------
(* Writing one row *)

LEMMA OneRow ==
  ASSUME Types, RowsInv, NEW s \in States, NEW row \in Row \cup {NULL},
         rows' = [rows EXCEPT ![s] = row], started' = started,
         issued' \in Nat, issued <= issued',
         row # NULL =>
           /\ rows[s] # NULL /\ row.owner = rows[s].owner
           /\ row.status = "authorized" => row.token # NULL
           /\ row.session # rows[s].session => row.session \in 1..issued' /\ Unheld(row.session),
         \A t \in States : started[t] = NULL => answer'[t] = NULL
  PROVE  rows' \in [States -> Row \cup {NULL}] /\ RowsInv'
<1>1. rows' \in [States -> Row \cup {NULL}]
  BY DEF Types
<1>2. rows'[s] = row /\ \A t \in States \ {s} : rows'[t] = rows[t]
  BY DEF Types
<1>3. \A t \in States : RowFits(t)
  BY DEF RowsInv
<1>4. ASSUME NEW t \in States PROVE started[t] = NULL => rows'[t] = NULL
  BY <1>2, <1>3 DEF RowFits
<1>5. ASSUME NEW t \in States, rows'[t] # NULL
      PROVE  /\ rows'[t].owner = started[t]
             /\ rows'[t].status = "authorized" => rows'[t].token # NULL
  BY <1>2, <1>3, <1>5 DEF RowFits
<1>6. ASSUME NEW t \in States, rows'[t] # NULL, rows'[t].session # NULL
      PROVE  rows'[t].session \in 1..issued'
  <2>1. issued \in Nat
    BY DEF Types
  <2>2. rows[t] # NULL /\ rows[t].session # NULL => rows[t].session \in 1..issued'
    BY <1>3, <2>1 DEF RowFits
  <2> QED
    BY <1>2, <1>6, <2>2
<1>7. ASSUME NEW t \in States, NEW u \in States \ {t}, rows'[t] # NULL, rows'[u] # NULL,
             rows'[t].session # NULL
      PROVE  rows'[t].session # rows'[u].session
  <2>1. /\ rows[t] # NULL /\ rows[u] # NULL
        /\ rows[t].session # NULL => rows[t].session # rows[u].session
        /\ rows[u].session # NULL => rows[t].session # rows[u].session
    BY <1>2, <1>3, <1>7 DEF RowFits
  <2>2. CASE s \notin {t, u}
    BY <1>2, <1>7, <2>1, <2>2
  <2>3. CASE row.session = rows[s].session
    BY <1>2, <1>7, <2>1, <2>3
  <2>4. CASE s \in {t, u} /\ row.session # rows[s].session
    <3>1. Unheld(row.session)
      BY <1>2, <1>7, <2>4
    <3> QED
      BY <1>2, <1>7, <2>1, <2>4, <3>1 DEF Unheld
  <2> QED
    BY <2>2, <2>3, <2>4
<1> QED
  BY <1>1, <1>4, <1>5, <1>6, <1>7 DEF RowsInv, RowFits

LEMMA OneRowHanded ==
  ASSUME Types, HandedInv, NEW s \in States, NEW row \in Row \cup {NULL},
         rows' = [rows EXCEPT ![s] = row], started' = started,
         row # NULL =>
           /\ rows[s] # NULL
           /\ rows[s].status \in {"authorized", "expired"} => row.status \in {"authorized", "expired"}
           /\ rows[s].status \in {"authorized", "expired"} /\ rows[s].session # NULL
              => row.session = rows[s].session
  PROVE  \A h \in handed : HandedFits(h)'
<1> SUFFICES ASSUME NEW h \in handed PROVE HandedFits(h)'
  OBVIOUS
<1>1. HandedFits(h)
  BY DEF HandedInv
<1>2. rows'[s] = row /\ \A t \in States \ {s} : rows'[t] = rows[t]
  BY DEF Types
<1>3. h.session # NULL
  BY <1>1, OAuthAssumption DEF HandedFits
<1> QED
  BY <1>1, <1>2, <1>3 DEF HandedFits

\* A login that was answered with an end keeps it, whatever the row was when
\* the answer was given.
LEMMA OneRowAnswers ==
  ASSUME Types, AnswersInv, NEW s \in States, NEW row \in Row \cup {NULL},
         rows' = [rows EXCEPT ![s] = row], answer' = answer,
         row # NULL =>
           /\ rows[s] # NULL
           /\ row.status \in EndsOf(rows[s].status)
  PROVE  AnswersInv'
<1>1. rows'[s] = row /\ \A t \in States \ {s} : rows'[t] = rows[t]
  BY DEF Types
<1>2. ASSUME NEW t \in States \ {s}, answer[t] # NULL, rows'[t] # NULL
      PROVE  rows'[t].status \in EndsOf(answer[t])
  BY <1>1, <1>2 DEF AnswersInv
<1>3. ASSUME answer[s] # NULL, row # NULL
      PROVE  row.status \in EndsOf(answer[s])
  <2>1. rows[s].status \in EndsOf(answer[s]) /\ row.status \in EndsOf(rows[s].status)
    BY <1>3 DEF AnswersInv
  <2>2. answer[s] \in Statuses /\ row.status \in Statuses
    BY <1>3 DEF Types, Row
  <2> QED
    BY <2>1, <2>2 DEF EndsOf, Statuses
<1> QED
  BY <1>1, <1>2, <1>3 DEF AnswersInv

-----------------------------------------------------------------------------
(* What a step may do to the answers and to a login's status *)

StepAdvances == \A s \in States : answer[s] # NULL => answer'[s] \in Later(answer[s])

StepInTime ==
  \A s \in States :
    /\ rows[s] # NULL /\ rows'[s] # NULL
    /\ rows[s].status = "pending" /\ rows'[s].status = "authorized"
    => now < rows[s].state_expires_at

StepGood == OAuthInv' /\ StepAdvances /\ StepInTime

LEMMA SameAnswers ==
  ASSUME Types, answer' = answer PROVE StepAdvances
<1>1. \A s \in States : answer[s] \in Statuses \cup {NULL}
  BY DEF Types
<1> QED
  BY <1>1 DEF StepAdvances, Later, Statuses

\* Steps that write no row, no answer and nothing that was handed out, and
\* only go on with their request.
LEMMA QuietStep ==
  ASSUME OAuthInv, rows' = rows, answer' = answer, handed' = handed, started' = started,
         issued' \in Nat, issued <= issued', now' \in Nat, licensed' \subseteq Desktops,
         request' \in Request, faults' \in Nat, edits' \in Nat, RequestInv'
  PROVE  StepGood
<1> USE DEF OAuthInv
<1>1. Types'
  BY DEF Types
<1>2. RowsInv'
  <2>1. ASSUME NEW s \in States PROVE RowFits(s)'
    <3>1. RowFits(s)
      BY DEF RowsInv
    <3>2. issued \in Nat
      BY DEF Types
    <3> QED
      BY <3>1, <3>2 DEF RowFits
  <2> QED
    BY <2>1 DEF RowsInv
<1>3. AnswersInv'
  BY DEF AnswersInv
<1>4. HandedInv'
  BY DEF HandedInv, HandedFits
<1>5. StepAdvances
  BY SameAnswers
<1>6. StepInTime
  BY DEF StepInTime
<1> QED
  BY <1>1, <1>2, <1>3, <1>4, <1>5, <1>6 DEF StepGood

LEMMA IdleRequest == Idle \in Request
BY DEF Idle, Request

LEMMA StutterStep ==
  ASSUME OAuthInv, UNCHANGED vars PROVE StepGood
<1>1. RequestInv'
  BY DEF OAuthInv, RequestInv, vars, At, Unheld
<1> QED
  BY <1>1, QuietStep DEF vars, OAuthInv, Types

LEMMA TickStep ==
  ASSUME OAuthInv, Tick PROVE StepGood
<1>1. RequestInv'
  BY DEF OAuthInv, RequestInv, Tick, At, Unheld
<1> QED
  BY <1>1, QuietStep DEF Tick, OAuthInv, Types

LEMMA SetLicensedStep ==
  ASSUME OAuthInv, NEW d \in Desktops, SetLicensed(d) PROVE StepGood
<1>1. RequestInv'
  BY DEF OAuthInv, RequestInv, SetLicensed, At, Unheld
<1> QED
  BY <1>1, QuietStep DEF SetLicensed, OAuthInv, Types

LEMMA CrashStep ==
  ASSUME OAuthInv, Crash PROVE StepGood
<1>1. request' = Idle /\ RequestInv'
  BY DEF RequestInv, Crash, At, Idle
<1> QED
  BY <1>1, IdleRequest, QuietStep DEF Crash, OAuthInv, Types

LEMMA CheckLicenseStep ==
  ASSUME OAuthInv, NEW pc \in {"claim", "renewal"}, NEW d \in Desktops, NEW s \in States,
         CheckLicense(pc, d, s)
  PROVE  StepGood
<1>1. request' = [Idle EXCEPT !.pc = pc, !.desktop = d, !.state = s] /\ request' \in Request
  BY DEF CheckLicense, Idle, Request
<1>2. request'.pc = pc /\ request'.desktop = d /\ request'.state = s
  BY <1>1 DEF Idle
<1>3. RequestInv'
  BY <1>2, OAuthAssumption DEF RequestInv, CheckLicense, At
<1> QED
  BY <1>1, <1>3, QuietStep DEF CheckLicense, OAuthInv, Types

LEMMA ExchangeStep ==
  ASSUME OAuthInv, NEW lifetime \in Lifetimes, Exchange(lifetime) PROVE StepGood
<1> USE DEF OAuthInv
<1>1. /\ At("exchange") /\ request \in Request /\ issued \in Nat
      /\ lifetime \in Nat \cup {NULL}
  BY OAuthAssumption DEF Exchange, Types
<1>2. CASE request' = [request EXCEPT !.pc = "authorize", !.token = issued + 1, !.lifetime = lifetime]
           /\ issued' = issued + 1
  <2>1. /\ request' \in Request /\ request'.pc = "authorize" /\ request'.token = issued + 1
        /\ request'.state = request.state
    <3>1. issued + 1 \in Nat
      BY <1>1
    <3> QED
      BY <1>1, <1>2, <3>1 DEF Request
  <2>2. Unheld(issued + 1)
    <3> SUFFICES ASSUME NEW s \in States, rows[s] # NULL PROVE rows[s].session # issued + 1
      BY DEF Unheld
    <3>1. rows[s].session # NULL => rows[s].session \in 1..issued
      BY DEF RowsInv, RowFits
    <3> QED
      BY <1>1, <3>1, OAuthAssumption
  <2>3. RequestInv'
    BY <1>1, <1>2, <2>1, <2>2 DEF RequestInv, Exchange, At, Unheld
  <2> QED
    BY <1>1, <1>2, <2>1, <2>3, QuietStep DEF Exchange, Types
<1>3. CASE Goto("fail") /\ UNCHANGED issued
  <2>1. /\ request' \in Request /\ request'.pc = "fail" /\ request'.state = request.state
    BY <1>1, <1>3 DEF Request, Goto
  <2>2. RequestInv'
    BY <1>1, <1>3, <2>1 DEF RequestInv, Exchange, At
  <2> QED
    BY <1>1, <1>3, <2>1, <2>2, QuietStep DEF Exchange, Types
<1> QED
  BY <1>2, <1>3 DEF Exchange

LEMMA RenewStep ==
  ASSUME OAuthInv, NEW lifetime \in Lifetimes, Renew(lifetime) PROVE StepGood
<1> USE DEF OAuthInv
<1>1. /\ At("renew") /\ request \in Request /\ issued \in Nat
      /\ lifetime \in Nat \cup {NULL} /\ lifetime # 0
  BY OAuthAssumption DEF Renew, Types
<1>2. CASE request' = [request EXCEPT !.pc = "store", !.token = issued + 1, !.lifetime = lifetime]
           /\ issued' = issued + 1
  <2>1. /\ request' \in Request /\ request'.pc = "store" /\ request'.token = issued + 1
        /\ request'.lifetime = lifetime
        /\ request'.state = request.state /\ request'.desktop = request.desktop
    <3>1. issued + 1 \in Nat
      BY <1>1
    <3> QED
      BY <1>1, <1>2, <3>1 DEF Request
  <2>2. RequestInv'
    BY <1>1, <1>2, <2>1, OAuthAssumption DEF RequestInv, Renew, At
  <2> QED
    BY <1>1, <1>2, <2>1, <2>2, QuietStep DEF Renew, Types
<1>3. CASE request' = Idle /\ UNCHANGED issued
  <2>1. RequestInv'
    BY <1>3 DEF RequestInv, At, Idle
  <2> QED
    BY <1>1, <1>3, <2>1, IdleRequest, QuietStep DEF Renew, Types
<1> QED
  BY <1>2, <1>3 DEF Renew

-----------------------------------------------------------------------------
(* Steps that write rows *)

\* A request that is done needs nothing.
LEMMA IdleNeedsNothing ==
  ASSUME request' = Idle PROVE RequestInv'
BY DEF RequestInv, At, Idle

LEMMA StartStep ==
  ASSUME OAuthInv, NEW d \in Desktops, NEW s \in States, start_tradovate_oauth(d, s)
  PROVE  StepGood
<1> USE DEF OAuthInv
<1>1. /\ d # NULL /\ started[s] = NULL /\ started' = [started EXCEPT ![s] = d]
      /\ started \in [States -> Desktops \cup {NULL}]
  BY OAuthAssumption DEF start_tradovate_oauth, Types
<1>2. /\ started' \in [States -> Desktops \cup {NULL}] /\ started'[s] = d
      /\ \A t \in States \ {s} : started'[t] = started[t]
  BY <1>1
<1>3. rows[s] = NULL /\ answer[s] = NULL
  BY <1>1 DEF RowsInv, RowFits
<1>4. request' = [Idle EXCEPT !.pc = "start", !.desktop = d, !.state = s] /\ request' \in Request
  BY DEF start_tradovate_oauth, Idle, Request
<1>5. request'.pc = "start" /\ request'.desktop = d /\ request'.state = s
  BY <1>4 DEF Idle
<1>6. \A h \in handed : h.state # s
  BY <1>1 DEF HandedInv, HandedFits
<1>7. Types'
  BY <1>2, <1>4 DEF start_tradovate_oauth, Types
<1>8. RowsInv'
  <2>1. ASSUME NEW t \in States PROVE RowFits(t)'
    <3>1. RowFits(t)
      BY DEF RowsInv
    <3> QED
      BY <1>1, <1>2, <1>3, <3>1 DEF RowFits, start_tradovate_oauth
  <2> QED
    BY <2>1 DEF RowsInv
<1>9. RequestInv'
  BY <1>1, <1>2, <1>3, <1>5, <1>6 DEF RequestInv, start_tradovate_oauth, At
<1>10. AnswersInv'
  BY DEF AnswersInv, start_tradovate_oauth
<1>11. HandedInv'
  BY <1>2, <1>6 DEF HandedInv, HandedFits, start_tradovate_oauth
<1>12. StepAdvances /\ StepInTime
  BY SameAnswers DEF StepInTime, start_tradovate_oauth
<1> QED
  BY <1>7, <1>8, <1>9, <1>10, <1>11, <1>12 DEF StepGood

LEMMA NewRow ==
  ASSUME now \in Nat, NEW d \in Desktops
  PROVE  /\ NewState(d) \in Row
         /\ NewState(d).owner = d /\ NewState(d).status = "pending"
         /\ NewState(d).session = NULL
<1>1. now + StateSeconds \in Nat
  BY OAuthAssumption
<1> QED
  BY <1>1 DEF NewState, Row, Statuses

LEMMA InsertStateStep ==
  ASSUME OAuthInv, InsertState PROVE StepGood
<1> USE DEF OAuthInv
<1> DEFINE u == request.state
           d == request.desktop
<1>1. /\ u \in States /\ d \in Desktops /\ started[u] = d /\ d # NULL
      /\ rows[u] = NULL /\ answer[u] = NULL
      /\ \A h \in handed : h.state # u
  BY DEF InsertState, RequestInv, Types, Request, At
<1>2. NewState(d) \in Row /\ NewState(d).owner = d /\ NewState(d).status = "pending"
      /\ NewState(d).session = NULL /\ NewState(d) # NULL
  BY <1>1, NewRow, RowAssumption DEF Types
<1>3. /\ rows' = [s \in States |-> IF s = u THEN NewState(d) ELSE Cleaned(rows[s])]
      /\ answer' = [answer EXCEPT ![u] = "pending"]
      /\ request' = Idle
      /\ UNCHANGED <<now, licensed, started, issued, handed, faults, edits>>
  BY DEF InsertState
<1> HIDE DEF u, d
<1>4. rows'[u] = NewState(d)
  BY <1>1, <1>3
<1>5. ASSUME NEW s \in States \ {u}
      PROVE  /\ rows'[s] \in Row \cup {NULL}
             /\ rows[s] = NULL => rows'[s] = NULL
             /\ rows'[s] # NULL => rows[s] # NULL /\ rows'[s] \in Row /\ rows[s] \in Row
                                  /\ Aged(rows[s], rows'[s])
  BY <1>3, CleanedRow, RowAssumption DEF Types
<1>6. /\ answer' \in [States -> Statuses \cup {NULL}] /\ answer'[u] = "pending"
      /\ \A s \in States \ {u} : answer'[s] = answer[s]
  BY <1>1, <1>3 DEF Types, Statuses
<1>7. Types'
  <2>1. rows' \in [States -> Row \cup {NULL}]
    BY <1>2, <1>3, <1>4, <1>5
  <2> QED
    BY <1>3, <1>6, <2>1, IdleRequest DEF Types
<1>8. RowsInv'
  <2>1. ASSUME NEW s \in States PROVE RowFits(s)'
    <3>1. \A t \in States : RowFits(t)
      BY DEF RowsInv
    <3>2. CASE s = u
      BY <1>1, <1>2, <1>3, <1>4, <3>2 DEF RowFits
    <3>3. CASE s # u
      <4>1. started'[s] = NULL => rows'[s] = NULL /\ answer'[s] = NULL
        BY <1>3, <1>5, <1>6, <3>1, <3>3 DEF RowFits
      <4>2. ASSUME rows'[s] # NULL
            PROVE  /\ rows'[s].owner = started'[s]
                   /\ rows'[s].status = "authorized" => rows'[s].token # NULL
                   /\ rows'[s].session # NULL => rows'[s].session \in 1..issued'
        BY <1>3, <1>5, <3>1, <3>3, <4>2 DEF RowFits, Aged
      <4>3. ASSUME NEW t \in States \ {s}, rows'[s] # NULL, rows'[t] # NULL, rows'[s].session # NULL
            PROVE  rows'[s].session # rows'[t].session
        BY <1>2, <1>4, <1>5, <3>1, <3>3, <4>3 DEF RowFits, Aged
      <4> QED
        BY <4>1, <4>2, <4>3 DEF RowFits
    <3> QED
      BY <3>2, <3>3
  <2> QED
    BY <2>1 DEF RowsInv
<1>9. RequestInv'
  BY <1>3, IdleNeedsNothing
<1>10. AnswersInv'
  <2> SUFFICES ASSUME NEW s \in States, answer'[s] # NULL, rows'[s] # NULL
               PROVE  rows'[s].status \in EndsOf(answer'[s])
    BY DEF AnswersInv
  <2>1. CASE s = u
    BY <1>2, <1>4, <1>6, <2>1 DEF EndsOf, Statuses
  <2>2. CASE s # u
    <3>1. answer[s] \in Statuses /\ rows[s].status \in EndsOf(answer[s])
          /\ Aged(rows[s], rows'[s]) /\ rows'[s].status \in Statuses
      BY <1>5, <1>6, <2>2 DEF AnswersInv, Types, Row
    <3> QED
      BY <1>6, <2>2, <3>1 DEF EndsOf, Statuses, Aged
  <2> QED
    BY <2>1, <2>2
<1>11. HandedInv'
  <2> SUFFICES ASSUME NEW h \in handed PROVE HandedFits(h)'
    BY <1>3 DEF HandedInv
  <2>1. HandedFits(h) /\ h.state # u
    BY <1>1 DEF HandedInv
  <2> QED
    BY <1>3, <1>5, <2>1 DEF HandedFits, Aged
<1>12. StepAdvances
  BY <1>1, <1>6 DEF StepAdvances, Later, Types, Statuses
<1>13. StepInTime
  BY <1>1, <1>5 DEF StepInTime, Aged
<1> QED
  BY <1>7, <1>8, <1>9, <1>10, <1>11, <1>12, <1>13 DEF StepGood

\* What a request finds and leaves in the row it looks at.
LEMMA ContextRow ==
  ASSUME OAuthInv, NEW s \in States
  PROVE  /\ Context(s) \in Row \cup {NULL}
         /\ rows[s] = NULL => Context(s) = NULL
         /\ rows[s] # NULL =>
              /\ rows[s] \in Row /\ Context(s) \in Row /\ Context(s) # NULL
              /\ Aged(rows[s], Context(s))
              /\ Context(s).status \in EndsOf(rows[s].status)
              /\ Context(s).status = "pending" => rows[s].status = "pending"
              /\ Context(s).status = "authorized" =>
                   /\ rows[s].status = "authorized"
                   /\ Context(s).token_expires_at = NULL \/ now < Context(s).token_expires_at
<1>1. rows[s] \in Row \cup {NULL} /\ now \in Nat
  BY DEF OAuthInv, Types
<1>2. CASE rows[s] = NULL
  BY <1>2 DEF Context
<1>3. CASE rows[s] # NULL
  <2>1. rows[s] \in Row /\ Context(s) = Expire(rows[s])
    BY <1>1, <1>3 DEF Context
  <2>2. /\ Context(s) \in Row /\ Aged(rows[s], Context(s))
        /\ Context(s).status = "authorized" =>
              rows[s].token_expires_at = NULL \/ now < rows[s].token_expires_at
    BY <1>1, <2>1, ExpiredRow
  <2>3. Context(s).status \in EndsOf(rows[s].status)
    BY <2>1, <2>2 DEF EndsOf, Aged, Statuses, Row
  <2> QED
    BY <1>3, <2>1, <2>2, <2>3, RowAssumption DEF Aged
<1> QED
  BY <1>2, <1>3

LEMMA FailStep ==
  ASSUME OAuthInv, fail_tradovate_oauth PROVE StepGood
<1> USE DEF OAuthInv
<1> DEFINE s == request.state
           row == [rows[s] EXCEPT !.status = "failed"]
<1>1. s \in States /\ rows[s] # NULL /\ rows[s] \in Row /\ rows[s].status = "pending"
  BY DEF fail_tradovate_oauth, RequestInv, Types, At
<1>2. /\ row \in Row /\ row.owner = rows[s].owner /\ row.session = rows[s].session
      /\ row.status = "failed"
  BY <1>1 DEF Row, Statuses
<1>3. /\ rows' = [rows EXCEPT ![s] = row] /\ request' = Idle
      /\ UNCHANGED <<now, licensed, started, issued, answer, handed, faults, edits>>
  BY DEF fail_tradovate_oauth
<1> HIDE DEF s, row
<1>4. /\ issued' \in Nat /\ issued <= issued'
      /\ \A t \in States : started[t] = NULL => answer'[t] = NULL
  BY <1>3 DEF Types, RowsInv, RowFits
<1>5. rows' \in [States -> Row \cup {NULL}] /\ RowsInv'
  <2>1. row # NULL =>
          /\ rows[s] # NULL /\ row.owner = rows[s].owner
          /\ row.status = "authorized" => row.token # NULL
          /\ row.session # rows[s].session => row.session \in 1..issued' /\ Unheld(row.session)
    BY <1>1, <1>2
  <2> QED
    BY <1>1, <1>2, <1>3, <1>4, <2>1, OneRow
<1>6. HandedInv'
  BY <1>1, <1>2, <1>3, OneRowHanded DEF HandedInv
<1>7. AnswersInv'
  <2>1. row.status \in EndsOf(rows[s].status)
    BY <1>1, <1>2 DEF EndsOf, Statuses
  <2> QED
    BY <1>1, <1>2, <1>3, <2>1, OneRowAnswers
<1>8. Types' /\ RequestInv'
  BY <1>3, <1>5, IdleRequest, IdleNeedsNothing DEF Types
<1>9. StepAdvances
  BY <1>3, SameAnswers
<1>10. StepInTime
  BY <1>1, <1>2, <1>3 DEF StepInTime, Types
<1> QED
  BY <1>5, <1>6, <1>7, <1>8, <1>9, <1>10 DEF StepGood

LEMMA CallbackStep ==
  ASSUME OAuthInv, NEW s \in States, NEW has_code \in BOOLEAN,
         tradovate_oauth_callback(s, has_code)
  PROVE  StepGood
<1> USE DEF OAuthInv
<1> DEFINE row == Context(s)
<1>1. /\ rows[s] # NULL /\ row = Expire(rows[s]) /\ rows' = [rows EXCEPT ![s] = row]
      /\ UNCHANGED <<now, licensed, started, issued, answer, handed, faults, edits>>
  BY DEF tradovate_oauth_callback, Context
<1>2. /\ rows[s] \in Row /\ row \in Row /\ row # NULL /\ Aged(rows[s], row)
      /\ row.status \in EndsOf(rows[s].status)
  BY <1>1, ContextRow
<1>3. \/ request' = Idle
      \/ /\ row.status = "pending"
         /\ \E pc \in {"exchange", "fail"} : request' = [Idle EXCEPT !.pc = pc, !.state = s]
  BY <1>1 DEF tradovate_oauth_callback, Open
<1> HIDE DEF row
<1>4. /\ issued' \in Nat /\ issued <= issued' /\ started[s] # NULL
      /\ rows[s].status = "authorized" => rows[s].token # NULL
      /\ \A t \in States : started[t] = NULL => answer'[t] = NULL
  BY <1>1 DEF Types, RowsInv, RowFits
<1>5. rows' \in [States -> Row \cup {NULL}] /\ RowsInv'
  <2>1. row # NULL =>
          /\ rows[s] # NULL /\ row.owner = rows[s].owner
          /\ row.status = "authorized" => row.token # NULL
          /\ row.session # rows[s].session => row.session \in 1..issued' /\ Unheld(row.session)
    BY <1>1, <1>2, <1>4 DEF Aged
  <2> QED
    BY <1>1, <1>2, <1>4, <2>1, OneRow
<1>6. HandedInv'
  BY <1>1, <1>2, OneRowHanded DEF HandedInv, Aged
<1>7. AnswersInv'
  BY <1>1, <1>2, OneRowAnswers
<1>8. rows'[s] = row /\ \A t \in States \ {s} : rows'[t] = rows[t]
  BY <1>1 DEF Types
<1>9. request' \in Request /\ RequestInv'
  <2>1. CASE request' = Idle
    BY <2>1, IdleRequest, IdleNeedsNothing
  <2>2. CASE row.status = "pending"
    <3> SUFFICES ASSUME NEW pc \in {"exchange", "fail"},
                        request' = [Idle EXCEPT !.pc = pc, !.state = s]
                 PROVE  request' \in Request /\ RequestInv'
      BY <1>3, <2>1
    <3>1. request' \in Request /\ request'.pc = pc /\ request'.state = s
      BY DEF Idle, Request
    <3> QED
      BY <1>1, <1>2, <1>4, <1>8, <2>2, <3>1 DEF RequestInv, At
  <2> QED
    BY <1>3, <2>1, <2>2
<1>10. Types'
  BY <1>1, <1>5, <1>9 DEF Types
<1>11. StepAdvances
  BY <1>1, SameAnswers
<1>12. StepInTime
  BY <1>2, <1>8 DEF StepInTime, Aged
<1> QED
  BY <1>5, <1>6, <1>7, <1>9, <1>10, <1>11, <1>12 DEF StepGood

LEMMA AuthorizeStep ==
  ASSUME OAuthInv, authorize_tradovate_oauth PROVE StepGood
<1> USE DEF OAuthInv
<1> DEFINE s == request.state
           row == Authorized(rows[s], request.token, request.lifetime)
<1>1. /\ s \in States /\ rows[s] # NULL /\ rows[s] \in Row /\ rows[s].status = "pending"
      /\ request.token \in 1..issued /\ Unheld(request.token) /\ issued \in Nat /\ now \in Nat
      /\ request.lifetime \in Nat \cup {NULL} /\ started[s] # NULL
  BY DEF authorize_tradovate_oauth, RequestInv, Types, At, Request
<1>2. /\ rows' = [rows EXCEPT ![s] = row] /\ request' = Idle
      /\ UNCHANGED <<now, licensed, started, issued, answer, handed, faults, edits>>
  BY DEF authorize_tradovate_oauth
<1>3. /\ row \in Row /\ row.owner = rows[s].owner
      /\ \/ row.status = "expired" /\ row.session = rows[s].session
         \/ /\ row.status = "authorized" /\ row.session = request.token
            /\ row.token = request.token /\ now < rows[s].state_expires_at
  <2>1. request.token \in Nat
    BY <1>1
  <2> DEFINE old == rows[s]
             token == request.token
             lifetime == request.lifetime
  <2>2. old \in Row /\ old.status = "pending" /\ token \in Nat /\ lifetime \in Nat \cup {NULL}
        /\ row = Authorized(old, token, lifetime) /\ now \in Nat
    BY <1>1, <2>1
  <2> HIDE DEF s, row, old, token, lifetime
  <2>3. /\ row \in Row /\ row.owner = old.owner
        /\ \/ row.status = "expired" /\ row.session = old.session
           \/ /\ row.status = "authorized" /\ row.session = token
              /\ row.token = token /\ now < old.state_expires_at
    BY <2>2, AuthorizedRow
  <2> QED
    BY <2>3 DEF old, token, lifetime
<1> HIDE DEF s, row
<1>4. /\ request.token # NULL /\ issued' \in Nat /\ issued <= issued'
      /\ \A t \in States : started[t] = NULL => answer'[t] = NULL
  BY <1>1, <1>2, OAuthAssumption DEF RowsInv, RowFits
<1>5. rows' \in [States -> Row \cup {NULL}] /\ RowsInv'
  <2>1. row # NULL =>
          /\ rows[s] # NULL /\ row.owner = rows[s].owner
          /\ row.status = "authorized" => row.token # NULL
          /\ row.session # rows[s].session => row.session \in 1..issued' /\ Unheld(row.session)
    BY <1>1, <1>2, <1>3, <1>4
  <2> QED
    BY <1>1, <1>2, <1>3, <1>4, <2>1, OneRow
<1>6. HandedInv'
  BY <1>1, <1>2, <1>3, OneRowHanded DEF HandedInv
<1>7. AnswersInv'
  <2>1. row.status \in EndsOf(rows[s].status)
    BY <1>1, <1>3 DEF EndsOf, Statuses
  <2> QED
    BY <1>1, <1>2, <1>3, <2>1, OneRowAnswers
<1>8. Types' /\ RequestInv'
  BY <1>2, <1>5, IdleRequest, IdleNeedsNothing DEF Types
<1>9. StepAdvances
  BY <1>2, SameAnswers
<1>10. StepInTime
  BY <1>1, <1>2, <1>3 DEF StepInTime, Types
<1> QED
  BY <1>5, <1>6, <1>7, <1>8, <1>9, <1>10 DEF StepGood

\* The owner's desktop is told what the row says: what it was told before
\* may have advanced to that, and the row keeps to it.
LEMMA ToldOutcome ==
  ASSUME OAuthInv, NEW s \in States, NEW d \in Desktops, Answered(s, Outcome(Context(s), d)),
         NEW row \in Row \cup {NULL}, rows' = [rows EXCEPT ![s] = row],
         row = NULL <=> Context(s) = NULL, row # NULL => row.status = Context(s).status
  PROVE  /\ answer' \in [States -> Statuses \cup {NULL}]
         /\ \A t \in States : answer'[t] # answer[t] => t = s
         /\ AnswersInv' /\ StepAdvances
<1> USE DEF OAuthInv
<1> DEFINE outcome == Outcome(Context(s), d)
<1>1. /\ rows[s] = NULL => row = NULL
      /\ rows[s] # NULL =>
           /\ row \in Row /\ row # NULL /\ rows[s] \in Row
           /\ row.status \in EndsOf(rows[s].status)
  BY ContextRow
<1>2. Answered(s, outcome)
  OBVIOUS
<1>3. /\ row = NULL => outcome = "expired"
      /\ row # NULL => outcome = "mismatch" \/ outcome = row.status
  BY DEF Outcome
<1> HIDE DEF outcome
<1>4. /\ answer \in [States -> Statuses \cup {NULL}]
      /\ rows'[s] = row /\ \A t \in States \ {s} : rows'[t] = rows[t]
  BY <1>2 DEF Types
<1>5. CASE outcome = "mismatch"
  <2>1. answer' = answer
    BY <1>2, <1>5 DEF Answered
  <2>2. AnswersInv'
    BY <1>1, <1>2, <2>1, OneRowAnswers
  <2> QED
    BY <1>4, <2>1, <2>2, SameAnswers
<1>6. CASE outcome # "mismatch"
  <2>1. outcome \in Statuses
    BY <1>1, <1>3, <1>6 DEF Statuses, Row
  <2>2. /\ answer' = [answer EXCEPT ![s] = outcome] /\ answer' \in [States -> Statuses \cup {NULL}]
        /\ answer'[s] = outcome /\ \A t \in States \ {s} : answer'[t] = answer[t]
    BY <1>2, <1>4, <1>6, <2>1 DEF Answered
  <2>3. row # NULL => row.status \in EndsOf(outcome)
    BY <1>3, <1>6, <2>1 DEF EndsOf, Statuses
  <2>4. AnswersInv'
    BY <1>4, <2>2, <2>3 DEF AnswersInv
  <2>5. answer[s] # NULL => outcome \in Later(answer[s])
    <3>1. ASSUME answer[s] # NULL, row = NULL PROVE outcome \in Later(answer[s])
      BY <1>3, <1>4, <3>1 DEF Later, Statuses
    <3>2. ASSUME answer[s] # NULL, row # NULL PROVE outcome \in Later(answer[s])
      <4>1. /\ rows[s].status \in EndsOf(answer[s]) /\ outcome \in EndsOf(rows[s].status)
            /\ answer[s] \in Statuses /\ rows[s].status \in Statuses
        BY <1>1, <1>3, <1>4, <1>6, <3>2 DEF AnswersInv, Row
      <4> QED
        BY <4>1 DEF EndsOf, Later, Statuses
    <3> QED
      BY <3>1, <3>2
  <2>6. \A t \in States \ {s} : answer[t] # NULL => answer[t] \in Later(answer[t])
    BY <1>4 DEF Later, Statuses
  <2> QED
    BY <2>2, <2>4, <2>5, <2>6 DEF StepAdvances
<1> QED
  BY <1>5, <1>6

\* The desktop is not handed anything.
LEMMA ToldOnly ==
  ASSUME OAuthInv, NEW s \in States, NEW d \in Desktops, started[s] # NULL,
         Answered(s, Outcome(Context(s), d)),
         rows' = [rows EXCEPT ![s] = Context(s)],
         request' = Idle,
         UNCHANGED <<now, licensed, started, issued, handed, faults, edits>>
  PROVE  StepGood
<1> USE DEF OAuthInv
<1>1. /\ answer' \in [States -> Statuses \cup {NULL}]
      /\ \A t \in States : answer'[t] # answer[t] => t = s
      /\ AnswersInv' /\ StepAdvances
  BY ToldOutcome, ContextRow
<1> DEFINE row == Context(s)
<1>2. /\ row \in Row \cup {NULL} /\ rows' = [rows EXCEPT ![s] = row]
      /\ row # NULL => rows[s] # NULL /\ rows[s] \in Row /\ row \in Row /\ Aged(rows[s], row)
      /\ row # NULL /\ row.status = "authorized" => rows[s].status = "authorized"
  BY ContextRow, RowAssumption
<1> HIDE DEF row
<1>3. /\ issued' \in Nat /\ issued <= issued'
      /\ rows[s] # NULL /\ rows[s].status = "authorized" => rows[s].token # NULL
      /\ \A t \in States : started[t] = NULL => answer'[t] = NULL
  BY <1>1 DEF Types, RowsInv, RowFits
<1>4. rows' \in [States -> Row \cup {NULL}] /\ RowsInv'
  <2>1. row # NULL =>
          /\ rows[s] # NULL /\ row.owner = rows[s].owner
          /\ row.status = "authorized" => row.token # NULL
          /\ row.session # rows[s].session => row.session \in 1..issued' /\ Unheld(row.session)
    BY <1>2, <1>3 DEF Aged
  <2> QED
    BY <1>2, <1>3, <2>1, OneRow
<1>5. HandedInv'
  BY <1>2, OneRowHanded DEF HandedInv, Aged
<1>6. Types' /\ RequestInv'
  BY <1>1, <1>4, IdleRequest, IdleNeedsNothing DEF Types
<1>7. StepInTime
  BY <1>2 DEF StepInTime, Aged, Types
<1> QED
  BY <1>1, <1>4, <1>5, <1>6, <1>7 DEF StepGood

\* The row of an authorized login that is about to be handed out.
LEMMA AuthorizedContext ==
  ASSUME OAuthInv, NEW s \in States, NEW d \in Desktops, Outcome(Context(s), d) = "authorized"
  PROVE  /\ rows[s] # NULL /\ rows[s] \in Row /\ rows[s].status = "authorized"
         /\ Context(s) \in Row /\ Context(s).owner = d /\ started[s] = d
         /\ Context(s).token # NULL /\ Context(s).status = "authorized"
         /\ Aged(rows[s], Context(s))
         /\ Context(s).token_expires_at = NULL \/ now < Context(s).token_expires_at
<1>1. Context(s) # NULL /\ Context(s).owner = d /\ Context(s).status = "authorized"
  BY DEF Outcome, BoundTo
<1>2. rows[s] # NULL /\ rows[s].owner = started[s] /\ (rows[s].status = "authorized" => rows[s].token # NULL)
  BY <1>1, ContextRow DEF OAuthInv, RowsInv, RowFits
<1> QED
  BY <1>1, <1>2, ContextRow DEF Aged

\* Giving the row its session id.
LEMMA SessionGiven ==
  ASSUME OAuthInv, NEW s \in States, NEW d \in Desktops, Outcome(Context(s), d) = "authorized",
         rows' = [rows EXCEPT ![s] = WithSession(Context(s))],
         issued' = IF WithSession(Context(s)) = Context(s) THEN issued ELSE issued + 1,
         started' = started, \A t \in States : started[t] = NULL => answer'[t] = NULL
  PROVE  /\ rows' \in [States -> Row \cup {NULL}] /\ RowsInv' /\ issued' \in Nat
         /\ \A h \in handed : HandedFits(h)'
         /\ rows'[s] = WithSession(Context(s)) /\ rows'[s] # NULL
         /\ rows'[s].status = "authorized" /\ rows'[s].owner = d
         /\ rows'[s].session # NULL /\ rows'[s].session \in Nat
         /\ StepInTime
<1> USE DEF OAuthInv
<1> DEFINE old == Context(s)
           row == WithSession(old)
<1>1. /\ rows[s] # NULL /\ rows[s] \in Row /\ rows[s].status = "authorized"
      /\ old \in Row /\ old.owner = d /\ started[s] = d /\ old.token # NULL
      /\ old.status = "authorized" /\ Aged(rows[s], old)
  BY AuthorizedContext
<1>2. issued \in Nat /\ (old.session # NULL => old.session \in 1..issued)
  BY <1>1 DEF Types, RowsInv, RowFits, Aged
<1>3. /\ row \in Row /\ row.session # NULL /\ row.owner = old.owner /\ row.token = old.token
      /\ row.status = old.status
      /\ old.session # NULL => row = old
      /\ old.session = NULL => row.session = issued + 1 /\ row # old
  <2> HIDE DEF old
  <2> QED
    BY <1>1, <1>2, RowWithSession
<1>4. rows' = [rows EXCEPT ![s] = row] /\ issued' = IF row = old THEN issued ELSE issued + 1
  OBVIOUS
<1> HIDE DEF old, row
<1>5. issued' \in Nat /\ issued <= issued' /\ row.session \in 1..issued'
  BY <1>2, <1>3, <1>4
<1>6. row.session # rows[s].session => Unheld(row.session)
  <2> SUFFICES ASSUME row.session # rows[s].session, NEW t \in States, rows[t] # NULL
               PROVE  rows[t].session # row.session
    BY DEF Unheld
  <2>1. row.session = issued + 1
    BY <1>1, <1>3 DEF Aged
  <2>2. rows[t].session # NULL => rows[t].session \in 1..issued
    BY DEF RowsInv, RowFits
  <2> QED
    BY <1>2, <2>1, <2>2, OAuthAssumption
<1>7. rows' \in [States -> Row \cup {NULL}] /\ RowsInv'
  <2>1. row # NULL =>
          /\ rows[s] # NULL /\ row.owner = rows[s].owner
          /\ row.status = "authorized" => row.token # NULL
          /\ row.session # rows[s].session => row.session \in 1..issued' /\ Unheld(row.session)
    BY <1>1, <1>3, <1>5, <1>6 DEF Aged
  <2> QED
    BY <1>3, <1>4, <1>5, <2>1, OneRow
<1>8. rows[s].session # NULL => row.session = rows[s].session
  BY <1>1, <1>3 DEF Aged
<1>9. \A h \in handed : HandedFits(h)'
  BY <1>1, <1>3, <1>4, <1>8, OneRowHanded
<1>10. rows'[s] = row /\ \A t \in States \ {s} : rows'[t] = rows[t]
  BY <1>4 DEF Types
<1>11. StepInTime
  BY <1>1, <1>10 DEF StepInTime
<1>12. row.session \in Nat
  BY <1>5
<1>13. row # NULL
  BY <1>3, RowAssumption
<1>14. row = WithSession(Context(s))
  BY DEF row, old
<1> QED
  BY <1>1, <1>3, <1>5, <1>7, <1>9, <1>10, <1>11, <1>12, <1>13, <1>14

LEMMA ClaimStep ==
  ASSUME OAuthInv, Claim PROVE StepGood
<1> USE DEF OAuthInv
<1> DEFINE s == request.state
           d == request.desktop
           row == WithSession(Context(s))
<1>1. /\ s \in States /\ d \in Desktops /\ started[s] # NULL /\ request' = Idle
      /\ Answered(s, Outcome(Context(s), d))
      /\ UNCHANGED <<now, licensed, started, faults, edits>>
  BY DEF Claim, RequestInv, Types, Request, At
<1>2. CASE Outcome(Context(s), d) # "authorized"
  <2>1. rows' = [rows EXCEPT ![s] = Context(s)] /\ UNCHANGED <<issued, handed>>
    BY <1>2 DEF Claim
  <2> HIDE DEF s, d
  <2> QED
    BY <1>1, <2>1, ToldOnly
<1>3. CASE Outcome(Context(s), d) = "authorized"
  <2>1. /\ rows' = [rows EXCEPT ![s] = row]
        /\ issued' = IF row = Context(s) THEN issued ELSE issued + 1
        /\ handed' = handed \cup {Handed(d, s, row)}
    BY <1>3 DEF Claim
  <2> HIDE DEF s, d
  <2>2. /\ Context(s) \in Row /\ Context(s) # NULL /\ started[s] = d
        /\ Context(s).status = "authorized"
        /\ Context(s).token_expires_at = NULL \/ now < Context(s).token_expires_at
    BY <1>1, <1>3, AuthorizedContext, RowAssumption
  <2>3. /\ row \in Row /\ row # NULL /\ row.status = Context(s).status
        /\ row.token_expires_at = Context(s).token_expires_at
    BY <2>2, RowWithSession, RowAssumption DEF Types
  <2>4. /\ answer' \in [States -> Statuses \cup {NULL}]
        /\ \A t \in States : answer'[t] # answer[t] => t = s
        /\ AnswersInv' /\ StepAdvances
    BY <1>1, <2>1, <2>2, <2>3, ToldOutcome
  <2>5. \A t \in States : started[t] = NULL => answer'[t] = NULL
    BY <1>1, <2>4 DEF RowsInv, RowFits
  <2>6. /\ rows' \in [States -> Row \cup {NULL}] /\ RowsInv' /\ issued' \in Nat
        /\ \A h \in handed : HandedFits(h)'
        /\ rows'[s] = row /\ rows'[s].session \in Nat
        /\ StepInTime
    BY <1>1, <1>3, <2>1, <2>5, SessionGiven
  <2>7. ASSUME NEW h, h = Handed(d, s, row) PROVE HandedFits(h)'
    <3>1. h.state = s /\ h.desktop = d /\ h.session = row.session
          /\ h.live = (row.token_expires_at = NULL \/ now < row.token_expires_at)
      BY <2>7 DEF Handed
    <3>2. started'[s] = d /\ d # NULL
      BY <1>1, <2>2, OAuthAssumption
    <3> HIDE DEF row
    <3> QED
      BY <1>1, <2>2, <2>3, <2>6, <3>1, <3>2 DEF HandedFits
  <2> HIDE DEF row
  <2>8. HandedInv'
    BY <2>1, <2>6, <2>7 DEF HandedInv
  <2>9. Types' /\ RequestInv'
    BY <1>1, <2>4, <2>6, IdleRequest, IdleNeedsNothing DEF Types
  <2> QED
    BY <2>4, <2>6, <2>8, <2>9 DEF StepGood
<1> QED
  BY <1>2, <1>3

LEMMA RefreshContextStep ==
  ASSUME OAuthInv, RefreshContext PROVE StepGood
<1> USE DEF OAuthInv
<1> DEFINE s == request.state
           d == request.desktop
           row == WithSession(Context(s))
<1>1. /\ s \in States /\ d \in Desktops /\ started[s] # NULL /\ request \in Request
      /\ UNCHANGED <<now, licensed, started, handed, faults, edits>>
  BY DEF RefreshContext, RequestInv, Types, Request, At
<1>2. CASE Outcome(Context(s), d) # "authorized"
  <2>1. /\ rows' = [rows EXCEPT ![s] = Context(s)] /\ UNCHANGED issued
        /\ Answered(s, Outcome(Context(s), d)) /\ request' = Idle
    BY <1>2 DEF RefreshContext
  <2> HIDE DEF s, d
  <2> QED
    BY <1>1, <2>1, ToldOnly
<1>3. CASE Outcome(Context(s), d) = "authorized"
  <2>1. /\ rows' = [rows EXCEPT ![s] = row] /\ answer' = answer
        /\ issued' = IF row = Context(s) THEN issued ELSE issued + 1
        /\ request' = [request EXCEPT !.pc = "renew"]
    BY <1>3 DEF RefreshContext, Goto
  <2>2. /\ request' \in Request /\ request'.pc = "renew"
        /\ request'.state = s /\ request'.desktop = d
    BY <1>1, <2>1 DEF Request
  <2> HIDE DEF s, d
  <2>3. /\ rows[s] # NULL /\ rows[s] \in Row /\ rows[s].status = "authorized"
        /\ Context(s) \in Row /\ Context(s).status = "authorized" /\ d # NULL
    BY <1>1, <1>3, AuthorizedContext, OAuthAssumption
  <2>4. row \in Row /\ row.status = Context(s).status
    BY <2>3, RowWithSession DEF Types
  <2>5. \A t \in States : started[t] = NULL => answer'[t] = NULL
    BY <2>1 DEF RowsInv, RowFits
  <2>6. /\ rows' \in [States -> Row \cup {NULL}] /\ RowsInv' /\ issued' \in Nat
        /\ \A h \in handed : HandedFits(h)'
        /\ rows'[s] # NULL /\ rows'[s].status = "authorized" /\ rows'[s].owner = d
        /\ rows'[s].session # NULL
        /\ StepInTime
    BY <1>1, <1>3, <2>1, <2>5, SessionGiven
  <2> HIDE DEF row
  <2>7. AnswersInv'
    <3>1. row.status \in EndsOf(rows[s].status)
      BY <2>3, <2>4 DEF EndsOf, Statuses
    <3> QED
      BY <1>1, <2>1, <2>3, <2>4, <3>1, OneRowAnswers
  <2>8. StepAdvances
    BY <2>1, SameAnswers
  <2>9. RequestInv'
    BY <1>1, <2>2, <2>3, <2>6 DEF RequestInv, At
  <2>10. HandedInv'
    BY <1>1, <2>6 DEF HandedInv
  <2>11. Types'
    BY <1>1, <2>1, <2>2, <2>6 DEF Types
  <2> QED
    BY <2>6, <2>7, <2>8, <2>9, <2>10, <2>11 DEF StepGood
<1> QED
  BY <1>2, <1>3

LEMMA StoreStep ==
  ASSUME OAuthInv, store_tradovate_oauth_refresh PROVE StepGood
<1> USE DEF OAuthInv
<1> DEFINE s == request.state
           d == request.desktop
           expiry == ExpiryOf(request.lifetime)
           kept == [rows[s] EXCEPT !.token = request.token, !.token_expires_at = expiry]
           row == WithSession(kept)
<1>1. /\ s \in States /\ d \in Desktops /\ d # NULL /\ rows[s] # NULL /\ rows[s] \in Row
      /\ rows[s].status = "authorized" /\ rows[s].owner = d /\ rows[s].session # NULL
      /\ request.token \in Nat /\ request.token # NULL
      /\ request.lifetime \in Nat \cup {NULL} /\ request.lifetime # 0 /\ now \in Nat
  BY OAuthAssumption DEF store_tradovate_oauth_refresh, RequestInv, Types, Request, At
<1>2. /\ rows' = [rows EXCEPT ![s] = row]
      /\ handed' = handed \cup {Handed(d, s, row)}
      /\ answer' = [answer EXCEPT ![s] = "authorized"]
      /\ request' = Idle
      /\ UNCHANGED <<now, licensed, started, issued, faults, edits>>
  BY <1>1 DEF store_tradovate_oauth_refresh
<1> HIDE DEF s, d
<1>3. expiry \in Nat \cup {NULL} /\ (expiry = NULL \/ now < expiry)
  BY <1>1, OAuthAssumption DEF ExpiryOf
<1>4. /\ kept \in Row /\ kept.token = request.token /\ kept.token_expires_at = expiry
      /\ kept.owner = d /\ kept.status = "authorized" /\ kept.session = rows[s].session
  <2> HIDE DEF expiry
  <2> QED
    BY <1>1, <1>3 DEF Row
<1> HIDE DEF expiry, kept
<1>5. row = kept /\ issued \in Nat
  BY <1>1, <1>4, RowWithSession DEF Types
<1> HIDE DEF row
<1>6. /\ started[s] = d /\ issued' \in Nat /\ issued <= issued'
      /\ \A t \in States : started[t] = NULL => answer[t] = NULL
  BY <1>1, <1>2, <1>5 DEF RowsInv, RowFits
<1>7. /\ answer' \in [States -> Statuses \cup {NULL}] /\ answer'[s] = "authorized"
      /\ \A t \in States \ {s} : answer'[t] = answer[t]
  BY <1>1, <1>2 DEF Types, Statuses
<1>8. rows' \in [States -> Row \cup {NULL}] /\ RowsInv'
  <2>1. row # NULL =>
          /\ rows[s] # NULL /\ row.owner = rows[s].owner
          /\ row.status = "authorized" => row.token # NULL
          /\ row.session # rows[s].session => row.session \in 1..issued' /\ Unheld(row.session)
    BY <1>1, <1>4, <1>5
  <2>2. \A t \in States : started[t] = NULL => answer'[t] = NULL
    BY <1>1, <1>6, <1>7
  <2> QED
    BY <1>1, <1>2, <1>4, <1>5, <1>6, <2>1, <2>2, OneRow
<1>9. \A h \in handed : HandedFits(h)'
  <2>1. /\ row \in Row /\ row.status = "authorized" /\ row.session = rows[s].session
        /\ rows' = [rows EXCEPT ![s] = row] /\ started' = started
    BY <1>2, <1>4, <1>5
  <2> QED
    BY <1>1, <2>1, OneRowHanded
<1>10. rows'[s] = row /\ \A t \in States \ {s} : rows'[t] = rows[t]
  BY <1>1, <1>2 DEF Types
<1>11. ASSUME NEW h, h = Handed(d, s, row) PROVE HandedFits(h)'
  <2>1. h.state = s /\ h.desktop = d /\ h.session = row.session
        /\ h.live = (row.token_expires_at = NULL \/ now < row.token_expires_at)
    BY <1>11 DEF Handed
  <2>2. row.session \in Nat
    BY <1>1, <1>4, <1>5 DEF Row
  <2> QED
    BY <1>1, <1>2, <1>3, <1>4, <1>5, <1>6, <1>10, <2>1, <2>2 DEF HandedFits
<1>12. HandedInv'
  BY <1>2, <1>9, <1>11 DEF HandedInv
<1>13. AnswersInv'
  <2>1. "authorized" \in EndsOf("authorized")
    BY DEF EndsOf
  <2> QED
    BY <1>4, <1>5, <1>7, <1>10, <2>1 DEF AnswersInv
<1>14. StepAdvances
  <2>1. answer[s] # NULL => "authorized" \in Later(answer[s])
    BY <1>1 DEF AnswersInv, EndsOf, Later, Types, Statuses
  <2>2. \A t \in States : answer[t] # NULL => answer[t] \in Later(answer[t])
    BY DEF Later, Types, Statuses
  <2> QED
    BY <1>7, <2>1, <2>2 DEF StepAdvances
<1>15. StepInTime
  BY <1>1, <1>10 DEF StepInTime
<1>16. Types' /\ RequestInv'
  BY <1>2, <1>5, <1>7, <1>8, IdleRequest, IdleNeedsNothing DEF Types
<1> QED
  BY <1>8, <1>12, <1>13, <1>14, <1>15, <1>16 DEF StepGood

-----------------------------------------------------------------------------
(* The theorems *)

LEMMA LegacyRow ==
  ASSUME now = 0, NEW d \in Desktops
  PROVE  /\ Legacy(d) \in Row /\ Legacy(d).owner = d /\ Legacy(d).status = "authorized"
         /\ Legacy(d).token # NULL /\ Legacy(d).session = NULL
<1>1. NewState(d) \in Row /\ NewState(d).owner = d /\ NewState(d).session = NULL
  BY NewRow
<1>2. MaxNow \in Nat /\ 0 \in Nat /\ 0 # NULL /\ "authorized" \in Statuses
  BY OAuthAssumption DEF Statuses
<1> QED
  BY <1>1, <1>2 DEF Legacy, Row

LEMMA OAuthInit ==
  Init => OAuthInv
<1> SUFFICES ASSUME Init PROVE OAuthInv
  OBVIOUS
<1>1. /\ started \in [States -> Desktops \cup {NULL}]
      /\ \A s, t \in States : started[s] # NULL /\ started[t] # NULL => s = t
  <2>1. CASE started = [s \in States |-> NULL]
    BY <2>1
  <2>2. CASE \E t \in States, d \in Starters : started = [s \in States |-> IF s = t THEN d ELSE NULL]
    <3> PICK t \in States, d \in Starters : started = [s \in States |-> IF s = t THEN d ELSE NULL]
      BY <2>2
    <3>1. d \in Desktops
      BY OAuthAssumption
    <3> QED
      BY <3>1
  <2> QED
    BY <2>1, <2>2 DEF Init
<1>2. /\ rows = [s \in States |-> IF started[s] = NULL THEN NULL ELSE Legacy(started[s])]
      /\ answer = [s \in States |-> IF started[s] = NULL THEN NULL ELSE "authorized"]
      /\ now = 0 /\ issued = 0 /\ licensed = Desktops /\ request = Idle /\ handed = {}
      /\ faults = 0 /\ edits = 0
  BY DEF Init
<1>3. ASSUME NEW s \in States, started[s] # NULL
      PROVE  /\ rows[s] \in Row /\ rows[s].owner = started[s] /\ rows[s].status = "authorized"
             /\ rows[s].token # NULL /\ rows[s].session = NULL
  <2>1. started[s] \in Desktops
    BY <1>1, <1>3
  <2> QED
    BY <1>2, <1>3, <2>1, LegacyRow
<1>4. rows \in [States -> Row \cup {NULL}]
  BY <1>2, <1>3
<1>5. Types
  <2>1. answer \in [States -> Statuses \cup {NULL}]
    BY <1>2 DEF Statuses
  <2> QED
    BY <1>1, <1>2, <1>4, <2>1, IdleRequest DEF Types
<1>6. RowsInv
  BY <1>1, <1>2, <1>3 DEF RowsInv, RowFits
<1>7. RequestInv
  BY <1>2 DEF RequestInv, At, Idle
<1>8. AnswersInv
  BY <1>2, <1>3 DEF AnswersInv, EndsOf, Statuses
<1>9. HandedInv
  BY <1>2 DEF HandedInv
<1> QED
  BY <1>5, <1>6, <1>7, <1>8, <1>9 DEF OAuthInv

LEMMA OAuthNext ==
  OAuthInv /\ [Next]_vars => StepGood
<1> SUFFICES ASSUME OAuthInv, [Next]_vars PROVE StepGood
  OBVIOUS
<1>1. ASSUME NEW d \in Desktops, NEW s \in States, start_tradovate_oauth(d, s) PROVE StepGood
  BY <1>1, StartStep
<1>2. ASSUME NEW d \in Desktops, NEW s \in States, complete_tradovate_oauth(d, s) PROVE StepGood
  BY <1>2, CheckLicenseStep DEF complete_tradovate_oauth
<1>3. ASSUME NEW d \in Desktops, NEW s \in States, tradovate_oauth_refresh(d, s) PROVE StepGood
  BY <1>3, CheckLicenseStep DEF tradovate_oauth_refresh
<1>4. ASSUME NEW s \in States, NEW has_code \in BOOLEAN, tradovate_oauth_callback(s, has_code)
      PROVE  StepGood
  BY <1>4, CallbackStep
<1>5. CASE Serve
  BY <1>5, InsertStateStep, FailStep, AuthorizeStep, ClaimStep, RefreshContextStep, StoreStep,
     ExchangeStep, RenewStep DEF Serve
<1>6. CASE Crash
  BY <1>6, CrashStep
<1>7. CASE Tick
  BY <1>7, TickStep
<1>8. ASSUME NEW d \in Desktops, SetLicensed(d) PROVE StepGood
  BY <1>8, SetLicensedStep
<1>9. CASE UNCHANGED vars
  BY <1>9, StutterStep
<1> QED
  BY <1>1, <1>2, <1>3, <1>4, <1>5, <1>6, <1>7, <1>8, <1>9 DEF Next

LEMMA OAuthInvariant == Spec => []OAuthInv
<1>1. OAuthInv /\ [Next]_vars => OAuthInv'
  BY OAuthNext DEF StepGood
<1> QED
  BY <1>1, OAuthInit, PTL DEF Spec

\* Rows of logins have the form the code expects, belong to the desktop that
\* started them, hold a token once they are authorized, and never share a
\* session id, whatever browsers, desktops, crashes and clean-ups do.
THEOREM RowsAreOwned == Spec => []TypeOK
<1>1. OAuthInv => TypeOK
  BY DEF OAuthInv, Types, RowsInv, RowFits, TypeOK
<1> QED
  BY <1>1, OAuthInvariant, PTL

\* Completion and refresh hand a token, and the session id that renews it, to
\* the desktop that started the login and to no other.
THEOREM TokensReachTheirOwner == Spec => []HandedToOwner
<1>1. OAuthInv => HandedToOwner
  BY DEF OAuthInv, HandedInv, HandedFits, HandedToOwner
<1> QED
  BY <1>1, OAuthInvariant, PTL

\* No token that is handed out has expired already, not even when Tradovate
\* was asked for it in between.
THEOREM NoDeadTokens == Spec => []TokensAreLive
<1>1. OAuthInv => TokensAreLive
  BY DEF OAuthInv, HandedInv, HandedFits, TokensAreLive
<1> QED
  BY <1>1, OAuthInvariant, PTL

\* The session id a desktop was handed stays the one of its login as long as
\* the login is authorized.
THEOREM SessionsAreDurable == Spec => []SessionStaysGood
<1>1. OAuthInv => SessionStaysGood
  BY DEF OAuthInv, HandedInv, HandedFits, SessionStaysGood
<1> QED
  BY <1>1, OAuthInvariant, PTL

\* What a desktop heard of its login's end is never taken back: it may only
\* hear later that the login expired.
THEOREM AnswersAreFinal == Spec => AnswersAdvance
<1>1. OAuthInv /\ [Next]_vars =>
        [\A s \in States : answer[s] # NULL => answer'[s] \in Later(answer[s])]_vars
  BY OAuthNext DEF StepGood, StepAdvances
<1> QED
  BY <1>1, OAuthInvariant, PTL DEF Spec, AnswersAdvance

\* No login is authorized after the time it was given.
THEOREM NoLateAuthorization == Spec => AuthorizedInTime
<1>1. OAuthInv /\ [Next]_vars =>
        [\A s \in States :
           /\ rows[s] # NULL /\ rows'[s] # NULL
           /\ rows[s].status = "pending" /\ rows'[s].status = "authorized"
           => now < rows[s].state_expires_at]_vars
  BY OAuthNext DEF StepGood, StepInTime
<1> QED
  BY <1>1, OAuthInvariant, PTL DEF Spec, AuthorizedInTime
=============================================================================
