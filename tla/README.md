# AutoEdge licensing server: formal model

TLA+ modules of the licensing server in this repository, the TLC instances that
check them, and TLAPS proofs of what holds for every instance. Everything below
is about the code at this commit; `S` stands for
`src/autoedge_licensing/service.py` and `A` for `src/autoedge_licensing/app.py`.

Contents: 1 the system, 2 how it runs, 3 the modules and their state,
4 runs, 5 bounds, 6 fairness, 7 disagreements with the documentation, 8 proofs,
9 what is only checked and what is not modelled, 10 plan.

## 1. The system

A WSGI server (`A`) over a service class (`S`) over one SQLite file. Whop sells
memberships and sends webhooks; administrators configure products and packages
and correct rows by hand; two kinds of clients on customers' machines (TraderPro
Desktop and NT8) ask for licenses; TraderPro also fetches releases and logs in
at Tradovate through the server.

| Component | State | Operations | What makes it correct |
|---|---|---|---|
| Whop webhooks (S 1787-2615, 4798-5028) | `webhook_events`, `customers`, `subscriptions`, `entitlements`, `license_grant_ledger` | `process_whop_event` | every event is answered, and only after it was applied; coverage reaches what the events asked for, no more, whatever their order and repetition; a blocked row returns with more coverage only |
| Packages and entitlements by hand (S 714-910, 1579-1681) | `whop_packages`, `whop_package_grants`, `entitlements` | save package, set and remove entitlement | a change between two sessions of a webhook harms nothing |
| License checks and seats (S 3452-3577, 4005-4110, 4414-4728) | `devices`, `customers.max_devices`, signed leases | `check_license`, `check_nt8_license`, limits and blocks | seats are not oversold, are kept by their holders, leases end |
| Tradovate logins (S 3600-4003, 4124-4307; A 408-595) | `tradovate_oauth_states` | start, callback, complete, refresh | the token goes to the desktop that started the login; a login ends, once |
| Releases (S 912-1345, 3193-3362; A 748-810) | `trader_releases`, `release_download_tokens`, files | register, edit, prune, create token, download | retention deletes nothing that is needed, revoked tokens stay dead |
| License decision (S 4320-4412, 4730-4796) | reads `entitlements`, `products` | `_current_grants`, `_grant_is_licensed`, `_entitlement_states` | active as long as any source covers the product, and as long as the longest does |
| Release targeting, manifest (S 2617-3191) | `trader_releases`, `products`, `customers.tags_json`, `release_download_tokens` | manifest, token, audience, channel, roll-out | nothing private is told; what is offered can be had; a right that ended soon serves nothing |
| Customers and keys (S 1346-1475) | `customers` | `create_or_update_customer`, key rotation, `_find_customer` | one row for one person, one person for a row; a check finds who has the coverage |
| Catalogue (S 512-713; `scripts/seed_products.py`) | `products` | save | slugs and features unique |
| Administrators (S 391-510) | `admin_users`, `admin_sessions` | login, logout, password | a changed password ends all sessions |
| Rate limiter (A 91-106) | a dictionary in memory | `allow` | at most so many calls in any minute |
| Database, migrations (`db.py`, `migrations/`) | the file, `schema_migrations` | `session`, `apply_migrations` | all of a transaction or nothing; what is recorded as applied is there, but for one table that a second run may take away, and no row is lost on the way |
| Signatures, secrets (`security.py`, `signing.py`) | keys | sign, verify, encrypt | cryptography |
| Configuration, pages, Tradovate client, backup, deployment | | | I/O |

Interactions. A webhook writes `entitlements`; a check reads them, takes a seat
and issues a lease; Tradovate login, refresh and release download start with a
check of their own, in another session. Packages are read by webhooks two
sessions before their grants. A webhook finds or inserts its customer in one
session and gives the coverage to it in the next. Registering a release is
followed, in the same request and another session, by pruning, then by deleting
files. Migrations run in every process that opens the database: the server at
its start, and the operator's scripts beside it.

Hard behaviours. Requests are cut into sessions, so the process can die, or a
session raise, between any two effects; Whop repeats and reorders; writers may
overlap; dates move under rows that are blocked, expired or missing; limits,
blocks and packages are edited between two reads of one request; a browser may
come back twice or never; files and rows cannot be changed together. The
`hazards` of `PROJECT.json` list each at its line.

## 2. How it runs

`main` (A 1995-2005) serves with `wsgiref`'s single-threaded server under
systemd with `Restart=always`: one request at a time, killed and started again at any
point. The service layer is written, and tested (tests/test_service.py:1638),
for several writers at once: SQLite's write lock, `BEGIN IMMEDIATE` in the
transactions that matter. `WhopGrants`, `LicenseCheck` and `CustomerIdentity`
have `Workers` requests at a time: one is the deployed server, two are the
writers the service promises to bear. `TradovateOAuth`, `ReleaseRetention` and
`ReleaseAccess` have one request, the deployed server: their callbacks,
prunings and downloads are written for it; within a request time passes and
the process may die. `Migrations` has `Processes`, the server and scripts.

`Database.session()` (db.py 22) rolls back whatever raises. A session is one
action; a session that reads before it takes the write lock (`_upsert_device`)
is two, as is `create_or_update_customer`. Where a request ends a session and
opens another, the module has a program counter, and `Crash` may strike there.
`apply_migrations` does not have that shape: `executescript` commits after each
statement, so each statement is an action of `Migrations`.

## 3. Modules

| Module | Models | Variables and the rows they are |
|---|---|---|
| `WhopEvents` | what an event says: status words, kind of grant, dates, target date, ledger fingerprint (S 2216-2244, 2518-2561, 4798-5028) | none: pure operators over the constant `Event` |
| `WhopGrants` | a webhook in five sessions, administrators, crashes | `webhook_events`, `customers`, `packages`, `subscriptions`, `entitlements`, `ledger`; `worker`: what each request has read; `acked`: what Whop has heard |
| `Coverage` | abstract: what may happen to one source of coverage | `standing`, `through`, `day` |
| `LicenseCheck` | both checks for one customer; seats and leases; edits | `devices`, `max_devices`, `coverage` (the best end per product), `leases` |
| `TradovateOAuth` | a login from start to renewal, and everything that may come between | `rows`, `request`, `licensed`, `answer` (the last thing the desktop heard) |
| `ReleaseRetention` | releases, files, tokens, pruning | `releases`, `files`, `tokens`, `request` |
| `LicenseDecision` | which of a customer's rows decides for each product; webhooks, administrators and product edits that change them | `entitlements`, `products`, `removed` (the audit entries that are read back), `now` |
| `ReleaseAccess` | the manifest, and a download token from its check to its use, for one customer on one platform | those of `LicenseDecision`, `releases`, `updated`, `tags`, `seat` (the answer of `LicenseCheck`), `request`, `tokens` |
| `CustomerIdentity` | customers found, inserted and merged by webhooks and forms; keys; the lookup of a check | `customers`, `covered` (whose a membership is), `worker` |
| `Migrations` | `apply_migrations` statement by statement, several processes | `recorded`, `schema` (tables and columns), `rows` (grants of packages), `process` |
| `MC...` | instances for TLC | `MCWhopStories`, `MCWhopServing`, `MCSeatsAndLeases` and `MCReleaseAccess` add a variable that keeps one behaviour to one story |
| `...Proofs` | section 8 | |

Composition: `WhopGrants` EXTENDS `WhopEvents` and implements `Coverage`
(`Abstract == INSTANCE Coverage WITH ...`: a row's status and expiry become
standing and date). `LicenseDecision` then uses `Coverage` in place of
`WhopGrants`: its `ProcessWhopEvent` writes any row for which `Whop!Change` holds,
so that what is found for the decision holds for all that webhooks may do.
`ReleaseAccess` EXTENDS `LicenseDecision`; the seat of the machine is a variable
that changes freely, in place of `LicenseCheck`. `SetCoverage` in
`LicenseCheck` stands for the visible effect of the decision on one product: webhooks,
manual edits, and a date that is reached. `licensed` in
`TradovateOAuth` stands for the answer of `LicenseCheck`; the tokens of
`ReleaseRetention` are drawn for a customer for whom the checks passed, and those of
`ReleaseAccess` serve when the file is there.

Correspondence, in short (`PROJECT.json` "map" has every definition with its
lines):

- `Lookup`, `RecordReceived`, `FindMapping`, `EnsureCustomer`,
  `ApplyPackage`/`ApplyDirect`, `MarkProcessed` are the sessions of
  `process_whop_event` in order. `Raise` then `MarkFailed` is its `except`;
  `Abort` is an exception in one of the sessions outside it.
- In `EnsureCustomer` an event carries identifiers of its `customer` and perhaps
  of others (`also`) who have rows (`InitCustomers`): then a UNIQUE column refuses
  it whenever it is sent (`Clash`). How rows come by identifiers is the subject of
  `CustomerIdentity`.
- Whop's texts are sets of word classes (`raw`, `event`), one word per class of
  the lists in `normalize_entitlement_status`; dates are days, and a month is two.
- One package keeps its `whop_id`; direct products do not change.
- `FindCustomer`, `FindDevice`, then `Activate`, `Refuse` or `Conflict` is a
  check. `Upserted` inserts or updates the row, `Marked` is
  `_mark_device_licensed`, `NewLeases` the leases. `Conflict` is the UNIQUE
  constraint of `devices`.
- `Find`, then `Insert`, `Update` or `Refuse`, is `create_or_update_customer`:
  the SELECT, and the write that holds the lock. `Merged` is its COALESCE,
  `Conflict` the UNIQUE constraints, `Grant` the later session of a webhook.
- `CheckLicense` and `create_release_download_token` are the two sessions of the request
  for a token. The manifest changes nothing but the machine's row, so it is an
  operator, evaluated in each state.
- `Better` is the loop body of `_current_grants`, folded along each order that
  `ORDER BY updated_at DESC` may give.
- A statement of a script is a record: what it makes, renames, copies or drops.
  `Fails` says when it fails the second time.
- A history variable (`applied`, `activated`, `edited`, `changed`, `handed`,
  `started`, `revoked`, `drawn`, `allowed`, `issued`, `served`, `saved`, `cut`) is
  what a property needs to speak of the past; no guard of a handler reads one,
  except that random values are drawn once (`started`, `drawn`, `issued`) and
  that saves are bounded (`saved`).
- A definition commented "Error to be caught" is not part of a module's
  behaviour: it is a plausible mistake in the definition after it, by which the
  properties were tried out.

## 4. Runs

| Run | Instance | Properties |
|---|---|---|
| `stories` | one plan, one worker, one fault: payment, update, renewal and refund of two periods; or a trial, its expiration, a failed payment and its retry, with a row removed when nothing fails; or a trial and payments without dates. And two requests at once for the events of one period | `EnsuredThrough`, `NoMoreThanAsked`, `DatelessDaysOnce`: the date is what the applied events asked for. `LicenseReturnsWithCoverage`, `ReplayGrantsNothing`, `ImplementsCoverage`, `AnsweredIsApplied`, `PeriodPaidOnce`, `SubscriptionPeriodIsLatest`, `TypeOK` |
| `serving` | the deployed server: a package of two products saved in different ways between its periods, rows removed, a direct product; or mapped, ignored and unmapped events and one that names two customers, two faults, retries | `CoverageNeverShrinks`, `PaymentsAreDated`, `EveryEventAnswered` (liveness) |
| `retry`, `twice` | section 7 | violated |
| `seats_and_leases` | two machines, two checks at once, limits and blocks edited; or three machines and edits; or one machine, both clients, coverage changing and ending | `SeatsNeverOversold`, `SeatsAreKept`, `SeatsEndWithinGrace`, `LeasesEndWithCoverage`, `TypeOK` |
| `strategy` | section 7 | violated |
| `oauth` | two logins of one desktop, perhaps one of before migration 011; a second desktop that presents their states; a crash, a lost license | `HandedToOwner`, `TokensAreLive`, `SessionStaysGood`, `AnswersAdvance`, `AuthorizedInTime`, `PollingEnds` (liveness), `TypeOK` |
| `releases` | three releases in two streams, shared files, one kept, an edit, two failures | `NeededFilesStay`, `PrunedFilesGo`, `NewestAreKept`, `ActiveWithinCount`, `RevokedNeverServe`, `TypeOK` |
| `aliases` | section 7 | violated |
| `access` | a product with two Whop sources and a manual one, two of its releases, one of TraderPro Desktop and a desktop release under another key: rows written twice over time; or releases, tags, product and seat in every combination; or a token while rights, targets and time change | `EffectiveAccess`, `ServedWasAllowed`, `OffersMatchDownloads`, `PrivateStaysHidden`, `TypeOK` |
| `customers` | three persons, four calls or rotations, two served at once, crashes | `OneCustomerPerPerson`, `CoverageIsFound` |
| `migrations` | three starts by two processes, from an empty database or one of before migration 003; a package saved while 003 runs | `RecordedIsDone`, `GrantsSurvive` |

Each property is stated in words where it is defined. `ReplayGrantsNothing`,
`EnsuredThrough` and `NoMoreThanAsked` speak of behaviours in which
administrators keep out (`edits = 0`): a removed row is meant to forget.
`NoMoreThanAsked` leaves out rows with undated payments, which
`DatelessDaysOnce` is about: from below for rows that no dated payment reached,
from above for those that nothing else reached. It keeps to `edits = 0` too.

Deadlock is checked except in `oauth`, `releases`, `aliases`, `access`,
`customers` and `migrations`. There the system may really stop: desktops,
browsers, operators and callers need not ask again, and the bounds on logins,
edits, uploads, calls and starts are spent. In the other modules a delivery or
a check is always possible.

## 5. Bounds

Each bound is a constant, named and commented in its module.

- `WhopGrants`: two to four events, one membership, `MaxNow` 1-3 days (a month
  is two days, so that a period starts, lasts and ends), one or two faults. Four events
  are two periods with an event of every kind that touches a date; three
  undated payments are one pair that shares its id and one that does not. The
  events that are to be answered all come on one day. Any
  order and any number of repetitions of them is in the graph, since `Lookup` is
  not bounded.
- `LicenseCheck`: two machines at once with one seat is the smallest race;
  three machines make an order among seats in which one in the middle can be
  blocked and come back. The grace period is two seconds, so a lease can be
  issued, outlive a change and end. Permutations of machines are a symmetry:
  no machine is named, and `rowid` follows the order of insertion. Requests
  served at a time are one too, here and in `stories`.
- `TradovateOAuth`: a login lasts one second of three, so it runs out before the
  callback, during the exchange and during the completion; finished logins are
  cleaned up from the second after (`KeepSeconds` is seven days in the code; the
  clean-up is by `created_at` and only relates the two). Two tokens: one to
  exchange, one to renew. Lifetimes are one second or none named (a token that is dead on arrival, a
  lifetime of zero, is left out). `Starters` is
  the desktop with the logins; the other one only presents them.
- `ReleaseRetention`: three releases, one kept, two streams, two files, one edit
  and two uploads: a file shared inside a stream and across streams, a pruned
  release published again, a file copied again while its deletion is under way.
- `ReleaseAccess`: two sources that webhooks write and one written by hand are
  a row that masks, a row that covers and a third between them. Two edits are
  one before a token's check and one after it, or the two rows of one product.
  A release starts in each of the ways `Targeted` lists: every audience mode,
  channel, tag and side of the rollout boundary (buckets 0, 50 and 99 against
  0, 50, 51 and 100 percent), beside a public one or without any. The desktop release under another key is
  active or withdrawn and keeps its target, since nothing depends on an edit of it. Three seconds and a token
  of one second: the token is drawn, lasts and is over.
- `CustomerIdentity`: of three persons one is always named by a Whop user, one
  always by email, one by neither; with four calls two can insert at once, one
  is refused and returns. Three persons, four rows and four keys leave
  room for every row a wrong merge or split would add. Rows, keys and workers are symmetric.
- `Migrations`: scripts 001 to 005 are every kind of statement there is,
  and the one that moves rows (003) in the middle. Three starts: one that dies, one beside it,
  one after both. A package is saved only while 003 is under way or cut, where it
  matters. The theorem about 003 needs none of these bounds.

## 6. Fairness

- `WhopGrants`: a request runs on (WF of `Step(k)`), and Whop delivers an event
  again until it is answered (SF of `Lookup`, since other deliveries may occupy
  the server in between). Crashes and exceptions are bounded, not fair. An event
  that names two customers is refused each time: `EveryEventAnswered` says that it
  is marked failed again and again, and that all others are answered all the same.
- `TradovateOAuth`: a request runs on (WF of `Serve`), time passes (WF of
  `Tick`), and the desktop polls its own login (SF). Nothing makes a browser
  come back, Tradovate answer with a token, or a license return.
- The other modules: only safety is claimed. A check, a form or a start that is
  not repeated leaves nothing that must still happen.

`MCWhopServing` states the fairness of `WhopGrants` once more, for the events of
the story it is in (`StorySpec`).

## 7. Disagreements with the documentation

| Run | What the code does | What is written |
|---|---|---|
| `retry` | A failed payment that comes before any coverage makes a suspended row without expiry; `_apply_whop_package_grant` then never counts anything as more coverage than "no expiry", so the payment that succeeds later leaves it suspended for ever (S 2293) | README.md:137, paid events ensure access through the later of both dates |
| `twice` | A membership update with its period, then its payment without dates: other fingerprint, no period to compare, so the days are added after the coverage of the update (S 2244) | README.md:138, a payment and its matching membership update cannot add the same period twice |
| `strategy` | An NT8 check for a strategy outside the coverage marks the machine before the strategy is looked at and answers `unlicensed_strategy`: a seat without an active answer (S 4084) | README.md:1015, devices are counted only after a successful active check |
| `aliases` | Shared files are recognised by the text of `artifact_path`; `duo.zip` and its absolute path are one file. Pruning the release with one spelling deletes the file of the release with the other (S 945) | README.md:626, the artifact is deleted unless another release row references the same file |

Seen while modelling and left to the reader, without a run:

- `entitlement_states` and `license_status` may call a product active that has
  not started yet, or that is disabled (S 4340); the license is not.
- An NT8 lease lasts for the grace period even when coverage ends before it;
  it is an opaque cache mark, not a signed lease (S 3542). `LeasesEndWithCoverage`
  is therefore about TraderPro's.
- An authorized login whose desktop never asks again is never marked as expired
  (S 4141); an address that stops calling keeps its entry in the rate limiter (A 104).
- The pruned releases of two streams that share a file keep it for each other
  (S 945).
- A process that dies after an ADD COLUMN of a migration and before its name is
  recorded leaves a database with which no later start succeeds, as the column
  exists (db.py 58); the same for 003 after its RENAME. Nothing is lost
  (`GrantsSurvive`), but someone must finish the script by hand.
- Two processes that apply 003 at once, one of which dies in it after the other
  recorded it, leave `whop_package_grants` missing although 003 is recorded, and no
  later start makes it again. `RecordedIsDone` makes this exception and no other
  (`cut`, or the second process is about to make the table), and says that the
  table with the old name is there; the grants are in it (`GrantsSurvive`).
- A person entered by email, whose webhooks then named only the user, has two
  rows; every later call that names both takes one of them and is refused for the other's
  identifier, for ever (S 1380). `OneCustomerPerPerson` is about persons all of
  whose calls name one identifier; that a refused event is marked failed and holds
  up no other is in `EveryEventAnswered`.
- A desktop release may be saved under any key (A 1612). Under one that is not
  `trader-desktop` the manifest offers it to nobody (S 3140), while a download
  token for it is given to a customer it targets who names its id (S 3262). `OffersMatchDownloads`
  says both.

## 8. Proofs

TLAPS proves these for all values of the constants, under the named ASSUMEs,
which TLC evaluates in the runs of their modules:

- `EventsAssumption`, `PackagesAssumption`, `LicenseAssumption`,
  `OAuthAssumption`, `RetentionAssumption`, `DecisionAssumption`,
  `AccessAssumption`, `IdentityAssumption`, `MigrationsAssumption`, and
  `RowAssumption` of `LicenseCheck` and of `TradovateOAuth`: constants have the
  types of their columns, and NULL is none of their values and no row;
- in `IdentityAssumption`, that no two persons share an identifier;
- in `CustomersAssumption` of `WhopGrants`, that an event which names several
  customers is about customers who had rows at the start;
- in `DecisionAssumption`, that a customer starts with finitely many rows, of
  which those of Whop expire on a date, and in `AccessAssumption`, that there
  are finitely many releases. That the rows stay finitely many is proved, as it
  is for devices in `LicenseCheck`.

No bound is needed except as a natural number. Four theorems about grants have
conditions on the events as hypotheses, one has `OneWorker`, one has
`OnePathPerFile`; they are in the table, with what goes wrong without them.

| Theorem | Argument |
|---|---|
| `TypesCorrect`, `AnsweredEventsAreApplied` (`WhopGrantsProofs`) | The invariant `IInv` is `TypeOK`, `AnsweredIsApplied` and `InFlight`. `InFlight` says what a request has read at each program counter: without it `MarkProcessed` may mark an event nobody applied, and `ApplyPackage` may look into a package that is NULL. One lemma per action that writes rows, one for those that only move a request. |
| `PeriodsArePaidOnce` (same) | A grant that finds the period of its subscription credited writes no entry, and the row that says so is in the ledger when the next one is looked for (`EffectStep`, `AppliedAfter`): `OneMorePeriod` adds an entry only for a period without one. |
| `SubscriptionIsLatest` (same) | `ReadsInv` ties what a request has read to what is still there; by `later_time` each application leaves the row at the latest period of the events applied so far. |
| `CoverageOnlyGrows`, `LicenseNeedsCoverage`, `CoverageImplemented` (`WhopCoverageProofs`) | `RowStep`: each step leaves a row alone, removes it or writes it by `NewRow`. `WriteEffect`: what `NewRow` does to the standing and date of any row, for each kind of event. The invariant `RowsFit` (only a row with status revoked has `revoked_at`, an expired row has a date, no row is pending) is needed for an expired row to be opened only by a date. From these each step is a step of `Coverage` or a stutter. |
| `PaidRowsAreDated` (same) | With `OneWorker` no package is saved between the session that reads it and the one that reads its grants, so what makes a row good has been validated to have days or a period. With several workers it is false: a save may fall between the two reads. |
| `GrantsAreEnsured` (same) | The invariants `RowsDated` (the row of a package has a date once it exists), `EntriesHaveRows` (an entry of the ledger is of an event, whose row exists) and `GrantsAreKept`. They need `PaymentsAreOfOnePurchase`, as an entry is found by its payment alone, and `BlocksAreDated`, as a row that a block made without a date is never given one (run `retry`). |
| `DatesWereAskedFor` (same) | `TargetFixed`: with `PeriodsAreComplete` what an event asks for does not depend on the day it is applied; an end without a start does. `WriterIsApplied`: whoever wrote the date is among the applied events. |
| `DatelessDaysCounted` (same) | `DaysAreCounted` adds to the property that the payments are finitely many; `PaymentFingerprint` and `KnownIsCounted`: a payment's fingerprint is known exactly when the payment was counted, so a new one adds its days to what is there (`NewPayment`) and a known one writes nothing. `RowsHaveEvents`: a row that is there before the first payment was made by something else. |
| `ReplaysGrantNothing` (same) | From the two theorems before: what was applied is kept and asked for the same. |
| `NoSeatIsOversold`, `SeatsStay`, `SeatsEnd`, `TypesCorrect` (`LicenseCheckProofs`) | `SeatsInv`: rows have different row ids and are finitely many, a request that found a row found one that still has its id, and each lease is of a machine that may run or ends within the grace period of an edit. `NoSeatIsOversold` compares the machines that count before and after the step by the theorems on cardinality. |
| `TraderLeasesEnd` (same) | `LeasesEndWithCoverage` is not inductive, as it does not say why a lease will still be covered in a second; `LeaseBacked` bounds each lease's end by the ends of what it names, or by the grace period after the last change. |
| `TokensReachTheirOwner`, `AnswersAreFinal`, `SessionsAreDurable`, `NoDeadTokens`, `NoLateAuthorization`, `RowsAreOwned` (`TradovateOAuthProofs`) | One invariant, `OAuthInv`: rows belong to the desktop that drew their state (`RowsInv`), a request that is half-way holds what its row said (`RequestInv`), the last answer is one the row can still stand for (`AnswersInv`), and a session id that was handed out is that of its row as long as the row is authorized (`HandedInv`). |
| `RetentionSparesNeededFiles` (`ReleaseRetentionProofs`) | The invariant `PathsUnshared`: while files are being unlinked, their paths are in `UnsharedPaths` of the rows as they are. Assumes `OnePathPerFile`, without which it is false: run `aliases`. |
| `RevokedTokensAreDead` (same) | `RevokedInv`: a revoked token was drawn, so it is not drawn again, and its row is gone. |
| `PruningRemovesTheFiles` (same) | `PathsToCome`: an unshared path whose file is still there, and was not passed over or copied anew, is yet to be unlinked. |
| `PruningKeepsTheNewest`, `PruningBoundsTheActive` (same) | Of a finite set of numbers at most `KeepCount` have fewer than `KeepCount` above them (`AtMostCount`): the count of those above tells any two apart. A release outside `Stale` is one of these. |
| `TypesCorrect` (same) | `RowsWithoutGap`: rows numbered without gaps are as many as the last says, so a new one leaves none; `PathsOfPruned`: what is unlinked belongs to deactivated releases. |
| `DownloadsWereAllowed` (`ReleaseAccessProofs`) | `AccessInv`: what a request holds was licensed when it began, at most `RequestSeconds` ago, and a token that still lasts was drawn less than `TokenSeconds` ago. The release and its target cannot change while a request is served, so what the second session grants was to be had at the first. |
| `AccessIsEffective` (same) | After each row that is met, the one kept is the best so far (`BestSoFar`), as `Better` keeps the better of two and lasting longer is transitive; an order of finitely many rows meets each (`OrdersMeetAll`). `LicensedIsCovered` needs that a lapsed row of Whop has a date (`RowsInv`). |
| `PrivateIsHidden` (same) | A product that is told is licensed, so the row taken for it covers it (`BestIsBest`). |
| `OffersAreGiven` (same) | `Newer` is a strict total order of the releases (`NewerIsAnOrder`), so of finitely many visible ones of a package one is newest (`OneIsNewest`). Those of the desktop that pass the filter have one key, so they are one package, and at most one is the update. |
| `TypesCorrect` (same) | `AccessTypes`, with the rows of entitlements finitely many. |
| `PersonsAreOneCustomer` (`CustomerIdentityProofs`) | The UNIQUE constraints do not give it, as a lookup may find a row by an identifier the row has lost when it is written. `IdentityInv`: every identifier a row holds was named by a person the row served (`HeldInv`), a row serves one person (`ServedInv`), what a worker found has served its person (`FoundInv`), and a row that served an anchored person holds its anchor (`AnchorInv`). |
| `ChecksFindCoverage` (same) | `FindingInv` adds to it that a row's key was generated for it (`KeyInv`) and that coverage, given or about to be, is a customer's that served the membership's person (`CoveredInv`, `GrantInv`). Whatever else a check names finds that row or none. |
| `NoGrantIsLost` (`MigrationsProofs`) | `MigrationsInv`: while `whop_package_grants_old` is there nobody else gets past the RENAME, so one process at a time is beyond it (`MovingInv`), and when that one is about to drop the table the grants have been copied (`GrantsInv`). |
| `WhatIsRecordedIsDone` (same) | `DoneInv`: a process that runs a script has made what the statements before its position make, and one that is over with it has made all of it; what is made is taken away by 003 alone, and made again before it is recorded. `GrantsThere`: when the new table is missing after that, a second process is between its RENAME and its CREATE, or died there, and the old table is there. |

The conditions on events, `PaymentsAreOfOnePurchase`, `BlocksAreDated` and
`PeriodsAreComplete`, are defined in `WhopGrants`; `MCWhopStories` assumes them,
so TLC finds that the events of run `stories` meet them.

The provers have no induction on numbers or sequences. Where a proof needs one
(the fold over the rows), it takes the least exception instead: every set of
numbers that is not empty has a least element (`LeastNumber`), by the
well-foundedness of < on the natural numbers.

## 9. Checked only, and not modelled

Checked by TLC and not proved: the liveness properties `EveryEventAnswered` and
`PollingEnds` (out of TLAPS' reach, as are ENABLED and the fairness they need).

Not modelled: cryptography; I/O (pages, Tradovate's protocol, configuration,
backup); administrators' sessions, each request of which is one transaction on
rows of its own; the rate limiter, whose one guard is all there would be to
state; of the catalogue, how a row is matched and what seeds write. Inside the
modules: validation of forms and signatures (a refused form changes nothing),
the audit log except for the entries that are read back, `last_seen_at`-like
columns, renaming a package under one id, versions and the other fields of a
manifest's items, the environment (demo or live) of a Tradovate login,
migrations 006 to 019, whose statements are of the kinds of 001 to 005, and
indexes.

## 10. Plan

The model is as complete as planned: `WhopEvents`, `WhopGrants` with
`Coverage`; `LicenseCheck`; `TradovateOAuth`; `ReleaseRetention`;
`LicenseDecision` with `ReleaseAccess`; `CustomerIdentity`; `Migrations`. Every
property of the passing runs that is not a liveness property is proved.
