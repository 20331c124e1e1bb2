---------------------------- MODULE MCWhopGrants ----------------------------
(***************************************************************************)
(* Instances of WhopGrants for TLC.  A month is 2 days; one membership "m" *)
(* of customer "c" bought plan "plan", whose package licenses "duo".       *)
(***************************************************************************)
EXTENDS WhopGrants, TLC

MCIds == {"m", "item", "pay1", "pay2"}

Bare ==
  [customer |-> "c", also |-> {}, membership |-> "m", item |-> NULL, payment |-> NULL,
   plan |-> "plan", product |-> NULL, raw |-> {}, event |-> {},
   start |-> NULL, end |-> NULL, trial_end |-> NULL]

Month == 2

Trial(end)  == [Bare EXCEPT !.raw = {"trial"}, !.trial_end = end]
Valid(start, end) ==
  [Bare EXCEPT !.raw = {"active"}, !.start = start, !.end = end]
Payment(id, start, end) ==
  [Bare EXCEPT !.raw = {"paid"}, !.payment = id, !.start = start, !.end = end]
Renewed(start, end) == [Valid(start, end) EXCEPT !.event = {"renew"}]
Refund == [Bare EXCEPT !.event = {"refund"}, !.raw = {"paid"}]
PaymentFailed == [Bare EXCEPT !.event = {"suspend"}]
Expired(end) == [Bare EXCEPT !.raw = {"expire"}, !.end = end]

Licensing(default, grants) ==
  [is_active |-> TRUE, is_ignored |-> FALSE, default_days |-> default, grants |-> grants]

OnePackage  == "plan" :> Licensing(Month, "duo" :> NULL)
NoDirect    == "plan" :> NULL
MCConfigs   == {OnePackage["plan"]}

-----------------------------------------------------------------------------
\* A first period announced twice, by its payment and by its membership
\* update, which ends a day later; the renewal; a refund of the first period.
PeriodEvents ==
  [payment |-> Payment("pay1", 0, Month),
   valid   |-> Valid(0, Month + 1),
   renewal |-> Renewed(Month, 2 * Month),
   refund  |-> [Refund EXCEPT !.start = 0, !.end = Month]]

\* The same without the renewal, for requests served at the same time.
OverlapIds == {"payment", "valid", "refund"}

\* A trial, its expiration, a failed payment with a date, the payment that
\* follows: the statuses of one row.
StandingEvents ==
  [trial   |-> Trial(1),
   expired |-> Expired(1),
   failed  |-> [PaymentFailed EXCEPT !.end = 3],
   retry   |-> Payment("pay1", 1, 3)]

\* Payments without dates, one of them announced by two events, and a trial.
DatelessEvents ==
  [first   |-> Payment("pay1", NULL, NULL),
   again   |-> [Payment("pay1", NULL, NULL) EXCEPT !.event = {"active"}],
   second  |-> Payment("pay2", NULL, NULL),
   free    |-> Trial(3)]

\* A payment, a membership that will end with its period, an id nobody
\* mapped, a payment with the email of one customer and the Whop id of another.
AnsweredEvents ==
  [payment |-> Payment("pay1", 0, Month),
   both    |-> [Payment("pay2", 0, Month) EXCEPT !.also = {"d"}],
   cancel  |-> [Valid(0, Month) EXCEPT !.event = {"cancel_at_period_end"}],
   other   |-> [Refund EXCEPT !.plan = "none"]]

\* Two periods of a package that administrators save in other ways, and a
\* product sold directly.
Sold == [Payment("pay1", 0, NULL) EXCEPT !.plan = "pack"]
BundleEvents ==
  [sold   |-> Sold,
   resold |-> [Sold EXCEPT !.raw = {"active"}, !.payment = NULL, !.start = 1],
   direct |-> [Valid(0, 1) EXCEPT !.plan = NULL, !.product = "prod", !.membership = NULL]]

Bundle == Licensing(Month, "duo" :> NULL @@ "orb" :> 1)
Single == Licensing(NULL, "duo" :> 1)
BundleConfigs ==
  {Single, Bundle, [Bundle EXCEPT !.is_active = FALSE], [Bundle EXCEPT !.is_ignored = TRUE]}

-----------------------------------------------------------------------------
\* A payment that fails and its retry that succeeds.
RetryEvents ==
  [failed  |-> [PaymentFailed EXCEPT !.start = 0],
   payment |-> Payment("pay1", 0, Month)]

RetryIds == DOMAIN RetryEvents

\* A payment without dates and the membership update of the same purchase.
TwiceEvents ==
  [payment |-> Payment("pay1", NULL, NULL),
   valid   |-> Valid(0, Month)]

TwiceIds == DOMAIN TwiceEvents
=============================================================================
