---------------------------- MODULE MCWhopStories ----------------------------
(***************************************************************************)
(* WhopGrants with the events of several stories: each behaviour is about  *)
(* the events of one of them.  Administrators step in in the second, when  *)
(* nothing fails; in the last one two requests are served at a time.       *)
(***************************************************************************)
EXTENDS MCWhopGrants

StoryEvents == PeriodEvents @@ StandingEvents @@ DatelessEvents
StoryIds    == DOMAIN StoryEvents

ASSUME StoriesAssumption ==
  PaymentsAreOfOnePurchase /\ BlocksAreDated /\ PeriodsAreComplete

VARIABLE story

StoryInit ==
  /\ Init
  /\ story \in {DOMAIN PeriodEvents, DOMAIN StandingEvents, DOMAIN DatelessEvents, OverlapIds}

StoryNext ==
  /\ Next
  /\ \A k \in Workers : worker'[k].event \in story \cup {NULL}
  /\ edits' > 0 => story = DOMAIN StandingEvents /\ faults' = 0
  /\ IF story = OverlapIds THEN now' < Month
     ELSE Cardinality({k \in Workers : worker'[k] # Idle}) <= 1
  /\ story' = story

SomeWorker == Permutations(Workers)

StorySpec == StoryInit /\ [][StoryNext]_<<vars, story>>
=============================================================================
