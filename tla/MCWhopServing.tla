---------------------------- MODULE MCWhopServing ----------------------------
(***************************************************************************)
(* WhopGrants on the deployed server, which serves one request at a time.  *)
(* Each behaviour is one of two stories: events of every kind of mapping,  *)
(* one of them refused for its customers, with two faults on one day, or a *)
(* package that an administrator saves in another way, or whose row is     *)
(* removed, between its periods.                                           *)
(***************************************************************************)
EXTENDS MCWhopGrants

ServingEvents  == AnsweredEvents @@ BundleEvents
ServingIds     == DOMAIN ServingEvents
ServingWhopIds == {"plan", "pack", "prod", "none"}
ServingConfigs == MCConfigs \cup BundleConfigs
MCProducts     == {"duo", "orb"}

Nothing         == [i \in ServingWhopIds |-> NULL]
ServingPackages == [Nothing EXCEPT !["plan"] = OnePackage["plan"], !["pack"] = Single]
ServingDirect   == [Nothing EXCEPT !["prod"] = "orb"]

VARIABLE story

StoryInit == Init /\ story \in {DOMAIN AnsweredEvents, DOMAIN BundleEvents}

Fits ==
  /\ \A k \in Workers : worker'[k].event \in story \cup {NULL}
  /\ edits' > 0 \/ now' > 0 => story = DOMAIN BundleEvents
  /\ faults' > 1 => story = DOMAIN AnsweredEvents
  /\ packages' # packages =>
       \E pkg \in {"pack", "prod"}, cfg \in BundleConfigs :
          packages' = [packages EXCEPT ![pkg] = cfg]
  /\ story' = story

StoryVars == <<vars, story>>
StoryNext == Next /\ Fits

\* The Fairness of WhopGrants, for the events of the story.
StorySpec ==
  /\ StoryInit /\ [][StoryNext]_StoryVars
  /\ \A k \in Workers : WF_StoryVars(Step(k) /\ UNCHANGED story)
  /\ \A w \in WebhookIds :
       SF_StoryVars(w \in story \ acked /\ (\E j \in Workers : Lookup(j, w)) /\ UNCHANGED story)

\* Events that name two customers with rows.
Refused == {w \in WebhookIds : Event[w].also # {}}

\* Whop is answered for every event it sends, mapped or not, whatever the
\* server's faults and the administrators' edits (process_whop_event takes an
\* event again unless it was processed), but for those the UNIQUE identifiers of
\* customers refuse: they are marked failed whenever they are sent, and hold no
\* other event up.
EveryEventAnswered ==
  /\ <>(story \ Refused \subseteq acked)
  /\ \A w \in Refused : w \in story => []<>(webhook_events[w] = "failed")
=============================================================================
