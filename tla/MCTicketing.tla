----------------------------- MODULE MCTicketing ------------------------------
(***************************************************************************)
(* An instance of Ticketing for TLC, in two scenes: two members, each at a *)
(* page that shows one list; or one of them, who also changes the filter.  *)
(* A step of either scene is a step of Ticketing.                          *)
(***************************************************************************)
EXTENDS Ticketing

CONSTANTS
    t1, ana, dan, r1, r2, r3, p1, p2,
    ClicksOfTwo    \* bound on the clicks of two members

VARIABLE scene

MCVars == <<vars, scene>>
MCMemberOf == [p \in Pages |-> IF p = p1 THEN ana ELSE dan]
MCPageOf == [r \in Requests |-> IF r = r3 THEN p2 ELSE p1]

\* Each of two members has one mutation at a time.
OfTwo == clicks' <= ClicksOfTwo /\ filter' = filter /\ call'[r2] = NoCall

\* One member has two; the tickets are hers, and none is deleted.
OfOne ==
    /\ cache'[p2] = cache[p2] /\ filter'[p2] = filter[p2] /\ drawer'[p2] = Closed
    /\ call'[r3] = NoCall
    /\ gone' = {} /\ \A t \in Tickets : log'[t] # <<>> => log'[t][1].creator = ana

Within == IF scene = "two members" THEN OfTwo ELSE OfOne

MCInit == Init /\ scene \in {"two members", "one member"}
MCNext == Next /\ Within /\ UNCHANGED scene

(***************************************************************************)
(* Fairness: fetches that were sent are served, and shown or given up.     *)
(* Nobody has to click, and no answer has to come.                         *)
(***************************************************************************)
SomeFetch == \E p \in Pages, f \in Filters : Fetch(p, f) \/ FailFetch(p, f)
MCSpec == MCInit /\ [][MCNext]_MCVars /\ WF_MCVars(SomeFetch /\ Within /\ UNCHANGED scene)
=============================================================================
