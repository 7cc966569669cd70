---------------------------- MODULE MCStorefront ----------------------------
(***************************************************************************)
(* Small instances of what the storefront shows: placements, of one        *)
(* listing in one place, and a review in the cache.  The two share no      *)
(* state, so that their product would show nothing more: a behaviour is    *)
(* one of one of them, and the other rests.  Of the review there are two   *)
(* instances: one write under requests that overlap, and as many writes as *)
(* MaxWrites while one request reads.                                      *)
(***************************************************************************)
EXTENDS Placement, Reviews

\* From day 1 for good; a counter-offer ends it on day 2, at another price.
ForGood == [cents |-> 1, place |-> "hero", from |-> 1, until |-> Unsaid]
SomeOffers == {ForGood}
TwoDays == [cents |-> 2, place |-> Unsaid, from |-> Unsaid, until |-> 2]
SomeCounters == {TwoDays}

VARIABLE part

StorefrontInit ==
    /\ Init /\ ReviewsInit
    /\ part \in {"placement", "readers", "writes"}

InPlacement == part = "placement" /\ Next /\ UNCHANGED <<reviewsVars, part>>

OneReads == LET first == CHOOSE r \in Readers : TRUE
            IN  \A r \in Readers \ {first} : reader'[r] = Resting

InReviews ==
    /\ part # "placement"
    /\ ReviewsNext
    /\ part = "readers" => source = 0 \/ reviewVars' = reviewVars
    /\ part = "writes" => OneReads
    /\ UNCHANGED <<vars, part>>

StorefrontSpec ==
    /\ StorefrontInit
    /\ [][InPlacement \/ InReviews]_<<vars, reviewsVars, part>>
    /\ part = "placement" => Fairness
    /\ part # "placement" => ReviewsFairness
=============================================================================
