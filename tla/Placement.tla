----------------------------- MODULE Placement -----------------------------
(***************************************************************************)
(* Homepage placement: lib/placement.ts and its routes in                  *)
(* routes/adminPlacement.ts and routes/sellerMessaging.ts.                 *)
(*                                                                         *)
(* A desk is one request of a seller or of a moderator; what it read goes  *)
(* into the message and the row it writes later.  A sweeper is one replica *)
(* of startPlacementSweeper.  A place is a slot and a position; of a       *)
(* message there are the terms its words state.                            *)
(***************************************************************************)
EXTENDS Naturals, FiniteSets

CONSTANTS
    Listings,
    NoListing,
    Places,
    Offers,         \* the terms a seller may offer
    Counters,       \* what a counter-offer may say; Unsaid keeps what there is
    Unsaid,         \* null: a date that is not set, or not part of a counter
    Desks,
    Sweepers,
    Batch,          \* how many due requests a sweep takes
    MaxRequests,    \* how many requests are made (bound)
    MaxTime,        \* how far the clock runs (bound)
    MaxFailures     \* how many sweeps fail half way (bound)

Requests == 1..MaxRequests      \* in the order of createdAt
Dates == (0..MaxTime + 1) \cup {Unsaid}
Terms == [cents : Nat, place : Places \cup {Unsaid}, from : Dates, until : Dates]

ASSUME PlacementAssumption ==
    /\ Batch \in Nat \ {0}
    /\ MaxRequests \in Nat /\ MaxTime \in Nat /\ MaxFailures \in Nat
    /\ Offers \cup Counters \subseteq Terms

VARIABLES
    request,    \* request[r]: the row of "placement_requests"; 0 cents are
                \* a price not agreed
    said,       \* said[r]: the terms each side stated last in the thread
    desk,       \* desk[d]: what a seller or a moderator is about to write
    sweep,      \* sweep[s]: what is left of the sweeper's pass
    clock,
    failures,   \* how many sweeps have failed
    crossed     \* history: requests countered while the seller was accepting

vars == <<request, said, desk, sweep, clock, failures, crossed>>

Sides == {"SELLER", "ADMIN"}

Statuses == {"none", "REQUESTED", "COUNTERED", "AGREED", "LIVE",
             "ENDED", "DECLINED", "WITHDRAWN"}
AWAITING_ADMIN == {"REQUESTED", "COUNTERED"}
SELLER_CAN_WITHDRAW == AWAITING_ADMIN \cup {"AGREED"}
Over == {"ENDED", "DECLINED", "WITHDRAWN"}

In(S) == {r \in Requests : request[r].status \in S}
Oldest(S) == {r \in S : \A q \in S : r <= q}
Moved(r, status) == [request EXCEPT ![r].status = status]

IdleDesk == [task |-> "idle"]
Takes(d, task, r, terms) ==
    /\ desk[d] = IdleDesk
    /\ desk' = [desk EXCEPT ![d] = [task |-> task, request |-> r, terms |-> terms]]
Leaves(d) == desk' = [desk EXCEPT ![d] = IdleDesk]
Read(d) == desk[d].terms

\* What a message says of terms: period() prints both dates or, when one is
\* missing, "dates to be agreed".  The mistake is to leave the period out.
Undated(terms) == [terms EXCEPT !.from = Unsaid, !.until = Unsaid]
Dated(terms) == Unsaid \notin {terms.from, terms.until}
Stated(terms) == IF Dated(terms) THEN terms ELSE Undated(terms)

-----------------------------------------------------------------------------
(* requestPlacement                                                        *)

\* One open conversation per listing is a courtesy: it is read, then written.
Ask(d, l, terms) ==
    /\ ~\E r \in In(AWAITING_ADMIN \cup {"AGREED", "LIVE"}) : request[r].listing = l
    /\ In({"none"}) # {}
    /\ desk[d] = IdleDesk
    /\ desk' = [desk EXCEPT ![d] = [task |-> "ask", listing |-> l, terms |-> terms]]
    /\ UNCHANGED <<request, said, sweep, clock, failures, crossed>>

Open(d) ==
    /\ desk[d].task = "ask"
    /\ \E r \in Oldest(In({"none"})) :
           /\ request' = [request EXCEPT ![r] =
                  [status |-> "REQUESTED", listing |-> desk[d].listing,
                   offered |-> Read(d).cents, terms |-> [Read(d) EXCEPT !.cents = 0]]]
           /\ said' = [said EXCEPT ![r] = [side \in Sides |->
                  IF side = "SELLER" THEN Stated(Read(d)) ELSE Unsaid]]
    /\ Leaves(d)
    /\ UNCHANGED <<sweep, clock, failures, crossed>>

-----------------------------------------------------------------------------
(* counterOffer, acceptAsOffered, acceptCounter: read, then transition     *)

Kept(new, old) == IF new = Unsaid THEN old ELSE new

\* The status is checked when the answer is written, so that a seller may have
\* read a request nobody has countered yet.
Look(d, r) ==
    /\ LET row == request[r].terms
       IN  \/ /\ r \in In(AWAITING_ADMIN)
              /\ \E c \in Counters :
                  Takes(d, "counter", r,
                     [cents |-> c.cents, place |-> Kept(c.place, row.place),
                      from |-> Kept(c.from, row.from), until |-> Kept(c.until, row.until)])
           \/ /\ r \in In({"REQUESTED"})
              /\ Takes(d, "agree", r, [row EXCEPT !.cents = request[r].offered])
           \/ r \in In(AWAITING_ADMIN) /\ Takes(d, "accept", r, row)
    /\ UNCHANGED <<request, said, sweep, clock, failures, crossed>>

\* An offer is accepted as it stands; the mistake is to accept one that has
\* been countered since.
OfferStandsLonger == AWAITING_ADMIN
OfferStands == {"REQUESTED"}

\* transition's "from".
Answers == {"counter", "agree", "accept"}
From(task) ==
    CASE task = "counter" -> AWAITING_ADMIN
      [] task = "agree" -> OfferStands
      [] task = "accept" -> {"COUNTERED"}
Stands(d) == request[desk[d].request].status \in From(desk[d].task)

\* Only the counter writes place and period; an acceptance states those it
\* read, and acceptCounter the price as well.
Answer(d) ==
    LET r == desk[d].request
        task == desk[d].task
        Says(side) == said' = [said EXCEPT ![r][side] = Stated(Read(d))]
    IN  /\ task \in Answers
        /\ Stands(d)
        /\ \/ /\ task = "counter"
              /\ request' = [request EXCEPT ![r].status = "COUNTERED", ![r].terms = Read(d)]
              /\ Says("ADMIN")
           \/ /\ task = "agree"
              /\ request' = [request EXCEPT ![r].status = "AGREED",
                                            ![r].terms.cents = Read(d).cents]
              /\ Says("ADMIN")
           \/ /\ task = "accept"
              /\ request' = Moved(r, "AGREED")
              /\ Says("SELLER")
        /\ crossed' = IF task = "accept" /\ Read(d) # request[r].terms
                      THEN crossed \cup {r} ELSE crossed
        /\ Leaves(d)
        /\ UNCHANGED <<sweep, clock, failures>>

\* "wrong-state".  A process that dies here has changed nothing.
GivesUp(d) ==
    /\ desk[d].task \in Answers
    /\ ~Stands(d)
    /\ Leaves(d)
    /\ UNCHANGED <<request, said, sweep, clock, failures, crossed>>

-----------------------------------------------------------------------------
(* Decided in one UPDATE                                                   *)

Decline(r) ==
    /\ r \in In(AWAITING_ADMIN)
    /\ request' = Moved(r, "DECLINED")
    /\ UNCHANGED <<said, desk, sweep, clock, failures, crossed>>

Withdraw(r) ==
    /\ r \in In(SELLER_CAN_WITHDRAW)
    /\ request' = Moved(r, "WITHDRAWN")
    /\ UNCHANGED <<said, desk, sweep, clock, failures, crossed>>

End(r) ==
    /\ r \in In({"LIVE"})
    /\ request' = Moved(r, "ENDED")
    /\ UNCHANGED <<said, desk, sweep, clock, failures, crossed>>

-----------------------------------------------------------------------------
(* Periods                                                                 *)

\* A date that is not set is never past.
Past(date, now) == date \in 0..now

\* The mistake is to end only what runs out as the pass is made.
OverdueJustNow(r, now) == request[r].terms.until = now
Overdue(r, now) == Past(request[r].terms.until, now)

\* The mistake is to overlook a placement with no end.
DueIfItEnds(r, now) ==
    LET terms == request[r].terms
    IN  /\ request[r].status = "AGREED"
        /\ Past(terms.from, now) /\ terms.until # Unsaid /\ ~Past(terms.until, now)
Due(r, now) ==
    LET terms == request[r].terms
    IN  /\ request[r].status = "AGREED"
        /\ Past(terms.from, now) /\ ~Past(terms.until, now)

-----------------------------------------------------------------------------
(* activate                                                                *)

\* The partial unique index placement_live_slot; the mistake is to let one go
\* whose period is over.
FreeOfOthersPeriod(r) ==
    \A q \in In({"LIVE"}) :
        request[q].terms.place # request[r].terms.place \/ Overdue(q, clock)
Free(r) == \A q \in In({"LIVE"}) : request[q].terms.place # request[r].terms.place

\* The mistake is to activate what the sweep found without asking again.
ActivatableOnceFound(r) == TRUE
Activatable(r) == request[r].status = "AGREED"

Activated(r) == IF Activatable(r) /\ Free(r) THEN Moved(r, "LIVE") ELSE request

\* By a moderator, whatever the period.
Activate(r) ==
    /\ r \in In({"AGREED"})
    /\ Free(r)
    /\ request' = Activated(r)
    /\ UNCHANGED <<said, desk, sweep, clock, failures, crossed>>

-----------------------------------------------------------------------------
(* sweepPlacements: "now" is taken once, at the start                      *)

IdleSweep == [task |-> "idle"]

First(S) == {r \in S : Cardinality({q \in S : q < r}) < Batch}
DueBatch(now) == First({r \in Requests : Due(r, now)})

SweepEnds(s) ==
    /\ sweep[s] = IdleSweep
    /\ request' = [r \in Requests |->
           IF request[r].status = "LIVE" /\ Overdue(r, clock)
           THEN [request[r] EXCEPT !.status = "ENDED"] ELSE request[r]]
    /\ sweep' = [sweep EXCEPT ![s] = [task |-> "find", now |-> clock]]
    /\ UNCHANGED <<said, desk, clock, failures, crossed>>

\* What is left of a pass, or its end.
GoesOn(left) == IF left = {} THEN IdleSweep ELSE [task |-> "activate", left |-> left]

SweepFinds(s) ==
    /\ sweep[s].task = "find"
    /\ sweep' = [sweep EXCEPT ![s] = GoesOn(DueBatch(sweep[s].now))]
    /\ UNCHANGED <<request, said, desk, clock, failures, crossed>>

SweepActivates(s) ==
    /\ sweep[s].task = "activate"
    /\ \E r \in Oldest(sweep[s].left) :
        /\ request' = Activated(r)
        /\ sweep' = [sweep EXCEPT ![s] = GoesOn(sweep[s].left \ {r})]
    /\ UNCHANGED <<said, desk, clock, failures, crossed>>

\* An error ends the pass, and the process with it or not.
SweepFails(s) ==
    /\ sweep[s] # IdleSweep
    /\ failures < MaxFailures
    /\ failures' = failures + 1
    /\ sweep' = [sweep EXCEPT ![s] = IdleSweep]
    /\ UNCHANGED <<request, said, desk, clock, crossed>>

TimePasses ==
    /\ clock < MaxTime
    /\ clock' = clock + 1
    /\ UNCHANGED <<request, said, desk, sweep, failures, crossed>>

-----------------------------------------------------------------------------
NoTerms == [cents |-> 0, place |-> Unsaid, from |-> Unsaid, until |-> Unsaid]

Init ==
    /\ request = [r \in Requests |->
           [status |-> "none", listing |-> NoListing, offered |-> 0, terms |-> NoTerms]]
    /\ said = [r \in Requests |-> [side \in Sides |-> Unsaid]]
    /\ desk = [d \in Desks |-> IdleDesk]
    /\ sweep = [s \in Sweepers |-> IdleSweep]
    /\ clock = 0
    /\ failures = 0
    /\ crossed = {}

AtDesk(d) ==
    \/ \E l \in Listings, terms \in Offers : Ask(d, l, terms)
    \/ Open(d)
    \/ \E r \in Requests : Look(d, r)
    \/ Answer(d)
    \/ GivesUp(d)

Sweeps(s) == SweepEnds(s) \/ SweepFinds(s) \/ SweepActivates(s)

Next ==
    \/ \E d \in Desks : AtDesk(d)
    \/ \E r \in Requests : Decline(r) \/ Withdraw(r) \/ End(r) \/ Activate(r)
    \/ \E s \in Sweepers : Sweeps(s) \/ SweepFails(s)
    \/ TimePasses

Spec == Init /\ [][Next]_vars

\* setInterval runs a sweeper again, whatever became of its last pass; people
\* owe nobody an answer, and the clock may stop.
Fairness == \A s \in Sweepers : WF_vars(Sweeps(s))

FairSpec == Spec /\ Fairness

-----------------------------------------------------------------------------
\* Rows, requests under way and passes keep their shape.
Row == [status : Statuses, listing : Listings \cup {NoListing}, offered : Nat, terms : Terms]
Request ==
    {IdleDesk}
    \cup [task : {"ask"}, listing : Listings, terms : Offers]
    \cup [task : Answers, request : Requests, terms : Terms]
Pass ==
    {IdleSweep}
    \cup [task : {"find"}, now : 0..MaxTime]
    \cup [task : {"activate"}, left : SUBSET Requests]

TypeOK ==
    /\ request \in [Requests -> Row]
    /\ said \in [Requests -> [Sides -> Terms \cup {Unsaid}]]
    /\ desk \in [Desks -> Request]
    /\ sweep \in [Sweepers -> Pass]
    /\ clock \in 0..MaxTime /\ failures \in 0..MaxFailures
    /\ crossed \subseteq Requests

\* "Two listings must never hold the same live slot" (placement.ts:23).
OneLivePerPlace ==
    \A q, r \in In({"LIVE"}) : request[q].terms.place = request[r].terms.place => q = r

\* The row has the terms that each side stated last in the thread: the price
\* and the place, and the period if it has both ends ("the message body
\* carries the terms", placement.ts:236).  The exceptions the code has: a
\* counter-offer written while the seller was accepting the one before it; and
\* a date without its other end, which the row keeps and neither side has said
\* (placement.ts:81).
BothSaidTheTerms ==
    \A r \in In({"AGREED", "LIVE", "ENDED"}) \ crossed :
        \A side \in Sides :
            LET words == said[r][side]
                terms == request[r].terms
            IN  /\ words.cents = terms.cents /\ words.place = terms.place
                /\ Dated(terms) => words.from = terms.from /\ words.until = terms.until

\* What has ended, or was declined or withdrawn, is never shown again, though a
\* sweep may have found it due before.
OverIsOver ==
    [][\A r \in Requests : request[r].status \in Over =>
            request'[r].status = request[r].status]_vars

\* A due agreement among the first Batch does not wait for ever for a place
\* that is free.
InTime == {r \in In({"AGREED"}) :
               Past(request[r].terms.from, clock) /\ ~Past(request[r].terms.until, clock)}
Waits(r) == r \in First(InTime) /\ Free(r)
DueGoesLive == \A r \in Requests : []<>~Waits(r)

\* What is live does not outlive its period for ever, also when it was activated
\* late by a sweep or by a moderator.
Outlives(r) == request[r].status = "LIVE" /\ Past(request[r].terms.until, clock)
OverdueEnds == \A r \in Requests : []<>~Outlives(r)

\* What holds of requests, places and the threads beside them.
PlacementInv == TypeOK /\ OneLivePerPlace /\ BothSaidTheTerms

\* Placements start and end when they should, and stay over.
PlacementsRunOnTime == DueGoesLive /\ OverdueEnds /\ OverIsOver
=============================================================================
