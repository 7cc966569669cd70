------------------------------ MODULE Returns ------------------------------
(***************************************************************************)
(* What becomes of a line of a paid order (lib/sales.ts), and the returns  *)
(* its buyer may ask for (lib/returns.ts), over the refunds both lead to.  *)
(*                                                                         *)
(* A request handler that reads the line or the return first and writes it *)
(* later holds a desk between the two; a conditional UPDATE is one step.   *)
(***************************************************************************)
EXTENDS Refunds

CONSTANTS
    InPlay,     \* the lines anything but a refund happens to (bound)
    Desks,      \* requests of sellers, buyers and moderators in flight
    MaxMishaps, \* deaths and database errors (bound)
    NoRefund    \* refundId = null

ASSUME ReturnsAssumption ==
    /\ NoRefund \notin Refunds
    /\ InPlay \subseteq Lines
    /\ MaxMishaps \in Nat

VARIABLES
    fulfilment, \* fulfilment[l]: OrderItem.fulfilment
    ret,        \* ret[l]: the row of "return_requests" of the line
    mishaps,    \* deaths and database errors so far
    desk,       \* desk[d]: the request in flight
    crossed,    \* history: lines written after they had moved since the read
    stale,      \* history: returns approved after they had moved since the read
    stranded,   \* history: returns whose approval died or could not be recorded
    unheard     \* history: refunds whose call threw although the money left

returnVars == <<fulfilment, ret, mishaps, desk, crossed, stale, stranded, unheard>>
vars == <<refundVars, returnVars>>

Fulfilment == {"UNFULFILLED", "SHIPPED", "DELIVERED", "UNFULFILLABLE"}
ReturnStatus == {"NONE", "OPEN", "APPROVED", "REFUSED", "ESCALATED", "REJECTED",
                 "WITHDRAWN"}
Answerers == {"seller", "moderator"}
Work == {"ship", "deliver", "giveUp", "refundLine", "open", "approve", "refunding"}
NoWork == [work |-> "none"]
Desk == [work : Work, line : Lines, by : Answerers,
         saw : Fulfilment \cup ReturnStatus, refund : Refunds \cup {NoRefund}]

Takes(d, work, l, by, saw) ==
    /\ desk[d] = NoWork
    /\ desk' = [desk EXCEPT ![d] = [work |-> work, line |-> l, by |-> by,
                                    saw |-> saw, refund |-> NoRefund]]
Leaves(d) == desk' = [desk EXCEPT ![d] = NoWork]

-----------------------------------------------------------------------------
(* markShipped, markDelivered, markUnfulfillable                           *)

\* The statuses each of them accepts; the mistake is to accept a delivered
\* line as one that cannot be sent.
AcceptsDelivered == [ship |-> {"UNFULFILLED"}, deliver |-> {"SHIPPED"},
                     giveUp |-> {"UNFULFILLED", "SHIPPED", "DELIVERED"}]
Accepts == [ship |-> {"UNFULFILLED"}, deliver |-> {"SHIPPED"},
            giveUp |-> {"UNFULFILLED", "SHIPPED"}]
Writes == [ship |-> "SHIPPED", deliver |-> "DELIVERED", giveUp |-> "UNFULFILLABLE"]

ReadLine(d, l) ==
    /\ \E work \in DOMAIN Accepts :
        /\ fulfilment[l] \in Accepts[work]
        /\ Takes(d, work, l, "seller", fulfilment[l])
    /\ UNCHANGED <<refundVars, fulfilment, ret, mishaps, crossed, stale, stranded, unheard>>

\* The update has no condition on what was read.
WriteLine(d) ==
    LET l == desk[d].line
        work == desk[d].work
    IN  /\ work \in DOMAIN Writes
        /\ fulfilment' = [fulfilment EXCEPT ![l] = Writes[work]]
        /\ crossed' = IF fulfilment[l] = desk[d].saw THEN crossed ELSE crossed \cup {l}
        /\ IF work = "giveUp" THEN desk' = [desk EXCEPT ![d].work = "refundLine"]
                              ELSE Leaves(d)
        /\ UNCHANGED <<refundVars, ret, mishaps, stale, stranded, unheard>>

\* markUnfulfillable goes on to refund the line, and stands whatever comes of
\* that.
RefundLine(d) ==
    LET l == desk[d].line
    IN  /\ desk[d].work = "refundLine"
        /\ IF account[OrderOf[l]].status = "PAID" /\ ~AlreadyRefunded(l)
           THEN \E r \in Refunds : AskForLine(r, l)
           ELSE UNCHANGED refundVars
        /\ Leaves(d)
        /\ UNCHANGED <<fulfilment, ret, mishaps, crossed, stale, stranded, unheard>>

-----------------------------------------------------------------------------
(* openReturn, withdrawReturn, escalateReturn, refuseReturn                *)

\* eligibility; the mistake is to leave delivery to the seller's word.
EligibleOnceSent(l) ==
    /\ account[OrderOf[l]].status = "PAID"
    /\ fulfilment[l] \in {"SHIPPED", "DELIVERED"}
    /\ ~AlreadyRefunded(l)
    /\ ret[l].status = "NONE"
Eligible(l) ==
    /\ account[OrderOf[l]].status = "PAID"
    /\ fulfilment[l] = "DELIVERED"
    /\ ~AlreadyRefunded(l)
    /\ ret[l].status = "NONE"

ReadEligibility(d, l) ==
    /\ Eligible(l)
    /\ Takes(d, "open", l, "seller", fulfilment[l])
    /\ UNCHANGED <<refundVars, fulfilment, ret, mishaps, crossed, stale, stranded, unheard>>

\* The insert is the claim: orderItemId is unique.
OpenReturn(d) ==
    LET l == desk[d].line
    IN  /\ desk[d].work = "open"
        /\ ret' = IF ret[l].status = "NONE" THEN [ret EXCEPT ![l].status = "OPEN"] ELSE ret
        /\ Leaves(d)
        /\ UNCHANGED <<refundVars, fulfilment, mishaps, crossed, stale, stranded, unheard>>

\* transition: the condition is in the UPDATE.
Moves(l, from, to) ==
    /\ ret[l].status \in from
    /\ ret' = [ret EXCEPT ![l].status = to]
    /\ UNCHANGED <<refundVars, fulfilment, mishaps, desk, crossed, stale, stranded, unheard>>

\* What an answer may find: the seller answers once, the moderator may go
\* over a refusal.  The mistake is to let an answer be given again.
AnswerableAgain(by) == {"OPEN", "APPROVED", "ESCALATED", "REFUSED"}
Answerable(by) == IF by = "seller" THEN {"OPEN"} ELSE {"OPEN", "ESCALATED", "REFUSED"}

Withdraw(l) == Moves(l, {"OPEN"}, "WITHDRAWN")
Escalate(l) == Moves(l, {"REFUSED"}, "ESCALATED")
RefuseReturn(l, by) ==
    Moves(l, Answerable(by), IF by = "seller" THEN "REFUSED" ELSE "REJECTED")

-----------------------------------------------------------------------------
(* approveReturn                                                           *)

\* A request that reads a final answer changes nothing and is left out.
ReadReturn(d, l, by) ==
    /\ ret[l].status \in {"OPEN", "APPROVED", "REFUSED", "ESCALATED"}
    /\ Takes(d, "approve", l, by, ret[l].status)
    /\ UNCHANGED <<refundVars, fulfilment, ret, mishaps, crossed, stale, stranded, unheard>>

\* The transition decides, and issueRefund is called for the line's price.
ClaimReturn(d) ==
    LET l == desk[d].line
    IN  /\ desk[d].work = "approve"
        /\ ret[l].status \in Answerable(desk[d].by)
        /\ ret' = [ret EXCEPT ![l].status = "APPROVED"]
        /\ stale' = IF desk[d].saw = ret[l].status THEN stale ELSE stale \cup {l}
        /\ \E r \in Refunds :
            /\ Ask(r, OrderOf[l], l, Price[l])
            /\ desk' = [desk EXCEPT ![d].work = "refunding", ![d].refund = r]
        /\ UNCHANGED <<fulfilment, mishaps, crossed, stranded, unheard>>

LoseReturn(d) ==
    /\ desk[d].work = "approve"
    /\ ret[desk[d].line].status \notin Answerable(desk[d].by)
    /\ Leaves(d)
    /\ UNCHANGED <<refundVars, fulfilment, ret, mishaps, crossed, stale, stranded, unheard>>

\* The refund was issued: its id goes into the request.
RecordRefund(d) ==
    /\ desk[d].work = "refunding"
    /\ job[desk[d].refund].task = "returned"
    /\ ret' = [ret EXCEPT ![desk[d].line].refund = desk[d].refund]
    /\ Leaves(d)
    /\ UNCHANGED <<refundVars, fulfilment, mishaps, crossed, stale, stranded, unheard>>

\* The refund failed: the request is put back as it was when it was read, if
\* it is still APPROVED.  The mistakes are to leave it so, and to put the
\* line's status there.
PutBackNever(row, d) == row
PutBackLine(row, d) == [row EXCEPT !.status = fulfilment[desk[d].line]]
PutBack(row, d) ==
    IF row.status = "APPROVED" THEN [row EXCEPT !.status = desk[d].saw] ELSE row

MoneyLeft(r) == sent[r] \in {"pending", "succeeded"}

Reverts(d) ==
    LET r == desk[d].refund
    IN  /\ desk[d].work = "refunding"
        /\ ret' = [ret EXCEPT ![desk[d].line] = PutBack(@, d)]
        /\ unheard' = IF MoneyLeft(r) THEN unheard \cup {r} ELSE unheard
        /\ Leaves(d)
        /\ UNCHANGED <<refundVars, fulfilment, crossed, stale>>

Revert(d) ==
    /\ Reverts(d)
    /\ job[desk[d].refund].task = "threw"
    /\ UNCHANGED <<mishaps, stranded>>

Mishap == mishaps < MaxMishaps /\ mishaps' = mishaps + 1

\* Writing the refund's id is inside the try too.
RecordFails(d) ==
    /\ Reverts(d)
    /\ job[desk[d].refund].task = "returned"
    /\ Mishap
    /\ stranded' = stranded \cup {desk[d].line}

\* The process dies with the refund it was issuing.
DeskDies(d) ==
    /\ desk[d].work = "refunding"
    /\ Mishap
    /\ Leaves(d)
    /\ IF Running(desk[d].refund) THEN Crash(desk[d].refund) ELSE UNCHANGED refundVars
    /\ stranded' = stranded \cup {desk[d].line}
    /\ UNCHANGED <<fulfilment, ret, crossed, stale, unheard>>

\* A refund's own step, but no delivery of a webhook.  It dies with the desk
\* that issues it, or alone when none does; that, and a statement of it that
\* throws, is a mishap.
Held(r) == \E d \in Desks : desk[d].work = "refunding" /\ desk[d].refund = r
Dies(r) == job[r].task # "died" /\ job'[r].task = "died"
Throws(r) ==
    job[r].task \notin {"send", "refuse"} /\ job'[r].task = "refuse"

RefundGoesOn ==
    /\ RefundStep
    /\ events \subseteq events'
    /\ \A r \in Refunds : Dies(r) => ~Held(r)
    /\ IF \E r \in Refunds : Dies(r) \/ Throws(r) THEN Mishap ELSE UNCHANGED mishaps
    /\ UNCHANGED <<fulfilment, ret, desk, crossed, stale, stranded, unheard>>

-----------------------------------------------------------------------------
ReturnsInit ==
    /\ RefundInit
    /\ fulfilment = [l \in Lines |-> "UNFULFILLED"]
    /\ ret = [l \in Lines |-> [status |-> "NONE", refund |-> NoRefund]]
    /\ mishaps = 0
    /\ desk = [d \in Desks |-> NoWork]
    /\ crossed = {} /\ stale = {} /\ stranded = {} /\ unheard = {}

LineStep ==
    \/ \E d \in Desks, l \in InPlay : ReadLine(d, l)
    \/ \E d \in Desks : WriteLine(d) \/ RefundLine(d)

ReturnStep ==
    \/ \E d \in Desks, l \in InPlay : ReadEligibility(d, l)
    \/ \E l \in InPlay : Withdraw(l) \/ Escalate(l)
    \/ \E l \in InPlay, by \in Answerers : RefuseReturn(l, by)
    \/ \E d \in Desks, l \in InPlay, by \in Answerers : ReadReturn(d, l, by)
    \/ \E d \in Desks : \/ OpenReturn(d) \/ ClaimReturn(d) \/ LoseReturn(d)
                        \/ RecordRefund(d) \/ Revert(d)
                        \/ RecordFails(d) \/ DeskDies(d)

ReturnsNext ==
    \/ LineStep
    \/ ReturnStep
    \/ RefundGoesOn

ReturnsSpec == ReturnsInit /\ [][ReturnsNext]_vars

-----------------------------------------------------------------------------
\* Lines, returns and requests keep their shape.
ReturnsTypeOK ==
    /\ fulfilment \in [Lines -> Fulfilment]
    /\ ret \in [Lines -> [status : ReturnStatus, refund : Refunds \cup {NoRefund}]]
    /\ desk \in [Desks -> Desk \cup {NoWork}]
    /\ mishaps \in 0..MaxMishaps
    /\ crossed \cup stale \cup stranded \subseteq Lines
    /\ unheard \subseteq Refunds

InHand(l) == \E d \in Desks : desk[d].work = "refunding" /\ desk[d].line = l

\* A return stays APPROVED only with the refund of its line recorded in it,
\* whoever else answers it at the same time, unless the process died with it
\* or it had moved since it was read (returns.ts:331).
ApprovedHasRefund ==
    \A l \in Lines :
        ret[l].status = "APPROVED" /\ ~InHand(l) /\ l \notin stranded \cup stale =>
            ret[l].refund # NoRefund /\ call[ret[l].refund].line = l

\* A line's money goes back once, by a return or because it cannot be sent,
\* whichever answers cross, except after a refund that was heard to fail
\* although the money left, one that could not be recorded in its return, or
\* after a line was overwritten (returns.ts:105, sales.ts:442).
LinePaidBackOnce ==
    \A r, s \in Refunds :
        /\ r # s
        /\ call[r] # NoCall /\ call[s] # NoCall /\ call[r].line = call[s].line
        /\ MoneyLeft(r) /\ MoneyLeft(s)
        => \/ call[r].line \in crossed \cup stranded
           \/ {r, s} \cap unheard # {}

Rank == [UNFULFILLED |-> 0, SHIPPED |-> 1, DELIVERED |-> 2, UNFULFILLABLE |-> 2]

\* Fulfilment only advances, and what is delivered or given up stays so,
\* unless a write acted on a status that had changed (sales.ts:428).
FulfilmentAdvances ==
    [][\A l \in Lines :
        fulfilment'[l] = fulfilment[l] \/ Rank[fulfilment'[l]] > Rank[fulfilment[l]]
            \/ l \in crossed']_vars

\* A return is asked for only of a line its buyer has confirmed.
ReturnedWasDelivered ==
    \A l \in Lines : ret[l].status # "NONE" => fulfilment[l] = "DELIVERED" \/ l \in crossed

\* What fulfilment, a return and its refunds say of one line agrees.
ReturnsInv ==
    ReturnsTypeOK /\ ApprovedHasRefund /\ ReturnedWasDelivered /\ LinePaidBackOnce
=============================================================================
