------------------------------ MODULE Refunds -------------------------------
(***************************************************************************)
(* Giving money back: backend/src/lib/refunds.ts, refundIntent of          *)
(* lib/paymentProvider.ts and handleRefund of routes/webhooks.ts.          *)
(*                                                                         *)
(* A refund is one call of issueRefund: it claims headroom on the order,   *)
(* writes its row, calls the provider and settles the row.  Its job names  *)
(* the statement it runs next; a webhook delivery is a job too, and the    *)
(* two share the statements they share in the code.  Nothing here is in a  *)
(* transaction, so anything may happen between two statements.             *)
(***************************************************************************)
EXTENDS Tally

CONSTANTS
    Orders,     \* orders that were paid for
    Lines,      \* their order items
    OrderOf,    \* OrderOf[l]: the order of a line
    Price,      \* Price[l]: unitPriceCents * quantity
    Refunds,    \* identifiers of refunds (bounds how many are asked for)
    Hooks,      \* webhook deliveries handled at the same time
    NoLine      \* orderItemId = null

ASSUME RefundsAssumption ==
    /\ IsFiniteSet(Lines) /\ IsFiniteSet(Refunds)
    /\ OrderOf \in [Lines -> Orders]
    /\ Price \in [Lines -> Nat \ {0}]
    /\ NoLine \notin Lines
    /\ Refunds \cap Hooks = {}

VARIABLES
    account,    \* account[o]: status and refundedCents of the order
    call,       \* call[r]: what issueRefund was asked for, or NoCall
    refund,     \* refund[r]: the row of "refunds"
    sent,       \* sent[r]: the refund at the provider
    events,     \* <<refund, outcome>>: webhook events not yet acknowledged
    job,        \* job[w]: what a call or a webhook delivery is about to do
    returned    \* history, returned[r]: how often r's headroom was given back

refundVars == <<account, call, refund, sent, events, job, returned>>

Subtotal(o) == Tally({l \in Lines : OrderOf[l] = o}, Price)

Account == [status : {"PAID", "REFUNDED"}, refunded : Nat]
Call == [order : Orders, line : Lines \cup {NoLine}, amount : Nat,
         claimed : BOOLEAN]
NoCall == [claimed |-> FALSE]
RefundStatus == {"NONE", "PENDING", "SUCCEEDED", "FAILED"}
\* known: providerRefundId is in the row.
Row == [status : RefundStatus, known : BOOLEAN]

CallTasks == {"claim", "record", "send", "settle", "settlePending"}
HookTasks == {"settleHook", "reread", "reopen"}
SharedTasks == {"sum", "mark", "refuse", "giveBack"}
\* How a call ends: it returns, it throws, or its process dies.
Ends == {"returned", "threw", "died"}
Idle == [task |-> "idle"]
Job == [task : CallTasks \cup HookTasks \cup SharedTasks \cup Ends, refund : Refunds]

-----------------------------------------------------------------------------
Does(w, task) == job' = [job EXCEPT ![w].task = task]

\* The provider announces every decision (REFUND_EVENTS); the mistake is to
\* subscribe to refund.updated and not to refund.failed.
HearsSuccess(outcome, r) ==
    events' = IF outcome = "succeeded" THEN events \cup {<<r, outcome>>} ELSE events
Hears(outcome, r) == events' = events \cup {<<r, outcome>>}

\* A delivery that is handled is idle again, a call has returned.
Finishes(w) == IF w \in Hooks THEN job' = [job EXCEPT ![w] = Idle]
                              ELSE Does(w, "returned")

OrderId(r) == call[r].order

\* issueRefund is called; its own reads are advisory, the claim decides.
Ask(r, o, l, n) ==
    /\ call[r] = NoCall
    /\ call' = [call EXCEPT ![r] =
           [order |-> o, line |-> l, amount |-> n, claimed |-> FALSE]]
    /\ job' = [job EXCEPT ![r] = [task |-> "claim", refund |-> r]]
    /\ UNCHANGED <<account, refund, sent, events, returned>>

\* A line is refunded by hand or as a return for its price or, by a
\* moderator, any part of the order for any amount.
AskByHand(r, o, l, n) ==
    /\ l # NoLine => OrderOf[l] = o
    /\ Ask(r, o, l, n)

\* refundUnfulfillableLine looks for a refund of the line first.
AlreadyRefunded(l) ==
    \E s \in Refunds :
        /\ call[s] # NoCall
        /\ call[s].line = l
        /\ refund[s].status \in {"PENDING", "SUCCEEDED"}

AskForLine(r, l) ==
    /\ account[OrderOf[l]].status = "PAID"
    /\ ~AlreadyRefunded(l)
    /\ Ask(r, OrderOf[l], l, Price[l])

\* claimRefundHeadroom is one conditional UPDATE; the mistake is to let the
\* order absorb whatever still has a cent left.
HasRoomAtAll(o, n) == account[o].refunded < Subtotal(o)
HasRoom(o, n) == account[o].refunded + n <= Subtotal(o)

Claim(r) ==
    LET o == OrderId(r)
    IN  /\ job[r].task = "claim"
        /\ IF account[o].status = "PAID" /\ HasRoom(o, call[r].amount)
           THEN /\ account' = [account EXCEPT ![o].refunded = @ + call[r].amount]
                /\ call' = [call EXCEPT ![r].claimed = TRUE]
                /\ Does(r, "record")
           ELSE /\ Does(r, "threw")
                /\ UNCHANGED <<account, call>>
        /\ UNCHANGED <<refund, sent, events, returned>>

\* The row is written before the provider is called.
Record(r) ==
    /\ job[r].task = "record"
    /\ refund' = [refund EXCEPT ![r].status = "PENDING"]
    /\ Does(r, "send")
    /\ UNCHANGED <<account, call, sent, events, returned>>

-----------------------------------------------------------------------------
\* What a call does with the provider's answer.  "lost" is an indeterminate
\* error: the row stays PENDING and the headroom claimed.
AfterSend(answer) ==
    CASE answer = "succeeded" -> "settle"
      [] answer = "pending" -> "settlePending"
      [] answer = "failed" -> "refuse"
      [] answer = "lost" -> "threw"

\* The provider takes the refund, refuses it, or never sees it; the answer
\* arrives, or an error that leaves it open.
Send(r) ==
    /\ job[r].task = "send"
    /\ \E s \in {"none", "pending", "succeeded", "failed"}, heard \in BOOLEAN :
        /\ sent' = [sent EXCEPT ![r] = s]
        /\ IF s \in {"succeeded", "failed"} THEN Hears(s, r) ELSE UNCHANGED events
        /\ Does(r, AfterSend(CASE ~heard -> "lost"
                               [] heard /\ s = "none" -> "failed"
                               [] OTHER -> s))
    /\ UNCHANGED <<account, call, refund, returned>>

\* The provider decides a pending refund later.
ProviderDecides(r) ==
    /\ sent[r] = "pending"
    /\ \E s \in {"succeeded", "failed"} :
        /\ sent' = [sent EXCEPT ![r] = s]
        /\ Hears(s, r)
    /\ UNCHANGED <<account, call, refund, job, returned>>

\* The row is settled, and the order is marked once nothing is left of it.
Settled(task) == IF task = "settlePending" THEN "PENDING" ELSE "SUCCEEDED"

Settle(r) ==
    /\ job[r].task \in {"settle", "settlePending"}
    /\ refund' = [refund EXCEPT ![r] =
           [status |-> Settled(job[r].task), known |-> TRUE]]
    /\ Does(r, "sum")
    /\ UNCHANGED <<account, call, sent, events, returned>>

SettleHook(w) ==
    /\ job[w].task = "settleHook"
    /\ refund' = [refund EXCEPT ![job[w].refund].status = "SUCCEEDED"]
    /\ Does(w, "sum")
    /\ UNCHANGED <<account, call, sent, events, returned>>

ReadSum(w) ==
    LET o == OrderId(job[w].refund)
    IN  /\ job[w].task = "sum"
        /\ IF account[o].refunded >= Subtotal(o) THEN Does(w, "mark") ELSE Finishes(w)
        /\ UNCHANGED <<account, call, refund, sent, events, returned>>

Mark(w) ==
    /\ job[w].task = "mark"
    /\ account' = [account EXCEPT ![OrderId(job[w].refund)].status = "REFUNDED"]
    /\ Finishes(w)
    /\ UNCHANGED <<call, refund, sent, events, returned>>

\* An error of the database after the provider has answered ends in the same
\* catch as a refusal: settled rows are inside the try.
SettleThrows(r) ==
    /\ job[r].task \in {"settle", "settlePending", "sum", "mark"}
    /\ Does(r, "refuse")
    /\ UNCHANGED <<account, call, refund, sent, events, returned>>

Refuse(w) ==
    /\ job[w].task = "refuse"
    /\ refund' = [refund EXCEPT ![job[w].refund].status = "FAILED"]
    /\ Does(w, "giveBack")
    /\ UNCHANGED <<account, call, sent, events, returned>>

\* releaseRefundHeadroom, never below zero; the mistake is to forget it.
LessNothing(refunded, n) == refunded
Less(refunded, n) == IF n > refunded THEN 0 ELSE refunded - n

GiveBack(w) ==
    LET r == job[w].refund
    IN  /\ job[w].task = "giveBack"
        /\ account' = [account EXCEPT ![OrderId(r)].refunded = Less(@, call[r].amount)]
        /\ returned' = [returned EXCEPT ![r] = @ + 1]
        /\ Does(w, IF w \in Hooks THEN "reread" ELSE "threw")
        /\ UNCHANGED <<call, refund, sent, events>>

-----------------------------------------------------------------------------
(***************************************************************************)
(* settleRefundFromProvider, for an event of handleRefund.                 *)
(***************************************************************************)
Applies(r) == refund[r].known /\ refund[r].status = "PENDING"

HookReads(w, r, outcome) ==
    /\ job[w] = Idle
    /\ <<r, outcome>> \in events
    /\ Applies(r)
    /\ job' = [job EXCEPT ![w] =
           [task |-> IF outcome = "succeeded" THEN "settleHook" ELSE "refuse",
            refund |-> r]]
    /\ UNCHANGED <<account, call, refund, sent, events, returned>>

\* NOT_FOUND and ALREADY_SETTLED are acknowledged, and the event is gone; one
\* that applies stays until then, since a delivery may come again.
HookIgnores(r, outcome) ==
    /\ <<r, outcome>> \in events
    /\ ~Applies(r)
    /\ events' = events \ {<<r, outcome>>}
    /\ UNCHANGED <<account, call, refund, sent, job, returned>>

Reread(w) ==
    LET o == OrderId(job[w].refund)
    IN  /\ job[w].task = "reread"
        /\ IF account[o].status = "REFUNDED" /\ account[o].refunded < Subtotal(o)
           THEN Does(w, "reopen") ELSE Finishes(w)
        /\ UNCHANGED <<account, call, refund, sent, events, returned>>

Reopen(w) ==
    /\ job[w].task = "reopen"
    /\ account' = [account EXCEPT ![OrderId(job[w].refund)].status = "PAID"]
    /\ Finishes(w)
    /\ UNCHANGED <<call, refund, sent, events, returned>>

\* The process dies, or a statement outside any handler fails.
Running(w) == job[w] # Idle /\ job[w].task \notin Ends
Crash(w) ==
    /\ Running(w)
    /\ IF w \in Hooks THEN job' = [job EXCEPT ![w] = Idle] ELSE Does(w, "died")
    /\ UNCHANGED <<account, call, refund, sent, events, returned>>

-----------------------------------------------------------------------------
RefundInit ==
    /\ account = [o \in Orders |-> [status |-> "PAID", refunded |-> 0]]
    /\ call = [r \in Refunds |-> NoCall]
    /\ refund = [r \in Refunds |-> [status |-> "NONE", known |-> FALSE]]
    /\ sent = [r \in Refunds |-> "none"]
    /\ events = {}
    /\ job = [w \in Refunds \cup Hooks |-> Idle]
    /\ returned = [r \in Refunds |-> 0]

Asks ==
    \/ \E r \in Refunds, l \in Lines : AskForLine(r, l)
    \/ \E r \in Refunds, o \in Orders, l \in Lines \cup {NoLine} :
        \E n \in 1..Subtotal(o) : AskByHand(r, o, l, n)

CallStep(r) ==
    \/ Claim(r) \/ Record(r) \/ Send(r) \/ Settle(r) \/ SettleThrows(r)
HookStep(w) == SettleHook(w) \/ Reread(w) \/ Reopen(w)
SharedStep(w) == ReadSum(w) \/ Mark(w) \/ Refuse(w) \/ GiveBack(w)

RefundStep ==
    \/ \E r \in Refunds : CallStep(r) \/ ProviderDecides(r)
    \/ \E w \in Hooks : HookStep(w)
    \/ \E w \in Hooks, r \in Refunds, outcome \in {"succeeded", "failed"} :
        HookReads(w, r, outcome)
    \/ \E r \in Refunds, outcome \in {"succeeded", "failed"} : HookIgnores(r, outcome)
    \/ \E w \in Refunds \cup Hooks : SharedStep(w) \/ Crash(w)

RefundNext == Asks \/ RefundStep

RefundSpec == RefundInit /\ [][RefundNext]_refundVars

\* The provider decides, and delivers an event until it is acknowledged; a
\* delivery may fail, but not each of infinitely many.
FairRefundSpec ==
    /\ RefundSpec
    /\ \A r \in Refunds : WF_refundVars(ProviderDecides(r))
    /\ \A w \in Hooks :
        /\ WF_refundVars(HookStep(w) \/ SharedStep(w) \/ Crash(w))
        /\ SF_refundVars(SettleHook(w)) /\ SF_refundVars(Refuse(w))
        /\ \A r \in Refunds, outcome \in {"succeeded", "failed"} :
            SF_refundVars(HookReads(w, r, outcome))

-----------------------------------------------------------------------------
\* Accounts, calls, rows and jobs have their shape.
RefundTypeOK ==
    /\ account \in [Orders -> Account]
    /\ call \in [Refunds -> Call \cup {NoCall}]
    /\ refund \in [Refunds -> Row]
    /\ sent \in [Refunds -> {"none", "pending", "succeeded", "failed"}]
    /\ events \in SUBSET (Refunds \X {"succeeded", "failed"})
    /\ job \in [Refunds \cup Hooks -> Job \cup {Idle}]
    /\ returned \in [Refunds -> Nat]

On(o) == {r \in Refunds : call[r].claimed /\ call[r].order = o}
Amounts == [r \in Refunds |-> IF call[r].claimed THEN call[r].amount ELSE 0]
Kept(o) == {r \in On(o) : returned[r] = 0}
Out(o) == {r \in On(o) : sent[r] \in {"pending", "succeeded"}}

\* refundedCents never exceeds subtotalCents, however many refunds of an order
\* are asked for, refused and asked for again at once.
RefundedWithinTotal == \A o \in Orders : account[o].refunded <= Subtotal(o)

\* refundedCents is what the claims not given back add up to, unless some
\* claim was given back twice.
HeadroomExact ==
    \A o \in Orders :
        (\A r \in On(o) : returned[r] <= 1)
            => account[o].refunded = Tally(Kept(o), Amounts)

\* No more money leaves for an order than was paid for it, except after a slip:
\* headroom given back twice, or given back although the provider has the refund.
Slipped(r) == returned[r] > 1 \/ (returned[r] = 1 /\ sent[r] \in {"pending", "succeeded"})
SentWithinTotal ==
    \A o \in Orders :
        (\A r \in On(o) : ~Slipped(r)) => Tally(Out(o), Amounts) <= Subtotal(o)

\* A refund the provider left pending, and whose row knows its name there, is
\* settled when the provider decides.
PendingRefundSettles ==
    \A r \in Refunds :
        refund[r].known /\ sent[r] = "pending" ~> refund[r].status # "PENDING"
=============================================================================
