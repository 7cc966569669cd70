------------------------------- MODULE Orders -------------------------------
(***************************************************************************)
(* From holds to a paid order or back: backend/src/lib/orders.ts, driven   *)
(* by routes/orders.ts (checkout, pay, cancel), routes/webhooks.ts         *)
(* (handlePayment) and the order sweeper.  Stock and holds are those of    *)
(* Reservations; intents are those of PaymentProvider.                     *)
(*                                                                         *)
(* A worker is one request or one turn of a sweeper's loop.  Its pc names  *)
(* the statement it runs next, so that anything may happen between two     *)
(* statements; a transaction that locks listings and commits is one step,  *)
(* but the status it acts on was read by an earlier one.                   *)
(***************************************************************************)
EXTENDS Reservations, PaymentProvider

CONSTANTS
    Orders,     \* identifiers of order rows (bounds how many are made)
    Workers,    \* requests and sweepers that run at the same time
    Sweepers,   \* those of the workers that are order sweepers
    Kinds       \* what may happen: a subset of AllKinds

AllKinds == {"pay", "cancel", "abandon", "reconcile", "webhook", "browser",
             "restart"}

ASSUME OrdersAssumption ==
    /\ Sweepers \subseteq Workers
    /\ Kinds \subseteq AllKinds

VARIABLES
    order,      \* order[o]: the row of "orders", or NoOrder
    intent,     \* intent[o]: the order's payment intent at the provider
    events,     \* <<order, outcome>>: webhook events the provider has sent
    worker,     \* worker[w]: what w is about to do
    told,       \* told[o]: how often its sellers were notified of the sale
    resettled,  \* history: orders settled by a step that acted on a status
                \* no longer in the row
    strayed     \* history: orders whose intent changed without the program

payVars == <<order, intent, events, worker, told, resettled, strayed>>
vars == <<stockVars, payVars>>

OrderStatus == {"PENDING_PAYMENT", "PROCESSING", "PAID", "FAILED", "CANCELLED"}

\* aged: createdAt is over 30 minutes ago.  idle: updatedAt over 2 minutes ago.
OrderRow == [status : OrderStatus, buyer : Users, lines : SUBSET Holds,
             aged : BOOLEAN, idle : BOOLEAN]
NoOrder == [status |-> "NONE", lines |-> {}]

Tasks == {"confirm", "unclaim", "ask", "cancelIntent",
          "readPaid", "writePaid", "tell", "readRelease", "writeRelease"}
Idle == [task |-> "idle"]
Job == [task : Tasks, order : Orders,
        to : {"PAID", "FAILED", "CANCELLED", "PENDING_PAYMENT"}]

-----------------------------------------------------------------------------
\* STOCK_COMMITTED: the statuses in which an order keeps its units.
Committed(o) == order[o].status \in {"PENDING_PAYMENT", "PROCESSING"}

LinesOn(o, l) == {h \in order[o].lines : hold[h].listing = l}
ListingsOf(o) == {hold[h].listing : h \in order[o].lines}

\* Give worker w its next task, or none.
Does(w, job) == worker' = [worker EXCEPT ![w] = job]
Goes(task, o, to) == [task |-> task, order |-> o, to |-> to]

-----------------------------------------------------------------------------
(***************************************************************************)
(* POST /orders.  createOrderFromHolds is one step: it converts the holds  *)
(* the buyer had at one instant, each re-read under its listing's lock.    *)
(***************************************************************************)
\* The holds a checkout converts; the mistake is not to ask whether they are
\* still HELD.
BasketOfAny(u) == {h \in Holds : hold[h] # NoRow /\ hold[h].user = u /\ ~hold[h].lapsed}
BasketOf(u) == {h \in Holds : Held(h) /\ hold[h].user = u /\ ~hold[h].lapsed}

Checkout(u, o) ==
    LET basket == BasketOf(u)
    IN  /\ order[o] = NoOrder
        /\ basket # {}
        /\ \A h \in basket : ~listing[hold[h].listing].deleted
        /\ order' = [order EXCEPT ![o] =
               [status |-> "PENDING_PAYMENT", buyer |-> u, lines |-> basket,
                aged |-> FALSE, idle |-> FALSE]]
        /\ hold' = [h \in Holds |->
               IF h \in basket THEN [hold[h] EXCEPT !.status = "CONVERTED"]
                               ELSE hold[h]]
        /\ UNCHANGED <<listing, releasing, sweeping, editing, supply, overtaken,
                       intent, events, worker, told, resettled, strayed>>

\* createIntent and attachPaymentIntent: until the second has run nobody has
\* the intent, so they are one step; an order may never get this far.
OpenPayment(o) ==
    /\ order[o] # NoOrder
    /\ intent[o] = "none"
    /\ intent' = [intent EXCEPT ![o] = "confirmable"]
    /\ UNCHANGED <<stockVars, order, events, worker, told, resettled, strayed>>

-----------------------------------------------------------------------------
(***************************************************************************)
(* POST /orders/:id/pay                                                    *)
(***************************************************************************)

\* claimOrderForPayment is one conditional UPDATE; the mistake is to claim an
\* order somebody else is already paying for.
ClaimableLoose(o) == Committed(o)
Claimable(o) == order[o].status = "PENDING_PAYMENT"

Pay(w, o) ==
    /\ "pay" \in Kinds
    /\ worker[w] = Idle
    /\ intent[o] # "none"
    /\ Claimable(o)
    /\ order' = [order EXCEPT ![o].status = "PROCESSING", ![o].idle = FALSE]
    /\ Does(w, Goes("confirm", o, "PAID"))
    /\ UNCHANGED <<stockVars, intent, events, told, resettled, strayed>>

\* What the route does with the provider's answer.  "unknown" is an
\* indeterminate error: the order stays PROCESSING.  The mistakes are to take
\* it for a decline, or to give the order back to be paid again.
AfterConfirmReopens(o, answer) ==
    CASE answer = "succeeded" -> Goes("readPaid", o, "PAID")
      [] answer = "failed" -> Goes("readRelease", o, "FAILED")
      [] answer = "pending" -> Idle
      [] OTHER -> Goes("unclaim", o, "PENDING_PAYMENT")
AfterConfirmHasty(o, answer) ==
    CASE answer = "succeeded" -> Goes("readPaid", o, "PAID")
      [] answer = "pending" -> Idle
      [] OTHER -> Goes("readRelease", o, "FAILED")
AfterConfirm(o, answer) ==
    CASE answer = "succeeded" -> Goes("readPaid", o, "PAID")
      [] answer = "failed" -> Goes("readRelease", o, "FAILED")
      [] answer = "refused" -> Goes("unclaim", o, "PENDING_PAYMENT")
      [] answer \in {"pending", "unknown"} -> Idle

\* A decline is announced by the provider although the intent stays usable.
Confirm(w) ==
    LET o == worker[w].order
    IN  /\ worker[w].task = "confirm"
        /\ \E reply \in Confirmed(intent[o]), heard \in BOOLEAN :
            /\ intent' = [intent EXCEPT ![o] = reply[1]]
            /\ events' = events \cup
                   {<<o, e>> : e \in Announced(intent[o], reply[1])} \cup
                   (IF intent[o] = "confirmable" /\ reply[2] = "failed"
                    THEN {<<o, "failed">>} ELSE {})
            /\ Does(w, AfterConfirm(o, IF heard THEN reply[2] ELSE "unknown"))
        /\ UNCHANGED <<stockVars, order, told, resettled, strayed>>

\* unclaimOrder: a conditional UPDATE.
Unclaim(w) ==
    LET o == worker[w].order
    IN  /\ worker[w].task = "unclaim"
        /\ order' = IF order[o].status = "PROCESSING"
                    THEN [order EXCEPT ![o].status = "PENDING_PAYMENT",
                                       ![o].idle = FALSE]
                    ELSE order
        /\ Does(w, Idle)
        /\ UNCHANGED <<stockVars, intent, events, told, resettled, strayed>>

-----------------------------------------------------------------------------
(***************************************************************************)
(* markOrderPaid reads the status, then locks the listings, and commits.   *)
(***************************************************************************)
\* Whoever finds it settled is done; the mistake is to announce it all the same.
ToldAnyway(o) == Goes("tell", o, "PAID")
WhenSettled(o) == Idle

ReadPaid(w) ==
    LET o == worker[w].order
    IN  /\ worker[w].task = "readPaid"
        /\ Does(w, IF Committed(o) THEN Goes("writePaid", o, "PAID") ELSE WhenSettled(o))
        /\ UNCHANGED <<stockVars, order, intent, events, told, resettled, strayed>>

\* The listings with nothing left on the shelf become SOLD.
SellsOut(o, l) == l \in ListingsOf(o) /\ listing[l].quantity = 0

WritePaid(w) ==
    LET o == worker[w].order
    IN  /\ worker[w].task = "writePaid"
        /\ listing' = [l \in Listings |->
               IF SellsOut(o, l) THEN [listing[l] EXCEPT !.status = "SOLD"]
                                 ELSE listing[l]]
        /\ order' = [order EXCEPT ![o].status = "PAID", ![o].idle = FALSE]
        /\ resettled' = IF Committed(o) THEN resettled ELSE resettled \cup {o}
        /\ Does(w, Goes("tell", o, "PAID"))
        /\ UNCHANGED <<hold, releasing, sweeping, editing, supply, overtaken,
                       intent, events, told, strayed>>

\* notifySellersOfSale, after the commit, by whoever's transaction reports that
\* it moved the order.
Tell(w) ==
    LET o == worker[w].order
    IN  /\ worker[w].task = "tell"
        /\ told' = [told EXCEPT ![o] = @ + 1]
        /\ Does(w, Idle)
        /\ UNCHANGED <<stockVars, order, intent, events, resettled, strayed>>

(***************************************************************************)
(* releaseOrder reads the status, then locks the listings, and commits.    *)
(***************************************************************************)

ReadRelease(w) ==
    LET o == worker[w].order
    IN  /\ worker[w].task = "readRelease"
        /\ Does(w, IF Committed(o)
                   THEN Goes("writeRelease", o, worker[w].to) ELSE Idle)
        /\ UNCHANGED <<stockVars, order, intent, events, told, resettled, strayed>>

\* The listings get their units back; the mistake is to cancel without that.
ReturnedNone(o, l) == listing[l]
Returned(o, l) == Restocked(listing[l], Units(LinesOn(o, l)))

WriteRelease(w) ==
    LET o == worker[w].order
    IN  /\ worker[w].task = "writeRelease"
        /\ listing' = [l \in Listings |->
               IF l \in ListingsOf(o) THEN Returned(o, l) ELSE listing[l]]
        /\ order' = [order EXCEPT ![o].status = worker[w].to, ![o].idle = FALSE]
        /\ resettled' = IF Committed(o) THEN resettled ELSE resettled \cup {o}
        /\ Does(w, Idle)
        /\ UNCHANGED <<hold, releasing, sweeping, editing, supply, overtaken,
                       intent, events, told, strayed>>

-----------------------------------------------------------------------------
\* POST /orders/:id/cancel reads the order, and refuses all but an unpaid one.
Cancel(w, o) ==
    /\ "cancel" \in Kinds
    /\ worker[w] = Idle
    /\ order[o].status = "PENDING_PAYMENT"
    /\ Does(w, Goes("readRelease", o, "CANCELLED"))
    /\ UNCHANGED <<stockVars, order, intent, events, told, resettled, strayed>>

\* releaseAbandonedOrders, one order of its batch.
Abandon(w, o) ==
    /\ "abandon" \in Kinds
    /\ worker[w] = Idle
    /\ order[o].status = "PENDING_PAYMENT"
    /\ order[o].aged
    /\ Does(w, Goes("readRelease", o, "CANCELLED"))
    /\ UNCHANGED <<stockVars, order, intent, events, told, resettled, strayed>>

\* reconcileProcessingOrders, one order of its batch.  The query also tells
\* whether the order is past the payment window, which decides what becomes
\* of a payment still pending: it is cancelled, or left.
Reconcile(w, o) ==
    /\ "reconcile" \in Kinds
    /\ worker[w] = Idle
    /\ order[o].status = "PROCESSING"
    /\ order[o].idle
    /\ Does(w, Goes("ask", o, IF order[o].aged THEN "CANCELLED" ELSE "PAID"))
    /\ UNCHANGED <<stockVars, order, intent, events, told, resettled, strayed>>

\* getIntent, and the branch its answer leads to; the mistake is to act on
\* nothing but bad news, and leave the rest to a webhook.
AfterAskTimid(o, to) ==
    CASE intent[o] \in {"none", "lost"} -> Goes("unclaim", o, "PENDING_PAYMENT")
      [] Outcome(intent[o]) = "failed" -> Goes("readRelease", o, "FAILED")
      [] OTHER -> Idle
AfterAsk(o, to) ==
    CASE intent[o] \in {"none", "lost"} -> Goes("unclaim", o, "PENDING_PAYMENT")
      [] Outcome(intent[o]) = "succeeded" -> Goes("readPaid", o, "PAID")
      [] Outcome(intent[o]) = "pending" ->
            IF to = "CANCELLED" THEN Goes("cancelIntent", o, to) ELSE Idle
      [] OTHER -> Goes("readRelease", o, "FAILED")

Ask(w) ==
    /\ worker[w].task = "ask"
    /\ Does(w, AfterAsk(worker[w].order, worker[w].to))
    /\ UNCHANGED <<stockVars, order, intent, events, told, resettled, strayed>>

CancelIntent(w) ==
    LET o == worker[w].order
    IN  /\ worker[w].task = "cancelIntent"
        /\ intent' = [intent EXCEPT ![o] = Canceled(@)]
        /\ events' = events \cup
               {<<o, e>> : e \in Announced(intent[o], Canceled(intent[o]))}
        /\ Does(w, Goes("readRelease", o, "CANCELLED"))
        /\ UNCHANGED <<stockVars, order, told, resettled, strayed>>

\* handlePayment.  Events arrive late, in any order and more than once, so a
\* delivered event stays deliverable.
Webhook(w, o, outcome) ==
    /\ "webhook" \in Kinds
    /\ worker[w] = Idle
    /\ <<o, outcome>> \in events
    /\ Does(w, IF outcome = "succeeded" THEN Goes("readPaid", o, "PAID")
                                        ELSE Goes("readRelease", o, "FAILED"))
    /\ UNCHANGED <<stockVars, order, intent, events, told, resettled, strayed>>

\* The request's server dies, its transaction times out, or a call throws.
Crash(w) ==
    /\ worker[w] # Idle
    /\ Does(w, Idle)
    /\ UNCHANGED <<stockVars, order, intent, events, told, resettled, strayed>>

-----------------------------------------------------------------------------
(***************************************************************************)
(* What happens outside the program: the buyer's browser, the stub losing  *)
(* its memory, and the clock.                                              *)
(***************************************************************************)
BrowserConfirm(o) ==
    /\ "browser" \in Kinds
    /\ intent[o] \in {"confirmable", "pending"}
    /\ \E status \in ConfirmedInBrowser(intent[o]) :
        /\ intent' = [intent EXCEPT ![o] = status]
        /\ events' = events \cup {<<o, e>> : e \in Announced(intent[o], status)}
               \cup (IF status = "confirmable" THEN {<<o, "failed">>} ELSE {})
    /\ strayed' = strayed \cup {o}
    /\ UNCHANGED <<stockVars, order, worker, told, resettled>>

\* The stub has no page in the browser: an intent goes astray in one way only.
\* What becomes of the intent of a settled order is nobody's concern.
ProviderForgets(o) ==
    /\ "restart" \in Kinds
    /\ intent[o] # "none"
    /\ Committed(o)
    /\ o \notin strayed
    /\ intent' = [intent EXCEPT ![o] = "lost"]
    /\ strayed' = strayed \cup {o}
    /\ UNCHANGED <<stockVars, order, events, worker, told, resettled>>

Ages(o) ==
    /\ Committed(o)
    /\ ~order[o].aged
    /\ order' = [order EXCEPT ![o].aged = TRUE]
    /\ UNCHANGED <<stockVars, intent, events, worker, told, resettled, strayed>>

\* Two minutes without an update.  A pay request that still runs has called
\* the provider, and handed its claim back if it must, long before that: the
\* client's 20 second timeout and two retries bound it.
Prompt(o) ==
    \A w \in Workers :
        worker[w] # Idle /\ worker[w].task \in {"confirm", "unclaim"}
            => worker[w].order # o

Idles(o) ==
    /\ order[o].status = "PROCESSING"
    /\ ~order[o].idle
    /\ Prompt(o)
    /\ order' = [order EXCEPT ![o].idle = TRUE]
    /\ UNCHANGED <<stockVars, intent, events, worker, told, resettled, strayed>>

-----------------------------------------------------------------------------
Init ==
    /\ StockInit
    /\ order = [o \in Orders |-> NoOrder]
    /\ intent = [o \in Orders |-> "none"]
    /\ events = {}
    /\ worker = [w \in Workers |-> Idle]
    /\ told = [o \in Orders |-> 0]
    /\ resettled = {}
    /\ strayed = {}

Step(w) ==
    \/ Confirm(w) \/ Unclaim(w) \/ Ask(w) \/ CancelIntent(w)
    \/ ReadPaid(w) \/ WritePaid(w) \/ Tell(w)
    \/ ReadRelease(w) \/ WriteRelease(w)

Request(w, o) ==
    \/ Pay(w, o) \/ Cancel(w, o)
    \/ \E outcome \in {"succeeded", "failed"} : Webhook(w, o, outcome)

Turn(w, o) == Abandon(w, o) \/ Reconcile(w, o)

Outside(o) ==
    \/ BrowserConfirm(o) \/ ProviderForgets(o) \/ Ages(o) \/ Idles(o)

Next ==
    \/ StockNext /\ UNCHANGED payVars
    \/ \E u \in Users, o \in Orders : Checkout(u, o)
    \/ \E o \in Orders : OpenPayment(o) \/ Outside(o)
    \/ \E w \in Workers \ Sweepers, o \in Orders : Request(w, o)
    \/ \E w \in Sweepers, o \in Orders : Turn(w, o)
    \/ \E w \in Workers : Step(w) \/ Crash(w)

Spec == Init /\ [][Next]_vars

\* The sweepers run on a timer, and a step of theirs that is retried for ever
\* succeeds in the end although any one attempt may crash.  A request ends,
\* somehow; nobody has to buy or pay.
Fairness ==
    /\ \A o \in Orders : WF_vars(Ages(o)) /\ WF_vars(Idles(o))
    /\ \A w \in Workers : WF_vars(Step(w) \/ Crash(w))
    /\ \A w \in Sweepers :
        /\ SF_vars(Ask(w)) /\ SF_vars(CancelIntent(w)) /\ SF_vars(Unclaim(w))
        /\ SF_vars(ReadPaid(w)) /\ SF_vars(ReadRelease(w))
        /\ SF_vars(WritePaid(w)) /\ SF_vars(WriteRelease(w))
        /\ \A o \in Orders : SF_vars(Abandon(w, o)) /\ SF_vars(Reconcile(w, o))

FairSpec == Spec /\ Fairness

-----------------------------------------------------------------------------
\* Rows, intents and workers have the shape the schema and the code give them.
TypeOK ==
    /\ StockTypeOK
    /\ order \in [Orders -> OrderRow \cup {NoOrder}]
    /\ intent \in [Orders -> IntentStatus]
    /\ events \in SUBSET (Orders \X {"succeeded", "failed"})
    /\ worker \in [Workers -> Job \cup {Idle}]
    /\ told \in [Orders -> Nat]
    /\ resettled \in SUBSET Orders
    /\ strayed \in SUBSET Orders

\* An order is PAID only if the provider took the money, whichever of the pay
\* request, the webhook and reconciliation said so.
PaidMeansCharged ==
    \A o \in Orders :
        order[o].status = "PAID" => intent[o] \in {"succeeded", "lost"}

\* No hold is bought twice: a reservation belongs to one order.
OneOrderPerHold ==
    \A o, p \in Orders : o # p => order[o].lines \cap order[p].lines = {}

\* "Everything past this line runs in exactly one request": of the requests
\* to pay for one order, one at most is at the provider; unless the provider
\* lost the intent, and a second reconciliation that found it lost reopened an
\* order that had been claimed again since.
OnePayerAtProvider ==
    \A v, w \in Workers :
        /\ v # w
        /\ worker[v] # Idle /\ worker[v].task = "confirm"
        /\ worker[w] # Idle /\ worker[w].task = "confirm"
        => \/ worker[v].order # worker[w].order
           \/ worker[v].order \in strayed

\* Every unit put up is on the shelf, on hold or in an order that keeps it.
Sold(o) == order[o].status = "PAID"
KeptOn(l) ==
    HeldOn(l) \cup UNION {LinesOn(o, l) : o \in {p \in Orders : Committed(p) \/ Sold(p)}}
Accounted(l) == listing[l].quantity + Units(KeptOn(l))

OrdersLoseNoStock == \A l \in Listings : Accounted(l) >= supply[l]

\* Units are made up only by a settlement, or a release of a hold, that acted
\* on a status somebody else had changed in the meantime.
OrdersConserveStock ==
    \A l \in Listings :
        \/ Accounted(l) = supply[l]
        \/ \E h \in overtaken : hold[h].listing = l
        \/ \E o \in resettled : l \in ListingsOf(o)

\* Money taken for an order is never money for goods given back.
ChargedNotReleased ==
    \A o \in Orders :
        intent[o] = "succeeded" => order[o].status \notin {"CANCELLED", "FAILED"}

\* FAILED is said of no order whose money was taken: an error, a lost answer
\* or a late event is never mistaken for a refusal.  What the buyer does in the
\* browser with an intent that is left open is not the program's.
FailedMeansNotCharged ==
    \A o \in Orders \ strayed : order[o].status = "FAILED" => intent[o] # "succeeded"

\* A listing hidden as RESERVED has a live hold or an unfinished order that
\* will settle it: no third state keeps it from the catalog.
HiddenOnlyWhileCommitted ==
    \A l \in Listings : listing[l].status = "RESERVED" =>
        HeldOn(l) # {} \/ \E o \in Orders : Committed(o) /\ l \in ListingsOf(o)

\* A sale is announced to its sellers once, however many of the pay request,
\* the webhook and reconciliation find that it was paid; unless two of them
\* wrote it, each having read it unpaid.
SellersToldOnce == \A o \in Orders \ resettled : told[o] <= 1

\* Nothing commits stock for ever: an order is paid for or given up.
EveryOrderSettles ==
    \A o \in Orders : []<>~Committed(o)

\* A charge is not lost on the way to the row, whatever request dies: an order
\* whose money was taken by the program leaves PROCESSING as PAID, unless a
\* cancellation was faster.
ChargeIsRecorded ==
    [][\A o \in Orders \ strayed :
        intent[o] = "succeeded" /\ order[o].status = "PROCESSING"
            => order'[o].status \in {"PROCESSING", "PAID", "CANCELLED"}]_vars
\* What an order says of its payment is what the provider did, one request at
\* most is there for it, and its sellers hear of it once.
PaymentsRight ==
    /\ PaidMeansCharged /\ FailedMeansNotCharged /\ OnePayerAtProvider
    /\ SellersToldOnce

\* What checkout, payment and release keep of holds and listings; and stock
\* neither vanishes nor is made up, but for the exceptions above.
OrdersInv ==
    /\ TypeOK /\ OneOrderPerHold /\ HiddenOnlyWhileCommitted
    /\ OrdersLoseNoStock /\ OrdersConserveStock
=============================================================================
