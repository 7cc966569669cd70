------------------------------ MODULE Payouts -------------------------------
(***************************************************************************)
(* Paying a seller (lib/payouts.ts), and taking the money back when a      *)
(* line is refunded after it was paid (reverseForRefund).                  *)
(*                                                                         *)
(* A clerk is a request of the seller (runPayout) or the scheduled job     *)
(* (jobs.ts, payouts:pending), and holds what it has read.  Every refund   *)
(* that settles starts a clawback nobody waits for.  Of a refund only the  *)
(* status of its row matters here; Refunds has the rest.                   *)
(***************************************************************************)
EXTENDS Tally, Sequences

CONSTANTS
    Lines,      \* order items of one seller, all of one order
    Price,      \* Price[l]: lineTotal
    NoLine,     \* a refund of the order: orderItemId = null
    MaxPayouts, \* how many payouts are made (bound)
    Refunds,    \* refunds of the order (bounds how many are asked for)
    Clerks

ASSUME PayoutsAssumption ==
    /\ IsFiniteSet(Lines) /\ IsFiniteSet(Refunds)
    /\ MaxPayouts \in Nat
    /\ Price \in [Lines -> Nat \ {0}]
    /\ NoLine \notin Lines

VARIABLES
    matured,    \* lines DELIVERED whose hold is over
    refund,     \* refund[r]: the row of "refunds"
    payout,     \* payout[p]: the row of "payouts"
    item,       \* item[l]: the row of "payout_items"
    debts,      \* rows of "payout_debts", oldest first
    transfer,   \* transfer[p]: what the provider did under p's key
    clerk,      \* clerk[w]: what it read and is about to do
    clawback,   \* clawback[r]: where reverseForRefund is
    crossed,    \* history: lines refunded while a payout took them
    twice,      \* history: debts two payouts settled
    unheard,    \* history: reversals that happened and threw
    forgiven,   \* history: lines reversed of a payout that was all debt
    recalled    \* history: refunds that claimed what their line was paid

rows == <<matured, refund, payout, item, debts>>
histories == <<crossed, twice, unheard, forgiven, recalled>>
vars == <<rows, transfer, clerk, clawback, histories>>

Payouts == 1..MaxPayouts
NoPayout == 0

Refund == [status : {"NONE", "PENDING", "SUCCEEDED", "FAILED"},
           line : Lines \cup {NoLine}, cents : Nat]
Payout == [status : {"NONE", "PENDING", "PAID", "FAILED"}, cents : Nat]
Item == [payout : Payouts \cup {NoPayout}, reversed : BOOLEAN]
Debt == [line : Lines, cents : Nat, settled : BOOLEAN]
Transfer == [made : Nat, refused : BOOLEAN, back : Nat]
Clerk == [task : {"idle", "debts", "claim", "send", "transfer", "settle", "fail"},
          lines : SUBSET Lines, netting : SUBSET Nat, payout : Payouts \cup {NoPayout}]
Clawback == [task : {"none", "find", "claim", "reverse", "record", "done", "died"},
             short : Nat]

Resting == [task |-> "idle", lines |-> {}, netting |-> {}, payout |-> NoPayout]
Rests(w) == clerk' = [clerk EXCEPT ![w] = Resting]
Does(w, task) == clerk' = [clerk EXCEPT ![w].task = task]

Least(m, n) == IF m < n THEN m ELSE n
Sum(S) == Tally(S, Price)
Cents == [i \in DOMAIN debts |-> debts[i].cents]
Open == {i \in DOMAIN debts : ~debts[i].settled}

-----------------------------------------------------------------------------
(* payableItems and claimPayout                                            *)

\* refundedItemIds: a refund without a line withholds the whole order; the
\* mistake is to look at refunds under way only.
RefundedUnderWay(l) ==
    \E r \in Refunds : refund[r].status = "PENDING" /\ refund[r].line \in {l, NoLine}
Refunded(l) ==
    \E r \in Refunds :
        /\ refund[r].status \in {"PENDING", "SUCCEEDED"}
        /\ refund[r].line \in {l, NoLine}

Payable == {l \in matured : ~Refunded(l) /\ item[l].payout = NoPayout}

\* Its three queries are one step: a line matures once, and whether it is
\* spoken for is decided again by the insert.  A clerk that finds one of the
\* gates closed does nothing, and nobody looks at them again.
ReadPayable(w) ==
    /\ clerk[w] = Resting
    /\ Payable # {}
    /\ clerk' = [clerk EXCEPT ![w].task = "debts", ![w].lines = Payable]
    /\ UNCHANGED <<rows, transfer, clawback, histories>>

\* The oldest debts that fit into what is owed; the mistake is to net them all.
NettedAll(gross) == Open
Netted(gross) == {i \in Open : Tally({j \in Open : j <= i}, Cents) <= gross}

ReadDebts(w) ==
    /\ clerk[w].task = "debts"
    /\ clerk' = [clerk EXCEPT ![w].task = "claim", ![w].netting = Netted(Sum(clerk[w].lines))]
    /\ UNCHANGED <<rows, transfer, clawback, histories>>

\* orderItemId is unique: the insert is the claim.
Insertable(lines) == \A l \in lines : item[l].payout = NoPayout

Made == {p \in Payouts : payout[p].status # "NONE"}
NextPayout == Cardinality(Made) + 1

ClaimPayout(w) ==
    LET lines == clerk[w].lines
        netting == clerk[w].netting
        remaining == Sum(lines) - Tally(netting, Cents)
    IN  /\ clerk[w].task = "claim"
        /\ IF Insertable(lines)
           THEN LET p == NextPayout IN
                /\ p \in Payouts
                /\ payout' = [payout EXCEPT ![p] =
                       [status |-> IF remaining = 0 THEN "PAID" ELSE "PENDING",
                        cents |-> remaining]]
                /\ item' = [l \in Lines |-> IF l \in lines
                                            THEN [item[l] EXCEPT !.payout = p] ELSE item[l]]
                /\ debts' = [i \in DOMAIN debts |->
                       [debts[i] EXCEPT !.settled = @ \/ i \in netting]]
                /\ twice' = twice \cup (netting \ Open)
                /\ crossed' = crossed \cup {l \in lines : Refunded(l)}
                /\ clerk' = [clerk EXCEPT ![w] =
                       IF remaining = 0 THEN Resting
                       ELSE [Resting EXCEPT !.task = "send", !.payout = p]]
           ELSE Rests(w) /\ UNCHANGED <<payout, item, debts, twice, crossed>>
        /\ UNCHANGED <<matured, refund, transfer, clawback, unheard, forgiven, recalled>>

-----------------------------------------------------------------------------
(* sendPendingPayouts and sendClaimedPayout                                *)

Sweep(w, p) ==
    /\ clerk[w] = Resting
    /\ payout[p].status = "PENDING"
    /\ clerk' = [clerk EXCEPT ![w].task = "send", ![w].payout = p]
    /\ UNCHANGED <<rows, transfer, clawback, histories>>

Send(w, p) ==
    /\ clerk[w].task = "send" /\ clerk[w].payout = p
    /\ IF payout[p].status = "PENDING" THEN Does(w, "transfer") ELSE Rests(w)
    /\ UNCHANGED <<rows, transfer, clawback, histories>>

\* The payout's id is the idempotency key: the provider repeats what it
\* decided.  The mistake is a key of the attempt's own.
KeyOfAttempt(p) == TRUE
KeyUnused(p) == transfer[p].made = 0 /\ ~transfer[p].refused

Decides(p) ==
    IF KeyUnused(p)
    THEN transfer' = [transfer EXCEPT ![p].made = @ + 1]
         \/ transfer' = [transfer EXCEPT ![p].refused = TRUE]
    ELSE UNCHANGED transfer

\* The answer arrives: a transfer, or an error that is permanent.
Answered(w, p) ==
    /\ clerk[w].task = "transfer" /\ clerk[w].payout = p
    /\ Decides(p)
    /\ Does(w, IF transfer'[p].refused THEN "fail" ELSE "settle")
    /\ UNCHANGED <<rows, clawback, histories>>

\* Any other error leaves the payout PENDING, decided upon or not.
Unanswered(w, p) ==
    /\ clerk[w].task = "transfer" /\ clerk[w].payout = p
    /\ Decides(p) \/ UNCHANGED transfer
    /\ Rests(w)
    /\ UNCHANGED <<rows, clawback, histories>>

\* The status is in the WHERE of both updates.
Settle(w, p) ==
    /\ clerk[w].task \in {"settle", "fail"} /\ clerk[w].payout = p
    /\ payout' = IF payout[p].status = "PENDING"
                 THEN [payout EXCEPT ![p].status =
                          IF clerk[w].task = "settle" THEN "PAID" ELSE "FAILED"]
                 ELSE payout
    /\ Rests(w)
    /\ UNCHANGED <<matured, refund, item, debts, transfer, clawback, histories>>

ClerkDies(w) ==
    /\ clerk[w] # Resting
    /\ Rests(w)
    /\ UNCHANGED <<rows, transfer, clawback, histories>>

-----------------------------------------------------------------------------
(* reverseForRefund, called without waiting once a line's refund settles   *)

ClawsTo(r, task) == clawback' = [clawback EXCEPT ![r].task = task]
LineOf(r) == refund[r].line
Target(r) == Least(Price[LineOf(r)], refund[r].cents)

Find(r) ==
    LET l == LineOf(r)
        p == item[l].payout
    IN  /\ clawback[r].task = "find"
        /\ IF p # NoPayout /\ ~item[l].reversed /\ payout[p].status = "PAID"
           THEN ClawsTo(r, "claim") ELSE ClawsTo(r, "done")
        /\ crossed' = IF p # NoPayout /\ payout[p].status # "PAID"
                      THEN crossed \cup {l} ELSE crossed
        /\ UNCHANGED <<rows, transfer, clerk, twice, unheard, forgiven, recalled>>

\* reversedAt is claimed first, by a conditional UPDATE, and once for a line:
\* a later refund of the same line takes nothing back, however little the first
\* one took.  The mistake is to trust what was read.
UnreversedWhenRead(l) == TRUE
StillUnreversed(l) == ~item[l].reversed

ClaimReversal(r) ==
    LET l == LineOf(r)
        allDebt == payout[item[l].payout].cents = 0
    IN  /\ clawback[r].task = "claim"
        /\ IF StillUnreversed(l)
           THEN /\ item' = [item EXCEPT ![l].reversed = TRUE]
                /\ ClawsTo(r, IF allDebt THEN "done" ELSE "reverse")
                /\ recalled' = recalled \cup {r}
                /\ forgiven' = IF allDebt THEN forgiven \cup {l} ELSE forgiven
           ELSE ClawsTo(r, "done") /\ UNCHANGED <<item, forgiven, recalled>>
        /\ UNCHANGED <<matured, refund, payout, debts, transfer, clerk,
                       crossed, twice, unheard>>

\* The provider takes back what it can, or throws, having done so or not.
Reverse(r) ==
    LET p == item[LineOf(r)].payout
        left == payout[p].cents - transfer[p].back
    IN  /\ clawback[r].task = "reverse"
        /\ \E n \in 0..Least(left, Target(r)), heard \in BOOLEAN :
            LET short == IF heard THEN Target(r) - n ELSE Target(r)
            IN  /\ transfer' = [transfer EXCEPT ![p].back = @ + n]
                /\ clawback' = [clawback EXCEPT ![r] =
                       [task |-> IF short > 0 THEN "record" ELSE "done", short |-> short]]
                /\ unheard' = IF ~heard /\ n > 0 THEN unheard \cup {r} ELSE unheard
        /\ UNCHANGED <<rows, clerk, crossed, twice, forgiven, recalled>>

\* What did not come back is a debt.
RecordDebt(r) ==
    /\ clawback[r].task = "record"
    /\ debts' = Append(debts, [line |-> LineOf(r), cents |-> clawback[r].short, settled |-> FALSE])
    /\ clawback' = [clawback EXCEPT ![r] = [task |-> "done", short |-> 0]]
    /\ UNCHANGED <<matured, refund, payout, item, transfer, clerk, histories>>

ClawbackDies(r) ==
    /\ clawback[r].task \in {"find", "claim", "reverse", "record"}
    /\ clawback' = [clawback EXCEPT ![r] = [task |-> "died", short |-> 0]]
    /\ UNCHANGED <<rows, transfer, clerk, histories>>

-----------------------------------------------------------------------------
(* What the rest of the system does to these rows                          *)

Matures(l) ==
    /\ l \notin matured
    /\ matured' = matured \cup {l}
    /\ UNCHANGED <<refund, payout, item, debts, transfer, clerk, clawback, histories>>

\* A refund is of as much as anybody asks, of a line or of the order, and has
\* headroom on the order only: it may be less than the line, or more.
Active == {r \in Refunds : refund[r].status \in {"PENDING", "SUCCEEDED"}}
Refunding == [r \in Refunds |-> refund[r].cents]
Headroom == Sum(Lines) - Tally(Active, Refunding)

RefundBegins(r, l) ==
    /\ refund[r].status = "NONE"
    /\ \E cents \in 1..Headroom :
           refund' = [refund EXCEPT ![r] = [status |-> "PENDING", line |-> l, cents |-> cents]]
    /\ UNCHANGED <<matured, payout, item, debts, transfer, clerk, clawback, histories>>

RefundFails(r) ==
    /\ refund[r].status = "PENDING"
    /\ refund' = [refund EXCEPT ![r].status = "FAILED"]
    /\ UNCHANGED <<matured, payout, item, debts, transfer, clerk, clawback, histories>>

\* At once or by webhook, the same follows.
RefundSettles(r) ==
    /\ refund[r].status = "PENDING"
    /\ refund' = [refund EXCEPT ![r].status = "SUCCEEDED"]
    /\ ClawsTo(r, IF refund[r].line = NoLine THEN "done" ELSE "find")
    /\ UNCHANGED <<matured, payout, item, debts, transfer, clerk, histories>>

-----------------------------------------------------------------------------
Init ==
    /\ matured = {}
    /\ refund = [r \in Refunds |-> [status |-> "NONE", line |-> NoLine, cents |-> 0]]
    /\ payout = [p \in Payouts |-> [status |-> "NONE", cents |-> 0]]
    /\ item = [l \in Lines |-> [payout |-> NoPayout, reversed |-> FALSE]]
    /\ debts = <<>>
    /\ transfer = [p \in Payouts |-> [made |-> 0, refused |-> FALSE, back |-> 0]]
    /\ clerk = [w \in Clerks |-> Resting]
    /\ clawback = [r \in Refunds |-> [task |-> "none", short |-> 0]]
    /\ crossed = {} /\ twice = {} /\ unheard = {} /\ forgiven = {} /\ recalled = {}

Sending(w, p) == Send(w, p) \/ Answered(w, p) \/ Unanswered(w, p) \/ Settle(w, p)
ClerkStep(w) == ReadDebts(w) \/ ClaimPayout(w) \/ ClerkDies(w) \/ \E p \in Payouts : Sending(w, p)
Clawing ==
    \E r \in Refunds :
        Find(r) \/ ClaimReversal(r) \/ Reverse(r) \/ RecordDebt(r) \/ ClawbackDies(r)
Elsewhere ==
    \/ \E l \in Lines : Matures(l)
    \/ \E r \in Refunds : RefundFails(r) \/ RefundSettles(r)
    \/ \E r \in Refunds, l \in Lines \cup {NoLine} : RefundBegins(r, l)

Next ==
    \/ \E w \in Clerks : ReadPayable(w) \/ ClerkStep(w)
    \/ \E w \in Clerks, p \in Payouts : Sweep(w, p)
    \/ Clawing
    \/ Elsewhere

Spec == Init /\ [][Next]_vars

-----------------------------------------------------------------------------
\* Rows, clerks and clawbacks keep their shape.
TypeOK ==
    /\ matured \subseteq Lines
    /\ refund \in [Refunds -> Refund]
    /\ payout \in [Payouts -> Payout]
    /\ item \in [Lines -> Item]
    /\ debts \in Seq(Debt)
    /\ transfer \in [Payouts -> Transfer]
    /\ DOMAIN clerk = Clerks /\ \A w \in Clerks : clerk[w] \in Clerk
    /\ clawback \in [Refunds -> Clawback]
    /\ crossed \subseteq Lines /\ forgiven \subseteq Lines
    /\ twice \subseteq DOMAIN debts /\ unheard \subseteq Refunds /\ recalled \subseteq Refunds

Promised == [p \in Payouts |-> payout[p].cents]
Back == [p \in Payouts |-> transfer[p].back]
Targets == [r \in Refunds |-> Target(r)]
PaidOut == {l \in Lines : item[l].payout # NoPayout}

\* A payout's money leaves once however many clerks send it and however their
\* answers get lost, and the row says PAID or FAILED as the provider decided
\* (payouts.ts:484).
SettledAsDecided ==
    \A p \in Payouts :
        /\ transfer[p].made <= 1
        /\ payout[p].status = "PAID" /\ payout[p].cents > 0 => transfer[p].made = 1
        /\ payout[p].status = "FAILED" => transfer[p].made = 0

\* A line that is refunded after it was paid is taken back by one of its
\* refunds and by no other, unless the process died or the refund settled while
\* the payout was being made (payouts.ts:680).  What the line's later refunds
\* come to is not taken back.
RefundedIsTakenBack ==
    \A r \in Refunds :
        refund[r].status = "SUCCEEDED" /\ LineOf(r) # NoLine /\ clawback[r].task = "done" =>
            \/ item[LineOf(r)].payout = NoPayout
            \/ LineOf(r) \in crossed
            \/ \E q \in recalled : LineOf(q) = LineOf(r)
RecalledOnce == \A q, r \in recalled : LineOf(q) = LineOf(r) => q = r

Quiet == \A r \in Refunds : clawback[r].task \notin {"reverse", "record", "died"}
Books ==
    Tally(Made, Promised) - Tally(Made, Back) - Tally(Open, Cents)
        = Sum(PaidOut) - Tally(recalled, Targets)

\* What payouts promise, less what came back and what is still owed, is what
\* their lines are worth less the one refund of each that was to be taken back,
\* as far as the line goes: every cent is paid, netted, returned or owed once
\* (payouts.ts:645).  The exceptions the code has: a clawback that died, or
\* threw after the fact; a debt that two claims settled; and a payout that was
\* all debt, which has no transfer to reverse, so that nothing is owed for its
\* lines.
BooksBalance == Quiet /\ twice = {} /\ unheard = {} /\ forgiven = {} => Books

\* Payouts, debts and clawbacks keep their shape, what is refunded is taken
\* back once, and the books balance.
PayoutsInv == TypeOK /\ RefundedIsTakenBack /\ RecalledOnce /\ BooksBalance
=============================================================================
