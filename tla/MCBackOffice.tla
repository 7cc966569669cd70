---------------------------- MODULE MCBackOffice ----------------------------
(***************************************************************************)
(* Small instances of what is kept beside orders and sessions: payouts,    *)
(* the moderators' desk, conversations, telephone numbers, address books,  *)
(* saved listings and the cart's badge.                                    *)
(* These share no state, so that their product would show nothing more: a  *)
(* behaviour is one of one component, and the others rest.                 *)
(***************************************************************************)
EXTENDS Payouts, Phones, Addresses, Threads, Moderation, Hearts, CartBadge, TLC

CONSTANTS l1, l2

\* An order of two lines of one seller.
MCPrice == [l \in Lines |-> IF l = l1 THEN 1 ELSE 2]

VARIABLE part

peopleVars == <<phonesVars, addressesVars, threadsVars, moderationVars>>
pageVars == <<heartsVars, badgeVars>>

BackOfficeInit ==
    /\ Init
    /\ PhonesInit /\ AddressesInit /\ ThreadsInit /\ ModerationInit
    /\ HeartsInit /\ BadgeInit
    /\ part \in {"payouts", "phones", "addresses", "threads", "moderation",
                 "hearts", "badge"}

\* Two payouts or two refunds, but not both; a refund of a line is of 1 or 2,
\* and one of the order, of which nothing is taken back, of 1 (bounds).
Begun == {r \in Refunds : refund[r].status # "NONE"}
Bounded ==
    /\ Cardinality(Made) + Cardinality(Begun) <= 3
    /\ \A r \in Begun : refund[r].cents <= IF refund[r].line = NoLine THEN 1 ELSE 2

InPayouts == part = "payouts" /\ Next /\ Bounded'
    /\ UNCHANGED <<peopleVars, pageVars, part>>
InPhones == part = "phones" /\ PhonesNext
    /\ UNCHANGED <<vars, addressesVars, threadsVars, moderationVars, pageVars, part>>
InAddresses == part = "addresses" /\ AddressesNext
    /\ UNCHANGED <<vars, phonesVars, threadsVars, moderationVars, pageVars, part>>
InThreads == part = "threads" /\ ThreadsNext
    /\ UNCHANGED <<vars, phonesVars, addressesVars, moderationVars, pageVars, part>>
InModeration == part = "moderation" /\ ModerationNext
    /\ UNCHANGED <<vars, phonesVars, addressesVars, threadsVars, pageVars, part>>
InHearts == part = "hearts" /\ HeartsNext
    /\ UNCHANGED <<vars, peopleVars, badgeVars, part>>
InBadge == part = "badge" /\ BadgeNext
    /\ UNCHANGED <<vars, peopleVars, heartsVars, part>>

BackOfficeSpec ==
    /\ BackOfficeInit
    /\ [][\/ InPayouts
          \/ InPhones \/ InAddresses \/ InThreads \/ InModeration
          \/ InHearts \/ InBadge]_<<vars, peopleVars, pageVars, part>>

Symmetry == Permutations(Refunds) \cup Permutations(Clerks) \cup Permutations(Accounts)
=============================================================================
