---------------------------- MODULE PayoutAccount ----------------------------
(***************************************************************************)
(* A seller's account at the payouts provider and what the profile keeps   *)
(* of it (routes/sellerPayouts.ts, handleConnectAccount of                 *)
(* routes/webhooks.ts, lib/payoutProvider.ts).                             *)
(*                                                                         *)
(* An account is numbered as it is created; version counts the changes of  *)
(* its standing.  The provider sends a notice of each change and repeats   *)
(* it until it is answered, in any order.                                  *)
(***************************************************************************)
EXTENDS Naturals, FiniteSets

CONSTANTS
    Hands,          \* requests and deliveries that may be under way together
    MaxAccounts,    \* accounts created (bound)
    MaxChanges      \* changes of an account's standing (bound)

ASSUME PayoutAccountAssumption == MaxAccounts \in Nat \ {0} /\ MaxChanges \in Nat

VARIABLES
    connectAccountId, payoutsReady,
    connectOnboardedAt, \* the day, or Never
    today,
    created,            \* accounts at the provider
    standing,           \* standing[a]: what the provider says of account a
    changes,            \* changes of standing so far
    linked,             \* accounts a seller was given a link to
    notices,            \* account.updated, not yet answered
    hand,               \* hand[h]: what h read and is about to do
    twofold,            \* history: connections overlapped, or one died half way
    outdated,              \* history: something older was written over what was newer
    newest,             \* history: the version written last
    overlapped,         \* history: two hands wrote the profile at once
    moved               \* history: the day of onboarding was replaced by another

profileVars == <<connectAccountId, payoutsReady, connectOnboardedAt>>
accountVars == <<created, standing, changes, linked>>
accountHistory == <<twofold, outdated, newest, overlapped, moved>>
payoutAccountVars == <<profileVars, accountVars, accountHistory, today, notices, hand>>

AccountIds == 1..MaxAccounts
NoId == 0
Never == 0
Empty == [task |-> "idle"]
Untold == [details |-> FALSE, enabled |-> FALSE, version |-> 0]

TakesUp(h, job) == hand[h] = Empty /\ hand' = [hand EXCEPT ![h] = job]
Becomes(h, job) == hand' = [hand EXCEPT ![h] = job]
Drops(h) == hand' = [hand EXCEPT ![h] = Empty]
OthersAt(h, tasks) == \E k \in Hands \ {h} : hand[k].task \in tasks

-----------------------------------------------------------------------------
(* POST /payouts/account                                                   *)

\* The mistake is to make an account whenever a link is asked for.
NeedsOneAnyway == TRUE
NeedsOne == connectAccountId = NoId

Link(a) == linked' = linked \cup {a}

Connect(h) ==
    /\ IF NeedsOne
       THEN TakesUp(h, [task |-> "create"]) /\ UNCHANGED linked
       ELSE hand[h] = Empty /\ Link(connectAccountId) /\ UNCHANGED hand
    /\ twofold' = (twofold \/ OthersAt(h, {"create", "store"}))
    /\ UNCHANGED <<profileVars, created, standing, changes, outdated, newest, overlapped, moved,
                   today, notices>>

CreateAccount(h) ==
    /\ hand[h].task = "create"
    /\ created < MaxAccounts
    /\ created' = created + 1
    /\ Becomes(h, [task |-> "store", id |-> created + 1])
    /\ UNCHANGED <<profileVars, standing, changes, linked, accountHistory, today, notices>>

StoreAccount(h) ==
    /\ hand[h].task = "store"
    /\ connectAccountId' = hand[h].id
    /\ Link(hand[h].id)
    /\ Drops(h)
    /\ UNCHANGED <<payoutsReady, connectOnboardedAt, created, standing, changes, accountHistory,
                   today, notices>>

-----------------------------------------------------------------------------
(* The provider                                                            *)

\* The seller fills in the form, or the provider changes its mind.
Changes(a, details, enabled) ==
    /\ a \in linked
    /\ enabled => details
    /\ changes < MaxChanges /\ changes' = changes + 1
    /\ <<details, enabled>> # <<standing[a].details, standing[a].enabled>>
    /\ standing' = [standing EXCEPT ![a] =
           [details |-> details, enabled |-> enabled, version |-> changes']]
    /\ notices' = notices \cup {[account |-> a, said |-> standing'[a]]}
    /\ UNCHANGED <<profileVars, created, linked, accountHistory, today, hand>>

-----------------------------------------------------------------------------
(* handleConnectAccount and POST /payouts/account/refresh                  *)

ToWrite(said, notice) ==
    [task |-> "write", said |-> said, notice |-> notice, day |-> connectOnboardedAt]

\* A notice of an account the profile does not have is answered and ignored.
Hear(h, n) ==
    /\ n \in notices
    /\ IF n.account = connectAccountId
       THEN TakesUp(h, ToWrite(n.said, {n})) /\ UNCHANGED notices
       ELSE hand[h] = Empty /\ notices' = notices \ {n} /\ UNCHANGED hand
    /\ UNCHANGED <<profileVars, accountVars, accountHistory, today>>

Refresh(h) ==
    /\ connectAccountId # NoId
    /\ TakesUp(h, [task |-> "ask", id |-> connectAccountId, day |-> connectOnboardedAt])
    /\ UNCHANGED <<profileVars, accountVars, accountHistory, today, notices>>

Retrieve(h) ==
    /\ hand[h].task = "ask"
    /\ Becomes(h, [ToWrite(standing[hand[h].id], {}) EXCEPT !.day = hand[h].day])
    /\ UNCHANGED <<profileVars, accountVars, accountHistory, today, notices>>

\* The mistakes are to stamp the day at every notice, and never to take the
\* padlock back.
StampedAgain(w) == IF w.said.details THEN today ELSE Never
Onboarded(w) ==
    IF w.said.details THEN (IF w.day # Never THEN w.day ELSE today) ELSE Never
OnceReady(w) == payoutsReady \/ w.said.enabled
Ready(w) == w.said.enabled

WriteStanding(h) ==
    /\ hand[h].task = "write"
    /\ LET w == hand[h]
       IN  /\ payoutsReady' = Ready(w)
           /\ connectOnboardedAt' = Onboarded(w)
           /\ notices' = notices \ w.notice
           /\ outdated' = (outdated \/ w.said.version < newest)
           /\ newest' = w.said.version
    /\ overlapped' = (overlapped \/ OthersAt(h, {"ask", "write"}))
    /\ moved' = (moved \/ /\ Never \notin {connectOnboardedAt, connectOnboardedAt'}
                          /\ connectOnboardedAt' # connectOnboardedAt)
    /\ Drops(h)
    /\ UNCHANGED <<connectAccountId, accountVars, twofold, today>>

HandDies(h) ==
    /\ hand[h] # Empty
    /\ twofold' = (twofold \/ hand[h].task = "store")
    /\ Drops(h)
    /\ UNCHANGED <<profileVars, accountVars, outdated, newest, overlapped, moved,
                   today, notices>>

NextDay ==
    /\ today = 1 /\ today' = 2
    /\ UNCHANGED <<profileVars, accountVars, accountHistory, notices, hand>>

PayoutAccountInit ==
    /\ connectAccountId = NoId /\ payoutsReady = FALSE /\ connectOnboardedAt = Never
    /\ created = 0 /\ standing = [a \in AccountIds |-> Untold] /\ linked = {}
    /\ changes = 0
    /\ notices = {} /\ hand = [h \in Hands |-> Empty] /\ today = 1
    /\ twofold = FALSE /\ outdated = FALSE /\ newest = 0 /\ overlapped = FALSE
    /\ moved = FALSE

PayoutAccountNext ==
    \/ \E h \in Hands :
           \/ Connect(h) \/ CreateAccount(h) \/ StoreAccount(h)
           \/ \E n \in notices : Hear(h, n)
           \/ Refresh(h) \/ Retrieve(h) \/ WriteStanding(h) \/ HandDies(h)
    \/ \E a \in AccountIds, details, enabled \in BOOLEAN : Changes(a, details, enabled)
    \/ NextDay

PayoutAccountSpec == PayoutAccountInit /\ [][PayoutAccountNext]_payoutAccountVars

-----------------------------------------------------------------------------
\* The profile and the provider's accounts keep their shape.
PayoutAccountTypeOK ==
    /\ connectAccountId \in 0..created /\ created \in 0..MaxAccounts
    /\ {payoutsReady, twofold, outdated, overlapped, moved} \subseteq BOOLEAN
    /\ connectOnboardedAt \in {Never, 1, 2}
    /\ linked \subseteq 1..created
    /\ \A n \in notices : n.account \in linked

\* A seller has one account at the provider, however often the link is asked
\* for again (sellerPayouts.ts:153-157), unless two requests overlap or one
\* dies before it stores the account it made.
OneAccount == created > 1 => twofold

\* With every notice answered and no write under way, the padlock shows what
\* the provider last said of the account, unless something older was written
\* over it: a notice carries its account's standing, and its age is not looked at.
ReadyAsSaid ==
    /\ notices = {} /\ \A h \in Hands : hand[h] = Empty
    /\ ~twofold /\ ~outdated
    => /\ connectAccountId # NoId => payoutsReady = standing[connectAccountId].enabled
       /\ connectAccountId = NoId => ~payoutsReady

\* The day of onboarding does not move to another (webhooks.ts:128-136,
\* sellerPayouts.ts:191-192), unless two writes overlap.
OnboardedOnce == moved => overlapped

\* What holds of the account, for one run to check.
PayoutAccountInv == PayoutAccountTypeOK /\ OneAccount /\ ReadyAsSaid /\ OnboardedOnce
=============================================================================
