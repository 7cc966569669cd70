------------------------------- MODULE StepUp -------------------------------
(***************************************************************************)
(* One account's second factor (lib/adminAuth.ts, the first routes of      *)
(* routes/admin.ts, scripts/grant-admin.ts): setting an authenticator up,  *)
(* proving it, and exchanging its codes for sessions of the panel.         *)
(*                                                                         *)
(* A code belongs to a period of thirty seconds and is accepted one period *)
(* early or late.  A caller is one request, and its task is the statement  *)
(* it runs next.                                                           *)
(***************************************************************************)
EXTENDS RateLimiter

CONSTANTS
    Askers,         \* requests that may be under way together
    MaxSecrets,     \* secrets generated (bound)
    MaxPeriods      \* periods that pass (bound)

ASSUME StepUpAssumption == MaxSecrets \in Nat \ {0} /\ MaxPeriods \in Nat \ {0}

VARIABLES
    isAdmin,    \* role = ADMIN
    secret,     \* totpSecret
    confirmed,  \* totpConfirmedAt # null
    lastUsed,   \* totpLastUsedAt
    period,     \* now
    app,        \* the secret in the authenticator
    made,       \* secrets generated, each shown to somebody as a QR code
    asking,     \* asking[p]: what the request read and is about to do
    accepted,   \* history: codes accepted
    reused,     \* history: a code was accepted again
    crossed     \* history: a set-up or a revocation overlapped another request

adminVars == <<isAdmin, secret, confirmed, lastUsed, period, app, made,
               asking, accepted, reused, crossed>>
stepUpVars == <<adminVars, limiterVars>>

Secrets == 1..MaxSecrets
NoSecret == 0
NoCode == [secret |-> NoSecret, period |-> 0]
NotAsking == [task |-> "idle", code |-> NoCode, secret |-> NoSecret]
EPOCH_TOLERANCE == 1

Asks(p, task, code) ==
    /\ asking[p] = NotAsking
    /\ asking' = [asking EXCEPT ![p] =
           [task |-> task, code |-> code, secret |-> secret]]
Stops(p) == asking' = [asking EXCEPT ![p] = NotAsking]
Confirming == {p \in Askers : asking[p].task \in {"prove", "confirm"}}
SettingUp == {p \in Askers : asking[p].task = "store"}
CodeShown == [secret |-> app, period |-> period]

-----------------------------------------------------------------------------
(* POST /admin/totp/setup                                                  *)

\* The mistake is to start over for anybody with the password.
MaySetUpAgain == isAdmin
MaySetUp == isAdmin /\ ~confirmed

SetUp(p) ==
    /\ MaySetUp
    /\ Asks(p, "store", NoCode)
    /\ UNCHANGED <<isAdmin, secret, confirmed, lastUsed, period, app, made,
                   accepted, reused, crossed>>

StoreSecret(p) ==
    /\ asking[p].task = "store"
    /\ made < MaxSecrets
    /\ made' = made + 1
    /\ secret' = made + 1
    /\ crossed' = (crossed \/ Confirming # {})
    /\ Stops(p)
    /\ UNCHANGED <<isAdmin, confirmed, lastUsed, period, app, accepted, reused>>

\* A person has the app scan one of the QR codes.
Scan(s) ==
    /\ s <= made
    /\ app' = s
    /\ UNCHANGED <<isAdmin, secret, confirmed, lastUsed, period, made,
                   asking, accepted, reused, crossed>>

-----------------------------------------------------------------------------
(* verifyAndSpendTotp, for both routes                                     *)

\* The claim is one conditional statement; the mistake is to compare as the
\* tolerance does.
UnspentBefore(p) == lastUsed <= asking[p].code.period
Unspent(p) == lastUsed < asking[p].code.period

Valid(p) ==
    LET c == asking[p].code
    IN  /\ c.secret = asking[p].secret /\ c.secret # NoSecret
        /\ c.period <= period + EPOCH_TOLERANCE /\ period <= c.period + EPOCH_TOLERANCE

Spends(p) ==
    /\ Valid(p) /\ Unspent(p)
    /\ lastUsed' = asking[p].code.period
    /\ accepted' = accepted \cup {asking[p].code}
    /\ reused' = (reused \/ (~crossed /\ asking[p].code \in accepted))
FailsToSpend(p) == ~(Valid(p) /\ Unspent(p)) /\ UNCHANGED <<lastUsed, accepted, reused>>

-----------------------------------------------------------------------------
(* POST /admin/totp/confirm.  Its own limit fails open, and is left out.   *)

Confirm(p) ==
    /\ isAdmin /\ secret # NoSecret /\ ~confirmed
    /\ Asks(p, "prove", CodeShown)
    /\ UNCHANGED <<isAdmin, secret, confirmed, lastUsed, period, app, made,
                   accepted, reused, crossed>>

\* The mistake is to take any code for proof.
ProvenByAny(p) == lastUsed' = lastUsed /\ UNCHANGED <<accepted, reused>>
Proven(p) == Spends(p)

Prove(p) ==
    /\ asking[p].task = "prove"
    /\ \/ Proven(p) /\ asking' = [asking EXCEPT ![p].task = "confirm"]
       \/ FailsToSpend(p) /\ Stops(p)
    /\ UNCHANGED <<isAdmin, secret, confirmed, period, app, made, crossed>>

MarkConfirmed(p) ==
    /\ asking[p].task = "confirm"
    /\ confirmed' = TRUE
    /\ crossed' = (crossed \/ SettingUp # {})
    /\ Stops(p)
    /\ UNCHANGED <<isAdmin, secret, lastUsed, period, app, made, accepted, reused>>

-----------------------------------------------------------------------------
(* POST /admin/session                                                     *)

\* The limit comes first and fails closed.
OpenPanel(p) ==
    /\ asking[p] = NotAsking
    /\ \E allowed \in BOOLEAN :
           /\ Checks(TRUE, allowed)
           /\ IF allowed THEN Asks(p, "read", CodeShown) ELSE UNCHANGED asking
    /\ UNCHANGED <<isAdmin, secret, confirmed, lastUsed, period, app, made,
                   accepted, reused, crossed>>

ReadAccount(p) ==
    /\ asking[p].task = "read"
    /\ IF isAdmin /\ secret # NoSecret /\ confirmed
       THEN asking' = [asking EXCEPT ![p] = [@ EXCEPT !.task = "open", !.secret = secret]]
       ELSE Stops(p)
    /\ UNCHANGED <<isAdmin, secret, confirmed, lastUsed, period, app, made,
                   accepted, reused, crossed>>

Open(p) ==
    /\ asking[p].task = "open"
    /\ Spends(p) \/ FailsToSpend(p)
    /\ Stops(p)
    /\ UNCHANGED <<isAdmin, secret, confirmed, period, app, made, crossed>>

-----------------------------------------------------------------------------
(* npm run admin:grant, admin:revoke                                       *)

GrantAdmin ==
    /\ ~isAdmin
    /\ isAdmin' = TRUE
    /\ UNCHANGED <<secret, confirmed, lastUsed, period, app, made,
                   asking, accepted, reused, crossed>>

\* Revoking is the way out of a lost authenticator.
RevokeAdmin ==
    /\ isAdmin
    /\ isAdmin' = FALSE /\ secret' = NoSecret /\ confirmed' = FALSE /\ lastUsed' = 0
    /\ crossed' = (crossed \/ \E p \in Askers : asking[p] # NotAsking)
    /\ UNCHANGED <<asking, period, app, made, accepted, reused>>

NextPeriod ==
    /\ period < MaxPeriods
    /\ period' = period + 1
    /\ UNCHANGED <<isAdmin, secret, confirmed, lastUsed, app, made,
                   asking, accepted, reused, crossed>>

AskingDies(p) ==
    /\ asking[p] # NotAsking
    /\ Stops(p)
    /\ UNCHANGED <<isAdmin, secret, confirmed, lastUsed, period, app, made,
                   accepted, reused, crossed>>

StepUpInit ==
    /\ LimiterInit
    /\ isAdmin = TRUE /\ secret = NoSecret /\ confirmed = FALSE /\ lastUsed = 0
    /\ period = 1 /\ app = NoSecret /\ made = 0
    /\ asking = [p \in Askers |-> NotAsking]
    /\ accepted = {} /\ reused = FALSE /\ crossed = FALSE

StepUpNext ==
    \/ \E p \in Askers : OpenPanel(p)
    \/ /\ UNCHANGED limiterVars
       /\ \/ \E p \in Askers :
               \/ SetUp(p) \/ StoreSecret(p)
               \/ Confirm(p) \/ Prove(p) \/ MarkConfirmed(p)
               \/ ReadAccount(p) \/ Open(p) \/ AskingDies(p)
          \/ \E s \in Secrets : Scan(s)
          \/ GrantAdmin \/ RevokeAdmin \/ NextPeriod
    \/ WindowEnds /\ UNCHANGED adminVars

StepUpSpec == StepUpInit /\ [][StepUpNext]_stepUpVars

-----------------------------------------------------------------------------
AskTasks == {"idle", "store", "prove", "confirm", "read", "open"}
Codes == [secret : 0..MaxSecrets, period : 0..MaxPeriods]
Request == [task : AskTasks, code : Codes, secret : 0..MaxSecrets]

\* The account, the app and requests keep their shape.
StepUpTypeOK ==
    /\ isAdmin \in BOOLEAN /\ confirmed \in BOOLEAN /\ crossed \in BOOLEAN
    /\ secret \in 0..made /\ app \in 0..made /\ made \in 0..MaxSecrets
    /\ period \in 1..MaxPeriods /\ lastUsed \in 0..MaxPeriods
    /\ accepted \subseteq [secret : Secrets, period : 1..MaxPeriods]
    /\ asking \in [Askers -> Request]

\* However many requests carry a code, and whichever route they take, it is
\* accepted once (adminAuth.ts:189-197), unless the account was revoked while
\* one of them was under way.
CodesAreSingleUse == ~reused

\* An authenticator that is confirmed works: a code of the stored secret was
\* accepted.  A secret that is replaced while another is being confirmed, or
\* an account revoked meanwhile, is confirmed all the same.
ConfirmedWorks == confirmed /\ ~crossed => \E c \in accepted : c.secret = secret

\* What holds of the second factor and its limit.
StepUpInv == StepUpTypeOK /\ CodesAreSingleUse /\ ConfirmedWorks /\ LimitKept
=============================================================================
