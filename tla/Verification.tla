---------------------------- MODULE Verification ----------------------------
(***************************************************************************)
(* A seller's identity checks and the payout gate they open                *)
(* (lib/verification.ts, routes/sellerVerification.ts and handleIdentity   *)
(* of routes/webhooks.ts), and the notices of them that go through the     *)
(* outbox.                                                                 *)
(*                                                                         *)
(* An attempt is a row and a session at the provider, which refuses a      *)
(* document and may accept another one later.  A handler is one request:   *)
(* the seller's, the poll of the page they return to, or a webhook.  The   *)
(* stub's submission decides and applies like a poll that finds a          *)
(* decision.                                                               *)
(***************************************************************************)
EXTENDS Outbox

CONSTANTS
    MaxAttempts,    \* how many attempts are made (bound)
    Handlers

ASSUME VerificationAssumption == MaxAttempts \in Nat

VARIABLES
    profile,    \* kycStatus and payoutsEnabled of the seller's profile
    attempt,    \* attempt[a]: the status of the row of "kyc_attempts"
    session,    \* session[a]: where it stands at the provider
    webhooks,   \* events the provider delivers until one is acknowledged
    handler,    \* handler[h]: what the request read and is about to do
    notice,     \* notice[e]: what event e of the outbox says
    crossed,    \* history: attempts written after they had moved since the read
    closed,     \* history: attempts closed as dead at the provider
    retried,    \* history: sessions verified after a refusal
    untold      \* history: attempts whose notice was lost

verificationRows == <<profile, attempt, session, webhooks, notice>>
verificationVars == <<verificationRows, handler, crossed, closed, retried, untold>>
vars == <<outboxVars, verificationVars>>

Attempts == 1..MaxAttempts      \* in the order of createdAt
NoAttempt == 0

VerificationStatus == {"UNSTARTED", "PENDING", "VERIFIED", "REJECTED"}
\* "open" is requires_input with no last_error, "rejected" with one.
SessionState == {"none", "open", "rejected", "verified", "cancelled"}
Verdict == [verified |-> "VERIFIED", rejected |-> "REJECTED"]
Tasks == {"look", "close", "create", "decide", "cancel", "tell", "commit"}
NoNotice == [attempt |-> NoAttempt, says |-> "UNSTARTED"]
Idle == [task |-> "idle", attempt |-> NoAttempt, state |-> "none",
         saw |-> "UNSTARTED", hook |-> FALSE, opened |-> {}]

Of(h) == handler[h].attempt
Doing(h, task) == handler[h].task = task
Does(h, task, a, state, hook) ==
    /\ handler[h] = Idle
    /\ handler' = [handler EXCEPT ![h] =
           [task |-> task, attempt |-> a, state |-> state, hook |-> hook,
            saw |-> IF a = NoAttempt THEN "UNSTARTED" ELSE attempt[a], opened |-> {}]]
Goes(h, task, a) ==
    handler' = [handler EXCEPT ![h].task = task, ![h].attempt = a,
                               ![h].saw = IF a = NoAttempt THEN @ ELSE attempt[a]]
Rests(h) == handler' = [handler EXCEPT ![h] = Idle]

\* The updates of an attempt have no condition on what was read.
Writes(h, status) ==
    /\ attempt' = [attempt EXCEPT ![Of(h)] = status]
    /\ crossed' = IF attempt[Of(h)] = handler[h].saw THEN crossed ELSE crossed \cup {Of(h)}

-----------------------------------------------------------------------------
(* POST /seller/verification                                               *)

Unmade == {a \in Attempts : attempt[a] = "UNSTARTED"}
Pending == {a \in Attempts : attempt[a] = "PENDING"}

Start(h) ==
    /\ profile.kyc # "VERIFIED"
    /\ Unmade # {}
    /\ Does(h, "look", NoAttempt, "none", FALSE)
    /\ UNCHANGED <<outboxVars, verificationRows, crossed, closed, retried,
                   untold>>

Newest == CHOOSE a \in Pending : \A b \in Pending : b <= a
Resumable(a) == session[a] \in {"open", "rejected"}

\* An attempt under way is resumed, and the request is over; one that cannot
\* be resumed is to be closed.
Look(h) ==
    /\ Doing(h, "look")
    /\ IF Pending = {} THEN Goes(h, "create", NoAttempt)
       ELSE IF Resumable(Newest) THEN Rests(h) ELSE Goes(h, "close", Newest)
    /\ UNCHANGED <<outboxVars, verificationRows, crossed, closed, retried,
                   untold>>

\* A session that cannot be read is taken for one that cannot be resumed.
LookFails(h) ==
    /\ Doing(h, "look")
    /\ Pending # {}
    /\ Fails
    /\ Goes(h, "close", Newest)
    /\ UNCHANGED <<outbox, written, datings, relay, mainTopic, overlapped, late,
                   verificationRows, crossed, closed, retried, untold>>

Close(h) ==
    /\ Doing(h, "close")
    /\ Writes(h, "REJECTED")
    /\ closed' = closed \cup {Of(h)}
    /\ handler' = [handler EXCEPT ![h] = [Idle EXCEPT !.task = "create"]]
    /\ UNCHANGED <<outboxVars, profile, session, webhooks, notice, retried, untold>>

\* The session comes first, and then its row and the profile's status.
Create(h) ==
    /\ Doing(h, "create")
    /\ IF Unmade = {}
       THEN UNCHANGED <<attempt, session, profile>>
       ELSE LET a == CHOOSE n \in Unmade : \A m \in Unmade : n <= m
            IN  /\ attempt' = [attempt EXCEPT ![a] = "PENDING"]
                /\ session' = [session EXCEPT ![a] = "open"]
                /\ profile' = [profile EXCEPT !.kyc = "PENDING"]
    /\ Rests(h)
    /\ UNCHANGED <<outboxVars, webhooks, notice, crossed, closed, retried, untold>>

-----------------------------------------------------------------------------
(* The provider                                                            *)

Concludes(a, state) ==
    /\ \/ session[a] = "open" /\ state \in {"verified", "rejected", "cancelled"}
       \/ session[a] = "rejected" /\ state = "verified"
    /\ session' = [session EXCEPT ![a] = state]
    /\ webhooks' = webhooks \cup {[attempt |-> a, state |-> state]}
    /\ retried' = IF session[a] = "rejected" THEN retried \cup {a} ELSE retried
    /\ UNCHANGED <<outboxVars, profile, attempt, handler, notice, crossed, closed, untold>>

-----------------------------------------------------------------------------
(* handleIdentity, and GET /seller/verification/:sessionId/status          *)

\* The mistake is to decide an attempt again.
UndecidedOrNot(a) == attempt[a] # "UNSTARTED"
Undecided(a) == attempt[a] = "PENDING"

\* The event stays at the provider until it is answered; the mistake is to
\* answer before it is applied.
LeftOnReceipt(event) == webhooks \ {event}
LeftWhileApplied(event) == webhooks

Deliver(h, event) ==
    /\ handler[h] = Idle
    /\ event \in webhooks
    /\ IF Undecided(event.attempt)
       THEN /\ Does(h, IF event.state = "cancelled" THEN "cancel" ELSE "decide",
                    event.attempt, event.state, TRUE)
            /\ webhooks' = LeftWhileApplied(event)
       ELSE webhooks' = webhooks \ {event} /\ UNCHANGED handler
    /\ UNCHANGED <<outboxVars, profile, attempt, session, notice, crossed, closed,
                   retried, untold>>

\* What interpret takes for a decision; the mistake is to take a session
\* nobody has begun for a refused one.
DecidedEarly == [open |-> "rejected", verified |-> "verified", rejected |-> "rejected"]
Decided == [verified |-> "verified", rejected |-> "rejected"]

Poll(h, a) ==
    /\ session[a] \in DOMAIN Decided
    /\ Undecided(a)
    /\ Does(h, "decide", a, Decided[session[a]], FALSE)
    /\ UNCHANGED <<outboxVars, verificationRows, crossed, closed, retried,
                   untold>>

Answered(h) ==
    IF handler[h].hook
    THEN webhooks \ {[attempt |-> Of(h), state |-> handler[h].state]} ELSE webhooks

-----------------------------------------------------------------------------
(* applyDecision and cancelAttempt, after their read                       *)

\* The mistake is to open the gate whatever was decided.
OpensAnyway(verdict) == TRUE
Opens(verdict) == verdict = "VERIFIED"

Decide(h) ==
    LET verdict == Verdict[handler[h].state]
    IN  /\ Doing(h, "decide")
        /\ Writes(h, verdict)
        /\ profile' = [kyc |-> verdict, payoutsEnabled |-> Opens(verdict)]
        /\ handler' = [handler EXCEPT ![h].task = "tell"]
        /\ UNCHANGED <<outboxVars, session, webhooks, notice, closed, retried, untold>>

\* The attempt is over and the profile starts again; the mistake is to put
\* both back.
StartsAgain == "UNSTARTED"
Cancelled == "REJECTED"

\* The gate stays as it is.
Cancel(h) ==
    /\ Doing(h, "cancel")
    /\ Writes(h, Cancelled)
    /\ profile' = [profile EXCEPT !.kyc = "UNSTARTED"]
    /\ webhooks' = Answered(h)
    /\ Rests(h)
    /\ UNCHANGED <<outboxVars, session, notice, closed, retried, untold>>

\* The notice is of either decision; the mistake is to keep quiet about a
\* refusal.
TellsOfSuccess(verdict) == verdict = "VERIFIED"
TellsOf(verdict) == verdict \in {"VERIFIED", "REJECTED"}

\* notify writes the notice and its event after the decision, in a transaction
\* of their own.  Beyond Events there are no notices (bound).
Unwritten == {e \in Events : outbox[e] = "unwritten"}

Tell(h) ==
    LET verdict == Verdict[handler[h].state]
    IN  /\ Doing(h, "tell")
        /\ IF TellsOf(verdict) /\ Unwritten # {}
           THEN LET e == CHOOSE x \in Unwritten : TRUE
                IN  /\ BeginEvent(e)
                    /\ notice' = [notice EXCEPT ![e] = [attempt |-> Of(h), says |-> verdict]]
                    /\ handler' = [handler EXCEPT ![h].task = "commit", ![h].opened = {e}]
                    /\ UNCHANGED <<webhooks, untold>>
           ELSE /\ untold' = IF Unwritten = {} THEN untold \cup {Of(h)} ELSE untold
                /\ webhooks' = Answered(h)
                /\ Rests(h)
                /\ UNCHANGED <<outboxVars, notice>>
        /\ UNCHANGED <<profile, attempt, session, crossed, closed, retried>>

CommitNotice(h) ==
    /\ Doing(h, "commit")
    /\ \E e \in handler[h].opened : WriteEvent(e)
    /\ webhooks' = Answered(h)
    /\ Rests(h)
    /\ UNCHANGED <<profile, attempt, session, notice, crossed, closed, retried, untold>>

\* A request dies, or a statement of it throws; notify swallows its error, and
\* what its transaction wrote is gone.
Dies(h) ==
    /\ handler[h] # Idle
    /\ Fails
    /\ Rests(h)
    /\ RollsBack(handler[h].opened)
    /\ notice' = [e \in Events |-> IF e \in handler[h].opened THEN NoNotice ELSE notice[e]]
    /\ IF handler[h].task \in {"tell", "commit"}
       THEN untold' = untold \cup {Of(h)} /\ webhooks' \in {webhooks, Answered(h)}
       ELSE UNCHANGED <<untold, webhooks>>
    /\ UNCHANGED <<written, now, relay, mainTopic, overlapped, late, profile, attempt,
                   session, crossed, closed, retried>>

-----------------------------------------------------------------------------
Init ==
    /\ OutboxInit
    /\ profile = [kyc |-> "UNSTARTED", payoutsEnabled |-> FALSE]
    /\ attempt = [a \in Attempts |-> "UNSTARTED"]
    /\ session = [a \in Attempts |-> "none"]
    /\ webhooks = {}
    /\ handler = [h \in Handlers |-> Idle]
    /\ notice = [e \in Events |-> NoNotice]
    /\ crossed = {} /\ closed = {} /\ retried = {} /\ untold = {}

GoesOn(h) ==
    \/ Look(h) \/ Close(h) \/ Create(h) \/ Decide(h) \/ Cancel(h)
    \/ Tell(h) \/ CommitNotice(h)
Delivers(a) == \E h \in Handlers, state \in SessionState :
                   Deliver(h, [attempt |-> a, state |-> state])

Next ==
    \/ \E h \in Handlers : Start(h) \/ GoesOn(h) \/ LookFails(h) \/ Dies(h)
    \/ \E h \in Handlers, a \in Attempts : Poll(h, a)
    \/ \E a \in Attempts : Delivers(a)
    \/ \E a \in Attempts, state \in SessionState : Concludes(a, state)
    \/ Publishing /\ UNCHANGED verificationVars

\* The provider delivers again until it is answered, a request goes on or
\* dies, and relays poll; nobody has to verify anything.
Fairness ==
    /\ \A h \in Handlers : WF_vars(GoesOn(h))
    /\ \A a \in Attempts : SF_vars(Delivers(a))
    /\ OutboxFairness

Spec == Init /\ [][Next]_vars /\ Fairness

-----------------------------------------------------------------------------
\* Rows, requests and notices keep their shape; an attempt that has a session
\* never looks like one that was not begun.
VerificationTypeOK ==
    /\ profile \in [kyc : VerificationStatus, payoutsEnabled : BOOLEAN]
    /\ attempt \in [Attempts -> VerificationStatus]
    /\ session \in [Attempts -> SessionState]
    /\ \A a \in Attempts : attempt[a] = "UNSTARTED" <=> session[a] = "none"
    /\ webhooks \subseteq [attempt : Attempts, state : SessionState]
    /\ \A h \in Handlers : handler[h] = Idle \/ handler[h].task \in Tasks
    /\ \A e \in Events : notice[e] = NoNotice <=> outbox[e] = "unwritten"
    /\ crossed \cup closed \cup retried \cup untold \subseteq Attempts

\* Payouts are enabled only beside a verified attempt ("the two writes must
\* not be able to come apart", verification.ts:12), unless an attempt was
\* overwritten by a request that had read it before.
GateHasDecision ==
    profile.payoutsEnabled => crossed # {} \/ \E a \in Attempts : attempt[a] = "VERIFIED"

\* An attempt ends as the provider decided, whichever of webhook and poll
\* applies it and whatever overwrites it, unless it was closed as dead or
\* refused before it was verified.
RecordedAsDecided ==
    \A a \in Attempts :
        /\ attempt[a] = "VERIFIED" => session[a] = "verified"
        /\ attempt[a] = "REJECTED" /\ session[a] = "verified" =>
               a \in closed \cup retried

\* The seller is told of an attempt once, and what its row says, however often
\* the decision arrives (verification.ts:17).
ToldAsRecorded ==
    \A e \in Events :
        LET a == notice[e].attempt
        IN  a \in Attempts \ crossed =>
                /\ attempt[a] = notice[e].says
                /\ \A f \in Events : notice[f].attempt = a => f = e

\* What the provider decided does not stay pending (sellerVerification.ts:262).
DecisionIsRecorded ==
    \A a \in Attempts : session[a] \in DOMAIN Verdict ~> attempt[a] # "PENDING"

\* A decision that was applied reaches the seller's topic, through whichever
\* relay, unless its notice was lost after the decision.
DecisionReachesTopic ==
    \A a \in Attempts :
        (\E h \in Handlers : Doing(h, "tell") /\ Of(h) = a) ~>
            a \in untold \/ \E e \in OnTopic : notice[e].attempt = a

\* What holds of the check, and of the outbox beside it.
VerificationInv ==
    /\ OutboxTypeOK /\ PublishedReachedTopic
    /\ VerificationTypeOK /\ GateHasDecision /\ RecordedAsDecided

\* What the provider decided does not get lost on the way to the row, or from
\* there to the seller.
DecisionsArrive == DecisionIsRecorded /\ DecisionReachesTopic
=============================================================================
