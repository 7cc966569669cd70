------------------------------ MODULE Devices -------------------------------
(***************************************************************************)
(* Browsers that take push notifications (lib/push.ts, the push routes of  *)
(* routes/notifications.ts and what lib/consumers/push.ts makes of a       *)
(* send).  A subscription is a row for one browser's endpoint; the browser *)
(* goes from one account to another, and its push service ends an endpoint *)
(* for good.                                                               *)
(***************************************************************************)
EXTENDS Naturals, FiniteSets

CONSTANTS
    Accounts,
    NoAccount,
    Endpoints,
    Pushers,        \* sends of a notification at the same time
    MaxRows         \* subscriptions made (bound)

ASSUME DevicesAssumption == MaxRows \in Nat \ {0} /\ NoAccount \notin Accounts

VARIABLES
    subscription,   \* rows of "push_subscriptions": [id, endpoint, of]
    rows,       \* how many were made
    holder,     \* holder[e]: whose browser it is, as subscribed last
    gone,       \* endpoints their push service has ended
    pusher,     \* pusher[p]: the send, and what it has found
    wronged,    \* history: a browser was told of an account it had left
    lost        \* history: the row of a working browser was removed

devicesVars == <<subscription, rows, holder, gone, pusher, wronged, lost>>

NotSending == [task |-> "idle"]
RowsOf(u) == {r \in subscription : r.of = u}
RowsFor(e) == {r \in subscription : r.endpoint = e}
PushAnswers == {"told", "dead", "failed"}

\* Sends under way are marked with what changed hands since they began.
ChangesHands(e, u) ==
    /\ holder' = [holder EXCEPT ![e] = u]
    /\ pusher' = IF holder[e] = u THEN pusher
                 ELSE [p \in Pushers |->
                          IF pusher[p] = NotSending THEN NotSending
                          ELSE [pusher[p] EXCEPT !.moved = @ \cup {e}]]

-----------------------------------------------------------------------------
(* saveSubscription and removeSubscription                                 *)

\* The endpoint is the key; the mistake is to make it the account's too.
TakenOverOwn(u, e) == {r \in RowsFor(e) : r.of = u}
TakenOver(u, e) == RowsFor(e)

\* An upsert: the row keeps its id and changes hands.
Subscribe(u, e) ==
    LET old == TakenOver(u, e)
        id == IF old = {} THEN rows + 1 ELSE (CHOOSE r \in old : TRUE).id
    IN  /\ e \notin gone
        /\ id <= MaxRows
        /\ rows' = IF id > rows THEN id ELSE rows
        /\ subscription' = (subscription \ old) \cup {[id |-> id, endpoint |-> e, of |-> u]}
        /\ ChangesHands(e, u)
        /\ UNCHANGED <<gone, wronged, lost>>

\* Scoped to the account: of what others subscribe since, it takes nothing.
Unsubscribe(u, e) ==
    /\ subscription' = {r \in subscription : ~(r.endpoint = e /\ r.of = u)}
    /\ ChangesHands(e, IF holder[e] = u THEN NoAccount ELSE holder[e])
    /\ UNCHANGED <<rows, gone, wronged, lost>>

\* Site data cleared or permission revoked: 404 or 410 from now on.
Uninstalled(e) ==
    /\ gone' = gone \cup {e}
    /\ holder' = [holder EXCEPT ![e] = NoAccount]
    /\ UNCHANGED <<subscription, rows, pusher, wronged, lost>>

-----------------------------------------------------------------------------
(* sendPushToUser                                                          *)

StartSend(p, u) ==
    /\ pusher[p] = NotSending
    /\ pusher' = [pusher EXCEPT ![p] = [task |-> "send", of |-> u, to |-> RowsOf(u),
           told |-> {}, dead |-> {}, failed |-> {}, moved |-> {}]]
    /\ UNCHANGED <<subscription, rows, holder, gone, wronged, lost>>

\* The browsers are asked all at once, and answer one by one.
Tells(p, r, answer) ==
    /\ pusher[p].task = "send" /\ r \in pusher[p].to
    /\ (r.endpoint \in gone) = (answer = "dead")
    /\ pusher' = [pusher EXCEPT ![p] = [pusher[p] EXCEPT
           !.to = @ \ {r},
           !.told = IF answer = "told" THEN @ \cup {r} ELSE @,
           !.dead = IF answer = "dead" THEN @ \cup {r} ELSE @,
           !.failed = IF answer = "failed" THEN @ \cup {r} ELSE @]]
    /\ wronged' = (wronged \/ (answer = "told" /\ r.endpoint \notin pusher[p].moved
                               /\ holder[r.endpoint] # pusher[p].of))
    /\ UNCHANGED <<subscription, rows, holder, gone, lost>>

\* Only an endpoint that is gone is removed; the mistake is to remove each
\* that did not answer.
RemovedUntold(send) == send.dead \cup send.failed
Removed(send) == send.dead

DropDead(p) ==
    LET ids == {r.id : r \in Removed(pusher[p])}
    IN  /\ pusher[p].task = "send" /\ pusher[p].to = {}
        /\ subscription' = {r \in subscription : r.id \notin ids}
        /\ lost' = (lost \/ \E r \in subscription : r.id \in ids /\ r.endpoint \notin gone)
        /\ pusher' = [pusher EXCEPT ![p].task = "judge"]
        /\ UNCHANGED <<rows, holder, gone, wronged>>

\* "failed" is for the retry ladder; "nobody" is an end.  The mistake is to
\* ask whether any browser is left.
VerdictOfMistake(send) == IF send.told # {} THEN "sent" ELSE "nobody"
Verdict(send) == IF send.told # {} THEN "sent"
                 ELSE IF send.failed # {} THEN "failed" ELSE "nobody"

Judge(p) ==
    /\ pusher[p].task = "judge"
    /\ pusher' = [pusher EXCEPT ![p].task = Verdict(pusher[p])]
    /\ UNCHANGED <<subscription, rows, holder, gone, wronged, lost>>

Leaves(p) ==
    /\ pusher[p].task \in {"sent", "failed", "nobody"}
    /\ pusher' = [pusher EXCEPT ![p] = NotSending]
    /\ UNCHANGED <<subscription, rows, holder, gone, wronged, lost>>

\* The worker dies: what it had found is lost, and the ladder sends again.
PusherDies(p) ==
    /\ pusher[p] # NotSending
    /\ pusher' = [pusher EXCEPT ![p] = NotSending]
    /\ UNCHANGED <<subscription, rows, holder, gone, wronged, lost>>

-----------------------------------------------------------------------------
DevicesInit ==
    /\ subscription = {} /\ rows = 0
    /\ holder = [e \in Endpoints |-> NoAccount]
    /\ gone = {}
    /\ pusher = [p \in Pushers |-> NotSending]
    /\ wronged = FALSE /\ lost = FALSE

DevicesNext ==
    \/ \E u \in Accounts, e \in Endpoints : Subscribe(u, e) \/ Unsubscribe(u, e)
    \/ \E e \in Endpoints : Uninstalled(e)
    \/ \E p \in Pushers :
        \/ \E u \in Accounts : StartSend(p, u)
        \/ \E r \in subscription \cup (IF pusher[p] = NotSending THEN {} ELSE pusher[p].to), a \in PushAnswers :
               Tells(p, r, a)
        \/ DropDead(p) \/ Judge(p) \/ Leaves(p) \/ PusherDies(p)

DevicesSpec == DevicesInit /\ [][DevicesNext]_devicesVars

-----------------------------------------------------------------------------
\* Rows and sends keep their shape.
DevicesTypeOK ==
    /\ subscription \subseteq [id : 1..MaxRows, endpoint : Endpoints, of : Accounts]
    /\ rows \in 0..MaxRows
    /\ holder \in [Endpoints -> Accounts \cup {NoAccount}]
    /\ gone \subseteq Endpoints

\* A browser belongs to the account that subscribed it last, and what began to
\* be sent after it changed hands never reaches it for another
\* (push.ts:184-190).
TellsItsHolder ==
    /\ ~wronged
    /\ \A e \in Endpoints \ gone : {r.of : r \in RowsFor(e)} = {holder[e]} \ {NoAccount}

\* A browser that works keeps its subscription, whatever its push service
\* answers for a while (push.ts:100-104).
WorkingKept == ~lost

\* That nobody can be told is settled only if each browser that was read is
\* gone: an error is tried again.
NobodyMeansGone ==
    \A p \in Pushers : pusher[p].task = "nobody" =>
        /\ pusher[p].told = {}
        /\ \A r \in pusher[p].failed \cup pusher[p].dead : r.endpoint \in gone

\* What holds of browsers.
DevicesInv == DevicesTypeOK /\ TellsItsHolder /\ WorkingKept /\ NobodyMeansGone
=============================================================================
