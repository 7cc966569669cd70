------------------------------ MODULE Delivery ------------------------------
(***************************************************************************)
(* One channel's delivery of the events on the topic: its consumer group   *)
(* (worker.ts, lib/retry.ts), the ledger row that makes a redelivery       *)
(* harmless (lib/deliveryLedger.ts), the consumer that talks to the        *)
(* provider (lib/consumers/), and the two sweepers that finish what a      *)
(* worker left (lib/stalePending.ts, lib/deferredDeliveries.ts).           *)
(*                                                                         *)
(* Topic 0 is the main topic; topic t in 1..Rungs is rung t of the retry   *)
(* ladder, whose delay is the time a message waits before it is taken.     *)
(* The hour is even by day and odd in the quiet hours of a night.          *)
(***************************************************************************)
EXTENDS Topic

CONSTANTS
    Workers,    \* members of the consumer group
    Sweepers,   \* passes of the sweepers, in any API process
    Rungs,      \* rungs of the ladder (three in lib/kafka.ts)
    Channels,   \* the channels the group may serve
    MaxHour,    \* the last half-day of the run
    MaxFailures,\* crashes, rebalances and lost answers (bound)
    NoEvent     \* an idle actor

ASSUME DeliveryAssumption ==
    /\ Rungs \in Nat
    /\ MaxHour \in Nat \ {0}
    /\ IsFiniteSet(Workers) /\ IsFiniteSet(Sweepers)
    /\ MaxFailures \in Nat
    /\ Channels \subseteq {"EMAIL", "PUSH", "SMS"}
    /\ NoEvent \notin Events

VARIABLES
    channel,    \* the group's channel
    ladder,     \* ladder[t]: the user's partition of rung t
    dlq,        \* events on the dead-letter topic
    owner,      \* owner[t]: the member the partition is assigned to
    offset,     \* offset[t]: the group's committed position
    row,        \* row[e]: the row of "notification_deliveries"
    old,        \* events whose row is past the staleness threshold
    hour,       \* the time of day
    actor,      \* actor[a]: what a worker or a sweeper is doing
    failures,   \* failures so far
    accepted,   \* history: messages of e the provider has accepted
    doubts,     \* history: attempts at e whose outcome nobody knew
    dropped     \* history: events whose retry was lost

deliveryVars == <<channel, ladder, dlq, owner, offset, row, old, hour,
                  actor, failures, accepted, doubts, dropped>>
vars == <<topicVars, deliveryVars>>

Fails == failures < MaxFailures /\ failures' = failures + 1

Actors == Workers \cup Sweepers
Topics == 0..Rungs

\* REJECTED stands for FAILED with a "permanent:" error.
Status == {"NONE", "PENDING", "SENT", "FAILED", "REJECTED", "SUPPRESSED", "DEFERRED"}
Answers == {"none", "accepted", "transient", "permanent", "nothing", "deferred"}
Stages == {"idle", "read", "claimed", "answered", "republish", "done", "expiring"}
Doing(stage, via, e, t, i) ==
    [stage |-> stage, via |-> via, event |-> e, topic |-> t, at |-> i,
     fresh |-> FALSE, answer |-> "none", until |-> 0]
Idle == Doing("idle", "none", NoEvent, 0, 0)

Log(t) == IF t = 0 THEN mainTopic ELSE ladder[t]
Becomes(a, f, v) == actor' = [actor EXCEPT ![a][f] = v]
At(a, stage) == actor[a].stage = stage
Event(a) == actor[a].event
Settled(e, status) == row' = [row EXCEPT ![e].status = status]
Doubted(e) == doubts' = [doubts EXCEPT ![e] = @ + 1]

-----------------------------------------------------------------------------
(* The consumer: read, claim, send, mark, pass on, commit.                 *)

Take(w) ==
    \E t \in Topics :
        /\ At(w, "idle")
        /\ owner[t] = w
        /\ offset[t] < Len(Log(t))
        /\ actor' = [actor EXCEPT ![w] =
               Doing("read", "topic", Log(t)[offset[t] + 1], t, offset[t] + 1)]
        /\ UNCHANGED <<topicVars, failures, channel, ladder, dlq, owner,
                       offset, row, old, hour, accepted, doubts, dropped>>

\* Only a message off the ladder may take its own failed row over; the
\* mistakes are to forget to say so, and to take any row over.
ReclaimsNever(a) == FALSE
Reclaims(a) == actor[a].topic # 0
ReclaimableAny == {"PENDING", "SENT", "FAILED", "REJECTED"}
Reclaimable == {"FAILED", "REJECTED"}

\* claim: the preference is read, and then the insert, or the conditional
\* update, is the claim.  A retry its recipient no longer wants ends here.
Claim(w) ==
    LET e == Event(w)
        new == row[e].status = "NONE"
    IN  /\ At(w, "read")
        /\ \E wanted \in BOOLEAN :
            LET mine == wanted /\ (new \/ (Reclaims(w) /\ row[e].status \in Reclaimable))
            IN  /\ row' = [row EXCEPT ![e].status =
                       CASE mine -> "PENDING" [] new /\ ~wanted -> "SUPPRESSED" [] OTHER -> @]
                /\ actor' = [actor EXCEPT ![w].stage = IF mine THEN "claimed" ELSE "done",
                                          ![w].fresh = mine /\ new]
                /\ dropped' = IF row[e].status = "FAILED" /\ ~wanted
                              THEN dropped \cup {e} ELSE dropped
        /\ UNCHANGED <<topicVars, failures, channel, ladder, dlq, owner,
                       offset, old, hour, accepted, doubts>>

\* A claim the database could not answer is handled like a duplicate.
ClaimFails(w) ==
    /\ At(w, "read")
    /\ Fails
    /\ Becomes(w, "stage", "done")
    /\ dropped' = IF row[Event(w)].status \in {"NONE", "FAILED"}
                  THEN dropped \cup {Event(w)} ELSE dropped
    /\ UNCHANGED <<topicVars, channel, ladder, dlq, owner, offset, row, old,
                   hour, accepted, doubts>>

Quiet == hour % 2 = 1

\* What the channel may find when it tries: only SMS waits for the morning,
\* e-mail always has an address to try, and the stale sweeper fails an SMS
\* without asking the provider and takes every error for a permanent one.
Finds(a) ==
    IF actor[a].via = "stale"
    THEN IF channel = "SMS" THEN {"permanent"} ELSE {"accepted", "permanent"}
    ELSE {"permanent"}
         \cup (IF channel = "EMAIL" THEN {} ELSE {"nothing"})
         \cup (IF channel = "SMS" /\ Quiet THEN {"deferred"} ELSE {"accepted", "transient"})

Send(a) ==
    /\ At(a, "claimed")
    /\ \E x \in Finds(a) :
        /\ actor' = [actor EXCEPT ![a].stage = "answered", ![a].answer = x,
                                  ![a].until = IF x = "deferred" THEN hour + 1 ELSE 0]
        /\ accepted' = IF x = "accepted" THEN [accepted EXCEPT ![Event(a)] = @ + 1]
                       ELSE accepted
    /\ UNCHANGED <<topicVars, failures, channel, ladder, dlq, owner, offset,
                   row, old, hour, doubts, dropped>>

ErrorOf(a) == IF actor[a].via = "stale" THEN "permanent" ELSE "transient"

\* The provider accepts and the caller sees an error.
AnswerLost(a) ==
    /\ At(a, "claimed")
    /\ "accepted" \in Finds(a)
    /\ Fails
    /\ actor' = [actor EXCEPT ![a].stage = "answered", ![a].answer = ErrorOf(a)]
    /\ accepted' = [accepted EXCEPT ![Event(a)] = @ + 1]
    /\ Doubted(Event(a))
    /\ UNCHANGED <<topicVars, channel, ladder, dlq, owner, offset, row, old,
                   hour, dropped>>

\* markSent is inside the try: when it fails, the attempt counts as failed.
MarkSentFails(a) ==
    /\ At(a, "answered")
    /\ actor[a].answer = "accepted"
    /\ Fails
    /\ Becomes(a, "answer", ErrorOf(a))
    /\ Doubted(Event(a))
    /\ UNCHANGED <<topicVars, channel, ladder, dlq, owner, offset, row, old,
                   hour, accepted, dropped>>

StatusFor == [accepted |-> "SENT", transient |-> "FAILED", permanent |-> "REJECTED",
              nothing |-> "SUPPRESSED", deferred |-> "DEFERRED"]

\* markSent, markFailed, markSuppressed, markDeferred: none has a condition.
\* A transient failure goes on up the ladder if a worker met it; a deferred
\* delivery that fails so is retried by nobody.
Mark(a) ==
    LET e == Event(a)
        x == actor[a].answer
        worker == actor[a].via = "topic"
    IN  /\ At(a, "answered")
        /\ row' = [row EXCEPT ![e] = [status |-> StatusFor[x], notBefore |-> actor[a].until]]
        /\ actor' = [actor EXCEPT ![a] =
               IF worker
               THEN [@ EXCEPT !.stage = IF x = "transient" THEN "republish" ELSE "done",
                              !.answer = "none", !.until = 0, !.fresh = FALSE]
               ELSE Idle]
        /\ dropped' = IF x = "transient" /\ ~worker THEN dropped \cup {e} ELSE dropped
        /\ UNCHANGED <<topicVars, failures, channel, ladder, dlq, owner,
                       offset, old, hour, accepted, doubts>>

\* retryDestination: the next rung, or the dead letters after the last one.
PassedOn(w) ==
    LET t == actor[w].topic + 1
    IN  IF t <= Rungs
        THEN /\ ladder' = [ladder EXCEPT ![t] = Append(@, Event(w))]
             /\ UNCHANGED dlq
        ELSE /\ dlq' = dlq \cup {Event(w)}
             /\ UNCHANGED ladder

Republish(w) ==
    /\ At(w, "republish")
    /\ PassedOn(w)
    /\ Becomes(w, "stage", "done")
    /\ UNCHANGED <<topicVars, failures, channel, owner, offset, row, old,
                   hour, accepted, doubts, dropped>>

\* The retry is on its rung and the worker sees an error, and throws.
RepublishUnanswered(w) ==
    /\ At(w, "republish")
    /\ Fails
    /\ PassedOn(w)
    /\ actor' = [actor EXCEPT ![w] = Idle]
    /\ UNCHANGED <<topicVars, channel, owner, offset, row, old, hour,
                   accepted, doubts, dropped>>

\* Kafka is told the next position to read, offset + 1; the mistake is to
\* add one twice.  The commit of a member that has lost the partition is
\* refused.
PositionAfterTwice(w) == actor[w].at + 1
PositionAfter(w) == actor[w].at

CommitOffset(w) ==
    LET t == actor[w].topic
    IN  /\ At(w, "done")
        /\ offset' = IF owner[t] = w THEN [offset EXCEPT ![t] = PositionAfter(w)] ELSE offset
        /\ actor' = [actor EXCEPT ![w] = Idle]
        /\ UNCHANGED <<topicVars, failures, channel, ladder, dlq, owner, row,
                       old, hour, accepted, doubts, dropped>>

-----------------------------------------------------------------------------
(* The sweepers.  Both re-check their condition in the claim.              *)

\* The mistake is to leave an SMS alone because it must not be resent.
StaleButNotSms(e) == channel # "SMS" /\ row[e].status = "PENDING" /\ e \in old
Stale(e) == row[e].status = "PENDING" /\ e \in old
Due(e) == row[e].status = "DEFERRED" /\ row[e].notBefore <= hour
TooLate(e) == row[e].notBefore < hour

Starts(s, e, stage, via) ==
    /\ At(s, "idle")
    /\ actor' = [actor EXCEPT ![s] = Doing(stage, via, e, 0, 0)]

\* claimStale: nothing it tests is changed by it.
StaleClaim(s) ==
    \E e \in Events :
        /\ Stale(e)
        /\ Starts(s, e, "claimed", "stale")
        /\ Doubted(e)
        /\ UNCHANGED <<topicVars, failures, channel, ladder, dlq, owner,
                       offset, row, old, hour, accepted, dropped>>

\* redeliverDeferred: DEFERRED becomes PENDING, which is the claim.
Redeliver(s) ==
    \E e \in Events :
        /\ Due(e)
        /\ Starts(s, e, "claimed", "parked")
        /\ Settled(e, "PENDING")
        /\ UNCHANGED <<topicVars, failures, channel, ladder, dlq, owner,
                       offset, old, hour, accepted, doubts, dropped>>

\* A row read as a day old is suppressed whatever became of it since.
FindExpired(s) ==
    \E e \in Events :
        /\ Due(e)
        /\ TooLate(e)
        /\ Starts(s, e, "expiring", "parked")
        /\ UNCHANGED <<topicVars, failures, channel, ladder, dlq, owner,
                       offset, row, old, hour, accepted, doubts, dropped>>

Expire(s) ==
    /\ At(s, "expiring")
    /\ row' = [row EXCEPT ![Event(s)] = [status |-> "SUPPRESSED", notBefore |-> 0]]
    /\ actor' = [actor EXCEPT ![s] = Idle]
    /\ UNCHANGED <<topicVars, failures, channel, ladder, dlq, owner, offset,
                   old, hour, accepted, doubts, dropped>>

-----------------------------------------------------------------------------
(* What happens to them.                                                   *)

\* Another member has let message i go as a duplicate, or is past it: a
\* position that went back, as the slower of two members committed last, goes
\* forward again when that member commits.
IsPast(w, t, i) ==
    /\ ~At(w, "idle")
    /\ actor[w].via = "topic" /\ actor[w].topic = t
    /\ actor[w].at > i \/ (actor[w].at = i /\ At(w, "done"))
Discarded(t, i, a) == i <= offset[t] \/ \E w \in Workers \ {a} : IsPast(w, t, i)

\* An actor dies, or a statement of it throws.  A worker's message comes
\* again unless another member has let it go meanwhile; off the main topic it
\* then finds a row it may not take over.
Dies(a) ==
    LET e == Event(a)
        t == actor[a].topic
    IN  /\ ~At(a, "idle")
        /\ Fails
        /\ actor' = [actor EXCEPT ![a] = Idle]
        /\ dropped' = IF At(a, "republish") /\ (t = 0 \/ Discarded(t, actor[a].at, a))
                      THEN dropped \cup {e} ELSE dropped
        /\ UNCHANGED <<topicVars, channel, ladder, dlq, owner, offset, row,
                       old, hour, accepted, doubts>>

\* A worker that still runs loses a partition to another one.
Rebalance(t, w) ==
    /\ owner[t] # w
    /\ Fails
    /\ owner' = [owner EXCEPT ![t] = w]
    /\ UNCHANGED <<topicVars, channel, ladder, dlq, offset, row, old, hour,
                   actor, accepted, doubts, dropped>>

\* Ten minutes pass since the row was made: longer than any provider call,
\* so its first attempt is over.  createdAt is never refreshed, so a later
\* attempt may be in flight.
Age(e) ==
    /\ e \notin old
    /\ row[e].status # "NONE"
    /\ \A w \in Workers : ~(Event(w) = e /\ actor[w].fresh /\ actor[w].stage \in {"claimed", "answered"})
    /\ old' = old \cup {e}
    /\ UNCHANGED <<topicVars, failures, channel, ladder, dlq, owner, offset,
                   row, hour, actor, accepted, doubts, dropped>>

Tick ==
    /\ channel = "SMS"
    /\ hour < MaxHour
    /\ hour' = hour + 1
    /\ UNCHANGED <<topicVars, failures, channel, ladder, dlq, owner, offset,
                   row, old, actor, accepted, doubts, dropped>>

-----------------------------------------------------------------------------
Init ==
    /\ TopicInit
    /\ failures = 0
    /\ channel \in Channels
    /\ ladder = [t \in 1..Rungs |-> <<>>]
    /\ dlq = {}
    /\ owner \in [Topics -> Workers]
    /\ offset = [t \in Topics |-> 0]
    /\ row = [e \in Events |-> [status |-> "NONE", notBefore |-> 0]]
    /\ old = {}
    /\ hour = 1
    /\ actor = [a \in Actors |-> Idle]
    /\ accepted = [e \in Events |-> 0]
    /\ doubts = [e \in Events |-> 0]
    /\ dropped = {}

Attempt(a) == Send(a) \/ Mark(a)
WorkerStep(w) == Take(w) \/ Claim(w) \/ Attempt(w) \/ Republish(w) \/ CommitOffset(w)
SweeperStep(s) == StaleClaim(s) \/ Redeliver(s) \/ FindExpired(s) \/ Expire(s) \/ Attempt(s)

Fault ==
    \/ \E w \in Workers : ClaimFails(w) \/ RepublishUnanswered(w)
    \/ \E a \in Actors : AnswerLost(a) \/ MarkSentFails(a) \/ Dies(a)
    \/ \E t \in Topics, w \in Workers : Rebalance(t, w)

\* What consumers that poll, sweepers on timers and the clock do unasked.
Work ==
    \/ \E w \in Workers : WorkerStep(w)
    \/ \E s \in Sweepers : SweeperStep(s)
    \/ \E e \in Events : Age(e)
    \/ Tick

Next ==
    \/ TopicNext /\ UNCHANGED deliveryVars
    \/ Work
    \/ Fault

Spec == Init /\ [][Next]_vars

-----------------------------------------------------------------------------
\* Rows, positions, rungs and actors keep their shape; no message climbs
\* past the last rung.
DeliveryTypeOK ==
    /\ failures \in 0..MaxFailures
    /\ \A t \in 1..Rungs : ladder[t] \in Seq(Events)
    /\ dlq \subseteq Events
    /\ \A t \in Topics : owner[t] \in Workers /\ offset[t] \in 0..Len(Log(t))
    /\ \A e \in Events : row[e].status \in Status /\ row[e].notBefore \in 0..(MaxHour + 1)
    /\ \A a \in Actors : actor[a].stage \in Stages /\ actor[a].answer \in Answers
    /\ \A e \in Events : accepted[e] \in Nat /\ doubts[e] \in Nat

\* The provider takes one message of an event on a channel, and one more at
\* most for each attempt whose outcome nobody could know: a lost answer, a
\* row that could not be marked, an attempt presumed abandoned.  Redelivery,
\* rebalances and retries add none (deliveryLedger.ts:90).
OneMessagePerDoubt == \A e \in Events : accepted[e] <= 1 + doubts[e]

OnTheWay(e) ==
    \/ \E w \in Workers : At(w, "republish") /\ Event(w) = e
    \/ \E t \in 1..Rungs : \E i \in (offset[t] + 1)..Len(ladder[t]) : ladder[t][i] = e
    \/ e \in dlq

\* A delivery that failed for the moment is with a worker, on a rung or among
\* the dead letters, whatever dies, unless the retry was lost in one of the
\* ways "dropped" names (worker.ts:177).
RetryIsCarried ==
    \A e \in Events : row[e].status = "FAILED" /\ e \notin dropped => OnTheWay(e)

\* Nobody has work on hand or a message to read, and no row is for a sweeper
\* or will be as time passes.
AtRest ==
    /\ \A a \in Actors : At(a, "idle")
    /\ \A t \in Topics : offset[t] = Len(Log(t))
    /\ \A e \in Events : ~Stale(e) /\ ~Due(e) /\ (e \in old \/ row[e].status = "NONE")
    /\ channel = "SMS" => hour = MaxHour

\* Every event on the topic is decided for the channel, unless its claim met
\* a database error or it is put off past the end of the run.
AllDecided ==
    \A e \in Members(mainTopic) :
        \/ row[e].status \in {"SENT", "FAILED", "REJECTED", "SUPPRESSED"}
        \/ row[e].status = "DEFERRED" /\ row[e].notBefore > MaxHour
        \/ row[e].status = "NONE" /\ e \in dropped

\* When nothing is left to do, every event on the topic is decided, whichever
\* worker or sweeper died with it (stalePending.ts:88,
\* deferredDeliveries.ts:51).
DecidedAtRest == AtRest => AllDecided

\* The same of the moment when no consumer, sweeper or clock can take a step:
\* that is the rest meant above.  Every step uses something up, so that they
\* do come to rest.
RestsOnlyWhenDecided == ~ENABLED Work => AtRest /\ AllDecided

\* What holds of rows, topics, the ladder and the provider.
DeliveryInv == DeliveryTypeOK /\ RetryIsCarried /\ OneMessagePerDoubt /\ DecidedAtRest
=============================================================================
