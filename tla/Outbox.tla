------------------------------- MODULE Outbox -------------------------------
(***************************************************************************)
(* The transactional outbox of the notifications (lib/notifications.ts,    *)
(* lib/outbox.ts), the relays that publish it (lib/relay.ts) and the job   *)
(* that prunes it (lib/outboxRetention.ts).                                *)
(*                                                                         *)
(* The events are those of one user, so that one partition of the main     *)
(* topic carries them.  A row is dated when its transaction begins, and    *)
(* relays see it once that has committed.  A pass of a relay is one        *)
(* transaction: it holds the rows it claims, publishes them, marks them,   *)
(* and commits.  What a failed pass notes on its rows (attempts,           *)
(* lastError) is for people, and left out.                                 *)
(***************************************************************************)
EXTENDS Naturals, Sequences, FiniteSets

CONSTANTS
    Events,         \* rows of "outbox_events"
    Relays,         \* processes running a relay loop
    BatchSize,      \* rows a pass claims
    MaxFailures     \* crashes and lost answers (bound)

ASSUME OutboxAssumption ==
    /\ IsFiniteSet(Events)
    /\ BatchSize \in Nat \ {0}
    /\ MaxFailures \in Nat

VARIABLES
    outbox,     \* outbox[e]: what has become of the row
    written,    \* the events in the order of their commits
    now,        \* the clock that dates rows, in milliseconds
    stamp,      \* stamp[e]: createdAt, or 0
    relay,      \* relay[r]: the pass relay r is in
    mainTopic,  \* the user's partition of the main topic
    failures,   \* failures so far
    overlapped, \* history: two passes were under way at one time
    late        \* history: <<e, f>>: e committed when f had been taken up

datings == <<now, stamp>>
outboxVars == <<outbox, written, datings, relay, mainTopic, failures, overlapped, late>>

RowState == {"unwritten", "open", "owed", "published", "pruned"}
NoPass == [rows |-> <<>>, sent |-> FALSE]

Fails == failures < MaxFailures /\ failures' = failures + 1

-----------------------------------------------------------------------------
Promise == INSTANCE Topic WITH
    MaxBatch <- BatchSize,
    MaxLength <- (Cardinality(Events) + MaxFailures) * BatchSize

OnTopic == Promise!Members(mainTopic)
LockedBy(r) == {relay[r].rows[i] : i \in DOMAIN relay[r].rows}

\* notifyMany opens a transaction, and CURRENT_TIMESTAMP is when it began: two
\* rows may have the same one.
BeginEvent(e) ==
    /\ outbox[e] = "unwritten"
    /\ outbox' = [outbox EXCEPT ![e] = "open"]
    /\ now' \in {now, now + 1}
    /\ stamp' = [stamp EXCEPT ![e] = now']
    /\ UNCHANGED <<written, relay, mainTopic, failures, overlapped, late>>

\* The notification and its outbox row commit together.
WriteEvent(e) ==
    /\ outbox[e] = "open"
    /\ outbox' = [outbox EXCEPT ![e] = "owed"]
    /\ written' = Append(written, e)
    /\ late' = late \cup {<<e, f>> : f \in OnTopic \cup UNION {LockedBy(r) : r \in Relays}}
    /\ UNCHANGED <<datings, relay, mainTopic, failures, overlapped>>

\* A transaction that fails leaves neither.
RollsBack(rows) ==
    /\ outbox' = [e \in Events |-> IF e \in rows THEN "unwritten" ELSE outbox[e]]
    /\ stamp' = [e \in Events |-> IF e \in rows THEN 0 ELSE stamp[e]]

AbandonEvent(e) ==
    /\ outbox[e] = "open"
    /\ Fails
    /\ RollsBack({e})
    /\ UNCHANGED <<written, now, relay, mainTopic, overlapped, late>>

\* The rows another pass holds are skipped, not waited for; the mistake is to
\* take no lock.
ClaimableUnlocked == {e \in Events : outbox[e] = "owed"}
Claimable == {e \in Events : outbox[e] = "owed" /\ \A r \in Relays : e \notin LockedBy(r)}

\* The oldest claimable rows, in the order of createdAt; the mistake is to take
\* any of them.
ClaimInAnyOrder ==
    {s \in UNION {[1..n -> Claimable] : n \in 1..BatchSize} :
        \A i, j \in DOMAIN s : i # j => s[i] # s[j]}
ClaimOldest ==
    {s \in ClaimInAnyOrder :
        /\ \A i, j \in DOMAIN s : i < j => stamp[s[i]] <= stamp[s[j]]
        /\ \A e \in Claimable :
            \/ \E i \in DOMAIN s : s[i] = e
            \/ Len(s) = BatchSize /\ \A i \in DOMAIN s : stamp[s[i]] <= stamp[e]}
Batches == ClaimOldest

ClaimRows(r) ==
    /\ relay[r] = NoPass
    /\ \E rows \in Batches : relay' = [relay EXCEPT ![r] = [NoPass EXCEPT !.rows = rows]]
    /\ overlapped' = (overlapped \/ \E q \in Relays : relay[q] # NoPass)
    /\ UNCHANGED <<outbox, written, datings, mainTopic, failures, late>>

\* The rows are on the wire before they are marked; the mistake is to take
\* the pass for published as soon as it has its rows.
Sendable(r) == relay[r].rows # <<>> /\ ~relay[r].sent
MarkableEarly(r) == relay[r].rows # <<>>
Markable(r) == relay[r].sent

Publish(r) ==
    /\ Sendable(r)
    /\ mainTopic' = mainTopic \o relay[r].rows
    /\ relay' = [relay EXCEPT ![r].sent = TRUE]
    /\ UNCHANGED <<outbox, written, datings, failures, overlapped, late>>

Commit(r) ==
    /\ Markable(r)
    /\ outbox' = [e \in Events |-> IF e \in LockedBy(r) THEN "published" ELSE outbox[e]]
    /\ relay' = [relay EXCEPT ![r] = NoPass]
    /\ UNCHANGED <<written, datings, mainTopic, failures, overlapped, late>>

\* The broker took the batch or did not, and its answer is an error or never
\* comes: the transaction rolls back and the rows are owed as before.
PublishFails(r) ==
    /\ Sendable(r)
    /\ Fails
    /\ mainTopic' \in {mainTopic, mainTopic \o relay[r].rows}
    /\ relay' = [relay EXCEPT ![r] = NoPass]
    /\ UNCHANGED <<outbox, written, datings, overlapped, late>>

\* The relay dies, or its transaction times out, with its rows unmarked.
RelayDies(r) ==
    /\ relay[r] # NoPass
    /\ Fails
    /\ relay' = [relay EXCEPT ![r] = NoPass]
    /\ UNCHANGED <<outbox, written, datings, mainTopic, overlapped, late>>

\* Retention deletes old published rows; the mistake is to go by age alone.
PrunableByAge(e) == outbox[e] \in {"owed", "published"}
Prunable(e) == outbox[e] = "published"

Prune(e) ==
    /\ Prunable(e)
    /\ outbox' = [outbox EXCEPT ![e] = "pruned"]
    /\ UNCHANGED <<written, datings, relay, mainTopic, failures, overlapped, late>>

RelayPass(r) == ClaimRows(r) \/ Publish(r) \/ Commit(r)

-----------------------------------------------------------------------------
OutboxInit ==
    /\ outbox = [e \in Events |-> "unwritten"]
    /\ written = <<>>
    /\ now = 0 /\ stamp = [e \in Events |-> 0]
    /\ relay = [r \in Relays |-> NoPass]
    /\ mainTopic = <<>>
    /\ failures = 0
    /\ overlapped = FALSE /\ late = {}

\* What becomes of the rows, whoever writes them.
Publishing ==
    \/ \E e \in Events : Prune(e)
    \/ \E r \in Relays : RelayPass(r) \/ PublishFails(r) \/ RelayDies(r)

Writing == \E e \in Events : BeginEvent(e) \/ WriteEvent(e) \/ AbandonEvent(e)

OutboxNext == Writing \/ Publishing

OutboxFairness == \A r \in Relays : WF_outboxVars(RelayPass(r))
OutboxSpec == OutboxInit /\ [][OutboxNext]_outboxVars /\ OutboxFairness

-----------------------------------------------------------------------------
FirstPlace(e, s) == CHOOSE i \in DOMAIN s : s[i] = e /\ \A j \in 1..(i - 1) : s[j] # e
Precedes(e, f, s) == FirstPlace(e, s) < FirstPlace(f, s)

\* Rows, dates and passes keep their shape, and no row is in two passes.
OutboxTypeOK ==
    /\ outbox \in [Events -> RowState]
    /\ written \in Seq(Events)
    /\ now \in Nat /\ stamp \in [Events -> 0..now]
    /\ \A r \in Relays : relay[r].rows \in Seq(Events) /\ relay[r].sent \in BOOLEAN
    /\ mainTopic \in Seq(Events)
    /\ \A r, q \in Relays : r # q => LockedBy(r) \cap LockedBy(q) = {}
    /\ failures \in 0..MaxFailures
    /\ overlapped \in BOOLEAN
    /\ late \subseteq Events \X Events

\* A row is marked published, and may be pruned, only once its event is on
\* the topic, whatever crash or lost answer came between (relay.ts:156).
PublishedReachedTopic ==
    \A e \in Events : outbox[e] \in {"published", "pruned"} => e \in OnTopic

\* One user's events first reach the topic in the order of their createdAt,
\* however often a pass is repeated, as long as no two passes were under way at
\* once: SKIP LOCKED lets a second relay overtake the first (relay.ts:88,
\* notifyTransport.ts:120).  And as long as the earlier one had committed when
\* the later one was taken up: a relay cannot see a row whose transaction began
\* first and is still open.
PublishedInOrder ==
    ~overlapped =>
        \A e, f \in OnTopic :
            stamp[e] < stamp[f] /\ <<e, f>> \notin late => Precedes(e, f, mainTopic)

\* The outbox keeps the promise its consumers rely on: only written events
\* are published, and every one is, whichever relay dies on the way
\* (relay.ts:145, outboxRetention.ts:47).
KeepsPromise == Promise!TopicSpec
=============================================================================
