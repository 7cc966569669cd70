------------------------------ MODULE Threads -------------------------------
(***************************************************************************)
(* One conversation of a seller with the moderators (lib/messaging.ts and  *)
(* the message routes of routes/sellerMessaging.ts and                     *)
(* routes/adminPlacement.ts).                                              *)
(*                                                                         *)
(* A visitor is one request.  Messages are who wrote them; what a side has *)
(* been shown is how far from the first message.                           *)
(***************************************************************************)
EXTENDS Naturals, Sequences, FiniteSets

CONSTANTS
    Visitors,
    PageSize,       \* messages a thread shows, from the first
    MaxMessages     \* messages written (bound)

ASSUME ThreadsAssumption == {PageSize, MaxMessages} \subseteq Nat \ {0}

VARIABLES
    messages,   \* the authors, in order; none before the thread is opened
    closedAt,   \* whether it is set
    unread,     \* unread[side]: sellerUnread and adminUnread
    visitor,    \* visitor[v]: what the request read and is about to do
    shown,      \* history, shown[side]: how far the side has been shown
    missed      \* history: sides whose badge went out over a message that came
                \* while they looked, or that the page does not reach

threadsVars == <<messages, closedAt, unread, visitor, shown, missed>>

ThreadSides == {"SELLER", "ADMIN"}
Away == [task |-> "idle"]

\* The mistake is to count the message for the side that wrote it.
CountsForAuthor(author) == author
CountsFor(author) == CHOOSE side \in ThreadSides : side # author

Visits(v, task, side) ==
    /\ visitor[v] = Away
    /\ visitor' = [visitor EXCEPT ![v] = [task |-> task, side |-> side, saw |-> Len(messages)]]
Visiting(v, task) == visitor[v].task = task
LeavesThread(v) == visitor' = [visitor EXCEPT ![v] = Away]

\* writeMessage: the message and the other side's counter, in one transaction.
WritesMessage(author) ==
    /\ Len(messages) < MaxMessages
    /\ messages' = Append(messages, author)
    /\ unread' = [unread EXCEPT ![CountsFor(author)] = @ + 1]
    /\ UNCHANGED <<closedAt, shown, missed>>

-----------------------------------------------------------------------------
\* openThread, and postMessageTx, with which placement.ts answers on a thread
\* that is closed or open.
OpenThread(side) == messages = <<>> /\ WritesMessage(side) /\ UNCHANGED visitor
PostMessageTx(side) == messages # <<>> /\ WritesMessage(side) /\ UNCHANGED visitor

\* postMessage reads closedAt before its transaction.
Reply(v, side) ==
    /\ messages # <<>> /\ ~closedAt
    /\ Visits(v, "write", side)
    /\ UNCHANGED <<messages, closedAt, unread, shown, missed>>

PostMessage(v) ==
    /\ Visiting(v, "write")
    /\ WritesMessage(visitor[v].side)
    /\ LeavesThread(v)

\* threadDetail shows the first of them.
ThreadDetail(v, side) ==
    /\ messages # <<>>
    /\ Visits(v, "read", side)
    /\ shown' = [shown EXCEPT ![side] = IF Len(messages) <= PageSize THEN Len(messages) ELSE PageSize]
    /\ missed' = IF Len(messages) <= PageSize THEN missed \ {side} ELSE missed
    /\ UNCHANGED <<messages, closedAt, unread>>

\* markRead reads the counter and sets it to zero; the mistake is to clear
\* both.
ClearsBoth(side) == [s \in ThreadSides |-> 0]
ClearsUnread(side) == [unread EXCEPT ![side] = 0]

MarkRead(v) ==
    /\ Visiting(v, "read")
    /\ IF unread[visitor[v].side] = 0 THEN LeavesThread(v)
       ELSE visitor' = [visitor EXCEPT ![v].task = "mark"]
    /\ UNCHANGED <<messages, closedAt, unread, shown, missed>>

MarkReadWrites(v) ==
    LET side == visitor[v].side
    IN  /\ Visiting(v, "mark")
        /\ unread' = ClearsUnread(side)
        /\ missed' = IF Len(messages) > visitor[v].saw \/ Len(messages) > PageSize
                     THEN missed \cup {side} ELSE missed
        /\ LeavesThread(v)
        /\ UNCHANGED <<messages, closedAt, shown>>

CloseThread ==
    /\ messages # <<>>
    /\ closedAt' = TRUE
    /\ UNCHANGED <<messages, unread, visitor, shown, missed>>

ReopenThread ==
    /\ closedAt' = FALSE
    /\ UNCHANGED <<messages, unread, visitor, shown, missed>>

VisitDies(v) ==
    /\ visitor[v] # Away
    /\ LeavesThread(v)
    /\ UNCHANGED <<messages, closedAt, unread, shown, missed>>

-----------------------------------------------------------------------------
ThreadsInit ==
    /\ messages = <<>>
    /\ closedAt = FALSE
    /\ unread = [side \in ThreadSides |-> 0]
    /\ visitor = [v \in Visitors |-> Away]
    /\ shown = [side \in ThreadSides |-> 0]
    /\ missed = {}

ThreadsNext ==
    \/ \E side \in ThreadSides :
        \/ OpenThread(side) \/ PostMessageTx(side)
        \/ \E v \in Visitors : Reply(v, side) \/ ThreadDetail(v, side)
    \/ \E v \in Visitors :
        PostMessage(v) \/ MarkRead(v) \/ MarkReadWrites(v) \/ VisitDies(v)
    \/ CloseThread \/ ReopenThread

ThreadsSpec == ThreadsInit /\ [][ThreadsNext]_threadsVars

-----------------------------------------------------------------------------
\* The conversation and the requests keep their shape.
ThreadsTypeOK ==
    /\ messages \in Seq(ThreadSides)
    /\ closedAt \in BOOLEAN
    /\ unread \in [ThreadSides -> Nat] /\ shown \in [ThreadSides -> Nat]
    /\ missed \subseteq ThreadSides

Unseen(side) == {i \in DOMAIN messages : i > shown[side] /\ messages[i] # side}

\* A message that its reader has not been shown is on the reader's badge, for
\* all that the badge is put to zero and not lowered by what was shown
\* (messaging.ts:299).  The exceptions the code has: a message that came while
\* the thread was being opened, until it is opened again, and the ones after
\* the first five hundred.
BadgeKnows == \A side \in ThreadSides \ missed : unread[side] >= Cardinality(Unseen(side))

\* What holds of the conversation.
ThreadsInv == ThreadsTypeOK /\ BadgeKnows
=============================================================================
