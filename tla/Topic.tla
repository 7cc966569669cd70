------------------------------- MODULE Topic -------------------------------
(***************************************************************************)
(* What the outbox promises to those who read the main topic: an event is  *)
(* on the topic only if it was written, it may be there more than once and *)
(* in any order, and in the end it is there (docs/adr/0024, lib/outbox.ts, *)
(* lib/notifyTransport.ts).  Outbox implements this; Delivery relies on it *)
(* and on nothing more.  One user's events, so one partition.              *)
(***************************************************************************)
EXTENDS Naturals, Sequences, FiniteSets

CONSTANTS
    Events,     \* rows of "outbox_events"
    MaxBatch,   \* events that arrive at once
    MaxLength   \* bound on the topic

ASSUME TopicAssumption ==
    /\ IsFiniteSet(Events)
    /\ MaxBatch \in Nat \ {0}
    /\ MaxLength \in Nat

VARIABLES
    written,    \* the events in the order they were written
    mainTopic   \* the user's partition of the main topic

topicVars == <<written, mainTopic>>

Members(s) == {s[i] : i \in DOMAIN s}

\* notifyMany: the notification and its outbox row commit together.
WriteEvent(e) ==
    /\ e \notin Members(written)
    /\ written' = Append(written, e)
    /\ UNCHANGED mainTopic

Arrive(s) ==
    /\ Len(mainTopic) + Len(s) <= MaxLength
    /\ mainTopic' = mainTopic \o s
    /\ UNCHANGED written

Arrivals == UNION {[1..n -> Members(written)] : n \in 1..MaxBatch}

\* The first arrival of an event, whichever others come with it.
FirstArrival(e) ==
    /\ e \notin Members(mainTopic)
    /\ \E s \in Arrivals : e \in Members(s) /\ Arrive(s)

TopicInit == written = <<>> /\ mainTopic = <<>>

TopicNext ==
    \/ \E e \in Events : WriteEvent(e)
    \/ \E s \in Arrivals : Arrive(s)

TopicSpec ==
    /\ TopicInit
    /\ [][TopicNext]_topicVars
    /\ \A e \in Events : WF_topicVars(FirstArrival(e))
=============================================================================
