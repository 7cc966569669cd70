--------------------------- MODULE DeliveryProofs ---------------------------
(***************************************************************************)
(* Proofs about how a person is told, for any events, workers, browsers    *)
(* and choices.  Of what a channel's workers and sweepers leave of an      *)
(* event, the provider takes one message but for attempts nobody knows the *)
(* end of, and a retry is somewhere until it is tried or lost in a way     *)
(* that has a name.  Browsers, settings and quiet hours follow.            *)
(***************************************************************************)
EXTENDS Delivery, Devices, Preferences, QuietHours, FiniteSetTheorems, SequenceTheorems, TLAPS

-----------------------------------------------------------------------------
(***************************************************************************)
(* The deliveries of an event: the inductive invariant                     *)
(***************************************************************************)

Ways == {"none", "topic", "stale", "parked"}
Doer == [stage : Stages, via : Ways, event : Events \cup {NoEvent}, topic : Topics,
         at : Nat, fresh : BOOLEAN, answer : Answers, until : 0..(MaxHour + 1)]
DeliveryRow == [status : Status, notBefore : 0..(MaxHour + 1)]

\* Topics hold events, and nobody has read past their ends.
TopicsRight ==
    /\ written \in Seq(Events) /\ mainTopic \in Seq(Events)
    /\ ladder \in [1..Rungs -> Seq(Events)]
    /\ owner \in [Topics -> Workers]
    /\ offset \in [Topics -> Nat]
    /\ \A t \in Topics : offset[t] <= Len(Log(t))

CountersRight ==
    /\ failures \in 0..MaxFailures /\ hour \in 1..MaxHour
    /\ row \in [Events -> DeliveryRow]
    /\ accepted \in [Events -> Nat] /\ doubts \in [Events -> Nat]
    /\ dlq \subseteq Events

\* A worker has the message its position names.
ActorRight(a) ==
    /\ ~At(a, "idle") => Event(a) \in Events
    /\ actor[a].stage \in {"read", "republish", "done"} => actor[a].via = "topic"
    /\ At(a, "answered") => actor[a].answer \in DOMAIN StatusFor
    /\ ~At(a, "idle") /\ actor[a].via = "topic" =>
           /\ a \in Workers
           /\ actor[a].at \in 1..Len(Log(actor[a].topic))
           /\ Event(a) = Log(actor[a].topic)[actor[a].at]
ActorsRight == actor \in [Actors -> Doer] /\ \A a \in Actors : ActorRight(a)

\* Who may still make the provider take a message of e: one who has claimed it,
\* or whose answer will open the row to the next claim.
Holds(a, e) ==
    /\ Event(a) = e
    /\ At(a, "claimed") \/ (At(a, "answered") /\ actor[a].answer # "accepted")
Holding(e) == {a \in Actors : Holds(a, e)}
Claimable == {"NONE", "FAILED", "REJECTED", "DEFERRED"}
OpenTo(status) == IF status \in Claimable THEN 1 ELSE 0
Counted(e) == accepted[e] + Cardinality(Holding(e)) + OpenTo(row[e].status) <= 1 + doubts[e]

\* A retry that nobody has let go, and nobody ahead of it will, is still to come.
Passed(t, i) == i <= offset[t] \/ \E w \in Workers : IsPast(w, t, i)
Waiting(e, t, i) == ladder[t][i] = e /\ ~Passed(t, i)
Republishing(w, e) == At(w, "republish") /\ Event(w) = e
Carried(e) ==
    row[e].status = "FAILED" /\ e \notin dropped =>
        \/ \E w \in Workers : Republishing(w, e)
        \/ \E t \in 1..Rungs : \E i \in 1..Len(ladder[t]) : Waiting(e, t, i)
        \/ e \in dlq

ShapeRight == TopicsRight /\ CountersRight /\ ActorsRight
CountsRight == \A e \in Events : Counted(e)
RetriesRight == \A e \in Events : Carried(e)

LedgerInv == ShapeRight /\ CountsRight /\ RetriesRight

-----------------------------------------------------------------------------
(* What the lemmas share.                                                  *)

\* The bounds are numbers and the actors finitely many.
LEMMA DeliveryBounds ==
    /\ Rungs \in Nat /\ MaxHour \in Nat /\ MaxHour >= 1 /\ MaxFailures \in Nat
    /\ NoEvent \notin Events
    /\ IsFiniteSet(Actors)
    /\ Workers \subseteq Actors /\ Sweepers \subseteq Actors
    /\ 0 \in Topics /\ 1..Rungs \subseteq Topics
<1>1. IsFiniteSet(Workers \cup Sweepers)
  BY DeliveryAssumption, FS_Union
<1> QED
  BY <1>1, DeliveryAssumption DEF Actors, Topics

\* An idle actor has nothing.
LEMMA IdleIs ==
    /\ Idle \in Doer /\ Idle.stage = "idle" /\ Idle.event = NoEvent
    /\ Idle.via = "none" /\ Idle.answer = "none"
  BY DeliveryBounds DEF Idle, Doing, Doer, Stages, Ways, Answers

\* What stands for each answer is a status.
LEMMA StatusForIs ==
    /\ DOMAIN StatusFor = {"accepted", "transient", "permanent", "nothing", "deferred"}
    /\ \A x \in DOMAIN StatusFor : StatusFor[x] \in Status
    /\ StatusFor["accepted"] = "SENT" /\ StatusFor["transient"] = "FAILED"
    /\ \A x \in DOMAIN StatusFor : StatusFor[x] = "FAILED" => x = "transient"
    /\ \A x \in DOMAIN StatusFor : x # "transient" => StatusFor[x] # "FAILED"
  BY DEF StatusFor, Status

\* A log is a sequence of events.
LEMMA LogIs ==
    ASSUME TopicsRight, NEW t \in Topics
    PROVE  Log(t) \in Seq(Events) /\ Len(Log(t)) \in Nat
<1>1. CASE t = 0
  BY <1>1 DEF Log, TopicsRight
<1>2. CASE t # 0
  <2>1. t \in 1..Rungs
    BY <1>2, DeliveryBounds DEF Topics
  <2> QED
    BY <1>2, <2>1 DEF Log, TopicsRight
<1> QED
  BY <1>1, <1>2

\* One actor more or less.
LEMMA OneMore ==
    ASSUME NEW S, NEW T, NEW a, IsFiniteSet(S), T \ {a} = S \ {a}
    PROVE  /\ Cardinality(S) \in Nat /\ Cardinality(T) \in Nat
           /\ a \in S /\ a \notin T => Cardinality(T) = Cardinality(S) - 1
           /\ a \notin S /\ a \in T => Cardinality(T) = Cardinality(S) + 1
           /\ (a \in S <=> a \in T) => Cardinality(T) = Cardinality(S)
<1> DEFINE R == S \ {a}
<1>1. IsFiniteSet(R) /\ Cardinality(R) = IF a \in S THEN Cardinality(S) - 1 ELSE Cardinality(S)
  BY FS_RemoveElement
<1>2. a \notin R
  OBVIOUS
<1>3. IsFiniteSet(R \cup {a}) /\ Cardinality(R \cup {a}) = Cardinality(R) + 1
  BY <1>1, <1>2, FS_AddElement
<1>4. T = IF a \in T THEN R \cup {a} ELSE R
  BY <1>2
<1>5. Cardinality(S) \in Nat /\ Cardinality(R) \in Nat
  BY <1>1, FS_CardinalityType
<1>6. Cardinality(T) = IF a \in T THEN Cardinality(R) + 1 ELSE Cardinality(R)
  BY <1>3, <1>4
<1> HIDE DEF R
<1> QED
  BY ONLY <1>1, <1>5, <1>6

-----------------------------------------------------------------------------
(* Shape: what a step of one actor leaves right.                           *)

\* Logs only grow.
Grows(l, m) == Len(l) <= Len(m) /\ \A i \in 1..Len(l) : m[i] = l[i]

LEMMA LogsStay ==
    ASSUME UNCHANGED <<mainTopic, ladder>>
    PROVE  \A t \in Topics : Log(t)' = Log(t)
  BY DEF Log

LEMMA ActorsKept ==
    ASSUME ActorsRight, TopicsRight, TopicsRight',
           NEW a \in Actors, NEW new \in Doer, actor' = [actor EXCEPT ![a] = new],
           \A t \in Topics : Grows(Log(t), Log(t)'), ActorRight(a)'
    PROVE  ActorsRight'
<1>1. actor' \in [Actors -> Doer] /\ \A b \in Actors \ {a} : actor'[b] = actor[b]
  BY DEF ActorsRight
<1>2. ASSUME NEW b \in Actors, b # a PROVE ActorRight(b)'
  <2>1. actor'[b] = actor[b] /\ ActorRight(b) /\ actor[b] \in Doer
    BY <1>1, <1>2 DEF ActorsRight
  <2> PICK t \in Topics : t = actor[b].topic
    BY <2>1 DEF Doer
  <2>2. Grows(Log(t), Log(t)') /\ Len(Log(t)) \in Nat /\ Len(Log(t)') \in Nat
    BY LogIs, LogIs DEF TopicsRight
  <2>3. ASSUME ~At(b, "idle"), actor[b].via = "topic"
        PROVE  b \in Workers /\ actor[b].at \in 1..Len(Log(t)') /\ Event(b) = Log(t)'[actor[b].at]
    <3>1. b \in Workers /\ actor[b].at \in 1..Len(Log(t)) /\ Event(b) = Log(t)[actor[b].at]
      BY <2>1, <2>3 DEF ActorRight
    <3> QED
      BY <3>1, <2>2 DEF Grows
  <2> QED
    BY <2>1, <2>3 DEF ActorRight, At, Event
<1> QED
  BY <1>1, <1>2 DEF ActorsRight

-----------------------------------------------------------------------------
(* Counts: a step of one actor changes who holds an event by that actor.   *)

LEMMA HoldingMoves ==
    ASSUME ActorsRight, NEW a \in Actors, NEW new, actor' = [actor EXCEPT ![a] = new], NEW e
    PROVE  /\ Cardinality(Holding(e)) \in Nat /\ Cardinality(Holding(e)') \in Nat
           /\ Holds(a, e) /\ ~Holds(a, e)' => Cardinality(Holding(e)') = Cardinality(Holding(e)) - 1
           /\ ~Holds(a, e) /\ Holds(a, e)' => Cardinality(Holding(e)') = Cardinality(Holding(e)) + 1
           /\ (Holds(a, e) <=> Holds(a, e)') => Cardinality(Holding(e)') = Cardinality(Holding(e))
<1>1. IsFiniteSet(Holding(e))
  <2>1. Holding(e) \subseteq Actors
    BY DEF Holding
  <2> QED
    BY <2>1, DeliveryBounds, FS_Subset
<1>2. \A b \in Actors \ {a} : Holds(b, e)' <=> Holds(b, e)
  BY DEF Holds, At, Event, ActorsRight
<1>3. Holding(e)' \ {a} = Holding(e) \ {a}
  BY <1>2 DEF Holding
<1>4. (a \in Holding(e) <=> Holds(a, e)) /\ (a \in Holding(e)' <=> Holds(a, e)')
  BY DEF Holding
<1>5. /\ Cardinality(Holding(e)) \in Nat /\ Cardinality(Holding(e)') \in Nat
      /\ a \in Holding(e) /\ a \notin Holding(e)' => Cardinality(Holding(e)') = Cardinality(Holding(e)) - 1
      /\ a \notin Holding(e) /\ a \in Holding(e)' => Cardinality(Holding(e)') = Cardinality(Holding(e)) + 1
      /\ (a \in Holding(e) <=> a \in Holding(e)') => Cardinality(Holding(e)') = Cardinality(Holding(e))
  BY <1>1, <1>3, OneMore
<1> QED
  BY ONLY <1>4, <1>5

\* What the step adds on one side it takes off the other, or it is in doubt.
OneIf(holds) == IF holds THEN 1 ELSE 0

LEMMA CountMoves ==
    ASSUME ShapeRight, CountersRight', NEW a \in Actors, NEW new, actor' = [actor EXCEPT ![a] = new],
           NEW e \in Events, Counted(e),
           NEW more \in Nat, accepted'[e] = accepted[e] + more,
           NEW doubt \in Nat, doubts'[e] = doubts[e] + doubt,
           more + OneIf(Holds(a, e)') + OpenTo(row'[e].status)
               <= doubt + OneIf(Holds(a, e)) + OpenTo(row[e].status)
    PROVE  Counted(e)'
<1>1. ActorsRight
  BY DEF ShapeRight
<1>2. /\ Cardinality(Holding(e)) \in Nat /\ Cardinality(Holding(e)') \in Nat
      /\ Holds(a, e) /\ ~Holds(a, e)' => Cardinality(Holding(e)') = Cardinality(Holding(e)) - 1
      /\ ~Holds(a, e) /\ Holds(a, e)' => Cardinality(Holding(e)') = Cardinality(Holding(e)) + 1
      /\ (Holds(a, e) <=> Holds(a, e)') => Cardinality(Holding(e)') = Cardinality(Holding(e))
  BY <1>1, HoldingMoves
<1>3. accepted[e] \in Nat /\ doubts[e] \in Nat
  BY DEF ShapeRight, CountersRight
<1>4. OpenTo(row[e].status) \in 0..1 /\ OpenTo(row'[e].status) \in 0..1
  BY DEF OpenTo
<1> PICK h \in 0..1, k \in 0..1 : /\ h = OneIf(Holds(a, e)) /\ k = OneIf(Holds(a, e)')
                                /\ Cardinality(Holding(e)') + h = Cardinality(Holding(e)) + k
  <2>1. CASE Holds(a, e) /\ Holds(a, e)'
    BY <1>2, <2>1 DEF OneIf
  <2>2. CASE Holds(a, e) /\ ~Holds(a, e)'
    BY <1>2, <2>2 DEF OneIf
  <2>3. CASE ~Holds(a, e) /\ Holds(a, e)'
    BY <1>2, <2>3 DEF OneIf
  <2>4. CASE ~Holds(a, e) /\ ~Holds(a, e)'
    BY <1>2, <2>4 DEF OneIf
  <2> QED
    BY <2>1, <2>2, <2>3, <2>4
<1>5. accepted[e] + Cardinality(Holding(e)) + OpenTo(row[e].status) <= 1 + doubts[e]
  BY DEF Counted
<1>6. accepted'[e] + Cardinality(Holding(e)') + OpenTo(row'[e].status) <= 1 + doubts'[e]
  BY <1>2, <1>3, <1>4, <1>5
<1> QED
  BY <1>6 DEF Counted

\* An event keeps its count where nothing of it changes, or its row closes.
LEMMA CountStays ==
    ASSUME ShapeRight, CountersRight', NEW a \in Actors, NEW new, actor' = [actor EXCEPT ![a] = new],
           NEW e \in Events, Counted(e),
           accepted'[e] = accepted[e], doubts'[e] = doubts[e],
           OpenTo(row'[e].status) <= OpenTo(row[e].status),
           Holds(a, e)' => Holds(a, e)
    PROVE  Counted(e)'
<1>1. /\ Cardinality(Holding(e)) \in Nat /\ Cardinality(Holding(e)') \in Nat
      /\ Cardinality(Holding(e)') <= Cardinality(Holding(e))
  <2>1. ActorsRight
    BY DEF ShapeRight
  <2>2. /\ Cardinality(Holding(e)) \in Nat /\ Cardinality(Holding(e)') \in Nat
        /\ Holds(a, e) /\ ~Holds(a, e)' => Cardinality(Holding(e)') = Cardinality(Holding(e)) - 1
        /\ (Holds(a, e) <=> Holds(a, e)') => Cardinality(Holding(e)') = Cardinality(Holding(e))
    BY <2>1, HoldingMoves
  <2>3. Holds(a, e)' => Holds(a, e)
    OBVIOUS
  <2> QED
    BY ONLY <2>2, <2>3
<1>2. accepted[e] \in Nat /\ doubts[e] \in Nat
  BY DEF ShapeRight, CountersRight
<1>3. OpenTo(row[e].status) \in 0..1 /\ OpenTo(row'[e].status) \in 0..1
  BY DEF OpenTo
<1> QED
  BY <1>1, <1>2, <1>3 DEF Counted

-----------------------------------------------------------------------------
(* Retries: what moves a position, and what only moves an actor.           *)

\* An actor at work that keeps its message passes nothing but that message,
\* and that only when it is done with it; one that rests passes nothing.
LEMMA PassesOwn ==
    ASSUME ActorsRight, NEW a \in Actors, NEW new, actor' = [actor EXCEPT ![a] = new],
           offset' = offset, new.via = actor[a].via, new.topic = actor[a].topic, new.at = actor[a].at,
           ~At(a, "idle"), new.stage # "idle", ~At(a, "done"),
           NEW t \in Topics, NEW i \in Nat, ~Passed(t, i), Passed(t, i)'
    PROVE  /\ a \in Workers /\ new.stage = "done"
           /\ actor[a].via = "topic" /\ actor[a].topic = t /\ actor[a].at = i
<1>1. ~(i <= offset[t]) /\ \A w \in Workers : ~IsPast(w, t, i)
  BY DEF Passed
<1>2. PICK w \in Workers : IsPast(w, t, i)'
  BY <1>1 DEF Passed
<1>3. w = a
  <2>1. w \in Actors
    BY DeliveryBounds
  <2> QED
    BY <1>1, <1>2, <2>1 DEF IsPast, At, ActorsRight
<1>4. /\ actor'[a] = new /\ new.stage # "idle" /\ new.via = "topic" /\ new.topic = t
      /\ new.at > i \/ (new.at = i /\ new.stage = "done")
  BY <1>2, <1>3 DEF IsPast, At, ActorsRight
<1>5. ~(actor[a].at > i)
  BY <1>1, <1>3, <1>4 DEF IsPast, At
<1> QED
  BY <1>3, <1>4, <1>5

\* A retry that nobody lets go stays where it is.
LEMMA CarriedStays ==
    ASSUME ShapeRight, ShapeRight', NEW e \in Events, Carried(e),
           row'[e].status = "FAILED" => row[e].status = "FAILED",
           dropped \subseteq dropped', dlq \subseteq dlq',
           \A t \in 1..Rungs : Grows(ladder[t], ladder'[t]),
           \A t \in 1..Rungs : \A i \in 1..Len(ladder[t]) :
               Waiting(e, t, i) /\ Passed(t, i)' => row'[e].status # "FAILED" \/ e \in dropped'
                   \/ (\E u \in 1..Rungs : \E j \in 1..Len(ladder'[u]) : Waiting(e, u, j)') \/ e \in dlq',
           \A w \in Workers : Republishing(w, e) =>
               \/ Republishing(w, e)' \/ e \in dropped' \/ e \in dlq'
               \/ \E t \in 1..Rungs : \E i \in 1..Len(ladder'[t]) : Waiting(e, t, i)'
    PROVE  Carried(e)'
<1> SUFFICES ASSUME row'[e].status = "FAILED", e \notin dropped'
             PROVE  \/ \E w \in Workers : Republishing(w, e)'
                    \/ \E t \in 1..Rungs : \E i \in 1..Len(ladder'[t]) : Waiting(e, t, i)'
                    \/ e \in dlq'
  BY DEF Carried
<1>1. \/ \E w \in Workers : Republishing(w, e)
      \/ \E t \in 1..Rungs : \E i \in 1..Len(ladder[t]) : Waiting(e, t, i)
      \/ e \in dlq
  BY DEF Carried
<1>2. CASE \E w \in Workers : Republishing(w, e)
  BY <1>2
<1>3. CASE \E t \in 1..Rungs : \E i \in 1..Len(ladder[t]) : Waiting(e, t, i)
  <2> PICK t \in 1..Rungs : \E i \in 1..Len(ladder[t]) : Waiting(e, t, i)
    BY <1>3
  <2> PICK i \in 1..Len(ladder[t]) : Waiting(e, t, i)
    OBVIOUS
  <2>1. Grows(ladder[t], ladder'[t])
    OBVIOUS
  <2>2. Len(ladder[t]) \in Nat /\ Len(ladder'[t]) \in Nat
    BY DEF ShapeRight, TopicsRight
  <2>3. i \in 1..Len(ladder'[t]) /\ ladder'[t][i] = ladder[t][i]
    BY <2>1, <2>2 DEF Grows
  <2>4. CASE Passed(t, i)'
    BY <2>4
  <2>5. CASE ~Passed(t, i)'
    <3>1. Waiting(e, t, i)'
      BY <2>3, <2>5 DEF Waiting
    <3> QED
      BY <2>3, <3>1
  <2> QED
    BY <2>4, <2>5
<1> QED
  BY <1>1, <1>2, <1>3

\* The step of a passes at most the message a has, by being done with it.
PassesAtMost(a) ==
    \A t \in Topics : \A i \in 1..Len(Log(t)) :
        ~Passed(t, i) /\ Passed(t, i)' =>
            /\ a \in Workers /\ ~At(a, "idle") /\ At(a, "done")'
            /\ actor[a].via = "topic" /\ actor[a].topic = t /\ actor[a].at = i

LEMMA WorkPasses ==
    ASSUME ActorsRight, TopicsRight, NEW a \in Actors, NEW new, actor' = [actor EXCEPT ![a] = new],
           offset' = offset, new.via = actor[a].via, new.topic = actor[a].topic, new.at = actor[a].at,
           ~At(a, "idle"), new.stage # "idle", ~At(a, "done")
    PROVE  PassesAtMost(a)
<1> SUFFICES ASSUME NEW t \in Topics, NEW i \in 1..Len(Log(t)), ~Passed(t, i), Passed(t, i)'
             PROVE  /\ a \in Workers /\ ~At(a, "idle") /\ At(a, "done")'
                    /\ actor[a].via = "topic" /\ actor[a].topic = t /\ actor[a].at = i
  BY DEF PassesAtMost
<1>1. t \in Topics /\ i \in Nat
  BY LogIs
<1>2. /\ a \in Workers /\ new.stage = "done"
      /\ actor[a].via = "topic" /\ actor[a].topic = t /\ actor[a].at = i
  BY <1>1, PassesOwn
<1>3. actor'[a] = new
  BY DEF ActorsRight
<1> QED
  BY <1>2, <1>3 DEF At

\* One that comes to rest passes nothing, nor does a sweeper that starts, nor
\* a worker that takes the next message.
LEMMA OthersPass ==
    ASSUME ActorsRight, TopicsRight, NEW a \in Actors, NEW new, actor' = [actor EXCEPT ![a] = new],
           offset' = offset,
           \/ new.stage = "idle"
           \/ new.via # "topic"
           \/ new.stage = "read" /\ new.topic \in Topics /\ new.at = offset[new.topic] + 1
    PROVE  PassesAtMost(a)
<1> SUFFICES ASSUME NEW t \in Topics, NEW i \in 1..Len(Log(t)), ~Passed(t, i), Passed(t, i)'
             PROVE  FALSE
  BY DEF PassesAtMost
<1>1. t \in Topics /\ i \in Nat
  BY LogIs
<1>2. ~(i <= offset[t]) /\ \A w \in Workers : ~IsPast(w, t, i)
  BY DEF Passed
<1>3. PICK w \in Workers : IsPast(w, t, i)'
  BY <1>2 DEF Passed
<1>4. w \in Actors /\ actor'[a] = new /\ (w # a => actor'[w] = actor[w])
  BY DeliveryBounds DEF ActorsRight
<1>5. w = a
  BY <1>2, <1>3, <1>4 DEF IsPast, At
<1>6. new.stage # "idle" /\ new.via = "topic" /\ new.topic = t
      /\ (new.at > i \/ (new.at = i /\ new.stage = "done"))
  BY <1>3, <1>4, <1>5 DEF IsPast, At
<1>7. offset[t] \in Nat /\ new.at = offset[t] + 1 /\ new.stage = "read"
  BY <1>1, <1>6 DEF TopicsRight
<1> QED
  BY ONLY <1>1, <1>2, <1>6, <1>7

\* The retries a step leaves alone that puts no message anywhere.
LEMMA RetriesStay ==
    ASSUME ShapeRight, ShapeRight', NEW a \in Actors, NEW e \in Events, Carried(e),
           UNCHANGED <<ladder, dlq>>, dropped \subseteq dropped', PassesAtMost(a),
           \A b \in Actors \ {a} : actor'[b] = actor[b],
           row'[e].status = "FAILED" => row[e].status = "FAILED",
           At(a, "done")' /\ ~At(a, "idle") /\ actor[a].topic # 0 /\ Event(a) = e =>
               row'[e].status # "FAILED" \/ e \in dropped',
           Republishing(a, e) => row'[e].status # "FAILED" \/ e \in dropped'
               \/ (\E u \in 1..Rungs : \E j \in 1..Len(ladder[u]) : Waiting(e, u, j))
    PROVE  Carried(e)'
<1> SUFFICES ASSUME row'[e].status = "FAILED", e \notin dropped'
             PROVE  Carried(e)'
  BY DEF Carried
<1>1. \A t \in 1..Rungs : Grows(ladder[t], ladder'[t])
  BY DEF Grows, ShapeRight, TopicsRight
<1>2. ASSUME NEW t \in 1..Rungs, NEW i \in 1..Len(ladder[t]), Waiting(e, t, i)
      PROVE  ~Passed(t, i)'
  <2> SUFFICES ASSUME Passed(t, i)' PROVE FALSE
    OBVIOUS
  <2>1. ~Passed(t, i) /\ ladder[t][i] = e
    BY <1>2 DEF Waiting
  <2>2. t # 0 /\ t \in Topics
    BY DeliveryBounds
  <2>3. /\ a \in Workers /\ ~At(a, "idle") /\ At(a, "done")'
        /\ actor[a].via = "topic" /\ actor[a].topic = t /\ actor[a].at = i
    BY <2>1, <2>2 DEF PassesAtMost, Log
  <2>4. Event(a) = Log(t)[i]
    BY <2>3 DEF ShapeRight, ActorsRight, ActorRight
  <2>5. Event(a) = e
    BY <2>1, <2>2, <2>4 DEF Log
  <2> QED
    BY <2>2, <2>3, <2>5
<1>3. ASSUME NEW t \in 1..Rungs, NEW i \in 1..Len(ladder[t]), Waiting(e, t, i)
      PROVE  i \in 1..Len(ladder'[t]) /\ Waiting(e, t, i)'
  BY <1>2, <1>3 DEF Waiting
<1>4. ASSUME NEW w \in Workers, Republishing(w, e)
      PROVE  \/ Republishing(w, e)' \/ e \in dropped' \/ e \in dlq'
             \/ \E t \in 1..Rungs : \E i \in 1..Len(ladder'[t]) : Waiting(e, t, i)'
  <2>1. CASE w = a
    <3>1. \E u \in 1..Rungs : \E j \in 1..Len(ladder[u]) : Waiting(e, u, j)
      BY <1>4, <2>1
    <3> QED
      BY <1>3, <3>1
  <2>2. CASE w # a
    <3>1. actor'[w] = actor[w]
      BY <2>2, DeliveryBounds
    <3> QED
      BY <1>4, <3>1 DEF Republishing, At, Event
  <2> QED
    BY <2>1, <2>2
<1>5. \A t \in 1..Rungs : \A i \in 1..Len(ladder[t]) :
         Waiting(e, t, i) /\ Passed(t, i)' => row'[e].status # "FAILED" \/ e \in dropped'
             \/ (\E u \in 1..Rungs : \E j \in 1..Len(ladder'[u]) : Waiting(e, u, j)') \/ e \in dlq'
  BY <1>2
<1> QED
  BY <1>1, <1>4, <1>5, CarriedStays

-----------------------------------------------------------------------------
(* The start, and the steps of the topic.                                  *)

LEMMA LedgerStarts == Init => LedgerInv
<1> SUFFICES ASSUME Init PROVE LedgerInv
  OBVIOUS
<1>1. \A a \in Actors : actor[a] = Idle
  BY DEF Init
<1>2. TopicsRight
  <2>1. <<>> \in Seq(Events) /\ Len(<<>>) = 0
    OBVIOUS
  <2>2. \A t \in Topics : Len(Log(t)) = 0
    BY <2>1, DeliveryBounds DEF Init, TopicInit, Log, Topics
  <2>3. offset \in [Topics -> Nat] /\ \A t \in Topics : offset[t] = 0
    BY DEF Init
  <2>4. written \in Seq(Events) /\ mainTopic \in Seq(Events)
    BY <2>1 DEF Init, TopicInit
  <2>5. ladder \in [1..Rungs -> Seq(Events)] /\ owner \in [Topics -> Workers]
    BY <2>1 DEF Init
  <2> QED
    BY <2>2, <2>3, <2>4, <2>5 DEF TopicsRight
<1>3. CountersRight
  <2>1. row \in [Events -> DeliveryRow]
    BY DeliveryBounds DEF Init, DeliveryRow, Status
  <2> QED
    BY <2>1, DeliveryBounds DEF Init, CountersRight
<1>4. ActorsRight
  BY <1>1, IdleIs DEF ActorsRight, ActorRight, At, Init
<1>5. CountsRight
  <2>1. \A e \in Events : Holding(e) = {}
    BY <1>1, IdleIs DEF Holding, Holds, At
  <2>2. Cardinality({}) = 0
    BY FS_EmptySet
  <2>3. \A e \in Events : OpenTo(row[e].status) = 1
    BY DEF Init, OpenTo, Claimable
  <2>4. \A e \in Events : accepted[e] = 0 /\ doubts[e] = 0
    BY DEF Init
  <2>5. \A e \in Events : Cardinality(Holding(e)) = 0
    BY <2>1, <2>2
  <2> QED
    BY ONLY <2>3, <2>4, <2>5 DEF CountsRight, Counted
<1>6. RetriesRight
  BY DEF RetriesRight, Carried, Init
<1> QED
  BY <1>2, <1>3, <1>4, <1>5, <1>6 DEF LedgerInv, ShapeRight

\* Events that arrive are events that were written.
LEMMA TopicGrows ==
    ASSUME TopicsRight, TopicNext
    PROVE  /\ written' \in Seq(Events) /\ mainTopic' \in Seq(Events)
           /\ Len(mainTopic) <= Len(mainTopic')
           /\ \A i \in 1..Len(mainTopic) : mainTopic'[i] = mainTopic[i]
<1>1. written \in Seq(Events) /\ mainTopic \in Seq(Events)
  BY DEF TopicsRight
<1>2. CASE \E e \in Events : WriteEvent(e)
  BY <1>1, <1>2 DEF WriteEvent
<1>3. CASE \E s \in Arrivals : Arrive(s)
  <2> PICK s \in Arrivals : Arrive(s)
    BY <1>3
  <2>1. \A x \in Members(written) : x \in Events
    BY <1>1 DEF Members
  <2> PICK n \in 1..MaxBatch : s \in [1..n -> Members(written)]
    BY DEF Arrivals
  <2>2. n \in Nat
    BY TopicAssumption
  <2>3. s \in Seq(Events)
    BY <2>1, <2>2
  <2>4. mainTopic' = mainTopic \o s /\ written' = written
    BY DEF Arrive
  <2>5. /\ mainTopic \o s \in Seq(Events) /\ Len(mainTopic \o s) = Len(mainTopic) + Len(s)
        /\ \A i \in 1..Len(mainTopic) : (mainTopic \o s)[i] = mainTopic[i]
    BY <1>1, <2>3, ConcatProperties
  <2>6. Len(mainTopic) \in Nat /\ Len(s) \in Nat
    BY <1>1, <2>3
  <2> QED
    BY <1>1, <2>4, <2>5, <2>6
<1> QED
  BY <1>2, <1>3 DEF TopicNext

\* Where actors and rungs rest, nobody passes anything.
LEMMA NobodyActs ==
    ASSUME ShapeRight, ShapeRight', UNCHANGED <<actor, ladder, dlq, offset, row, dropped, accepted, doubts>>,
           CountsRight, RetriesRight
    PROVE  CountsRight' /\ RetriesRight'
<1>1. ASSUME NEW e \in Events PROVE Counted(e)'
  <2>1. Holding(e)' = Holding(e)
    BY DEF Holding, Holds, At, Event
  <2>2. Counted(e)
    BY DEF CountsRight
  <2> QED
    BY <2>1, <2>2 DEF Counted
<1>2. ASSUME NEW e \in Events PROVE Carried(e)'
  BY DEF RetriesRight, Carried, Republishing, Waiting, Passed, IsPast, At, Event
<1> QED
  BY <1>1, <1>2 DEF CountsRight, RetriesRight

LEMMA TopicKeeps ==
    ASSUME LedgerInv, TopicNext, UNCHANGED deliveryVars
    PROVE  LedgerInv'
<1> USE DEF LedgerInv, ShapeRight
<1>1. TopicsRight /\ CountersRight /\ ActorsRight
  OBVIOUS
<1>2. /\ written' \in Seq(Events) /\ mainTopic' \in Seq(Events)
      /\ Len(mainTopic) <= Len(mainTopic')
      /\ \A i \in 1..Len(mainTopic) : mainTopic'[i] = mainTopic[i]
  BY <1>1, TopicGrows
<1>3. \A t \in Topics : Grows(Log(t), Log(t)')
  <2> TAKE t \in Topics
  <2>1. CASE t = 0
    BY <1>2, <2>1 DEF Grows, Log
  <2>2. CASE t # 0
    <3>1. Log(t)' = Log(t)
      BY <2>2 DEF Log, deliveryVars
    <3>2. Len(Log(t)) \in Nat
      BY LogIs
    <3> QED
      BY <3>1, <3>2 DEF Grows
  <2> QED
    BY <2>1, <2>2
<1>4. TopicsRight'
  <2>1. \A t \in Topics : offset'[t] <= Len(Log(t)')
    <3> TAKE t \in Topics
    <3>1. offset[t] <= Len(Log(t)) /\ Len(Log(t)) <= Len(Log(t)') /\ offset[t] \in Nat
      BY <1>3 DEF TopicsRight, Grows
    <3>2. Len(Log(t)) \in Nat
      BY LogIs
    <3>3. Len(Log(t)') \in Nat
      <4>1. mainTopic' \in Seq(Events) /\ (t # 0 => Log(t)' = Log(t))
        BY <1>2 DEF Log, deliveryVars
      <4> QED
        BY <3>2, <4>1 DEF Log
    <3> QED
      BY <3>1, <3>2, <3>3 DEF deliveryVars
  <2> QED
    BY <1>2, <2>1 DEF TopicsRight, deliveryVars
<1>5. CountersRight'
  BY DEF CountersRight, deliveryVars
<1>6. ActorsRight'
  <2>1. \A a \in Actors : ActorRight(a)'
    <3> TAKE a \in Actors
    <3>1. ActorRight(a) /\ actor[a] \in Doer /\ actor' = actor
      BY DEF ActorsRight, deliveryVars
    <3> PICK t \in Topics : t = actor[a].topic
      BY <3>1 DEF Doer
    <3>2. Grows(Log(t), Log(t)') /\ Len(Log(t)) \in Nat
      BY <1>3, LogIs
    <3>3. Len(Log(t)') \in Nat
      BY <1>4 DEF Grows, TopicsRight, Log, Topics
    <3>4. ASSUME ~At(a, "idle"), actor[a].via = "topic"
          PROVE  a \in Workers /\ actor[a].at \in 1..Len(Log(t)') /\ Event(a) = Log(t)'[actor[a].at]
      <4>1. a \in Workers /\ actor[a].at \in 1..Len(Log(t)) /\ Event(a) = Log(t)[actor[a].at]
        BY <3>1, <3>4 DEF ActorRight
      <4> QED
        BY <3>2, <3>3, <4>1 DEF Grows
    <3> QED
      BY <3>1, <3>4 DEF ActorRight, At, Event
  <2> QED
    BY <2>1 DEF ActorsRight, deliveryVars
<1>7. ShapeRight'
  BY <1>4, <1>5, <1>6
<1>8. UNCHANGED <<actor, ladder, dlq, offset, row, dropped, accepted, doubts>>
  BY DEF deliveryVars
<1> QED
  BY <1>7, <1>8, NobodyActs

-----------------------------------------------------------------------------
(* The consumer, step by step.                                             *)

\* What a step of one actor that touches no topic leaves right.
LEMMA ShapeStays ==
    ASSUME ShapeRight, UNCHANGED <<topicVars, ladder, owner, offset>>, CountersRight',
           NEW a \in Actors, NEW new \in Doer, actor' = [actor EXCEPT ![a] = new], ActorRight(a)'
    PROVE  ShapeRight'
<1>1. \A t \in Topics : Log(t)' = Log(t)
  BY LogsStay DEF topicVars
<1>2. \A t \in Topics : Grows(Log(t), Log(t)')
  BY <1>1, LogIs DEF Grows, ShapeRight
<1>3. TopicsRight'
  BY <1>1 DEF ShapeRight, TopicsRight, topicVars
<1>4. ActorsRight /\ TopicsRight
  BY DEF ShapeRight
<1>5. ActorsRight'
  BY <1>2, <1>3, <1>4, ActorsKept
<1> QED
  BY <1>3, <1>5 DEF ShapeRight

\* An actor that rests has nothing to be wrong about, and holds nothing.
LEMMA RestIsRight ==
    ASSUME ActorsRight, NEW a \in Actors, actor' = [actor EXCEPT ![a] = Idle]
    PROVE  /\ ActorRight(a)' /\ At(a, "idle")'
           /\ \A e \in Events : ~Holds(a, e)' /\ ~Republishing(a, e)'
<1>1. actor'[a] = Idle
  BY DEF ActorsRight
<1> QED
  BY <1>1, IdleIs DEF ActorRight, At, Holds, Republishing

LEMMA TakeKeeps ==
    ASSUME LedgerInv, NEW w \in Workers, Take(w)
    PROVE  LedgerInv'
<1> USE DEF LedgerInv
<1>1. ShapeRight /\ TopicsRight /\ CountersRight /\ ActorsRight /\ w \in Actors
  BY DeliveryBounds DEF ShapeRight
<1> PICK t \in Topics :
        /\ At(w, "idle") /\ owner[t] = w /\ offset[t] < Len(Log(t))
        /\ actor' = [actor EXCEPT ![w] =
               Doing("read", "topic", Log(t)[offset[t] + 1], t, offset[t] + 1)]
  BY DEF Take
<1> PICK i \in 1..Len(Log(t)) : i = offset[t] + 1
  BY <1>1, LogIs DEF TopicsRight
<1> PICK new : new = [stage |-> "read", via |-> "topic", event |-> Log(t)[i], topic |-> t,
                      at |-> i, fresh |-> FALSE, answer |-> "none", until |-> 0]
  OBVIOUS
<1>2. actor' = [actor EXCEPT ![w] = new]
  BY DEF Doing
<1>3. Log(t) \in Seq(Events) /\ Len(Log(t)) \in Nat
  BY <1>1, LogIs
<1>4. Log(t)[i] \in Events /\ i \in Nat
  BY <1>3
<1>5. new \in Doer
  BY <1>4, DeliveryBounds DEF Doer, Stages, Ways, Answers
<1>6. actor'[w] = new
  BY <1>1, <1>2 DEF ActorsRight
<1>7. Log(t)' = Log(t)
  BY LogsStay DEF Take, topicVars
<1>8. ActorRight(w)'
  BY <1>3, <1>4, <1>6, <1>7 DEF ActorRight, At, Event
<1>9. CountersRight'
  BY <1>1 DEF CountersRight, Take
<1>10. ShapeRight'
  BY <1>1, <1>2, <1>5, <1>8, <1>9, ShapeStays DEF Take
<1>11. ASSUME NEW e \in Events PROVE Counted(e)'
  <2>1. ~Holds(w, e)'
    BY <1>6 DEF Holds, At
  <2>2. Counted(e) /\ accepted'[e] = accepted[e] /\ doubts'[e] = doubts[e] /\ row' = row
    BY DEF CountsRight, Take
  <2>3. OpenTo(row'[e].status) <= OpenTo(row[e].status)
    BY <2>2 DEF OpenTo
  <2> QED
    BY <1>1, <1>2, <1>9, <2>1, <2>2, <2>3, CountStays
<1>12. ASSUME NEW e \in Events PROVE Carried(e)'
  <2>1. new.stage = "read" /\ new.topic \in Topics /\ new.at = offset[new.topic] + 1
    OBVIOUS
  <2>2. PassesAtMost(w)
    BY <1>1, <1>2, <2>1, OthersPass DEF Take
  <2>3. \A b \in Actors \ {w} : actor'[b] = actor[b]
    BY <1>1, <1>2 DEF ActorsRight
  <2>4. ~At(w, "done")' /\ ~Republishing(w, e)
    BY <1>6 DEF At, Republishing
  <2>5. Carried(e) /\ row' = row /\ dropped' = dropped /\ UNCHANGED <<ladder, dlq>>
    BY DEF RetriesRight, Take
  <2> QED
    BY <1>1, <1>10, <2>2, <2>3, <2>4, <2>5, RetriesStay
<1> QED
  BY <1>10, <1>11, <1>12 DEF CountsRight, RetriesRight

\* An actor that goes on with its message.
GoesOnWith(a, new) ==
    /\ ~At(a, "idle") /\ new.event = Event(a)
    /\ new.via = actor[a].via /\ new.topic = actor[a].topic /\ new.at = actor[a].at

LEMMA SameMessage ==
    ASSUME ShapeRight, UNCHANGED <<topicVars, ladder>>,
           NEW a \in Actors, NEW new, actor' = [actor EXCEPT ![a] = new],
           GoesOnWith(a, new), new.stage \in {"read", "republish", "done"} => actor[a].via = "topic",
           new.stage = "answered" => new.answer \in DOMAIN StatusFor
    PROVE  ActorRight(a)'
<1>1. actor'[a] = new /\ ActorRight(a) /\ actor[a] \in Doer
  BY DEF ShapeRight, ActorsRight
<1> PICK t \in Topics : t = actor[a].topic
  BY <1>1 DEF Doer
<1>3. Log(t)' = Log(t)
  BY DEF Log, topicVars
<1> QED
  BY <1>1, <1>3 DEF GoesOnWith, ActorRight, At, Event

\* A step of a that makes nothing fail, and lets no failed message go.
RetryKept(a, e) ==
    /\ row'[e].status = "FAILED" => row[e].status = "FAILED"
    /\ At(a, "done")' /\ ~At(a, "idle") /\ actor[a].topic # 0 /\ Event(a) = e =>
           row'[e].status # "FAILED" \/ e \in dropped'
    /\ Republishing(a, e) => row'[e].status # "FAILED" \/ e \in dropped'
           \/ (\E u \in 1..Rungs : \E j \in 1..Len(ladder[u]) : Waiting(e, u, j))

\* The whole invariant, from what one actor's step does to each event.
LEMMA StepKeeps ==
    ASSUME LedgerInv, UNCHANGED <<topicVars, ladder, dlq, owner, offset>>, CountersRight',
           NEW a \in Actors, NEW new \in Doer, actor' = [actor EXCEPT ![a] = new],
           ActorRight(a)', PassesAtMost(a), dropped \subseteq dropped',
           \A e \in Events : Counted(e)',
           \A e \in Events : Carried(e)' \/ RetryKept(a, e)
    PROVE  LedgerInv'
<1>1. ShapeRight /\ ActorsRight
  BY DEF LedgerInv, ShapeRight
<1>2. ShapeRight'
  BY <1>1, ShapeStays
<1>3. \A b \in Actors \ {a} : actor'[b] = actor[b]
  BY <1>1 DEF ActorsRight
<1>4. ASSUME NEW e \in Events, RetryKept(a, e) PROVE Carried(e)'
  <2>1. Carried(e)
    BY DEF LedgerInv, RetriesRight
  <2>2. row'[e].status = "FAILED" => row[e].status = "FAILED"
    BY <1>4 DEF RetryKept
  <2>3. At(a, "done")' /\ ~At(a, "idle") /\ actor[a].topic # 0 /\ Event(a) = e =>
            row'[e].status # "FAILED" \/ e \in dropped'
    BY <1>4 DEF RetryKept
  <2>4. Republishing(a, e) => row'[e].status # "FAILED" \/ e \in dropped'
            \/ (\E u \in 1..Rungs : \E j \in 1..Len(ladder[u]) : Waiting(e, u, j))
    BY <1>4 DEF RetryKept
  <2> QED
    BY <1>1, <1>2, <1>3, <2>1, <2>2, <2>3, <2>4, RetriesStay
<1> QED
  BY <1>2, <1>4 DEF LedgerInv, CountsRight, RetriesRight

LEMMA ClaimKeeps ==
    ASSUME LedgerInv, NEW w \in Workers, Claim(w)
    PROVE  LedgerInv'
<1> PICK e : e = Event(w)
  OBVIOUS
<1> PICK wanted \in BOOLEAN :
      \E mine \in BOOLEAN :
        /\ mine = (wanted /\ (row[e].status = "NONE" \/ (Reclaims(w) /\ row[e].status \in Reclaimable)))
        /\ row' = [row EXCEPT ![e].status =
               CASE mine -> "PENDING" [] row[e].status = "NONE" /\ ~wanted -> "SUPPRESSED" [] OTHER -> @]
        /\ actor' = [actor EXCEPT ![w].stage = IF mine THEN "claimed" ELSE "done",
                                  ![w].fresh = mine /\ row[e].status = "NONE"]
        /\ dropped' = IF row[e].status = "FAILED" /\ ~wanted THEN dropped \cup {e} ELSE dropped
  BY DEF Claim
<1> PICK mine \in BOOLEAN :
        /\ mine = (wanted /\ (row[e].status = "NONE" \/ (Reclaims(w) /\ row[e].status \in Reclaimable)))
        /\ row' = [row EXCEPT ![e].status =
               CASE mine -> "PENDING" [] row[e].status = "NONE" /\ ~wanted -> "SUPPRESSED" [] OTHER -> @]
        /\ actor' = [actor EXCEPT ![w].stage = IF mine THEN "claimed" ELSE "done",
                                  ![w].fresh = mine /\ row[e].status = "NONE"]
        /\ dropped' = IF row[e].status = "FAILED" /\ ~wanted THEN dropped \cup {e} ELSE dropped
  OBVIOUS
<1>1. /\ ShapeRight /\ TopicsRight /\ CountersRight /\ ActorsRight /\ w \in Actors
      /\ ActorRight(w) /\ actor[w] \in Doer /\ At(w, "read")
  BY DeliveryBounds DEF LedgerInv, ShapeRight, ActorsRight, Claim
<1>2. e \in Events /\ row[e] \in DeliveryRow
  BY <1>1 DEF ActorRight, At, CountersRight
<1> PICK fresh \in BOOLEAN : fresh = (mine /\ row[e].status = "NONE")
  OBVIOUS
<1> PICK stage \in {"claimed", "done"} : stage = IF mine THEN "claimed" ELSE "done"
  OBVIOUS
<1> PICK new : new = [[actor[w] EXCEPT !.stage = stage] EXCEPT !.fresh = fresh]
  OBVIOUS
<1>3. actor' = [actor EXCEPT ![w] = new]
  BY <1>1 DEF ActorsRight
<1>4. new \in Doer
  BY <1>1 DEF Doer, Stages
<1>5. /\ new.stage = stage /\ new.event = e /\ new.via = actor[w].via
      /\ new.topic = actor[w].topic /\ new.at = actor[w].at
  BY <1>1 DEF Doer, Event
<1>6. GoesOnWith(w, new) /\ actor[w].via = "topic" /\ ~At(w, "done") /\ new.stage # "idle"
  BY <1>1, <1>5 DEF GoesOnWith, At, ActorRight
<1>7. actor'[w] = new
  BY <1>1, <1>3 DEF ActorsRight
<1> PICK status : status = CASE mine -> "PENDING" [] row[e].status = "NONE" /\ ~wanted -> "SUPPRESSED" [] OTHER -> row[e].status
  OBVIOUS
<1>8. row' = [row EXCEPT ![e] = [row[e] EXCEPT !.status = status]]
  BY <1>1, <1>2 DEF CountersRight
<1>9. status \in Status
  BY <1>2 DEF Status, DeliveryRow
<1>10. row'[e].status = status /\ row' \in [Events -> DeliveryRow]
       /\ \A f \in Events \ {e} : row'[f] = row[f]
  BY <1>1, <1>2, <1>8, <1>9 DEF CountersRight, DeliveryRow
<1>11. CountersRight'
  BY <1>1, <1>10 DEF CountersRight, Claim
<1>12. ActorRight(w)'
  BY <1>1, <1>3, <1>5, <1>6, SameMessage DEF Claim
<1>13. PassesAtMost(w)
  BY <1>1, <1>3, <1>5, <1>6, WorkPasses DEF Claim, GoesOnWith
<1>14. ASSUME NEW f \in Events PROVE Counted(f)'
  <2>1. Counted(f) /\ accepted' = accepted /\ doubts' = doubts
    BY DEF LedgerInv, CountsRight, Claim
  <2>2. ~Holds(w, f)
    BY <1>1 DEF Holds, At
  <2>3. Holds(w, f)' <=> f = e /\ mine
    BY <1>5, <1>7 DEF Holds, At, Event
  <2>4. CASE f = e /\ mine
    <3>1. OpenTo(row[e].status) = 1 /\ OpenTo(row'[e].status) = 0
      BY <1>10, <2>4 DEF OpenTo, Claimable, Reclaimable
    <3>2. /\ Cardinality(Holding(e)) \in Nat /\ Cardinality(Holding(e)') \in Nat
          /\ ~Holds(w, e) /\ Holds(w, e)' => Cardinality(Holding(e)') = Cardinality(Holding(e)) + 1
      BY <1>1, <1>3, HoldingMoves
    <3>3. accepted[e] \in Nat /\ doubts[e] \in Nat
      BY <1>1, <1>2 DEF CountersRight
    <3>4. Cardinality(Holding(e)') = Cardinality(Holding(e)) + 1
      BY <2>2, <2>3, <2>4, <3>2
    <3>5. accepted[e] + Cardinality(Holding(e)) + OpenTo(row[e].status) <= 1 + doubts[e]
      BY <2>1, <2>4 DEF Counted
    <3>6. accepted[e] + Cardinality(Holding(e)') + OpenTo(row'[e].status) <= 1 + doubts[e]
      BY ONLY <3>1, <3>2, <3>3, <3>4, <3>5
    <3> QED
      BY <2>1, <2>4, <3>6 DEF Counted
  <2>5. CASE ~(f = e /\ mine)
    <3>1. OpenTo(row'[f].status) <= OpenTo(row[f].status)
      BY <1>2, <1>10, <2>5 DEF OpenTo, Claimable
    <3>2. accepted'[f] = accepted[f] /\ doubts'[f] = doubts[f] /\ ~Holds(w, f)'
      BY <2>1, <2>3, <2>5
    <3> QED
      BY <1>1, <1>3, <1>11, <2>1, <3>1, <3>2, CountStays
  <2> QED
    BY <2>4, <2>5
<1>15. \A f \in Events : row'[f].status = "FAILED" => row[f].status = "FAILED"
  BY <1>10
<1>16. \A f \in Events : At(w, "done")' /\ ~At(w, "idle") /\ actor[w].topic # 0 /\ Event(w) = f =>
           row'[f].status # "FAILED" \/ f \in dropped'
  <2>1. At(w, "done")' => ~mine
    BY <1>5, <1>7 DEF At
  <2>2. ~mine /\ actor[w].topic # 0 /\ row[e].status = "FAILED" => e \in dropped'
    BY DEF Reclaims, Reclaimable
  <2> QED
    BY <1>15, <2>1, <2>2
<1>17. \A f \in Events : ~Republishing(w, f)
  BY <1>1 DEF Republishing, At
<1>18. dropped \subseteq dropped'
  OBVIOUS
<1>19. UNCHANGED <<topicVars, ladder, dlq, owner, offset>>
  BY DEF Claim
<1>20. \A f \in Events : RetryKept(w, f)
  BY <1>15, <1>16, <1>17 DEF RetryKept
<1> QED
  BY <1>1, <1>3, <1>4, <1>11, <1>12, <1>13, <1>14, <1>18, <1>19, <1>20, StepKeeps

\* What the database did not answer is taken for a duplicate.
LEMMA ClaimFailsKeeps ==
    ASSUME LedgerInv, NEW w \in Workers, ClaimFails(w)
    PROVE  LedgerInv'
<1> PICK e : e = Event(w)
  OBVIOUS
<1>1. /\ ShapeRight /\ TopicsRight /\ CountersRight /\ ActorsRight /\ w \in Actors
      /\ ActorRight(w) /\ actor[w] \in Doer /\ At(w, "read")
  BY DeliveryBounds DEF LedgerInv, ShapeRight, ActorsRight, ClaimFails
<1>2. e \in Events
  BY <1>1 DEF ActorRight, At
<1> PICK new : new = [actor[w] EXCEPT !.stage = "done"]
  OBVIOUS
<1>3. actor' = [actor EXCEPT ![w] = new]
  BY <1>1 DEF ActorsRight, ClaimFails, Becomes
<1>4. new \in Doer
  BY <1>1 DEF Doer, Stages
<1>5. /\ new.stage = "done" /\ new.event = e /\ new.via = actor[w].via
      /\ new.topic = actor[w].topic /\ new.at = actor[w].at
  BY <1>1 DEF Doer, Event
<1>6. GoesOnWith(w, new) /\ actor[w].via = "topic" /\ ~At(w, "done") /\ new.stage # "idle"
  BY <1>1, <1>5 DEF GoesOnWith, At, ActorRight
<1>7. actor'[w] = new
  BY <1>1, <1>3 DEF ActorsRight
<1>8. failures' \in 0..MaxFailures
  BY <1>1, DeliveryBounds DEF CountersRight, ClaimFails, Fails
<1>9. CountersRight'
  BY <1>1, <1>8 DEF CountersRight, ClaimFails
<1>10. ActorRight(w)'
  BY <1>1, <1>3, <1>5, <1>6, SameMessage DEF ClaimFails
<1>11. PassesAtMost(w)
  BY <1>1, <1>3, <1>5, <1>6, WorkPasses DEF ClaimFails, GoesOnWith
<1>12. ASSUME NEW f \in Events PROVE Counted(f)'
  <2>1. Counted(f) /\ accepted' = accepted /\ doubts' = doubts /\ row' = row
    BY DEF LedgerInv, CountsRight, ClaimFails
  <2>2. ~Holds(w, f)'
    BY <1>5, <1>7 DEF Holds, At
  <2>3. OpenTo(row'[f].status) <= OpenTo(row[f].status)
    BY <2>1 DEF OpenTo
  <2> QED
    BY <1>1, <1>3, <1>9, <2>1, <2>2, <2>3, CountStays
<1>13. \A f \in Events : row'[f].status = "FAILED" => row[f].status = "FAILED"
  BY DEF ClaimFails
<1>14. \A f \in Events : At(w, "done")' /\ ~At(w, "idle") /\ actor[w].topic # 0 /\ Event(w) = f =>
           row'[f].status # "FAILED" \/ f \in dropped'
  BY DEF ClaimFails
<1>15. \A f \in Events : ~Republishing(w, f)
  BY <1>1 DEF Republishing, At
<1>16. dropped \subseteq dropped' /\ UNCHANGED <<topicVars, ladder, dlq, owner, offset>>
  BY DEF ClaimFails
<1>17. \A f \in Events : RetryKept(w, f)
  BY <1>13, <1>14, <1>15 DEF RetryKept
<1> QED
  BY <1>1, <1>3, <1>4, <1>9, <1>10, <1>11, <1>12, <1>16, <1>17, StepKeeps

\* What Send, AnswerLost and MarkSentFails have in common: an actor that has
\* claimed, or been answered, is answered, and the row is left for later.
LEMMA AnswerKeeps ==
    ASSUME LedgerInv, UNCHANGED <<topicVars, ladder, dlq, owner, offset, row, dropped>>,
           CountersRight', NEW a \in Actors, At(a, "claimed") \/ At(a, "answered"),
           NEW x \in DOMAIN StatusFor, NEW late \in 0..(MaxHour + 1),
           actor' = [actor EXCEPT ![a] = [[[actor[a] EXCEPT !.stage = "answered"] EXCEPT !.answer = x]
                                              EXCEPT !.until = late]],
           NEW more \in 0..1, NEW doubt \in 0..1,
           \A e \in Events \ {Event(a)} : accepted'[e] = accepted[e] /\ doubts'[e] = doubts[e],
           accepted'[Event(a)] = accepted[Event(a)] + more,
           doubts'[Event(a)] = doubts[Event(a)] + doubt,
           more + OneIf(x # "accepted") <= doubt + OneIf(Holds(a, Event(a)))
    PROVE  LedgerInv'
<1>1. /\ ShapeRight /\ TopicsRight /\ CountersRight /\ ActorsRight
      /\ ActorRight(a) /\ actor[a] \in Doer
  BY DEF LedgerInv, ShapeRight, ActorsRight
<1> PICK e : e = Event(a)
  OBVIOUS
<1>2. e \in Events
  BY <1>1 DEF ActorRight, At
<1> PICK new : new = [[[actor[a] EXCEPT !.stage = "answered"] EXCEPT !.answer = x] EXCEPT !.until = late]
  OBVIOUS
<1>3. actor' = [actor EXCEPT ![a] = new]
  OBVIOUS
<1>4. new \in Doer
  <2>1. x \in Answers /\ "answered" \in Stages
    BY StatusForIs DEF Answers, Stages
  <2> QED
    BY <1>1, <2>1 DEF Doer
<1>5. /\ new.stage = "answered" /\ new.answer = x /\ new.event = e /\ new.via = actor[a].via
      /\ new.topic = actor[a].topic /\ new.at = actor[a].at
  BY <1>1 DEF Doer, Event
<1>6. GoesOnWith(a, new) /\ ~At(a, "done") /\ new.stage # "idle"
  BY <1>5 DEF GoesOnWith, At
<1>7. actor'[a] = new
  BY <1>1, <1>3 DEF ActorsRight
<1>8. ActorRight(a)'
  BY <1>1, <1>3, <1>5, <1>6, SameMessage
<1>9. PassesAtMost(a)
  BY <1>1, <1>3, <1>5, <1>6, WorkPasses DEF GoesOnWith
<1>10. ASSUME NEW f \in Events PROVE Counted(f)'
  <2>1. Counted(f) /\ OpenTo(row'[f].status) = OpenTo(row[f].status) /\ OpenTo(row[f].status) \in 0..1
    BY DEF LedgerInv, CountsRight, OpenTo
  <2>2. CASE f = e
    <3>1. Holds(a, e)' <=> x # "accepted"
      BY <1>5, <1>7 DEF Holds, At, Event
    <3>2. OneIf(Holds(a, e)') = OneIf(x # "accepted")
      BY <3>1 DEF OneIf
    <3>3. OneIf(Holds(a, e)) \in 0..1 /\ OneIf(x # "accepted") \in 0..1
      BY DEF OneIf
    <3>4. more + OneIf(Holds(a, e)') + OpenTo(row'[e].status)
              <= doubt + OneIf(Holds(a, e)) + OpenTo(row[e].status)
      BY <2>1, <2>2, <3>2, <3>3
    <3>5. more \in Nat /\ doubt \in Nat /\ accepted'[e] = accepted[e] + more /\ doubts'[e] = doubts[e] + doubt
      OBVIOUS
    <3>6. Counted(e)
      BY <2>1, <2>2
    <3>7. Counted(e)'
      BY <1>1, <1>2, <1>3, <3>4, <3>5, <3>6, CountMoves
    <3> QED
      BY <2>2, <3>7
  <2>3. CASE f # e
    <3>1. ~Holds(a, f)'
      BY <1>5, <1>7, <2>3 DEF Holds, Event
    <3>2. accepted'[f] = accepted[f] /\ doubts'[f] = doubts[f]
      BY <2>3
    <3>3. OpenTo(row'[f].status) <= OpenTo(row[f].status)
      BY <2>1
    <3> QED
      BY <1>1, <1>3, <2>1, <3>1, <3>2, <3>3, CountStays
  <2> QED
    BY <2>2, <2>3
<1>11. \A f \in Events : row'[f].status = "FAILED" => row[f].status = "FAILED"
  OBVIOUS
<1>12. ~At(a, "done")' /\ \A f \in Events : ~Republishing(a, f)
  BY <1>5, <1>7 DEF Republishing, At
<1>13. \A f \in Events : RetryKept(a, f)
  BY <1>11, <1>12 DEF RetryKept
<1> QED
  BY <1>3, <1>4, <1>8, <1>9, <1>10, <1>13, StepKeeps

LEMMA SendKeeps ==
    ASSUME LedgerInv, NEW a \in Actors, Send(a)
    PROVE  LedgerInv'
<1>1. /\ CountersRight /\ ActorsRight /\ ActorRight(a) /\ actor[a] \in Doer /\ At(a, "claimed")
  BY DEF LedgerInv, ShapeRight, ActorsRight, Send
<1> PICK x \in Finds(a) :
        /\ actor' = [actor EXCEPT ![a].stage = "answered", ![a].answer = x,
                                  ![a].until = IF x = "deferred" THEN hour + 1 ELSE 0]
        /\ accepted' = IF x = "accepted" THEN [accepted EXCEPT ![Event(a)] = @ + 1] ELSE accepted
  BY DEF Send
<1>2. Event(a) \in Events
  BY <1>1 DEF ActorRight, At
<1>3. x \in DOMAIN StatusFor
  BY StatusForIs DEF Finds
<1> PICK late : late = IF x = "deferred" THEN hour + 1 ELSE 0
  OBVIOUS
<1>4. late \in 0..(MaxHour + 1)
  BY <1>1, DeliveryBounds DEF CountersRight
<1>5. actor' = [actor EXCEPT ![a] = [[[actor[a] EXCEPT !.stage = "answered"] EXCEPT !.answer = x]
                                        EXCEPT !.until = late]]
  BY <1>1 DEF ActorsRight
<1> PICK more \in 0..1 : more = OneIf(x = "accepted")
  BY DEF OneIf
<1>6. /\ accepted' \in [Events -> Nat] /\ accepted'[Event(a)] = accepted[Event(a)] + more
      /\ \A e \in Events \ {Event(a)} : accepted'[e] = accepted[e]
  BY <1>1, <1>2 DEF CountersRight, OneIf
<1>7. doubts'[Event(a)] = doubts[Event(a)] + 0 /\ \A e \in Events \ {Event(a)} : doubts'[e] = doubts[e]
  BY <1>1, <1>2 DEF CountersRight, Send
<1>8. CountersRight'
  BY <1>1, <1>6 DEF CountersRight, Send
<1>9. OneIf(Holds(a, Event(a))) = 1
  BY <1>1 DEF Holds, OneIf
<1>10. more + OneIf(x # "accepted") <= 0 + OneIf(Holds(a, Event(a)))
  <2>1. more + OneIf(x # "accepted") <= 1
    BY DEF OneIf
  <2> QED
    BY <1>9, <2>1
<1>11. UNCHANGED <<topicVars, ladder, dlq, owner, offset, row, dropped>>
  BY DEF Send
<1> PICK doubt \in 0..1 : doubt = 0
  OBVIOUS
<1>12. /\ \A e \in Events \ {Event(a)} : accepted'[e] = accepted[e] /\ doubts'[e] = doubts[e]
       /\ accepted'[Event(a)] = accepted[Event(a)] + more
       /\ doubts'[Event(a)] = doubts[Event(a)] + doubt
       /\ more + OneIf(x # "accepted") <= doubt + OneIf(Holds(a, Event(a)))
  BY <1>6, <1>7, <1>10
<1>13. LedgerInv /\ a \in Actors /\ more \in 0..1 /\ doubt \in 0..1
  OBVIOUS
<1>14. At(a, "claimed") \/ At(a, "answered")
  BY <1>1
<1> QED
  BY ONLY <1>3, <1>4, <1>5, <1>8, <1>11, <1>12, <1>13, <1>14, AnswerKeeps

LEMMA AnswerLostKeeps ==
    ASSUME LedgerInv, NEW a \in Actors, AnswerLost(a)
    PROVE  LedgerInv'
<1>1. /\ CountersRight /\ ActorsRight /\ ActorRight(a) /\ actor[a] \in Doer /\ At(a, "claimed")
  BY DEF LedgerInv, ShapeRight, ActorsRight, AnswerLost
<1>2. Event(a) \in Events
  BY <1>1 DEF ActorRight, At
<1> PICK x : x = ErrorOf(a)
  OBVIOUS
<1>3. x \in DOMAIN StatusFor
  BY StatusForIs DEF ErrorOf
<1> PICK late : late = actor[a].until
  OBVIOUS
<1>4. late \in 0..(MaxHour + 1)
  BY <1>1 DEF Doer
<1>5. actor' = [actor EXCEPT ![a] = [[[actor[a] EXCEPT !.stage = "answered"] EXCEPT !.answer = x]
                                        EXCEPT !.until = late]]
  <2>1. actor' = [actor EXCEPT ![a] = [[actor[a] EXCEPT !.stage = "answered"] EXCEPT !.answer = x]]
    BY <1>1 DEF ActorsRight, AnswerLost
  <2>2. [[[actor[a] EXCEPT !.stage = "answered"] EXCEPT !.answer = x] EXCEPT !.until = late]
          = [[actor[a] EXCEPT !.stage = "answered"] EXCEPT !.answer = x]
    BY <1>1 DEF Doer
  <2> QED
    BY <2>1, <2>2
<1>6. /\ accepted' \in [Events -> Nat] /\ accepted'[Event(a)] = accepted[Event(a)] + 1
      /\ doubts' \in [Events -> Nat] /\ doubts'[Event(a)] = doubts[Event(a)] + 1
      /\ \A e \in Events \ {Event(a)} : accepted'[e] = accepted[e] /\ doubts'[e] = doubts[e]
  BY <1>1, <1>2 DEF CountersRight, AnswerLost, Doubted
<1>7. failures' \in 0..MaxFailures
  BY <1>1, DeliveryBounds DEF CountersRight, AnswerLost, Fails
<1>8. CountersRight'
  BY <1>1, <1>6, <1>7 DEF CountersRight, AnswerLost
<1>9. OneIf(Holds(a, Event(a))) = 1
  BY <1>1 DEF Holds, OneIf
<1>10. 1 + OneIf(x # "accepted") <= 1 + OneIf(Holds(a, Event(a)))
  <2>1. OneIf(x # "accepted") \in 0..1
    BY DEF OneIf
  <2> QED
    BY <1>9, <2>1
<1>11. UNCHANGED <<topicVars, ladder, dlq, owner, offset, row, dropped>>
  BY DEF AnswerLost
<1> PICK more \in 0..1, doubt \in 0..1 : more = 1 /\ doubt = 1
  OBVIOUS
<1>12. /\ \A e \in Events \ {Event(a)} : accepted'[e] = accepted[e] /\ doubts'[e] = doubts[e]
       /\ accepted'[Event(a)] = accepted[Event(a)] + more
       /\ doubts'[Event(a)] = doubts[Event(a)] + doubt
       /\ more + OneIf(x # "accepted") <= doubt + OneIf(Holds(a, Event(a)))
  BY <1>6, <1>10
<1> QED
  BY <1>1, <1>3, <1>4, <1>5, <1>8, <1>11, <1>12, AnswerKeeps

LEMMA MarkSentFailsKeeps ==
    ASSUME LedgerInv, NEW a \in Actors, MarkSentFails(a)
    PROVE  LedgerInv'
<1>1. /\ CountersRight /\ ActorsRight /\ ActorRight(a) /\ actor[a] \in Doer /\ At(a, "answered")
  BY DEF LedgerInv, ShapeRight, ActorsRight, MarkSentFails
<1>2. Event(a) \in Events
  BY <1>1 DEF ActorRight, At
<1> PICK x : x = ErrorOf(a)
  OBVIOUS
<1>3. x \in DOMAIN StatusFor
  BY StatusForIs DEF ErrorOf
<1> PICK late : late = actor[a].until
  OBVIOUS
<1>4. late \in 0..(MaxHour + 1)
  BY <1>1 DEF Doer
<1>5. actor' = [actor EXCEPT ![a] = [[[actor[a] EXCEPT !.stage = "answered"] EXCEPT !.answer = x]
                                        EXCEPT !.until = late]]
  <2>1. actor' = [actor EXCEPT ![a] = [actor[a] EXCEPT !.answer = x]]
    BY <1>1 DEF ActorsRight, MarkSentFails, Becomes
  <2>2. [[[actor[a] EXCEPT !.stage = "answered"] EXCEPT !.answer = x] EXCEPT !.until = late]
          = [actor[a] EXCEPT !.answer = x]
    BY <1>1 DEF Doer, At
  <2> QED
    BY <2>1, <2>2
<1>6. /\ doubts' \in [Events -> Nat] /\ doubts'[Event(a)] = doubts[Event(a)] + 1
      /\ \A e \in Events \ {Event(a)} : doubts'[e] = doubts[e]
      /\ accepted'[Event(a)] = accepted[Event(a)] + 0
      /\ \A e \in Events \ {Event(a)} : accepted'[e] = accepted[e]
  BY <1>1, <1>2 DEF CountersRight, MarkSentFails, Doubted
<1>7. failures' \in 0..MaxFailures
  BY <1>1, DeliveryBounds DEF CountersRight, MarkSentFails, Fails
<1>8. CountersRight'
  BY <1>1, <1>6, <1>7 DEF CountersRight, MarkSentFails
<1>9. 0 + OneIf(x # "accepted") <= 1 + OneIf(Holds(a, Event(a)))
  BY DEF OneIf
<1>10. UNCHANGED <<topicVars, ladder, dlq, owner, offset, row, dropped>>
  BY DEF MarkSentFails
<1>11. 0 \in 0..1 /\ 1 \in 0..1
  OBVIOUS
<1> QED
  BY <1>1, <1>3, <1>4, <1>5, <1>6, <1>8, <1>9, <1>10, <1>11, AnswerKeeps

\* What the answer was is written, whatever the row says by then.
LEMMA MarkKeeps ==
    ASSUME LedgerInv, NEW a \in Actors, Mark(a)
    PROVE  LedgerInv'
<1>1. /\ ShapeRight /\ TopicsRight /\ CountersRight /\ ActorsRight
      /\ ActorRight(a) /\ actor[a] \in Doer /\ At(a, "answered")
  BY DEF LedgerInv, ShapeRight, ActorsRight, Mark
<1> PICK e, x : e = Event(a) /\ x = actor[a].answer
  OBVIOUS
<1>2. e \in Events /\ x \in DOMAIN StatusFor
  BY <1>1 DEF ActorRight, At
<1> PICK status : status = StatusFor[x]
  OBVIOUS
<1> PICK worker \in BOOLEAN : worker <=> actor[a].via = "topic"
  OBVIOUS
<1> PICK stage \in {"republish", "done"} : stage = IF x = "transient" THEN "republish" ELSE "done"
  OBVIOUS
<1> PICK busy : busy = [[[[actor[a] EXCEPT !.stage = stage] EXCEPT !.answer = "none"]
                            EXCEPT !.until = 0] EXCEPT !.fresh = FALSE]
  OBVIOUS
<1> PICK new : new = IF worker THEN busy ELSE Idle
  OBVIOUS
<1>3. actor' = [actor EXCEPT ![a] = new]
  <2>1. actor' = [actor EXCEPT ![a] =
               IF worker
               THEN [actor[a] EXCEPT !.stage = IF x = "transient" THEN "republish" ELSE "done",
                              !.answer = "none", !.until = 0, !.fresh = FALSE]
               ELSE Idle]
    BY <1>1 DEF ActorsRight, Mark
  <2>2. [actor[a] EXCEPT !.stage = IF x = "transient" THEN "republish" ELSE "done",
                              !.answer = "none", !.until = 0, !.fresh = FALSE] = busy
    OBVIOUS
  <2> QED
    BY <2>1, <2>2
<1>4. busy \in Doer /\ busy.stage = stage /\ busy.event = e /\ busy.via = actor[a].via
      /\ busy.topic = actor[a].topic /\ busy.at = actor[a].at
  <2>1. [actor[a] EXCEPT !.stage = stage] \in Doer
    BY <1>1 DEF Doer, Stages
  <2>2. [[actor[a] EXCEPT !.stage = stage] EXCEPT !.answer = "none"] \in Doer
    BY <2>1 DEF Doer, Answers
  <2>3. 0 \in 0..(MaxHour + 1)
    BY DeliveryBounds
  <2>4. [[[actor[a] EXCEPT !.stage = stage] EXCEPT !.answer = "none"] EXCEPT !.until = 0] \in Doer
    BY <2>2, <2>3 DEF Doer
  <2>5. busy \in Doer
    BY <2>4 DEF Doer
  <2> QED
    BY <1>1, <2>5 DEF Doer, Event
<1>5. new \in Doer
  BY <1>4, IdleIs
<1>6. actor'[a] = new
  BY <1>1, <1>3 DEF ActorsRight
<1>7. status \in Status /\ actor[a].until \in 0..(MaxHour + 1)
  BY <1>1, <1>2, StatusForIs DEF Doer
<1>8. row' = [row EXCEPT ![e] = [status |-> status, notBefore |-> actor[a].until]]
  BY DEF Mark
<1>9. /\ row' \in [Events -> DeliveryRow] /\ row'[e].status = status
      /\ \A f \in Events \ {e} : row'[f] = row[f]
  BY <1>1, <1>2, <1>7, <1>8 DEF CountersRight, DeliveryRow
<1>10. CountersRight'
  BY <1>1, <1>9 DEF CountersRight, Mark
<1>11. UNCHANGED <<topicVars, ladder, dlq, owner, offset>>
  BY DEF Mark
<1>12. ASSUME worker
       PROVE  GoesOnWith(a, new) /\ ActorRight(a)' /\ PassesAtMost(a)
  <2>1. new = busy /\ GoesOnWith(a, new) /\ ~At(a, "done") /\ new.stage # "idle" /\ new.stage # "answered"
    BY <1>1, <1>4, <1>12 DEF GoesOnWith, At
  <2>2. ActorRight(a)'
    BY <1>1, <1>3, <1>11, <1>12, <2>1, SameMessage
  <2>3. PassesAtMost(a)
    BY <1>1, <1>3, <1>11, <2>1, WorkPasses DEF GoesOnWith
  <2> QED
    BY <2>1, <2>2, <2>3
<1>13. ASSUME ~worker
       PROVE  ActorRight(a)' /\ PassesAtMost(a) /\ At(a, "idle")'
  <2>1. new = Idle /\ new.stage = "idle"
    BY <1>13, IdleIs
  <2>2. ActorRight(a)' /\ At(a, "idle")'
    BY <1>1, <1>3, <2>1, RestIsRight
  <2>3. PassesAtMost(a)
    BY <1>1, <1>3, <1>11, <2>1, OthersPass
  <2> QED
    BY <2>2, <2>3
<1>14. ActorRight(a)' /\ PassesAtMost(a)
  BY <1>12, <1>13
<1>15. \A f \in Events : ~Holds(a, f)'
  BY <1>4, <1>6, IdleIs DEF Holds, At
<1>16. ASSUME NEW f \in Events PROVE Counted(f)'
  <2>1. Counted(f) /\ accepted' = accepted /\ doubts' = doubts /\ ~Holds(a, f)'
    BY <1>15 DEF LedgerInv, CountsRight, Mark
  <2>2. CASE f # e
    <3>1. OpenTo(row'[f].status) <= OpenTo(row[f].status)
      BY <1>9, <2>2 DEF OpenTo
    <3> QED
      BY <1>1, <1>3, <1>10, <2>1, <3>1, CountStays
  <2>3. CASE f = e /\ x = "accepted"
    <3>1. OpenTo(row'[f].status) <= OpenTo(row[f].status)
      BY <1>9, <2>3, StatusForIs DEF OpenTo, Claimable
    <3> QED
      BY <1>1, <1>3, <1>10, <2>1, <3>1, CountStays
  <2>4. CASE f = e /\ x # "accepted"
    <3>1. Holds(a, f)
      BY <1>1, <2>4 DEF Holds
    <3>2. OneIf(Holds(a, f)) = 1 /\ OneIf(Holds(a, f)') = 0
      BY <2>1, <3>1 DEF OneIf
    <3>3. OpenTo(row'[f].status) \in 0..1 /\ OpenTo(row[f].status) \in 0..1
      BY DEF OpenTo
    <3> PICK more \in Nat, doubt \in Nat : more = 0 /\ doubt = 0
      OBVIOUS
    <3>4. /\ more + OneIf(Holds(a, f)') + OpenTo(row'[f].status)
                 <= doubt + OneIf(Holds(a, f)) + OpenTo(row[f].status)
          /\ accepted'[f] = accepted[f] + more /\ doubts'[f] = doubts[f] + doubt
      BY <1>1, <2>1, <3>2, <3>3 DEF CountersRight
    <3> QED
      BY <1>1, <1>3, <1>10, <2>1, <3>4, CountMoves
  <2> QED
    BY <2>2, <2>3, <2>4
<1>17. ASSUME NEW f \in Events PROVE Carried(f)' \/ RetryKept(a, f)
  <2>1. ~Republishing(a, f)
    BY <1>1 DEF Republishing, At
  <2>2. CASE f # e
    <3>1. row'[f] = row[f] /\ Event(a) # f
      BY <1>9, <2>2
    <3> QED
      BY <2>1, <3>1 DEF RetryKept
  <2>3. CASE f = e /\ x # "transient"
    <3>1. row'[f].status # "FAILED"
      BY <1>2, <1>9, <2>3, StatusForIs
    <3> QED
      BY <2>1, <3>1 DEF RetryKept
  <2>4. CASE f = e /\ x = "transient" /\ worker
    <3>1. At(a, "republish")' /\ Event(a)' = f
      BY <1>4, <1>6, <2>4 DEF At, Event
    <3>2. a \in Workers
      BY <1>1, <2>4 DEF ActorRight, At
    <3> QED
      BY <3>1, <3>2 DEF Carried, Republishing
  <2>5. CASE f = e /\ x = "transient" /\ ~worker
    <3>1. f \in dropped'
      BY <2>5 DEF Mark
    <3> QED
      BY <3>1 DEF Carried
  <2> QED
    BY <2>2, <2>3, <2>4, <2>5
<1>18. dropped \subseteq dropped' /\ UNCHANGED <<topicVars, ladder, dlq, owner, offset>>
  BY DEF Mark
<1> QED
  BY <1>3, <1>5, <1>10, <1>14, <1>16, <1>17, <1>18, StepKeeps

\* A retry goes to the end of the next rung, or to the dead letters.
LEMMA PassedOnIs ==
    ASSUME ShapeRight, NEW w \in Workers, At(w, "republish"), PassedOn(w),
           UNCHANGED <<topicVars, owner, offset>>
    PROVE  /\ TopicsRight' /\ dlq' \subseteq Events /\ dlq \subseteq dlq'
           /\ \A t \in Topics : Grows(Log(t), Log(t)')
           /\ \A t \in 1..Rungs : Grows(ladder[t], ladder'[t])
           /\ \/ Event(w) \in dlq'
              \/ \E u \in 1..Rungs : /\ Len(ladder'[u]) = Len(ladder[u]) + 1
                                     /\ ladder'[u][Len(ladder[u]) + 1] = Event(w)
<1> PICK e : e = Event(w)
  OBVIOUS
<1>1. /\ TopicsRight /\ CountersRight /\ ActorRight(w) /\ actor[w] \in Doer /\ Rungs \in Nat
      /\ ladder \in [1..Rungs -> Seq(Events)]
  BY DeliveryBounds DEF ShapeRight, ActorsRight, TopicsRight
<1>2. e \in Events
  BY <1>1 DEF ActorRight, At
<1> PICK u \in Nat : u = actor[w].topic + 1
  BY <1>1 DEF Doer, Topics
<1>3. u \in 1..Rungs \/ u = Rungs + 1
  BY <1>1 DEF Doer, Topics
<1>4. CASE u \in 1..Rungs
  <2>1. ladder' = [ladder EXCEPT ![u] = Append(ladder[u], e)] /\ dlq' = dlq
    BY <1>1, <1>4 DEF PassedOn
  <2>2. /\ Append(ladder[u], e) \in Seq(Events) /\ Len(Append(ladder[u], e)) = Len(ladder[u]) + 1
        /\ \A i \in 1..Len(ladder[u]) : Append(ladder[u], e)[i] = ladder[u][i]
        /\ Append(ladder[u], e)[Len(ladder[u]) + 1] = e /\ Len(ladder[u]) \in Nat
    BY <1>1, <1>2, <1>4
  <2>3. /\ ladder' \in [1..Rungs -> Seq(Events)] /\ ladder'[u] = Append(ladder[u], e)
        /\ \A t \in 1..Rungs \ {u} : ladder'[t] = ladder[t]
    BY <1>1, <1>4, <2>1, <2>2
  <2>4. \A t \in 1..Rungs : Grows(ladder[t], ladder'[t])
    <3> TAKE t \in 1..Rungs
    <3>1. Len(ladder[t]) \in Nat
      BY <1>1
    <3>2. CASE t = u
      BY <2>2, <2>3, <3>2 DEF Grows
    <3>3. CASE t # u
      <4>1. ladder'[t] = ladder[t]
        BY <2>3, <3>3
      <4> QED
        BY <3>1, <4>1 DEF Grows
    <3> QED
      BY <3>2, <3>3
  <2>5. mainTopic' = mainTopic /\ written' = written /\ owner' = owner /\ offset' = offset
    BY DEF topicVars
  <2>6. \A t \in Topics : Grows(Log(t), Log(t)')
    <3> TAKE t \in Topics
    <3>1. CASE t = 0
      <4>1. Len(mainTopic) \in Nat
        BY <1>1 DEF TopicsRight
      <4> QED
        BY <2>5, <3>1, <4>1 DEF Grows, Log
    <3>2. CASE t # 0
      <4>1. t \in 1..Rungs
        BY <1>1, <3>2 DEF Topics
      <4>2. Grows(ladder[t], ladder'[t])
        BY <2>4, <4>1
      <4> QED
        BY <3>2, <4>2 DEF Log
    <3> QED
      BY <3>1, <3>2
  <2>7. \A t \in Topics : offset'[t] <= Len(Log(t)')
    <3> TAKE t \in Topics
    <3>1. Log(t)' \in Seq(Events)
      <4>1. CASE t = 0
        BY <1>1, <2>5, <4>1 DEF Log, TopicsRight
      <4>2. CASE t # 0
        <5>1. t \in 1..Rungs
          BY <1>1, <4>2 DEF Topics
        <5> QED
          BY <2>3, <4>2, <5>1 DEF Log
      <4> QED
        BY <4>1, <4>2
    <3>2. Len(Log(t)') \in Nat /\ Len(Log(t)) \in Nat
      BY <1>1, <3>1, LogIs
    <3>3. offset[t] <= Len(Log(t)) /\ Len(Log(t)) <= Len(Log(t)') /\ offset[t] \in Nat
      BY <1>1, <2>6 DEF TopicsRight, Grows
    <3> QED
      BY <2>5, <3>2, <3>3
  <2>8. TopicsRight'
    BY <1>1, <2>3, <2>5, <2>7 DEF TopicsRight
  <2>9. dlq' \subseteq Events /\ dlq \subseteq dlq'
    BY <1>1, <2>1 DEF CountersRight
  <2>10. Len(ladder'[u]) = Len(ladder[u]) + 1 /\ ladder'[u][Len(ladder[u]) + 1] = Event(w)
    BY <2>2, <2>3
  <2> QED
    BY <1>4, <2>4, <2>6, <2>8, <2>9, <2>10
<1>5. CASE u = Rungs + 1
  <2>1. dlq' = dlq \cup {e} /\ ladder' = ladder
    BY <1>1, <1>5 DEF PassedOn
  <2>2. \A t \in Topics : Log(t)' = Log(t)
    BY <2>1 DEF Log, topicVars
  <2>3. \A t \in Topics : Grows(Log(t), Log(t)')
    BY <1>1, <2>2, LogIs DEF Grows
  <2>4. \A t \in 1..Rungs : Grows(ladder[t], ladder'[t])
    BY <1>1, <2>1 DEF Grows
  <2>5. TopicsRight'
    BY <1>1, <2>1, <2>2 DEF TopicsRight, topicVars
  <2> QED
    BY <1>1, <1>2, <2>1, <2>3, <2>4, <2>5 DEF CountersRight
<1> QED
  BY <1>3, <1>4, <1>5

LEMMA PassedOnKeeps ==
    ASSUME LedgerInv, NEW w \in Workers, At(w, "republish"), PassedOn(w), CountersRight',
           UNCHANGED <<topicVars, owner, offset, row, accepted, doubts, dropped>>,
           NEW new \in Doer, actor' = [actor EXCEPT ![w] = new],
           (GoesOnWith(w, new) /\ new.stage = "done") \/ new = Idle
    PROVE  LedgerInv'
<1> PICK e : e = Event(w)
  OBVIOUS
<1>1. /\ ShapeRight /\ TopicsRight /\ CountersRight /\ ActorsRight
      /\ ActorRight(w) /\ actor[w] \in Doer /\ w \in Actors
  BY DeliveryBounds DEF LedgerInv, ShapeRight, ActorsRight
<1>2. /\ TopicsRight' /\ dlq' \subseteq Events /\ dlq \subseteq dlq'
      /\ \A t \in Topics : Grows(Log(t), Log(t)')
      /\ \A t \in 1..Rungs : Grows(ladder[t], ladder'[t])
      /\ \/ e \in dlq'
         \/ \E u \in 1..Rungs : /\ Len(ladder'[u]) = Len(ladder[u]) + 1
                                /\ ladder'[u][Len(ladder[u]) + 1] = e
  BY <1>1, PassedOnIs
<1>3. actor'[w] = new /\ \A b \in Actors \ {w} : actor'[b] = actor[b]
  BY <1>1 DEF ActorsRight
<1> PICK t \in Topics, i \in Nat : t = actor[w].topic /\ i = actor[w].at
  BY <1>1 DEF Doer
<1>4. /\ actor[w].via = "topic" /\ ~At(w, "idle") /\ ~At(w, "done")
      /\ i \in 1..Len(Log(t)) /\ e = Log(t)[i] /\ e \in Events
  BY <1>1 DEF ActorRight, At
<1>5. Len(Log(t)) \in Nat /\ Len(Log(t)) <= Len(Log(t)') /\ Log(t)'[i] = Log(t)[i]
  BY <1>1, <1>2, <1>4, LogIs DEF Grows
<1>6. Len(Log(t)') \in Nat
  BY <1>2 DEF TopicsRight, Log, Topics
<1>7. ActorRight(w)' /\ PassesAtMost(w) /\ ~Holds(w, e)'
  <2>1. CASE GoesOnWith(w, new) /\ new.stage = "done"
    <3>1. /\ new.event = e /\ new.via = "topic" /\ new.topic = t /\ new.at = i
      BY <1>4, <2>1 DEF GoesOnWith
    <3>2. i \in 1..Len(Log(t)') /\ Log(t)'[i] = e
      BY <1>4, <1>5, <1>6
    <3>3. ActorRight(w)'
      BY <1>3, <1>4, <2>1, <3>1, <3>2 DEF ActorRight, At, Event
    <3>4. PassesAtMost(w)
      BY <1>1, <1>4, <2>1, WorkPasses DEF GoesOnWith
    <3>5. ~Holds(w, e)'
      BY <1>3, <2>1 DEF Holds, At
    <3> QED
      BY <3>3, <3>4, <3>5
  <2>2. CASE new = Idle
    <3>1. ActorRight(w)' /\ ~Holds(w, e)'
      BY <1>1, <1>4, <2>2, RestIsRight
    <3>2. PassesAtMost(w)
      BY <1>1, <2>2, IdleIs, OthersPass
    <3> QED
      BY <3>1, <3>2
  <2> QED
    BY <2>1, <2>2
<1>8. ActorsRight'
  BY <1>1, <1>2, <1>7, ActorsKept
<1>9. ShapeRight'
  BY <1>2, <1>8 DEF ShapeRight
<1>10. ASSUME NEW f \in Events PROVE Counted(f)'
  <2>1. Counted(f) /\ accepted'[f] = accepted[f] /\ doubts'[f] = doubts[f]
        /\ OpenTo(row'[f].status) <= OpenTo(row[f].status)
    BY DEF LedgerInv, CountsRight, OpenTo
  <2>2. ~Holds(w, f)'
    BY <1>3, IdleIs DEF Holds, At
  <2> QED
    BY <1>1, <2>1, <2>2, CountStays
<1>11. Carried(e)'
  <2>1. CASE e \in dlq'
    BY <2>1 DEF Carried
  <2>2. CASE \E u \in 1..Rungs : /\ Len(ladder'[u]) = Len(ladder[u]) + 1
                                 /\ ladder'[u][Len(ladder[u]) + 1] = e
    <3> PICK u \in 1..Rungs : /\ Len(ladder'[u]) = Len(ladder[u]) + 1
                              /\ ladder'[u][Len(ladder[u]) + 1] = e
      BY <2>2
    <3>a. ladder \in [1..Rungs -> Seq(Events)] /\ u \in 1..Rungs
      BY <1>1 DEF TopicsRight
    <3>b. Len(ladder[u]) \in Nat
      BY ONLY <3>a
    <3> PICK n \in Nat : n = Len(ladder[u])
      BY <3>b
    <3>1. u \in Topics /\ u # 0 /\ Log(u) = ladder[u]
      BY DeliveryBounds DEF Log
    <3>2. offset'[u] <= n /\ offset[u] \in Nat
      BY <1>1, <3>1 DEF TopicsRight
    <3>3. ASSUME NEW b \in Workers PROVE ~IsPast(b, u, n + 1)'
      <4> SUFFICES ASSUME IsPast(b, u, n + 1)' PROVE FALSE
        OBVIOUS
      <4>1. b \in Actors
        BY DeliveryBounds
      <4>2. CASE b = w
        <5>1. new.stage # "idle" /\ new.topic = u /\ new.at >= n + 1
          BY <1>3, <4>2 DEF IsPast, At, Doer
        <5>2. new # Idle /\ new.topic = t /\ new.at = i
          BY <5>1, IdleIs DEF GoesOnWith
        <5>3. i <= n
          BY <1>4, <3>1, <5>1, <5>2
        <5> QED
          BY ONLY <5>1, <5>2, <5>3
      <4>3. CASE b # w
        <5>1. actor'[b] = actor[b] /\ ActorRight(b)
          BY <1>1, <1>3, <4>1, <4>3 DEF ActorsRight
        <5>2. ~At(b, "idle") /\ actor[b].via = "topic" /\ actor[b].topic = u
              /\ (actor[b].at > n + 1 \/ actor[b].at = n + 1)
          BY <5>1 DEF IsPast, At
        <5>3. actor[b].at \in 1..n
          BY <3>1, <5>1, <5>2 DEF ActorRight
        <5> QED
          BY <5>2, <5>3
      <4> QED
        BY <4>2, <4>3
    <3>4. ~Passed(u, n + 1)'
      BY <3>2, <3>3 DEF Passed
    <3>5. n + 1 \in 1..Len(ladder'[u]) /\ Waiting(e, u, n + 1)'
      BY <3>4 DEF Waiting
    <3> QED
      BY <3>5 DEF Carried
  <2> QED
    BY <1>2, <2>1, <2>2
<1>12. ASSUME NEW f \in Events, f # e PROVE Carried(f)'
  <2>1. \A b \in Workers : Republishing(b, f) => Republishing(b, f)'
    <3>1. \A b \in Workers : Republishing(b, f) => b \in Actors \ {w}
      BY <1>12, DeliveryBounds DEF Republishing
    <3> QED
      BY <1>3, <3>1 DEF Republishing, At, Event
  <2>2. ASSUME NEW u \in 1..Rungs, NEW j \in 1..Len(ladder[u]), Waiting(f, u, j), Passed(u, j)'
        PROVE  FALSE
    <3>1. ladder[u][j] = f /\ ~Passed(u, j)
      BY <2>2 DEF Waiting
    <3>2. u # 0 /\ u \in Topics
      BY DeliveryBounds
    <3>3. actor[w].topic = u /\ actor[w].at = j
      BY <1>7, <2>2, <3>1, <3>2 DEF PassesAtMost, Log
    <3>4. Log(t)[i] = f
      BY <1>3, <1>4, <3>1, <3>2, <3>3 DEF Log
    <3> QED
      BY <1>4, <1>12, <3>4
  <2>3. Carried(f) /\ row' = row /\ dropped' = dropped
    BY DEF LedgerInv, RetriesRight
  <2>4. \A u \in 1..Rungs : \A j \in 1..Len(ladder[u]) :
           Waiting(f, u, j) /\ Passed(u, j)' => row'[f].status # "FAILED" \/ f \in dropped'
               \/ (\E v \in 1..Rungs : \E k \in 1..Len(ladder'[v]) : Waiting(f, v, k)') \/ f \in dlq'
    BY <2>2
  <2>5. \A b \in Workers : Republishing(b, f) =>
           \/ Republishing(b, f)' \/ f \in dropped' \/ f \in dlq'
           \/ \E u \in 1..Rungs : \E j \in 1..Len(ladder'[u]) : Waiting(f, u, j)'
    BY <2>1
  <2>6. row'[f].status = "FAILED" => row[f].status = "FAILED"
    BY <2>3
  <2> QED
    BY <1>1, <1>2, <1>9, <2>3, <2>4, <2>5, <2>6, CarriedStays
<1> QED
  BY <1>9, <1>10, <1>11, <1>12 DEF LedgerInv, CountsRight, RetriesRight

LEMMA RepublishKeeps ==
    ASSUME LedgerInv, NEW w \in Workers, Republish(w)
    PROVE  LedgerInv'
<1>1. /\ ShapeRight /\ CountersRight /\ ActorsRight /\ w \in Actors
      /\ actor[w] \in Doer /\ At(w, "republish")
  BY DeliveryBounds DEF LedgerInv, ShapeRight, ActorsRight, Republish
<1> PICK new : new = [actor[w] EXCEPT !.stage = "done"]
  OBVIOUS
<1>2. actor' = [actor EXCEPT ![w] = new] /\ new \in Doer
  BY <1>1 DEF ActorsRight, Republish, Becomes, Doer, Stages
<1>3. new.stage = "done" /\ GoesOnWith(w, new)
  BY <1>1 DEF GoesOnWith, At, Event, Doer
<1>4. dlq' \subseteq Events
  BY <1>1, PassedOnIs DEF Republish
<1>5. CountersRight'
  BY <1>1, <1>4 DEF CountersRight, Republish
<1> QED
  BY <1>1, <1>2, <1>3, <1>5, PassedOnKeeps DEF Republish

LEMMA RepublishUnansweredKeeps ==
    ASSUME LedgerInv, NEW w \in Workers, RepublishUnanswered(w)
    PROVE  LedgerInv'
<1>1. /\ ShapeRight /\ CountersRight /\ ActorsRight /\ w \in Actors /\ At(w, "republish")
  BY DeliveryBounds DEF LedgerInv, ShapeRight, ActorsRight, RepublishUnanswered
<1>2. Idle \in Doer /\ actor' = [actor EXCEPT ![w] = Idle]
  BY IdleIs DEF RepublishUnanswered
<1>3. dlq' \subseteq Events
  BY <1>1, PassedOnIs DEF RepublishUnanswered
<1>4. failures' \in 0..MaxFailures
  BY <1>1, DeliveryBounds DEF CountersRight, RepublishUnanswered, Fails
<1>5. CountersRight'
  BY <1>1, <1>3, <1>4 DEF CountersRight, RepublishUnanswered
<1> QED
  BY <1>1, <1>2, <1>5, PassedOnKeeps DEF RepublishUnanswered

\* A position goes where its worker is done, back or forth.
LEMMA CommitOffsetKeeps ==
    ASSUME LedgerInv, NEW w \in Workers, CommitOffset(w)
    PROVE  LedgerInv'
<1>1. /\ ShapeRight /\ TopicsRight /\ CountersRight /\ ActorsRight
      /\ ActorRight(w) /\ actor[w] \in Doer /\ w \in Actors /\ At(w, "done")
  BY DeliveryBounds DEF LedgerInv, ShapeRight, ActorsRight, CommitOffset
<1> PICK t \in Topics, i \in Nat : t = actor[w].topic /\ i = actor[w].at
  BY <1>1 DEF Doer
<1>2. actor[w].via = "topic" /\ i \in 1..Len(Log(t)) /\ Len(Log(t)) \in Nat
  BY <1>1, LogIs DEF ActorRight, At
<1>3. actor' = [actor EXCEPT ![w] = Idle] /\ Idle \in Doer
  BY IdleIs DEF CommitOffset
<1>4. /\ offset' \in [Topics -> Nat]
      /\ \A u \in Topics : offset'[u] = offset[u] \/ (u = t /\ offset'[u] = i)
  BY <1>1 DEF CommitOffset, PositionAfter, TopicsRight
<1>5. \A u \in Topics : Log(u)' = Log(u)
  BY DEF Log, CommitOffset, topicVars
<1>6. TopicsRight'
  <2>1. \A u \in Topics : offset'[u] <= Len(Log(u)')
    BY <1>1, <1>2, <1>4, <1>5 DEF TopicsRight
  <2> QED
    BY <1>1, <1>4, <2>1 DEF TopicsRight, CommitOffset, topicVars
<1>7. CountersRight'
  BY <1>1 DEF CountersRight, CommitOffset
<1>8. \A u \in Topics : Grows(Log(u), Log(u)')
  BY <1>1, <1>5, LogIs DEF Grows
<1>9. ActorRight(w)' /\ \A f \in Events : ~Holds(w, f)'
  BY <1>1, <1>3, RestIsRight
<1>10. ActorsRight'
  BY <1>1, <1>3, <1>6, <1>8, <1>9, ActorsKept
<1>11. ShapeRight'
  BY <1>6, <1>7, <1>10 DEF ShapeRight
<1>12. ASSUME NEW f \in Events PROVE Counted(f)'
  <2>1. Counted(f) /\ accepted'[f] = accepted[f] /\ doubts'[f] = doubts[f]
        /\ OpenTo(row'[f].status) <= OpenTo(row[f].status)
    BY DEF LedgerInv, CountsRight, OpenTo, CommitOffset
  <2>2. ~Holds(w, f)'
    BY <1>9
  <2> QED
    BY <1>1, <1>3, <1>7, <2>1, <2>2, CountStays
<1>13. actor'[w] = Idle /\ \A b \in Actors \ {w} : actor'[b] = actor[b]
  BY <1>1, <1>3 DEF ActorsRight
<1>14. ASSUME NEW u \in 1..Rungs, NEW j \in 1..Len(ladder[u]), ~Passed(u, j) PROVE ~Passed(u, j)'
  <2>1. u \in Topics /\ j \in Nat
    BY <1>1, DeliveryBounds DEF TopicsRight
  <2>2. ~(j <= offset[u]) /\ offset[u] \in Nat /\ \A b \in Workers : ~IsPast(b, u, j)
    BY <1>1, <1>14, <2>1 DEF Passed, TopicsRight
  <2>3. ~IsPast(w, u, j)
    BY <2>2
  <2>4. ~(j <= offset'[u])
    <3>1. u = t => ~(i > j) /\ i # j
      BY <1>1, <1>2, <2>3 DEF IsPast, At
    <3>2. offset'[u] = offset[u] \/ (u = t /\ offset'[u] = i)
      BY <1>4, <2>1
    <3>3. i \in Nat
      OBVIOUS
    <3> QED
      BY ONLY <2>1, <2>2, <3>1, <3>2, <3>3
  <2>5. \A b \in Workers : ~IsPast(b, u, j)'
    <3> TAKE b \in Workers
    <3>1. b \in Actors
      BY DeliveryBounds
    <3> QED
      BY <1>13, <2>2, <3>1, IdleIs DEF IsPast, At
  <2> QED
    BY <2>4, <2>5 DEF Passed
<1>15. ASSUME NEW f \in Events PROVE Carried(f)'
  <2>1. Carried(f) /\ row' = row /\ dropped' = dropped /\ dlq' = dlq /\ ladder' = ladder
    BY DEF LedgerInv, RetriesRight, CommitOffset
  <2>2. \A u \in 1..Rungs : Grows(ladder[u], ladder'[u])
    BY <1>1, <2>1 DEF Grows, TopicsRight
  <2>3. \A u \in 1..Rungs : \A j \in 1..Len(ladder[u]) : Waiting(f, u, j) => ~Passed(u, j)'
    BY <1>14 DEF Waiting
  <2>4. \A b \in Workers : Republishing(b, f) => Republishing(b, f)'
    <3>1. \A b \in Workers : Republishing(b, f) => b \in Actors \ {w}
      BY <1>1, DeliveryBounds DEF Republishing, At
    <3> QED
      BY <1>13, <3>1 DEF Republishing, At, Event
  <2>5. \A u \in 1..Rungs : \A j \in 1..Len(ladder[u]) :
           Waiting(f, u, j) /\ Passed(u, j)' => row'[f].status # "FAILED" \/ f \in dropped'
               \/ (\E v \in 1..Rungs : \E k \in 1..Len(ladder'[v]) : Waiting(f, v, k)') \/ f \in dlq'
    BY <2>3
  <2>6. \A b \in Workers : Republishing(b, f) =>
           \/ Republishing(b, f)' \/ f \in dropped' \/ f \in dlq'
           \/ \E u \in 1..Rungs : \E j \in 1..Len(ladder'[u]) : Waiting(f, u, j)'
    BY <2>4
  <2>7. (row'[f].status = "FAILED" => row[f].status = "FAILED") /\ dropped \subseteq dropped' /\ dlq \subseteq dlq'
    BY <2>1
  <2> QED
    BY <1>1, <1>11, <2>1, <2>2, <2>5, <2>6, <2>7, CarriedStays
<1> QED
  BY <1>11, <1>12, <1>15 DEF LedgerInv, CountsRight, RetriesRight

-----------------------------------------------------------------------------
(* The sweepers, and what happens to actors.                               *)

\* A sweeper that takes an event either has a doubt for it or its row's turn.
LEMMA StartsKeeps ==
    ASSUME LedgerInv, NEW s \in Sweepers, NEW e \in Events,
           NEW stage \in {"claimed", "expiring"}, NEW via \in {"stale", "parked"},
           Starts(s, e, stage, via), CountersRight',
           UNCHANGED <<topicVars, ladder, dlq, owner, offset, accepted, dropped>>,
           \A f \in Events \ {e} : row'[f] = row[f] /\ doubts'[f] = doubts[f],
           row'[e].status = "FAILED" => row[e].status = "FAILED",
           NEW doubt \in 0..1, doubts'[e] = doubts[e] + doubt,
           OneIf(stage = "claimed") + OpenTo(row'[e].status) <= doubt + OpenTo(row[e].status)
    PROVE  LedgerInv'
<1>1. /\ ShapeRight /\ TopicsRight /\ CountersRight /\ ActorsRight /\ s \in Actors /\ At(s, "idle")
  BY DeliveryBounds DEF LedgerInv, ShapeRight, ActorsRight, Starts
<1> PICK new : new = [stage |-> stage, via |-> via, event |-> e, topic |-> 0, at |-> 0,
                      fresh |-> FALSE, answer |-> "none", until |-> 0]
  OBVIOUS
<1>2. actor' = [actor EXCEPT ![s] = new]
  BY DEF Starts, Doing
<1>3. new \in Doer
  BY DeliveryBounds DEF Doer, Stages, Ways, Answers
<1>4. actor'[s] = new
  BY <1>1, <1>2 DEF ActorsRight
<1>5. ActorRight(s)'
  BY <1>4 DEF ActorRight, At, Event
<1>6. new.via # "topic"
  OBVIOUS
<1>7. PassesAtMost(s)
  BY <1>1, <1>2, <1>6, OthersPass
<1>8. ASSUME NEW f \in Events PROVE Counted(f)'
  <2>1. Counted(f) /\ accepted' = accepted /\ accepted[f] \in Nat
    BY <1>1 DEF LedgerInv, CountsRight, CountersRight
  <2>2. CASE f = e
    <3>1. ~Holds(s, f) /\ OneIf(Holds(s, f)) = 0
      BY <1>1 DEF Holds, At, OneIf
    <3>2. Holds(s, f)' <=> stage = "claimed"
      BY <1>4, <2>2 DEF Holds, At, Event
    <3>3. OneIf(Holds(s, f)') = OneIf(stage = "claimed") /\ OneIf(stage = "claimed") \in 0..1
      BY <3>2 DEF OneIf
    <3>4. OpenTo(row'[f].status) \in 0..1 /\ OpenTo(row[f].status) \in 0..1
      BY DEF OpenTo
    <3> PICK more \in Nat : more = 0
      OBVIOUS
    <3>5. /\ more + OneIf(Holds(s, f)') + OpenTo(row'[f].status)
                 <= doubt + OneIf(Holds(s, f)) + OpenTo(row[f].status)
          /\ accepted'[f] = accepted[f] + more /\ doubts'[f] = doubts[f] + doubt /\ doubt \in Nat
      BY <2>1, <2>2, <3>1, <3>3, <3>4
    <3> QED
      BY <1>1, <1>2, <2>1, <3>5, CountMoves
  <2>3. CASE f # e
    <3>1. ~Holds(s, f)' /\ OpenTo(row'[f].status) <= OpenTo(row[f].status)
      BY <1>4, <2>3 DEF Holds, Event, OpenTo
    <3>2. accepted'[f] = accepted[f] /\ doubts'[f] = doubts[f]
      BY <2>1, <2>3
    <3> QED
      BY <1>1, <1>2, <2>1, <3>1, <3>2, CountStays
  <2> QED
    BY <2>2, <2>3
<1>9. ASSUME NEW f \in Events PROVE RetryKept(s, f)
  <2>1. row'[f].status = "FAILED" => row[f].status = "FAILED"
    BY <1>1
  <2> QED
    BY <1>1, <2>1 DEF RetryKept, Republishing, At
<1>10. dropped \subseteq dropped'
  OBVIOUS
<1> QED
  BY <1>1, <1>2, <1>3, <1>5, <1>7, <1>8, <1>9, <1>10, StepKeeps

LEMMA StaleClaimKeeps ==
    ASSUME LedgerInv, NEW s \in Sweepers, StaleClaim(s)
    PROVE  LedgerInv'
<1> PICK e \in Events : /\ Stale(e) /\ Starts(s, e, "claimed", "stale") /\ Doubted(e)
                        /\ UNCHANGED <<topicVars, failures, channel, ladder, dlq, owner,
                                       offset, row, old, hour, accepted, dropped>>
  BY DEF StaleClaim
<1>1. CountersRight
  BY DEF LedgerInv, ShapeRight
<1>2. /\ doubts' \in [Events -> Nat] /\ doubts'[e] = doubts[e] + 1
      /\ \A f \in Events \ {e} : row'[f] = row[f] /\ doubts'[f] = doubts[f]
  BY <1>1 DEF CountersRight, Doubted
<1>3. CountersRight'
  BY <1>1, <1>2 DEF CountersRight
<1>4. OneIf("claimed" = "claimed") + OpenTo(row'[e].status) <= 1 + OpenTo(row[e].status)
  BY DEF OneIf, OpenTo
<1> PICK stage \in {"claimed", "expiring"}, via \in {"stale", "parked"}, doubt \in 0..1 :
        stage = "claimed" /\ via = "stale" /\ doubt = 1
  OBVIOUS
<1>5. /\ Starts(s, e, stage, via) /\ doubts'[e] = doubts[e] + doubt
      /\ OneIf(stage = "claimed") + OpenTo(row'[e].status) <= doubt + OpenTo(row[e].status)
      /\ row'[e].status = "FAILED" => row[e].status = "FAILED"
  BY <1>2, <1>4
<1> QED
  BY <1>2, <1>3, <1>5, StartsKeeps

LEMMA RedeliverKeeps ==
    ASSUME LedgerInv, NEW s \in Sweepers, Redeliver(s)
    PROVE  LedgerInv'
<1> PICK e \in Events : /\ Due(e) /\ Starts(s, e, "claimed", "parked") /\ Settled(e, "PENDING")
                        /\ UNCHANGED <<topicVars, failures, channel, ladder, dlq, owner,
                                       offset, old, hour, accepted, doubts, dropped>>
  BY DEF Redeliver
<1>1. CountersRight /\ row[e] \in DeliveryRow
  BY DEF LedgerInv, ShapeRight, CountersRight
<1>2. /\ row' = [row EXCEPT ![e] = [row[e] EXCEPT !.status = "PENDING"]]
  BY <1>1 DEF CountersRight, Settled
<1>3. [row[e] EXCEPT !.status = "PENDING"] \in DeliveryRow
  BY <1>1 DEF DeliveryRow, Status
<1>4. /\ row' \in [Events -> DeliveryRow] /\ row'[e].status = "PENDING"
      /\ \A f \in Events \ {e} : row'[f] = row[f]
  BY <1>1, <1>2, <1>3 DEF CountersRight, DeliveryRow
<1>5. CountersRight'
  BY <1>1, <1>4 DEF CountersRight
<1>6. OneIf("claimed" = "claimed") + OpenTo(row'[e].status) <= 0 + OpenTo(row[e].status)
  BY <1>4 DEF OneIf, OpenTo, Claimable, Due
<1> PICK stage \in {"claimed", "expiring"}, via \in {"stale", "parked"}, doubt \in 0..1 :
        stage = "claimed" /\ via = "parked" /\ doubt = 0
  OBVIOUS
<1>7. doubts[e] \in Nat
  BY <1>1 DEF CountersRight
<1>8. /\ Starts(s, e, stage, via) /\ doubts'[e] = doubts[e] + doubt
      /\ OneIf(stage = "claimed") + OpenTo(row'[e].status) <= doubt + OpenTo(row[e].status)
      /\ row'[e].status = "FAILED" => row[e].status = "FAILED"
      /\ \A f \in Events \ {e} : row'[f] = row[f] /\ doubts'[f] = doubts[f]
  BY <1>4, <1>6, <1>7
<1> QED
  BY <1>5, <1>8, StartsKeeps

LEMMA FindExpiredKeeps ==
    ASSUME LedgerInv, NEW s \in Sweepers, FindExpired(s)
    PROVE  LedgerInv'
<1> PICK e \in Events : /\ Starts(s, e, "expiring", "parked")
                        /\ UNCHANGED <<topicVars, failures, channel, ladder, dlq, owner,
                                       offset, row, old, hour, accepted, doubts, dropped>>
  BY DEF FindExpired
<1>1. CountersRight
  BY DEF LedgerInv, ShapeRight
<1>2. CountersRight' /\ doubts[e] \in Nat
  BY <1>1 DEF CountersRight
<1>3. OneIf("expiring" = "claimed") + OpenTo(row'[e].status) <= 0 + OpenTo(row[e].status)
  BY DEF OneIf, OpenTo
<1> PICK stage \in {"claimed", "expiring"}, via \in {"stale", "parked"}, doubt \in 0..1 :
        stage = "expiring" /\ via = "parked" /\ doubt = 0
  OBVIOUS
<1>4. /\ Starts(s, e, stage, via) /\ doubts'[e] = doubts[e] + doubt
      /\ OneIf(stage = "claimed") + OpenTo(row'[e].status) <= doubt + OpenTo(row[e].status)
      /\ row'[e].status = "FAILED" => row[e].status = "FAILED"
      /\ \A f \in Events \ {e} : row'[f] = row[f] /\ doubts'[f] = doubts[f]
  BY <1>2, <1>3
<1> QED
  BY <1>2, <1>4, StartsKeeps

\* An actor that stops where it is, having written nothing that fails.
LEMMA StopsKeeps ==
    ASSUME LedgerInv, NEW a \in Actors, actor' = [actor EXCEPT ![a] = Idle], CountersRight',
           UNCHANGED <<topicVars, ladder, dlq, owner, offset, accepted, doubts>>,
           \A f \in Events : OpenTo(row'[f].status) <= OpenTo(row[f].status),
           \A f \in Events : row'[f].status = "FAILED" => row[f].status = "FAILED",
           dropped \subseteq dropped',
           \A f \in Events : Republishing(a, f) => row'[f].status # "FAILED" \/ f \in dropped'
               \/ (\E u \in 1..Rungs : \E j \in 1..Len(ladder[u]) : Waiting(f, u, j))
    PROVE  LedgerInv'
<1>1. ShapeRight /\ TopicsRight /\ ActorsRight /\ Idle \in Doer /\ Idle.stage = "idle"
  BY IdleIs DEF LedgerInv, ShapeRight
<1>2. /\ ActorRight(a)' /\ At(a, "idle")' /\ \A f \in Events : ~Holds(a, f)'
  BY <1>1, RestIsRight
<1>3. PassesAtMost(a)
  BY <1>1, OthersPass
<1>4. ASSUME NEW f \in Events PROVE Counted(f)'
  <2>1. Counted(f) /\ accepted'[f] = accepted[f] /\ doubts'[f] = doubts[f] /\ ~Holds(a, f)'
        /\ OpenTo(row'[f].status) <= OpenTo(row[f].status)
    BY <1>2 DEF LedgerInv, CountsRight
  <2> QED
    BY <1>1, <2>1, CountStays
<1>5. \A f \in Events : RetryKept(a, f)
  BY <1>2 DEF RetryKept, At
<1> QED
  BY <1>1, <1>2, <1>3, <1>4, <1>5, StepKeeps

LEMMA ExpireKeeps ==
    ASSUME LedgerInv, NEW s \in Sweepers, Expire(s)
    PROVE  LedgerInv'
<1>1. /\ CountersRight /\ ActorsRight /\ s \in Actors /\ ActorRight(s) /\ At(s, "expiring")
  BY DeliveryBounds DEF LedgerInv, ShapeRight, ActorsRight, Expire
<1>2. Event(s) \in Events
  BY <1>1 DEF ActorRight, At
<1>3. [status |-> "SUPPRESSED", notBefore |-> 0] \in DeliveryRow
  BY DeliveryBounds DEF DeliveryRow, Status
<1>4. /\ row' \in [Events -> DeliveryRow] /\ row'[Event(s)].status = "SUPPRESSED"
      /\ \A f \in Events \ {Event(s)} : row'[f] = row[f]
  BY <1>1, <1>2, <1>3 DEF CountersRight, Expire
<1>5. CountersRight'
  BY <1>1, <1>4 DEF CountersRight, Expire
<1>6. /\ \A f \in Events : OpenTo(row'[f].status) <= OpenTo(row[f].status)
      /\ \A f \in Events : row'[f].status = "FAILED" => row[f].status = "FAILED"
  BY <1>4 DEF OpenTo, Claimable
<1>7. \A f \in Events : ~Republishing(s, f)
  BY <1>1 DEF Republishing, At
<1>8. actor' = [actor EXCEPT ![s] = Idle] /\ dropped \subseteq dropped'
  BY DEF Expire
<1> QED
  BY <1>1, <1>5, <1>6, <1>7, <1>8, StopsKeeps DEF Expire

\* A message that nobody has let go comes again.
LEMMA DiesKeeps ==
    ASSUME LedgerInv, NEW a \in Actors, Dies(a)
    PROVE  LedgerInv'
<1>1. /\ ShapeRight /\ CountersRight /\ TopicsRight /\ ActorsRight /\ ActorRight(a)
      /\ actor[a] \in Doer /\ ~At(a, "idle")
  BY DEF LedgerInv, ShapeRight, ActorsRight, Dies
<1>2. failures' \in 0..MaxFailures
  BY <1>1, DeliveryBounds DEF CountersRight, Dies, Fails
<1>3. CountersRight'
  BY <1>1, <1>2 DEF CountersRight, Dies
<1>4. ASSUME NEW f \in Events, Republishing(a, f), f \notin dropped'
      PROVE  \E u \in 1..Rungs : \E j \in 1..Len(ladder[u]) : Waiting(f, u, j)
  <2> PICK t \in Topics, i \in Nat : t = actor[a].topic /\ i = actor[a].at
    BY <1>1 DEF Doer
  <2>1. At(a, "republish") /\ f = Event(a)
    BY <1>4 DEF Republishing
  <2>2. t # 0 /\ ~Discarded(t, i, a)
    BY <1>4, <2>1 DEF Dies
  <2>3. i \in 1..Len(Log(t)) /\ Log(t)[i] = f /\ t \in 1..Rungs
    BY <1>1, <2>1, <2>2, DeliveryBounds DEF ActorRight, At, Topics
  <2>4. Log(t) = ladder[t]
    BY <2>2 DEF Log
  <2>5. ~IsPast(a, t, i)
    BY <2>1 DEF IsPast, At
  <2>6. ~(i <= offset[t]) /\ \A w \in Workers \ {a} : ~IsPast(w, t, i)
    BY <2>2 DEF Discarded
  <2>7. \A w \in Workers : ~IsPast(w, t, i)
    BY <2>5, <2>6
  <2>8. ~Passed(t, i)
    BY <2>6, <2>7 DEF Passed
  <2>9. i \in 1..Len(ladder[t]) /\ Waiting(f, t, i)
    BY <2>3, <2>4, <2>8 DEF Waiting
  <2> QED
    BY <2>3, <2>9
<1>5. row' = row /\ dropped \subseteq dropped' /\ actor' = [actor EXCEPT ![a] = Idle]
      /\ UNCHANGED <<topicVars, ladder, dlq, owner, offset, accepted, doubts>>
  BY DEF Dies
<1>6. \A f \in Events : OpenTo(row'[f].status) <= OpenTo(row[f].status)
  BY <1>5 DEF OpenTo
<1>7. \A f \in Events : row'[f].status = "FAILED" => row[f].status = "FAILED"
  BY <1>5
<1>8. \A f \in Events : Republishing(a, f) => row'[f].status # "FAILED" \/ f \in dropped'
         \/ (\E u \in 1..Rungs : \E j \in 1..Len(ladder[u]) : Waiting(f, u, j))
  BY <1>4
<1> QED
  BY <1>3, <1>5, <1>6, <1>7, <1>8, StopsKeeps

\* A rebalance, a row that ages and the clock move no message.
LEMMA OtherwiseKeeps ==
    ASSUME LedgerInv, UNCHANGED <<topicVars, ladder, dlq, offset, row, actor, accepted, doubts, dropped>>,
           TopicsRight', CountersRight'
    PROVE  LedgerInv'
<1>1. ActorsRight'
  <2>1. \A t \in Topics : Log(t)' = Log(t)
    BY LogsStay DEF topicVars
  <2>2. ASSUME NEW a \in Actors PROVE ActorRight(a)'
    <3>1. ActorRight(a) /\ actor[a] \in Doer /\ actor' = actor
      BY DEF LedgerInv, ShapeRight, ActorsRight
    <3> PICK t \in Topics : t = actor[a].topic
      BY <3>1 DEF Doer
    <3>2. Log(t)' = Log(t)
      BY <2>1
    <3> QED
      BY <3>1, <3>2 DEF ActorRight, At, Event
  <2> QED
    BY <2>2 DEF LedgerInv, ShapeRight, ActorsRight
<1>2. ShapeRight /\ ShapeRight' /\ CountsRight /\ RetriesRight
  BY <1>1 DEF LedgerInv, ShapeRight
<1> QED
  BY <1>2, NobodyActs DEF LedgerInv

LEMMA RebalanceKeeps ==
    ASSUME LedgerInv, NEW t \in Topics, NEW w \in Workers, Rebalance(t, w)
    PROVE  LedgerInv'
<1>1. TopicsRight /\ CountersRight
  BY DEF LedgerInv, ShapeRight
<1>2. \A u \in Topics : Log(u)' = Log(u)
  BY DEF Log, Rebalance, topicVars
<1>3. TopicsRight'
  BY <1>1, <1>2 DEF TopicsRight, Rebalance, topicVars
<1>4. failures' \in 0..MaxFailures
  BY <1>1, DeliveryBounds DEF CountersRight, Rebalance, Fails
<1>5. CountersRight'
  BY <1>1, <1>4 DEF CountersRight, Rebalance
<1> QED
  BY <1>3, <1>5, OtherwiseKeeps DEF Rebalance

LEMMA TimePasses ==
    ASSUME LedgerInv, Tick \/ \E e \in Events : Age(e)
    PROVE  LedgerInv'
<1>1. TopicsRight /\ CountersRight
  BY DEF LedgerInv, ShapeRight
<1>2. UNCHANGED <<topicVars, owner, ladder, dlq, offset, row, actor, accepted, doubts, dropped>>
  BY DEF Tick, Age
<1>3. \A u \in Topics : Log(u)' = Log(u)
  BY <1>2 DEF Log, topicVars
<1>4. TopicsRight'
  BY <1>1, <1>2, <1>3 DEF TopicsRight, topicVars
<1>5. hour' \in 1..MaxHour /\ failures' = failures
  BY <1>1, DeliveryBounds DEF CountersRight, Tick, Age
<1>6. CountersRight'
  BY <1>1, <1>2, <1>5 DEF CountersRight
<1> QED
  BY <1>2, <1>4, <1>6, OtherwiseKeeps

-----------------------------------------------------------------------------
(* The theorems.                                                           *)

LEMMA LedgerStep == LedgerInv /\ [Next]_vars => LedgerInv'
<1> SUFFICES ASSUME LedgerInv, [Next]_vars PROVE LedgerInv'
  OBVIOUS
<1>1. CASE TopicNext /\ UNCHANGED deliveryVars
  BY <1>1, TopicKeeps
<1>2. CASE \E w \in Workers : WorkerStep(w)
  <2> PICK w \in Workers : WorkerStep(w)
    BY <1>2
  <2> QED
    BY TakeKeeps, ClaimKeeps, SendKeeps, MarkKeeps, RepublishKeeps, CommitOffsetKeeps,
       DeliveryBounds DEF WorkerStep, Attempt
<1>3. CASE \E s \in Sweepers : SweeperStep(s)
  <2> PICK s \in Sweepers : SweeperStep(s)
    BY <1>3
  <2> QED
    BY StaleClaimKeeps, RedeliverKeeps, FindExpiredKeeps, ExpireKeeps, SendKeeps, MarkKeeps,
       DeliveryBounds DEF SweeperStep, Attempt
<1>4. CASE Tick \/ \E e \in Events : Age(e)
  BY <1>4, TimePasses
<1>5. CASE Fault
  BY <1>5, ClaimFailsKeeps, RepublishUnansweredKeeps, AnswerLostKeeps, MarkSentFailsKeeps,
     DiesKeeps, RebalanceKeeps DEF Fault
<1>6. CASE UNCHANGED vars
  <2>1. UNCHANGED <<topicVars, ladder, dlq, offset, row, actor, accepted, doubts, dropped>>
    BY <1>6 DEF vars, deliveryVars
  <2>2. \A u \in Topics : Log(u)' = Log(u)
    BY <2>1 DEF Log, topicVars
  <2>3. TopicsRight'
    BY <1>6, <2>2 DEF LedgerInv, ShapeRight, TopicsRight, vars, deliveryVars, topicVars
  <2>4. CountersRight'
    BY <1>6 DEF LedgerInv, ShapeRight, CountersRight, vars, deliveryVars
  <2> QED
    BY <2>1, <2>3, <2>4, OtherwiseKeeps
<1> QED
  BY <1>1, <1>2, <1>3, <1>4, <1>5, <1>6 DEF Next, Work

-----------------------------------------------------------------------------
(***************************************************************************)
(* Rest: what is undecided is with somebody                                *)
(***************************************************************************)

\* A row that is not there has nobody past its claim, and its event, if the
\* topic has it and no claim of it failed, waits there to be read.  Only an
\* SMS is put off.
Busy == {"claimed", "answered", "republish"}
Unclaimed(e) ==
    row[e].status = "NONE" => \A a \in Actors : ~(Event(a) = e /\ actor[a].stage \in Busy)
Unread(e, i) == mainTopic[i] = e /\ ~Passed(0, i)
Awaited(e) ==
    row[e].status = "NONE" /\ e \notin dropped /\ e \in Members(mainTopic) =>
        \E i \in 1..Len(mainTopic) : Unread(e, i)
PutOff(e) == row[e].status = "DEFERRED" => channel = "SMS"
AnswersRight == \A a \in Actors : actor[a].answer = "deferred" => channel = "SMS"

UndecidedInv == AnswersRight /\ \A e \in Events : Unclaimed(e) /\ Awaited(e) /\ PutOff(e)

LEMMA UndecidedStarts == Init => UndecidedInv
<1> SUFFICES ASSUME Init PROVE UndecidedInv
  OBVIOUS
<1>1. \A a \in Actors : actor[a] = Idle
  BY DEF Init
<1>2. AnswersRight
  BY <1>1, IdleIs DEF AnswersRight
<1>3. ASSUME NEW e \in Events PROVE Unclaimed(e) /\ Awaited(e) /\ PutOff(e)
  <2>1. Members(mainTopic) = {}
    BY DEF Init, TopicInit, Members
  <2> QED
    BY <1>1, <2>1, IdleIs DEF Unclaimed, Awaited, PutOff, Busy, Init
<1> QED
  BY <1>2, <1>3 DEF UndecidedInv

\* What one actor's step leaves of an event that no step decides: a row, once
\* there, stays; nobody gets past a claim without it; only its claim reads it.
LeavesOpen(a, new, e) ==
    /\ row'[e].status = "NONE" =>
           /\ row[e].status = "NONE"
           /\ ~(new.event = e /\ new.stage \in Busy)
           /\ At(a, "done")' /\ ~At(a, "idle") /\ Event(a) = e => e \in dropped'
    /\ row'[e].status = "DEFERRED" => row[e].status = "DEFERRED" \/ channel = "SMS"

LEMMA StepLeaves ==
    ASSUME LedgerInv, UndecidedInv, NEW a \in Actors, NEW new, actor' = [actor EXCEPT ![a] = new],
           UNCHANGED <<mainTopic, channel>>, dropped \subseteq dropped', PassesAtMost(a),
           new.answer = "deferred" => channel = "SMS",
           \A e \in Events : LeavesOpen(a, new, e)
    PROVE  UndecidedInv'
<1>1. /\ TopicsRight /\ ActorsRight /\ ActorRight(a)
      /\ actor'[a] = new /\ \A b \in Actors \ {a} : actor'[b] = actor[b]
  BY DEF LedgerInv, ShapeRight, ActorsRight
<1>2. AnswersRight'
  BY <1>1 DEF UndecidedInv, AnswersRight
<1>3. ASSUME NEW e \in Events PROVE Unclaimed(e)'
  BY <1>1 DEF UndecidedInv, Unclaimed, LeavesOpen, Event
<1>4. ASSUME NEW e \in Events PROVE PutOff(e)'
  BY DEF UndecidedInv, PutOff, LeavesOpen
<1>5. ASSUME NEW e \in Events PROVE Awaited(e)'
  <2> SUFFICES ASSUME row'[e].status = "NONE", e \notin dropped', e \in Members(mainTopic)
               PROVE  \E i \in 1..Len(mainTopic) : Unread(e, i)'
    BY DEF Awaited, Members
  <2>1. row[e].status = "NONE" /\ LeavesOpen(a, new, e)
    BY DEF LeavesOpen
  <2>2. Awaited(e) /\ e \notin dropped
    BY DEF UndecidedInv
  <2> PICK i \in 1..Len(mainTopic) : Unread(e, i)
    BY <2>1, <2>2 DEF Awaited
  <2>3. ASSUME Passed(0, i)' PROVE FALSE
    <3>1. /\ a \in Workers /\ ~At(a, "idle") /\ At(a, "done")'
          /\ actor[a].via = "topic" /\ actor[a].topic = 0 /\ actor[a].at = i
      BY <2>3, DeliveryBounds DEF PassesAtMost, Unread, Log
    <3>2. Event(a) = e
      BY <1>1, <3>1 DEF ActorRight, Unread, Log
    <3> QED
      BY <2>1, <3>1, <3>2 DEF LeavesOpen
  <2> QED
    BY <2>3 DEF Unread
<1> QED
  BY <1>2, <1>3, <1>4, <1>5 DEF UndecidedInv

\* A worker that reads, or a member whose position moves, decides nothing.
LEMMA TakeLeaves ==
    ASSUME LedgerInv, UndecidedInv, NEW w \in Workers, Take(w)
    PROVE  UndecidedInv'
<1>1. TopicsRight /\ ActorsRight /\ w \in Actors
  BY DeliveryBounds DEF LedgerInv, ShapeRight
<1> PICK t \in Topics :
        /\ At(w, "idle") /\ owner[t] = w /\ offset[t] < Len(Log(t))
        /\ actor' = [actor EXCEPT ![w] =
               Doing("read", "topic", Log(t)[offset[t] + 1], t, offset[t] + 1)]
  BY DEF Take
<1> PICK new : new = Doing("read", "topic", Log(t)[offset[t] + 1], t, offset[t] + 1)
  OBVIOUS
<1>2. /\ new.stage = "read" /\ new.topic \in Topics /\ new.at = offset[new.topic] + 1
      /\ new.answer = "none"
  BY DEF Doing
<1>3. PassesAtMost(w)
  BY <1>1, <1>2, OthersPass DEF Take
<1>4. \A e \in Events : LeavesOpen(w, new, e)
  BY <1>2 DEF LeavesOpen, Take, Busy
<1> QED
  BY <1>1, <1>2, <1>3, <1>4, StepLeaves DEF Take, topicVars

LEMMA ClaimLeaves ==
    ASSUME LedgerInv, UndecidedInv, NEW w \in Workers, Claim(w)
    PROVE  UndecidedInv'
<1> PICK e : e = Event(w)
  OBVIOUS
<1> PICK wanted \in BOOLEAN :
      \E mine \in BOOLEAN :
        /\ mine = (wanted /\ (row[e].status = "NONE" \/ (Reclaims(w) /\ row[e].status \in Reclaimable)))
        /\ row' = [row EXCEPT ![e].status =
               CASE mine -> "PENDING" [] row[e].status = "NONE" /\ ~wanted -> "SUPPRESSED" [] OTHER -> @]
        /\ actor' = [actor EXCEPT ![w].stage = IF mine THEN "claimed" ELSE "done",
                                  ![w].fresh = mine /\ row[e].status = "NONE"]
        /\ dropped' = IF row[e].status = "FAILED" /\ ~wanted THEN dropped \cup {e} ELSE dropped
  BY DEF Claim
<1> PICK mine \in BOOLEAN :
        /\ mine = (wanted /\ (row[e].status = "NONE" \/ (Reclaims(w) /\ row[e].status \in Reclaimable)))
        /\ row' = [row EXCEPT ![e].status =
               CASE mine -> "PENDING" [] row[e].status = "NONE" /\ ~wanted -> "SUPPRESSED" [] OTHER -> @]
        /\ actor' = [actor EXCEPT ![w].stage = IF mine THEN "claimed" ELSE "done",
                                  ![w].fresh = mine /\ row[e].status = "NONE"]
        /\ dropped' = IF row[e].status = "FAILED" /\ ~wanted THEN dropped \cup {e} ELSE dropped
  OBVIOUS
<1>1. /\ TopicsRight /\ CountersRight /\ ActorsRight /\ w \in Actors
      /\ ActorRight(w) /\ actor[w] \in Doer /\ At(w, "read")
  BY DeliveryBounds DEF LedgerInv, ShapeRight, ActorsRight, Claim
<1>2. e \in Events /\ row[e] \in DeliveryRow
  BY <1>1 DEF ActorRight, At, CountersRight
<1> PICK stage \in {"claimed", "done"} : stage = IF mine THEN "claimed" ELSE "done"
  OBVIOUS
<1> PICK fresh \in BOOLEAN : fresh = (mine /\ row[e].status = "NONE")
  OBVIOUS
<1> PICK new : new = [[actor[w] EXCEPT !.stage = stage] EXCEPT !.fresh = fresh]
  OBVIOUS
<1>3. actor' = [actor EXCEPT ![w] = new]
  BY <1>1 DEF ActorsRight
<1>4. /\ new.stage = stage /\ new.event = e /\ new.via = actor[w].via
      /\ new.topic = actor[w].topic /\ new.at = actor[w].at /\ new.answer = actor[w].answer
  BY <1>1 DEF Doer, Event
<1>5. PassesAtMost(w)
  BY <1>1, <1>3, <1>4, WorkPasses DEF Claim, At
<1> PICK status : status = CASE mine -> "PENDING" [] row[e].status = "NONE" /\ ~wanted -> "SUPPRESSED" [] OTHER -> row[e].status
  OBVIOUS
<1>6. row' = [row EXCEPT ![e] = [row[e] EXCEPT !.status = status]]
  BY <1>1, <1>2 DEF CountersRight
<1>7. row'[e].status = status /\ \A f \in Events \ {e} : row'[f] = row[f]
  BY <1>1, <1>2, <1>6 DEF CountersRight, DeliveryRow
<1>8. status # "NONE" /\ (status = "DEFERRED" => row[e].status = "DEFERRED")
  OBVIOUS
<1>9. \A f \in Events : LeavesOpen(w, new, f)
  BY <1>4, <1>7, <1>8 DEF LeavesOpen, Event
<1>10. new.answer = "deferred" => channel = "SMS"
  BY <1>1, <1>4 DEF UndecidedInv, AnswersRight
<1>11. dropped \subseteq dropped'
  OBVIOUS
<1> QED
  BY <1>1, <1>3, <1>5, <1>9, <1>10, <1>11, StepLeaves DEF Claim, topicVars

LEMMA ClaimFailsLeaves ==
    ASSUME LedgerInv, UndecidedInv, NEW w \in Workers, ClaimFails(w)
    PROVE  UndecidedInv'
<1>1. ActorsRight /\ TopicsRight /\ w \in Actors /\ actor[w] \in Doer /\ At(w, "read")
  BY DeliveryBounds DEF LedgerInv, ShapeRight, ActorsRight, ClaimFails
<1> PICK new : new = [actor[w] EXCEPT !.stage = "done"]
  OBVIOUS
<1>2. actor' = [actor EXCEPT ![w] = new]
  BY <1>1 DEF ActorsRight, ClaimFails, Becomes
<1>3. /\ new.stage = "done" /\ new.via = actor[w].via
      /\ new.topic = actor[w].topic /\ new.at = actor[w].at /\ new.answer = actor[w].answer
  BY <1>1 DEF Doer
<1>4. PassesAtMost(w)
  BY <1>1, <1>2, <1>3, WorkPasses DEF ClaimFails, At
<1>5. \A e \in Events : LeavesOpen(w, new, e)
  BY <1>3 DEF LeavesOpen, ClaimFails, Busy
<1>6. new.answer = "deferred" => channel = "SMS"
  BY <1>1, <1>3 DEF UndecidedInv, AnswersRight
<1> QED
  BY <1>1, <1>2, <1>4, <1>5, <1>6, StepLeaves DEF ClaimFails, topicVars

\* Who is answered has claimed, so that the row is there.
LEMMA AnswerLeaves ==
    ASSUME LedgerInv, UndecidedInv, NEW a \in Actors, At(a, "claimed") \/ At(a, "answered"),
           NEW x, NEW late, x = "deferred" => channel = "SMS",
           actor' = [actor EXCEPT ![a] = [[[actor[a] EXCEPT !.stage = "answered"] EXCEPT !.answer = x]
                                              EXCEPT !.until = late]],
           UNCHANGED <<mainTopic, channel, offset, row, dropped>>
    PROVE  UndecidedInv'
<1>1. ActorsRight /\ TopicsRight /\ actor[a] \in Doer
  BY DEF LedgerInv, ShapeRight, ActorsRight
<1> PICK new : new = [[[actor[a] EXCEPT !.stage = "answered"] EXCEPT !.answer = x] EXCEPT !.until = late]
  OBVIOUS
<1>2. /\ new.stage = "answered" /\ new.answer = x /\ new.event = Event(a)
      /\ new.via = actor[a].via /\ new.topic = actor[a].topic /\ new.at = actor[a].at
  BY <1>1 DEF Doer, Event
<1>3. PassesAtMost(a)
  BY <1>1, <1>2, WorkPasses DEF At
<1>4. actor'[a] = new
  BY <1>1 DEF ActorsRight
<1>5. ASSUME NEW e \in Events PROVE LeavesOpen(a, new, e)
  <2>1. Event(a) = e => row[e].status # "NONE"
    BY DEF UndecidedInv, Unclaimed, Busy, At
  <2> QED
    BY <1>2, <1>4, <2>1 DEF LeavesOpen, At
<1> QED
  BY <1>2, <1>3, <1>5, StepLeaves

LEMMA SendLeaves ==
    ASSUME LedgerInv, UndecidedInv, NEW a \in Actors, Send(a)
    PROVE  UndecidedInv'
<1>1. ActorsRight /\ actor[a] \in Doer
  BY DEF LedgerInv, ShapeRight, ActorsRight
<1> PICK x \in Finds(a) :
        actor' = [actor EXCEPT ![a].stage = "answered", ![a].answer = x,
                               ![a].until = IF x = "deferred" THEN hour + 1 ELSE 0]
  BY DEF Send
<1> PICK late : late = IF x = "deferred" THEN hour + 1 ELSE 0
  OBVIOUS
<1>2. actor' = [actor EXCEPT ![a] = [[[actor[a] EXCEPT !.stage = "answered"] EXCEPT !.answer = x]
                                        EXCEPT !.until = late]]
  BY <1>1 DEF ActorsRight
<1>3. x = "deferred" => channel = "SMS"
  BY DEF Finds
<1>4. UNCHANGED <<mainTopic, channel, offset, row, dropped>> /\ (At(a, "claimed") \/ At(a, "answered"))
  BY DEF Send, topicVars
<1>5. LedgerInv /\ UndecidedInv /\ a \in Actors
  OBVIOUS
<1> QED
  BY ONLY <1>2, <1>3, <1>4, <1>5, AnswerLeaves

\* An answer that is lost, or could not be written down, is an error.
LEMMA ErrorLeaves ==
    ASSUME LedgerInv, UndecidedInv, NEW a \in Actors, AnswerLost(a) \/ MarkSentFails(a)
    PROVE  UndecidedInv'
<1>1. ActorsRight /\ actor[a] \in Doer
  BY DEF LedgerInv, ShapeRight, ActorsRight
<1> PICK x, late : x = ErrorOf(a) /\ late = actor[a].until
  OBVIOUS
<1>2. x # "deferred"
  BY DEF ErrorOf
<1>3. actor' = [actor EXCEPT ![a] = [[actor[a] EXCEPT !.stage = "answered"] EXCEPT !.answer = x]]
  <2>1. CASE AnswerLost(a)
    BY <1>1, <2>1 DEF ActorsRight, AnswerLost
  <2>2. CASE MarkSentFails(a)
    <3>1. actor[a].stage = "answered"
      BY <2>2 DEF MarkSentFails, At
    <3>2. [actor[a] EXCEPT !.stage = "answered"] = actor[a]
      BY <1>1, <3>1 DEF Doer
    <3>3. actor' = [actor EXCEPT ![a] = [actor[a] EXCEPT !.answer = x]]
      BY <1>1, <2>2 DEF ActorsRight, MarkSentFails, Becomes
    <3> QED
      BY <3>2, <3>3
  <2> QED
    BY <2>1, <2>2
<1>4. [[[actor[a] EXCEPT !.stage = "answered"] EXCEPT !.answer = x] EXCEPT !.until = late]
        = [[actor[a] EXCEPT !.stage = "answered"] EXCEPT !.answer = x]
  BY <1>1 DEF Doer
<1>5. UNCHANGED <<mainTopic, channel, offset, row, dropped>> /\ (At(a, "claimed") \/ At(a, "answered"))
  BY DEF AnswerLost, MarkSentFails, topicVars
<1>6. actor' = [actor EXCEPT ![a] = [[[actor[a] EXCEPT !.stage = "answered"] EXCEPT !.answer = x]
                                        EXCEPT !.until = late]]
  BY <1>3, <1>4
<1>7. LedgerInv /\ UndecidedInv /\ a \in Actors /\ (x = "deferred" => channel = "SMS")
  BY <1>2
<1> QED
  BY ONLY <1>5, <1>6, <1>7, AnswerLeaves


LEMMA MarkLeaves ==
    ASSUME LedgerInv, UndecidedInv, NEW a \in Actors, Mark(a)
    PROVE  UndecidedInv'
<1>1. /\ TopicsRight /\ CountersRight /\ ActorsRight
      /\ ActorRight(a) /\ actor[a] \in Doer /\ At(a, "answered")
  BY DEF LedgerInv, ShapeRight, ActorsRight, Mark
<1> PICK e, x : e = Event(a) /\ x = actor[a].answer
  OBVIOUS
<1>2. e \in Events /\ x \in DOMAIN StatusFor
  BY <1>1 DEF ActorRight, At
<1> PICK status : status = StatusFor[x]
  OBVIOUS
<1>3. status # "NONE" /\ (status = "DEFERRED" => x = "deferred")
  BY <1>2 DEF StatusFor
<1>4. row' = [row EXCEPT ![e] = [status |-> status, notBefore |-> actor[a].until]]
  BY DEF Mark
<1>5. row'[e].status = status /\ \A f \in Events \ {e} : row'[f] = row[f]
  BY <1>1, <1>2, <1>4 DEF CountersRight
<1> PICK stage \in {"republish", "done"} : stage = IF x = "transient" THEN "republish" ELSE "done"
  OBVIOUS
<1> PICK busy : busy = [[[[actor[a] EXCEPT !.stage = stage] EXCEPT !.answer = "none"]
                            EXCEPT !.until = 0] EXCEPT !.fresh = FALSE]
  OBVIOUS
<1>6. /\ busy.stage = stage /\ busy.event = e /\ busy.via = actor[a].via /\ busy.answer = "none"
      /\ busy.topic = actor[a].topic /\ busy.at = actor[a].at
  BY <1>1 DEF Doer, Event
<1> PICK new : new = IF actor[a].via = "topic" THEN busy ELSE Idle
  OBVIOUS
<1>7. actor' = [actor EXCEPT ![a] = new]
  <2>1. actor' = [actor EXCEPT ![a] =
               IF actor[a].via = "topic"
               THEN [actor[a] EXCEPT !.stage = IF x = "transient" THEN "republish" ELSE "done",
                              !.answer = "none", !.until = 0, !.fresh = FALSE]
               ELSE Idle]
    BY <1>1 DEF ActorsRight, Mark
  <2>2. [actor[a] EXCEPT !.stage = IF x = "transient" THEN "republish" ELSE "done",
                              !.answer = "none", !.until = 0, !.fresh = FALSE] = busy
    OBVIOUS
  <2> QED
    BY <2>1, <2>2
<1>8. UNCHANGED <<mainTopic, channel, offset>> /\ dropped \subseteq dropped'
  BY DEF Mark, topicVars
<1>9. PassesAtMost(a)
  <2>1. CASE actor[a].via = "topic"
    BY <1>1, <1>6, <1>7, <1>8, <2>1, WorkPasses DEF At
  <2>2. CASE actor[a].via # "topic"
    <3>1. new.stage = "idle"
      BY <2>2, IdleIs
    <3> QED
      BY <1>1, <1>7, <1>8, <3>1, OthersPass
  <2> QED
    BY <2>1, <2>2
<1>10. new.answer # "deferred"
  BY <1>6, IdleIs
<1>11. new.stage \in Busy => new.event = e
  BY <1>6, IdleIs DEF Busy
<1>12. x = "deferred" => channel = "SMS"
  BY DEF UndecidedInv, AnswersRight
<1>13. \A f \in Events : LeavesOpen(a, new, f)
  BY <1>3, <1>5, <1>11, <1>12 DEF LeavesOpen
<1> QED
  BY <1>7, <1>8, <1>9, <1>10, <1>13, StepLeaves

\* Who passes a retry on had its row marked.
LEMMA PassedOnLeaves ==
    ASSUME LedgerInv, UndecidedInv, NEW w \in Workers, Republish(w) \/ RepublishUnanswered(w)
    PROVE  UndecidedInv'
<1>1. /\ ActorsRight /\ TopicsRight /\ w \in Actors /\ actor[w] \in Doer /\ At(w, "republish")
  BY DeliveryBounds DEF LedgerInv, ShapeRight, ActorsRight, Republish, RepublishUnanswered
<1> PICK busy : busy = [actor[w] EXCEPT !.stage = "done"]
  OBVIOUS
<1>2. /\ busy.stage = "done" /\ busy.via = actor[w].via
      /\ busy.topic = actor[w].topic /\ busy.at = actor[w].at /\ busy.answer = actor[w].answer
  BY <1>1 DEF Doer
<1> PICK new : new = IF Republish(w) THEN busy ELSE Idle
  OBVIOUS
<1>3. actor' = [actor EXCEPT ![w] = new]
  BY <1>1 DEF ActorsRight, Republish, RepublishUnanswered, Becomes
<1>4. UNCHANGED <<mainTopic, channel, offset, row, dropped>>
  BY DEF Republish, RepublishUnanswered, topicVars
<1>5. PassesAtMost(w)
  <2>1. CASE Republish(w)
    BY <1>1, <1>2, <1>3, <1>4, <2>1, WorkPasses DEF At
  <2>2. CASE ~Republish(w)
    <3>1. new.stage = "idle"
      BY <2>2, IdleIs
    <3> QED
      BY <1>1, <1>3, <1>4, <3>1, OthersPass
  <2> QED
    BY <2>1, <2>2
<1>6. new.stage \notin Busy /\ (new.answer = "deferred" => channel = "SMS")
  BY <1>1, <1>2, IdleIs DEF Busy, UndecidedInv, AnswersRight
<1>7. \A e \in Events : Event(w) = e => row[e].status # "NONE"
  BY <1>1 DEF UndecidedInv, Unclaimed, Busy, At
<1>8. \A e \in Events : LeavesOpen(w, new, e)
  BY <1>4, <1>6, <1>7 DEF LeavesOpen
<1> QED
  BY <1>1, <1>3, <1>4, <1>5, <1>6, <1>8, StepLeaves

\* A position goes where its worker is done, and what it passes so the worker
\* had passed.
LEMMA CommitOffsetLeaves ==
    ASSUME LedgerInv, UndecidedInv, NEW w \in Workers, CommitOffset(w)
    PROVE  UndecidedInv'
<1>1. /\ TopicsRight /\ ActorsRight /\ ActorRight(w) /\ actor[w] \in Doer /\ At(w, "done")
      /\ w \in Actors
  BY DeliveryBounds DEF LedgerInv, ShapeRight, ActorsRight, CommitOffset
<1>2. /\ actor[w].via = "topic" /\ actor[w].topic \in Topics /\ actor[w].at \in Nat
      /\ offset \in [Topics -> Nat] /\ 0 \in Topics
  BY <1>1, DeliveryBounds DEF ActorRight, At, Doer, TopicsRight
<1>3. actor'[w] = Idle /\ \A b \in Actors \ {w} : actor'[b] = actor[b]
  BY <1>1 DEF ActorsRight, CommitOffset
<1>4. offset'[0] = offset[0] \/ (actor[w].topic = 0 /\ offset'[0] = actor[w].at)
  BY <1>2 DEF CommitOffset, PositionAfter
<1>5. ASSUME NEW i \in Nat, Passed(0, i)' PROVE Passed(0, i)
  <2>1. CASE i <= offset'[0]
    <3>1. CASE offset'[0] = offset[0]
      BY <2>1, <3>1 DEF Passed
    <3>2. CASE actor[w].topic = 0 /\ offset'[0] = actor[w].at
      <4>1. actor[w].at > i \/ actor[w].at = i
        BY <1>2, <2>1, <3>2
      <4>2. IsPast(w, 0, i)
        BY <1>1, <1>2, <3>2, <4>1 DEF IsPast, At
      <4> QED
        BY <4>2 DEF Passed
    <3> QED
      BY <1>4, <3>1, <3>2
  <2>2. CASE \E b \in Workers : IsPast(b, 0, i)'
    <3> PICK b \in Workers : IsPast(b, 0, i)'
      BY <2>2
    <3>1. b # w
      BY <1>3, IdleIs DEF IsPast, At
    <3>2. actor'[b] = actor[b]
      BY <1>3, <3>1, DeliveryBounds
    <3>3. IsPast(b, 0, i)
      BY <3>2 DEF IsPast, At
    <3> QED
      BY <3>3 DEF Passed
  <2> QED
    BY <1>5, <2>1, <2>2 DEF Passed
<1>6. UNCHANGED <<mainTopic, channel, row, dropped>>
  BY DEF CommitOffset, topicVars
<1>7. AnswersRight'
  BY <1>3, <1>6, IdleIs DEF UndecidedInv, AnswersRight
<1>8. ASSUME NEW e \in Events PROVE Unclaimed(e)' /\ Awaited(e)' /\ PutOff(e)'
  <2>1. Unclaimed(e)'
    BY <1>3, <1>6, IdleIs DEF UndecidedInv, Unclaimed, Event, Busy
  <2>2. Awaited(e)'
    <3>1. Len(mainTopic) \in Nat
      BY <1>1 DEF TopicsRight
    <3>2. \A i \in 1..Len(mainTopic) : Unread(e, i) => Unread(e, i)'
      BY <1>5, <1>6, <3>1 DEF Unread
    <3> QED
      BY <1>6, <3>2 DEF UndecidedInv, Awaited, Members
  <2> QED
    BY <1>6, <2>1, <2>2 DEF UndecidedInv, PutOff
<1> QED
  BY <1>7, <1>8 DEF UndecidedInv

\* A sweeper starts where there is a row.
LEMMA StartsLeaves ==
    ASSUME LedgerInv, UndecidedInv, NEW s \in Sweepers,
           StaleClaim(s) \/ Redeliver(s) \/ FindExpired(s)
    PROVE  UndecidedInv'
<1>1. /\ CountersRight /\ ActorsRight /\ TopicsRight /\ s \in Actors
  BY DeliveryBounds DEF LedgerInv, ShapeRight
<1> PICK e \in Events :
        \/ Stale(e) /\ Starts(s, e, "claimed", "stale") /\ row' = row
        \/ Due(e) /\ Starts(s, e, "claimed", "parked") /\ Settled(e, "PENDING")
        \/ Due(e) /\ Starts(s, e, "expiring", "parked") /\ row' = row
  BY DEF StaleClaim, Redeliver, FindExpired
<1>2. UNCHANGED <<mainTopic, channel, offset, dropped>> /\ At(s, "idle")
  BY DEF StaleClaim, Redeliver, FindExpired, Starts, topicVars
<1>3. /\ row[e].status # "NONE" /\ row'[e].status # "NONE"
      /\ row'[e].status = "DEFERRED" => row[e].status = "DEFERRED"
      /\ \A f \in Events \ {e} : row'[f] = row[f]
  BY <1>1 DEF Stale, Due, Settled, CountersRight, DeliveryRow
<1> PICK stage \in {"claimed", "expiring"}, via \in {"stale", "parked"} : Starts(s, e, stage, via)
  OBVIOUS
<1> PICK new : new = Doing(stage, via, e, 0, 0)
  OBVIOUS
<1>4. actor' = [actor EXCEPT ![s] = new] /\ new.via # "topic" /\ new.answer = "none" /\ new.event = e
  BY DEF Starts, Doing
<1>5. PassesAtMost(s)
  BY <1>1, <1>2, <1>4, OthersPass
<1>6. \A f \in Events : LeavesOpen(s, new, f)
  BY <1>2, <1>3, <1>4 DEF LeavesOpen
<1> QED
  BY <1>1, <1>2, <1>4, <1>5, <1>6, StepLeaves

\* Who stops, having closed the row it had or not, decides nothing.
LEMMA StopsLeaves ==
    ASSUME LedgerInv, UndecidedInv, NEW a \in Actors, Dies(a) \/ (a \in Sweepers /\ Expire(a))
    PROVE  UndecidedInv'
<1>1. /\ CountersRight /\ ActorsRight /\ TopicsRight
  BY DEF LedgerInv, ShapeRight
<1>2. /\ actor' = [actor EXCEPT ![a] = Idle]
      /\ UNCHANGED <<mainTopic, channel, offset>> /\ dropped \subseteq dropped'
  BY DEF Dies, Expire, topicVars
<1>3. \A e \in Events : row'[e] = row[e] \/ row'[e].status = "SUPPRESSED"
  BY <1>1 DEF Dies, Expire, CountersRight
<1>4. PassesAtMost(a) /\ Idle.answer # "deferred"
  BY <1>1, <1>2, IdleIs, OthersPass
<1>5. actor'[a] = Idle
  BY <1>1, <1>2 DEF ActorsRight
<1>6. \A e \in Events : LeavesOpen(a, Idle, e)
  BY <1>3, <1>5, IdleIs DEF LeavesOpen, At, Busy
<1> QED
  BY <1>2, <1>4, <1>6, StepLeaves

\* An event that arrives is one to read.
LEMMA TopicLeaves ==
    ASSUME LedgerInv, UndecidedInv, TopicNext, UNCHANGED deliveryVars
    PROVE  UndecidedInv'
<1>1. TopicsRight /\ ActorsRight
  BY DEF LedgerInv, ShapeRight
<1>2. /\ mainTopic' \in Seq(Events) /\ Len(mainTopic) <= Len(mainTopic')
      /\ \A i \in 1..Len(mainTopic) : mainTopic'[i] = mainTopic[i]
  BY <1>1, TopicGrows
<1>3. Len(mainTopic) \in Nat /\ Len(mainTopic') \in Nat
  BY <1>1, <1>2 DEF TopicsRight
<1>4. UNCHANGED <<actor, row, dropped, channel, offset>>
  BY DEF deliveryVars
<1>5. \A i : Passed(0, i)' <=> Passed(0, i)
  BY <1>4 DEF Passed, IsPast, At
<1>6. ASSUME NEW i \in Nat, i > Len(mainTopic), Passed(0, i) PROVE FALSE
  <2>1. offset[0] \in Nat /\ offset[0] <= Len(mainTopic)
    BY <1>1, DeliveryBounds DEF TopicsRight, Log
  <2>2. ~(i <= offset[0])
    BY <1>3, <1>6, <2>1
  <2> PICK w \in Workers : IsPast(w, 0, i)
    BY <1>6, <2>2 DEF Passed
  <2>3. actor[w].at \in 1..Len(mainTopic)
    <3>1. ActorRight(w)
      BY <1>1, DeliveryBounds DEF ActorsRight
    <3> QED
      BY <3>1 DEF ActorRight, IsPast, Log
  <2>4. actor[w].at > i \/ actor[w].at = i
    BY DEF IsPast
  <2> QED
    BY <1>3, <1>6, <2>3, <2>4
<1>7. ASSUME NEW e \in Events PROVE Awaited(e)'
  <2> SUFFICES ASSUME row[e].status = "NONE", e \notin dropped, e \in Members(mainTopic)'
               PROVE  \E i \in 1..Len(mainTopic') : Unread(e, i)'
    BY <1>4 DEF Awaited
  <2>1. CASE e \in Members(mainTopic)
    <3>1. \E i \in 1..Len(mainTopic) : Unread(e, i)
      BY <2>1 DEF UndecidedInv, Awaited
    <3> PICK i \in 1..Len(mainTopic) : Unread(e, i)
      BY <3>1
    <3>2. i \in 1..Len(mainTopic') /\ Unread(e, i)'
      BY <1>2, <1>3, <1>5 DEF Unread
    <3> QED
      BY <3>2
  <2>2. CASE e \notin Members(mainTopic)
    <3> PICK i \in 1..Len(mainTopic') : mainTopic'[i] = e
      BY <1>2 DEF Members
    <3>1. i > Len(mainTopic)
      <4> SUFFICES ASSUME ~(i > Len(mainTopic)) PROVE FALSE
        OBVIOUS
      <4>1. i \in 1..Len(mainTopic)
        BY <1>3
      <4>2. mainTopic[i] = e
        BY <1>2, <4>1
      <4>3. DOMAIN mainTopic = 1..Len(mainTopic)
        BY <1>1 DEF TopicsRight
      <4> QED
        BY <2>2, <4>1, <4>2, <4>3 DEF Members
    <3>2. Unread(e, i)'
      BY <1>3, <1>5, <1>6, <3>1 DEF Unread
    <3> QED
      BY <3>2
  <2> QED
    BY <2>1, <2>2
<1>8. AnswersRight' /\ \A e \in Events : Unclaimed(e)' /\ PutOff(e)'
  BY <1>4 DEF UndecidedInv, AnswersRight, Unclaimed, PutOff, Event
<1> QED
  BY <1>7, <1>8 DEF UndecidedInv

\* A rebalance, a row that ages and the clock touch nothing of this.
LEMMA OtherwiseLeaves ==
    ASSUME UndecidedInv, UNCHANGED <<mainTopic, actor, row, dropped, channel, offset>>
    PROVE  UndecidedInv'
<1>1. \A i : Passed(0, i)' <=> Passed(0, i)
  BY DEF Passed, IsPast, At
<1>2. \A e, i : Unread(e, i)' <=> Unread(e, i)
  BY <1>1 DEF Unread
<1>3. \A e \in Events : Awaited(e)'
  BY <1>2 DEF UndecidedInv, Awaited, Members
<1>4. AnswersRight' /\ \A e \in Events : Unclaimed(e)' /\ PutOff(e)'
  BY DEF UndecidedInv, AnswersRight, Unclaimed, PutOff, Event
<1> QED
  BY <1>3, <1>4 DEF UndecidedInv

LEMMA UndecidedStep == LedgerInv /\ UndecidedInv /\ [Next]_vars => UndecidedInv'
<1> SUFFICES ASSUME LedgerInv, UndecidedInv, [Next]_vars PROVE UndecidedInv'
  OBVIOUS
<1>1. CASE TopicNext /\ UNCHANGED deliveryVars
  BY <1>1, TopicLeaves
<1>2. CASE \E w \in Workers : WorkerStep(w)
  <2> PICK w \in Workers : WorkerStep(w)
    BY <1>2
  <2> QED
    BY TakeLeaves, ClaimLeaves, SendLeaves, MarkLeaves, PassedOnLeaves, CommitOffsetLeaves,
       DeliveryBounds DEF WorkerStep, Attempt
<1>3. CASE \E s \in Sweepers : SweeperStep(s)
  <2> PICK s \in Sweepers : SweeperStep(s)
    BY <1>3
  <2> QED
    BY StartsLeaves, StopsLeaves, SendLeaves, MarkLeaves, DeliveryBounds DEF SweeperStep, Attempt
<1>4. CASE Fault
  <2>1. CASE \E t \in Topics, w \in Workers : Rebalance(t, w)
    BY <2>1, OtherwiseLeaves DEF Rebalance, topicVars
  <2> QED
    BY <1>4, <2>1, ClaimFailsLeaves, PassedOnLeaves, ErrorLeaves, StopsLeaves DEF Fault
<1>5. CASE Tick \/ (\E e \in Events : Age(e)) \/ UNCHANGED vars
  BY <1>5, OtherwiseLeaves DEF Tick, Age, vars, deliveryVars, topicVars
<1> QED
  BY <1>1, <1>2, <1>3, <1>4, <1>5 DEF Next, Work

\* Who rests has read its topic to the end, so that what waits there is not.
LEMMA UndecidedImplies == LedgerInv /\ UndecidedInv => DecidedAtRest
<1> SUFFICES ASSUME LedgerInv, UndecidedInv, AtRest, NEW e \in Members(mainTopic)
             PROVE  \/ row[e].status \in {"SENT", "FAILED", "REJECTED", "SUPPRESSED"}
                    \/ row[e].status = "DEFERRED" /\ row[e].notBefore > MaxHour
                    \/ row[e].status = "NONE" /\ e \in dropped
  BY DEF DecidedAtRest, AllDecided
<1>1. TopicsRight /\ CountersRight
  BY DEF LedgerInv, ShapeRight
<1>2. e \in Events
  BY <1>1 DEF Members, TopicsRight
<1>3. row[e].status \in Status /\ row[e].notBefore \in Nat /\ hour \in Nat /\ MaxHour \in Nat
  BY <1>1, <1>2, DeliveryBounds DEF CountersRight, DeliveryRow
<1>4. CASE row[e].status = "NONE"
  <2>1. \A i \in 1..Len(mainTopic) : Passed(0, i)
    <3>1. offset[0] = Len(mainTopic) /\ Len(mainTopic) \in Nat
      BY <1>1, DeliveryBounds DEF AtRest, Log, TopicsRight
    <3> QED
      BY <3>1 DEF Passed
  <2>2. e \in dropped
    BY <1>2, <1>4, <2>1 DEF UndecidedInv, Awaited, Unread
  <2> QED
    BY <1>4, <2>2
<1>5. CASE row[e].status = "PENDING"
  BY <1>2, <1>5 DEF AtRest, Stale
<1>6. CASE row[e].status = "DEFERRED"
  <2>1. hour = MaxHour /\ ~(row[e].notBefore <= hour)
    BY <1>2, <1>6 DEF UndecidedInv, PutOff, AtRest, Due
  <2> QED
    BY <1>3, <1>6, <2>1
<1> QED
  BY <1>3, <1>4, <1>5, <1>6 DEF Status

\* The invariant says what the properties say.
LEMMA LedgerImplies == LedgerInv /\ UndecidedInv => DeliveryInv
<1> SUFFICES ASSUME LedgerInv, UndecidedInv PROVE DeliveryInv
  OBVIOUS
<1>1. TopicsRight /\ CountersRight /\ ActorsRight
  BY DEF LedgerInv, ShapeRight
<1>2. DeliveryTypeOK
  <2>1. \A t \in 1..Rungs : ladder[t] \in Seq(Events)
    BY <1>1 DEF TopicsRight
  <2>2. \A t \in Topics : owner[t] \in Workers /\ offset[t] \in 0..Len(Log(t))
    BY <1>1, LogIs DEF TopicsRight
  <2>3. \A e \in Events : row[e].status \in Status /\ row[e].notBefore \in 0..(MaxHour + 1)
    BY <1>1 DEF CountersRight, DeliveryRow
  <2>4. \A a \in Actors : actor[a].stage \in Stages /\ actor[a].answer \in Answers
    BY <1>1 DEF ActorsRight, Doer
  <2> QED
    BY <1>1, <2>1, <2>2, <2>3, <2>4 DEF DeliveryTypeOK, CountersRight
<1>3. ASSUME NEW e \in Events PROVE accepted[e] <= 1 + doubts[e]
  <2>1. IsFiniteSet(Holding(e))
    BY DeliveryBounds, FS_Subset DEF Holding
  <2>2. Cardinality(Holding(e)) \in Nat
    BY <2>1, FS_CardinalityType
  <2>3. accepted[e] \in Nat /\ doubts[e] \in Nat
    BY <1>1 DEF CountersRight
  <2>4. OpenTo(row[e].status) \in 0..1
    BY DEF OpenTo
  <2>5. accepted[e] + Cardinality(Holding(e)) + OpenTo(row[e].status) <= 1 + doubts[e]
    BY DEF LedgerInv, CountsRight, Counted
  <2> QED
    BY ONLY <2>2, <2>3, <2>4, <2>5
<1>4. ASSUME NEW e \in Events, row[e].status = "FAILED", e \notin dropped PROVE OnTheWay(e)
  <2>1. \/ \E w \in Workers : Republishing(w, e)
        \/ \E t \in 1..Rungs : \E i \in 1..Len(ladder[t]) : Waiting(e, t, i)
        \/ e \in dlq
    BY <1>4 DEF LedgerInv, RetriesRight, Carried
  <2>2. CASE \E w \in Workers : Republishing(w, e)
    BY <2>2 DEF OnTheWay, Republishing
  <2>3. CASE \E t \in 1..Rungs : \E i \in 1..Len(ladder[t]) : Waiting(e, t, i)
    <3> PICK t \in 1..Rungs : \E i \in 1..Len(ladder[t]) : Waiting(e, t, i)
      BY <2>3
    <3> PICK i \in 1..Len(ladder[t]) : Waiting(e, t, i)
      OBVIOUS
    <3>1. ladder[t][i] = e /\ ~(i <= offset[t])
      BY DEF Waiting, Passed
    <3>2. offset[t] \in Nat /\ Len(ladder[t]) \in Nat
      BY <1>1, DeliveryBounds DEF TopicsRight
    <3>3. i \in (offset[t] + 1)..Len(ladder[t])
      BY <3>1, <3>2
    <3> QED
      BY <3>1, <3>3 DEF OnTheWay
  <2>4. CASE e \in dlq
    BY <2>4 DEF OnTheWay
  <2> QED
    BY <2>1, <2>2, <2>3, <2>4
<1> QED
  BY <1>2, <1>3, <1>4, UndecidedImplies DEF DeliveryInv, RetryIsCarried, OneMessagePerDoubt

\* However workers, sweepers, rebalances, lost answers and deaths interleave,
\* for any events, members and rungs: the provider takes one message of an
\* event and one more at most for each attempt whose end nobody knew
\* (deliveryLedger.ts:90), and a delivery that failed for the moment is with a
\* worker, on a rung or among the dead letters, unless its retry was lost in a
\* way that has a name (worker.ts:177).  Once nobody has anything left to do,
\* every event on the topic is decided (stalePending.ts:88).
THEOREM DeliveryIsRight == Spec => []DeliveryInv
<1>1. Init => LedgerInv /\ UndecidedInv
  BY LedgerStarts, UndecidedStarts
<1>2. (LedgerInv /\ UndecidedInv) /\ [Next]_vars => (LedgerInv /\ UndecidedInv)'
  BY LedgerStep, UndecidedStep
<1>3. LedgerInv /\ UndecidedInv => DeliveryInv
  BY LedgerImplies
<1> QED
  BY <1>1, <1>2, <1>3, PTL DEF Spec

-----------------------------------------------------------------------------
(***************************************************************************)
(* Browsers                                                                *)
(***************************************************************************)

Subscriptions == [id : 1..MaxRows, endpoint : Endpoints, of : Accounts]
Sends == [task : {"send", "judge", "sent", "failed", "nobody"}, of : Accounts,
          to : SUBSET Subscriptions, told : SUBSET Subscriptions, dead : SUBSET Subscriptions,
          failed : SUBSET Subscriptions, moved : SUBSET Endpoints]

SendsKeepShape ==
    /\ DevicesTypeOK
    /\ pusher \in [Pushers -> {NotSending} \cup Sends]
    /\ wronged \in BOOLEAN /\ lost \in BOOLEAN

\* The id of a row is its endpoint's for good, so that what a send removes by
\* id is what it had read.
Known(r) == r.id <= rows /\ \A s \in subscription : s.id = r.id => s.endpoint = r.endpoint

\* What a send still has to tell was its account's when it read it, and is
\* unless it moved or went meanwhile.
Rightful(x, r) ==
    /\ r.of = x.of
    /\ r.endpoint \in gone \/ r.endpoint \in x.moved \/ holder[r.endpoint] = x.of
SendRight(x) ==
    /\ \A r \in x.to : Known(r) /\ Rightful(x, r)
    /\ \A r \in x.dead : Known(r) /\ r.endpoint \in gone
    /\ x.task = "nobody" => x.told = {} /\ x.failed = {}

BrowsersInv ==
    /\ SendsKeepShape
    /\ \A r \in subscription : Known(r)
    /\ TellsItsHolder /\ WorkingKept
    /\ \A p \in Pushers : pusher[p] # NotSending => SendRight(pusher[p])

LEMMA BrowsersFollow == BrowsersInv => DevicesInv
<1> SUFFICES ASSUME BrowsersInv PROVE DevicesInv
  OBVIOUS
<1>1. ASSUME NEW p \in Pushers, pusher[p].task = "nobody"
      PROVE  /\ pusher[p].told = {}
             /\ \A r \in pusher[p].failed \cup pusher[p].dead : r.endpoint \in gone
  <2>1. pusher[p] # NotSending
    BY <1>1 DEF NotSending
  <2> QED BY <1>1, <2>1 DEF BrowsersInv, SendRight
<1> QED BY <1>1 DEF BrowsersInv, DevicesInv, SendsKeepShape, NobodyMeansGone

LEMMA BrowsersInit == DevicesInit => BrowsersInv
<1> SUFFICES ASSUME DevicesInit PROVE BrowsersInv
  OBVIOUS
<1>1. SendsKeepShape
  <2>1. DevicesTypeOK
    BY DevicesAssumption DEF DevicesInit, DevicesTypeOK
  <2>2. pusher \in [Pushers -> {NotSending} \cup Sends]
    BY DEF DevicesInit
  <2> QED BY <2>1, <2>2 DEF DevicesInit, SendsKeepShape
<1>2. TellsItsHolder /\ WorkingKept
  BY DEF DevicesInit, TellsItsHolder, WorkingKept, RowsFor
<1> QED BY <1>1, <1>2 DEF DevicesInit, BrowsersInv

\* One endpoint goes to u, or to nobody.
LEMMA HandsChange ==
    ASSUME BrowsersInv, NEW e \in Endpoints, NEW u \in Accounts \cup {NoAccount},
           ChangesHands(e, u), UNCHANGED gone
    PROVE  /\ holder' \in [Endpoints -> Accounts \cup {NoAccount}]
           /\ pusher' \in [Pushers -> {NotSending} \cup Sends]
           /\ \A p \in Pushers :
                  /\ (pusher'[p] = NotSending) = (pusher[p] = NotSending)
                  /\ pusher[p] # NotSending =>
                         /\ pusher'[p].to = pusher[p].to
                         /\ pusher'[p].told = pusher[p].told
                         /\ pusher'[p].dead = pusher[p].dead
                         /\ pusher'[p].failed = pusher[p].failed
                         /\ pusher'[p].task = pusher[p].task
                         /\ \A r \in pusher[p].to : Rightful(pusher[p], r) => Rightful(pusher[p], r)'
<1>1. holder' = [holder EXCEPT ![e] = u]
      /\ holder \in [Endpoints -> Accounts \cup {NoAccount}]
      /\ pusher \in [Pushers -> {NotSending} \cup Sends]
  BY DEF ChangesHands, BrowsersInv, SendsKeepShape, DevicesTypeOK
<1>2. CASE holder[e] = u
  <2>1. pusher' = pusher /\ holder' = holder
    BY <1>1, <1>2 DEF ChangesHands
  <2> QED BY <1>1, <2>1 DEF Rightful
<1>3. CASE holder[e] # u
  <2>1. pusher' = [p \in Pushers |->
                      IF pusher[p] = NotSending THEN NotSending
                      ELSE [pusher[p] EXCEPT !.moved = @ \cup {e}]]
    BY <1>3 DEF ChangesHands
  <2>2. ASSUME NEW p \in Pushers
        PROVE  /\ pusher'[p] \in {NotSending} \cup Sends
               /\ (pusher'[p] = NotSending) = (pusher[p] = NotSending)
               /\ pusher[p] # NotSending =>
                         /\ pusher'[p].to = pusher[p].to
                         /\ pusher'[p].told = pusher[p].told
                         /\ pusher'[p].dead = pusher[p].dead
                         /\ pusher'[p].failed = pusher[p].failed
                         /\ pusher'[p].task = pusher[p].task
                         /\ \A r \in pusher[p].to : Rightful(pusher[p], r) => Rightful(pusher[p], r)'
    <3>1. CASE pusher[p] = NotSending
      BY <2>1, <3>1
    <3>2. CASE pusher[p] # NotSending
      <4>1. pusher[p] \in Sends
        BY <1>1, <3>2
      <4>2. PICK x : x = pusher'[p]
        OBVIOUS
      <4>3. x = [pusher[p] EXCEPT !.moved = @ \cup {e}]
        BY <2>1, <3>2, <4>2
      <4>4. x \in Sends /\ x.moved = pusher[p].moved \cup {e} /\ x.of = pusher[p].of
            /\ x.to = pusher[p].to /\ x.told = pusher[p].told /\ x.dead = pusher[p].dead
            /\ x.failed = pusher[p].failed /\ x.task = pusher[p].task
        BY <4>1, <4>3 DEF Sends
      <4>5. x # NotSending
        BY <4>4 DEF Sends, NotSending
      <4>6. ASSUME NEW r \in pusher[p].to, Rightful(pusher[p], r)
            PROVE  Rightful(pusher[p], r)'
        <5>1. r.endpoint \in Endpoints
          BY <4>1 DEF Sends, Subscriptions
        <5> QED BY <1>1, <4>2, <4>4, <4>6, <5>1 DEF Rightful
      <4> QED BY <3>2, <4>2, <4>4, <4>5, <4>6
    <3> QED BY <3>1, <3>2
  <2> QED BY <1>1, <2>1, <2>2
<1> QED BY <1>2, <1>3

\* The rows that are left are some of those there were, and what sends carry
\* was known before.
LEMMA FewerRows ==
    ASSUME BrowsersInv, subscription' \subseteq subscription, UNCHANGED rows
    PROVE  /\ subscription' \subseteq Subscriptions
           /\ \A r : Known(r) => Known(r)'
BY DEF BrowsersInv, SendsKeepShape, DevicesTypeOK, Subscriptions, Known

LEMMA SubscribeKeeps ==
    ASSUME BrowsersInv, NEW u \in Accounts, NEW e \in Endpoints, Subscribe(u, e)
    PROVE  BrowsersInv'
<1> DEFINE former == TakenOver(u, e)
           id == IF former = {} THEN rows + 1 ELSE (CHOOSE r \in former : TRUE).id
           new == [id |-> id, endpoint |-> e, of |-> u]
<1>1. /\ e \notin gone /\ id <= MaxRows
      /\ rows' = IF id > rows THEN id ELSE rows
      /\ subscription' = (subscription \ former) \cup {new}
      /\ ChangesHands(e, u)
      /\ UNCHANGED <<gone, wronged, lost>>
  BY DEF Subscribe
<1>2. former = {r \in subscription : r.endpoint = e}
  BY DEF TakenOver, RowsFor
<1>3. /\ subscription \subseteq Subscriptions /\ rows \in 0..MaxRows /\ gone \subseteq Endpoints
      /\ holder \in [Endpoints -> Accounts \cup {NoAccount}]
      /\ wronged = FALSE /\ lost = FALSE
  BY DEF BrowsersInv, SendsKeepShape, DevicesTypeOK, Subscriptions, TellsItsHolder, WorkingKept
<1>4. id \in 1..MaxRows /\ (former # {} => id <= rows) /\ (former = {} => id = rows + 1)
      /\ (former # {} => \E r \in former : id = r.id)
  <2>1. CASE former = {}
    <3>1. id = rows + 1
      BY <2>1
    <3> QED BY <1>1, <1>3, <2>1, <3>1
  <2>2. CASE former # {}
    <3>1. PICK r : r = CHOOSE s \in former : TRUE
      OBVIOUS
    <3>2. r \in former /\ id = r.id
      BY <2>2, <3>1
    <3>3. r \in subscription /\ r.endpoint = e
      BY <1>2, <3>2
    <3>4. r.id <= rows /\ r.id \in 1..MaxRows
      BY <1>3, <3>3 DEF BrowsersInv, Known, Subscriptions
    <3> QED BY <2>2, <3>2, <3>4
  <2> QED BY <2>1, <2>2
<1>5. PICK n : n = new
  OBVIOUS
<1>6. n \in Subscriptions /\ n.id = id /\ n.endpoint = e /\ n.of = u
  BY <1>4, <1>5 DEF Subscriptions
<1>7. rows' \in 0..MaxRows /\ rows <= rows' /\ id <= rows'
  BY <1>1, <1>3, <1>4
<1>8. ASSUME NEW r, r.id <= rows, \A s \in subscription : s.id = r.id => s.endpoint = r.endpoint,
             r.id \in 1..MaxRows
      PROVE  Known(r)'
  <2>1. r.id <= rows'
    BY <1>3, <1>7, <1>8
  <2>2. ASSUME NEW s \in subscription', s.id = r.id PROVE s.endpoint = r.endpoint
    <3>1. CASE s \in subscription
      BY <1>8, <2>2, <3>1
    <3>2. CASE s = n
      <4>1. former # {}
        BY <1>3, <1>4, <1>6, <1>8, <2>2, <3>2
      <4>2. PICK t \in former : id = t.id
        BY <1>4, <4>1
      <4>3. t \in subscription /\ t.endpoint = e /\ t.id = r.id
        BY <1>2, <1>6, <2>2, <3>2, <4>2
      <4> QED BY <1>6, <1>8, <3>2, <4>3
    <3> QED BY <1>1, <1>5, <2>2, <3>1, <3>2
  <2> QED BY <2>1, <2>2 DEF Known
<1>9. \A r \in Subscriptions : Known(r) => Known(r)'
  BY <1>8 DEF Known, Subscriptions
<1>10. Known(n)'
  <2>1. ASSUME NEW s \in subscription', s.id = n.id PROVE s.endpoint = e
    <3>1. CASE s \in subscription
      <4>1. Known(s)
        BY <3>1 DEF BrowsersInv
      <4>2. former # {}
        BY <1>3, <1>4, <1>6, <2>1, <3>1, <4>1 DEF Known, Subscriptions
      <4>3. PICK t \in former : id = t.id
        BY <1>4, <4>2
      <4>4. t \in subscription /\ t.endpoint = e /\ t.id = s.id
        BY <1>2, <1>6, <2>1, <4>3
      <4> QED BY <4>1, <4>4 DEF Known
    <3>2. CASE s = n
      BY <1>6, <3>2
    <3> QED BY <1>1, <1>5, <2>1, <3>1, <3>2
  <2> QED BY <1>6, <1>7, <2>1 DEF Known
<1>11. /\ holder' \in [Endpoints -> Accounts \cup {NoAccount}]
       /\ holder' = [holder EXCEPT ![e] = u]
       /\ pusher' \in [Pushers -> {NotSending} \cup Sends]
  BY <1>1, HandsChange DEF ChangesHands
<1>12. SendsKeepShape'
  BY <1>1, <1>3, <1>5, <1>6, <1>7, <1>11 DEF SendsKeepShape, DevicesTypeOK, Subscriptions, Sends
<1>13. TellsItsHolder' /\ WorkingKept'
  <2>1. ASSUME NEW d \in Endpoints, d \notin gone
        PROVE  {r.of : r \in {s \in subscription' : s.endpoint = d}} = {holder'[d]} \ {NoAccount}
    <3>1. CASE d = e
      <4>1. {s \in subscription' : s.endpoint = d} = {n}
        BY <1>1, <1>2, <1>5, <1>6, <3>1
      <4>2. holder'[d] = u /\ u # NoAccount
        BY <1>3, <1>11, <3>1, DevicesAssumption
      <4> QED BY <1>6, <4>1, <4>2
    <3>2. CASE d # e
      <4>1. {s \in subscription' : s.endpoint = d} = RowsFor(d)
        BY <1>1, <1>2, <1>5, <1>6, <3>2 DEF RowsFor
      <4>2. holder'[d] = holder[d]
        BY <1>3, <1>11, <3>2
      <4>3. {r.of : r \in RowsFor(d)} = {holder[d]} \ {NoAccount}
        BY <2>1 DEF BrowsersInv, TellsItsHolder
      <4> QED BY <4>1, <4>2, <4>3
    <3> QED BY <3>1, <3>2
  <2> QED BY <1>1, <1>3, <2>1 DEF TellsItsHolder, WorkingKept, RowsFor
<1>14. \A r \in subscription' : Known(r)'
  BY <1>1, <1>3, <1>5, <1>9, <1>10 DEF BrowsersInv
<1>15. ASSUME NEW p \in Pushers, pusher'[p] # NotSending
       PROVE  SendRight(pusher[p])'
  <2>1. pusher[p] # NotSending
    BY <1>1, <1>15, HandsChange
  <2>2. SendRight(pusher[p]) /\ pusher[p] \in Sends
    BY <2>1 DEF BrowsersInv, SendsKeepShape
  <2>3. /\ pusher'[p].to = pusher[p].to /\ pusher'[p].told = pusher[p].told
        /\ pusher'[p].dead = pusher[p].dead /\ pusher'[p].failed = pusher[p].failed
        /\ pusher'[p].task = pusher[p].task
        /\ \A r \in pusher[p].to : Rightful(pusher[p], r) => Rightful(pusher[p], r)'
    BY <1>1, <2>1, HandsChange
  <2>4. pusher[p].to \subseteq Subscriptions /\ pusher[p].dead \subseteq Subscriptions
    BY <2>2 DEF Sends
  <2>5. \A r \in pusher[p].to : Known(r)' /\ Rightful(pusher[p], r)'
    BY <1>9, <2>2, <2>3, <2>4 DEF SendRight
  <2>6. \A r \in pusher[p].dead : Known(r)' /\ r.endpoint \in gone'
    BY <1>1, <1>9, <2>2, <2>4 DEF SendRight
  <2> QED BY <2>2, <2>3, <2>5, <2>6 DEF SendRight
<1> QED BY <1>12, <1>13, <1>14, <1>15 DEF BrowsersInv

LEMMA UnsubscribeKeeps ==
    ASSUME BrowsersInv, NEW u \in Accounts, NEW e \in Endpoints, Unsubscribe(u, e)
    PROVE  BrowsersInv'
<1> DEFINE next == IF holder[e] = u THEN NoAccount ELSE holder[e]
<1>1. /\ subscription' = {r \in subscription : ~(r.endpoint = e /\ r.of = u)}
      /\ ChangesHands(e, next)
      /\ UNCHANGED <<rows, gone, wronged, lost>>
  BY DEF Unsubscribe
<1>2. /\ subscription \subseteq Subscriptions /\ rows \in 0..MaxRows /\ gone \subseteq Endpoints
      /\ holder \in [Endpoints -> Accounts \cup {NoAccount}]
      /\ wronged = FALSE /\ lost = FALSE
  BY DEF BrowsersInv, SendsKeepShape, DevicesTypeOK, Subscriptions, TellsItsHolder, WorkingKept
<1>3. next \in Accounts \cup {NoAccount}
  BY <1>2
<1>4. subscription' \subseteq Subscriptions /\ \A r : Known(r) => Known(r)'
  BY <1>1, FewerRows
<1>5. /\ holder' \in [Endpoints -> Accounts \cup {NoAccount}]
      /\ holder' = [holder EXCEPT ![e] = next]
      /\ pusher' \in [Pushers -> {NotSending} \cup Sends]
  BY <1>1, <1>3, HandsChange DEF ChangesHands
<1>6. SendsKeepShape'
  BY <1>1, <1>2, <1>4, <1>5 DEF SendsKeepShape, DevicesTypeOK, Subscriptions, Sends
<1>7. TellsItsHolder' /\ WorkingKept'
  <2>1. ASSUME NEW d \in Endpoints, d \notin gone
        PROVE  {r.of : r \in {s \in subscription' : s.endpoint = d}} = {holder'[d]} \ {NoAccount}
    <3>1. {r.of : r \in {s \in subscription : s.endpoint = d}} = {holder[d]} \ {NoAccount}
      BY <2>1 DEF BrowsersInv, TellsItsHolder, RowsFor
    <3>2. CASE d = e
      BY <1>1, <1>2, <1>5, <3>1, <3>2
    <3>3. CASE d # e
      <4>1. {s \in subscription' : s.endpoint = d} = {s \in subscription : s.endpoint = d}
        BY <1>1, <3>3
      <4>2. holder'[d] = holder[d]
        BY <1>2, <1>5, <3>3
      <4> QED BY <3>1, <4>1, <4>2
    <3> QED BY <3>2, <3>3
  <2> QED BY <1>1, <1>2, <2>1 DEF TellsItsHolder, WorkingKept, RowsFor
<1>8. ASSUME NEW p \in Pushers, pusher'[p] # NotSending
      PROVE  SendRight(pusher[p])'
  <2>1. pusher[p] # NotSending
    BY <1>1, <1>3, <1>8, HandsChange
  <2>2. SendRight(pusher[p]) /\ pusher[p] \in Sends
    BY <2>1 DEF BrowsersInv, SendsKeepShape
  <2>3. /\ pusher'[p].to = pusher[p].to /\ pusher'[p].told = pusher[p].told
        /\ pusher'[p].dead = pusher[p].dead /\ pusher'[p].failed = pusher[p].failed
        /\ pusher'[p].task = pusher[p].task
        /\ \A r \in pusher[p].to : Rightful(pusher[p], r) => Rightful(pusher[p], r)'
    BY <1>1, <1>3, <2>1, HandsChange
  <2>4. \A r \in pusher[p].to : Known(r)' /\ Rightful(pusher[p], r)'
    BY <1>4, <2>2, <2>3 DEF SendRight
  <2>5. \A r \in pusher[p].dead : Known(r)' /\ r.endpoint \in gone'
    BY <1>1, <1>4, <2>2 DEF SendRight
  <2> QED BY <2>2, <2>3, <2>4, <2>5 DEF SendRight
<1> QED BY <1>1, <1>4, <1>6, <1>7, <1>8 DEF BrowsersInv

LEMMA UninstalledKeeps ==
    ASSUME BrowsersInv, NEW e \in Endpoints, Uninstalled(e)
    PROVE  BrowsersInv'
<1>1. /\ gone' = gone \cup {e}
      /\ holder' = [holder EXCEPT ![e] = NoAccount]
      /\ UNCHANGED <<subscription, rows, pusher, wronged, lost>>
  BY DEF Uninstalled
<1>2. SendsKeepShape'
  BY <1>1 DEF BrowsersInv, SendsKeepShape, DevicesTypeOK, Sends, Subscriptions
<1>3. TellsItsHolder' /\ WorkingKept'
  BY <1>1 DEF BrowsersInv, SendsKeepShape, DevicesTypeOK, TellsItsHolder, WorkingKept, RowsFor
<1>4. \A r : Known(r) => Known(r)'
  BY <1>1 DEF Known
<1>5. ASSUME NEW p \in Pushers, pusher[p] # NotSending
      PROVE  SendRight(pusher[p])'
  <2>1. SendRight(pusher[p]) /\ pusher[p] \in Sends
    BY <1>5 DEF BrowsersInv, SendsKeepShape
  <2>2. ASSUME NEW r \in pusher[p].to PROVE Rightful(pusher[p], r)'
    <3>1. r.endpoint \in Endpoints /\ Rightful(pusher[p], r)
      BY <2>1 DEF Sends, Subscriptions, SendRight
    <3>2. r.endpoint # e => holder'[r.endpoint] = holder[r.endpoint]
      BY <1>1, <3>1 DEF BrowsersInv, SendsKeepShape, DevicesTypeOK
    <3> QED BY <1>1, <3>1, <3>2 DEF Rightful
  <2> QED BY <1>1, <1>4, <2>1, <2>2 DEF SendRight
<1> QED BY <1>1, <1>2, <1>3, <1>4, <1>5 DEF BrowsersInv

\* A send goes on to x, and nothing else happens.
LEMMA SendGoesOn ==
    ASSUME BrowsersInv, NEW p \in Pushers, NEW x \in {NotSending} \cup Sends,
           x # NotSending => SendRight(x),
           pusher' = [pusher EXCEPT ![p] = x],
           UNCHANGED <<subscription, rows, holder, gone, wronged, lost>>
    PROVE  BrowsersInv'
<1>1. SendsKeepShape'
  BY DEF BrowsersInv, SendsKeepShape, DevicesTypeOK, Sends, Subscriptions
<1>2. TellsItsHolder' /\ WorkingKept' /\ \A r \in subscription' : Known(r)'
  BY DEF BrowsersInv, TellsItsHolder, WorkingKept, RowsFor, Known
<1>3. ASSUME NEW q \in Pushers, pusher'[q] # NotSending
      PROVE  SendRight(pusher[q])'
  <2>1. PICK y : y = pusher'[q]
    OBVIOUS
  <2>2. SendRight(y)
    BY <1>3, <2>1 DEF BrowsersInv, SendsKeepShape
  <2>3. SendRight(y)'
    BY <2>2 DEF SendRight, Known, Rightful
  <2> QED BY <2>1, <2>3 DEF SendRight, Known, Rightful
<1> QED BY <1>1, <1>2, <1>3 DEF BrowsersInv

LEMMA StartSendKeeps ==
    ASSUME BrowsersInv, NEW p \in Pushers, NEW u \in Accounts, StartSend(p, u)
    PROVE  BrowsersInv'
<1>1. PICK x : x = [task |-> "send", of |-> u, to |-> RowsOf(u),
                    told |-> {}, dead |-> {}, failed |-> {}, moved |-> {}]
  OBVIOUS
<1>2. RowsOf(u) \subseteq Subscriptions /\ \A r \in RowsOf(u) : r \in subscription /\ r.of = u
  BY DEF BrowsersInv, SendsKeepShape, DevicesTypeOK, RowsOf, Subscriptions
<1>3. x \in Sends
  BY <1>1, <1>2 DEF Sends
<1>4. ASSUME NEW r \in RowsOf(u) PROVE Known(r) /\ Rightful(x, r)
  <2>1. Known(r) /\ r.endpoint \in Endpoints
    BY <1>2 DEF BrowsersInv, Subscriptions
  <2>2. CASE r.endpoint \in gone
    BY <1>1, <1>2, <2>1, <2>2 DEF Rightful
  <2>3. CASE r.endpoint \notin gone
    <3>1. {s.of : s \in RowsFor(r.endpoint)} = {holder[r.endpoint]} \ {NoAccount}
      BY <2>1, <2>3 DEF BrowsersInv, TellsItsHolder
    <3>2. r \in RowsFor(r.endpoint)
      BY <1>2 DEF RowsFor
    <3> QED BY <1>1, <1>2, <2>1, <3>1, <3>2 DEF Rightful
  <2> QED BY <2>2, <2>3
<1>5. SendRight(x)
  BY <1>1, <1>4 DEF SendRight
<1> QED BY <1>1, <1>3, <1>5, SendGoesOn DEF StartSend

LEMMA TellsKeeps ==
    ASSUME BrowsersInv, NEW p \in Pushers, NEW r, NEW answer \in PushAnswers, Tells(p, r, answer)
    PROVE  BrowsersInv'
<1>1. /\ pusher[p].task = "send" /\ r \in pusher[p].to
      /\ (r.endpoint \in gone) = (answer = "dead")
  BY DEF Tells
<1>2. pusher[p] # NotSending
  BY <1>1 DEF NotSending
<1>3. pusher[p] \in Sends /\ SendRight(pusher[p])
  BY <1>2 DEF BrowsersInv, SendsKeepShape
<1>4. r \in Subscriptions /\ Known(r) /\ Rightful(pusher[p], r)
  BY <1>1, <1>3 DEF Sends, SendRight
<1>5. PICK w : w = pusher[p]
  OBVIOUS
<1>6. PICK x1 : x1 = [w EXCEPT !.to = @ \ {r}]
  OBVIOUS
<1>7. x1 \in Sends /\ x1.to = w.to \ {r} /\ x1.dead = w.dead /\ x1.of = w.of
      /\ x1.moved = w.moved /\ x1.task = w.task /\ x1.told = w.told /\ x1.failed = w.failed
  BY <1>3, <1>5, <1>6 DEF Sends
<1>8. PICK x2 : x2 = [x1 EXCEPT !.told = IF answer = "told" THEN @ \cup {r} ELSE @]
  OBVIOUS
<1>9. x2 \in Sends /\ x2.to = w.to \ {r} /\ x2.dead = w.dead /\ x2.of = w.of
      /\ x2.moved = w.moved /\ x2.task = w.task /\ x2.failed = w.failed
  BY <1>4, <1>7, <1>8 DEF Sends
<1>10. PICK x3 : x3 = [x2 EXCEPT !.dead = IF answer = "dead" THEN @ \cup {r} ELSE @]
  OBVIOUS
<1>11. x3 \in Sends /\ x3.to = w.to \ {r} /\ x3.of = w.of
       /\ x3.dead = (IF answer = "dead" THEN w.dead \cup {r} ELSE w.dead)
       /\ x3.moved = w.moved /\ x3.task = w.task
  BY <1>4, <1>9, <1>10 DEF Sends
<1>12. PICK x : x = [x3 EXCEPT !.failed = IF answer = "failed" THEN @ \cup {r} ELSE @]
  OBVIOUS
<1>13. x \in Sends /\ x.to = w.to \ {r} /\ x.of = w.of
       /\ x.dead = (IF answer = "dead" THEN w.dead \cup {r} ELSE w.dead)
       /\ x.moved = w.moved /\ x.task = w.task
  BY <1>4, <1>11, <1>12 DEF Sends
<1>14. pusher' = [pusher EXCEPT ![p] = x]
  <2>1. x = [w EXCEPT
           !.to = @ \ {r},
           !.told = IF answer = "told" THEN @ \cup {r} ELSE @,
           !.dead = IF answer = "dead" THEN @ \cup {r} ELSE @,
           !.failed = IF answer = "failed" THEN @ \cup {r} ELSE @]
    BY ONLY <1>3, <1>5, <1>6, <1>8, <1>10, <1>12 DEF Sends
  <2>2. pusher' = [pusher EXCEPT ![p] = [pusher[p] EXCEPT
           !.to = @ \ {r},
           !.told = IF answer = "told" THEN @ \cup {r} ELSE @,
           !.dead = IF answer = "dead" THEN @ \cup {r} ELSE @,
           !.failed = IF answer = "failed" THEN @ \cup {r} ELSE @]]
    BY DEF Tells
  <2> QED BY ONLY <1>5, <2>1, <2>2
<1>15. \A s \in x.to : Known(s) /\ Rightful(x, s)
  BY <1>3, <1>5, <1>13 DEF SendRight, Rightful
<1>16. \A s \in x.dead : Known(s) /\ s.endpoint \in gone
  BY <1>1, <1>3, <1>4, <1>5, <1>13 DEF SendRight
<1>17. SendRight(x)
  BY <1>1, <1>5, <1>13, <1>15, <1>16 DEF SendRight
<1>18. wronged' = wronged
  <2>1. ~(answer = "told" /\ r.endpoint \notin pusher[p].moved
                          /\ holder[r.endpoint] # pusher[p].of)
    BY <1>1, <1>4 DEF Rightful
  <2> QED BY <2>1 DEF Tells, BrowsersInv, SendsKeepShape
<1>19. UNCHANGED <<subscription, rows, holder, gone, wronged, lost>>
  BY <1>18 DEF Tells
<1> QED BY <1>13, <1>14, <1>17, <1>19, SendGoesOn

LEMMA DropDeadKeeps ==
    ASSUME BrowsersInv, NEW p \in Pushers, DropDead(p)
    PROVE  BrowsersInv'
<1> DEFINE ids == {r.id : r \in pusher[p].dead}
<1>1. /\ pusher[p].task = "send" /\ pusher[p].to = {}
      /\ subscription' = {r \in subscription : r.id \notin ids}
      /\ lost' = (lost \/ \E r \in subscription : r.id \in ids /\ r.endpoint \notin gone)
      /\ pusher' = [pusher EXCEPT ![p].task = "judge"]
      /\ UNCHANGED <<rows, holder, gone, wronged>>
  BY DEF DropDead, Removed
<1>2. pusher[p] # NotSending
  BY <1>1 DEF NotSending
<1>3. pusher[p] \in Sends /\ SendRight(pusher[p]) /\ pusher \in [Pushers -> {NotSending} \cup Sends]
  BY <1>2 DEF BrowsersInv, SendsKeepShape
<1>4. \A r \in subscription : r.id \in ids => r.endpoint \in gone
  BY <1>3 DEF SendRight, Known
<1>5. lost' = lost
  BY <1>1, <1>4 DEF BrowsersInv, SendsKeepShape
<1>6. subscription' \subseteq Subscriptions /\ \A r : Known(r) => Known(r)'
  <2>1. subscription' \subseteq subscription /\ UNCHANGED rows
    BY <1>1
  <2> QED BY <2>1, FewerRows
<1>7. PICK x : x = [pusher[p] EXCEPT !.task = "judge"]
  OBVIOUS
<1>8. x \in Sends /\ x.to = {} /\ x.dead = pusher[p].dead /\ x.task = "judge"
  BY <1>1, <1>3, <1>7 DEF Sends
<1>9. pusher' = [pusher EXCEPT ![p] = x]
  BY <1>1, <1>3, <1>7
<1>10. SendsKeepShape'
  BY <1>1, <1>3, <1>5, <1>6, <1>8, <1>9 DEF BrowsersInv, SendsKeepShape, DevicesTypeOK,
     Subscriptions, Sends
<1>11. TellsItsHolder' /\ WorkingKept'
  <2>1. ASSUME NEW d \in Endpoints, d \notin gone
        PROVE  {s \in subscription' : s.endpoint = d} = {s \in subscription : s.endpoint = d}
    BY <1>1, <1>4, <2>1
  <2> QED BY <1>1, <1>5, <2>1 DEF BrowsersInv, TellsItsHolder, WorkingKept, RowsFor
<1>12. ASSUME NEW q \in Pushers, pusher'[q] # NotSending
       PROVE  SendRight(pusher[q])'
  <2>1. CASE q = p
    <3>1. \A r \in x.dead : Known(r)' /\ r.endpoint \in gone'
      BY <1>1, <1>3, <1>6, <1>8 DEF SendRight
    <3>2. pusher'[q] = x
      BY <1>3, <1>9, <2>1
    <3> QED BY <1>8, <3>1, <3>2 DEF SendRight
  <2>2. CASE q # p
    <3>1. pusher'[q] = pusher[q] /\ SendRight(pusher[q])
      BY <1>3, <1>9, <1>12, <2>2 DEF BrowsersInv
    <3> QED BY <1>1, <1>6, <3>1 DEF SendRight, Rightful
  <2> QED BY <2>1, <2>2
<1> QED BY <1>1, <1>6, <1>10, <1>11, <1>12 DEF BrowsersInv

LEMMA JudgeKeeps ==
    ASSUME BrowsersInv, NEW p \in Pushers, Judge(p)
    PROVE  BrowsersInv'
<1>1. pusher[p].task = "judge" /\ pusher' = [pusher EXCEPT ![p].task = Verdict(pusher[p])]
      /\ UNCHANGED <<subscription, rows, holder, gone, wronged, lost>>
  BY DEF Judge
<1>2. pusher[p] # NotSending
  BY <1>1 DEF NotSending
<1>3. pusher[p] \in Sends /\ SendRight(pusher[p]) /\ pusher \in [Pushers -> {NotSending} \cup Sends]
  BY <1>2 DEF BrowsersInv, SendsKeepShape
<1>4. PICK v : v = Verdict(pusher[p])
  OBVIOUS
<1>5. v \in {"sent", "failed", "nobody"}
      /\ (v = "nobody" => pusher[p].told = {} /\ pusher[p].failed = {})
  BY <1>4 DEF Verdict
<1>6. PICK x : x = [pusher[p] EXCEPT !.task = v]
  OBVIOUS
<1>7. x \in Sends /\ x.to = pusher[p].to /\ x.dead = pusher[p].dead /\ x.task = v
      /\ x.told = pusher[p].told /\ x.failed = pusher[p].failed
      /\ x.of = pusher[p].of /\ x.moved = pusher[p].moved
  BY <1>3, <1>5, <1>6 DEF Sends
<1>8. pusher' = [pusher EXCEPT ![p] = x]
  BY <1>1, <1>3, <1>4, <1>6
<1>9. SendRight(x)
  BY <1>3, <1>5, <1>7 DEF SendRight, Rightful
<1> QED BY <1>1, <1>7, <1>8, <1>9, SendGoesOn

\* A browser belongs to who subscribed it last and is told of nobody else's
\* account, a working browser keeps its subscription, and that nobody can be
\* told is settled only of browsers that are gone, however accounts change,
\* push services answer and senders die (push.ts:100-178).
THEOREM DevicesAreRight == DevicesSpec => []DevicesInv
<1>1. BrowsersInv /\ [DevicesNext]_devicesVars => BrowsersInv'
  <2> SUFFICES ASSUME BrowsersInv, [DevicesNext]_devicesVars PROVE BrowsersInv'
    OBVIOUS
  <2>1. ASSUME NEW p \in Pushers, Leaves(p) \/ PusherDies(p) PROVE BrowsersInv'
    BY <2>1, SendGoesOn DEF Leaves, PusherDies
  <2>2. CASE UNCHANGED devicesVars
    BY <2>2 DEF BrowsersInv, SendsKeepShape, DevicesTypeOK, TellsItsHolder, WorkingKept, RowsFor,
       Known, SendRight, Rightful, devicesVars
  <2> QED BY <2>1, <2>2, SubscribeKeeps, UnsubscribeKeeps, UninstalledKeeps, StartSendKeeps,
         TellsKeeps, DropDeadKeeps, JudgeKeeps DEF DevicesNext
<1> QED BY BrowsersInit, BrowsersFollow, <1>1, PTL DEF DevicesSpec

-----------------------------------------------------------------------------
(***************************************************************************)
(* Settings and unsubscribe links                                          *)
(***************************************************************************)

Links == [task : {"all"}, channel : Means, left : SUBSET Types, chosen : SUBSET Types]

ChoicesKeepShape ==
    /\ PreferencesTypeOK
    /\ following \in [Followers -> {NotFollowed} \cup Links]

\* What a link's request has passed is off, unless it was chosen meanwhile, and
\* it has nothing to do with what must be sent.
PassedIsOff(x) ==
    /\ x.left \cap ALWAYS_EMAILED = {}
    /\ \A t \in Types \ ALWAYS_EMAILED :
           IsOffered(t, x.channel) /\ t \notin x.left \cup x.chosen => choice[t][x.channel] = "off"

EndedIsOff == \A t \in Types, c \in Means : <<t, c>> \in ended => choice[t][c] = "off"

ChoicesInv ==
    /\ ChoicesKeepShape /\ LinksSpareWhatMatters /\ EndedIsOff
    /\ \A l \in Followers : following[l] # NotFollowed => PassedIsOff(following[l])

LEMMA ChoicesFollow == ChoicesInv => PreferencesInv
<1> SUFFICES ASSUME ChoicesInv PROVE PreferencesInv
  OBVIOUS
<1>1. choice \in [Types -> [Means -> {"unset", "on", "off"}]] /\ ended \subseteq Types \X Means
  BY DEF ChoicesInv, ChoicesKeepShape, PreferencesTypeOK
<1>2. SettingsTellTheTruth
  BY <1>1 DEF SettingsTellTheTruth, Enabled, ShouldSend
<1>3. OptedOutStaysOut
  <2> SUFFICES ASSUME NEW s \in ended PROVE choice[s[1]][s[2]] = "off" /\ ~ShouldSend(s[1], s[2])
    BY DEF OptedOutStaysOut
  <2>1. PICK t \in Types, c \in Means : s = <<t, c>>
    BY <1>1
  <2>2. choice[t][c] = "off"
    BY <2>1 DEF ChoicesInv, EndedIsOff
  <2>3. ~ShouldSend(t, c)
    BY <2>2 DEF ShouldSend
  <2> QED BY <2>1, <2>2, <2>3
<1> QED BY <1>2, <1>3 DEF ChoicesInv, ChoicesKeepShape, PreferencesInv

LEMMA ChoicesInit == PreferencesInit => ChoicesInv
<1> SUFFICES ASSUME PreferencesInit PROVE ChoicesInv
  OBVIOUS
<1>1. ChoicesKeepShape
  BY DEF PreferencesInit, ChoicesKeepShape, PreferencesTypeOK
<1> QED BY <1>1 DEF PreferencesInit, ChoicesInv, LinksSpareWhatMatters, EndedIsOff

LEMMA ChooseKeeps ==
    ASSUME ChoicesInv, NEW t \in Types, NEW c \in Means, NEW value \in {"on", "off"},
           Choose(t, c, value)
    PROVE  ChoicesInv'
<1>1. /\ choice' = [choice EXCEPT ![t][c] = value]
      /\ following' = [l \in Followers |->
             IF following[l] = NotFollowed THEN NotFollowed
             ELSE [following[l] EXCEPT !.chosen = @ \cup {t}]]
      /\ ended' = ended \ {<<t, c>>} /\ byLink' = byLink \ {<<t, c>>}
  BY DEF Choose
<1>2. choice \in [Types -> [Means -> {"unset", "on", "off"}]]
      /\ following \in [Followers -> {NotFollowed} \cup Links]
      /\ ended \subseteq Types \X Means /\ byLink \subseteq Types \X Means
  BY DEF ChoicesInv, ChoicesKeepShape, PreferencesTypeOK
<1>3. choice' \in [Types -> [Means -> {"unset", "on", "off"}]]
      /\ \A u \in Types, d \in Means : <<u, d>> # <<t, c>> => choice'[u][d] = choice[u][d]
  BY <1>1, <1>2
<1>4. ASSUME NEW l \in Followers, following[l] # NotFollowed
      PROVE  /\ following'[l] \in Links
             /\ PassedIsOff(following[l])'
  <2>1. following[l] \in Links /\ PassedIsOff(following[l])
    BY <1>2, <1>4 DEF ChoicesInv
  <2>2. PICK x : x = following'[l]
    OBVIOUS
  <2>3. x = [following[l] EXCEPT !.chosen = @ \cup {t}]
    BY <1>1, <1>4, <2>2
  <2>4. x \in Links /\ x.left = following[l].left /\ x.channel = following[l].channel
        /\ x.chosen = following[l].chosen \cup {t}
    BY <2>1, <2>3 DEF Links
  <2>5. ASSUME NEW u \in Types \ ALWAYS_EMAILED, IsOffered(u, x.channel),
               u \notin x.left \cup x.chosen
        PROVE  choice'[u][x.channel] = "off"
    <3>1. u # t /\ choice[u][x.channel] = "off" /\ x.channel \in Means
      BY <2>1, <2>4, <2>5 DEF PassedIsOff, Links
    <3> QED BY <1>3, <3>1
  <2>6. x.left \cap ALWAYS_EMAILED = {}
    BY <2>1, <2>4 DEF PassedIsOff
  <2> QED BY <2>2, <2>4, <2>5, <2>6 DEF PassedIsOff, IsOffered, ChannelDefault
<1>5. ChoicesKeepShape'
  <2>1. following' \in [Followers -> {NotFollowed} \cup Links]
    BY <1>1, <1>4
  <2>2. PreferencesTypeOK'
    BY <1>1, <1>2, <1>3 DEF PreferencesTypeOK
  <2> QED BY <2>1, <2>2 DEF ChoicesKeepShape, Links, Means
<1>6. LinksSpareWhatMatters'
  BY <1>1 DEF ChoicesInv, LinksSpareWhatMatters
<1>7. EndedIsOff'
  BY <1>1, <1>3 DEF ChoicesInv, EndedIsOff
<1>8. \A l \in Followers : following'[l] # NotFollowed => following[l] # NotFollowed
  BY <1>1
<1> QED BY <1>4, <1>5, <1>6, <1>7, <1>8 DEF ChoicesInv

\* A switch is turned off, by who may.
LEMMA TurnedOff ==
    ASSUME ChoicesInv, NEW t \in Types \ ALWAYS_EMAILED, NEW c \in Means,
           choice' = [choice EXCEPT ![t][c] = "off"],
           byLink' = byLink \cup {<<t, c>>},
           ended' \in {ended, ended \cup {<<t, c>>}}
    PROVE  /\ PreferencesTypeOK' /\ LinksSpareWhatMatters' /\ EndedIsOff'
           /\ choice'[t][c] = "off"
           /\ \A x \in Links : PassedIsOff(x) => PassedIsOff(x)'
<1>1. choice \in [Types -> [Means -> {"unset", "on", "off"}]]
      /\ ended \subseteq Types \X Means /\ byLink \subseteq Types \X Means
  BY DEF ChoicesInv, ChoicesKeepShape, PreferencesTypeOK
<1>2. choice' \in [Types -> [Means -> {"unset", "on", "off"}]]
      /\ choice'[t][c] = "off"
      /\ \A u \in Types, d \in Means : choice[u][d] = "off" => choice'[u][d] = "off"
  BY <1>1
<1>3. PreferencesTypeOK'
  BY <1>1, <1>2 DEF PreferencesTypeOK
<1>4. LinksSpareWhatMatters'
  BY DEF ChoicesInv, LinksSpareWhatMatters
<1>5. EndedIsOff'
  BY <1>2 DEF ChoicesInv, EndedIsOff
<1>6. ASSUME NEW x \in Links, PassedIsOff(x) PROVE PassedIsOff(x)'
  BY <1>2, <1>6 DEF PassedIsOff, Links
<1> QED BY <1>2, <1>3, <1>4, <1>5, <1>6

LEMMA UnsubscribeTypeKeeps ==
    ASSUME ChoicesInv, NEW t \in Types, NEW c \in Means, UnsubscribeType(t, c)
    PROVE  ChoicesInv'
<1>1. t \in Types \ ALWAYS_EMAILED /\ choice' = [choice EXCEPT ![t][c] = "off"]
      /\ byLink' = byLink \cup {<<t, c>>} /\ ended' \in {ended, ended \cup {<<t, c>>}}
      /\ following' = following
  BY DEF UnsubscribeType
<1>2. /\ PreferencesTypeOK' /\ LinksSpareWhatMatters' /\ EndedIsOff'
      /\ \A x \in Links : PassedIsOff(x) => PassedIsOff(x)'
  BY <1>1, TurnedOff
<1>3. ASSUME NEW l \in Followers, following'[l] # NotFollowed PROVE PassedIsOff(following[l])'
  <2>1. PICK x : x = following[l]
    OBVIOUS
  <2>2. x \in Links /\ PassedIsOff(x)
    BY <1>1, <1>3, <2>1 DEF ChoicesInv, ChoicesKeepShape
  <2>3. PassedIsOff(x)'
    BY <1>2, <2>2
  <2> QED BY <1>1, <2>1, <2>3
<1> QED BY <1>1, <1>2, <1>3 DEF ChoicesInv, ChoicesKeepShape, Links

\* A link's request goes on to x, and nothing else happens.
LEMMA LinkGoesOn ==
    ASSUME ChoicesInv, NEW l \in Followers, NEW x \in {NotFollowed} \cup Links,
           x # NotFollowed => PassedIsOff(x),
           following' = [following EXCEPT ![l] = x],
           UNCHANGED <<choice, ended, byLink>>
    PROVE  ChoicesInv'
<1>1. ChoicesKeepShape'
  BY DEF ChoicesInv, ChoicesKeepShape, PreferencesTypeOK, Links
<1>2. LinksSpareWhatMatters' /\ EndedIsOff'
  BY DEF ChoicesInv, LinksSpareWhatMatters, EndedIsOff
<1>3. ASSUME NEW k \in Followers, following'[k] # NotFollowed PROVE PassedIsOff(following[k])'
  <2>1. PICK y : y = following'[k]
    OBVIOUS
  <2>2. PassedIsOff(y)
    BY <1>3, <2>1 DEF ChoicesInv, ChoicesKeepShape
  <2>3. PassedIsOff(y)'
    BY <2>2 DEF PassedIsOff
  <2> QED BY <2>1, <2>3
<1> QED BY <1>1, <1>2, <1>3 DEF ChoicesInv

LEMMA FollowKeeps ==
    ASSUME ChoicesInv, NEW l \in Followers, NEW c \in Means, Follow(l, c)
    PROVE  ChoicesInv'
<1>1. PICK x : x = [task |-> "all", channel |-> c, left |-> Optional(c), chosen |-> {}]
  OBVIOUS
<1>2. Optional(c) = {t \in Types \ ALWAYS_EMAILED : IsOffered(t, c)}
  BY DEF Optional
<1>3. x \in Links
  BY <1>1, <1>2 DEF Links
<1>4. PassedIsOff(x)
  BY <1>1, <1>2 DEF PassedIsOff
<1> QED BY <1>1, <1>3, <1>4, LinkGoesOn DEF Follow

LEMMA TurnOffKeeps ==
    ASSUME ChoicesInv, NEW l \in Followers, NEW t \in Types, TurnOff(l, t)
    PROVE  ChoicesInv'
<1>1. /\ following[l].task = "all" /\ t \in following[l].left
      /\ choice' = [choice EXCEPT ![t][following[l].channel] = "off"]
      /\ following' = [following EXCEPT ![l].left = @ \ {t}]
      /\ byLink' = byLink \cup {<<t, following[l].channel>>}
      /\ ended' \in {ended, ended \cup {<<t, following[l].channel>>}}
  BY DEF TurnOff
<1>2. following[l] # NotFollowed
  BY <1>1 DEF NotFollowed
<1>3. following[l] \in Links /\ PassedIsOff(following[l])
      /\ following \in [Followers -> {NotFollowed} \cup Links]
  BY <1>2 DEF ChoicesInv, ChoicesKeepShape
<1>4. PICK c : c = following[l].channel
  OBVIOUS
<1>5. c \in Means /\ t \in Types \ ALWAYS_EMAILED
  BY <1>1, <1>3, <1>4 DEF Links, PassedIsOff
<1>6. /\ PreferencesTypeOK' /\ LinksSpareWhatMatters' /\ EndedIsOff'
      /\ choice'[t][c] = "off"
      /\ \A x \in Links : PassedIsOff(x) => PassedIsOff(x)'
  BY <1>1, <1>4, <1>5, TurnedOff
<1>7. PICK x : x = [following[l] EXCEPT !.left = @ \ {t}]
  OBVIOUS
<1>8. x \in Links /\ x.left = following[l].left \ {t} /\ x.channel = c
      /\ x.chosen = following[l].chosen
  BY <1>3, <1>4, <1>7 DEF Links
<1>9. following' = [following EXCEPT ![l] = x]
  BY <1>1, <1>3, <1>7
<1>10. PICK y : y = following[l]
  OBVIOUS
<1>11. PassedIsOff(y)'
  BY <1>3, <1>6, <1>10
<1>12. PassedIsOff(x)'
  BY <1>4, <1>5, <1>6, <1>8, <1>10, <1>11 DEF PassedIsOff
<1>13. ASSUME NEW k \in Followers, following'[k] # NotFollowed PROVE PassedIsOff(following[k])'
  <2>1. CASE k = l
    <3>1. following'[k] = x
      BY <1>3, <1>9, <2>1
    <3> QED BY <1>12, <3>1 DEF PassedIsOff
  <2>2. CASE k # l
    <3>1. PICK z : z = following[k]
      OBVIOUS
    <3>2. following'[k] = z
      BY <1>3, <1>9, <2>2, <3>1
    <3>3. z \in Links /\ PassedIsOff(z)
      BY <1>3, <1>13, <3>1, <3>2 DEF ChoicesInv
    <3>4. PassedIsOff(z)'
      BY <1>6, <3>3
    <3> QED BY <3>2, <3>4 DEF PassedIsOff
  <2> QED BY <2>1, <2>2
<1>14. following' \in [Followers -> {NotFollowed} \cup Links]
  BY <1>3, <1>8, <1>9
<1> QED BY <1>6, <1>13, <1>14 DEF ChoicesInv, ChoicesKeepShape, Links, Means

LEMMA FollowedKeeps ==
    ASSUME ChoicesInv, NEW l \in Followers, Followed(l)
    PROVE  ChoicesInv'
<1>1. PICK c : c = following[l].channel
  OBVIOUS
<1>2. PICK all : all = {t \in Types \ ALWAYS_EMAILED : IsOffered(t, c)}
  OBVIOUS
<1>3. /\ following[l].task = "all" /\ following[l].left = {}
      /\ ended' = ended \cup ((all \ following[l].chosen) \X {c})
      /\ following' = [following EXCEPT ![l] = NotFollowed]
      /\ UNCHANGED <<choice, byLink>>
  BY <1>1, <1>2 DEF Followed
<1>4. following[l] # NotFollowed
  BY <1>3 DEF NotFollowed
<1>5. following[l] \in Links /\ PassedIsOff(following[l])
      /\ following \in [Followers -> {NotFollowed} \cup Links]
  BY <1>4 DEF ChoicesInv, ChoicesKeepShape
<1>6. c \in Means /\ all \subseteq Types
  BY <1>1, <1>2, <1>5 DEF Links
<1>7. ASSUME NEW t \in all \ following[l].chosen PROVE choice[t][c] = "off"
  BY <1>1, <1>2, <1>3, <1>5 DEF PassedIsOff
<1>8. EndedIsOff'
  <2> SUFFICES ASSUME NEW t \in Types, NEW d \in Means, <<t, d>> \in ended'
               PROVE  choice[t][d] = "off"
    BY <1>3 DEF EndedIsOff
  <2>1. CASE <<t, d>> \in ended
    BY <2>1 DEF ChoicesInv, EndedIsOff
  <2>2. CASE <<t, d>> \in (all \ following[l].chosen) \X {c}
    BY <1>7, <2>2
  <2> QED BY <1>3, <2>1, <2>2
<1>9. ChoicesKeepShape'
  <2>1. ended' \subseteq Types \X Means
    BY <1>3, <1>6 DEF ChoicesInv, ChoicesKeepShape, PreferencesTypeOK
  <2> QED BY <1>3, <1>5, <2>1 DEF ChoicesInv, ChoicesKeepShape, PreferencesTypeOK, Links, Means
<1>10. ASSUME NEW k \in Followers, following'[k] # NotFollowed PROVE PassedIsOff(following[k])'
  <2>1. following'[k] = following[k]
    BY <1>3, <1>5, <1>10
  <2>2. PassedIsOff(following[k])
    BY <1>10, <2>1 DEF ChoicesInv
  <2> QED BY <1>3, <2>1, <2>2 DEF PassedIsOff
<1> QED BY <1>3, <1>8, <1>9, <1>10 DEF ChoicesInv, LinksSpareWhatMatters

\* For any types, followers and order of choices and links: the settings show
\* what is sent, no link turns off what must reach a person, and what a link
\* has turned off stays off until it is chosen again, though the link writes
\* one row after the other and may die between two (channelPolicy.ts:150-256).
THEOREM PreferencesAreRight == PreferencesSpec => []PreferencesInv
<1>1. ChoicesInv /\ [PreferencesNext]_preferencesVars => ChoicesInv'
  <2> SUFFICES ASSUME ChoicesInv, [PreferencesNext]_preferencesVars PROVE ChoicesInv'
    OBVIOUS
  <2>1. ASSUME NEW l \in Followers, FollowingDies(l) PROVE ChoicesInv'
    BY <2>1, LinkGoesOn DEF FollowingDies
  <2>2. CASE UNCHANGED preferencesVars
    BY <2>2 DEF ChoicesInv, ChoicesKeepShape, PreferencesTypeOK, LinksSpareWhatMatters, EndedIsOff,
       PassedIsOff, preferencesVars
  <2> QED BY <2>1, <2>2, ChooseKeeps, UnsubscribeTypeKeeps, FollowKeeps, TurnOffKeeps,
         FollowedKeeps DEF PreferencesNext
<1> QED BY ChoicesInit, ChoicesFollow, <1>1, PTL DEF PreferencesSpec

-----------------------------------------------------------------------------
(***************************************************************************)
(* Quiet hours                                                             *)
(***************************************************************************)

\* A number below twice the modulus wraps at most once.
LEMMA WrapsOnce ==
    ASSUME NEW m \in Nat \ {0}, NEW x \in Nat, x < m + m
    PROVE  x % m = IF x < m THEN x ELSE x - m
<1>1. CASE x < m
  BY <1>1, SMTT(30)
<1>2. CASE ~(x < m)
  <2>1. x - m \in Nat /\ x - m < m
    BY <1>2
  <2>2. x = m * 1 + (x - m)
    BY <1>2
  <2> QED BY <1>2, <2>1, <2>2, SMTT(30)
<1> QED BY <1>1, <1>2

QuietTypeOK == from \in Minutes /\ to \in Minutes /\ now \in Minutes

\* From the minutes alone, since the window is read afresh each time.
LEMMA QuietFollows == QuietTypeOK => QuietHoursRight
<1> SUFFICES ASSUME QuietTypeOK PROVE QuietHoursRight
  OBVIOUS
<1> DEFINE day == MINUTES_PER_DAY
<1>1. day \in Nat \ {0} /\ from \in 0..day - 1 /\ to \in 0..day - 1 /\ now \in 0..day - 1
  BY QuietAssumption DEF QuietTypeOK, Minutes
<1> HIDE DEF day
<1>2. SinceOpening = IF now >= from THEN now - from ELSE now + day - from
  <2>1. PICK x : x = now + day - from
    OBVIOUS
  <2>2. x \in Nat /\ x < day + day
    BY <1>1, <2>1
  <2>3. day \in Nat \ {0}
    BY <1>1
  <2>4. x % day = IF x < day THEN x ELSE x - day
    BY ONLY <2>2, <2>3, WrapsOnce
  <2>5. SinceOpening = x % day
    BY <2>1 DEF SinceOpening, day
  <2> QED BY <1>1, <2>1, <2>4, <2>5
<1>3. Length = IF to >= from THEN to - from ELSE to + day - from
  <2>1. PICK x : x = to + day - from
    OBVIOUS
  <2>2. x \in Nat /\ x < day + day
    BY <1>1, <2>1
  <2>3. day \in Nat \ {0}
    BY <1>1
  <2>4. x % day = IF x < day THEN x ELSE x - day
    BY ONLY <2>2, <2>3, WrapsOnce
  <2>5. Length = x % day
    BY <2>1 DEF Length, day
  <2> QED BY <1>1, <2>1, <2>4, <2>5
<1>4. \A m \in 0..day : After(m) = IF now + m < day THEN now + m ELSE now + m - day
  <2> TAKE m \in 0..day
  <2>1. PICK x : x = now + m
    OBVIOUS
  <2>2. x \in Nat /\ x < day + day
    BY <1>1, <2>1
  <2>3. day \in Nat \ {0}
    BY <1>1
  <2>4. x % day = IF x < day THEN x ELSE x - day
    BY ONLY <2>2, <2>3, WrapsOnce
  <2>5. After(m) = x % day
    BY <2>1 DEF After, day
  <2> QED BY <1>1, <2>1, <2>4, <2>5
<1>5. InWindow(from, to, now) <=> SinceOpening < Length
  BY <1>1, <1>2, <1>3 DEF InWindow
<1>6. ASSUME InWindow(from, to, now)
      PROVE  LET n == Remaining(from, to, now)
             IN  /\ n > 0 /\ ~InWindow(from, to, After(n))
                 /\ \A m \in 0..n - 1 : InWindow(from, to, After(m))
  <2>1. PICK n : n = Remaining(from, to, now)
    OBVIOUS
  <2>2. n = IF from <= to THEN to - now ELSE IF now >= from THEN day - now + to ELSE to - now
    BY <2>1 DEF Remaining, day
  <2>3. n \in 1..day
    BY <1>1, <1>6, <2>2 DEF InWindow
  <2>4. ~InWindow(from, to, After(n))
    BY <1>1, <1>4, <1>6, <2>2, <2>3 DEF InWindow
  <2>5. ASSUME NEW m \in 0..n - 1 PROVE InWindow(from, to, After(m))
    <3>1. m \in 0..day /\ m < n
      BY <1>1, <2>3
    <3> QED BY <1>1, <1>4, <1>6, <2>2, <2>3, <3>1 DEF InWindow
  <2> QED BY <2>1, <2>3, <2>4, <2>5
<1> QED BY <1>5, <1>6 DEF QuietHoursRight

\* Whatever window a person sets in a day of any length, it is quiet for as
\* long as the window is, across midnight too, and a message that is put off is
\* put off to the minute it closes (quietHours.ts:103-128).
THEOREM QuietHoursAreRight == QuietSpec => []QuietHoursRight
<1>1. QuietInit => QuietTypeOK
  BY DEF QuietInit, QuietTypeOK
<1>2. QuietTypeOK /\ [MinutePasses]_quietVars => QuietTypeOK'
  <2> SUFFICES ASSUME QuietTypeOK, [MinutePasses]_quietVars PROVE QuietTypeOK'
    OBVIOUS
  <2>1. CASE MinutePasses
    <3>1. now' = IF now + 1 < MINUTES_PER_DAY THEN now + 1 ELSE now + 1 - MINUTES_PER_DAY
      <4>1. PICK x : x = now + 1
        OBVIOUS
      <4>2. x \in Nat /\ x < MINUTES_PER_DAY + MINUTES_PER_DAY
        BY <4>1, QuietAssumption DEF QuietTypeOK, Minutes
      <4>3. x % MINUTES_PER_DAY = IF x < MINUTES_PER_DAY THEN x ELSE x - MINUTES_PER_DAY
        BY ONLY <4>2, QuietAssumption, WrapsOnce
      <4>4. now' = x % MINUTES_PER_DAY
        BY <2>1, <4>1 DEF MinutePasses
      <4> QED BY <4>1, <4>2, <4>3, <4>4, QuietAssumption DEF QuietTypeOK, Minutes
    <3> QED BY <2>1, <3>1, QuietAssumption DEF QuietTypeOK, Minutes, MinutePasses
  <2>2. CASE UNCHANGED quietVars
    BY <2>2 DEF QuietTypeOK, quietVars, Minutes
  <2> QED BY <2>1, <2>2
<1> QED BY <1>1, <1>2, QuietFollows, PTL DEF QuietSpec
=============================================================================
