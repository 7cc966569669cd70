------------------------- MODULE VerificationProofs -------------------------
(***************************************************************************)
(* Proofs about the identity check and the outbox its decisions leave by,  *)
(* for any number of attempts, requests, events and relays: what the       *)
(* payout gate rests on, what a row says of what the provider decided,     *)
(* what the seller is told of the row, that a row is pruned only once its  *)
(* event is on the topic, that the topic has the order of createdAt where  *)
(* no two passes overlap and no commit is late, and that every step is one *)
(* the abstract topic allows.                                              *)
(***************************************************************************)
EXTENDS Verification, TallyProofs, SequenceTheorems

-----------------------------------------------------------------------------
(***************************************************************************)
(* The invariant of the outbox.                                            *)
(***************************************************************************)
Passes == [rows : Seq(Events), sent : BOOLEAN]

OutboxShape ==
    /\ outbox \in [Events -> RowState]
    /\ written \in Seq(Events) /\ mainTopic \in Seq(Events)
    /\ now \in Nat /\ stamp \in [Events -> 0..now]
    /\ relay \in [Relays -> Passes]
    /\ failures \in 0..MaxFailures /\ overlapped \in BOOLEAN
    /\ late \subseteq Events \X Events

Committed(e) == outbox[e] \notin {"unwritten", "open"}

\* e is to be published before f.
Ahead(e, f) == Committed(e) /\ stamp[e] < stamp[f] /\ <<e, f>> \notin late

WrittenOnce ==
    /\ \A e \in Events : (\E i \in DOMAIN written : written[i] = e) <=> Committed(e)
    /\ \A i, j \in DOMAIN written : written[i] = written[j] => i = j

\* A pass holds rows that are owed, and what it has sent has arrived.
PassesHoldOwed ==
    \A r \in Relays :
        /\ relay[r].sent => relay[r].rows # <<>>
        /\ Len(relay[r].rows) <= BatchSize
        /\ \A i \in DOMAIN relay[r].rows :
               /\ outbox[relay[r].rows[i]] = "owed"
               /\ relay[r].sent => relay[r].rows[i] \in OnTopic

PassesApart == \A r, q \in Relays : r # q => LockedBy(r) \cap LockedBy(q) = {}

TopicWasWritten == \A e \in OnTopic : Committed(e)

\* Every batch on the topic is accounted for by a row it has published, by the
\* first row of a pass that is still open, or by a failure.
Accounted ==
    {e \in Events : \/ outbox[e] \in {"published", "pruned"}
                    \/ \E r \in Relays : relay[r].sent /\ relay[r].rows[1] = e}
TopicIsBounded == Len(mainTopic) <= (Cardinality(Accounted) + failures) * BatchSize

\* A lone pass publishes what comes next in the order of createdAt.
LonePass ==
    \A r, q \in Relays : relay[r].rows # <<>> /\ relay[q].rows # <<>> => r = q
PassIsNext ==
    \A r \in Relays : \A j \in DOMAIN relay[r].rows :
        /\ \A i \in DOMAIN relay[r].rows :
               i < j => stamp[relay[r].rows[i]] <= stamp[relay[r].rows[j]]
        /\ \A e \in Events : Ahead(e, relay[r].rows[j]) => e \in OnTopic \cup LockedBy(r)
TopicIsPrefix ==
    \A e \in Events, f \in OnTopic : Ahead(e, f) =>
        e \in OnTopic /\ Precedes(e, f, mainTopic)
TopicInOrder == ~overlapped => LonePass /\ PassIsNext /\ TopicIsPrefix

OutboxIInv ==
    /\ OutboxShape /\ WrittenOnce /\ PassesHoldOwed /\ PassesApart
    /\ PublishedReachedTopic /\ TopicWasWritten /\ TopicIsBounded /\ TopicInOrder
-----------------------------------------------------------------------------
(***************************************************************************)
(* Sequences without repetition of what is in them, and first places.      *)
(***************************************************************************)
\* The members of a sequence lie between the ends of it.
LEMMA MembersOf ==
    ASSUME NEW S, NEW s \in Seq(S)
    PROVE  /\ DOMAIN s = 1..Len(s) /\ Len(s) \in Nat
           /\ Promise!Members(s) \subseteq S
           /\ \A x : x \in Promise!Members(s) <=> \E i \in 1..Len(s) : s[i] = x
  BY LenProperties, ElementOfSeq DEF Promise!Members

\* What is appended goes to the end.
LEMMA AppendedAt ==
    ASSUME NEW S, NEW s \in Seq(S), NEW x \in S
    PROVE  /\ Append(s, x) \in Seq(S) /\ Len(Append(s, x)) = Len(s) + 1
           /\ \A i \in 1..Len(s) : Append(s, x)[i] = s[i]
           /\ Append(s, x)[Len(s) + 1] = x
  OBVIOUS

\* A concatenation has the members of both its parts.
LEMMA MembersOfConcat ==
    ASSUME NEW S, NEW s \in Seq(S), NEW t \in Seq(S)
    PROVE  Promise!Members(s \o t) = Promise!Members(s) \cup Promise!Members(t)
<1> DEFINE u == s \o t
<1>1. /\ u \in Seq(S) /\ Len(u) = Len(s) + Len(t)
      /\ \A i \in 1..Len(s) + Len(t) : u[i] = IF i <= Len(s) THEN s[i] ELSE t[i - Len(s)]
  BY ConcatProperties
<1>2. Len(s) \in Nat /\ Len(t) \in Nat
  BY MembersOf
<1> HIDE DEF u
<1>3. ASSUME NEW x \in Promise!Members(u) PROVE x \in Promise!Members(s) \cup Promise!Members(t)
  <2>1. PICK i \in 1..Len(u) : u[i] = x
    BY <1>1, MembersOf
  <2>2. CASE i <= Len(s)
    <3>1. i \in 1..Len(s) /\ s[i] = x
      BY <1>1, <1>2, <2>1, <2>2
    <3> QED
      BY <3>1, MembersOf
  <2>3. CASE ~(i <= Len(s))
    <3>1. i - Len(s) \in 1..Len(t) /\ t[i - Len(s)] = x
      BY <1>1, <1>2, <2>1, <2>3
    <3> QED
      BY <3>1, MembersOf
  <2> QED
    BY <2>2, <2>3
<1>4. ASSUME NEW x \in Promise!Members(s) PROVE x \in Promise!Members(u)
  <2>1. PICK i \in 1..Len(s) : s[i] = x
    BY MembersOf
  <2>2. i \in 1..Len(u) /\ u[i] = x
    BY <1>1, <1>2, <2>1
  <2> QED
    BY <1>1, <2>2, MembersOf
<1>5. ASSUME NEW x \in Promise!Members(t) PROVE x \in Promise!Members(u)
  <2>1. PICK i \in 1..Len(t) : t[i] = x
    BY MembersOf
  <2>2. i + Len(s) \in 1..Len(u) /\ ~(i + Len(s) <= Len(s)) /\ (i + Len(s)) - Len(s) = i
    BY <1>1, <1>2
  <2>3. u[i + Len(s)] = x
    BY <1>1, <2>1, <2>2
  <2> QED
    BY <1>1, <2>2, <2>3, MembersOf
<1> QED
  BY <1>3, <1>4, <1>5 DEF u

\* A member has a first place, and it is the only one with nothing of it before.
LEMMA FirstPlaceIs ==
    ASSUME NEW S, NEW s \in Seq(S), NEW e \in Promise!Members(s)
    PROVE  /\ FirstPlace(e, s) \in 1..Len(s) /\ s[FirstPlace(e, s)] = e
           /\ \A i \in 1..Len(s) : s[i] = e => FirstPlace(e, s) <= i
<1> DEFINE places == {i \in 1..Len(s) : s[i] = e}
           First(i) == s[i] = e /\ \A j \in 1..(i - 1) : s[j] # e
<1>1. DOMAIN s = 1..Len(s) /\ Len(s) \in Nat
  BY MembersOf
<1>2. places \in SUBSET Nat /\ places # {}
  BY <1>1, MembersOf
<1>3. PICK m \in places : \A n \in places : m <= n
  BY <1>2, LeastOf
<1>4. \A j \in 1..(m - 1) : s[j] # e
  <2> SUFFICES ASSUME NEW j \in 1..(m - 1), s[j] = e PROVE FALSE
    OBVIOUS
  <2>1. m \in Nat /\ m <= Len(s)
    BY <1>1
  <2>2. j \in places /\ ~(m <= j)
    BY <1>1, <2>1
  <2> QED
    BY <1>3, <2>2
<1>5. \E i \in DOMAIN s : First(i)
  BY <1>1, <1>4
<1>6. FirstPlace(e, s) \in DOMAIN s /\ First(FirstPlace(e, s))
  BY <1>5 DEF FirstPlace
<1> DEFINE p == FirstPlace(e, s)
<1>7. ASSUME NEW i \in 1..Len(s), s[i] = e PROVE p <= i
  <2>1. p \in 1..Len(s) /\ \A j \in 1..(p - 1) : s[j] # e
    BY <1>1, <1>6
  <2> HIDE DEF p
  <2> QED
    BY <1>1, <1>7, <2>1
<1> QED
  BY <1>1, <1>6, <1>7

\* The first place of an event is the least of its places.
LEMMA FirstPlaceUnique ==
    ASSUME NEW S, NEW s \in Seq(S), NEW e, NEW i \in 1..Len(s), s[i] = e,
           \A j \in 1..Len(s) : s[j] = e => i <= j
    PROVE  FirstPlace(e, s) = i
<1> DEFINE p == FirstPlace(e, s)
<1>1. e \in Promise!Members(s) /\ Len(s) \in Nat
  BY MembersOf
<1>2. p \in 1..Len(s) /\ s[p] = e /\ p <= i
  BY <1>1, FirstPlaceIs
<1> HIDE DEF p
<1>3. p = i
  BY <1>1, <1>2
<1> QED
  BY <1>3 DEF p

\* Where a member of a concatenation is first.
LEMMA FirstPlaceInConcat ==
    ASSUME NEW S, NEW s \in Seq(S), NEW t \in Seq(S), NEW e
    PROVE  /\ e \in Promise!Members(s) => FirstPlace(e, s \o t) = FirstPlace(e, s)
           /\ e \in Promise!Members(t) /\ e \notin Promise!Members(s) =>
                  FirstPlace(e, s \o t) = Len(s) + FirstPlace(e, t)
<1> DEFINE u == s \o t
<1>1. /\ u \in Seq(S) /\ Len(u) = Len(s) + Len(t)
      /\ \A i \in 1..Len(s) + Len(t) : u[i] = IF i <= Len(s) THEN s[i] ELSE t[i - Len(s)]
  BY ConcatProperties
<1>2. Len(s) \in Nat /\ Len(t) \in Nat
  BY MembersOf
<1> HIDE DEF u
<1>3. CASE e \in Promise!Members(s)
  <2> DEFINE p == FirstPlace(e, s)
  <2>1. p \in 1..Len(s) /\ s[p] = e /\ \A i \in 1..Len(s) : s[i] = e => p <= i
    BY <1>3, FirstPlaceIs
  <2> HIDE DEF p
  <2>2. p \in 1..Len(u) /\ u[p] = e
    BY <1>1, <1>2, <2>1
  <2>3. \A j \in 1..Len(u) : u[j] = e => p <= j
    BY <1>1, <1>2, <2>1
  <2>4. FirstPlace(e, u) = p
    BY <1>1, <2>2, <2>3, FirstPlaceUnique
  <2> QED
    BY <1>3, <2>4 DEF p, u
<1>4. CASE e \in Promise!Members(t) /\ e \notin Promise!Members(s)
  <2> DEFINE p == FirstPlace(e, t)
  <2>1. p \in 1..Len(t) /\ t[p] = e /\ \A i \in 1..Len(t) : t[i] = e => p <= i
    BY <1>4, FirstPlaceIs
  <2> HIDE DEF p
  <2>2. Len(s) + p \in 1..Len(u) /\ u[Len(s) + p] = e
    <3>1. Len(s) + p \in 1..Len(s) + Len(t) /\ ~(Len(s) + p <= Len(s)) /\ (Len(s) + p) - Len(s) = p
      BY <1>2, <2>1
    <3>2. u[Len(s) + p] = t[(Len(s) + p) - Len(s)]
      BY <1>1, <3>1
    <3> QED
      BY <1>1, <2>1, <3>1, <3>2
  <2>3. ASSUME NEW j \in 1..Len(u), u[j] = e PROVE Len(s) + p <= j
    <3>1. j \notin 1..Len(s)
      <4> SUFFICES ASSUME j \in 1..Len(s) PROVE FALSE
        OBVIOUS
      <4>1. s[j] = e
        BY <1>1, <1>2, <2>3
      <4> QED
        BY <1>4, <4>1, MembersOf
    <3>2. j - Len(s) \in 1..Len(t) /\ t[j - Len(s)] = e
      BY <1>1, <1>2, <2>3, <3>1
    <3> QED
      BY <1>2, <2>1, <3>2
  <2>4. FirstPlace(e, u) = Len(s) + p
    BY <1>1, <2>2, <2>3, FirstPlaceUnique
  <2> QED
    BY <1>4, <2>4 DEF p, u
<1> QED
  BY <1>3, <1>4

-----------------------------------------------------------------------------
(***************************************************************************)
(* The outbox.                                                             *)
(***************************************************************************)
\* Of two events at most one goes before the other.
LEMMA AheadIsOneWay ==
    ASSUME OutboxShape, NEW e \in Events, NEW f \in Events, Ahead(e, f)
    PROVE  e # f /\ ~(stamp[f] <= stamp[e]) /\ Committed(e)
<1>1. PICK m \in Int, n \in Int : m = stamp[e] /\ n = stamp[f] /\ m < n
  BY DEF OutboxShape, Ahead
<1>2. m # n /\ ~(n <= m)
  BY <1>1
<1> QED
  BY <1>1, <1>2 DEF Ahead

\* What a pass holds.
LEMMA HeldRows ==
    ASSUME OutboxShape, NEW r \in Relays
    PROVE  /\ relay[r].rows \in Seq(Events) /\ relay[r].sent \in BOOLEAN
           /\ DOMAIN relay[r].rows = 1..Len(relay[r].rows) /\ Len(relay[r].rows) \in Nat
           /\ LockedBy(r) = Promise!Members(relay[r].rows) /\ LockedBy(r) \subseteq Events
           /\ relay[r].rows # <<>> => 1 \in DOMAIN relay[r].rows
           /\ relay[r].rows = <<>> => LockedBy(r) = {}
           /\ relay[r] = [rows |-> relay[r].rows, sent |-> relay[r].sent]
<1>1. relay[r].rows \in Seq(Events) /\ relay[r].sent \in BOOLEAN
      /\ relay[r] = [rows |-> relay[r].rows, sent |-> relay[r].sent]
  BY DEF OutboxShape, Passes
<1>2. DOMAIN relay[r].rows = 1..Len(relay[r].rows) /\ Len(relay[r].rows) \in Nat
  BY <1>1, MembersOf
<1>3. LockedBy(r) = Promise!Members(relay[r].rows)
  BY DEF LockedBy, Promise!Members
<1>4. LockedBy(r) \subseteq Events
  BY <1>1, <1>3, MembersOf
<1>5. relay[r].rows # <<>> => 1 \in DOMAIN relay[r].rows
  <2> SUFFICES ASSUME relay[r].rows # <<>> PROVE 1 \in DOMAIN relay[r].rows
    OBVIOUS
  <2>1. Len(relay[r].rows) \in Nat \ {0}
    BY <1>1, EmptySeq
  <2> QED
    BY <1>2, <2>1
<1>6. relay[r].rows = <<>> => LockedBy(r) = {}
  BY DEF LockedBy
<1> QED
  BY <1>1, <1>2, <1>3, <1>4, <1>5, <1>6

\* The rows that account for the topic are finitely many.
LEMMA AccountedIsFinite ==
    ASSUME NEW A \in SUBSET Events
    PROVE  /\ IsFiniteSet(A) /\ Cardinality(A) \in Nat
           /\ Cardinality(A) <= Cardinality(Events) /\ Cardinality(Events) \in Nat
<1>1. IsFiniteSet(Events)
  BY OutboxAssumption
<1> QED
  BY <1>1, FS_Subset, FS_CardinalityType

\* Batches of one size.
LEMMA Multiples ==
    ASSUME NEW b \in Nat
    PROVE  /\ \A m, n \in Nat : m <= n => m * b <= n * b
           /\ \A m \in Nat : (m + 1) * b = m * b + b /\ m * b \in Nat
<1>1. ASSUME NEW m \in Nat, NEW n \in Nat, m <= n PROVE m * b <= n * b
  <2>1. PICK d \in Nat : n = m + d
    <3>1. n - m \in Nat /\ n = m + (n - m)
      BY <1>1
    <3> QED
      BY <3>1
  <2>2. (m + d) * b = m * b + d * b /\ d * b >= 0 /\ m * b \in Int /\ d * b \in Int
    OBVIOUS
  <2> QED
    BY <2>1, <2>2
<1>2. \A m \in Nat : (m + 1) * b = m * b + b /\ m * b \in Nat
  OBVIOUS
<1> QED
  BY <1>1, <1>2

\* A row and its event commit together.
LEMMA WriteEventKeeps ==
    ASSUME OutboxIInv, NEW e \in Events, WriteEvent(e)
    PROVE  OutboxIInv'
<1> USE DEF OutboxIInv
<1>1. /\ outbox[e] = "open" /\ outbox' = [outbox EXCEPT ![e] = "owed"]
      /\ written' = Append(written, e)
      /\ UNCHANGED <<now, stamp, relay, mainTopic, failures, overlapped>>
      /\ ~Committed(e)
  BY DEF WriteEvent, datings, Committed
<1>0. /\ OnTopic \subseteq Events /\ \A r \in Relays : LockedBy(r) \subseteq Events
      /\ late' = late \cup {<<e, f>> : f \in OnTopic \cup UNION {LockedBy(r) : r \in Relays}}
  BY MembersOf, HeldRows DEF WriteEvent, OutboxShape, OnTopic
<1>2. /\ DOMAIN written = 1..Len(written) /\ Len(written) \in Nat
      /\ written' \in Seq(Events) /\ DOMAIN written' = 1..(Len(written) + 1)
      /\ \A i \in DOMAIN written : written'[i] = written[i] /\ written[i] # e /\ i \in DOMAIN written'
      /\ written'[Len(written) + 1] = e
  <2>1. written \in Seq(Events)
    BY DEF OutboxShape
  <2>2. DOMAIN written = 1..Len(written) /\ Len(written) \in Nat
    BY <2>1, MembersOf
  <2>3. /\ written' \in Seq(Events) /\ Len(written') = Len(written) + 1
        /\ \A i \in 1..Len(written) : written'[i] = written[i]
        /\ written'[Len(written) + 1] = e
    BY <1>1, <2>1, AppendedAt
  <2>4. DOMAIN written' = 1..(Len(written) + 1)
    BY <2>3, MembersOf
  <2>5. \A i \in DOMAIN written : written[i] # e
    BY <1>1 DEF WrittenOnce
  <2> QED
    BY <2>2, <2>3, <2>4, <2>5
<1>3. OutboxShape'
  <2>1. late' \subseteq Events \X Events
    BY <1>0 DEF OutboxShape
  <2> QED
    BY <1>1, <1>2, <2>1 DEF OutboxShape, RowState
<1>4. WrittenOnce'
  <2>1. ASSUME NEW f \in Events
        PROVE  ((\E i \in DOMAIN written' : written'[i] = f) <=> Committed(f)')
    <3>1. CASE f = e
      <4>1. Len(written) + 1 \in DOMAIN written' /\ written'[Len(written) + 1] = f
        BY <1>2, <3>1
      <4>2. outbox'[f] = "owed"
        BY <1>1, <3>1 DEF OutboxShape
      <4> QED
        BY <4>1, <4>2 DEF Committed
    <3>2. CASE f # e
      <4>1. Committed(f)' <=> Committed(f)
        BY <1>1, <3>2 DEF OutboxShape, Committed
      <4>2. ASSUME NEW i \in DOMAIN written', written'[i] = f PROVE i \in DOMAIN written
        BY <1>2, <3>2, <4>2
      <4>3. (\E i \in DOMAIN written' : written'[i] = f) <=> (\E i \in DOMAIN written : written[i] = f)
        BY <1>2, <4>2
      <4> QED
        BY <4>1, <4>3 DEF WrittenOnce
    <3> QED
      BY <3>1, <3>2
  <2>2. ASSUME NEW i \in DOMAIN written', NEW j \in DOMAIN written', written'[i] = written'[j]
        PROVE  i = j
    <3>1. CASE i \in DOMAIN written /\ j \in DOMAIN written
      BY <1>2, <2>2, <3>1 DEF WrittenOnce
    <3>2. CASE ~(i \in DOMAIN written /\ j \in DOMAIN written)
      <4>1. ASSUME NEW k \in DOMAIN written', k \notin DOMAIN written PROVE k = Len(written) + 1
        BY <1>2, <4>1
      <4> QED
        BY <1>2, <2>2, <3>2, <4>1
    <3> QED
      BY <3>1, <3>2
  <2> QED
    BY <2>1, <2>2 DEF WrittenOnce
<1>5. /\ OnTopic' = OnTopic
      /\ \A r \in Relays : LockedBy(r)' = LockedBy(r) /\ LockedBy(r) \subseteq Events
      /\ \A f \in Events : Committed(f) => outbox'[f] = outbox[f] /\ f # e /\ Committed(f)'
      /\ \A f \in Events \ {e} : outbox'[f] = outbox[f]
  BY <1>1, HeldRows DEF OnTopic, Promise!Members, LockedBy, OutboxShape, Committed
<1>6. OnTopic \subseteq Events
  BY MembersOf DEF OutboxShape, OnTopic
<1>7. PassesHoldOwed'
  BY <1>1, <1>5, ElementOfSeq, HeldRows DEF PassesHoldOwed, Committed
<1>8. PassesApart'
  BY <1>5 DEF PassesApart
<1>9. PublishedReachedTopic' /\ TopicWasWritten'
  BY <1>1, <1>5, <1>6 DEF PublishedReachedTopic, TopicWasWritten, OutboxShape
<1>10. TopicIsBounded'
  <2>1. Accounted' = Accounted
    BY <1>1 DEF Accounted, OutboxShape
  <2> QED
    BY <1>1, <2>1 DEF TopicIsBounded
<1>11. ASSUME NEW f \in Events, NEW g, Ahead(f, g)',
              g \in OnTopic \/ \E r \in Relays : g \in LockedBy(r)
       PROVE  Ahead(f, g)
  <2>1. stamp[f] < stamp[g] /\ <<f, g>> \notin late /\ <<f, g>> \notin late'
    BY <1>0, <1>1, <1>11 DEF Ahead
  <2>2. <<e, g>> \in late'
    BY <1>0, <1>11
  <2>3. f # e
    BY <2>1, <2>2
  <2>4. Committed(f)
    BY <1>5, <1>11, <2>3 DEF Ahead, Committed
  <2> QED
    BY <2>1, <2>4 DEF Ahead
<1>13. TopicInOrder'
  <2> SUFFICES ASSUME ~overlapped PROVE LonePass' /\ PassIsNext' /\ TopicIsPrefix'
    BY <1>1 DEF TopicInOrder
  <2>1. LonePass /\ PassIsNext /\ TopicIsPrefix
    BY DEF TopicInOrder
  <2>2. LonePass'
    BY <1>1, <2>1 DEF LonePass
  <2>3. PassIsNext'
    <3> SUFFICES ASSUME NEW r \in Relays, NEW j \in DOMAIN relay[r].rows
                 PROVE  /\ \A i \in DOMAIN relay[r].rows :
                               i < j => stamp[relay[r].rows[i]] <= stamp[relay[r].rows[j]]
                        /\ \A f \in Events : Ahead(f, relay[r].rows[j])' =>
                               f \in OnTopic \cup LockedBy(r)
      BY <1>1, <1>5 DEF PassIsNext, Ahead
    <3>1. relay[r].rows[j] \in LockedBy(r)
      BY DEF LockedBy
    <3>2. \A f \in Events : Ahead(f, relay[r].rows[j])' => Ahead(f, relay[r].rows[j])
      BY <1>1, <1>11, <3>1 DEF Ahead
    <3> QED
      BY <2>1, <3>2 DEF PassIsNext
  <2>4. TopicIsPrefix'
    <3> SUFFICES ASSUME NEW f \in Events, NEW g \in OnTopic, Ahead(f, g)'
                 PROVE  f \in OnTopic /\ Precedes(f, g, mainTopic)
      BY <1>1, <1>5 DEF TopicIsPrefix, Precedes, FirstPlace
    <3>1. Ahead(f, g)
      BY <1>11
    <3> QED
      BY <2>1, <3>1 DEF TopicIsPrefix
  <2> QED
    BY <2>2, <2>3, <2>4
<1> QED
  BY <1>3, <1>4, <1>7, <1>8, <1>9, <1>10, <1>13

\* Beside what has committed, transactions begin and fail.
Beside ==
    /\ \A e \in Events : IF Committed(e) THEN outbox'[e] = outbox[e] /\ stamp'[e] = stamp[e]
                         ELSE ~Committed(e)'
    /\ outbox' \in [Events -> RowState]
    /\ now' \in Nat /\ stamp' \in [Events -> 0..now']
    /\ UNCHANGED <<written, relay, mainTopic, overlapped, late>>
    /\ Fails \/ UNCHANGED failures

\* Steps beside what has committed leave the invariant of the outbox alone.
LEMMA BesideKeeps ==
    ASSUME OutboxIInv, Beside
    PROVE  OutboxIInv'
<1> USE DEF OutboxIInv
<1>1. failures \in Nat /\ failures' \in 0..MaxFailures /\ failures' >= failures /\ MaxFailures \in Nat
  BY OutboxAssumption DEF OutboxShape, Fails, Beside
<1>8. UNCHANGED <<written, relay, mainTopic, overlapped, late>>
  BY DEF Beside
<1>9. /\ \A e \in Events : Committed(e)' <=> Committed(e)
      /\ \A e \in Events : Committed(e) => outbox'[e] = outbox[e] /\ stamp'[e] = stamp[e]
  BY DEF Beside, Committed
<1>2. OutboxShape'
  BY <1>1, <1>8 DEF OutboxShape, Beside
<1>3. /\ OnTopic' = OnTopic /\ \A r : LockedBy(r)' = LockedBy(r)
      /\ OnTopic \subseteq Events /\ \A r \in Relays : LockedBy(r) \subseteq Events
  BY <1>8, MembersOf, HeldRows DEF OnTopic, Promise!Members, LockedBy, OutboxShape
<1>10. /\ \A e \in OnTopic : Committed(e)
       /\ \A r \in Relays : \A e \in LockedBy(r) : Committed(e) /\ outbox[e] = "owed"
  BY DEF TopicWasWritten, PassesHoldOwed, LockedBy, Committed
<1>6. WrittenOnce' /\ PassesHoldOwed' /\ PassesApart'
  <2>1. WrittenOnce'
    BY <1>8, <1>9 DEF WrittenOnce
  <2>2. PassesApart'
    BY <1>3 DEF PassesApart
  <2>3. \A r \in Relays : \A i \in DOMAIN relay[r].rows :
            relay[r].rows[i] \in LockedBy(r) /\ outbox'[relay[r].rows[i]] = outbox[relay[r].rows[i]]
    BY <1>3, <1>9, <1>10 DEF LockedBy
  <2>4. PassesHoldOwed'
    BY <1>3, <1>8, <2>3 DEF PassesHoldOwed
  <2> QED
    BY <2>1, <2>2, <2>4
<1>7. PublishedReachedTopic' /\ TopicWasWritten'
  BY <1>3, <1>9 DEF PublishedReachedTopic, TopicWasWritten, Committed
<1>11. ASSUME NEW e \in Events, NEW f \in Events, Committed(f)
       PROVE  Ahead(e, f)' <=> Ahead(e, f)
  BY <1>8, <1>9, <1>11 DEF Ahead
<1>4. TopicInOrder'
  <2> SUFFICES ASSUME ~overlapped, LonePass, PassIsNext, TopicIsPrefix
               PROVE  LonePass' /\ PassIsNext' /\ TopicIsPrefix'
    BY <1>8 DEF TopicInOrder
  <2>1. LonePass'
    BY <1>8 DEF LonePass
  <2>2. PassIsNext'
    <3> SUFFICES ASSUME NEW r \in Relays, NEW j \in DOMAIN relay[r].rows
                 PROVE  /\ \A i \in DOMAIN relay[r].rows :
                               i < j => stamp'[relay[r].rows[i]] <= stamp'[relay[r].rows[j]]
                        /\ \A e \in Events : Ahead(e, relay[r].rows[j])' =>
                               e \in OnTopic \cup LockedBy(r)
      BY <1>3, <1>8 DEF PassIsNext, Ahead
    <3>1. \A i \in DOMAIN relay[r].rows : relay[r].rows[i] \in Events /\ Committed(relay[r].rows[i])
      BY <1>3, <1>10 DEF LockedBy
    <3>2. \A i \in DOMAIN relay[r].rows : stamp'[relay[r].rows[i]] = stamp[relay[r].rows[i]]
      BY <1>9, <3>1
    <3>3. \A e \in Events : Ahead(e, relay[r].rows[j])' => Ahead(e, relay[r].rows[j])
      BY <1>8, <1>11, <3>1 DEF Ahead
    <3> QED
      BY <3>2, <3>3 DEF PassIsNext
  <2>3. TopicIsPrefix'
    <3>1. \A e \in Events, f \in OnTopic : Ahead(e, f)' <=> Ahead(e, f)
      BY <1>3, <1>10, <1>11
    <3> QED
      BY <1>3, <1>8, <3>1 DEF TopicIsPrefix, Precedes, FirstPlace
  <2> QED
    BY <2>1, <2>2, <2>3
<1>5. TopicIsBounded'
  <2>0. \A e \in Events : outbox'[e] \in {"published", "pruned"} <=> outbox[e] \in {"published", "pruned"}
    BY <1>9 DEF Committed, Beside, RowState
  <2>1. Accounted' = Accounted /\ Cardinality(Accounted) \in Nat
    BY <1>8, <2>0, AccountedIsFinite DEF Accounted
  <2>2. Len(mainTopic) \in Nat /\ BatchSize \in Nat
    BY MembersOf, OutboxAssumption DEF OutboxShape
  <2>3. PICK n \in Nat : Cardinality(Accounted) = n
    BY <2>1
  <2>4. failures \in Nat /\ failures' \in Nat /\ failures <= failures'
    BY <1>1
  <2>5. n + failures \in Nat /\ n + failures' \in Nat /\ n + failures <= n + failures'
    <3>1. PICK f \in Nat, g \in Nat : failures = f /\ failures' = g /\ f <= g
      BY <2>4
    <3>2. n + f \in Nat /\ n + g \in Nat /\ n + f <= n + g
      BY <3>1
    <3> QED
      BY <3>1, <3>2
  <2>9. (n + failures) * BatchSize <= (n + failures') * BatchSize
    BY <2>2, <2>5, Multiples
  <2>6. Len(mainTopic) <= (n + failures) * BatchSize
    BY <2>3, <2>1 DEF TopicIsBounded
  <2>7. (n + failures) * BatchSize \in Nat /\ (n + failures') * BatchSize \in Nat
    BY <2>2, <2>5, Multiples
  <2>8. Len(mainTopic) <= (n + failures') * BatchSize
    BY <2>2, <2>6, <2>7, <2>9
  <2> QED
    BY <1>8, <2>1, <2>3, <2>8 DEF TopicIsBounded
<1> QED
  BY <1>2, <1>4, <1>5, <1>6, <1>7

\* A topic within its bound stays there when one more batch is accounted for.
LEMMA BoundMoves ==
    ASSUME NEW l \in Nat, NEW n \in Nat, l <= n * BatchSize, NEW k \in Nat, NEW m \in Nat,
           (k = 0 /\ n <= m) \/ (k <= BatchSize /\ n + 1 <= m)
    PROVE  l + k <= m * BatchSize
<1>1. BatchSize \in Nat
  BY OutboxAssumption
<1>2. n * BatchSize \in Nat /\ m * BatchSize \in Nat
      /\ (n + 1) * BatchSize = n * BatchSize + BatchSize
  BY <1>1, Multiples
<1>3. CASE k = 0 /\ n <= m
  <2>1. n * BatchSize <= m * BatchSize
    BY <1>1, <1>3, Multiples
  <2> QED
    BY <1>2, <1>3, <2>1
<1>4. CASE k <= BatchSize /\ n + 1 <= m
  <2>1. n + 1 \in Nat
    OBVIOUS
  <2>2. (n + 1) * BatchSize <= m * BatchSize
    BY <1>1, <1>4, <2>1, Multiples
  <2> QED
    BY <1>1, <1>2, <1>4, <2>2
<1> QED
  BY <1>3, <1>4

\* What arrives with the batch of a pass.
LEMMA BatchArrives ==
    ASSUME OutboxIInv, NEW r \in Relays, mainTopic' = mainTopic \o relay[r].rows
    PROVE  /\ mainTopic' \in Seq(Events)
           /\ Len(mainTopic) \in Nat /\ Len(relay[r].rows) \in Nat
           /\ Len(mainTopic') = Len(mainTopic) + Len(relay[r].rows)
           /\ OnTopic' = OnTopic \cup LockedBy(r)
<1>1. mainTopic \in Seq(Events) /\ relay[r].rows \in Seq(Events)
      /\ LockedBy(r) = Promise!Members(relay[r].rows)
  BY HeldRows DEF OutboxIInv, OutboxShape
<1>2. Promise!Members(mainTopic \o relay[r].rows) = OnTopic \cup LockedBy(r)
  BY <1>1, MembersOfConcat DEF OnTopic
<1>3. OnTopic' = Promise!Members(mainTopic')
  BY DEF OnTopic, Promise!Members
<1> QED
  BY <1>1, <1>2, <1>3, ConcatProperties, LenProperties

\* The batch of a lone pass continues the order of the topic.
LEMMA BatchInOrder ==
    ASSUME OutboxIInv, NEW r \in Relays, relay[r].rows # <<>>, ~overlapped,
           UNCHANGED <<outbox, stamp, late>>, mainTopic' = mainTopic \o relay[r].rows
    PROVE  TopicIsPrefix'
<1> DEFINE rows == relay[r].rows
<1>1. /\ rows \in Seq(Events) /\ LockedBy(r) = Promise!Members(rows)
      /\ DOMAIN rows = 1..Len(rows) /\ Len(rows) \in Nat /\ LockedBy(r) \subseteq Events
  BY HeldRows DEF OutboxIInv
<1>2. mainTopic \in Seq(Events) /\ OnTopic \subseteq Events /\ OnTopic = Promise!Members(mainTopic)
  BY MembersOf DEF OutboxIInv, OutboxShape, OnTopic
<1>3. OnTopic' = OnTopic \cup LockedBy(r)
  BY BatchArrives
<1>4. PassIsNext /\ TopicIsPrefix
  BY DEF OutboxIInv, TopicInOrder
<1> SUFFICES ASSUME NEW e \in Events, NEW f \in OnTopic', Ahead(e, f)
             PROVE  e \in OnTopic' /\ Precedes(e, f, mainTopic')
  BY DEF TopicIsPrefix, Ahead, Committed
<1>5. e # f /\ ~(stamp[f] <= stamp[e]) /\ f \in Events
  BY <1>1, <1>2, <1>3, AheadIsOneWay DEF OutboxIInv
<1>6. CASE f \in OnTopic
  <2>1. e \in OnTopic /\ Precedes(e, f, mainTopic)
    BY <1>4, <1>6 DEF TopicIsPrefix
  <2>2. FirstPlace(e, mainTopic') = FirstPlace(e, mainTopic)
        /\ FirstPlace(f, mainTopic') = FirstPlace(f, mainTopic)
    BY <1>1, <1>2, <1>6, <2>1, FirstPlaceInConcat
  <2> QED
    BY <1>3, <2>1, <2>2 DEF Precedes
<1>7. CASE f \notin OnTopic
  <2>1. f \in Promise!Members(rows)
    BY <1>1, <1>3, <1>7
  <2>2. FirstPlace(f, mainTopic') = Len(mainTopic) + FirstPlace(f, rows)
        /\ FirstPlace(f, rows) \in 1..Len(rows) /\ rows[FirstPlace(f, rows)] = f
    BY <1>1, <1>2, <1>7, <2>1, FirstPlaceInConcat, FirstPlaceIs
  <2>3. e \in OnTopic \cup LockedBy(r)
    BY <1>1, <1>4, <2>2 DEF PassIsNext
  <2>4. CASE e \in OnTopic
    <3>1. FirstPlace(e, mainTopic') = FirstPlace(e, mainTopic)
          /\ FirstPlace(e, mainTopic) \in 1..Len(mainTopic)
      BY <1>1, <1>2, <2>4, FirstPlaceInConcat, FirstPlaceIs
    <3>2. Len(mainTopic) \in Nat
      BY <1>2, LenProperties
    <3>3. \A a \in 1..Len(mainTopic), b \in 1..Len(rows) : a < Len(mainTopic) + b
      BY <1>1, <3>2
    <3> QED
      BY <1>3, <2>2, <2>4, <3>1, <3>3 DEF Precedes
  <2>5. CASE e \notin OnTopic
    <3>1. e \in Promise!Members(rows)
      BY <1>1, <2>3, <2>5
    <3>2. FirstPlace(e, mainTopic') = Len(mainTopic) + FirstPlace(e, rows)
          /\ FirstPlace(e, rows) \in 1..Len(rows) /\ rows[FirstPlace(e, rows)] = e
      BY <1>1, <1>2, <2>5, <3>1, FirstPlaceInConcat, FirstPlaceIs
    <3>3. \A i, j \in DOMAIN rows : i < j => stamp[rows[i]] <= stamp[rows[j]]
      BY <1>4 DEF PassIsNext
    <3>4. PICK i \in 1..Len(rows), j \in 1..Len(rows) :
              i = FirstPlace(e, rows) /\ j = FirstPlace(f, rows)
      BY <2>2, <3>2
    <3>5. rows[i] = e /\ rows[j] = f /\ i # j /\ ~(j < i)
      BY <1>1, <1>5, <2>2, <3>2, <3>3, <3>4
    <3>6. i < j
      BY <1>1, <3>5
    <3>7. Len(mainTopic) \in Nat
      BY <1>2, LenProperties
    <3>8. Len(mainTopic) + i < Len(mainTopic) + j
      BY <1>1, <3>6, <3>7
    <3> QED
      BY <1>1, <1>3, <2>2, <3>1, <3>2, <3>4, <3>8 DEF Precedes
  <2> QED
    BY <2>4, <2>5
<1> QED
  BY <1>6, <1>7

\* A pass that is over holds nothing.
LEMMA PassOver ==
    ASSUME OutboxShape, NEW r \in Relays, relay' = [relay EXCEPT ![r] = NoPass]
    PROVE  /\ relay' \in [Relays -> Passes]
           /\ relay'[r] = NoPass /\ relay'[r].rows = <<>> /\ ~relay'[r].sent /\ LockedBy(r)' = {}
           /\ \A q \in Relays \ {r} : relay'[q] = relay[q] /\ LockedBy(q)' = LockedBy(q)
<1>1. NoPass \in Passes
  BY EmptySeq DEF NoPass, Passes
<1>2. relay' \in [Relays -> Passes] /\ relay'[r] = NoPass
      /\ \A q \in Relays \ {r} : relay'[q] = relay[q]
  BY <1>1 DEF OutboxShape
<1>3. relay'[r].rows = <<>> /\ ~relay'[r].sent
  BY <1>2 DEF NoPass
<1> QED
  BY <1>2, <1>3 DEF LockedBy

\* A relay claims the oldest rows that nobody holds.
LEMMA ClaimRowsKeeps ==
    ASSUME OutboxIInv, NEW r \in Relays, ClaimRows(r)
    PROVE  OutboxIInv'
<1> USE DEF OutboxIInv
<1>1. PICK rows \in Batches : relay' = [relay EXCEPT ![r] = [NoPass EXCEPT !.rows = rows]]
  BY DEF ClaimRows
<1>2. /\ relay[r] = NoPass /\ UNCHANGED <<outbox, written, now, stamp, mainTopic, failures, late>>
      /\ overlapped' = (overlapped \/ \E q \in Relays : relay[q] # NoPass)
  BY DEF ClaimRows, datings
<1>3. PICK n \in 1..BatchSize : rows \in [1..n -> Claimable]
  BY DEF Batches, ClaimOldest, ClaimInAnyOrder
<1>4. /\ rows \in Seq(Events) /\ DOMAIN rows = 1..n /\ Len(rows) = n /\ n \in Nat /\ n <= BatchSize
      /\ rows # <<>> /\ \A i \in DOMAIN rows : rows[i] \in Claimable /\ rows[i] \in Events
  <2>1. n \in Nat /\ 1 \in 1..n
    BY OutboxAssumption
  <2>2. Claimable \subseteq Events
    BY DEF Claimable
  <2>3. rows \in Seq(Events) /\ Len(rows) = n
    BY <1>3, <2>1, <2>2
  <2>4. rows # <<>>
    BY <1>3, <2>1, <2>3, EmptySeq
  <2> QED
    BY <1>3, <2>1, <2>2, <2>3, <2>4, OutboxAssumption
<1>5. /\ relay' \in [Relays -> Passes]
      /\ relay'[r].rows = rows /\ relay'[r].sent = FALSE
      /\ \A q \in Relays \ {r} : relay'[q] = relay[q]
  <2> DEFINE pass == [NoPass EXCEPT !.rows = rows]
  <2>1. NoPass \in Passes
    BY EmptySeq DEF NoPass, Passes
  <2>2. pass \in Passes /\ pass.rows = rows /\ pass.sent = NoPass.sent
    BY <1>4, <2>1 DEF Passes
  <2>3. NoPass.sent = FALSE
    BY DEF NoPass
  <2> HIDE DEF pass
  <2>4. relay' = [relay EXCEPT ![r] = pass]
    BY <1>1 DEF pass
  <2> QED
    BY <2>2, <2>3, <2>4 DEF OutboxShape
<1>6. /\ LockedBy(r)' = {rows[i] : i \in DOMAIN rows}
      /\ \A q \in Relays \ {r} : LockedBy(q)' = LockedBy(q)
      /\ OnTopic' = OnTopic
  BY <1>2, <1>5 DEF LockedBy, OnTopic, Promise!Members
<1>7. relay[r].rows = <<>> /\ ~relay[r].sent
  BY <1>2 DEF NoPass
<1>8. OutboxShape'
  BY <1>2, <1>5 DEF OutboxShape
<1>9. WrittenOnce' /\ PublishedReachedTopic' /\ TopicWasWritten'
  BY <1>2, <1>6 DEF WrittenOnce, PublishedReachedTopic, TopicWasWritten, Committed
<1>10. PassesHoldOwed'
  <2> SUFFICES ASSUME NEW q \in Relays
               PROVE  /\ relay'[q].sent => relay'[q].rows # <<>>
                      /\ Len(relay'[q].rows) <= BatchSize
                      /\ \A i \in DOMAIN relay'[q].rows :
                             /\ outbox[relay'[q].rows[i]] = "owed"
                             /\ relay'[q].sent => relay'[q].rows[i] \in OnTopic
    BY <1>2, <1>6 DEF PassesHoldOwed
  <2>1. CASE q = r
    BY <1>4, <1>5, <2>1 DEF Claimable
  <2>2. CASE q # r
    BY <1>5, <2>2 DEF PassesHoldOwed
  <2> QED
    BY <2>1, <2>2
<1>11. PassesApart'
  <2>1. \A q \in Relays : LockedBy(q) \cap {rows[i] : i \in DOMAIN rows} = {}
    BY <1>4 DEF Claimable
  <2> QED
    BY <1>6, <2>1 DEF PassesApart
<1>12. TopicIsBounded'
  <2>1. Accounted' = Accounted
    BY <1>2, <1>5, <1>7 DEF Accounted
  <2> QED
    BY <1>2, <2>1 DEF TopicIsBounded
<1>13. TopicInOrder'
  <2> SUFFICES ASSUME ~overlapped, \A q \in Relays : relay[q] = NoPass
               PROVE  LonePass' /\ PassIsNext' /\ TopicIsPrefix'
    BY <1>2 DEF TopicInOrder
  <2>1. \A q \in Relays \ {r} : relay'[q].rows = <<>> /\ DOMAIN relay'[q].rows = {}
    <3>1. \A q \in Relays \ {r} : relay'[q].rows = <<>>
      BY <1>5 DEF NoPass
    <3>2. DOMAIN <<>> = {}
      OBVIOUS
    <3> QED
      BY <3>1, <3>2
  <2>2. LonePass'
    BY <2>1 DEF LonePass
  <2>3. TopicIsPrefix'
    BY <1>2, <1>6 DEF TopicIsPrefix, TopicInOrder, Ahead, Committed
  <2>4. ASSUME NEW j \in DOMAIN rows, NEW i \in DOMAIN rows, i < j
        PROVE  stamp[rows[i]] <= stamp[rows[j]]
    BY <2>4 DEF Batches, ClaimOldest
  <2>5. ASSUME NEW j \in DOMAIN rows, NEW e \in Events, Ahead(e, rows[j])
        PROVE  e \in OnTopic \cup {rows[i] : i \in DOMAIN rows}
    <3>1. rows[j] \in Events
      BY <1>4
    <3>2. Committed(e) /\ ~(stamp[rows[j]] <= stamp[e])
      BY <2>5, <3>1, AheadIsOneWay
    <3>3. CASE outbox[e] # "owed"
      <4>1. outbox[e] \in {"published", "pruned"}
        BY <3>2, <3>3 DEF OutboxShape, RowState, Committed
      <4> QED
        BY <4>1 DEF PublishedReachedTopic
    <3>4. CASE outbox[e] = "owed"
      <4>1. \A q \in Relays : LockedBy(q) = {}
        BY HeldRows DEF NoPass
      <4>2. e \in Claimable
        BY <3>4, <4>1 DEF Claimable
      <4>3. \/ \E i \in DOMAIN rows : rows[i] = e
            \/ \A i \in DOMAIN rows : stamp[rows[i]] <= stamp[e]
        BY <4>2 DEF Batches, ClaimOldest
      <4> QED
        BY <3>2, <4>3
    <3> QED
      BY <3>3, <3>4
  <2>6. PassIsNext'
    <3> SUFFICES ASSUME NEW q \in Relays, NEW j \in DOMAIN relay'[q].rows
                 PROVE  /\ \A i \in DOMAIN relay'[q].rows :
                               i < j => stamp[relay'[q].rows[i]] <= stamp[relay'[q].rows[j]]
                        /\ \A e \in Events : Ahead(e, relay[q].rows[j])' =>
                               e \in OnTopic \cup LockedBy(q)'
      BY <1>2, <1>6 DEF PassIsNext
    <3>1. q = r
      BY <2>1
    <3>2. \A e \in Events : Ahead(e, relay[q].rows[j])' <=> Ahead(e, rows[j])
      BY <1>2, <1>5, <3>1 DEF Ahead, Committed
    <3> QED
      BY <1>5, <1>6, <2>4, <2>5, <3>1, <3>2
  <2> QED
    BY <2>2, <2>3, <2>6
<1> QED
  BY <1>8, <1>9, <1>10, <1>11, <1>12, <1>13

\* A pass publishes its rows.
LEMMA PublishKeeps ==
    ASSUME OutboxIInv, NEW r \in Relays, Publish(r)
    PROVE  /\ OutboxIInv'
           /\ Len(mainTopic) + Len(relay[r].rows)
                  <= (Cardinality(Events) + MaxFailures) * BatchSize
<1> USE DEF OutboxIInv
<1>1. /\ relay[r].rows # <<>> /\ ~relay[r].sent
      /\ mainTopic' = mainTopic \o relay[r].rows
      /\ relay' = [relay EXCEPT ![r].sent = TRUE]
      /\ UNCHANGED <<outbox, written, now, stamp, failures, overlapped, late>>
  BY DEF Publish, Sendable, datings
<1>2. /\ relay' \in [Relays -> Passes]
      /\ relay'[r].rows = relay[r].rows /\ relay'[r].sent
      /\ \A q \in Relays \ {r} : relay'[q] = relay[q]
      /\ \A q \in Relays : relay'[q].rows = relay[q].rows
  BY <1>1 DEF OutboxShape, Passes
<1>3. /\ mainTopic' \in Seq(Events)
      /\ Len(mainTopic) \in Nat /\ Len(relay[r].rows) \in Nat
      /\ Len(mainTopic') = Len(mainTopic) + Len(relay[r].rows)
      /\ OnTopic' = OnTopic \cup LockedBy(r)
  BY <1>1, BatchArrives
<1>4. \A q \in Relays : LockedBy(q)' = LockedBy(q)
  BY <1>2 DEF LockedBy
<1>5. OutboxShape'
  BY <1>1, <1>2, <1>3 DEF OutboxShape
<1>6. WrittenOnce' /\ PublishedReachedTopic'
  BY <1>1, <1>3 DEF WrittenOnce, PublishedReachedTopic, Committed
<1>7. TopicWasWritten'
  <2>1. \A e \in LockedBy(r) : outbox[e] = "owed"
    BY DEF PassesHoldOwed, LockedBy
  <2> QED
    BY <1>1, <1>3, <2>1 DEF TopicWasWritten, Committed
<1>8. PassesHoldOwed'
  <2> SUFFICES ASSUME NEW q \in Relays
               PROVE  /\ relay'[q].sent => relay'[q].rows # <<>>
                      /\ Len(relay'[q].rows) <= BatchSize
                      /\ \A i \in DOMAIN relay'[q].rows :
                             /\ outbox[relay'[q].rows[i]] = "owed"
                             /\ relay'[q].sent => relay'[q].rows[i] \in OnTopic'
    BY <1>1 DEF PassesHoldOwed
  <2>1. CASE q = r
    BY <1>1, <1>2, <1>3, <2>1 DEF PassesHoldOwed, LockedBy
  <2>2. CASE q # r
    BY <1>2, <1>3, <2>2 DEF PassesHoldOwed
  <2> QED
    BY <2>1, <2>2
<1>9. PassesApart'
  BY <1>4 DEF PassesApart
<1>10. PICK x \in Events : x = relay[r].rows[1] /\ x \in LockedBy(r) /\ outbox[x] = "owed"
  <2>1. 1 \in DOMAIN relay[r].rows /\ LockedBy(r) \subseteq Events
    BY <1>1, HeldRows
  <2>2. relay[r].rows[1] \in LockedBy(r) /\ outbox[relay[r].rows[1]] = "owed"
    BY <2>1 DEF LockedBy, PassesHoldOwed
  <2> QED
    BY <2>1, <2>2
<1>11. x \notin Accounted /\ Accounted' = Accounted \cup {x}
  <2>1. ASSUME NEW q \in Relays, relay[q].sent, relay[q].rows[1] = x PROVE FALSE
    <3>1. q # r /\ relay[q].rows # <<>>
      BY <1>1, <2>1 DEF PassesHoldOwed
    <3>2. x \in LockedBy(q)
      BY <2>1, <3>1, HeldRows DEF LockedBy
    <3> QED
      BY <1>10, <3>1, <3>2 DEF PassesApart
  <2>2. x \notin Accounted
    BY <1>10, <2>1 DEF Accounted
  <2>3. Accounted' = Accounted \cup {x}
    BY <1>1, <1>2, <1>10 DEF Accounted
  <2> QED
    BY <2>2, <2>3
<1>12. PICK n \in Nat, f \in Nat :
          /\ n = Cardinality(Accounted) /\ n + 1 = Cardinality(Accounted')
          /\ n + 1 <= Cardinality(Events) /\ Cardinality(Events) \in Nat
          /\ f = failures /\ f <= MaxFailures
  <2>1. Accounted \in SUBSET Events /\ Accounted' \in SUBSET Events
    BY DEF Accounted
  <2>2. IsFiniteSet(Accounted) /\ Cardinality(Accounted) \in Nat
    BY <2>1, AccountedIsFinite
  <2>3. Cardinality(Accounted') = Cardinality(Accounted) + 1
    BY <1>11, <2>2, FS_AddElement
  <2>4. Cardinality(Accounted') <= Cardinality(Events) /\ Cardinality(Events) \in Nat
    BY <2>1, AccountedIsFinite
  <2>5. failures \in Nat /\ failures <= MaxFailures
    BY OutboxAssumption DEF OutboxShape
  <2> QED
    BY <2>2, <2>3, <2>4, <2>5
<1>13. Len(mainTopic) + Len(relay[r].rows) <= (n + 1 + f) * BatchSize
  <2>1. n + f \in Nat /\ n + 1 + f \in Nat /\ (n + f) + 1 <= n + 1 + f
    OBVIOUS
  <2>2. Len(relay[r].rows) <= BatchSize
    BY DEF PassesHoldOwed
  <2>3. Len(mainTopic) <= (n + f) * BatchSize
    BY <1>12 DEF TopicIsBounded
  <2> QED
    BY <1>3, <2>1, <2>2, <2>3, BoundMoves
<1>14. TopicIsBounded'
  BY <1>1, <1>3, <1>12, <1>13 DEF TopicIsBounded
<1>15. Len(mainTopic) + Len(relay[r].rows) <= (Cardinality(Events) + MaxFailures) * BatchSize
  <2>1. PICK c \in Nat : c = Cardinality(Events) /\ n + 1 <= c
    BY <1>12
  <2>2. n + 1 + f \in Nat /\ c + MaxFailures \in Nat /\ n + 1 + f <= c + MaxFailures
    BY <1>12, <2>1, OutboxAssumption
  <2>3. BatchSize \in Nat
    BY OutboxAssumption
  <2>4. (n + 1 + f) * BatchSize <= (c + MaxFailures) * BatchSize
        /\ (n + 1 + f) * BatchSize \in Nat /\ (c + MaxFailures) * BatchSize \in Nat
    BY <2>2, <2>3, Multiples
  <2> QED
    BY <1>3, <1>13, <2>1, <2>4
<1>16. TopicInOrder'
  <2> SUFFICES ASSUME ~overlapped PROVE LonePass' /\ PassIsNext' /\ TopicIsPrefix'
    BY <1>1 DEF TopicInOrder
  <2>1. LonePass /\ PassIsNext
    BY DEF TopicInOrder
  <2>2. LonePass'
    BY <1>2, <2>1 DEF LonePass
  <2>3. PassIsNext'
    <3> SUFFICES ASSUME NEW q \in Relays, NEW j \in DOMAIN relay[q].rows
                 PROVE  /\ \A i \in DOMAIN relay[q].rows :
                               i < j => stamp[relay[q].rows[i]] <= stamp[relay[q].rows[j]]
                        /\ \A e \in Events : Ahead(e, relay[q].rows[j])' =>
                               e \in OnTopic' \cup LockedBy(q)'
      BY <1>1, <1>2 DEF PassIsNext
    <3>3. \A e \in Events : Ahead(e, relay[q].rows[j])' <=> Ahead(e, relay[q].rows[j])
      BY <1>1, <1>2 DEF Ahead, Committed
    <3> QED
      BY <1>3, <1>4, <2>1, <3>3 DEF PassIsNext
  <2>4. TopicIsPrefix'
    BY <1>1, BatchInOrder
  <2> QED
    BY <2>2, <2>3, <2>4
<1> QED
  BY <1>5, <1>6, <1>7, <1>8, <1>9, <1>14, <1>15, <1>16

\* A pass that fails, or whose relay dies, leaves its rows owed.
LEMMA FailedPassKeeps ==
    ASSUME OutboxIInv, NEW r \in Relays, PublishFails(r) \/ RelayDies(r)
    PROVE  /\ OutboxIInv'
           /\ \/ mainTopic' = mainTopic
              \/ /\ mainTopic' = mainTopic \o relay[r].rows /\ relay[r].rows # <<>>
                 /\ Len(mainTopic) + Len(relay[r].rows)
                        <= (Cardinality(Events) + MaxFailures) * BatchSize
<1> USE DEF OutboxIInv
<1>1. /\ relay' = [relay EXCEPT ![r] = NoPass]
      /\ UNCHANGED <<outbox, written, now, stamp, overlapped, late>>
      /\ failures < MaxFailures /\ failures' = failures + 1
      /\ \/ mainTopic' = mainTopic
         \/ mainTopic' = mainTopic \o relay[r].rows /\ relay[r].rows # <<>> /\ ~relay[r].sent
  BY DEF PublishFails, RelayDies, Fails, Sendable, datings
<1>2. /\ relay' \in [Relays -> Passes]
      /\ relay'[r].rows = <<>> /\ ~relay'[r].sent /\ LockedBy(r)' = {}
      /\ \A q \in Relays \ {r} : relay'[q] = relay[q] /\ LockedBy(q)' = LockedBy(q)
  BY <1>1, PassOver
<1>3. /\ mainTopic' \in Seq(Events) /\ OnTopic \subseteq OnTopic'
      /\ OnTopic' \subseteq OnTopic \cup LockedBy(r)
  <2>1. CASE mainTopic' = mainTopic
    BY <2>1 DEF OutboxShape, OnTopic, Promise!Members
  <2>2. CASE mainTopic' = mainTopic \o relay[r].rows
    BY <2>2, BatchArrives
  <2> QED
    BY <1>1, <2>1, <2>2
<1>4. PICK f \in Nat : f = failures /\ f + 1 = failures' /\ f + 1 <= MaxFailures
  <2>1. failures \in Nat
    BY DEF OutboxShape
  <2> QED
    BY <1>1, <2>1, OutboxAssumption
<1>5. OutboxShape'
  BY <1>1, <1>2, <1>3, <1>4, OutboxAssumption DEF OutboxShape
<1>6. WrittenOnce' /\ PublishedReachedTopic'
  BY <1>1, <1>3 DEF WrittenOnce, PublishedReachedTopic, Committed
<1>7. TopicWasWritten'
  <2>1. \A e \in LockedBy(r) : outbox[e] = "owed"
    BY DEF PassesHoldOwed, LockedBy
  <2> QED
    BY <1>1, <1>3, <2>1 DEF TopicWasWritten, Committed
<1>8. \A q \in Relays \ {r} : DOMAIN relay'[q].rows = DOMAIN relay[q].rows
  BY <1>2
<1>9. DOMAIN relay'[r].rows = {} /\ Len(relay'[r].rows) = 0
  <2>1. Len(<<>>) = 0 /\ DOMAIN <<>> = {}
    OBVIOUS
  <2> QED
    BY <1>2, <2>1
<1>10. PassesHoldOwed'
  <2> SUFFICES ASSUME NEW q \in Relays
               PROVE  /\ relay'[q].sent => relay'[q].rows # <<>>
                      /\ Len(relay'[q].rows) <= BatchSize
                      /\ \A i \in DOMAIN relay'[q].rows :
                             /\ outbox[relay'[q].rows[i]] = "owed"
                             /\ relay'[q].sent => relay'[q].rows[i] \in OnTopic'
    BY <1>1 DEF PassesHoldOwed
  <2>1. CASE q = r
    BY <1>2, <1>9, <2>1, OutboxAssumption
  <2>2. CASE q # r
    BY <1>2, <1>3, <2>2 DEF PassesHoldOwed
  <2> QED
    BY <2>1, <2>2
<1>11. PassesApart'
  BY <1>2 DEF PassesApart
<1>12. PICK x : x = relay[r].rows[1]
  OBVIOUS
<1>13. /\ Accounted \subseteq Accounted' \cup {x}
       /\ ~relay[r].sent => Accounted' = Accounted
  BY <1>1, <1>2, <1>12 DEF Accounted
<1>14. PICK n \in Nat, m \in Nat :
          /\ n = Cardinality(Accounted) /\ m = Cardinality(Accounted') /\ n <= m + 1
          /\ ~relay[r].sent => n = m
          /\ n <= Cardinality(Events) /\ Cardinality(Events) \in Nat
  <2>1. Accounted \in SUBSET Events /\ Accounted' \in SUBSET Events
    BY DEF Accounted
  <2>2. IsFiniteSet(Accounted') /\ Cardinality(Accounted') \in Nat /\ Cardinality(Accounted) \in Nat
    BY <2>1, AccountedIsFinite
  <2>3. Cardinality(Accounted) <= Cardinality(Events) /\ Cardinality(Events) \in Nat
    BY <2>1, AccountedIsFinite
  <2>4. /\ IsFiniteSet(Accounted' \cup {x})
        /\ Cardinality(Accounted' \cup {x}) <= Cardinality(Accounted') + 1
    BY <2>2, FS_AddElement
  <2>5. /\ Cardinality(Accounted) <= Cardinality(Accounted' \cup {x})
        /\ Cardinality(Accounted' \cup {x}) \in Nat
    BY <1>13, <2>4, FS_Subset, FS_CardinalityType
  <2> QED
    BY <1>13, <2>2, <2>3, <2>4, <2>5
<1>15. Len(mainTopic) \in Nat /\ Len(relay[r].rows) \in Nat /\ Len(relay[r].rows) <= BatchSize
       /\ Len(mainTopic) <= (n + f) * BatchSize
  BY <1>4, <1>14, HeldRows, MembersOf DEF PassesHoldOwed, TopicIsBounded, OutboxShape
<1>16. ASSUME mainTopic' = mainTopic
       PROVE  TopicIsBounded'
  <2>1. n + f \in Nat /\ m + (f + 1) \in Nat /\ n + f <= m + (f + 1) /\ 0 \in Nat
    BY <1>14
  <2>2. Len(mainTopic) + 0 <= (m + (f + 1)) * BatchSize
    BY <1>15, <2>1, BoundMoves
  <2>3. Len(mainTopic) + 0 = Len(mainTopic)
    BY <1>15
  <2> QED
    BY <1>4, <1>14, <1>16, <2>2, <2>3 DEF TopicIsBounded
<1>17. ASSUME mainTopic' = mainTopic \o relay[r].rows, relay[r].rows # <<>>, ~relay[r].sent
       PROVE  /\ TopicIsBounded'
              /\ Len(mainTopic) + Len(relay[r].rows) <=
                     (Cardinality(Events) + MaxFailures) * BatchSize
  <2>1. n + f \in Nat /\ m + (f + 1) \in Nat /\ (n + f) + 1 <= m + (f + 1)
    BY <1>14, <1>17
  <2>2. Len(mainTopic) + Len(relay[r].rows) <= (m + (f + 1)) * BatchSize
    BY <1>15, <2>1, BoundMoves
  <2>3. TopicIsBounded'
    BY <1>4, <1>14, <1>17, <2>2, BatchArrives DEF TopicIsBounded
  <2>4. PICK c \in Nat : c = Cardinality(Events) /\ m <= c
    BY <1>14, <1>17
  <2>5. c + MaxFailures \in Nat /\ m + (f + 1) <= c + MaxFailures /\ BatchSize \in Nat
    BY <1>4, <2>4, OutboxAssumption
  <2>6. (m + (f + 1)) * BatchSize <= (c + MaxFailures) * BatchSize
        /\ (m + (f + 1)) * BatchSize \in Nat /\ (c + MaxFailures) * BatchSize \in Nat
    BY <2>1, <2>5, Multiples
  <2>7. Len(mainTopic) + Len(relay[r].rows) <= (c + MaxFailures) * BatchSize
    BY <1>15, <2>2, <2>6
  <2> QED
    BY <1>17, <2>3, <2>4, <2>7
<1>18. TopicInOrder'
  <2> SUFFICES ASSUME ~overlapped PROVE LonePass' /\ PassIsNext' /\ TopicIsPrefix'
    BY <1>1 DEF TopicInOrder
  <2>1. LonePass /\ PassIsNext /\ TopicIsPrefix
    BY DEF TopicInOrder
  <2>2. LonePass'
    BY <1>2, <2>1 DEF LonePass
  <2>3. PassIsNext'
    <3> SUFFICES ASSUME NEW q \in Relays, NEW j \in DOMAIN relay'[q].rows
                 PROVE  /\ \A i \in DOMAIN relay'[q].rows :
                               i < j => stamp[relay'[q].rows[i]] <= stamp[relay'[q].rows[j]]
                        /\ \A e \in Events : Ahead(e, relay[q].rows[j])' =>
                               e \in OnTopic' \cup LockedBy(q)'
      BY <1>1 DEF PassIsNext
    <3>1. q \in Relays \ {r}
      BY <1>9
    <3>2. \A e \in Events : Ahead(e, relay[q].rows[j])' <=> Ahead(e, relay[q].rows[j])
      BY <1>1, <1>2, <3>1 DEF Ahead, Committed
    <3> QED
      BY <1>2, <1>3, <2>1, <3>1, <3>2 DEF PassIsNext
  <2>4. TopicIsPrefix'
    <3>1. CASE mainTopic' = mainTopic
      BY <1>1, <2>1, <3>1 DEF TopicIsPrefix, OnTopic, Promise!Members, Ahead, Committed
    <3>2. CASE mainTopic' = mainTopic \o relay[r].rows /\ relay[r].rows # <<>>
      BY <1>1, <3>2, BatchInOrder
    <3> QED
      BY <1>1, <3>1, <3>2
  <2> QED
    BY <2>2, <2>3, <2>4
<1> QED
  BY <1>1, <1>5, <1>6, <1>7, <1>10, <1>11, <1>16, <1>17, <1>18

\* A pass that has sent its rows marks them published.
LEMMA CommitKeeps ==
    ASSUME OutboxIInv, NEW r \in Relays, Commit(r)
    PROVE  OutboxIInv'
<1> USE DEF OutboxIInv
<1>1. /\ relay[r].sent
      /\ outbox' = [e \in Events |-> IF e \in LockedBy(r) THEN "published" ELSE outbox[e]]
      /\ relay' = [relay EXCEPT ![r] = NoPass]
      /\ UNCHANGED <<written, now, stamp, mainTopic, failures, overlapped, late>>
  BY DEF Commit, Markable, datings
<1>2. /\ relay' \in [Relays -> Passes]
      /\ relay'[r].rows = <<>> /\ ~relay'[r].sent /\ LockedBy(r)' = {}
      /\ \A q \in Relays \ {r} : relay'[q] = relay[q] /\ LockedBy(q)' = LockedBy(q)
  BY <1>1, PassOver
<1>3. \A e \in LockedBy(r) : e \in Events /\ outbox[e] = "owed" /\ e \in OnTopic
  <2> SUFFICES ASSUME NEW e \in LockedBy(r)
               PROVE  e \in Events /\ outbox[e] = "owed" /\ e \in OnTopic
    OBVIOUS
  <2>1. PICK i \in DOMAIN relay[r].rows : relay[r].rows[i] = e
    BY DEF LockedBy
  <2>2. e \in Events
    BY HeldRows
  <2>3. outbox[relay[r].rows[i]] = "owed" /\ relay[r].rows[i] \in OnTopic
    BY <1>1 DEF PassesHoldOwed
  <2> QED
    BY <2>1, <2>2, <2>3
<1>4. OnTopic' = OnTopic
  BY <1>1 DEF OnTopic, Promise!Members
<1>5. /\ \A e \in Events : outbox'[e] = IF e \in LockedBy(r) THEN "published" ELSE outbox[e]
      /\ outbox' \in [Events -> RowState]
  BY <1>1 DEF OutboxShape, RowState
<1>6. OutboxShape'
  BY <1>1, <1>2, <1>5 DEF OutboxShape
<1>7. WrittenOnce'
  <2>1. \A e \in Events : Committed(e)' <=> Committed(e)
    BY <1>3, <1>5 DEF Committed
  <2> QED
    BY <1>1, <2>1 DEF WrittenOnce
<1>14. \A e \in Events : \A f : Ahead(e, f)' <=> Ahead(e, f)
  BY <1>1, <1>3, <1>5 DEF Ahead, Committed
<1>8. PublishedReachedTopic' /\ TopicWasWritten'
  <2>1. OnTopic \subseteq Events
    BY MembersOf DEF OutboxShape, OnTopic
  <2> QED
    BY <1>3, <1>4, <1>5, <2>1 DEF PublishedReachedTopic, TopicWasWritten, Committed
<1>9. DOMAIN relay'[r].rows = {} /\ Len(relay'[r].rows) = 0
  <2>1. Len(<<>>) = 0 /\ DOMAIN <<>> = {}
    OBVIOUS
  <2> QED
    BY <1>2, <2>1
<1>10. PassesHoldOwed'
  <2> SUFFICES ASSUME NEW q \in Relays
               PROVE  /\ relay'[q].sent => relay'[q].rows # <<>>
                      /\ Len(relay'[q].rows) <= BatchSize
                      /\ \A i \in DOMAIN relay'[q].rows :
                             /\ outbox'[relay'[q].rows[i]] = "owed"
                             /\ relay'[q].sent => relay'[q].rows[i] \in OnTopic
    BY <1>4 DEF PassesHoldOwed
  <2>1. CASE q = r
    BY <1>2, <1>9, <2>1, OutboxAssumption
  <2>2. CASE q # r
    <3>1. /\ relay[q].sent => relay[q].rows # <<>>
          /\ Len(relay[q].rows) <= BatchSize
          /\ \A i \in DOMAIN relay[q].rows :
                 /\ outbox[relay[q].rows[i]] = "owed"
                 /\ relay[q].sent => relay[q].rows[i] \in OnTopic
      BY DEF PassesHoldOwed
    <3>2. \A e \in LockedBy(q) : e \in Events /\ e \notin LockedBy(r)
      BY <2>2, HeldRows DEF PassesApart
    <3>3. \A i \in DOMAIN relay[q].rows : outbox'[relay[q].rows[i]] = outbox[relay[q].rows[i]]
      BY <1>5, <3>2 DEF LockedBy
    <3> QED
      BY <1>2, <2>2, <3>1, <3>3
  <2> QED
    BY <2>1, <2>2
<1>11. PassesApart'
  BY <1>2 DEF PassesApart
<1>12. TopicIsBounded'
  <2>1. relay[r].rows[1] \in LockedBy(r)
    BY <1>1, HeldRows DEF PassesHoldOwed, LockedBy
  <2>2. Accounted \subseteq Accounted'
    <3> SUFFICES ASSUME NEW e \in Accounted PROVE e \in Accounted'
      OBVIOUS
    <3>1. e \in Events
      BY DEF Accounted
    <3>2. CASE outbox[e] \in {"published", "pruned"}
      BY <1>5, <3>1, <3>2 DEF Accounted
    <3>3. CASE \E q \in Relays : relay[q].sent /\ relay[q].rows[1] = e
      BY <1>2, <1>5, <2>1, <3>1, <3>3 DEF Accounted
    <3> QED
      BY <3>2, <3>3 DEF Accounted
  <2>3. Accounted' \in SUBSET Events /\ Accounted \in SUBSET Events
    BY DEF Accounted
  <2>4. IsFiniteSet(Accounted')
    BY <2>3, AccountedIsFinite
  <2>5. PICK n \in Nat, m \in Nat, f \in Nat :
            n = Cardinality(Accounted) /\ m = Cardinality(Accounted') /\ n <= m /\ f = failures
    <3>1. Cardinality(Accounted) <= Cardinality(Accounted')
      BY <2>2, <2>4, FS_Subset
    <3>2. Cardinality(Accounted) \in Nat /\ Cardinality(Accounted') \in Nat
      BY <2>3, AccountedIsFinite
    <3>3. failures \in Nat
      BY DEF OutboxShape
    <3> QED
      BY <3>1, <3>2, <3>3
  <2>6. Len(mainTopic) \in Nat /\ Len(mainTopic) <= (n + f) * BatchSize
    BY <2>5, MembersOf DEF TopicIsBounded, OutboxShape
  <2>7. n + f \in Nat /\ m + f \in Nat /\ n + f <= m + f /\ 0 \in Nat
    BY <2>5
  <2>8. Len(mainTopic) + 0 <= (m + f) * BatchSize
    BY <2>6, <2>7, BoundMoves
  <2>9. Len(mainTopic) + 0 = Len(mainTopic)
    BY <2>6
  <2> QED
    BY <1>1, <2>5, <2>8, <2>9 DEF TopicIsBounded
<1>13. TopicInOrder'
  <2> SUFFICES ASSUME ~overlapped PROVE LonePass' /\ PassIsNext' /\ TopicIsPrefix'
    BY <1>1 DEF TopicInOrder
  <2>1. LonePass /\ PassIsNext /\ TopicIsPrefix
    BY DEF TopicInOrder
  <2>2. LonePass'
    BY <1>2, <2>1 DEF LonePass
  <2>3. PassIsNext'
    <3> SUFFICES ASSUME NEW q \in Relays, NEW j \in DOMAIN relay'[q].rows
                 PROVE  /\ \A i \in DOMAIN relay'[q].rows :
                               i < j => stamp[relay'[q].rows[i]] <= stamp[relay'[q].rows[j]]
                        /\ \A e \in Events : Ahead(e, relay[q].rows[j])' =>
                               e \in OnTopic \cup LockedBy(q)'
      BY <1>1, <1>4 DEF PassIsNext
    <3>1. q \in Relays \ {r}
      BY <1>9
    <3>2. \A e \in Events : Ahead(e, relay[q].rows[j])' <=> Ahead(e, relay[q].rows[j])
      BY <1>1, <1>2, <1>3, <1>5, <3>1 DEF Ahead, Committed
    <3> QED
      BY <1>2, <2>1, <3>1, <3>2 DEF PassIsNext
  <2>4. TopicIsPrefix'
    BY <1>1, <1>4, <1>14, <2>1 DEF TopicIsPrefix
  <2> QED
    BY <2>2, <2>3, <2>4
<1> QED
  BY <1>6, <1>7, <1>8, <1>10, <1>11, <1>12, <1>13

\* Retention deletes a published row.
LEMMA PruneKeeps ==
    ASSUME OutboxIInv, NEW e \in Events, Prune(e)
    PROVE  OutboxIInv'
<1> USE DEF OutboxIInv
<1>1. /\ outbox[e] = "published" /\ outbox' = [outbox EXCEPT ![e] = "pruned"]
      /\ UNCHANGED <<written, now, stamp, relay, mainTopic, failures, overlapped, late>>
  BY DEF Prune, Prunable, datings
<1>2. OnTopic' = OnTopic /\ OnTopic \subseteq Events /\ \A r : LockedBy(r)' = LockedBy(r)
  BY <1>1, MembersOf DEF OnTopic, Promise!Members, LockedBy, OutboxShape
<1>3. OutboxShape'
  BY <1>1 DEF OutboxShape, RowState
<1>4. /\ outbox'[e] = "pruned" /\ \A f \in Events \ {e} : outbox'[f] = outbox[f]
  BY <1>1 DEF OutboxShape
<1>11. \A f \in Events : Committed(f)' <=> Committed(f)
  BY <1>1, <1>4 DEF Committed
<1>12. \A f \in Events : \A g : Ahead(f, g)' <=> Ahead(f, g)
  BY <1>1, <1>11 DEF Ahead
<1>5. WrittenOnce'
  BY <1>1, <1>11 DEF WrittenOnce
<1>6. PublishedReachedTopic' /\ TopicWasWritten'
  BY <1>1, <1>2, <1>4, <1>11 DEF PublishedReachedTopic, TopicWasWritten
<1>7. PassesHoldOwed'
  <2>1. \A r \in Relays : \A i \in DOMAIN relay[r].rows :
            relay[r].rows[i] \in Events /\ outbox'[relay[r].rows[i]] = outbox[relay[r].rows[i]]
    <3> SUFFICES ASSUME NEW r \in Relays, NEW i \in DOMAIN relay[r].rows
                 PROVE  relay[r].rows[i] \in Events
                        /\ outbox'[relay[r].rows[i]] = outbox[relay[r].rows[i]]
      OBVIOUS
    <3>1. relay[r].rows[i] \in LockedBy(r)
      BY DEF LockedBy
    <3>2. relay[r].rows[i] \in Events /\ outbox[relay[r].rows[i]] = "owed"
      BY <3>1, HeldRows DEF PassesHoldOwed
    <3> QED
      BY <1>1, <1>4, <3>2
  <2> QED
    BY <1>1, <1>2, <2>1 DEF PassesHoldOwed
<1>8. PassesApart'
  BY <1>2 DEF PassesApart
<1>9. TopicIsBounded'
  <2>1. Accounted' = Accounted
    BY <1>1, <1>4 DEF Accounted
  <2> QED
    BY <1>1, <2>1 DEF TopicIsBounded
<1>10. TopicInOrder'
  <2>1. LonePass => LonePass'
    BY <1>1 DEF LonePass
  <2>2. PassIsNext => PassIsNext'
    <3>1. \A r \in Relays : \A j \in DOMAIN relay[r].rows : \A f \in Events :
              Ahead(f, relay[r].rows[j])' <=> Ahead(f, relay[r].rows[j])
      BY <1>1, <1>11 DEF Ahead
    <3> QED
      BY <1>1, <1>2, <3>1 DEF PassIsNext
  <2>3. TopicIsPrefix => TopicIsPrefix'
    BY <1>1, <1>2, <1>12 DEF TopicIsPrefix
  <2> QED
    BY <1>1, <2>1, <2>2, <2>3 DEF TopicInOrder
<1> QED
  BY <1>3, <1>5, <1>6, <1>7, <1>8, <1>9, <1>10

\* Nothing is written, claimed or published at the start.
LEMMA OutboxStarts ==
    ASSUME OutboxInit
    PROVE  OutboxIInv
<1>1. /\ outbox = [e \in Events |-> "unwritten"] /\ written = <<>>
      /\ relay = [r \in Relays |-> NoPass] /\ mainTopic = <<>>
      /\ now = 0 /\ stamp = [e \in Events |-> 0] /\ late = {}
      /\ failures = 0 /\ overlapped = FALSE
  BY DEF OutboxInit
<1>2. /\ <<>> \in Seq(Events) /\ Len(<<>>) = 0 /\ DOMAIN <<>> = {}
      /\ NoPass \in Passes /\ NoPass.rows = <<>> /\ NoPass.sent = FALSE
  BY DEF Passes, NoPass
<1>3. OutboxShape
  <2>1. relay \in [Relays -> Passes]
    BY <1>1, <1>2
  <2>2. failures \in 0..MaxFailures
    BY <1>1, OutboxAssumption
  <2>3. outbox \in [Events -> RowState]
    BY <1>1 DEF RowState
  <2>4. written \in Seq(Events) /\ mainTopic \in Seq(Events)
    BY <1>1, <1>2
  <2> QED
    <3>1. now \in Nat /\ stamp \in [Events -> 0..now]
      BY <1>1
    <3> QED
      BY <1>1, <2>1, <2>2, <2>3, <2>4, <3>1 DEF OutboxShape
<1>4. \A r \in Relays : relay[r].rows = <<>> /\ ~relay[r].sent
  BY <1>1, <1>2
<1>5. OnTopic = {}
  BY <1>1, <1>2 DEF OnTopic, Promise!Members
<1>6. WrittenOnce
  BY <1>1, <1>2 DEF WrittenOnce, Committed
<1>7. PassesHoldOwed
  BY <1>2, <1>4, OutboxAssumption DEF PassesHoldOwed
<1>8. PassesApart
  BY <1>2, <1>4 DEF PassesApart, LockedBy
<1>9. PublishedReachedTopic /\ TopicWasWritten
  BY <1>1, <1>5 DEF PublishedReachedTopic, TopicWasWritten
<1>10. TopicIsBounded
  <2>1. Accounted \in SUBSET Events
    BY DEF Accounted
  <2>2. PICK n \in Nat : n = Cardinality(Accounted)
    BY <2>1, AccountedIsFinite
  <2>3. n + 0 \in Nat /\ (n + 0) * BatchSize \in Nat
    BY <2>2, Multiples, OutboxAssumption
  <2> QED
    BY <1>1, <1>2, <2>2, <2>3 DEF TopicIsBounded
<1>11. TopicInOrder
  BY <1>2, <1>4, <1>5 DEF TopicInOrder, LonePass, PassIsNext, TopicIsPrefix
<1> QED
  BY <1>3, <1>6, <1>7, <1>8, <1>9, <1>10, <1>11 DEF OutboxIInv

\* What a pass puts on the topic is a batch of written events.
LEMMA PassIsAnArrival ==
    ASSUME OutboxIInv, NEW r \in Relays, relay[r].rows # <<>>
    PROVE  relay[r].rows \in Promise!Arrivals
<1> DEFINE rows == relay[r].rows
<1>1. /\ rows \in Seq(Events) /\ DOMAIN rows = 1..Len(rows) /\ Len(rows) \in Nat
      /\ 1 \in DOMAIN rows /\ Len(rows) <= BatchSize /\ BatchSize \in Nat
  BY HeldRows, OutboxAssumption DEF OutboxIInv, PassesHoldOwed
<1>2. \A i \in 1..Len(rows) : rows[i] \in Promise!Members(written)
  <2> SUFFICES ASSUME NEW i \in 1..Len(rows) PROVE rows[i] \in Promise!Members(written)
    OBVIOUS
  <2>1. outbox[rows[i]] = "owed"
    BY <1>1 DEF OutboxIInv, PassesHoldOwed
  <2>2. rows[i] \in Events
    BY <1>1, ElementOfSeq
  <2>3. \E j \in DOMAIN written : written[j] = rows[i]
    BY <2>1, <2>2 DEF OutboxIInv, WrittenOnce, Committed
  <2> QED
    BY <2>3 DEF Promise!Members
<1> HIDE DEF rows
<1>3. rows = [i \in 1..Len(rows) |-> rows[i]]
  BY <1>1
<1>4. Len(rows) \in 1..BatchSize /\ rows \in [1..Len(rows) -> Promise!Members(written)]
  BY <1>1, <1>2, <1>3
<1>5. rows \in Promise!Arrivals
  BY <1>4 DEF Promise!Arrivals
<1> QED
  BY <1>5 DEF rows

\* Every step of the outbox, or beside it, keeps its invariant and is a step
\* of the topic its readers rely on, or none.
LEMMA OutboxSteps ==
    ASSUME OutboxIInv, (\E e \in Events : WriteEvent(e)) \/ Publishing \/ Beside
    PROVE  OutboxIInv' /\ [Promise!TopicNext]_(Promise!topicVars)
<1>1. CASE \E e \in Events : WriteEvent(e)
  <2>1. PICK e \in Events : WriteEvent(e)
    BY <1>1
  <2>2. e \notin Promise!Members(written)
    BY <2>1 DEF WriteEvent, OutboxIInv, WrittenOnce, Committed, Promise!Members
  <2>3. Promise!WriteEvent(e)
    BY <2>1, <2>2 DEF WriteEvent, Promise!WriteEvent
  <2> QED
    BY <2>1, <2>3, WriteEventKeeps DEF Promise!TopicNext
<1>2. CASE \E e \in Events : Prune(e)
  <2>1. PICK e \in Events : Prune(e)
    BY <1>2
  <2> QED
    BY <2>1, PruneKeeps DEF Prune, Promise!topicVars
<1>3. CASE \E r \in Relays : RelayPass(r) \/ PublishFails(r) \/ RelayDies(r)
  <2>1. PICK r \in Relays : RelayPass(r) \/ PublishFails(r) \/ RelayDies(r)
    BY <1>3
  <2>2. CASE ClaimRows(r)
    BY <2>2, ClaimRowsKeeps DEF ClaimRows, Promise!topicVars
  <2>3. CASE Commit(r)
    BY <2>3, CommitKeeps DEF Commit, Promise!topicVars
  <2>4. CASE Publish(r)
    <3>1. OutboxIInv' /\ relay[r].rows # <<>>
          /\ Len(mainTopic) + Len(relay[r].rows)
                 <= (Cardinality(Events) + MaxFailures) * BatchSize
      BY <2>4, PublishKeeps DEF Publish, Sendable
    <3>2. Promise!Arrive(relay[r].rows)
      BY <2>4, <3>1 DEF Publish, Promise!Arrive
    <3> QED
      BY <3>1, <3>2, PassIsAnArrival DEF Promise!TopicNext
  <2>5. CASE PublishFails(r) \/ RelayDies(r)
    <3>1. written' = written
      BY <2>5 DEF PublishFails, RelayDies
    <3>2. OutboxIInv'
      BY <2>5, FailedPassKeeps
    <3>3. CASE mainTopic' = mainTopic
      BY <3>1, <3>2, <3>3 DEF Promise!topicVars
    <3>4. CASE /\ mainTopic' = mainTopic \o relay[r].rows /\ relay[r].rows # <<>>
               /\ Len(mainTopic) + Len(relay[r].rows)
                      <= (Cardinality(Events) + MaxFailures) * BatchSize
      <4>1. Promise!Arrive(relay[r].rows)
        BY <3>1, <3>4 DEF Promise!Arrive
      <4> QED
        BY <3>2, <3>4, <4>1, PassIsAnArrival DEF Promise!TopicNext
    <3> QED
      BY <2>5, <3>3, <3>4, FailedPassKeeps
  <2> QED
    BY <2>1, <2>2, <2>3, <2>4, <2>5 DEF RelayPass
<1>4. CASE Beside
  BY <1>4, BesideKeeps DEF Beside, Promise!topicVars
<1> QED
  BY <1>1, <1>2, <1>3, <1>4 DEF Publishing

\* The invariant of the outbox orders the topic as its rows are dated.
LEMMA OutboxIsRight ==
    ASSUME OutboxIInv
    PROVE  OutboxTypeOK /\ PublishedReachedTopic /\ PublishedInOrder
<1> USE DEF OutboxIInv
<1>1. \A r \in Relays : relay[r].rows \in Seq(Events) /\ relay[r].sent \in BOOLEAN
  BY HeldRows
<1>2. OutboxTypeOK
  BY <1>1 DEF OutboxTypeOK, OutboxShape, PassesApart
<1>3. PublishedInOrder
  <2> SUFFICES ASSUME ~overlapped, NEW e \in OnTopic, NEW f \in OnTopic,
                      stamp[e] < stamp[f], <<e, f>> \notin late
               PROVE  Precedes(e, f, mainTopic)
    BY DEF PublishedInOrder
  <2>1. TopicIsPrefix
    BY DEF TopicInOrder
  <2>2. e \in Events /\ Ahead(e, f)
    BY MembersOf DEF OnTopic, OutboxShape, TopicWasWritten, Ahead
  <2> QED
    BY <2>1, <2>2 DEF TopicIsPrefix
<1> QED
  BY <1>2, <1>3

-----------------------------------------------------------------------------
(***************************************************************************)
(* The invariant of the check.                                             *)
(***************************************************************************)
\* What the provider has said of an attempt, and a session cannot take back.
Concluded(a, state) ==
    \/ state = "verified" /\ session[a] = "verified"
    \/ state = "rejected" /\ (session[a] = "rejected" \/ a \in retried)
    \/ state = "cancelled" /\ session[a] = "cancelled"

Notices == [attempt : Attempts \cup {NoAttempt}, says : VerificationStatus]

CheckShape ==
    /\ profile \in [kyc : VerificationStatus, payoutsEnabled : BOOLEAN]
    /\ attempt \in [Attempts -> VerificationStatus]
    /\ session \in [Attempts -> SessionState]
    /\ \A a \in Attempts : attempt[a] = "UNSTARTED" <=> session[a] = "none"
    /\ notice \in [Events -> Notices]
    /\ \A e \in Events : notice[e] = NoNotice <=> outbox[e] = "unwritten"
    /\ crossed \subseteq Attempts /\ closed \subseteq Attempts
    /\ retried \subseteq Attempts /\ untold \subseteq Attempts

Requests ==
    [task : Tasks \cup {"idle"}, attempt : Attempts \cup {NoAttempt}, state : SessionState,
     saw : VerificationStatus, hook : BOOLEAN, opened : SUBSET Events]

\* A request writes what the provider concluded of the attempt it saw pending.
HandlersHoldConcluded ==
    /\ handler \in [Handlers -> Requests]
    /\ \A h \in Handlers :
        /\ Doing(h, "idle") => handler[h] = Idle
        /\ handler[h].task \in {"close", "decide", "cancel"} =>
               /\ Of(h) \in Attempts /\ handler[h].saw = "PENDING"
               /\ attempt[Of(h)] # "UNSTARTED"
        /\ Doing(h, "cancel") => session[Of(h)] = "cancelled"
        /\ Doing(h, "decide") =>
               handler[h].state \in DOMAIN Verdict /\ Concluded(Of(h), handler[h].state)
        /\ handler[h].task \in {"tell", "commit"} =>
               Of(h) \in Attempts /\ handler[h].state \in DOMAIN Verdict

\* Only a request that is to commit a notice has a transaction open, of its own.
OpenedRight ==
    \A h \in Handlers :
        /\ handler[h].opened # {} => Doing(h, "commit")
        /\ \A e \in handler[h].opened : outbox[e] = "open"
        /\ \A g \in Handlers \ {h} : handler[g].opened \cap handler[h].opened = {}

WebhooksAreConcluded ==
    \A event \in webhooks :
        /\ event \in [attempt : Attempts, state : {"verified", "rejected", "cancelled"}]
        /\ Concluded(event.attempt, event.state)

\* A row says what the provider concluded, unless it was closed as dead.
RowsAsConcluded ==
    \A a \in Attempts :
        /\ attempt[a] = "VERIFIED" => session[a] = "verified"
        /\ attempt[a] = "REJECTED" =>
               a \in closed \cup retried \/ session[a] \in {"rejected", "cancelled"}

\* Of an attempt that was never overwritten there is one notice or one request
\* that will give it, and neither contradicts the row.
Telling(h, a) == Doing(h, "tell") /\ Of(h) = a
ToldOnce ==
    /\ \A e \in Events : notice[e].attempt \in Attempts \ crossed =>
           /\ attempt[notice[e].attempt] = notice[e].says
           /\ notice[e].says \in {"VERIFIED", "REJECTED"}
           /\ \A f \in Events : notice[f].attempt = notice[e].attempt => f = e
    /\ \A h \in Handlers : Doing(h, "tell") /\ Of(h) \in Attempts \ crossed =>
           /\ attempt[Of(h)] = Verdict[handler[h].state]
           /\ \A e \in Events : notice[e].attempt # Of(h)
           /\ \A g \in Handlers : Telling(g, Of(h)) => g = h

CheckIInv ==
    /\ CheckShape /\ HandlersHoldConcluded /\ OpenedRight /\ WebhooksAreConcluded
    /\ RowsAsConcluded /\ ToldOnce /\ GateHasDecision
-----------------------------------------------------------------------------
(***************************************************************************)
(* Steps that keep the rows.                                               *)
(***************************************************************************)
\* What a request may hold when it has read the rows and not yet written.
ReadRight(x) ==
    /\ x \in Requests /\ x.task \notin {"tell", "commit"} /\ x.opened = {}
    /\ x.task = "idle" => x = Idle
    /\ x.task \in {"close", "decide", "cancel"} =>
           x.attempt \in Attempts /\ x.saw = "PENDING" /\ attempt[x.attempt] # "UNSTARTED"
    /\ x.task = "cancel" => session[x.attempt] = "cancelled"
    /\ x.task = "decide" => x.state \in DOMAIN Verdict /\ Concluded(x.attempt, x.state)

\* A handler that only reads, and holds what it read, changes nothing the
\* invariant speaks of.
LEMMA ReadingKeeps ==
    ASSUME CheckIInv, NEW h \in Handlers, NEW x, ReadRight(x),
           handler' = [handler EXCEPT ![h] = x],
           UNCHANGED <<outbox, profile, attempt, session, notice, crossed, closed, retried>>,
           webhooks' \subseteq webhooks, untold' \subseteq Attempts
    PROVE  CheckIInv'
<1>1. CheckShape' /\ RowsAsConcluded' /\ GateHasDecision'
  BY DEF CheckIInv, CheckShape, RowsAsConcluded, GateHasDecision
<1>2. /\ handler \in [Handlers -> Requests] /\ handler' \in [Handlers -> Requests]
      /\ handler'[h] = x /\ \A g \in Handlers \ {h} : handler'[g] = handler[g]
  BY DEF CheckIInv, HandlersHoldConcluded, ReadRight
<1>3. HandlersHoldConcluded'
  <2> SUFFICES ASSUME NEW g \in Handlers
               PROVE  /\ Doing(g, "idle")' => handler'[g] = Idle
                      /\ handler'[g].task \in {"close", "decide", "cancel"} =>
                             /\ Of(g)' \in Attempts /\ handler'[g].saw = "PENDING"
                             /\ attempt'[Of(g)'] # "UNSTARTED"
                      /\ Doing(g, "cancel")' => session'[Of(g)'] = "cancelled"
                      /\ Doing(g, "decide")' => handler'[g].state \in DOMAIN Verdict
                             /\ Concluded(Of(g), handler[g].state)'
                      /\ handler'[g].task \in {"tell", "commit"} =>
                             Of(g)' \in Attempts /\ handler'[g].state \in DOMAIN Verdict
    BY <1>2 DEF HandlersHoldConcluded
  <2>1. CASE g = h
    BY <1>2, <2>1 DEF ReadRight, Doing, Of, Concluded
  <2>2. CASE g # h
    BY <1>2, <2>2 DEF CheckIInv, HandlersHoldConcluded, Doing, Of, Concluded
  <2> QED
    BY <2>1, <2>2
<1>4. WebhooksAreConcluded'
  BY DEF CheckIInv, WebhooksAreConcluded, Concluded
<1>6. OpenedRight'
  <2>1. x.opened = {}
    BY DEF ReadRight
  <2> QED
    BY <1>2, <2>1 DEF CheckIInv, OpenedRight, Doing
<1>5. ToldOnce'
  <2>1. x.task # "tell"
    BY DEF ReadRight
  <2>2. \A g \in Handlers : Doing(g, "tell")' => handler'[g] = handler[g] /\ Doing(g, "tell")
    BY <1>2, <2>1 DEF Doing
  <2> QED
    BY <2>2 DEF CheckIInv, ToldOnce, Telling, Doing, Of
<1> QED
  BY <1>1, <1>3, <1>4, <1>5, <1>6 DEF CheckIInv

\* The rows of a request that has to be careful with the pending attempts.
LEMMA NewestIsPending ==
    ASSUME CheckShape, Pending # {}
    PROVE  Newest \in Attempts /\ attempt[Newest] = "PENDING"
<1>1. /\ Pending \in SUBSET Nat /\ Pending \subseteq Attempts
      /\ \A a \in Pending : attempt[a] = "PENDING"
  BY DEF Pending, Attempts
<1>2. IsFiniteSet(Pending)
  <2>1. IsFiniteSet(Attempts)
    BY VerificationAssumption, FS_Interval DEF Attempts
  <2> QED
    BY <1>1, <2>1, FS_Subset
<1>3. \E m \in Pending : \A n \in Pending : n <= m
  BY <1>1, <1>2, GreatestOf
<1>4. Newest \in Pending
  BY <1>3 DEF Newest
<1> QED
  BY <1>1, <1>4

\* A request for a check looks for the attempt under way.
LEMMA StartKeeps ==
    ASSUME CheckIInv, NEW h \in Handlers, Start(h)
    PROVE  CheckIInv'
<1> DEFINE x == [task |-> "look", attempt |-> NoAttempt, state |-> "none", hook |-> FALSE,
                 saw |-> "UNSTARTED", opened |-> {}]
<1>1. handler' = [handler EXCEPT ![h] = x]
  BY DEF Start, Does
<1>2. ReadRight(x)
  BY DEF ReadRight, Requests, Tasks, SessionState, VerificationStatus
<1>3. untold \subseteq Attempts
  BY DEF CheckIInv, CheckShape
<1> HIDE DEF x
<1> QED
  BY <1>1, <1>2, <1>3, ReadingKeeps DEF Start, verificationRows, outboxVars

\* A request that is told where to go next.
LEMMA GoesOnTo ==
    ASSUME CheckIInv, NEW h \in Handlers, NEW task \in Tasks, NEW a \in Attempts \cup {NoAttempt},
           Goes(h, task, a)
    PROVE  \E x \in Requests :
               /\ handler' = [handler EXCEPT ![h] = x]
               /\ x.task = task /\ x.attempt = a
               /\ x.opened = handler[h].opened
               /\ a # NoAttempt => x.saw = attempt[a]
<1>1. handler \in [Handlers -> Requests] /\ attempt \in [Attempts -> VerificationStatus]
  BY DEF CheckIInv, HandlersHoldConcluded, CheckShape
<1> DEFINE x == [handler[h] EXCEPT !.task = task, !.attempt = a,
                                   !.saw = IF a = NoAttempt THEN @ ELSE attempt[a]]
<1>2. handler' = [handler EXCEPT ![h] = x]
  BY <1>1 DEF Goes
<1>3. x \in Requests
  BY <1>1 DEF Requests
<1>4. /\ x.task = task /\ x.attempt = a /\ x.opened = handler[h].opened
      /\ a # NoAttempt => x.saw = attempt[a]
  BY <1>1 DEF Requests
<1> HIDE DEF x
<1> QED
  BY <1>2, <1>3, <1>4

\* It asks the provider about it, or fails to.
LEMMA LookKeeps ==
    ASSUME CheckIInv, NEW h \in Handlers, Look(h) \/ LookFails(h)
    PROVE  CheckIInv'
<1>1. UNCHANGED <<outbox, profile, attempt, session, webhooks, notice, crossed, closed,
                  retried, untold>>
  BY DEF Look, LookFails, outboxVars, verificationRows
<1>2. untold \subseteq Attempts /\ handler[h].opened = {}
  BY DEF CheckIInv, CheckShape, OpenedRight, Look, LookFails, Doing
<1>3. CASE Goes(h, "create", NoAttempt)
  <2>1. PICK x \in Requests :
            handler' = [handler EXCEPT ![h] = x] /\ x.task = "create" /\ x.opened = {}
    BY <1>2, <1>3, GoesOnTo DEF Tasks
  <2>2. ReadRight(x)
    BY <2>1 DEF ReadRight
  <2> QED
    BY <1>1, <1>2, <2>1, <2>2, ReadingKeeps
<1>4. CASE Rests(h)
  <2>1. ReadRight(Idle)
    BY DEF ReadRight, Idle, Requests, NoAttempt, SessionState, VerificationStatus
  <2> QED
    BY <1>1, <1>2, <1>4, <2>1, ReadingKeeps DEF Rests
<1>5. CASE Pending # {} /\ Goes(h, "close", Newest)
  <2>1. Newest \in Attempts /\ attempt[Newest] = "PENDING" /\ Newest # NoAttempt
    BY <1>5, NewestIsPending, VerificationAssumption DEF CheckIInv, Attempts, NoAttempt
  <2>2. PICK a : a = Newest
    OBVIOUS
  <2>3. PICK x \in Requests :
            /\ handler' = [handler EXCEPT ![h] = x]
            /\ x.task = "close" /\ x.attempt = a /\ x.saw = attempt[a] /\ x.opened = {}
    BY <1>2, <1>5, <2>1, <2>2, GoesOnTo DEF Tasks
  <2>4. ReadRight(x)
    BY <2>1, <2>2, <2>3 DEF ReadRight
  <2> QED
    BY <1>1, <1>2, <2>3, <2>4, ReadingKeeps
<1> QED
  BY <1>3, <1>4, <1>5 DEF Look, LookFails
\* A request that goes to apply what the provider says of a pending attempt.
LEMMA AppliesRight ==
    ASSUME CheckIInv, NEW h \in Handlers, NEW task \in {"decide", "cancel"},
           NEW a \in Attempts, NEW state \in {"verified", "rejected", "cancelled"},
           NEW hook \in BOOLEAN, Does(h, task, a, state, hook),
           attempt[a] = "PENDING", Concluded(a, state), task = "cancel" <=> state = "cancelled"
    PROVE  \E x : ReadRight(x) /\ handler' = [handler EXCEPT ![h] = x]
<1> DEFINE x == [task |-> task, attempt |-> a, state |-> state, hook |-> hook,
                 saw |-> "PENDING", opened |-> {}]
<1>1. a # NoAttempt
  BY VerificationAssumption DEF Attempts, NoAttempt
<1>2. handler' = [handler EXCEPT ![h] = x]
  BY <1>1 DEF Does
<1>3. ReadRight(x)
  BY DEF ReadRight, Requests, Tasks, SessionState, VerificationStatus, Verdict, Concluded
<1> HIDE DEF x
<1> QED
  BY <1>2, <1>3

\* A poll that learns the outcome.
LEMMA PollKeeps ==
    ASSUME CheckIInv, NEW h \in Handlers, NEW a \in Attempts, Poll(h, a)
    PROVE  CheckIInv'
<1>1. /\ attempt[a] = "PENDING" /\ session[a] \in {"verified", "rejected"}
      /\ Does(h, "decide", a, session[a], FALSE)
      /\ UNCHANGED <<outbox, profile, attempt, session, webhooks, notice, crossed, closed,
                     retried, untold>>
  <2>1. session[a] \in {"verified", "rejected"} /\ Decided[session[a]] = session[a]
    BY DEF Poll, Decided
  <2>2. Does(h, "decide", a, session[a], FALSE)
    BY <2>1 DEF Poll
  <2> QED
    BY <2>1, <2>2 DEF Poll, Undecided, verificationRows, outboxVars
<1>2. PICK state \in {"verified", "rejected"} : state = session[a]
  BY <1>1
<1>3. \E x : ReadRight(x) /\ handler' = [handler EXCEPT ![h] = x]
  BY <1>1, <1>2, AppliesRight DEF Concluded
<1>4. untold \subseteq Attempts
  BY DEF CheckIInv, CheckShape
<1> QED
  BY <1>1, <1>3, <1>4, ReadingKeeps

\* A webhook that brings it.
LEMMA DeliverKeeps ==
    ASSUME CheckIInv, NEW h \in Handlers, NEW event, Deliver(h, event)
    PROVE  CheckIInv'
<1>1. /\ event \in webhooks /\ handler[h] = Idle
      /\ UNCHANGED <<outbox, profile, attempt, session, notice, crossed, closed, retried, untold>>
  BY DEF Deliver, outboxVars
<1>2. untold \subseteq Attempts
  BY DEF CheckIInv, CheckShape
<1>3. CASE Undecided(event.attempt)
  <2>1. PICK a \in Attempts, state \in {"verified", "rejected", "cancelled"} :
            a = event.attempt /\ state = event.state /\ Concluded(a, state)
    BY <1>1 DEF CheckIInv, WebhooksAreConcluded
  <2>2. PICK task \in {"decide", "cancel"} :
            /\ task = IF state = "cancelled" THEN "cancel" ELSE "decide"
            /\ Does(h, task, a, state, TRUE)
    BY <1>3, <2>1 DEF Deliver
  <2>3. attempt[a] = "PENDING" /\ webhooks' \subseteq webhooks
    BY <1>3, <2>1 DEF Undecided, Deliver, LeftWhileApplied
  <2>4. \E x : ReadRight(x) /\ handler' = [handler EXCEPT ![h] = x]
    BY <2>1, <2>2, <2>3, AppliesRight
  <2> QED
    BY <1>1, <1>2, <2>3, <2>4, ReadingKeeps
<1>4. CASE ~Undecided(event.attempt)
  <2>1. ReadRight(Idle)
    BY DEF ReadRight, Idle, Requests, NoAttempt, SessionState, VerificationStatus
  <2>2. webhooks' \subseteq webhooks /\ handler' = handler
    BY <1>4 DEF Deliver
  <2>3. handler' = [handler EXCEPT ![h] = Idle]
    BY <1>1, <2>2 DEF CheckIInv, HandlersHoldConcluded
  <2> QED
    BY <1>1, <1>2, <2>1, <2>2, <2>3, ReadingKeeps
<1> QED
  BY <1>3, <1>4

\* A handler that dies, and what its transaction wrote.
LEMMA DiesKeeps ==
    ASSUME CheckIInv, OutboxIInv, NEW h \in Handlers, Dies(h)
    PROVE  CheckIInv' /\ Beside
<1>1. PICK rows \in SUBSET Events : rows = handler[h].opened /\ \A e \in rows : outbox[e] = "open"
  BY DEF CheckIInv, HandlersHoldConcluded, Requests, OpenedRight
<1>2. /\ handler' = [handler EXCEPT ![h] = Idle] /\ webhooks' \subseteq webhooks
      /\ outbox' = [e \in Events |-> IF e \in rows THEN "unwritten" ELSE outbox[e]]
      /\ stamp' = [e \in Events |-> IF e \in rows THEN 0 ELSE stamp[e]]
      /\ notice' = [e \in Events |-> IF e \in rows THEN NoNotice ELSE notice[e]]
      /\ Fails
      /\ UNCHANGED <<written, now, relay, mainTopic, overlapped, late, profile, attempt,
                     session, crossed, closed, retried>>
  BY <1>1 DEF Dies, Rests, RollsBack, Answered
<1>3. untold' \subseteq Attempts
  BY DEF Dies, CheckIInv, CheckShape, HandlersHoldConcluded
<1>4. Idle \in Requests /\ Idle.task = "idle" /\ Idle.opened = {}
  BY DEF Idle, Requests, NoAttempt, SessionState, VerificationStatus
<1>5. /\ handler \in [Handlers -> Requests] /\ handler' \in [Handlers -> Requests]
      /\ handler'[h] = Idle /\ \A g \in Handlers \ {h} : handler'[g] = handler[g]
  BY <1>2, <1>4 DEF CheckIInv, HandlersHoldConcluded
<1>6. NoNotice \in Notices /\ NoNotice.attempt \notin Attempts
  BY VerificationAssumption DEF NoNotice, Notices, NoAttempt, Attempts, VerificationStatus
<1>7. CheckShape'
  BY <1>1, <1>2, <1>3, <1>6 DEF CheckIInv, CheckShape
<1>8. HandlersHoldConcluded'
  <2> SUFFICES ASSUME NEW g \in Handlers
               PROVE  /\ Doing(g, "idle")' => handler'[g] = Idle
                      /\ handler'[g].task \in {"close", "decide", "cancel"} =>
                             /\ Of(g)' \in Attempts /\ handler'[g].saw = "PENDING"
                             /\ attempt'[Of(g)'] # "UNSTARTED"
                      /\ Doing(g, "cancel")' => session'[Of(g)'] = "cancelled"
                      /\ Doing(g, "decide")' => handler'[g].state \in DOMAIN Verdict
                             /\ Concluded(Of(g), handler[g].state)'
                      /\ handler'[g].task \in {"tell", "commit"} =>
                             Of(g)' \in Attempts /\ handler'[g].state \in DOMAIN Verdict
    BY <1>5 DEF HandlersHoldConcluded
  <2>1. CASE g = h
    BY <1>4, <1>5, <2>1 DEF Doing
  <2>2. CASE g # h
    BY <1>2, <1>5, <2>2 DEF CheckIInv, HandlersHoldConcluded, Doing, Of, Concluded
  <2> QED
    BY <2>1, <2>2
<1>9. OpenedRight'
  <2> SUFFICES ASSUME NEW g \in Handlers
               PROVE  /\ handler'[g].opened # {} => handler'[g].task = "commit"
                      /\ \A e \in handler'[g].opened : outbox'[e] = "open"
                      /\ \A k \in Handlers \ {g} : handler'[k].opened \cap handler'[g].opened = {}
    BY DEF OpenedRight, Doing
  <2>1. CASE g = h
    BY <1>4, <1>5, <2>1
  <2>2. CASE g # h
    <3>1. handler'[g] = handler[g] /\ handler[g].opened \in SUBSET Events
      BY <1>5, <2>2 DEF Requests
    <3>2. handler[g].opened \cap rows = {} /\ \A e \in handler[g].opened : outbox[e] = "open"
      BY <1>1, <2>2 DEF CheckIInv, OpenedRight
    <3>3. \A e \in handler[g].opened : outbox'[e] = "open"
      BY <1>2, <3>1, <3>2
    <3> QED
      BY <1>4, <1>5, <2>2, <3>1, <3>3 DEF CheckIInv, OpenedRight, Doing
  <2> QED
    BY <2>1, <2>2
<1>10. WebhooksAreConcluded' /\ RowsAsConcluded' /\ GateHasDecision'
  BY <1>2 DEF CheckIInv, WebhooksAreConcluded, RowsAsConcluded, GateHasDecision, Concluded
<1>11. ToldOnce'
  <2>1. \A e \in Events : notice'[e].attempt \in Attempts => notice'[e] = notice[e]
    BY <1>2, <1>6
  <2>2. \A e \in Events : notice'[e].attempt = notice[e].attempt \/ notice'[e].attempt \notin Attempts
    BY <2>1, <1>2, <1>6
  <2>3. \A g \in Handlers : handler'[g].task = "tell" => handler'[g] = handler[g]
    BY <1>4, <1>5
  <2> QED
    BY <1>2, <2>1, <2>2, <2>3 DEF CheckIInv, ToldOnce, Telling, Doing, Of
<1>12. Beside
  <2>1. outbox \in [Events -> RowState] /\ stamp \in [Events -> 0..now] /\ now \in Nat
    BY DEF OutboxIInv, OutboxShape
  <2>2. stamp' \in [Events -> 0..now']
    BY <1>2, <2>1
  <2>3. \A e \in Events : IF Committed(e) THEN outbox'[e] = outbox[e] /\ stamp'[e] = stamp[e]
                          ELSE ~Committed(e)'
    BY <1>1, <1>2 DEF Committed
  <2> QED
    BY <1>2, <2>1, <2>2, <2>3 DEF Beside, RowState
<1> QED
  BY <1>7, <1>8, <1>9, <1>10, <1>11, <1>12 DEF CheckIInv

-----------------------------------------------------------------------------
(***************************************************************************)
(* Steps that write the rows.                                              *)
(***************************************************************************)
\* A request that has seen an attempt pending writes what was concluded of it,
\* whatever was written meanwhile.
LEMMA WritingKeeps ==
    ASSUME CheckIInv, NEW h \in Handlers, NEW status \in {"VERIFIED", "REJECTED"},
           handler[h].task \in {"close", "decide", "cancel"}, Writes(h, status),
           NEW x \in Requests, handler' = [handler EXCEPT ![h] = x], x.opened = {},
           \/ x = Idle \/ x.task = "create"
           \/ /\ x.task = "tell" /\ x.attempt = Of(h)
              /\ x.state \in DOMAIN Verdict /\ status = Verdict[x.state],
           UNCHANGED <<outbox, session, notice, retried, untold>>,
           closed \subseteq closed', closed' \subseteq Attempts, webhooks' \subseteq webhooks,
           profile' \in [kyc : VerificationStatus, payoutsEnabled : BOOLEAN],
           profile'.payoutsEnabled => profile.payoutsEnabled \/ status = "VERIFIED",
           status = "VERIFIED" => session[Of(h)] = "verified",
           status = "REJECTED" => \/ Of(h) \in closed' \cup retried
                                  \/ session[Of(h)] \in {"rejected", "cancelled"}
    PROVE  CheckIInv'
<1>1. PICK a \in Attempts : a = Of(h) /\ handler[h].saw = "PENDING" /\ attempt[a] # "UNSTARTED"
  BY DEF CheckIInv, HandlersHoldConcluded
<1>2. /\ attempt' = [attempt EXCEPT ![a] = status]
      /\ crossed' = IF attempt[a] = "PENDING" THEN crossed ELSE crossed \cup {a}
  BY <1>1 DEF Writes
<1>3. /\ attempt \in [Attempts -> VerificationStatus]
      /\ attempt' \in [Attempts -> VerificationStatus]
      /\ attempt'[a] = status /\ \A b \in Attempts \ {a} : attempt'[b] = attempt[b]
      /\ \A b \in Attempts : attempt'[b] = "UNSTARTED" <=> attempt[b] = "UNSTARTED"
  BY <1>1, <1>2 DEF CheckIInv, CheckShape, VerificationStatus
<1>4. /\ handler \in [Handlers -> Requests] /\ handler' \in [Handlers -> Requests]
      /\ handler'[h] = x /\ \A g \in Handlers \ {h} : handler'[g] = handler[g]
  BY DEF CheckIInv, HandlersHoldConcluded
<1>5. CheckShape'
  BY <1>1, <1>2, <1>3 DEF CheckIInv, CheckShape
<1>6. HandlersHoldConcluded'
  <2> SUFFICES ASSUME NEW g \in Handlers
               PROVE  /\ Doing(g, "idle")' => handler'[g] = Idle
                      /\ handler'[g].task \in {"close", "decide", "cancel"} =>
                             /\ Of(g)' \in Attempts /\ handler'[g].saw = "PENDING"
                             /\ attempt'[Of(g)'] # "UNSTARTED"
                      /\ Doing(g, "cancel")' => session'[Of(g)'] = "cancelled"
                      /\ Doing(g, "decide")' => handler'[g].state \in DOMAIN Verdict
                             /\ Concluded(Of(g), handler[g].state)'
                      /\ handler'[g].task \in {"tell", "commit"} =>
                             Of(g)' \in Attempts /\ handler'[g].state \in DOMAIN Verdict
    BY <1>4 DEF HandlersHoldConcluded
  <2>1. CASE g = h
    BY <1>1, <1>4, <2>1 DEF Doing, Of, Concluded, Idle
  <2>2. CASE g # h
    BY <1>3, <1>4, <2>2 DEF CheckIInv, HandlersHoldConcluded, Doing, Of, Concluded
  <2> QED
    BY <2>1, <2>2
<1>11. OpenedRight'
  BY <1>4 DEF CheckIInv, OpenedRight, Doing
<1>7. WebhooksAreConcluded'
  BY DEF CheckIInv, WebhooksAreConcluded, Concluded
<1>8. RowsAsConcluded'
  BY <1>1, <1>3 DEF CheckIInv, RowsAsConcluded
<1>9. GateHasDecision'
  <2> SUFFICES ASSUME profile'.payoutsEnabled, crossed' = {}
               PROVE  \E b \in Attempts : attempt'[b] = "VERIFIED"
    BY DEF GateHasDecision
  <2>1. attempt[a] = "PENDING" /\ crossed = {}
    BY <1>2
  <2>2. CASE status = "VERIFIED"
    BY <1>3, <2>2
  <2>3. CASE profile.payoutsEnabled
    <3>1. PICK b \in Attempts : attempt[b] = "VERIFIED"
      BY <2>1, <2>3 DEF CheckIInv, GateHasDecision
    <3>2. attempt'[b] = "VERIFIED"
      BY <1>3, <2>1, <3>1
    <3> QED
      BY <3>2
  <2> QED
    BY <2>2, <2>3
<1>10. ToldOnce'
  <2>1. ASSUME NEW e \in Events, notice[e].attempt \in Attempts \ crossed'
        PROVE  /\ attempt'[notice[e].attempt] = notice[e].says
               /\ notice[e].says \in {"VERIFIED", "REJECTED"}
               /\ \A f \in Events : notice[f].attempt = notice[e].attempt => f = e
               /\ notice[e].attempt # a
    <3>1. /\ attempt[notice[e].attempt] = notice[e].says
          /\ notice[e].says \in {"VERIFIED", "REJECTED"}
          /\ \A f \in Events : notice[f].attempt = notice[e].attempt => f = e
      BY <1>2, <2>1 DEF CheckIInv, ToldOnce
    <3>2. notice[e].attempt # a
      BY <1>2, <2>1, <3>1
    <3> QED
      BY <1>3, <2>1, <3>1, <3>2
  <2>2. ASSUME NEW g \in Handlers, handler[g].task = "tell",
               handler[g].attempt \in Attempts \ crossed'
        PROVE  /\ attempt'[handler[g].attempt] = Verdict[handler[g].state]
               /\ \A e \in Events : notice[e].attempt # handler[g].attempt
               /\ \A k \in Handlers :
                      handler[k].task = "tell" /\ handler[k].attempt = handler[g].attempt => k = g
               /\ handler[g].attempt # a
    <3>1. /\ attempt[handler[g].attempt] = Verdict[handler[g].state]
          /\ \A e \in Events : notice[e].attempt # handler[g].attempt
          /\ \A k \in Handlers :
                 handler[k].task = "tell" /\ handler[k].attempt = handler[g].attempt => k = g
      BY <1>2, <2>2 DEF CheckIInv, ToldOnce, Telling, Doing, Of
    <3>2. Verdict[handler[g].state] # "PENDING"
      BY <2>2 DEF CheckIInv, HandlersHoldConcluded, Doing, Verdict
    <3>3. handler[g].attempt # a
      BY <1>2, <2>2, <3>1, <3>2
    <3> QED
      BY <1>3, <2>2, <3>1, <3>3
  <2>3. handler[h].task # "tell" /\ Idle.task # "tell"
    BY DEF Idle
  <2>4. ASSUME NEW g \in Handlers, handler'[g].task = "tell",
               handler'[g].attempt \in Attempts \ crossed'
        PROVE  /\ attempt'[handler'[g].attempt] = Verdict[handler'[g].state]
               /\ \A e \in Events : notice[e].attempt # handler'[g].attempt
               /\ \A k \in Handlers :
                      handler'[k].task = "tell" /\ handler'[k].attempt = handler'[g].attempt => k = g
    <3>1. CASE g = h
      <4>1. x.task = "tell" /\ x.attempt = a /\ a \notin crossed' /\ status = Verdict[x.state]
        BY <1>1, <1>4, <2>3, <2>4, <3>1
      <4>2. \A e \in Events : notice[e].attempt # a
        BY <2>1, <4>1
      <4>3. \A k \in Handlers \ {h} : ~(handler'[k].task = "tell" /\ handler'[k].attempt = a)
        BY <1>4, <2>2, <4>1
      <4> QED
        BY <1>3, <1>4, <3>1, <4>1, <4>2, <4>3
    <3>2. CASE g # h
      <4>1. handler'[g] = handler[g]
        BY <1>4, <3>2
      <4>2. handler[g].attempt # a
        BY <2>2, <2>4, <4>1
      <4>3. ~(handler'[h].task = "tell" /\ handler'[h].attempt = handler[g].attempt)
        BY <1>1, <1>4, <2>3, <4>2
      <4> QED
        BY <1>4, <2>2, <2>4, <4>1, <4>3
    <3> QED
      BY <3>1, <3>2
  <2> QED
    BY <2>1, <2>4 DEF ToldOnce, Telling, Doing, Of
<1> QED
  BY <1>5, <1>6, <1>7, <1>8, <1>9, <1>10, <1>11 DEF CheckIInv

\* Closing an attempt whose session is dead.
LEMMA CloseKeeps ==
    ASSUME CheckIInv, NEW h \in Handlers, Close(h)
    PROVE  CheckIInv'
<1> DEFINE x == [Idle EXCEPT !.task = "create"]
<1>1. /\ handler[h].task = "close" /\ handler' = [handler EXCEPT ![h] = x]
      /\ Writes(h, "REJECTED") /\ closed' = closed \cup {Of(h)}
      /\ UNCHANGED <<outbox, profile, session, webhooks, notice, retried, untold>>
  BY DEF Close, Doing, outboxVars
<1>2. x \in Requests /\ x.task = "create" /\ x.opened = {}
  BY DEF Idle, Requests, NoAttempt, Tasks, SessionState, VerificationStatus
<1>3. Of(h) \in Attempts /\ closed \subseteq Attempts
      /\ profile \in [kyc : VerificationStatus, payoutsEnabled : BOOLEAN]
  BY <1>1 DEF CheckIInv, CheckShape, HandlersHoldConcluded
<1> HIDE DEF x
<1> QED
  BY <1>1, <1>2, <1>3, WritingKeeps

\* Cancelling an attempt.
LEMMA CancelKeeps ==
    ASSUME CheckIInv, NEW h \in Handlers, Cancel(h)
    PROVE  CheckIInv'
<1>1. /\ handler[h].task = "cancel" /\ handler' = [handler EXCEPT ![h] = Idle]
      /\ Writes(h, "REJECTED") /\ profile' = [profile EXCEPT !.kyc = "UNSTARTED"]
      /\ UNCHANGED <<outbox, session, notice, closed, retried, untold>>
      /\ webhooks' \subseteq webhooks
  BY DEF Cancel, Doing, Rests, Answered, Cancelled, outboxVars
<1>2. Idle \in Requests /\ Idle.opened = {}
  BY DEF Idle, Requests, NoAttempt, SessionState, VerificationStatus
<1>3. /\ session[Of(h)] = "cancelled" /\ closed \subseteq Attempts
      /\ profile \in [kyc : VerificationStatus, payoutsEnabled : BOOLEAN]
  BY <1>1 DEF CheckIInv, CheckShape, HandlersHoldConcluded, Doing
<1>4. /\ profile' \in [kyc : VerificationStatus, payoutsEnabled : BOOLEAN]
      /\ profile'.payoutsEnabled => profile.payoutsEnabled
  BY <1>1, <1>3 DEF VerificationStatus
<1> QED
  BY <1>1, <1>2, <1>3, <1>4, WritingKeeps

\* Writing a decision.
LEMMA DecideKeeps ==
    ASSUME CheckIInv, NEW h \in Handlers, Decide(h)
    PROVE  CheckIInv'
<1> DEFINE x == [handler[h] EXCEPT !.task = "tell"]
<1>1. /\ handler[h] \in Requests /\ handler[h].task = "decide"
      /\ handler[h].state \in {"verified", "rejected"} /\ Concluded(Of(h), handler[h].state)
      /\ closed \subseteq Attempts /\ handler[h].opened = {}
  BY DEF Decide, Doing, CheckIInv, CheckShape, HandlersHoldConcluded, OpenedRight, Verdict
<1>2. PICK status \in {"VERIFIED", "REJECTED"} : status = Verdict[handler[h].state]
  BY <1>1 DEF Verdict
<1>3. /\ Writes(h, status) /\ profile' = [kyc |-> status, payoutsEnabled |-> Opens(status)]
      /\ UNCHANGED <<outbox, session, webhooks, notice, closed, retried, untold>>
  BY <1>2 DEF Decide, outboxVars
<1>4. handler' = [handler EXCEPT ![h] = x]
  BY DEF Decide, CheckIInv, HandlersHoldConcluded
<1>5. /\ x \in Requests /\ x.task = "tell" /\ x.attempt = Of(h) /\ x.state = handler[h].state
      /\ x.opened = {}
  BY <1>1 DEF Requests, Tasks, Of
<1>6. /\ profile' \in [kyc : VerificationStatus, payoutsEnabled : BOOLEAN]
      /\ profile'.payoutsEnabled => status = "VERIFIED"
  BY <1>3 DEF VerificationStatus, Opens
<1>7. /\ status = "VERIFIED" => session[Of(h)] = "verified"
      /\ status = "REJECTED" => Of(h) \in closed' \cup retried
                                \/ session[Of(h)] \in {"rejected", "cancelled"}
      /\ x.state \in DOMAIN Verdict
  BY <1>1, <1>2, <1>5 DEF Verdict, Concluded
<1> HIDE DEF x
<1> QED
  BY <1>1, <1>2, <1>3, <1>4, <1>5, <1>6, <1>7, WritingKeeps

\* A new attempt takes the first row that was not begun.
LEMMA CreateKeeps ==
    ASSUME CheckIInv, NEW h \in Handlers, Create(h)
    PROVE  CheckIInv'
<1>1. /\ handler' = [handler EXCEPT ![h] = Idle]
      /\ UNCHANGED <<outbox, webhooks, notice, crossed, closed, retried, untold>>
  BY DEF Create, Rests, outboxVars
<1>2. ReadRight(Idle)
  BY DEF ReadRight, Idle, Requests, NoAttempt, SessionState, VerificationStatus
<1>3. untold \subseteq Attempts
  BY DEF CheckIInv, CheckShape
<1>4. CASE Unmade = {}
  <2>1. UNCHANGED <<attempt, session, profile>>
    BY <1>4 DEF Create
  <2> QED
    BY <1>1, <1>2, <1>3, <2>1, ReadingKeeps
<1>5. CASE Unmade # {}
  <2>1. PICK a \in Unmade : a = CHOOSE n \in Unmade : \A m \in Unmade : n <= m
    <3>1. Unmade \in SUBSET Nat
      BY DEF Unmade, Attempts
    <3>2. \E n \in Unmade : \A m \in Unmade : n <= m
      BY <1>5, <3>1, LeastOf
    <3> QED
      BY <3>2
  <2>2. /\ attempt' = [attempt EXCEPT ![a] = "PENDING"]
        /\ session' = [session EXCEPT ![a] = "open"]
        /\ profile' = [profile EXCEPT !.kyc = "PENDING"]
    BY <1>5, <2>1 DEF Create
  <2>3. a \in Attempts /\ attempt[a] = "UNSTARTED" /\ session[a] = "none"
    BY <2>1 DEF Unmade, CheckIInv, CheckShape
  <2>4. /\ attempt' \in [Attempts -> VerificationStatus]
        /\ session' \in [Attempts -> SessionState]
        /\ attempt'[a] = "PENDING" /\ session'[a] = "open"
        /\ \A b \in Attempts \ {a} : attempt'[b] = attempt[b] /\ session'[b] = session[b]
    BY <2>2, <2>3 DEF CheckIInv, CheckShape, VerificationStatus, SessionState
  <2>5. /\ profile' \in [kyc : VerificationStatus, payoutsEnabled : BOOLEAN]
        /\ profile'.payoutsEnabled = profile.payoutsEnabled
    BY <2>2 DEF CheckIInv, CheckShape, VerificationStatus
  <2>6. CheckShape'
    BY <1>1, <2>3, <2>4, <2>5 DEF CheckIInv, CheckShape
  <2>7. /\ handler \in [Handlers -> Requests] /\ handler' \in [Handlers -> Requests]
        /\ handler'[h] = Idle /\ \A g \in Handlers \ {h} : handler'[g] = handler[g]
    BY <1>1, <1>2 DEF CheckIInv, HandlersHoldConcluded, ReadRight
  <2>8. \A b \in Attempts : \A state \in {"verified", "rejected", "cancelled"} :
            Concluded(b, state) =>
                \/ state = "verified" /\ session'[b] = "verified"
                \/ state = "rejected" /\ (session'[b] = "rejected" \/ b \in retried')
                \/ state = "cancelled" /\ session'[b] = "cancelled"
    BY <1>1, <2>3, <2>4 DEF Concluded
  <2>9. HandlersHoldConcluded'
    <3> SUFFICES ASSUME NEW g \in Handlers
                 PROVE  /\ Doing(g, "idle")' => handler'[g] = Idle
                        /\ handler'[g].task \in {"close", "decide", "cancel"} =>
                               /\ Of(g)' \in Attempts /\ handler'[g].saw = "PENDING"
                               /\ attempt'[Of(g)'] # "UNSTARTED"
                        /\ Doing(g, "cancel")' => session'[Of(g)'] = "cancelled"
                        /\ Doing(g, "decide")' => handler'[g].state \in DOMAIN Verdict
                               /\ Concluded(Of(g), handler[g].state)'
                        /\ handler'[g].task \in {"tell", "commit"} =>
                               Of(g)' \in Attempts /\ handler'[g].state \in DOMAIN Verdict
      BY <2>7 DEF HandlersHoldConcluded
    <3>1. CASE g = h
      BY <2>7, <3>1 DEF Doing, Idle
    <3>2. CASE g # h
      BY <1>1, <2>3, <2>4, <2>7, <3>2
      DEF CheckIInv, HandlersHoldConcluded, Doing, Of, Concluded
    <3> QED
      BY <3>1, <3>2
  <2>14. OpenedRight'
    BY <1>1, <2>7 DEF CheckIInv, OpenedRight, Doing, Idle
  <2>10. WebhooksAreConcluded'
    BY <1>1, <2>8 DEF CheckIInv, WebhooksAreConcluded, Concluded
  <2>11. RowsAsConcluded'
    BY <1>1, <2>3, <2>4 DEF CheckIInv, RowsAsConcluded
  <2>12. GateHasDecision'
    BY <1>1, <2>3, <2>4, <2>5 DEF CheckIInv, GateHasDecision
  <2>13. ToldOnce'
    <3>1. \A g \in Handlers : handler'[g].task = "tell" => handler'[g] = handler[g]
      BY <2>7 DEF Idle
    <3>2. \A e \in Events : notice[e].attempt \in Attempts \ crossed => notice[e].attempt # a
      BY <2>3 DEF CheckIInv, ToldOnce
    <3>3. \A g \in Handlers : Doing(g, "tell") /\ Of(g) \in Attempts \ crossed => Of(g) # a
      BY <2>3 DEF CheckIInv, ToldOnce, HandlersHoldConcluded, Verdict, Doing
    <3> QED
      BY <1>1, <2>4, <3>1, <3>2, <3>3 DEF CheckIInv, ToldOnce, Telling, Doing, Of
  <2> QED
    BY <2>6, <2>9, <2>10, <2>11, <2>12, <2>13, <2>14 DEF CheckIInv
<1> QED
  BY <1>4, <1>5

\* The provider concludes, and never takes back.
LEMMA ConcludesKeeps ==
    ASSUME CheckIInv, NEW a \in Attempts, NEW state \in SessionState, Concludes(a, state)
    PROVE  CheckIInv'
<1>1. /\ state \in {"verified", "rejected", "cancelled"}
      /\ session[a] = "open" \/ (session[a] = "rejected" /\ state = "verified")
      /\ session' = [session EXCEPT ![a] = state]
      /\ webhooks' = webhooks \cup {[attempt |-> a, state |-> state]}
      /\ retried' = IF session[a] = "rejected" THEN retried \cup {a} ELSE retried
      /\ UNCHANGED <<outbox, profile, attempt, handler, notice, crossed, closed, untold>>
  BY DEF Concludes, outboxVars
<1>2. /\ session' \in [Attempts -> SessionState] /\ session'[a] = state
      /\ \A b \in Attempts \ {a} : session'[b] = session[b]
      /\ retried \subseteq retried' /\ retried' \subseteq Attempts
  BY <1>1 DEF CheckIInv, CheckShape
<1>3. CheckShape'
  BY <1>1, <1>2 DEF CheckIInv, CheckShape
<1>4. ASSUME NEW b \in Attempts, NEW said, Concluded(b, said)
      PROVE  \/ said = "verified" /\ session'[b] = "verified"
             \/ said = "rejected" /\ (session'[b] = "rejected" \/ b \in retried')
             \/ said = "cancelled" /\ session'[b] = "cancelled"
  BY <1>1, <1>2, <1>4 DEF Concluded
<1>5. HandlersHoldConcluded'
  BY <1>1, <1>2 DEF CheckIInv, HandlersHoldConcluded, Doing, Of, Concluded
<1>10. OpenedRight'
  BY <1>1 DEF CheckIInv, OpenedRight, Doing
<1>6. WebhooksAreConcluded'
  BY <1>1, <1>2, <1>4 DEF CheckIInv, WebhooksAreConcluded, Concluded
<1>7. RowsAsConcluded'
  BY <1>1, <1>2 DEF CheckIInv, RowsAsConcluded
<1>8. GateHasDecision'
  BY <1>1 DEF CheckIInv, GateHasDecision
<1>9. ToldOnce'
  BY <1>1 DEF CheckIInv, ToldOnce, Telling, Doing, Of
<1> QED
  BY <1>3, <1>5, <1>6, <1>7, <1>8, <1>9, <1>10 DEF CheckIInv
-----------------------------------------------------------------------------
(***************************************************************************)
(* The outbox below the check.                                             *)
(***************************************************************************)
\* Relays and retention begin no transaction, and end none.
LEMMA PublishingKeeps ==
    ASSUME CheckIInv, OutboxIInv, Publishing, UNCHANGED verificationVars
    PROVE  CheckIInv'
<1>1. \A e \in Events :
          /\ outbox'[e] = "unwritten" <=> outbox[e] = "unwritten"
          /\ outbox'[e] = "open" <=> outbox[e] = "open"
  <2>1. CASE \E e \in Events : Prune(e)
    BY <2>1 DEF Prune, Prunable, OutboxIInv, OutboxShape
  <2>2. ASSUME NEW r \in Relays, Commit(r)
        PROVE  \A e \in Events :
                   /\ outbox'[e] = "unwritten" <=> outbox[e] = "unwritten"
                   /\ outbox'[e] = "open" <=> outbox[e] = "open"
    <3>1. \A e \in LockedBy(r) : outbox[e] = "owed"
      BY DEF LockedBy, OutboxIInv, PassesHoldOwed
    <3> QED
      BY <2>2, <3>1 DEF Commit
  <2>3. ASSUME NEW r \in Relays, ClaimRows(r) \/ Publish(r) \/ PublishFails(r) \/ RelayDies(r)
        PROVE  outbox' = outbox
    BY <2>3 DEF ClaimRows, Publish, PublishFails, RelayDies
  <2> QED
    BY <2>1, <2>2, <2>3 DEF Publishing, RelayPass
<1>2. UNCHANGED <<profile, attempt, session, webhooks, notice, handler, crossed, closed,
                  retried, untold>>
  BY DEF verificationVars, verificationRows
<1>3. CheckShape' /\ RowsAsConcluded' /\ GateHasDecision'
  BY <1>1, <1>2 DEF CheckIInv, CheckShape, RowsAsConcluded, GateHasDecision
<1>4. HandlersHoldConcluded' /\ WebhooksAreConcluded'
  BY <1>2 DEF CheckIInv, HandlersHoldConcluded, WebhooksAreConcluded, Doing, Of, Concluded
<1>5. ToldOnce'
  BY <1>2 DEF CheckIInv, ToldOnce, Telling, Doing, Of
<1>6. OpenedRight'
  <2>1. \A h \in Handlers : handler[h].opened \subseteq Events
    BY DEF CheckIInv, HandlersHoldConcluded, Requests
  <2> QED
    BY <1>1, <1>2, <2>1 DEF CheckIInv, OpenedRight, Doing
<1> QED
  BY <1>3, <1>4, <1>5, <1>6 DEF CheckIInv

\* Nothing at all is beside what has committed, and so is a transaction begun.
LEMMA NothingIsBeside ==
    ASSUME OutboxIInv, UNCHANGED outboxVars
    PROVE  Beside
  BY DEF OutboxIInv, OutboxShape, outboxVars, datings, Beside, Committed

LEMMA BeginsBeside ==
    ASSUME OutboxIInv, NEW e \in Events, BeginEvent(e)
    PROVE  Beside
<1>1. /\ outbox[e] = "unwritten" /\ outbox' = [outbox EXCEPT ![e] = "open"]
      /\ now' \in {now, now + 1} /\ stamp' = [stamp EXCEPT ![e] = now']
      /\ UNCHANGED <<written, relay, mainTopic, failures, overlapped, late>>
  BY DEF BeginEvent
<1>2. outbox \in [Events -> RowState] /\ stamp \in [Events -> 0..now] /\ now \in Nat
  BY DEF OutboxIInv, OutboxShape
<1>3. outbox' \in [Events -> RowState] /\ now' \in Nat /\ stamp' \in [Events -> 0..now']
  BY <1>1, <1>2 DEF RowState
<1>4. \A f \in Events : IF Committed(f) THEN outbox'[f] = outbox[f] /\ stamp'[f] = stamp[f]
                        ELSE ~Committed(f)'
  BY <1>1, <1>2 DEF Committed
<1> QED
  BY <1>1, <1>3, <1>4 DEF Beside

\* A notice is of an attempt nobody was told of, or of an overwritten one.
LEMMA TellKeeps ==
    ASSUME CheckIInv, OutboxIInv, NEW h \in Handlers, Tell(h)
    PROVE  CheckIInv' /\ Beside
<1>1. PICK a \in Attempts, verdict \in {"VERIFIED", "REJECTED"} :
          a = Of(h) /\ verdict = Verdict[handler[h].state]
  BY DEF Tell, Doing, CheckIInv, HandlersHoldConcluded, Verdict
<1>2. /\ handler[h].task = "tell" /\ handler[h].opened = {}
      /\ UNCHANGED <<profile, attempt, session, crossed, closed, retried>>
  BY DEF Tell, Doing, CheckIInv, OpenedRight
<1>3. ReadRight(Idle)
  BY DEF ReadRight, Idle, Requests, NoAttempt, SessionState, VerificationStatus
<1>4. CASE Unwritten = {}
  <2>1. /\ UNCHANGED <<outboxVars, notice>> /\ untold' = untold \cup {a}
        /\ handler' = [handler EXCEPT ![h] = Idle] /\ webhooks' \subseteq webhooks
    BY <1>1, <1>4 DEF Tell, Rests, Answered
  <2>2. untold' \subseteq Attempts
    BY <2>1 DEF CheckIInv, CheckShape
  <2>3. CheckIInv'
    BY <1>2, <1>3, <2>1, <2>2, ReadingKeeps DEF outboxVars
  <2> QED
    BY <2>1, <2>3, NothingIsBeside
<1>5. CASE Unwritten # {}
  <2>1. PICK e \in Unwritten : e = CHOOSE x \in Unwritten : TRUE
    BY <1>5
  <2>2. /\ BeginEvent(e) /\ untold' = untold /\ webhooks' = webhooks
        /\ notice' = [notice EXCEPT ![e] = [attempt |-> a, says |-> verdict]]
        /\ handler' = [handler EXCEPT ![h].task = "commit", ![h].opened = {e}]
    BY <1>1, <1>5, <2>1 DEF Tell, TellsOf
  <2>3. e \in Events /\ outbox[e] = "unwritten"
    BY <2>1 DEF Unwritten
  <2>4. /\ outbox'[e] = "open" /\ \A f \in Events \ {e} : outbox'[f] = outbox[f]
    BY <2>2, <2>3 DEF BeginEvent, OutboxIInv, OutboxShape
  <2>14. Beside
    BY <2>2, <2>3, BeginsBeside
  <2>5. [attempt |-> a, says |-> verdict] \in Notices
    BY DEF Notices, VerificationStatus
  <2>6. /\ notice' \in [Events -> Notices]
        /\ notice'[e].attempt = a /\ notice'[e].says = verdict
        /\ \A f \in Events \ {e} : notice'[f] = notice[f]
    BY <2>2, <2>3, <2>5 DEF CheckIInv, CheckShape
  <2>7. a # NoAttempt
    BY VerificationAssumption DEF Attempts, NoAttempt
  <2>8. notice'[e] # NoNotice /\ notice[e] = NoNotice
    BY <2>3, <2>6, <2>7 DEF NoNotice, CheckIInv, CheckShape
  <2>9. CheckShape'
    BY <1>2, <2>2, <2>4, <2>6, <2>8 DEF CheckIInv, CheckShape
  <2>15. PICK x \in Requests : /\ handler' = [handler EXCEPT ![h] = x]
                              /\ x.task = "commit" /\ x.opened = {e}
                              /\ x.attempt = a /\ x.state = handler[h].state
    <3> DEFINE x == [handler[h] EXCEPT !.task = "commit", !.opened = {e}]
    <3>1. handler \in [Handlers -> Requests]
      BY DEF CheckIInv, HandlersHoldConcluded
    <3>2. handler' = [handler EXCEPT ![h] = x]
      BY <2>2, <3>1
    <3>3. x \in Requests /\ x.task = "commit" /\ x.opened = {e}
          /\ x.attempt = a /\ x.state = handler[h].state
      BY <1>1, <2>3, <3>1 DEF Requests, Tasks, Of
    <3> HIDE DEF x
    <3> QED
      BY <3>2, <3>3
  <2>10. /\ handler \in [Handlers -> Requests] /\ handler' \in [Handlers -> Requests]
         /\ handler'[h] = x /\ \A g \in Handlers \ {h} : handler'[g] = handler[g]
    BY <2>15 DEF CheckIInv, HandlersHoldConcluded
  <2>11. HandlersHoldConcluded'
    <3> SUFFICES ASSUME NEW g \in Handlers
                 PROVE  /\ Doing(g, "idle")' => handler'[g] = Idle
                        /\ handler'[g].task \in {"close", "decide", "cancel"} =>
                               /\ Of(g)' \in Attempts /\ handler'[g].saw = "PENDING"
                               /\ attempt'[Of(g)'] # "UNSTARTED"
                        /\ Doing(g, "cancel")' => session'[Of(g)'] = "cancelled"
                        /\ Doing(g, "decide")' => handler'[g].state \in DOMAIN Verdict
                               /\ Concluded(Of(g), handler[g].state)'
                        /\ handler'[g].task \in {"tell", "commit"} =>
                               Of(g)' \in Attempts /\ handler'[g].state \in DOMAIN Verdict
      BY <2>10 DEF HandlersHoldConcluded
    <3>1. CASE g = h
      BY <1>2, <2>10, <2>15, <3>1 DEF CheckIInv, HandlersHoldConcluded, Doing, Of
    <3>2. CASE g # h
      BY <1>2, <2>10, <3>2 DEF CheckIInv, HandlersHoldConcluded, Doing, Of, Concluded
    <3> QED
      BY <3>1, <3>2
  <2>16. OpenedRight'
    <3>1. \A g \in Handlers : e \notin handler[g].opened
      BY <2>3 DEF CheckIInv, OpenedRight
    <3>2. \A g \in Handlers \ {h} : \A f \in handler[g].opened : outbox'[f] = "open"
      BY <2>4, <2>10, <3>1 DEF CheckIInv, OpenedRight, Requests
    <3> QED
      BY <2>4, <2>10, <2>15, <3>1, <3>2 DEF CheckIInv, OpenedRight, Doing
  <2>12. WebhooksAreConcluded' /\ RowsAsConcluded' /\ GateHasDecision'
    BY <1>2, <2>2 DEF CheckIInv, WebhooksAreConcluded, RowsAsConcluded, GateHasDecision, Concluded
  <2>13. ToldOnce'
    <3>1. a \notin crossed =>
              /\ attempt[a] = verdict
              /\ \A f \in Events : notice[f].attempt # a
              /\ \A g \in Handlers : Telling(g, a) => g = h
      BY <1>1, <1>2 DEF CheckIInv, ToldOnce, Doing
    <3>2. ASSUME NEW f \in Events, notice'[f].attempt \in Attempts \ crossed
          PROVE  /\ attempt[notice'[f].attempt] = notice'[f].says
                 /\ notice'[f].says \in {"VERIFIED", "REJECTED"}
                 /\ \A k \in Events : notice'[k].attempt = notice'[f].attempt => k = f
      <4>1. CASE f = e
        BY <2>6, <3>1, <3>2, <4>1
      <4>2. CASE f # e
        <5>1. /\ attempt[notice[f].attempt] = notice[f].says
              /\ notice[f].says \in {"VERIFIED", "REJECTED"}
              /\ \A k \in Events : notice[k].attempt = notice[f].attempt => k = f
              /\ notice'[f] = notice[f]
          BY <2>6, <3>2, <4>2 DEF CheckIInv, ToldOnce
        <5>2. notice[f].attempt # a
          BY <3>1, <3>2, <5>1
        <5> QED
          BY <2>6, <5>1, <5>2
      <4> QED
        BY <4>1, <4>2
    <3>3. ASSUME NEW g \in Handlers, handler'[g].task = "tell",
                 handler'[g].attempt \in Attempts \ crossed
          PROVE  /\ attempt[handler'[g].attempt] = Verdict[handler'[g].state]
                 /\ \A f \in Events : notice'[f].attempt # handler'[g].attempt
                 /\ \A k \in Handlers :
                        handler'[k].task = "tell" /\ handler'[k].attempt = handler'[g].attempt => k = g
      <4>1. g # h /\ handler'[g] = handler[g]
        BY <2>10, <2>15, <3>3
      <4>2. /\ attempt[handler[g].attempt] = Verdict[handler[g].state]
            /\ \A f \in Events : notice[f].attempt # handler[g].attempt
            /\ \A k \in Handlers :
                   handler[k].task = "tell" /\ handler[k].attempt = handler[g].attempt => k = g
        BY <3>3, <4>1 DEF CheckIInv, ToldOnce, Telling, Doing, Of
      <4>3. handler[g].attempt # a
        BY <1>1, <1>2, <4>1, <4>2 DEF Of
      <4>4. \A k \in Handlers : handler'[k].task = "tell" => handler'[k] = handler[k]
        BY <2>10, <2>15
      <4> QED
        BY <2>6, <4>1, <4>2, <4>3, <4>4
    <3> QED
      BY <1>2, <3>2, <3>3 DEF ToldOnce, Telling, Doing, Of
  <2> QED
    BY <2>9, <2>11, <2>12, <2>13, <2>14, <2>16 DEF CheckIInv
<1> QED
  BY <1>4, <1>5

\* The notice and its row commit.
LEMMA CommitNoticeKeeps ==
    ASSUME CheckIInv, OutboxIInv, NEW h \in Handlers, CommitNotice(h)
    PROVE  CheckIInv' /\ \E e \in Events : WriteEvent(e)
<1>1. PICK e \in Events : e \in handler[h].opened /\ WriteEvent(e)
  BY DEF CommitNotice, CheckIInv, HandlersHoldConcluded, Requests
<1>2. /\ handler' = [handler EXCEPT ![h] = Idle] /\ webhooks' \subseteq webhooks
      /\ UNCHANGED <<profile, attempt, session, notice, crossed, closed, retried, untold>>
  BY DEF CommitNotice, Rests, Answered
<1>3. /\ outbox[e] = "open" /\ outbox'[e] = "owed"
      /\ \A f \in Events \ {e} : outbox'[f] = outbox[f]
  BY <1>1 DEF WriteEvent, OutboxIInv, OutboxShape
<1>4. Idle \in Requests /\ Idle.task = "idle" /\ Idle.opened = {}
  BY DEF Idle, Requests, NoAttempt, SessionState, VerificationStatus
<1>5. /\ handler \in [Handlers -> Requests] /\ handler' \in [Handlers -> Requests]
      /\ handler'[h] = Idle /\ \A g \in Handlers \ {h} : handler'[g] = handler[g]
  BY <1>2, <1>4 DEF CheckIInv, HandlersHoldConcluded
<1>6. CheckShape'
  BY <1>2, <1>3 DEF CheckIInv, CheckShape
<1>7. HandlersHoldConcluded'
  <2> SUFFICES ASSUME NEW g \in Handlers
               PROVE  /\ Doing(g, "idle")' => handler'[g] = Idle
                      /\ handler'[g].task \in {"close", "decide", "cancel"} =>
                             /\ Of(g)' \in Attempts /\ handler'[g].saw = "PENDING"
                             /\ attempt'[Of(g)'] # "UNSTARTED"
                      /\ Doing(g, "cancel")' => session'[Of(g)'] = "cancelled"
                      /\ Doing(g, "decide")' => handler'[g].state \in DOMAIN Verdict
                             /\ Concluded(Of(g), handler[g].state)'
                      /\ handler'[g].task \in {"tell", "commit"} =>
                             Of(g)' \in Attempts /\ handler'[g].state \in DOMAIN Verdict
    BY <1>5 DEF HandlersHoldConcluded
  <2>1. CASE g = h
    BY <1>4, <1>5, <2>1 DEF Doing
  <2>2. CASE g # h
    BY <1>2, <1>5, <2>2 DEF CheckIInv, HandlersHoldConcluded, Doing, Of, Concluded
  <2> QED
    BY <2>1, <2>2
<1>8. OpenedRight'
  <2>1. \A g \in Handlers \ {h} : e \notin handler[g].opened
    BY <1>1 DEF CheckIInv, OpenedRight
  <2>2. \A g \in Handlers \ {h} : \A f \in handler[g].opened : outbox'[f] = "open"
    BY <1>3, <1>5, <2>1 DEF CheckIInv, OpenedRight, Requests
  <2> QED
    BY <1>4, <1>5, <2>2 DEF CheckIInv, OpenedRight, Doing
<1>9. WebhooksAreConcluded' /\ RowsAsConcluded' /\ GateHasDecision'
  BY <1>2 DEF CheckIInv, WebhooksAreConcluded, RowsAsConcluded, GateHasDecision, Concluded
<1>10. ToldOnce'
  <2>1. \A g \in Handlers : handler'[g].task = "tell" => handler'[g] = handler[g]
    BY <1>4, <1>5
  <2> QED
    BY <1>2, <2>1 DEF CheckIInv, ToldOnce, Telling, Doing, Of
<1> QED
  BY <1>1, <1>6, <1>7, <1>8, <1>9, <1>10 DEF CheckIInv

-----------------------------------------------------------------------------
(***************************************************************************)
(* The check and the outbox together.                                      *)
(***************************************************************************)
IInv == OutboxIInv /\ CheckIInv

\* The invariant holds at the start.
LEMMA CheckStarts ==
    ASSUME Init
    PROVE  IInv
<1>1. /\ outbox = [e \in Events |-> "unwritten"]
      /\ profile = [kyc |-> "UNSTARTED", payoutsEnabled |-> FALSE]
      /\ attempt = [a \in Attempts |-> "UNSTARTED"]
      /\ session = [a \in Attempts |-> "none"]
      /\ webhooks = {} /\ handler = [h \in Handlers |-> Idle]
      /\ notice = [e \in Events |-> NoNotice]
      /\ crossed = {} /\ closed = {} /\ retried = {} /\ untold = {}
  BY DEF Init, OutboxInit
<1>2. Idle \in Requests /\ Idle.task = "idle" /\ Idle.opened = {} /\ NoNotice \in Notices
      /\ NoNotice.attempt \notin Attempts
  BY VerificationAssumption
  DEF Idle, Requests, NoAttempt, SessionState, VerificationStatus, NoNotice, Notices, Attempts
<1>3. CheckShape
  BY <1>1, <1>2 DEF CheckShape, VerificationStatus, SessionState
<1>4. HandlersHoldConcluded /\ OpenedRight
  BY <1>1, <1>2 DEF HandlersHoldConcluded, OpenedRight, Doing
<1>5. WebhooksAreConcluded /\ RowsAsConcluded /\ GateHasDecision
  BY <1>1 DEF WebhooksAreConcluded, RowsAsConcluded, GateHasDecision
<1>6. ToldOnce
  BY <1>1, <1>2 DEF ToldOnce, Doing
<1> QED
  BY <1>3, <1>4, <1>5, <1>6, OutboxStarts DEF Init, IInv, CheckIInv

\* Every step keeps the invariant, and is one of the promised topic or a stutter.
LEMMA CheckSteps ==
    ASSUME IInv, [Next]_vars
    PROVE  IInv' /\ [Promise!TopicNext]_(Promise!topicVars)
<1> USE DEF IInv
<1>1. ASSUME NEW h \in Handlers, Start(h) \/ Look(h) \/ Close(h) \/ Create(h) \/ Decide(h) \/ Cancel(h)
      PROVE  CheckIInv' /\ Beside
  <2>1. CheckIInv'
    BY <1>1, StartKeeps, LookKeeps, CloseKeeps, CreateKeeps, DecideKeeps, CancelKeeps
  <2>2. UNCHANGED outboxVars
    BY <1>1 DEF Start, Look, Close, Create, Decide, Cancel
  <2> QED
    BY <2>1, <2>2, NothingIsBeside
<1>2. ASSUME NEW h \in Handlers, LookFails(h) \/ Dies(h)
      PROVE  CheckIInv' /\ Beside
  <2>1. CASE LookFails(h)
    <3>1. CheckIInv'
      BY <2>1, LookKeeps
    <3> QED
      BY <2>1, <3>1 DEF LookFails, Beside, OutboxIInv, OutboxShape, datings, Committed
  <2>2. CASE Dies(h)
    BY <2>2, DiesKeeps
  <2> QED
    BY <1>2, <2>1, <2>2
<1>3. ASSUME NEW h \in Handlers, Tell(h)
      PROVE  CheckIInv' /\ Beside
  BY <1>3, TellKeeps
<1>10. ASSUME NEW h \in Handlers, CommitNotice(h)
       PROVE  CheckIInv' /\ \E e \in Events : WriteEvent(e)
  BY <1>10, CommitNoticeKeeps
<1>4. ASSUME NEW h \in Handlers, NEW a \in Attempts, Poll(h, a)
      PROVE  CheckIInv' /\ Beside
  BY <1>4, PollKeeps, NothingIsBeside DEF Poll
<1>5. ASSUME NEW h \in Handlers, NEW event, Deliver(h, event)
      PROVE  CheckIInv' /\ Beside
  BY <1>5, DeliverKeeps, NothingIsBeside DEF Deliver
<1>6. ASSUME NEW a \in Attempts, NEW state \in SessionState, Concludes(a, state)
      PROVE  CheckIInv' /\ Beside
  BY <1>6, ConcludesKeeps, NothingIsBeside DEF Concludes
<1>7. ASSUME Publishing, UNCHANGED verificationVars
      PROVE  CheckIInv'
  BY <1>7, PublishingKeeps
<1>8. ASSUME UNCHANGED vars
      PROVE  CheckIInv' /\ Beside
  <2>1. UNCHANGED <<outbox, profile, attempt,
                    session, webhooks, notice, handler, crossed, closed, retried, untold>>
        /\ UNCHANGED outboxVars
    BY <1>8 DEF vars, outboxVars, verificationVars, verificationRows
  <2>2. CheckShape' /\ RowsAsConcluded' /\ GateHasDecision'
    BY <2>1 DEF CheckIInv, CheckShape, RowsAsConcluded, GateHasDecision
  <2>3. HandlersHoldConcluded' /\ WebhooksAreConcluded' /\ OpenedRight'
    BY <2>1
    DEF CheckIInv, HandlersHoldConcluded, WebhooksAreConcluded, OpenedRight, Doing, Of, Concluded
  <2>4. ToldOnce'
    BY <2>1 DEF CheckIInv, ToldOnce, Telling, Doing, Of
  <2> QED
    BY <2>1, <2>2, <2>3, <2>4, NothingIsBeside DEF CheckIInv
<1>9. CheckIInv' /\ ((\E e \in Events : WriteEvent(e)) \/ Publishing \/ Beside)
  BY <1>1, <1>2, <1>3, <1>4, <1>5, <1>6, <1>7, <1>8, <1>10 DEF Next, GoesOn, Delivers
<1> QED
  BY <1>9, OutboxSteps

\* The inductive invariant: the check's part beside the outbox's.
THEOREM AlwaysIInv == Spec => []IInv
<1>1. Init => IInv
  BY CheckStarts
<1>2. IInv /\ [Next]_vars => IInv'
  BY CheckSteps
<1> QED
  BY <1>1, <1>2, PTL DEF Spec

\* What the invariant says is what is wanted.
LEMMA InvariantIsRight ==
    ASSUME IInv
    PROVE  VerificationInv /\ PublishedInOrder /\ ToldAsRecorded
<1>1. OutboxTypeOK /\ PublishedReachedTopic /\ PublishedInOrder
  BY OutboxIsRight DEF IInv
<1>2. VerificationTypeOK
  <2>1. webhooks \subseteq [attempt : Attempts, state : SessionState]
    BY DEF IInv, CheckIInv, WebhooksAreConcluded, SessionState
  <2>2. \A h \in Handlers : handler[h] = Idle \/ handler[h].task \in Tasks
    BY DEF IInv, CheckIInv, HandlersHoldConcluded, Requests, Doing
  <2> QED
    BY <2>1, <2>2 DEF IInv, CheckIInv, CheckShape, VerificationTypeOK
<1>3. RecordedAsDecided
  BY DEF IInv, CheckIInv, RowsAsConcluded, RecordedAsDecided
<1>4. ToldAsRecorded
  BY DEF IInv, CheckIInv, ToldOnce, ToldAsRecorded
<1> QED
  BY <1>1, <1>2, <1>3, <1>4 DEF VerificationInv, IInv, CheckIInv

\* The payout gate is open only beside a verified attempt, or after one was
\* overwritten by a request that had read it before; a row says what the
\* provider decided of its session, unless it was closed as dead or refused
\* first; a row of the outbox is marked, and pruned, only once it is on the
\* topic (applyDecision, cancelAttempt, closeAttempt, drainOutbox).
THEOREM VerificationRight == Spec => []VerificationInv
<1>1. IInv => VerificationInv
  BY InvariantIsRight
<1> QED
  BY <1>1, AlwaysIInv, PTL

\* However often a decision arrives, and by whichever of poll and webhook, the
\* seller is told of an attempt once and what its row says, as long as no
\* request overwrote it (applyDecision and notify after it).
THEOREM ToldAsRecordedAlways == Spec => []ToldAsRecorded
<1>1. IInv => ToldAsRecorded
  BY InvariantIsRight
<1> QED
  BY <1>1, AlwaysIInv, PTL

\* Without overlapping passes the topic has the order of createdAt, whatever
\* fails, dies or is sent again, but for an event that had not committed when a
\* later one was taken up (claim's ORDER BY, publishBatch).
THEOREM PublishedInOrderAlways == Spec => []PublishedInOrder
<1>1. IInv => PublishedInOrder
  BY InvariantIsRight
<1> QED
  BY <1>1, AlwaysIInv, PTL

\* The safety of the promise the consumers of the topic rely on: the check and
\* its outbox only ever write an event once, and only put written ones on the
\* topic, in batches.
THEOREM KeepsPromiseSafely == Spec => Promise!TopicInit /\ [][Promise!TopicNext]_(Promise!topicVars)
<1>1. Init => Promise!TopicInit
  BY DEF Init, OutboxInit, Promise!TopicInit
<1>2. IInv /\ [Next]_vars => [Promise!TopicNext]_(Promise!topicVars)
  BY CheckSteps
<1> QED
  BY <1>1, <1>2, AlwaysIInv, PTL DEF Spec
=============================================================================
