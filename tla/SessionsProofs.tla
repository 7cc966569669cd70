--------------------------- MODULE SessionsProofs ---------------------------
(***************************************************************************)
(* For any browsers, any number of requests at a time and any number of    *)
(* tokens and links: sessions do not fork, are not lost to a race, and do  *)
(* not outlive the password; a link is spent once and does not either.     *)
(*                                                                         *)
(* The inductive invariant is conjoined of what is right of rows and jars  *)
(* and of what is right of a request: which token it carries, and what it  *)
(* is still to end.                                                        *)
(*                                                                         *)
(* The second factor of a moderator follows: a code is accepted once, and  *)
(* a confirmed authenticator works.                                        *)
(***************************************************************************)
EXTENDS Sessions, StepUp, FiniteSetTheorems, WellFoundedInduction, TLAPS

-----------------------------------------------------------------------------
(***************************************************************************)
(* The invariant                                                           *)
(***************************************************************************)

\* A job has the purpose its task belongs to, and what that needs.
JobFits(j) ==
    /\ j \in Job
    /\ j.task \in {"issue", "create"} => j.for = "session"
    /\ j.task = "issue" => j.browser \in Browsers
    /\ j.task \in {"rotate", "superseded", "next"} => j.for = "reuse"
    /\ j.task \in {"set", "burn"} => j.for = "change"
    /\ j.task = "redeem" => j.for = "reset" /\ j.link \in Links
    /\ j.task \in {"snapshot", "revoke"} => j.for \in {"reuse", "change", "reset"}
    /\ j.for = "reuse" => j.browser \in Browsers /\ j.token \in Tokens

\* A token that was rotated a moment ago, and whose successor stands.
Raced(t) == token[t].state = "revoked" /\ token[t].recent /\ token[t].next \in Live

\* What a request to refresh carries is its own browser's, and is live or was
\* when the race began; nothing is being ended.
Peaceful(j) ==
    /\ j.task \notin {"snapshot", "revoke", "burn"}
    /\ j.task = "rotate" => j.token \in Live \/ Raced(j.token)
    /\ j.task \in {"superseded", "next"} => Raced(j.token)
    /\ j.for = "reuse" => \A c \in Browsers \ {j.browser} : jar[c] # j.token

JobRight(j) ==
    j # Idle =>
        /\ JobFits(j)
        /\ j.token = NoToken \/ j.token \in Made
        /\ troubled \/ Peaceful(j)

\* A request that is still to end the sessions the password change doomed.
WillEndSessions(j) ==
    \/ j.task = "snapshot" /\ j.for = "change" /\ j.token \notin doomed.tokens
    \/ j.task = "snapshot" /\ j.for = "reset"
    \/ j.task = "revoke" /\ j.for \in {"change", "reset"} /\ Live \cap doomed.tokens \subseteq j.targets

\* And one that is still to end the links.
WillEndLinks(j) == j.task \in {"snapshot", "revoke", "burn"} /\ j.for = "change"

JobsRight == \A h \in Handlers : JobRight(handler[h])

\* Rows that are there began somewhere, and nothing names one that is not.
RowsRight ==
    /\ \A t \in Made : chain[t] \in Made
    /\ \A b \in Browsers : jar[b] = NoToken \/ jar[b] \in Made
    /\ doomed.tokens \subseteq Made
    /\ doomed.links \subseteq Asked
    /\ ChainsDoNotFork

\* A browser's session stands, and is in no other's jar.
JarsRight ==
    ~troubled => \A b \in Browsers :
        jar[b] # NoToken => jar[b] \in Live /\ \A c \in Browsers \ {b} : jar[c] # jar[b]

\* One link at most is made or being made.
LinksRight ==
    ~together =>
        /\ \A j, k \in LiveLinks : j = k
        /\ \A g, h \in Doing("create") : g = h
        /\ Doing("create") # {} => LiveLinks = {}

\* A link nobody shares has one who uses it, and is not spent before.
SpentRight ==
    \A k \in Links \ shared :
        /\ \A g, h \in Doing("redeem") : handler[g].link = k /\ handler[h].link = k => g = h
        /\ \A h \in Doing("redeem") : handler[h].link = k => spent[k] = 0
        /\ link[k] # "used" => spent[k] = 0
        /\ spent[k] <= 1

DoomRight ==
    /\ Live \cap doomed.tokens # {} => \E h \in Handlers : WillEndSessions(handler[h])
    /\ ~together /\ LiveLinks \cap doomed.links # {} => \E h \in Handlers : WillEndLinks(handler[h])

IInv ==
    /\ TypeOK /\ JobsRight
    /\ RowsRight /\ JarsRight
    /\ LinksRight /\ SpentRight
    /\ DoomRight

-----------------------------------------------------------------------------
(***************************************************************************)
(* What is known of rows and requests                                      *)
(***************************************************************************)

\* The least of some numbers is one of them.
LEMMA LeastIs ==
    ASSUME NEW S \in SUBSET Nat, S # {}
    PROVE  Least(S) \in S
<1> DEFINE R == OpToRel(<, Nat)
<1>1. \E x \in S : \A y \in S : ~(<<y, x>> \in R)
  BY NatLessThanWellFounded, WFMin
<1>2. \A x, y \in Nat : x < y => <<x, y>> \in R
  BY DEF OpToRel
<1> HIDE DEF R
<1>3. PICK m \in S : \A y \in S : ~(<<y, m>> \in R)
  BY <1>1
<1>4. \A y \in S : m <= y
  <2> SUFFICES ASSUME NEW y \in S PROVE m <= y
    OBVIOUS
  <2>1. y \in Nat /\ m \in Nat
    BY <1>3
  <2>2. ~(y < m)
    BY <2>1, <1>2, <1>3
  <2> QED
    BY <2>1, <2>2
<1> QED
  BY <1>3, <1>4 DEF Least

\* A new token, or link, takes a row that is not there.
LEMMA NewRow ==
    /\ Unminted # {} => Least(Unminted) \in Tokens \ Made
    /\ Unused # {} => Least(Unused) \in Links \ Asked
<1>1. Unminted \in SUBSET Nat /\ Unused \in SUBSET Nat
  BY SessionsAssumption DEF Unminted, Unused, Tokens, Links
<1> QED
  BY <1>1, LeastIs DEF Unminted, Unused

\* A request with a task has a job that fits it.
LEMMA JobIs ==
    ASSUME TypeOK, JobsRight, NEW h \in Handlers, handler[h].task \in Tasks
    PROVE  /\ handler[h] # Idle
           /\ JobFits(handler[h])
           /\ handler[h].token = NoToken \/ handler[h].token \in Made
           /\ troubled \/ Peaceful(handler[h])
<1>1. handler[h] # Idle
  BY DEF Idle, Tasks
<1> QED
  BY <1>1 DEF JobsRight, JobRight

\* There is no row zero.
LEMMA NoneIsNoRow == NoToken \notin Tokens /\ NoLink \notin Links
  BY SessionsAssumption DEF NoToken, NoLink, Tokens, Links

\* What is live is there.
LEMMA LiveIsMade ==
    /\ Live \subseteq Made /\ Made \subseteq Tokens
    /\ LiveLinks \subseteq Asked /\ Asked \subseteq Links
  BY DEF Live, Made, LiveLinks, Asked

\* A job stays right where rows only come, and what a race needs is left alone.
LEMMA JobStays ==
    ASSUME NEW j, JobRight(j), Made \subseteq Made', troubled => troubled',
           j # Idle /\ JobFits(j) /\ Peaceful(j) /\ ~troubled' => Peaceful(j)'
    PROVE  JobRight(j)'
<1>1. CASE j = Idle
  BY <1>1 DEF JobRight, Idle
<1>2. CASE j # Idle
  <2>1. JobFits(j)' <=> JobFits(j)
    BY DEF JobFits, Job, Tasks, Purposes, Tokens, Links, NoToken, NoLink
  <2> QED
    BY <1>2, <2>1 DEF JobRight
<1> QED
  BY <1>1, <1>2

\* All of them are, if the one that changes is and the others stay.
LEMMA OneJob ==
    ASSUME JobsRight, NEW h \in Handlers, NEW j,
           handler \in [Handlers -> Job \cup {Idle}],
           handler' = [handler EXCEPT ![h] = j],
           JobRight(j)',
           \A g \in Handlers \ {h} : \A i : i = handler[g] => JobRight(i)'
    PROVE  JobsRight'
<1>1. ASSUME NEW g \in Handlers PROVE JobRight(handler[g])'
  <2>1. CASE g = h
    <3>1. handler'[g] = j
      BY <2>1
    <3> QED
      BY <3>1 DEF JobRight, JobFits, Peaceful, Raced
  <2>2. CASE g # h
    <3>1. PICK i : i = handler[g]
      OBVIOUS
    <3>2. handler'[g] = i /\ JobRight(i)'
      BY <2>2, <3>1
    <3> QED
      BY <3>2 DEF JobRight, JobFits, Peaceful, Raced
  <2> QED
    BY <2>1, <2>2
<1> QED
  BY <1>1 DEF JobsRight

-----------------------------------------------------------------------------
(***************************************************************************)
(* Steps that only give a request its next task                            *)
(***************************************************************************)

\* Nothing but one request changes: the rows stay right.
LEMMA MoveKeeps ==
    ASSUME IInv, NEW h \in Handlers, NEW j, JobRight(j), j \in Job \cup {Idle},
           j.task \notin {"create", "redeem"},
           handler' = [handler EXCEPT ![h] = j],
           UNCHANGED <<token, jar, link, histories>>,
           WillEndSessions(handler[h]) => WillEndSessions(j),
           WillEndLinks(handler[h]) => WillEndLinks(j)
    PROVE  IInv'
<1>1. /\ UNCHANGED <<token, jar, link, chain, doomed, troubled, together, shared, spent>>
      /\ Live' = Live /\ Made' = Made /\ LiveLinks' = LiveLinks /\ Asked' = Asked
  BY DEF histories, Live, Made, LiveLinks, Asked
<1>2. handler \in [Handlers -> Job \cup {Idle}]
  BY DEF IInv, TypeOK
<1>3. handler'[h] = j /\ \A g \in Handlers \ {h} : handler'[g] = handler[g]
  BY <1>2
<1>4. TypeOK'
  BY <1>1, <1>2 DEF IInv, TypeOK, Job, Tokens, Links, Tasks, Purposes, Token, NoToken, NoLink, Idle
<1>5. JobsRight'
  <2>1. ASSUME NEW i, JobRight(i) PROVE JobRight(i)'
    BY <2>1, <1>1, JobStays DEF Peaceful, Raced
  <2> QED
    BY <2>1, <1>2, OneJob DEF IInv, JobsRight
<1>6. RowsRight' /\ JarsRight'
  BY <1>1 DEF IInv, RowsRight, JarsRight, ChainsDoNotFork
<1>7. Doing("create")' \subseteq Doing("create") /\ Doing("redeem")' \subseteq Doing("redeem")
      /\ \A g \in Doing("redeem")' : handler'[g] = handler[g]
  BY <1>3 DEF Doing
<1>8. LinksRight'
  BY <1>1, <1>7 DEF IInv, LinksRight
<1>9. SpentRight'
  BY <1>1, <1>7 DEF IInv, SpentRight
<1>10. DoomRight'
  <2>1. ASSUME NEW g \in Handlers, WillEndSessions(handler[g])
        PROVE  \E i \in Handlers : WillEndSessions(handler[i])'
    <3>1. CASE g = h
      BY <2>1, <3>1, <1>1, <1>3 DEF WillEndSessions
    <3>2. CASE g # h
      BY <2>1, <3>2, <1>1, <1>3 DEF WillEndSessions
    <3> QED
      BY <3>1, <3>2
  <2>2. ASSUME NEW g \in Handlers, WillEndLinks(handler[g])
        PROVE  \E i \in Handlers : WillEndLinks(handler[i])'
    <3>1. CASE g = h
      BY <2>2, <3>1, <1>1, <1>3 DEF WillEndLinks
    <3>2. CASE g # h
      BY <2>2, <3>2, <1>1, <1>3 DEF WillEndLinks
    <3> QED
      BY <3>1, <3>2
  <2> QED
    BY <2>1, <2>2, <1>1 DEF IInv, DoomRight
<1> QED
  BY <1>4, <1>5, <1>6, <1>8, <1>9, <1>10 DEF IInv

\* A request that begins.
LEMMA BeginKeeps ==
    ASSUME IInv, NEW h \in Handlers, NEW b \in Browsers,
           SignIn(h, b) \/ Refresh(h, b) \/ ChangePassword(h, b)
    PROVE  IInv'
<1>1. handler[h] = Idle /\ ~WillEndSessions(Idle) /\ ~WillEndLinks(Idle)
  BY DEF SignIn, Refresh, ChangePassword, Begins, WillEndSessions, WillEndLinks, Idle
<1>2. jar[b] \in Tokens \cup {NoToken} /\ TypeOK /\ NoToken \notin Tokens
  BY NoneIsNoRow DEF IInv, TypeOK
<1> DEFINE J(task, for, t) == [task |-> task, for |-> for, browser |-> b, token |-> t,
                               targets |-> {}, link |-> NoLink]
<1>3. ASSUME NEW task \in Tasks, NEW for \in Purposes, NEW t \in Tokens \cup {NoToken}
      PROVE  /\ J(task, for, t) \in Job
             /\ J(task, for, t).task = task /\ J(task, for, t).for = for
             /\ J(task, for, t).browser = b /\ J(task, for, t).token = t
  BY <1>3 DEF Job
<1>4. CASE SignIn(h, b)
  <2>1. PICK j : j = J("issue", "session", NoToken)
    OBVIOUS
  <2>2. j \in Job /\ j.task = "issue" /\ j.for = "session" /\ j.browser = b /\ j.token = NoToken
    BY <2>1, <1>3 DEF Tasks, Purposes
  <2>3. JobRight(j)
    BY <2>2 DEF JobRight, JobFits, Peaceful
  <2>4. handler' = [handler EXCEPT ![h] = j] /\ UNCHANGED <<token, jar, link, histories>>
    BY <1>4, <2>1 DEF SignIn, Begins
  <2> QED
    BY <2>2, <2>3, <2>4, <1>1, MoveKeeps
<1>5. CASE Refresh(h, b)
  <2>1. PICK j : j = J(IF jar[b] \in Live THEN "rotate" ELSE "superseded", "reuse", jar[b])
    OBVIOUS
  <2>2. /\ j \in Job /\ j.task = (IF jar[b] \in Live THEN "rotate" ELSE "superseded")
        /\ j.for = "reuse" /\ j.browser = b /\ j.token = jar[b] /\ jar[b] \in Tokens
    BY <2>1, <1>2, <1>3, <1>5 DEF Tasks, Purposes, Refresh
  <2>3. jar[b] \in Made /\ jar[b] # NoToken
    BY <1>5 DEF Refresh, IInv, RowsRight
  <2>4. ~troubled => jar[b] \in Live /\ \A c \in Browsers \ {b} : jar[c] # jar[b]
    BY <2>3 DEF IInv, JarsRight
  <2>5. JobFits(j)
    BY <2>2 DEF JobFits
  <2>6. JobRight(j)
    BY <2>2, <2>3, <2>4, <2>5 DEF JobRight, Peaceful
  <2>7. handler' = [handler EXCEPT ![h] = j] /\ UNCHANGED <<token, jar, link, histories>>
    BY <1>5, <2>1 DEF Refresh, Begins
  <2>8. j.task \notin {"create", "redeem"}
    BY <2>2
  <2> QED
    BY <2>2, <2>6, <2>7, <2>8, <1>1, MoveKeeps
<1>6. CASE ChangePassword(h, b)
  <2>1. PICK j : j = J("set", "change", jar[b])
    OBVIOUS
  <2>2. j \in Job /\ j.task = "set" /\ j.for = "change" /\ j.browser = b /\ j.token = jar[b]
    BY <2>1, <1>2, <1>3 DEF Tasks, Purposes
  <2>3. jar[b] = NoToken \/ jar[b] \in Made
    BY DEF IInv, RowsRight
  <2>4. JobRight(j)
    BY <2>2, <2>3 DEF JobRight, JobFits, Peaceful
  <2>5. handler' = [handler EXCEPT ![h] = j] /\ UNCHANGED <<token, jar, link, histories>>
    BY <1>6, <2>1 DEF ChangePassword, Begins
  <2> QED
    BY <2>2, <2>4, <2>5, <1>1, MoveKeeps
<1> QED
  BY <1>4, <1>5, <1>6

\* A job with another task, and what it then is.
LEMMA Retasked ==
    ASSUME TypeOK, JobsRight, NEW h \in Handlers, handler[h].task \in Tasks,
           NEW task \in Tasks
    PROVE  LET j == [handler[h] EXCEPT !.task = task]
           IN  /\ j \in Job /\ j.task = task /\ j.for = handler[h].for
               /\ j.browser = handler[h].browser /\ j.token = handler[h].token
               /\ j.targets = handler[h].targets /\ j.link = handler[h].link
               /\ Goes(h, task) => handler' = [handler EXCEPT ![h] = j]
<1>1. handler[h] \in Job
  BY JobIs DEF JobFits
<1>2. handler \in [Handlers -> Job \cup {Idle}]
  BY DEF TypeOK
<1>3. PICK i \in Job : i = handler[h]
  BY <1>1
<1>4. LET j == [i EXCEPT !.task = task]
      IN  /\ j \in Job /\ j.task = task /\ j.for = i.for /\ j.browser = i.browser
          /\ j.token = i.token /\ j.targets = i.targets /\ j.link = i.link
  BY DEF Job
<1>5. Goes(h, task) => handler' = [handler EXCEPT ![h] = [handler[h] EXCEPT !.task = task]]
  BY <1>2 DEF Goes
<1> QED
  BY <1>3, <1>4, <1>5

\* A request that ends.
LEMMA Rests ==
    /\ Idle.task = "idle" /\ JobRight(Idle) /\ ~WillEndSessions(Idle) /\ ~WillEndLinks(Idle)
    /\ Idle.task \notin Tasks
  BY DEF Idle, JobRight, WillEndSessions, WillEndLinks, Tasks

\* The reads of a refresh that lost the race, or came late.
LEMMA ReadsKeep ==
    ASSUME IInv, NEW h \in Handlers,
           \/ Rotate(h) /\ ~Claimed(handler[h].token)
           \/ Superseded(h)
           \/ LookAtNext(h)
    PROVE  IInv'
<1>1. handler[h].task \in {"rotate", "superseded", "next"} /\ handler[h].task \in Tasks
  BY DEF Rotate, Superseded, LookAtNext, Tasks
<1>2. TypeOK /\ JobsRight
  BY DEF IInv
<1>3. /\ JobFits(handler[h]) /\ handler[h].for = "reuse" /\ handler[h].token \in Tokens
      /\ handler[h].token \in Made
      /\ troubled \/ Peaceful(handler[h])
  BY <1>1, <1>2, JobIs, NoneIsNoRow DEF JobFits
<1>4. ~WillEndSessions(handler[h]) /\ ~WillEndLinks(handler[h])
  BY <1>1 DEF WillEndSessions, WillEndLinks
<1>5. ASSUME NEW task \in {"superseded", "next", "snapshot"}, Goes(h, task),
             UNCHANGED <<token, jar, link, histories>>,
             troubled \/ (task # "snapshot" /\ Raced(handler[h].token))
      PROVE  IInv'
  <2>1. PICK j : j = [handler[h] EXCEPT !.task = task]
    OBVIOUS
  <2>2. task \in Tasks
    BY DEF Tasks
  <2>3. /\ j \in Job /\ j.task = task /\ j.for = handler[h].for
        /\ j.browser = handler[h].browser /\ j.token = handler[h].token
        /\ j.link = handler[h].link
        /\ handler' = [handler EXCEPT ![h] = j]
    BY <2>1, <2>2, <1>1, <1>2, <1>5, Retasked
  <2>4. JobFits(j)
    BY <2>3, <1>3 DEF JobFits
  <2>5. JobRight(j)
    BY <2>3, <2>4, <1>3, <1>5 DEF JobRight, Peaceful
  <2>6. j.task \notin {"create", "redeem"}
    BY <2>3
  <2> QED
    BY <2>3, <2>5, <2>6, <1>4, <1>5, MoveKeeps
<1>6. CASE Rotate(h) /\ ~Claimed(handler[h].token)
  <2>1. Goes(h, "superseded") /\ UNCHANGED <<token, jar, link, histories>>
    BY <1>6 DEF Rotate, LoserAsks, histories
  <2>2. handler[h].task = "rotate" /\ handler[h].token \notin Live
    BY <1>6 DEF Rotate, Claimed, Live
  <2>3. troubled \/ Raced(handler[h].token)
    BY <2>2, <1>3 DEF Peaceful
  <2> QED
    BY <2>1, <2>3, <1>5
<1>7. CASE Superseded(h)
  <2>1. troubled \/ Raced(handler[h].token)
    BY <1>7, <1>3 DEF Peaceful, Superseded
  <2>2. PICK task \in {"next", "snapshot"} :
            task = IF token[handler[h].token].recent /\ token[handler[h].token].next # NoToken
                   THEN "next" ELSE "snapshot"
    OBVIOUS
  <2>3. Goes(h, task) /\ UNCHANGED <<token, jar, link, histories>>
    BY <1>7, <2>2 DEF Superseded
  <2>4. Raced(handler[h].token) => task = "next"
    BY <2>2, NoneIsNoRow DEF Raced, Live
  <2> QED
    BY <2>1, <2>3, <2>4, <1>5
<1>8. CASE LookAtNext(h)
  <2>1. troubled \/ Raced(handler[h].token)
    BY <1>8, <1>3 DEF Peaceful, LookAtNext
  <2>2. CASE token[handler[h].token].next \in Live
    <3>1. handler' = [handler EXCEPT ![h] = Idle] /\ UNCHANGED <<token, jar, link, histories>>
      BY <1>8, <2>2 DEF LookAtNext, Ends
    <3> QED
      BY <3>1, <1>4, Rests, MoveKeeps
  <2>3. CASE token[handler[h].token].next \notin Live
    <3>1. Goes(h, "snapshot") /\ UNCHANGED <<token, jar, link, histories>>
      BY <1>8, <2>3 DEF LookAtNext
    <3>2. troubled
      BY <2>1, <2>3 DEF Raced
    <3> QED
      BY <3>1, <3>2, <1>5
  <2> QED
    BY <2>2, <2>3
<1> QED
  BY <1>6, <1>7, <1>8

\* The UPDATE that ends sessions sees what is there when it begins.
LEMMA SnapshotKeeps ==
    ASSUME IInv, NEW h \in Handlers, Snapshot(h)
    PROVE  IInv'
<1>1. handler[h].task = "snapshot" /\ handler[h].task \in Tasks
  BY DEF Snapshot, Tasks
<1>2. TypeOK /\ JobsRight
  BY DEF IInv
<1>3. /\ JobFits(handler[h]) /\ handler[h] \in Job
      /\ handler[h].token = NoToken \/ handler[h].token \in Made
      /\ troubled
  BY <1>1, <1>2, JobIs DEF JobFits, Peaceful
<1>4. PICK i \in Job : i = handler[h]
  BY <1>3
<1>5. PICK j : j = [i EXCEPT !.task = "revoke", !.targets = Live \ Spared(h)]
  OBVIOUS
<1>6. Live \ Spared(h) \in SUBSET Tokens
  BY DEF Live
<1>7. /\ j \in Job /\ j.task = "revoke" /\ j.for = i.for /\ j.browser = i.browser
      /\ j.token = i.token /\ j.link = i.link /\ j.targets = Live \ Spared(h)
  BY <1>5, <1>6 DEF Job, Tasks
<1>8. handler' = [handler EXCEPT ![h] = j] /\ UNCHANGED <<token, jar, link, histories>>
  BY <1>2, <1>4, <1>5 DEF Snapshot, TypeOK
<1>9. JobFits(j)
  BY <1>1, <1>3, <1>4, <1>7 DEF JobFits
<1>10. JobRight(j)
  BY <1>3, <1>4, <1>7, <1>9 DEF JobRight
<1>11. WillEndSessions(handler[h]) => WillEndSessions(j)
  BY <1>1, <1>4, <1>7 DEF WillEndSessions, Spared
<1>12. WillEndLinks(handler[h]) => WillEndLinks(j)
  BY <1>1, <1>4, <1>7 DEF WillEndLinks
<1>13. j.task \notin {"create", "redeem"}
  BY <1>7
<1> QED
  BY <1>7, <1>8, <1>10, <1>11, <1>12, <1>13, MoveKeeps

-----------------------------------------------------------------------------
(***************************************************************************)
(* Steps that mint or end tokens                                           *)
(***************************************************************************)

\* The parts that are only about links stay right beside them.
LEMMA LinksStay ==
    ASSUME IInv, NEW h \in Handlers, NEW j, j.task \notin {"create", "redeem"},
           handler' = [handler EXCEPT ![h] = j],
           UNCHANGED <<link, together, shared, spent>>
    PROVE  LinksRight' /\ SpentRight'
<1>1. handler'[h] = j /\ \A g \in Handlers \ {h} : handler'[g] = handler[g]
  BY DEF IInv, TypeOK
<1>2. Doing("create")' \subseteq Doing("create") /\ Doing("redeem")' \subseteq Doing("redeem")
      /\ \A g \in Doing("redeem")' : handler'[g] = handler[g]
  BY <1>1 DEF Doing
<1>3. LiveLinks' = LiveLinks
  BY DEF LiveLinks
<1>4. LinksRight'
  BY <1>2, <1>3 DEF IInv, LinksRight
<1>5. SpentRight'
  BY <1>2 DEF IInv, SpentRight
<1> QED
  BY <1>4, <1>5

\* Who is to end something still is, where live tokens become fewer but for
\* new ones that are not doomed.
LEMMA DoomStays ==
    ASSUME IInv, NEW h \in Handlers, NEW j,
           ~WillEndSessions(handler[h]), ~WillEndLinks(handler[h]),
           handler' = [handler EXCEPT ![h] = j],
           doomed' = doomed, Live' \cap doomed.tokens \subseteq Live,
           LiveLinks' \cap doomed.links \subseteq LiveLinks, together => together'
    PROVE  DoomRight'
<1>1. \A g \in Handlers \ {h} : handler'[g] = handler[g]
  BY DEF IInv, TypeOK
<1>2. ASSUME NEW g \in Handlers, WillEndSessions(handler[g])
      PROVE  \E i \in Handlers : WillEndSessions(handler[i])'
  <2>1. g # h /\ handler'[g] = handler[g]
    BY <1>1, <1>2
  <2> QED
    BY <1>2, <2>1 DEF WillEndSessions
<1>3. ASSUME NEW g \in Handlers, WillEndLinks(handler[g])
      PROVE  \E i \in Handlers : WillEndLinks(handler[i])'
  <2>1. g # h /\ handler'[g] = handler[g]
    BY <1>1, <1>3
  <2> QED
    BY <1>3, <2>1 DEF WillEndLinks
<1> QED
  BY <1>2, <1>3 DEF IInv, DoomRight

\* Signing in mints a token that begins a session.
LEMMA IssueKeeps ==
    ASSUME IInv, NEW h \in Handlers, IssueSession(h)
    PROVE  IInv'
<1>1. PICK t : t = Least(Unminted)
  OBVIOUS
<1>2. PICK b : b = handler[h].browser
  OBVIOUS
<1>3. handler[h].task = "issue" /\ handler[h].task \in Tasks
  BY DEF IssueSession, Tasks
<1>4. TypeOK /\ JobsRight
  BY DEF IInv
<1>5. b \in Browsers
  BY <1>2, <1>3, <1>4, JobIs DEF JobFits
<1>6. t \in Tokens /\ t \notin Made /\ t # NoToken
  BY <1>1, NewRow, NoneIsNoRow DEF IssueSession
<1>7. /\ token' = [token EXCEPT ![t] = New]
      /\ jar' = [jar EXCEPT ![b] = t]
      /\ chain' = [chain EXCEPT ![t] = t]
      /\ handler' = [handler EXCEPT ![h] = Idle]
      /\ UNCHANGED <<link, doomed, troubled, together, shared, spent>>
  BY <1>1, <1>2 DEF IssueSession, Ends
<1>8. /\ token'[t] = New /\ \A s \in Tokens \ {t} : token'[s] = token[s]
      /\ jar'[b] = t /\ \A c \in Browsers \ {b} : jar'[c] = jar[c]
      /\ chain'[t] = t /\ \A s \in Tokens \ {t} : chain'[s] = chain[s]
  BY <1>4, <1>5, <1>6, <1>7 DEF TypeOK
<1>9. /\ New.state = "live" /\ New \in Token
  BY DEF New, Token
<1>10. Live' = Live \cup {t} /\ Made' = Made \cup {t} /\ LiveLinks' = LiveLinks /\ Asked' = Asked
  BY <1>6, <1>7, <1>8, <1>9 DEF Live, Made, LiveLinks, Asked
<1>11. TypeOK'
  BY <1>4, <1>5, <1>6, <1>7, <1>9 DEF TypeOK, Token, Job, Tokens, Links, Tasks, Purposes,
                                  NoToken, NoLink, Idle
<1>12. JobsRight'
  <2>1. ASSUME NEW i, JobRight(i) PROVE JobRight(i)'
    <3>1. ASSUME i # Idle, JobFits(i), Peaceful(i), ~troubled' PROVE Peaceful(i)'
      <4>1. i.token = NoToken \/ i.token \in Made
        BY <2>1, <3>1 DEF JobRight
      <4>2. i.token # t
        BY <4>1, <1>6
      <4>3. ASSUME i.token \in Tokens, Raced(i.token) PROVE Raced(i.token)'
        BY <4>2, <4>3, <1>6, <1>8, <1>10 DEF Raced
      <4>4. i.for = "reuse" => i.token \in Tokens
        BY <3>1 DEF JobFits
      <4>5. i.task \in {"rotate", "superseded", "next"} => i.for = "reuse"
        BY <3>1 DEF JobFits
      <4> QED
        BY <3>1, <4>2, <4>3, <4>4, <4>5, <1>8, <1>10 DEF Peaceful
    <3> QED
      BY <2>1, <3>1, <1>7, <1>10, JobStays
  <2>2. JobRight(Idle)'
    BY DEF JobRight
  <2> QED
    BY <2>1, <2>2, <1>4, <1>7, OneJob DEF JobsRight, TypeOK
<1>13. RowsRight'
  <2>1. \A s \in Made' : chain'[s] \in Made'
    BY <1>6, <1>8, <1>10, LiveIsMade DEF IInv, RowsRight
  <2>2. \A c \in Browsers : jar'[c] = NoToken \/ jar'[c] \in Made'
    BY <1>8, <1>10 DEF IInv, RowsRight
  <2>3. doomed'.tokens \subseteq Made' /\ doomed'.links \subseteq Asked'
    BY <1>7, <1>10 DEF IInv, RowsRight
  <2>4. ChainsDoNotFork'
    <3>1. \A s \in Live : s \in Tokens \ {t} /\ chain[s] \in Made /\ chain[s] # t
      BY <1>6, LiveIsMade DEF IInv, RowsRight
    <3> QED
      BY <3>1, <1>8, <1>10 DEF IInv, RowsRight, ChainsDoNotFork
  <2> QED
    BY <2>1, <2>2, <2>3, <2>4 DEF RowsRight
<1>14. JarsRight'
  <2>1. \A c \in Browsers : jar[c] # t
    BY <1>6 DEF IInv, RowsRight
  <2> QED
    BY <2>1, <1>7, <1>8, <1>10 DEF IInv, JarsRight
<1>15. LinksRight' /\ SpentRight'
  BY <1>7, Rests, LinksStay DEF Tasks
<1>16. DoomRight'
  <2>1. ~WillEndSessions(handler[h]) /\ ~WillEndLinks(handler[h])
    BY <1>3 DEF WillEndSessions, WillEndLinks
  <2>2. Live' \cap doomed.tokens \subseteq Live
    BY <1>6, <1>10 DEF IInv, RowsRight
  <2> QED
    BY <2>1, <2>2, <1>7, <1>10, DoomStays
<1> QED
  BY <1>11, <1>12, <1>13, <1>14, <1>15, <1>16 DEF IInv

\* The claim of a rotation: its token ends and the next of its chain begins.
LEMMA RotateKeeps ==
    ASSUME IInv, NEW h \in Handlers, Rotate(h), Claimed(handler[h].token)
    PROVE  IInv'
<1>1. PICK n : n = Least(Unminted)
  OBVIOUS
<1>2. PICK b : b = handler[h].browser
  OBVIOUS
<1>3. PICK t : t = handler[h].token
  OBVIOUS
<1>4. handler[h].task = "rotate" /\ handler[h].task \in Tasks
  BY DEF Rotate, Tasks
<1>5. TypeOK /\ JobsRight
  BY DEF IInv
<1>6. /\ b \in Browsers /\ t \in Tokens /\ t \in Live /\ t \in Made
      /\ handler[h] # Idle
      /\ troubled \/ \A c \in Browsers \ {b} : jar[c] # t
  <2>1. JobFits(handler[h]) /\ handler[h].for = "reuse" /\ (troubled \/ Peaceful(handler[h]))
        /\ handler[h] # Idle
    BY <1>4, <1>5, JobIs DEF JobFits
  <2>2. b \in Browsers /\ t \in Tokens
    BY <2>1, <1>2, <1>3 DEF JobFits
  <2>3. t \in Live
    BY <2>2, <1>3 DEF Claimed, Live
  <2> QED
    BY <2>1, <2>2, <2>3, <1>2, <1>3, LiveIsMade DEF Peaceful
<1>7. n \in Tokens /\ n \notin Made /\ n # NoToken /\ n # t
  BY <1>1, <1>6, NewRow, NoneIsNoRow DEF Rotate
<1>8. /\ token' = [token EXCEPT
                      ![t] = [@ EXCEPT !.state = "revoked", !.next = n, !.recent = TRUE],
                      ![n] = New]
      /\ chain' = [chain EXCEPT ![n] = chain[t]]
      /\ handler' = [handler EXCEPT ![h] = Idle]
      /\ UNCHANGED <<link, doomed, together, shared, spent>>
  BY <1>1, <1>3 DEF Rotate, Ends
<1>9. PICK heard \in BOOLEAN :
          /\ jar' = IF heard THEN [jar EXCEPT ![b] = n] ELSE jar
          /\ troubled' = (troubled \/ ~heard \/ Hurried(t))
  <2>1. \E heard \in BOOLEAN :
            /\ jar' = IF heard THEN [jar EXCEPT ![handler[h].browser] = n] ELSE jar
            /\ troubled' = (troubled \/ ~heard \/ Hurried(handler[h].token))
    BY <1>1 DEF Rotate
  <2> QED
    BY <2>1, <1>2, <1>3
<1>10. /\ token'[n] = New /\ \A s \in Tokens \ {t, n} : token'[s] = token[s]
       /\ chain'[n] = chain[t] /\ \A s \in Tokens \ {n} : chain'[s] = chain[s]
  BY <1>5, <1>6, <1>7, <1>8 DEF TypeOK
<1>11. token'[t] \in Token /\ token'[t].state = "revoked" /\ token'[t].next = n /\ token'[t].recent
  <2>1. PICK row \in Token : row = token[t]
    BY <1>5, <1>6 DEF TypeOK
  <2>2. token'[t] = [row EXCEPT !.state = "revoked", !.next = n, !.recent = TRUE]
    BY <2>1, <1>5, <1>6, <1>7, <1>8 DEF TypeOK
  <2> QED
    BY <2>1, <2>2, <1>7 DEF Token
<1>12. New.state = "live" /\ New \in Token
  BY DEF New, Token
<1>13. /\ Live' = (Live \ {t}) \cup {n} /\ Made' = Made \cup {n}
       /\ LiveLinks' = LiveLinks /\ Asked' = Asked
  <2>1. token'[n].state = "live" /\ token'[t].state = "revoked"
    BY <1>10, <1>11, <1>12
  <2>2. \A s \in Tokens : s # t /\ s # n => token'[s].state = token[s].state
    BY <1>10
  <2>3. token[t].state = "live" /\ n \in Tokens /\ t \in Tokens /\ n # t
    BY <1>6, <1>7 DEF Live
  <2>4. Live' = (Live \ {t}) \cup {n}
    BY <2>1, <2>2, <2>3 DEF Live
  <2>5. Made' = Made \cup {n}
    BY <2>1, <2>2, <2>3 DEF Made
  <2> QED
    BY <2>4, <2>5, <1>8 DEF LiveLinks, Asked
<1>14. TypeOK'
  <2>1. token' \in [Tokens -> Token]
    <3>1. \A s \in Tokens : token'[s] \in Token
      BY <1>5, <1>10, <1>11, <1>12 DEF TypeOK
    <3>2. token' = [s \in Tokens |-> token'[s]]
      BY <1>5, <1>8 DEF TypeOK
    <3> QED
      BY <3>1, <3>2
  <2>2. jar' \in [Browsers -> Tokens \cup {NoToken}] /\ troubled' \in BOOLEAN
    BY <1>5, <1>7, <1>9 DEF TypeOK, Hurried, Carried
  <2>3. chain' \in [Tokens -> Tokens \cup {NoToken}]
    BY <1>5, <1>6, <1>7, <1>8 DEF TypeOK
  <2>4. handler' \in [Handlers -> Job \cup {Idle}]
    BY <1>5, <1>8 DEF TypeOK
  <2> QED
    BY <2>1, <2>2, <2>3, <2>4, <1>5, <1>8 DEF TypeOK, Token, Job, Tokens, Links, Tasks, Purposes,
                                  NoToken, NoLink, Idle
<1>15. JobsRight'
  <2>1. ASSUME NEW g \in Handlers \ {h}, NEW i, i = handler[g] PROVE JobRight(i)'
    <3>1. JobRight(i) /\ (i # Idle => i.token = NoToken \/ i.token \in Made)
      BY <2>1, <1>5 DEF JobsRight, JobRight
    <3>2. ASSUME i # Idle, JobFits(i), Peaceful(i), ~troubled' PROVE Peaceful(i)'
      <4>1. ~troubled /\ ~Hurried(t) /\ jar' = [jar EXCEPT ![b] = n]
        BY <3>2, <1>9
      <4>2. i.token # n
        BY <3>1, <3>2, <1>7
      <4>3. i.for = "reuse" => i.token \in Tokens
        BY <3>2 DEF JobFits
      <4>4. i.task \in {"rotate", "superseded", "next"} => i.for = "reuse"
        BY <3>2 DEF JobFits
      <4>5. ASSUME i.token \in Tokens, Raced(i.token) PROVE Raced(i.token)'
        <5>1. Carried(i.token)
          BY <2>1, <3>2 DEF Carried
        <5>2. token[i.token].next # t
          BY <4>1, <4>5, <5>1 DEF Hurried
        <5>3. i.token # t
          BY <4>5, <1>6 DEF Raced, Live
        <5> QED
          BY <4>2, <4>5, <5>2, <5>3, <1>10, <1>13 DEF Raced
      <4>6. ASSUME i.token = t PROVE Raced(i.token)'
        BY <4>6, <1>11, <1>13 DEF Raced
      <4>7. i.task = "rotate" => i.token \in Live' \/ Raced(i.token)'
        BY <3>2, <4>3, <4>4, <4>5, <4>6, <1>13 DEF Peaceful
      <4>8. i.task \in {"superseded", "next"} => Raced(i.token)'
        BY <3>2, <4>3, <4>4, <4>5 DEF Peaceful
      <4>9. \A c \in Browsers : jar'[c] = jar[c] \/ jar'[c] = n
        BY <4>1, <1>5 DEF TypeOK
      <4> QED
        BY <3>2, <4>2, <4>7, <4>8, <4>9 DEF Peaceful
    <3> QED
      BY <3>1, <3>2, <1>9, <1>13, JobStays
  <2>2. JobRight(Idle)'
    BY DEF JobRight
  <2> QED
    BY <2>1, <2>2, <1>5, <1>8, OneJob DEF TypeOK
<1>16. RowsRight'
  <2>1. \A s \in Made' : chain'[s] \in Made'
    BY <1>6, <1>10, <1>13, LiveIsMade DEF IInv, RowsRight
  <2>2. \A c \in Browsers : jar'[c] = NoToken \/ jar'[c] \in Made'
    BY <1>5, <1>9, <1>13 DEF IInv, RowsRight, TypeOK
  <2>3. doomed'.tokens \subseteq Made' /\ doomed'.links \subseteq Asked'
    BY <1>8, <1>13 DEF IInv, RowsRight
  <2>4. ChainsDoNotFork'
    <3>1. \A s \in Live : s \in Tokens \ {n}
      BY <1>7, LiveIsMade
    <3>2. \A s \in Live \ {t} : chain[s] # chain[t]
      BY <1>6 DEF IInv, RowsRight, ChainsDoNotFork
    <3> QED
      BY <3>1, <3>2, <1>10, <1>13 DEF IInv, RowsRight, ChainsDoNotFork
  <2> QED
    BY <2>1, <2>2, <2>3, <2>4 DEF RowsRight
<1>17. JarsRight'
  <2> SUFFICES ASSUME ~troubled'
               PROVE  \A c \in Browsers : jar'[c] # NoToken =>
                          jar'[c] \in Live' /\ \A a \in Browsers \ {c} : jar'[a] # jar'[c]
    BY DEF JarsRight
  <2>1. ~troubled /\ jar' = [jar EXCEPT ![b] = n]
    BY <1>9
  <2>2. jar'[b] = n /\ \A c \in Browsers \ {b} : jar'[c] = jar[c] /\ jar[c] # t /\ jar[c] # n
    BY <2>1, <1>5, <1>6, <1>7 DEF IInv, RowsRight, TypeOK
  <2> QED
    BY <2>1, <2>2, <1>13 DEF IInv, JarsRight
<1>18. LinksRight' /\ SpentRight'
  BY <1>8, Rests, LinksStay DEF Tasks
<1>19. DoomRight'
  <2>1. ~WillEndSessions(handler[h]) /\ ~WillEndLinks(handler[h])
    BY <1>4 DEF WillEndSessions, WillEndLinks
  <2>2. Live' \cap doomed.tokens \subseteq Live
    BY <1>7, <1>13 DEF IInv, RowsRight
  <2> QED
    BY <2>1, <2>2, <1>8, <1>13, DoomStays
<1> QED
  BY <1>14, <1>15, <1>16, <1>17, <1>18, <1>19 DEF IInv

\* The UPDATE ends what it saw; a change of password goes on to the links.
LEMMA RevokeKeeps ==
    ASSUME IInv, NEW h \in Handlers, Revoke(h)
    PROVE  IInv'
<1>1. handler[h].task = "revoke" /\ handler[h].task \in Tasks
  BY DEF Revoke, Tasks
<1>2. TypeOK /\ JobsRight
  BY DEF IInv
<1>3. /\ JobFits(handler[h]) /\ handler[h] \in Job
      /\ handler[h].token = NoToken \/ handler[h].token \in Made
      /\ troubled
  BY <1>1, <1>2, JobIs DEF JobFits, Peaceful
<1>4. PICK ended : ended = handler[h].targets \cap Live
  OBVIOUS
<1>5. /\ token' = [s \in Tokens |-> IF s \in ended
                                     THEN [token[s] EXCEPT !.state = "revoked"] ELSE token[s]]
      /\ UNCHANGED <<link, chain, doomed, troubled, together, shared, spent>>
  BY <1>4 DEF Revoke, histories
<1>6. ASSUME NEW s \in Tokens
      PROVE  /\ token'[s] \in Token
             /\ s \notin ended => token'[s] = token[s]
             /\ s \in ended => token'[s].state = "revoked"
  <2>1. PICK row \in Token : row = token[s]
    BY <1>2 DEF TypeOK
  <2>2. token'[s] = IF s \in ended THEN [row EXCEPT !.state = "revoked"] ELSE row
    BY <2>1, <1>5
  <2> QED
    BY <2>1, <2>2 DEF Token
<1>7. Live' = Live \ ended /\ Made' = Made /\ LiveLinks' = LiveLinks /\ Asked' = Asked
  <2>1. \A s \in Tokens : token'[s].state = "live" <=> token[s].state = "live" /\ s \notin ended
    BY <1>6
  <2>2. \A s \in ended : token[s].state = "live"
    BY <1>4 DEF Live
  <2>3. \A s \in Tokens : token'[s].state # "none" <=> token[s].state # "none"
    BY <1>6, <2>2
  <2> QED
    BY <2>1, <2>3, <1>5 DEF Live, Made, LiveLinks, Asked
<1>8. jar' \in [Browsers -> Tokens \cup {NoToken}]
      /\ \A c \in Browsers : jar'[c] = NoToken \/ jar'[c] = jar[c]
  BY <1>2 DEF Revoke, TypeOK
<1>9. PICK j \in Job \cup {Idle} :
          /\ handler' = [handler EXCEPT ![h] = j]
          /\ j = Idle \/ j.task = "burn"
          /\ JobRight(j)
          /\ handler[h].for = "change" => WillEndLinks(j)
  <2>1. CASE handler[h].for = "change"
    <3>1. PICK j : j = [handler[h] EXCEPT !.task = "burn"]
      OBVIOUS
    <3>2. "burn" \in Tasks /\ Goes(h, "burn")
      BY <2>1 DEF Tasks, Revoke
    <3>3. /\ j \in Job /\ j.task = "burn" /\ j.for = "change"
          /\ j.token = handler[h].token /\ j.link = handler[h].link
          /\ handler' = [handler EXCEPT ![h] = j]
      BY <2>1, <3>1, <3>2, <1>1, <1>2, Retasked
    <3>4. JobRight(j) /\ WillEndLinks(j)
      BY <3>3, <1>3 DEF JobRight, JobFits, WillEndLinks
    <3> QED
      BY <3>3, <3>4
  <2>2. CASE handler[h].for # "change"
    BY <2>2, Rests DEF Revoke, Ends
  <2> QED
    BY <2>1, <2>2
<1>10. TypeOK'
  <2>1. token' \in [Tokens -> Token]
    BY <1>5, <1>6
  <2>2. handler' \in [Handlers -> Job \cup {Idle}]
    BY <1>2, <1>9 DEF TypeOK
  <2> QED
    BY <2>1, <2>2, <1>2, <1>5, <1>8 DEF TypeOK, Token, Job, Tokens, Links, Tasks, Purposes,
                                        NoToken, NoLink, Idle
<1>11. JobsRight'
  <2>1. ASSUME NEW i, JobRight(i) PROVE JobRight(i)'
    BY <2>1, <1>3, <1>5, <1>7, JobStays
  <2> QED
    BY <2>1, <1>2, <1>9, OneJob DEF JobsRight, TypeOK
<1>12. RowsRight' /\ JarsRight'
  BY <1>3, <1>5, <1>7, <1>8 DEF IInv, RowsRight, JarsRight, ChainsDoNotFork
<1>13. LinksRight' /\ SpentRight'
  BY <1>5, <1>9, Rests, LinksStay
<1>14. DoomRight'
  <2>1. handler'[h] = j /\ \A g \in Handlers \ {h} : handler'[g] = handler[g]
    BY <1>2, <1>9 DEF TypeOK
  <2>2. ASSUME Live' \cap doomed.tokens # {}
        PROVE  \E g \in Handlers : WillEndSessions(handler[g])'
    <3>1. PICK g \in Handlers : WillEndSessions(handler[g])
      BY <2>2, <1>7 DEF IInv, DoomRight
    <3>2. g # h
      BY <1>1, <1>4, <1>7, <2>2, <3>1 DEF WillEndSessions
    <3> QED
      BY <3>1, <3>2, <2>1, <1>5, <1>7 DEF WillEndSessions
  <2>3. ASSUME ~together, LiveLinks \cap doomed.links # {}
        PROVE  \E g \in Handlers : WillEndLinks(handler[g])'
    <3>1. PICK g \in Handlers : WillEndLinks(handler[g])
      BY <2>3 DEF IInv, DoomRight
    <3>2. CASE g # h
      BY <3>1, <3>2, <2>1 DEF WillEndLinks
    <3>3. CASE g = h
      <4>1. WillEndLinks(j)
        BY <3>1, <3>3, <1>9 DEF WillEndLinks
      <4> QED
        BY <4>1, <2>1 DEF WillEndLinks
    <3> QED
      BY <3>2, <3>3
  <2> QED
    BY <2>2, <2>3, <1>5, <1>7 DEF DoomRight
<1> QED
  BY <1>10, <1>11, <1>12, <1>13, <1>14 DEF IInv

\* No request changes: links and what is to be ended stay as they are, as far
\* as live tokens only become fewer.
LEMMA NoRequest ==
    ASSUME IInv, UNCHANGED <<handler, link, doomed, together, shared, spent>>, Live' \subseteq Live
    PROVE  LinksRight' /\ SpentRight' /\ DoomRight'
<1>1. LiveLinks' = LiveLinks /\ \A task : Doing(task)' = Doing(task)
  BY DEF LiveLinks, Doing
<1>2. LinksRight' /\ SpentRight'
  BY <1>1 DEF IInv, LinksRight, SpentRight
<1>3. \A g \in Handlers : /\ WillEndSessions(handler[g]) => WillEndSessions(handler[g])'
                          /\ WillEndLinks(handler[g]) => WillEndLinks(handler[g])'
  BY DEF WillEndSessions, WillEndLinks
<1> QED
  BY <1>1, <1>2, <1>3 DEF IInv, DoomRight

\* Signing out.
LEMMA LogoutKeeps ==
    ASSUME IInv, NEW b \in Browsers, Logout(b)
    PROVE  IInv'
<1>1. PICK t : t = jar[b]
  OBVIOUS
<1>2. TypeOK /\ JobsRight
  BY DEF IInv
<1>3. t \in Tokens
  BY <1>1, <1>2 DEF Logout, TypeOK
<1>4. /\ token' = IF t \in Live THEN [token EXCEPT ![t].state = "revoked"] ELSE token
      /\ jar' = [jar EXCEPT ![b] = NoToken]
      /\ troubled' = TRUE
      /\ UNCHANGED <<link, handler, chain, doomed, together, shared, spent>>
  BY <1>1 DEF Logout
<1>5. token' \in [Tokens -> Token] /\ Live' \subseteq Live /\ Made' = Made /\ Asked' = Asked
  <2>1. CASE t \in Live
    <3>1. PICK row \in Token : row = token[t]
      BY <1>2, <1>3 DEF TypeOK
    <3>2. token' = [token EXCEPT ![t] = [row EXCEPT !.state = "revoked"]]
      BY <2>1, <3>1, <1>2, <1>3, <1>4 DEF TypeOK
    <3>0. PICK new : new = [row EXCEPT !.state = "revoked"]
      OBVIOUS
    <3>3. new \in Token /\ new.state = "revoked"
      BY <3>0 DEF Token
    <3>4. token' = [token EXCEPT ![t] = new]
      BY <3>2, <3>0
    <3>5. token[t].state = "live"
      BY <2>1 DEF Live
    <3> QED
      BY <3>3, <3>4, <3>5, <1>2, <1>3, <1>4 DEF TypeOK, Live, Made, Asked
  <2>2. CASE t \notin Live
    BY <2>2, <1>2, <1>4 DEF TypeOK, Live, Made, Asked
  <2> QED
    BY <2>1, <2>2
<1>6. TypeOK'
  BY <1>2, <1>4, <1>5 DEF TypeOK, Token, Job, Tokens, Links, Tasks, Purposes,
                          NoToken, NoLink, Idle
<1>7. JobsRight'
  <2>1. ASSUME NEW g \in Handlers PROVE JobRight(handler[g])'
    <3>1. PICK i : i = handler[g]
      OBVIOUS
    <3>2. JobRight(i)
      BY <3>1, <1>2 DEF JobsRight
    <3>3. JobRight(i)' /\ handler'[g] = i
      BY <3>1, <3>2, <1>4, <1>5, JobStays
    <3> QED
      BY <3>3 DEF JobRight, JobFits, Peaceful, Raced
  <2> QED
    BY <2>1 DEF JobsRight
<1>8. RowsRight' /\ JarsRight'
  BY <1>2, <1>4, <1>5 DEF IInv, TypeOK, RowsRight, JarsRight, ChainsDoNotFork
<1>9. LinksRight' /\ SpentRight' /\ DoomRight'
  BY <1>4, <1>5, NoRequest
<1> QED
  BY <1>6, <1>7, <1>8, <1>9 DEF IInv

\* The grace of a rotation ends.
LEMMA GraceKeeps ==
    ASSUME IInv, NEW t \in Tokens, GraceEnds(t)
    PROVE  IInv'
<1>1. TypeOK /\ JobsRight
  BY DEF IInv
<1>2. /\ token' = [token EXCEPT ![t].recent = FALSE]
      /\ troubled' = (troubled \/ \E h \in Handlers : handler[h] # Idle /\ handler[h].token = t)
      /\ UNCHANGED <<jar, link, handler, chain, doomed, together, shared, spent>>
  BY DEF GraceEnds
<1>3. PICK new \in Token : /\ token' = [token EXCEPT ![t] = new]
                           /\ new.state = token[t].state /\ new.next = token[t].next
  <2>1. PICK row \in Token : row = token[t]
    BY <1>1 DEF TypeOK
  <2>2. PICK new : new = [row EXCEPT !.recent = FALSE]
    OBVIOUS
  <2>3. new \in Token /\ new.state = row.state /\ new.next = row.next
    BY <2>2 DEF Token
  <2>4. token' = [token EXCEPT ![t] = new]
    BY <2>1, <2>2, <1>1, <1>2 DEF TypeOK
  <2> QED
    BY <2>1, <2>3, <2>4
<1>4. token' \in [Tokens -> Token] /\ \A s \in Tokens \ {t} : token'[s] = token[s]
  BY <1>1, <1>3 DEF TypeOK
<1>5. Live' = Live /\ Made' = Made /\ Asked' = Asked
  BY <1>1, <1>2, <1>3 DEF TypeOK, Live, Made, Asked
<1>6. TypeOK'
  BY <1>1, <1>2, <1>4 DEF TypeOK, Token, Job, Tokens, Links, Tasks, Purposes,
                          NoToken, NoLink, Idle
<1>7. JobsRight'
  <2>1. ASSUME NEW g \in Handlers PROVE JobRight(handler[g])'
    <3>1. PICK i : i = handler[g]
      OBVIOUS
    <3>2. JobRight(i)
      BY <3>1, <1>1 DEF JobsRight
    <3>3. ASSUME i # Idle, JobFits(i), Peaceful(i), ~troubled' PROVE Peaceful(i)'
      <4>1. i.token # t
        BY <3>1, <3>3, <1>2
      <4>2. ASSUME i.token \in Tokens, Raced(i.token) PROVE Raced(i.token)'
        BY <4>1, <4>2, <1>4, <1>5 DEF Raced
      <4>3. i.for = "reuse" => i.token \in Tokens
        BY <3>3 DEF JobFits
      <4>4. i.task \in {"rotate", "superseded", "next"} => i.for = "reuse"
        BY <3>3 DEF JobFits
      <4> QED
        BY <3>3, <4>2, <4>3, <4>4, <1>2, <1>5 DEF Peaceful
    <3>4. JobRight(i)' /\ handler'[g] = i
      BY <3>1, <3>2, <3>3, <1>2, <1>5, JobStays
    <3> QED
      BY <3>4 DEF JobRight, JobFits, Peaceful, Raced
  <2> QED
    BY <2>1 DEF JobsRight
<1>8. RowsRight' /\ JarsRight'
  BY <1>2, <1>5 DEF IInv, RowsRight, JarsRight, ChainsDoNotFork
<1>9. LinksRight' /\ SpentRight' /\ DoomRight'
  BY <1>2, <1>5, NoRequest
<1> QED
  BY <1>6, <1>7, <1>8, <1>9 DEF IInv

-----------------------------------------------------------------------------
(***************************************************************************)
(* Passwords and links                                                     *)
(***************************************************************************)

\* Steps beside the tokens keep what is right of rows, jars and requests.
LEMMA BesideTokens ==
    ASSUME IInv, NEW h \in Handlers, NEW j \in Job \cup {Idle},
           handler' = [handler EXCEPT ![h] = j],
           \/ j = Idle
           \/ /\ JobFits(j)
              /\ j.token = NoToken \/ j.token \in Made
              /\ troubled' \/ Peaceful(j),
           UNCHANGED <<token, jar, chain>>,
           troubled' \in BOOLEAN, troubled => troubled', together' \in BOOLEAN,
           link' \in [Links -> {"none", "live", "used"}],
           doomed' \in [tokens : SUBSET Tokens, links : SUBSET Links],
           doomed'.tokens \subseteq Made, doomed'.links \subseteq Asked',
           shared' \subseteq Links, spent' \in [Links -> Nat]
    PROVE  TypeOK' /\ JobsRight' /\ RowsRight' /\ JarsRight'
<1>1. Live' = Live /\ Made' = Made
  BY DEF Live, Made
<1>2. handler \in [Handlers -> Job \cup {Idle}]
  BY DEF IInv, TypeOK
<1>3. TypeOK'
  BY <1>2 DEF IInv, TypeOK, Token, Job, Tokens, Links, Tasks, Purposes, NoToken, NoLink, Idle
<1>4. ASSUME NEW i PROVE /\ JobFits(i)' <=> JobFits(i)
                         /\ Peaceful(i)' <=> Peaceful(i)
  BY <1>1 DEF JobFits, Job, Tasks, Purposes, Tokens, Links, NoToken, NoLink, Peaceful, Raced
<1>5. JobRight(j)'
  BY <1>1, <1>4 DEF JobRight
<1>6. JobsRight'
  <2>1. ASSUME NEW i, JobRight(i) PROVE JobRight(i)'
    BY <2>1, <1>1, <1>4 DEF JobRight
  <2> QED
    BY <2>1, <1>2, <1>5, OneJob DEF IInv, JobsRight
<1>7. RowsRight' /\ JarsRight'
  BY <1>1 DEF IInv, RowsRight, JarsRight, ChainsDoNotFork
<1> QED
  BY <1>3, <1>6, <1>7

\* The password is set, and with it is said what is to end.
LEMMA SetKeeps ==
    ASSUME IInv, NEW h \in Handlers, SetPassword(h)
    PROVE  IInv'
<1>1. handler[h].task = "set" /\ handler[h].task \in Tasks
  BY DEF SetPassword, Tasks
<1>2. TypeOK /\ JobsRight
  BY DEF IInv
<1>3. /\ JobFits(handler[h]) /\ handler[h].for = "change"
      /\ handler[h].token = NoToken \/ handler[h].token \in Made
  BY <1>1, <1>2, JobIs DEF JobFits
<1>4. /\ Goes(h, "snapshot") /\ troubled'
      /\ doomed' = [tokens |-> Live \ {handler[h].token}, links |-> LiveLinks]
      /\ UNCHANGED <<token, jar, link, chain, together, shared, spent>>
  BY DEF SetPassword, Doomed
<1>5. PICK j : j = [handler[h] EXCEPT !.task = "snapshot"]
  OBVIOUS
<1>6. /\ j \in Job /\ j.task = "snapshot" /\ j.for = "change"
      /\ j.browser = handler[h].browser /\ j.token = handler[h].token
      /\ handler' = [handler EXCEPT ![h] = j]
  BY <1>1, <1>2, <1>3, <1>4, <1>5, Retasked DEF Tasks
<1>7. JobFits(j)
  BY <1>6 DEF JobFits
<1>8. TypeOK' /\ JobsRight' /\ RowsRight' /\ JarsRight'
  <2>1. doomed' \in [tokens : SUBSET Tokens, links : SUBSET Links]
        /\ doomed'.tokens \subseteq Made /\ doomed'.links \subseteq Asked'
    BY <1>4, LiveIsMade DEF Asked
  <2>2. /\ link' \in [Links -> {"none", "live", "used"}] /\ together' \in BOOLEAN
        /\ shared' \subseteq Links /\ spent' \in [Links -> Nat] /\ troubled' \in BOOLEAN
    BY <1>2, <1>4 DEF SetPassword, TypeOK
  <2> QED
    BY <2>1, <2>2, <1>3, <1>4, <1>6, <1>7, BesideTokens
<1>9. LinksRight' /\ SpentRight'
  BY <1>4, <1>6, LinksStay
<1>10. DoomRight'
  <2>1. handler'[h] = j /\ j.token \notin doomed'.tokens
    BY <1>2, <1>4, <1>6 DEF TypeOK
  <2>2. WillEndSessions(handler[h])' /\ WillEndLinks(handler[h])'
    BY <2>1, <1>6 DEF WillEndSessions, WillEndLinks
  <2> QED
    BY <2>2 DEF DoomRight
<1> QED
  BY <1>8, <1>9, <1>10 DEF IInv

\* All links are burned.
LEMMA NoLinkLives ==
    ASSUME TypeOK, link' = Burned(LiveLinks)
    PROVE  /\ link' \in [Links -> {"none", "live", "used"}]
           /\ LiveLinks' = {} /\ Asked' = Asked
           /\ \A k \in Links : link'[k] # "used" => link[k] # "used"
  BY DEF TypeOK, Burned, LiveLinks, Asked

\* Every link that lives is burned.
LEMMA BurnKeeps ==
    ASSUME IInv, NEW h \in Handlers, Burn(h)
    PROVE  IInv'
<1>1. handler[h].task = "burn" /\ handler' = [handler EXCEPT ![h] = Idle]
  BY DEF Burn, Ends
<1>2. UNCHANGED <<token, jar, chain, doomed, troubled, together, shared, spent>>
  BY DEF Burn, histories
<1>3. TypeOK /\ link' = Burned(LiveLinks)
  BY DEF IInv, Burn, BurntBy
<1>4. TypeOK' /\ JobsRight' /\ RowsRight' /\ JarsRight'
  <2>1. doomed'.tokens \subseteq Made /\ doomed'.links \subseteq Asked'
    BY <1>2, <1>3, NoLinkLives DEF IInv, RowsRight
  <2> QED
    BY <2>1, <1>1, <1>2, <1>3, NoLinkLives, BesideTokens DEF TypeOK
<1>5. handler'[h] = Idle /\ \A g \in Handlers \ {h} : handler'[g] = handler[g]
  BY <1>1, <1>3 DEF TypeOK
<1>6. Doing("create")' \subseteq Doing("create") /\ Doing("redeem")' \subseteq Doing("redeem")
      /\ \A g \in Doing("redeem")' : handler'[g] = handler[g]
  BY <1>5, Rests DEF Doing
<1>7. LinksRight'
  BY <1>2, <1>3, <1>6, NoLinkLives DEF IInv, LinksRight
<1>8. SpentRight'
  BY <1>2, <1>3, <1>6, NoLinkLives DEF IInv, SpentRight
<1>9. DoomRight'
  <2>1. \A g \in Handlers : WillEndSessions(handler[g]) => g # h
    BY <1>1 DEF WillEndSessions
  <2>2. Live' = Live /\ LiveLinks' = {}
    BY <1>2, <1>3, NoLinkLives DEF Live
  <2>3. \A g \in Handlers : WillEndSessions(handler[g]) => WillEndSessions(handler[g])'
    BY <2>1, <2>2, <1>2, <1>5 DEF WillEndSessions
  <2> QED
    BY <2>2, <2>3, <1>2 DEF IInv, DoomRight
<1> QED
  BY <1>4, <1>7, <1>8, <1>9 DEF IInv

\* Asking for a link ends the ones there are.
LEMMA AskKeeps ==
    ASSUME IInv, NEW h \in Handlers, AskReset(h)
    PROVE  IInv'
<1>1. PICK j : j = [task |-> "create", for |-> "session", browser |-> NoBrowser,
                    token |-> NoToken, targets |-> {}, link |-> NoLink]
  OBVIOUS
<1>2. /\ j \in Job /\ j.task = "create" /\ j.for = "session" /\ j.token = NoToken
  BY <1>1 DEF Job, Tasks, Purposes
<1>3. /\ handler[h] = Idle /\ handler' = [handler EXCEPT ![h] = j]
      /\ together' = (together \/ Doing("create") # {})
      /\ UNCHANGED <<token, jar, chain, doomed, troubled, shared, spent>>
  BY <1>1 DEF AskReset, Begins
<1>4. TypeOK /\ link' = Burned(LiveLinks)
  BY DEF IInv, AskReset, Invalidated
<1>5. JobFits(j) /\ Peaceful(j)
  BY <1>2 DEF JobFits, Peaceful
<1>6. TypeOK' /\ JobsRight' /\ RowsRight' /\ JarsRight'
  <2>1. doomed'.tokens \subseteq Made /\ doomed'.links \subseteq Asked'
    BY <1>3, <1>4, NoLinkLives DEF IInv, RowsRight
  <2>2. together' \in BOOLEAN
    BY <1>3, <1>4 DEF TypeOK
  <2> QED
    BY <2>1, <2>2, <1>2, <1>3, <1>4, <1>5, NoLinkLives, BesideTokens DEF TypeOK
<1>7. handler'[h] = j /\ \A g \in Handlers \ {h} : handler'[g] = handler[g]
  BY <1>3, <1>4 DEF TypeOK
<1>8. Doing("create")' \subseteq Doing("create") \cup {h} /\ Doing("redeem")' \subseteq Doing("redeem")
      /\ \A g \in Doing("redeem")' : handler'[g] = handler[g]
  BY <1>2, <1>7 DEF Doing
<1>9. LinksRight'
  BY <1>3, <1>4, <1>8, NoLinkLives DEF IInv, LinksRight
<1>10. SpentRight'
  BY <1>3, <1>4, <1>8, NoLinkLives DEF IInv, SpentRight
<1>11. DoomRight'
  <2>1. \A g \in Handlers : WillEndSessions(handler[g]) => g # h
    BY <1>3, Rests
  <2>2. Live' = Live /\ LiveLinks' = {}
    BY <1>3, <1>4, NoLinkLives DEF Live
  <2>3. \A g \in Handlers : WillEndSessions(handler[g]) => WillEndSessions(handler[g])'
    BY <2>1, <2>2, <1>3, <1>7 DEF WillEndSessions
  <2> QED
    BY <2>2, <2>3, <1>3 DEF IInv, DoomRight
<1> QED
  BY <1>6, <1>9, <1>10, <1>11 DEF IInv

\* The link that was asked for.
LEMMA CreateKeeps ==
    ASSUME IInv, NEW h \in Handlers, CreateLink(h)
    PROVE  IInv'
<1>1. PICK k : k = Least(Unused)
  OBVIOUS
<1>2. k \in Links /\ k \notin Asked
  BY <1>1, NewRow DEF CreateLink
<1>3. /\ handler[h].task = "create" /\ handler' = [handler EXCEPT ![h] = Idle]
      /\ link' = [link EXCEPT ![k] = "live"]
      /\ UNCHANGED <<token, jar, chain, doomed, troubled, together, shared, spent>>
  BY <1>1 DEF CreateLink, Ends, histories
<1>4. TypeOK
  BY DEF IInv
<1>5. /\ link' \in [Links -> {"none", "live", "used"}]
      /\ LiveLinks' = LiveLinks \cup {k} /\ Asked' = Asked \cup {k}
      /\ \A l \in Links : link'[l] # "used" => link[l] # "used"
      /\ k \notin LiveLinks
  BY <1>2, <1>3, <1>4 DEF TypeOK, LiveLinks, Asked
<1>6. TypeOK' /\ JobsRight' /\ RowsRight' /\ JarsRight'
  <2>1. doomed'.tokens \subseteq Made /\ doomed'.links \subseteq Asked'
    BY <1>3, <1>5 DEF IInv, RowsRight
  <2> QED
    BY <2>1, <1>3, <1>4, <1>5, BesideTokens DEF TypeOK
<1>7. handler'[h] = Idle /\ \A g \in Handlers \ {h} : handler'[g] = handler[g]
  BY <1>3, <1>4 DEF TypeOK
<1>8. /\ Doing("create")' \subseteq Doing("create") \ {h} /\ h \in Doing("create")
      /\ Doing("redeem")' \subseteq Doing("redeem")
      /\ \A g \in Doing("redeem")' : handler'[g] = handler[g]
  BY <1>3, <1>7, Rests DEF Doing
<1>9. LinksRight'
  BY <1>3, <1>5, <1>8 DEF IInv, LinksRight
<1>10. SpentRight'
  BY <1>3, <1>5, <1>8 DEF IInv, SpentRight
<1>11. DoomRight'
  <2>1. ~WillEndSessions(handler[h]) /\ ~WillEndLinks(handler[h])
    BY <1>3 DEF WillEndSessions, WillEndLinks
  <2>2. LiveLinks' \cap doomed.links \subseteq LiveLinks /\ Live' = Live
    BY <1>2, <1>3, <1>5 DEF IInv, RowsRight, Live
  <2> QED
    BY <2>1, <2>2, <1>3, DoomStays
<1> QED
  BY <1>6, <1>9, <1>10, <1>11 DEF IInv

\* A link is opened.
LEMMA OpenKeeps ==
    ASSUME IInv, NEW h \in Handlers, NEW k \in Links, OpenLink(h, k)
    PROVE  IInv'
<1>1. PICK j : j = [task |-> "redeem", for |-> "reset", browser |-> NoBrowser,
                    token |-> NoToken, targets |-> {}, link |-> k]
  OBVIOUS
<1>2. j \in Job /\ j.task = "redeem" /\ j.for = "reset" /\ j.token = NoToken /\ j.link = k
  BY <1>1 DEF Job, Tasks, Purposes
<1>3. /\ handler[h] = Idle /\ handler' = [handler EXCEPT ![h] = j]
      /\ link[k] = "live"
      /\ UNCHANGED <<token, jar, link, chain, doomed, troubled, together, spent>>
      /\ shared \subseteq shared' /\ shared' \subseteq shared \cup {k}
      /\ k \in shared' \/ \A g \in Doing("redeem") : handler[g].link # k
  BY <1>1 DEF OpenLink, Begins, Usable
<1>4. TypeOK
  BY DEF IInv
<1>5. JobFits(j) /\ Peaceful(j)
  BY <1>2 DEF JobFits, Peaceful
<1>6. TypeOK' /\ JobsRight' /\ RowsRight' /\ JarsRight'
  <2>1. doomed'.tokens \subseteq Made /\ doomed'.links \subseteq Asked'
    BY <1>3 DEF IInv, RowsRight, Asked
  <2> QED
    BY <2>1, <1>2, <1>3, <1>4, <1>5, BesideTokens DEF TypeOK
<1>7. handler'[h] = j /\ \A g \in Handlers \ {h} : handler'[g] = handler[g]
  BY <1>3, <1>4 DEF TypeOK
<1>8. LiveLinks' = LiveLinks /\ Live' = Live
  BY <1>3 DEF LiveLinks, Live
<1>9. /\ Doing("create")' \subseteq Doing("create")
      /\ Doing("redeem")' = Doing("redeem") \cup {h}
      /\ \A g \in Doing("redeem") : handler'[g] = handler[g]
  BY <1>2, <1>3, <1>7, Rests DEF Doing, Idle
<1>10. LinksRight'
  BY <1>3, <1>8, <1>9 DEF IInv, LinksRight
<1>11. SpentRight'
  <2> SUFFICES ASSUME NEW l \in Links \ shared'
               PROVE  /\ \A g, i \in Doing("redeem")' :
                            handler'[g].link = l /\ handler'[i].link = l => g = i
                      /\ \A g \in Doing("redeem")' : handler'[g].link = l => spent'[l] = 0
                      /\ link'[l] # "used" => spent'[l] = 0
                      /\ spent'[l] <= 1
    BY DEF SpentRight
  <2>1. l \in Links \ shared
    BY <1>3
  <2>2. CASE l = k
    <3>1. \A g \in Doing("redeem")' : handler'[g].link = l => g = h
      BY <2>2, <1>3, <1>9
    <3> QED
      BY <2>1, <2>2, <3>1, <1>3 DEF IInv, SpentRight
  <2>3. CASE l # k
    <3>1. \A g \in Doing("redeem")' : handler'[g].link = l => g \in Doing("redeem") /\ handler[g].link = l
      BY <2>3, <1>2, <1>7, <1>9
    <3> QED
      BY <2>1, <3>1, <1>3 DEF IInv, SpentRight
  <2> QED
    BY <2>2, <2>3
<1>12. DoomRight'
  BY <1>3, <1>8, Rests, DoomStays
<1> QED
  BY <1>6, <1>10, <1>11, <1>12 DEF IInv

\* It sets the password, and is burned with that.
LEMMA RedeemKeeps ==
    ASSUME IInv, NEW h \in Handlers, Redeem(h)
    PROVE  IInv'
<1>1. PICK k : k = handler[h].link
  OBVIOUS
<1>2. handler[h].task = "redeem" /\ handler[h].task \in Tasks
  BY DEF Redeem, Tasks
<1>3. TypeOK /\ JobsRight
  BY DEF IInv
<1>4. /\ JobFits(handler[h]) /\ handler[h].for = "reset" /\ k \in Links
      /\ handler[h].token = NoToken \/ handler[h].token \in Made
  BY <1>1, <1>2, <1>3, JobIs DEF JobFits
<1>5. /\ link' = [link EXCEPT ![k] = "used"]
      /\ spent' = IF k \in shared THEN spent ELSE [spent EXCEPT ![k] = @ + 1]
      /\ doomed' = [tokens |-> Live, links |-> LiveLinks]
      /\ troubled' = TRUE
      /\ together' = (together \/ ~Usable(k))
      /\ Goes(h, "snapshot")
      /\ UNCHANGED <<token, jar, chain, shared>>
  BY <1>1 DEF Redeem, Doomed
<1>6. PICK j : j = [handler[h] EXCEPT !.task = "snapshot"]
  OBVIOUS
<1>7. /\ j \in Job /\ j.task = "snapshot" /\ j.for = "reset"
      /\ j.browser = handler[h].browser /\ j.token = handler[h].token
      /\ handler' = [handler EXCEPT ![h] = j]
  BY <1>2, <1>3, <1>4, <1>5, <1>6, Retasked DEF Tasks
<1>8. JobFits(j)
  BY <1>7 DEF JobFits
<1>9. /\ link' \in [Links -> {"none", "live", "used"}]
      /\ LiveLinks' = LiveLinks \ {k} /\ Asked \subseteq Asked'
      /\ link'[k] = "used" /\ \A l \in Links \ {k} : link'[l] = link[l]
  BY <1>3, <1>4, <1>5 DEF TypeOK, LiveLinks, Asked
<1>10. spent' \in [Links -> Nat] /\ (\A l \in Links \ {k} : spent'[l] = spent[l])
       /\ (k \notin shared => spent'[k] = spent[k] + 1)
  BY <1>3, <1>4, <1>5 DEF TypeOK
<1>11. TypeOK' /\ JobsRight' /\ RowsRight' /\ JarsRight'
  <2>1. doomed' \in [tokens : SUBSET Tokens, links : SUBSET Links]
        /\ doomed'.tokens \subseteq Made /\ doomed'.links \subseteq Asked'
    BY <1>5, <1>9, LiveIsMade
  <2>2. together' \in BOOLEAN /\ shared' \subseteq Links
    BY <1>3, <1>5 DEF TypeOK, Usable
  <2> QED
    BY <2>1, <2>2, <1>4, <1>5, <1>7, <1>8, <1>9, <1>10, BesideTokens
<1>12. handler'[h] = j /\ \A g \in Handlers \ {h} : handler'[g] = handler[g]
  BY <1>3, <1>7 DEF TypeOK
<1>13. /\ Doing("create")' \subseteq Doing("create") /\ h \in Doing("redeem")
       /\ Doing("redeem")' \subseteq Doing("redeem") \ {h}
       /\ \A g \in Doing("redeem")' : handler'[g] = handler[g]
  BY <1>2, <1>7, <1>12 DEF Doing
<1>14. LinksRight'
  BY <1>5, <1>9, <1>13 DEF IInv, LinksRight
<1>15. SpentRight'
  <2> SUFFICES ASSUME NEW l \in Links \ shared
               PROVE  /\ \A g, i \in Doing("redeem")' :
                            handler'[g].link = l /\ handler'[i].link = l => g = i
                      /\ \A g \in Doing("redeem")' : handler'[g].link = l => spent'[l] = 0
                      /\ link'[l] # "used" => spent'[l] = 0
                      /\ spent'[l] <= 1
    BY <1>5 DEF SpentRight
  <2>1. CASE l = k
    <3>1. \A g \in Doing("redeem")' : handler'[g].link # l
      BY <2>1, <1>1, <1>13 DEF IInv, SpentRight
    <3>2. spent[l] = 0
      BY <2>1, <1>1, <1>13 DEF IInv, SpentRight
    <3> QED
      BY <2>1, <3>1, <3>2, <1>9, <1>10
  <2>2. CASE l # k
    BY <2>2, <1>9, <1>10, <1>13 DEF IInv, SpentRight
  <2> QED
    BY <2>1, <2>2
<1>16. DoomRight'
  <2>1. WillEndSessions(handler[h])'
    BY <1>7, <1>12 DEF WillEndSessions
  <2>2. ~together' => LiveLinks' = {}
    BY <1>4, <1>5, <1>9 DEF IInv, LinksRight, Usable, LiveLinks
  <2> QED
    BY <2>1, <2>2 DEF DoomRight
<1> QED
  BY <1>11, <1>14, <1>15, <1>16 DEF IInv

\* A process dies, and what it was to end is not to be ended any more.
LEMMA DiesKeeps ==
    ASSUME IInv, NEW h \in Handlers, Dies(h)
    PROVE  IInv'
<1>1. /\ handler' = [handler EXCEPT ![h] = Idle]
      /\ doomed' \in {doomed, NoneDoomed}
      /\ WillEndSessions(handler[h]) \/ WillEndLinks(handler[h]) => doomed' = NoneDoomed
      /\ UNCHANGED <<token, jar, link, chain, troubled, together, shared, spent>>
  BY DEF Dies, Ends, Changing, WillEndSessions, WillEndLinks
<1>2. TypeOK
  BY DEF IInv
<1>3. TypeOK' /\ JobsRight' /\ RowsRight' /\ JarsRight'
  <2>1. doomed' \in [tokens : SUBSET Tokens, links : SUBSET Links]
        /\ doomed'.tokens \subseteq Made /\ doomed'.links \subseteq Asked'
    BY <1>1, <1>2 DEF TypeOK, NoneDoomed, IInv, RowsRight, Asked
  <2> QED
    BY <2>1, <1>1, <1>2, BesideTokens DEF TypeOK
<1>4. LinksRight' /\ SpentRight'
  BY <1>1, Rests, LinksStay DEF Tasks
<1>5. DoomRight'
  <2>1. CASE doomed' = NoneDoomed
    BY <2>1 DEF DoomRight, NoneDoomed
  <2>2. CASE doomed' = doomed
    <3>1. CASE WillEndSessions(handler[h]) \/ WillEndLinks(handler[h])
      BY <3>1, <2>1, <1>1
    <3>2. CASE ~WillEndSessions(handler[h]) /\ ~WillEndLinks(handler[h])
      <4>1. Live' = Live /\ LiveLinks' = LiveLinks
        BY <1>1 DEF Live, LiveLinks
      <4> QED
        BY <2>2, <3>2, <4>1, <1>1, DoomStays
    <3> QED
      BY <3>1, <3>2
  <2> QED
    BY <2>1, <2>2, <1>1
<1> QED
  BY <1>3, <1>4, <1>5 DEF IInv

-----------------------------------------------------------------------------
(***************************************************************************)
(* The theorems                                                            *)
(***************************************************************************)

\* It all begins with nothing there.
LEMMA SessionsStart == ASSUME Init PROVE IInv
<1>1. /\ \A t \in Tokens : token[t] = [state |-> "none", next |-> NoToken, recent |-> FALSE]
      /\ \A b \in Browsers : jar[b] = NoToken
      /\ \A k \in Links : link[k] = "none" /\ spent[k] = 0
      /\ \A h \in Handlers : handler[h] = Idle
      /\ doomed = [tokens |-> {}, links |-> {}] /\ ~troubled /\ ~together /\ shared = {}
  BY DEF Init, NoneDoomed
<1>2. TypeOK
  BY DEF Init, TypeOK, Token, NoneDoomed
<1>3. Live = {} /\ Made = {} /\ LiveLinks = {} /\ \A task \in Tasks : Doing(task) = {}
  BY <1>1, Rests DEF Live, Made, LiveLinks, Doing
<1>4. JobsRight
  BY <1>1 DEF JobsRight, JobRight
<1>5. RowsRight /\ JarsRight
  BY <1>1, <1>3 DEF RowsRight, JarsRight, ChainsDoNotFork
<1>6. LinksRight /\ SpentRight
  BY <1>1, <1>3 DEF LinksRight, SpentRight, Tasks
<1>7. DoomRight
  BY <1>3 DEF DoomRight
<1> QED
  BY <1>2, <1>4, <1>5, <1>6, <1>7 DEF IInv

\* Nothing happens.
LEMMA StutterKeeps == ASSUME IInv, UNCHANGED vars PROVE IInv'
<1>1. /\ UNCHANGED <<token, jar, link, handler, chain, doomed, troubled, together, shared, spent>>
  BY DEF vars, histories
<1>2. Live' = Live /\ Made' = Made /\ Asked' = Asked
  BY <1>1 DEF Live, Made, Asked
<1>3. TypeOK'
  BY <1>1 DEF IInv, TypeOK, Token, Job, Tokens, Links, Tasks, Purposes, NoToken, NoLink, Idle
<1>4. JobsRight'
  BY <1>1, <1>2 DEF IInv, JobsRight, JobRight, JobFits, Peaceful, Raced, Job, Tokens, Links,
                    Tasks, Purposes, NoToken, NoLink, Idle
<1>5. RowsRight' /\ JarsRight'
  BY <1>1, <1>2 DEF IInv, RowsRight, JarsRight, ChainsDoNotFork
<1>6. LinksRight' /\ SpentRight' /\ DoomRight'
  BY <1>1, <1>2, NoRequest
<1> QED
  BY <1>3, <1>4, <1>5, <1>6 DEF IInv

\* Every step keeps the invariant.
LEMMA SessionsStep == ASSUME IInv, [Next]_vars PROVE IInv'
<1>1. ASSUME NEW h \in Handlers, Requested(h) PROVE IInv'
  BY <1>1, BeginKeeps, AskKeeps, OpenKeeps DEF Requested
<1>2. ASSUME NEW h \in Handlers, Step(h) PROVE IInv'
  <2>1. CASE Rotate(h)
    BY <2>1, RotateKeeps, ReadsKeep
  <2>2. CASE IssueSession(h) \/ Superseded(h) \/ LookAtNext(h) \/ Snapshot(h) \/ Revoke(h)
    BY <2>2, IssueKeeps, ReadsKeep, SnapshotKeeps, RevokeKeeps
  <2>3. CASE SetPassword(h) \/ Burn(h) \/ CreateLink(h) \/ Redeem(h) \/ Dies(h)
    BY <2>3, SetKeeps, BurnKeeps, CreateKeeps, RedeemKeeps, DiesKeeps
  <2> QED
    BY <1>2, <2>1, <2>2, <2>3 DEF Step
<1> QED
  BY <1>1, <1>2, LogoutKeeps, GraceKeeps, StutterKeeps DEF Next

\* The invariant holds throughout.
LEMMA AlwaysIInv == Spec => []IInv
  BY SessionsStart, SessionsStep, PTL DEF Spec

\* However many requests of however many browsers refresh, end and reset at
\* once: no session forks, two reset links are not live together and none is
\* spent twice, and a race to refresh ends no session, with no exception but
\* the ones the parts of SessionsInv name.
THEOREM SessionsAreRight == Spec => []SessionsInv
<1>1. IInv => SessionsInv
  <2> SUFFICES ASSUME IInv PROVE SessionsInv
    OBVIOUS
  <2>1. OneLiveLink
    <3> SUFFICES ASSUME ~together PROVE Cardinality(LiveLinks) <= 1
      BY DEF OneLiveLink
    <3>1. CASE LiveLinks = {}
      BY <3>1, FS_EmptySet
    <3>2. CASE LiveLinks # {}
      <4>1. PICK k \in LiveLinks : TRUE
        BY <3>2
      <4>2. LiveLinks = {k}
        BY <4>1 DEF IInv, LinksRight
      <4> QED
        BY <4>2, FS_Singleton
    <3> QED
      BY <3>1, <3>2
  <2>2. LinkSpentOnce
    BY DEF IInv, SpentRight, LinkSpentOnce
  <2>3. RacesKeepTheSession
    <3> SUFFICES ASSUME ~troubled
                 PROVE  /\ ~\E h \in Doing("snapshot") \cup Doing("revoke") : handler[h].for = "reuse"
                        /\ \A b \in Browsers : jar[b] # NoToken => jar[b] \in Live
      BY DEF RacesKeepTheSession
    <3>1. ASSUME NEW h \in Doing("snapshot") \cup Doing("revoke") PROVE FALSE
      <4>1. h \in Handlers /\ handler[h].task \in {"snapshot", "revoke"} /\ handler[h].task \in Tasks
        BY <3>1 DEF Doing, Tasks
      <4> QED
        BY <4>1, JobIs DEF IInv, Peaceful
    <3> QED
      BY <3>1 DEF IInv, JarsRight
  <2> QED
    BY <2>1, <2>2, <2>3 DEF IInv, RowsRight, SessionsInv
<1> QED
  BY <1>1, AlwaysIInv, PTL

\* When every change of the password is over, no session and no link is left of
\* those that were there when it was made, the caller's own session excepted,
\* unless the process died that was to end them.
THEOREM PasswordEndsAllAlways == Spec => []PasswordEndsAll
<1>1. IInv => PasswordEndsAll
  <2> SUFFICES ASSUME IInv, Changing = {} PROVE PasswordEndsAll
    BY DEF PasswordEndsAll, PasswordEndsSessions, LinksDieWithPassword
  <2>1. \A h \in Handlers : ~WillEndSessions(handler[h]) /\ ~WillEndLinks(handler[h])
    BY DEF Changing, WillEndSessions, WillEndLinks
  <2> QED
    BY <2>1 DEF IInv, DoomRight, PasswordEndsAll, PasswordEndsSessions, LinksDieWithPassword
<1> QED
  BY <1>1, AlwaysIInv, PTL


-----------------------------------------------------------------------------
(***************************************************************************)
(* The second factor of a moderator                                        *)
(***************************************************************************)

\* Attempts admitted have been counted, and what counts has an end.
LimitRight ==
    /\ counter \in [n : 0..Limit, expires : BOOLEAN]
    /\ admitted \in Nat /\ admitted <= counter.n
    /\ counter.n > 0 => counter.expires

AtTask(p, tasks) == asking[p].task \in tasks

\* While nothing has crossed, a request carries the secret that is stored, a
\* confirmed one is not replaced, and who confirms it has spent a code of it.
AskerRight(p) ==
    /\ AtTask(p, {"prove", "confirm", "open"}) => asking[p].secret = secret
    /\ AtTask(p, {"confirm"}) => \E c \in accepted : c.secret = secret
    /\ AtTask(p, {"open"}) => confirmed
    /\ AtTask(p, {"store"}) => ~confirmed

\* And a code of it that was accepted is spent.
FactorRight ==
    ~crossed =>
        /\ \A p \in Askers : AskerRight(p)
        /\ \A c \in accepted : c.secret = secret => c.period <= lastUsed
        /\ confirmed => \E c \in accepted : c.secret = secret

\* Nobody has a secret that was not made.
MadeRight ==
    /\ \A p \in Askers : asking[p].secret \in 0..made
    /\ \A c \in accepted : c.secret \in 0..made

FactorInv == StepUpTypeOK /\ LimitRight /\ MadeRight /\ FactorRight /\ CodesAreSingleUse

\* A new account has no authenticator.
LEMMA FactorStart == StepUpInit => FactorInv
<1> SUFFICES ASSUME StepUpInit PROVE FactorInv
  OBVIOUS
<1>1. Limit \in Nat /\ MaxSecrets \in Nat \ {0} /\ MaxPeriods \in Nat \ {0}
  BY LimiterAssumption, StepUpAssumption
<1>2. NotAsking \in Request /\ NotAsking.task = "idle" /\ NotAsking.secret = 0
  BY <1>1 DEF NotAsking, NoCode, NoSecret, Request, Codes, AskTasks
<1>3. StepUpTypeOK
  <2>1. isAdmin \in BOOLEAN /\ confirmed \in BOOLEAN /\ crossed \in BOOLEAN
    BY DEF StepUpInit
  <2>2. /\ secret \in 0..made /\ app \in 0..made /\ made \in 0..MaxSecrets
        /\ period \in 1..MaxPeriods /\ lastUsed \in 0..MaxPeriods
    BY <1>1 DEF StepUpInit, NoSecret
  <2>3. accepted \subseteq [secret : Secrets, period : 1..MaxPeriods]
    BY DEF StepUpInit
  <2>4. asking \in [Askers -> Request]
    BY <1>2 DEF StepUpInit
  <2> QED
    BY <2>1, <2>2, <2>3, <2>4 DEF StepUpTypeOK
<1>4. LimitRight
  BY <1>1 DEF StepUpInit, LimiterInit, NoCount, LimitRight
<1>5. \A p \in Askers : asking[p].task = "idle" /\ asking[p].secret = 0
  BY <1>2 DEF StepUpInit
<1>6. FactorRight /\ CodesAreSingleUse
  BY <1>5 DEF StepUpInit, FactorRight, AskerRight, AtTask, CodesAreSingleUse
<1>7. MadeRight
  BY <1>5 DEF StepUpInit, MadeRight
<1> QED
  BY <1>3, <1>4, <1>6, <1>7 DEF FactorInv

\* What a request turns to.
LEMMA AskerMoves ==
    ASSUME StepUpTypeOK, NEW p \in Askers, NEW new \in Request, asking' = [asking EXCEPT ![p] = new]
    PROVE  /\ asking' \in [Askers -> Request] /\ asking'[p] = new
           /\ \A q \in Askers \ {p} : asking'[q] = asking[q]
BY DEF StepUpTypeOK

\* What a request holds, and what rest is.
LEMMA AskerIs ==
    ASSUME StepUpTypeOK, NEW p \in Askers
    PROVE  /\ asking[p] \in Request /\ asking[p].code \in Codes /\ asking[p].secret \in 0..MaxSecrets
           /\ asking[p].code.secret \in 0..MaxSecrets /\ asking[p].code.period \in 0..MaxPeriods
           /\ NotAsking \in Request /\ NotAsking.task = "idle" /\ NotAsking.secret = 0
<1>1. MaxSecrets \in Nat \ {0} /\ MaxPeriods \in Nat \ {0}
  BY StepUpAssumption
<1>2. NotAsking \in Request /\ NotAsking.task = "idle" /\ NotAsking.secret = 0
  BY <1>1 DEF NotAsking, NoCode, NoSecret, Request, Codes, AskTasks
<1>3. asking[p] \in Request
  BY DEF StepUpTypeOK
<1>4. asking[p].code \in Codes /\ asking[p].secret \in 0..MaxSecrets
  BY <1>3 DEF Request
<1> QED
  BY <1>2, <1>3, <1>4 DEF Codes

\* One request moves, nothing of the account does.
LEMMA OneAsks ==
    ASSUME FactorInv, NEW p \in Askers, NEW new \in Request, asking' = [asking EXCEPT ![p] = new],
           UNCHANGED <<isAdmin, secret, confirmed, lastUsed, period, app, made, accepted, reused, crossed>>,
           LimitRight', new.secret \in 0..made,
           ~crossed =>
               /\ new.task \in {"prove", "confirm", "open"} => new.secret = secret
               /\ new.task = "confirm" => \E c \in accepted : c.secret = secret
               /\ new.task = "open" => confirmed
               /\ new.task = "store" => ~confirmed
    PROVE  FactorInv'
<1>1. /\ asking' \in [Askers -> Request] /\ asking'[p] = new
      /\ \A q \in Askers \ {p} : asking'[q] = asking[q]
  BY AskerMoves DEF FactorInv
<1>2. StepUpTypeOK'
  BY <1>1 DEF FactorInv, StepUpTypeOK, Secrets
<1>3. ASSUME ~crossed, NEW q \in Askers PROVE AskerRight(q)'
  <2>1. CASE q = p
    BY <1>1, <1>3, <2>1 DEF AskerRight, AtTask
  <2>2. CASE q # p
    BY <1>1, <1>3, <2>2 DEF FactorInv, FactorRight, AskerRight, AtTask
  <2> QED
    BY <2>1, <2>2
<1>4. FactorRight'
  BY <1>3 DEF FactorInv, FactorRight
<1>5. MadeRight'
  BY <1>1 DEF FactorInv, MadeRight
<1> QED
  BY <1>2, <1>4, <1>5 DEF FactorInv, CodesAreSingleUse

\* What a request begins with.
LEMMA BeginsRight ==
    ASSUME FactorInv, NEW p \in Askers, NEW task \in AskTasks, NEW code \in Codes,
           Asks(p, task, code),
           UNCHANGED <<isAdmin, secret, confirmed, lastUsed, period, app, made, accepted, reused, crossed>>,
           LimitRight',
           task \in {"store", "prove", "read"},
           task = "store" => ~confirmed
    PROVE  FactorInv'
<1>1. PICK new : new = [task |-> task, code |-> code, secret |-> secret]
  OBVIOUS
<1>2. secret \in 0..MaxSecrets /\ secret \in 0..made
  BY StepUpAssumption DEF FactorInv, StepUpTypeOK
<1>3. new \in Request /\ new.task = task /\ new.secret = secret
  BY <1>1, <1>2 DEF Request
<1>4. asking' = [asking EXCEPT ![p] = new]
  BY <1>1 DEF Asks
<1> QED
  BY <1>2, <1>3, <1>4, OneAsks

\* And one that ends.
LEMMA EndsRight ==
    ASSUME FactorInv, NEW p \in Askers, Stops(p),
           UNCHANGED <<isAdmin, secret, confirmed, lastUsed, period, app, made, accepted, reused, crossed>>,
           LimitRight'
    PROVE  FactorInv'
<1>1. asking' = [asking EXCEPT ![p] = NotAsking] /\ NotAsking \in Request
      /\ NotAsking.task = "idle" /\ NotAsking.secret = 0
  BY AskerIs DEF Stops, FactorInv
<1>2. 0 \in 0..made
  BY DEF FactorInv, StepUpTypeOK
<1> QED
  BY <1>1, <1>2, OneAsks

\* The limit is only touched by who is counted.
LEMMA LimitFrame == ASSUME LimitRight, UNCHANGED limiterVars PROVE LimitRight'
BY DEF LimitRight, limiterVars

\* A code the authenticator shows is a code.
LEMMA CodeIs == ASSUME StepUpTypeOK PROVE CodeShown \in Codes /\ NoCode \in Codes
<1>1. MaxSecrets \in Nat /\ MaxPeriods \in Nat /\ app \in 0..MaxSecrets /\ period \in 0..MaxPeriods
  BY StepUpAssumption DEF StepUpTypeOK
<1> QED
  BY <1>1 DEF CodeShown, NoCode, NoSecret, Codes

\* A set-up starts while the secret is not confirmed; a proof starts with the secret stored.
LEMMA SetUpRight ==
    ASSUME FactorInv, UNCHANGED limiterVars, NEW p \in Askers, SetUp(p) \/ Confirm(p)
    PROVE  FactorInv'
<1>1. LimitRight' /\ CodeShown \in Codes /\ NoCode \in Codes
  BY LimitFrame, CodeIs DEF FactorInv
<1>2. CASE SetUp(p)
  BY <1>1, <1>2, BeginsRight DEF SetUp, MaySetUp, AskTasks
<1>3. CASE Confirm(p)
  BY <1>1, <1>3, BeginsRight DEF Confirm, AskTasks
<1> QED
  BY <1>2, <1>3

\* A secret is not replaced under one who confirms it, or the two crossed; a new
\* one has had no code accepted.
LEMMA StoreSecretRight ==
    ASSUME FactorInv, UNCHANGED limiterVars, NEW p \in Askers, StoreSecret(p)
    PROVE  FactorInv'
<1>1. LimitRight' /\ StepUpTypeOK
  BY LimitFrame DEF FactorInv
<1>2. /\ made < MaxSecrets /\ made' = made + 1 /\ secret' = made + 1
      /\ crossed' = (crossed \/ Confirming # {})
      /\ UNCHANGED <<isAdmin, confirmed, lastUsed, period, app, accepted, reused>>
      /\ AtTask(p, {"store"})
  BY DEF StoreSecret, AtTask
<1>3. asking' = [asking EXCEPT ![p] = NotAsking] /\ NotAsking \in Request
      /\ NotAsking.task = "idle" /\ NotAsking.secret = 0
  BY <1>1, AskerIs DEF StoreSecret, Stops
<1>4. /\ asking' \in [Askers -> Request] /\ asking'[p] = NotAsking
      /\ \A q \in Askers \ {p} : asking'[q] = asking[q]
  BY <1>1, <1>3, AskerMoves
<1>5. made \in 0..MaxSecrets /\ MaxSecrets \in Nat /\ crossed \in BOOLEAN
  BY <1>1, StepUpAssumption DEF StepUpTypeOK
<1>6. StepUpTypeOK'
  <2>1. made' \in 0..MaxSecrets /\ secret' \in 0..made' /\ app' \in 0..made'
    BY <1>1, <1>2, <1>5 DEF StepUpTypeOK
  <2>2. crossed' \in BOOLEAN
    BY <1>2, <1>5
  <2> QED
    BY <1>1, <1>2, <1>4, <2>1, <2>2 DEF StepUpTypeOK, Secrets
<1>7. ASSUME ~crossed' PROVE FactorRight'
  <2>1. ~crossed /\ Confirming = {}
    BY <1>2, <1>7
  <2>2. /\ \A q \in Askers : AskerRight(q)
        /\ confirmed => \E c \in accepted : c.secret = secret
    BY <2>1 DEF FactorInv, FactorRight
  <2>3. ~confirmed
    BY <1>2, <2>2 DEF AskerRight
  <2>4. \A q \in Askers : ~AtTask(q, {"prove", "confirm", "open"})
    BY <2>1, <2>2, <2>3 DEF Confirming, AskerRight, AtTask
  <2>5. ASSUME NEW q \in Askers PROVE AskerRight(q)'
    <3>1. ~AtTask(q, {"prove", "confirm", "open"})'
      BY <1>3, <1>4, <2>4 DEF AtTask
    <3> QED
      BY <1>2, <2>3, <3>1 DEF AskerRight, AtTask
  <2>6. ASSUME NEW c \in accepted PROVE c.secret # made + 1
    BY <1>5, <2>6 DEF FactorInv, MadeRight
  <2> QED
    BY <1>2, <2>3, <2>5, <2>6 DEF FactorRight
<1>8. FactorRight'
  BY <1>7 DEF FactorRight
<1>9. MadeRight'
  <2>1. \A n \in 0..made : n \in 0..made'
    BY <1>2, <1>5
  <2>2. 0 \in 0..made'
    BY <1>2, <1>5
  <2> QED
    BY <1>2, <1>3, <1>4, <2>1, <2>2 DEF FactorInv, MadeRight
<1> QED
  BY <1>1, <1>2, <1>6, <1>8, <1>9 DEF FactorInv, CodesAreSingleUse

\* A code that is spent was not, unless something crossed: of the stored secret
\* every code accepted is of a period that is used up.
LEMMA SpendsRight ==
    ASSUME FactorInv, NEW p \in Askers, Spends(p), ~crossed => asking[p].secret = secret
    PROVE  /\ lastUsed' \in 0..MaxPeriods
           /\ accepted' \subseteq [secret : Secrets, period : 1..MaxPeriods]
           /\ \A c \in accepted' : c.secret \in 0..made
           /\ reused' = FALSE
           /\ ~crossed =>
                 /\ \A c \in accepted' : c.secret = secret => c.period <= lastUsed'
                 /\ \E c \in accepted' : c.secret = secret
           /\ accepted \subseteq accepted'
<1> DEFINE code == asking[p].code
<1>1. code \in Codes /\ code.secret \in 0..MaxSecrets /\ code.period \in 0..MaxPeriods
      /\ asking[p].secret \in 0..made
  BY AskerIs DEF FactorInv, MadeRight
<1>2. MaxSecrets \in Nat /\ MaxPeriods \in Nat /\ lastUsed \in 0..MaxPeriods /\ made \in 0..MaxSecrets
  BY StepUpAssumption DEF FactorInv, StepUpTypeOK
<1>3. code.secret = asking[p].secret /\ code.secret # NoSecret /\ lastUsed < code.period
  BY DEF Spends, Valid, Unspent
<1>4. lastUsed' = code.period /\ accepted' = accepted \cup {code}
      /\ reused' = (reused \/ (~crossed /\ code \in accepted))
  BY DEF Spends
<1>5. code \in [secret : Secrets, period : 1..MaxPeriods] /\ code.secret \in 0..made
  BY <1>1, <1>2, <1>3 DEF Codes, Secrets, NoSecret
<1>6. accepted \subseteq [secret : Secrets, period : 1..MaxPeriods] /\ ~reused
      /\ \A c \in accepted : c.secret \in 0..made
  BY DEF FactorInv, StepUpTypeOK, CodesAreSingleUse, MadeRight
<1>7. ASSUME ~crossed
      PROVE  /\ code.secret = secret /\ code \notin accepted
             /\ \A c \in accepted : c.secret = secret => c.period <= lastUsed
  <2>1. code.secret = secret
    BY <1>3, <1>7
  <2>2. \A c \in accepted : c.secret = secret => c.period <= lastUsed
    BY <1>7 DEF FactorInv, FactorRight
  <2>3. ~(code.period <= lastUsed)
    BY <1>1, <1>2, <1>3
  <2> QED
    BY <2>1, <2>2, <2>3
<1> HIDE DEF code
<1>8. \A c \in accepted : c.period \in 1..MaxPeriods
  BY <1>6
<1>9. lastUsed' \in 0..MaxPeriods /\ accepted' \subseteq [secret : Secrets, period : 1..MaxPeriods]
      /\ accepted \subseteq accepted' /\ \A c \in accepted' : c.secret \in 0..made
  BY <1>1, <1>4, <1>5, <1>6
<1>10. reused' = FALSE
  BY <1>4, <1>6, <1>7
<1>11. ASSUME ~crossed
       PROVE  /\ \A c \in accepted' : c.secret = secret => c.period <= lastUsed'
              /\ \E c \in accepted' : c.secret = secret
  BY <1>1, <1>2, <1>3, <1>4, <1>7, <1>8, <1>11 DEF code
<1> QED
  BY <1>9, <1>10, <1>11

\* The account after a code was spent, and the request that spent it.
LEMMA SpenderRight ==
    ASSUME FactorInv, NEW p \in Askers, Spends(p), ~crossed => asking[p].secret = secret,
           NEW new \in Request, asking' = [asking EXCEPT ![p] = new],
           new.task \in {"idle", "confirm"}, new.secret \in 0..made,
           new.task = "confirm" => new.secret = asking[p].secret,
           UNCHANGED <<isAdmin, secret, confirmed, period, app, made, crossed>>, LimitRight'
    PROVE  FactorInv'
<1>1. /\ lastUsed' \in 0..MaxPeriods
      /\ accepted' \subseteq [secret : Secrets, period : 1..MaxPeriods]
      /\ \A c \in accepted' : c.secret \in 0..made
      /\ reused' = FALSE
      /\ ~crossed =>
            /\ \A c \in accepted' : c.secret = secret => c.period <= lastUsed'
            /\ \E c \in accepted' : c.secret = secret
      /\ accepted \subseteq accepted'
  BY SpendsRight
<1>2. /\ asking' \in [Askers -> Request] /\ asking'[p] = new
      /\ \A q \in Askers \ {p} : asking'[q] = asking[q]
  BY AskerMoves DEF FactorInv
<1>3. StepUpTypeOK'
  BY <1>1, <1>2 DEF FactorInv, StepUpTypeOK, Secrets
<1>4. MadeRight'
  BY <1>1, <1>2 DEF FactorInv, MadeRight
<1>5. ASSUME ~crossed PROVE FactorRight'
  <2>1. ASSUME NEW q \in Askers PROVE AskerRight(q)'
    <3>1. CASE q = p
      BY <1>1, <1>2, <1>5, <3>1 DEF AskerRight, AtTask
    <3>2. CASE q # p
      <4>1. AskerRight(q) /\ asking'[q] = asking[q]
        BY <1>2, <1>5, <3>2 DEF FactorInv, FactorRight
      <4> QED
        BY <1>1, <4>1 DEF AskerRight, AtTask
    <3> QED
      BY <3>1, <3>2
  <2> QED
    BY <1>1, <1>5, <2>1 DEF FactorRight
<1>6. FactorRight'
  BY <1>5 DEF FactorRight
<1> QED
  BY <1>1, <1>3, <1>4, <1>6 DEF FactorInv, CodesAreSingleUse

\* Who proves a secret spends a code of it, and is told to confirm it.
LEMMA ProveRight ==
    ASSUME FactorInv, UNCHANGED limiterVars, NEW p \in Askers, Prove(p)
    PROVE  FactorInv'
<1>1. LimitRight' /\ StepUpTypeOK
  BY LimitFrame DEF FactorInv
<1>2. asking[p].task = "prove" /\ UNCHANGED <<isAdmin, secret, confirmed, period, app, made, crossed>>
  BY DEF Prove
<1>3. ~crossed => asking[p].secret = secret
  BY <1>2 DEF FactorInv, FactorRight, AskerRight, AtTask
<1>4. CASE Proven(p) /\ asking' = [asking EXCEPT ![p].task = "confirm"]
  <2>1. PICK new : new = [asking[p] EXCEPT !.task = "confirm"]
    OBVIOUS
  <2>2. asking[p] \in Request /\ asking[p].secret \in 0..made
    BY <1>1, AskerIs DEF FactorInv, MadeRight
  <2>3. new \in Request /\ new.task = "confirm" /\ new.secret = asking[p].secret
    BY <2>1, <2>2 DEF Request, AskTasks
  <2>4. asking' = [asking EXCEPT ![p] = new]
    BY <1>4, <2>1
  <2> QED
    BY <1>1, <1>2, <1>3, <1>4, <2>2, <2>3, <2>4, SpenderRight DEF Proven
<1>5. CASE FailsToSpend(p) /\ Stops(p)
  BY <1>1, <1>2, <1>5, EndsRight DEF FailsToSpend
<1> QED
  BY <1>4, <1>5 DEF Prove

\* A session of the panel costs a code.
LEMMA OpenPanelSessionRight ==
    ASSUME FactorInv, UNCHANGED limiterVars, NEW p \in Askers, Open(p)
    PROVE  FactorInv'
<1>1. LimitRight' /\ StepUpTypeOK
  BY LimitFrame DEF FactorInv
<1>2. asking[p].task = "open" /\ UNCHANGED <<isAdmin, secret, confirmed, period, app, made, crossed>> /\ Stops(p)
  BY DEF Open
<1>3. ~crossed => asking[p].secret = secret
  BY <1>2 DEF FactorInv, FactorRight, AskerRight, AtTask
<1>4. CASE Spends(p)
  <2>1. asking' = [asking EXCEPT ![p] = NotAsking] /\ NotAsking \in Request
        /\ NotAsking.task = "idle" /\ NotAsking.secret = 0
    BY <1>1, <1>2, AskerIs DEF Stops
  <2>2. 0 \in 0..made
    BY <1>1 DEF StepUpTypeOK
  <2> QED
    BY <1>1, <1>2, <1>3, <1>4, <2>1, <2>2, SpenderRight
<1>5. CASE FailsToSpend(p)
  BY <1>1, <1>2, <1>5, EndsRight DEF FailsToSpend
<1> QED
  BY <1>4, <1>5 DEF Open

\* Who marks a secret as confirmed has spent a code of it, and nobody is about
\* to replace it, or the two crossed.
LEMMA MarkConfirmedRight ==
    ASSUME FactorInv, UNCHANGED limiterVars, NEW p \in Askers, MarkConfirmed(p)
    PROVE  FactorInv'
<1>1. LimitRight' /\ StepUpTypeOK
  BY LimitFrame DEF FactorInv
<1>2. asking[p].task = "confirm" /\ confirmed' = TRUE /\ crossed' = (crossed \/ SettingUp # {})
      /\ UNCHANGED <<isAdmin, secret, lastUsed, period, app, made, accepted, reused>>
  BY DEF MarkConfirmed
<1>3. asking' = [asking EXCEPT ![p] = NotAsking] /\ NotAsking \in Request
      /\ NotAsking.task = "idle" /\ NotAsking.secret = 0
  BY <1>1, AskerIs DEF MarkConfirmed, Stops
<1>4. /\ asking' \in [Askers -> Request] /\ asking'[p] = NotAsking
      /\ \A q \in Askers \ {p} : asking'[q] = asking[q]
  BY <1>1, <1>3, AskerMoves
<1>5. StepUpTypeOK'
  BY <1>1, <1>2, <1>4 DEF StepUpTypeOK, Secrets
<1>6. MadeRight'
  <2>1. 0 \in 0..made
    BY <1>1 DEF StepUpTypeOK
  <2> QED
    BY <1>2, <1>3, <1>4, <2>1 DEF FactorInv, MadeRight
<1>7. ASSUME ~crossed' PROVE FactorRight'
  <2>1. ~crossed /\ SettingUp = {}
    BY <1>2, <1>7
  <2>2. \A q \in Askers : AskerRight(q) /\ ~AtTask(q, {"store"})
    BY <2>1 DEF FactorInv, FactorRight, SettingUp, AtTask
  <2>3. \E c \in accepted : c.secret = secret
    BY <1>2, <2>2 DEF AskerRight, AtTask
  <2>4. ASSUME NEW q \in Askers PROVE AskerRight(q)'
    <3>1. CASE q = p
      BY <1>3, <1>4, <3>1 DEF AskerRight, AtTask
    <3>2. CASE q # p
      BY <1>2, <1>4, <2>2, <3>2 DEF AskerRight, AtTask
    <3> QED
      BY <3>1, <3>2
  <2> QED
    BY <1>2, <2>1, <2>3, <2>4 DEF FactorInv, FactorRight
<1>8. FactorRight'
  BY <1>7 DEF FactorRight
<1> QED
  BY <1>1, <1>2, <1>5, <1>6, <1>8 DEF FactorInv, CodesAreSingleUse

\* An attempt is counted before it is let through, and only if there is room.
LEMMA ChecksRight ==
    ASSUME LimitRight, NEW allowed \in BOOLEAN, Checks(TRUE, allowed)
    PROVE  LimitRight'
<1>1. Limit \in Nat \ {0} /\ counter.n \in 0..Limit /\ counter.expires \in BOOLEAN
      /\ admitted \in Nat /\ admitted <= counter.n /\ (counter.n > 0 => counter.expires)
  BY LimiterAssumption DEF LimitRight
<1>2. admitted' = IF allowed THEN admitted + 1 ELSE admitted
  BY DEF Checks
<1>3. ASSUME Counts
      PROVE  /\ counter' \in [n : 0..Limit, expires : BOOLEAN]
             /\ counter'.n = IF Room THEN counter.n + 1 ELSE counter.n
             /\ counter'.n > 0 => counter'.expires
  <2>1. PICK n, e : n = (IF Room THEN counter.n + 1 ELSE counter.n)
                    /\ e = (IF counter.n = 0 THEN TRUE ELSE counter.expires)
    OBVIOUS
  <2>2. counter' = [n |-> n, expires |-> e]
    BY <1>3, <2>1 DEF Counts, ExpirySet
  <2>3. n \in 0..Limit
    BY <1>1, <2>1 DEF Room
  <2>4. e \in BOOLEAN
    BY <1>1, <2>1
  <2>5. n > 0 => e
    BY <1>1, <2>1
  <2> QED
    BY <2>1, <2>2, <2>3, <2>4, <2>5
<1>4. ASSUME ~allowed, Counts \/ UNCHANGED counter PROVE LimitRight'
  <2>1. admitted' = admitted
    BY <1>2, <1>4
  <2>2. CASE Counts
    <3>1. counter'.n >= counter.n
      BY <1>1, <1>3, <2>2
    <3>2. counter'.n \in 0..Limit
      BY <1>3, <2>2
    <3>3. admitted' <= counter'.n
      BY <1>1, <2>1, <3>1, <3>2
    <3> QED
      BY <1>1, <1>3, <2>1, <2>2, <3>3 DEF LimitRight
  <2>3. CASE UNCHANGED counter
    BY <2>1, <2>3 DEF LimitRight
  <2> QED
    BY <1>4, <2>2, <2>3
<1>5. ASSUME allowed, Room, Counts PROVE LimitRight'
  <2>1. admitted' = admitted + 1 /\ counter'.n = counter.n + 1
    BY <1>2, <1>3, <1>5
  <2>2. admitted' \in Nat /\ admitted' <= counter'.n
    BY <1>1, <2>1
  <2> QED
    BY <1>3, <1>5, <2>2 DEF LimitRight
<1>6. (allowed = Room /\ Counts) \/ (allowed = FALSE /\ (Counts \/ UNCHANGED counter))
  BY DEF Checks, Through
<1>7. (allowed /\ Room /\ Counts) \/ (~allowed /\ (Counts \/ UNCHANGED counter))
  BY <1>6
<1> QED
  BY <1>4, <1>5, <1>7

\* A session of the panel is asked for within the limit.
LEMMA OpenPanelRight ==
    ASSUME FactorInv, NEW p \in Askers, OpenPanel(p)
    PROVE  FactorInv'
<1>1. PICK allowed \in BOOLEAN :
          Checks(TRUE, allowed) /\ IF allowed THEN Asks(p, "read", CodeShown) ELSE UNCHANGED asking
  BY DEF OpenPanel
<1>2. LimitRight'
  BY <1>1, ChecksRight DEF FactorInv
<1>3. UNCHANGED <<isAdmin, secret, confirmed, lastUsed, period, app, made, accepted, reused, crossed>>
  BY DEF OpenPanel
<1>4. CASE allowed
  <2>1. Asks(p, "read", CodeShown) /\ CodeShown \in Codes
    BY <1>1, <1>4, CodeIs DEF FactorInv
  <2> QED
    BY <1>2, <1>3, <2>1, BeginsRight DEF AskTasks
<1>5. CASE ~allowed
  <2>1. UNCHANGED asking
    BY <1>1, <1>5
  <2>2. asking[p] \in Request /\ asking \in [Askers -> Request]
    BY DEF FactorInv, StepUpTypeOK
  <2>3. asking' = [asking EXCEPT ![p] = asking[p]]
    BY <2>1, <2>2
  <2>4. asking[p].secret \in 0..made
    BY DEF FactorInv, MadeRight
  <2>5. ~crossed => AskerRight(p)
    BY DEF FactorInv, FactorRight
  <2> QED
    BY <1>2, <1>3, <2>2, <2>3, <2>4, <2>5, OneAsks DEF AskerRight, AtTask
<1> QED
  BY <1>4, <1>5

\* The secret a code is compared with is the one just read.
LEMMA ReadAccountRight ==
    ASSUME FactorInv, UNCHANGED limiterVars, NEW p \in Askers, ReadAccount(p)
    PROVE  FactorInv'
<1>1. LimitRight' /\ StepUpTypeOK
  BY LimitFrame DEF FactorInv
<1>2. UNCHANGED <<isAdmin, secret, confirmed, lastUsed, period, app, made, accepted, reused, crossed>>
  BY DEF ReadAccount
<1>3. CASE isAdmin /\ secret # NoSecret /\ confirmed
  <2>1. PICK new : new = [[asking[p] EXCEPT !.task = "open"] EXCEPT !.secret = secret]
    OBVIOUS
  <2>2. asking[p] \in Request /\ secret \in 0..made /\ secret \in 0..MaxSecrets
    BY <1>1, AskerIs, StepUpAssumption DEF StepUpTypeOK
  <2>3. new \in Request /\ new.task = "open" /\ new.secret = secret
    BY <2>1, <2>2 DEF Request, AskTasks
  <2>4. asking' = [asking EXCEPT ![p] = new]
    BY <1>3, <2>1 DEF ReadAccount
  <2> QED
    BY <1>1, <1>2, <1>3, <2>2, <2>3, <2>4, OneAsks
<1>4. CASE ~(isAdmin /\ secret # NoSecret /\ confirmed)
  BY <1>1, <1>2, <1>4, EndsRight DEF ReadAccount
<1> QED
  BY <1>3, <1>4

\* What is revoked while a request is under way is crossed; without one nothing
\* remembers the secret.
LEMMA RevokeRight ==
    ASSUME FactorInv, UNCHANGED limiterVars, RevokeAdmin
    PROVE  FactorInv'
<1>1. LimitRight' /\ StepUpTypeOK
  BY LimitFrame DEF FactorInv
<1>2. /\ isAdmin' = FALSE /\ secret' = 0 /\ confirmed' = FALSE /\ lastUsed' = 0
      /\ crossed' = (crossed \/ \E p \in Askers : asking[p] # NotAsking)
      /\ UNCHANGED <<asking, period, app, made, accepted, reused>>
  BY DEF RevokeAdmin, NoSecret
<1>3. StepUpTypeOK'
  <2>1. made \in 0..MaxSecrets /\ MaxSecrets \in Nat /\ MaxPeriods \in Nat
    BY <1>1, StepUpAssumption DEF StepUpTypeOK
  <2>2. isAdmin' \in BOOLEAN /\ confirmed' \in BOOLEAN
    BY <1>2
  <2>3. crossed \in BOOLEAN
    BY <1>1 DEF StepUpTypeOK
  <2>4. crossed' \in BOOLEAN
    BY <1>2, <2>3
  <2>5. secret' \in 0..made' /\ lastUsed' \in 0..MaxPeriods
    BY <1>2, <2>1
  <2>6. /\ app' \in 0..made' /\ made' \in 0..MaxSecrets /\ period' \in 1..MaxPeriods
        /\ accepted' \subseteq [secret : Secrets, period : 1..MaxPeriods]
        /\ asking' \in [Askers -> Request]
    BY <1>1, <1>2 DEF StepUpTypeOK
  <2> QED
    BY <2>2, <2>4, <2>5, <2>6 DEF StepUpTypeOK, Secrets
<1>4. MadeRight'
  BY <1>2 DEF FactorInv, MadeRight
<1>5. ASSUME ~crossed' PROVE FactorRight'
  <2>1. \A p \in Askers : asking[p] = NotAsking
    BY <1>2, <1>5
  <2>2. \A p \in Askers : AskerRight(p)'
    BY <1>2, <2>1 DEF AskerRight, AtTask, NotAsking
  <2>3. \A c \in accepted : c.secret # 0
    BY <1>1 DEF StepUpTypeOK, Secrets
  <2> QED
    BY <1>2, <2>2, <2>3 DEF FactorRight
<1>6. FactorRight'
  BY <1>5 DEF FactorRight
<1> QED
  BY <1>1, <1>2, <1>3, <1>4, <1>6 DEF FactorInv, CodesAreSingleUse

\* The app, the clock, and the right to ask.
LEMMA AroundRight ==
    ASSUME FactorInv, LimitRight',
           UNCHANGED <<secret, confirmed, lastUsed, made, asking, accepted, reused, crossed>>,
           isAdmin' \in BOOLEAN, period' \in 1..MaxPeriods, app' \in 0..made
    PROVE  FactorInv'
<1>1. StepUpTypeOK'
  BY DEF FactorInv, StepUpTypeOK, Secrets
<1>2. MadeRight' /\ CodesAreSingleUse'
  BY DEF FactorInv, MadeRight, CodesAreSingleUse
<1>3. FactorRight'
  BY DEF FactorInv, FactorRight, AskerRight, AtTask
<1> QED
  BY <1>1, <1>2, <1>3 DEF FactorInv

\* Every step keeps the invariant.
LEMMA FactorKept == FactorInv /\ [StepUpNext]_stepUpVars => FactorInv'
<1> SUFFICES ASSUME FactorInv, [StepUpNext]_stepUpVars PROVE FactorInv'
  OBVIOUS
<1>1. StepUpTypeOK /\ LimitRight /\ made \in 0..MaxSecrets /\ MaxSecrets \in Nat /\ MaxPeriods \in Nat
  BY StepUpAssumption DEF FactorInv, StepUpTypeOK
<1>2. ASSUME NEW p \in Askers, OpenPanel(p) PROVE FactorInv'
  BY <1>2, OpenPanelRight
<1>3. ASSUME UNCHANGED limiterVars, NEW p \in Askers,
             SetUp(p) \/ StoreSecret(p) \/ Confirm(p) \/ Prove(p) \/ MarkConfirmed(p)
             \/ ReadAccount(p) \/ Open(p) \/ AskingDies(p)
      PROVE  FactorInv'
  <2>1. CASE AskingDies(p)
    BY <1>1, <1>3, <2>1, LimitFrame, EndsRight DEF AskingDies
  <2> QED
    BY <1>3, <2>1, SetUpRight, StoreSecretRight, ProveRight, MarkConfirmedRight,
       ReadAccountRight, OpenPanelSessionRight
<1>4. ASSUME UNCHANGED limiterVars, NEW s \in Secrets, Scan(s) PROVE FactorInv'
  <2>1. s \in 0..made
    BY <1>1, <1>4 DEF Secrets, Scan
  <2> QED
    BY <1>1, <1>4, <2>1, LimitFrame, AroundRight DEF Scan, StepUpTypeOK
<1>5. CASE UNCHANGED limiterVars /\ GrantAdmin
  BY <1>1, <1>5, LimitFrame, AroundRight DEF GrantAdmin, StepUpTypeOK
<1>6. CASE UNCHANGED limiterVars /\ RevokeAdmin
  BY <1>6, RevokeRight
<1>7. CASE UNCHANGED limiterVars /\ NextPeriod
  <2>1. period' \in 1..MaxPeriods
    BY <1>1, <1>7 DEF NextPeriod, StepUpTypeOK
  <2> QED
    BY <1>1, <1>7, <2>1, LimitFrame, AroundRight DEF NextPeriod, StepUpTypeOK
<1>8. CASE WindowEnds /\ UNCHANGED adminVars
  <2>1. LimitRight'
    BY <1>8, LimiterAssumption DEF WindowEnds, LimitRight, NoCount
  <2> QED
    BY <1>1, <1>8, <2>1, AroundRight DEF adminVars, StepUpTypeOK
<1>9. CASE UNCHANGED stepUpVars
  <2>1. UNCHANGED limiterVars /\ UNCHANGED adminVars
    BY <1>9 DEF stepUpVars
  <2> QED
    BY <1>1, <2>1, LimitFrame, AroundRight DEF adminVars, StepUpTypeOK
<1> QED
  BY <1>2, <1>3, <1>4, <1>5, <1>6, <1>7, <1>8, <1>9 DEF StepUpNext

\* What the run checks is part of the invariant.
LEMMA FactorImplies == FactorInv => StepUpInv
<1> SUFFICES ASSUME FactorInv PROVE ConfirmedWorks /\ LimitKept
  BY DEF FactorInv, StepUpInv
<1>1. ConfirmedWorks
  BY DEF FactorInv, FactorRight, ConfirmedWorks
<1>2. LimitKept
  BY LimiterAssumption DEF FactorInv, LimitRight, LimitKept
<1> QED
  BY <1>1, <1>2

\* For any number of requests, secrets and periods and any limit: a code is
\* accepted once, an authenticator that is confirmed works, unless requests
\* crossed, and no more attempts pass than the limit, its store reachable or not
\* (adminAuth.ts:189-197, rateLimit.ts:80-94).
THEOREM StepUpIsRight == StepUpSpec => []StepUpInv
<1>1. StepUpSpec => []FactorInv
  BY FactorStart, FactorKept, PTL DEF StepUpSpec
<1> QED
  BY <1>1, FactorImplies, PTL
=============================================================================
