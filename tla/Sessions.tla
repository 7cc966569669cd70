------------------------------ MODULE Sessions ------------------------------
(***************************************************************************)
(* One user's sessions and password: lib/refreshTokens.ts,                 *)
(* lib/passwordReset.ts and their routes in routes/auth.ts.                *)
(*                                                                         *)
(* A browser has one cookie jar for all its tabs, so several requests may  *)
(* carry the same refresh token; signing in again leaves a session behind  *)
(* that no jar holds.  A handler is one request; its task is the statement *)
(* it runs next.  An UPDATE of many rows sees those that were there when   *)
(* it began and is two steps.                                              *)
(***************************************************************************)
EXTENDS Naturals, FiniteSets

CONSTANTS
    Browsers,
    NoBrowser,
    Handlers,       \* requests handled at the same time
    MaxTokens,      \* how many refresh tokens are minted (bound)
    MaxLinks,       \* how many reset links are made (bound)
    MaxRows         \* how many there are of both (bound)

ASSUME SessionsAssumption ==
    MaxTokens \in Nat \ {0} /\ MaxLinks \in Nat /\ MaxRows \in Nat

VARIABLES
    token,      \* token[t]: the row of "refresh_tokens"
    jar,        \* jar[b]: the refresh token in the browser's cookie
    link,       \* link[k]: the state of the row of "password_reset_tokens"
    handler,    \* handler[h]: what a request is about to do
    chain,      \* history, chain[t]: the token its session began with
    doomed,     \* history: tokens and links that were there when the password
                \* was set, and are not the caller's
    troubled,   \* history: something besides a race may end a session
    together,   \* history: two asked for a link at once, or one set the
                \* password with a link invalidated since it was read
    shared,     \* history: links that two had open at once
    spent       \* history, spent[k]: how often link k set the password

histories == <<chain, doomed, troubled, together, shared, spent>>
vars == <<token, jar, link, handler, histories>>

Tokens == 1..MaxTokens
Links == 1..MaxLinks
NoToken == 0
NoLink == 0

\* recent: revoked less than RACE_GRACE_MS ago.
Token == [state : {"none", "live", "revoked"}, next : Tokens \cup {NoToken},
          recent : BOOLEAN]
Tasks == {"issue", "rotate", "superseded", "next", "set", "snapshot", "revoke",
          "burn", "create", "redeem"}
Purposes == {"session", "reuse", "change", "reset"}
Job == [task : Tasks, for : Purposes, browser : Browsers \cup {NoBrowser},
        token : Tokens \cup {NoToken}, targets : SUBSET Tokens, link : Links \cup {NoLink}]
Idle == [task |-> "idle", for |-> "session"]

Live == {t \in Tokens : token[t].state = "live"}
LiveLinks == {k \in Links : link[k] = "live"}
Made == {t \in Tokens : token[t].state # "none"}
Asked == {k \in Links : link[k] # "none"}
RoomForRow == Cardinality(Made) + Cardinality(Asked) < MaxRows
Unminted == {t \in Tokens \ Made : RoomForRow}
Unused == {k \in Links \ Asked : RoomForRow}
Least(S) == CHOOSE n \in S : \A m \in S : n <= m

Begins(h, task, for, b, t, k) ==
    /\ handler[h] = Idle
    /\ handler' = [handler EXCEPT ![h] =
           [task |-> task, for |-> for, browser |-> b, token |-> t, targets |-> {}, link |-> k]]
Goes(h, task) == handler' = [handler EXCEPT ![h].task = task]
Ends(h) == handler' = [handler EXCEPT ![h] = Idle]
Doing(task) == {h \in Handlers : handler[h].task = task}
Changing == {h \in Handlers : handler[h].for \in {"change", "reset"}}
Carried(t) == \/ \E b \in Browsers : jar[b] = t
              \/ \E h \in Handlers : handler[h] # Idle /\ handler[h].token = t

\* Whoever sets the password is to end what is there.
Doomed(spared) == [tokens |-> Live \ spared, links |-> LiveLinks]
NoneDoomed == [tokens |-> {}, links |-> {}]

-----------------------------------------------------------------------------
(* POST /auth/login: the password is proven, then the session is issued    *)

SignIn(h, b) ==
    /\ Unminted # {}
    /\ Begins(h, "issue", "session", b, NoToken, NoLink)
    /\ UNCHANGED <<token, jar, link, histories>>

\* The mistake is a row with no column that says what replaced it.
NewUnlinked == [state |-> "live", recent |-> FALSE]
New == [state |-> "live", next |-> NoToken, recent |-> FALSE]

IssueSession(h) ==
    LET t == Least(Unminted)
    IN  /\ handler[h].task = "issue"
        /\ Unminted # {}
        /\ token' = [token EXCEPT ![t] = New]
        /\ jar' = [jar EXCEPT ![handler[h].browser] = t]
        /\ chain' = [chain EXCEPT ![t] = t]
        /\ Ends(h)
        /\ UNCHANGED <<link, doomed, troubled, together, shared, spent>>

-----------------------------------------------------------------------------
(* POST /auth/refresh: rotateRefreshToken                                  *)

Refresh(h, b) ==
    LET t == jar[b]
    IN  /\ t # NoToken
        /\ Begins(h, IF t \in Live THEN "rotate" ELSE "superseded", "reuse", b, t, NoLink)
        /\ UNCHANGED <<token, jar, link, histories>>

\* revokedAt IS NULL in the WHERE is the claim; the mistake is to trust the
\* row as it was read.
ClaimedBlindly(t) == TRUE
Claimed(t) == token[t].state = "live"

\* One who loses the claim asks what one asks who comes late; the mistake is
\* to take the loser for a replay.
LoserReplays == "snapshot"
LoserAsks == "superseded"

\* Rotated again while a request still carries the token before it.
Hurried(t) == \E s \in Tokens : token[s].next = t /\ Carried(s)

Rotate(h) ==
    LET t == handler[h].token
        new == Least(Unminted)
    IN  /\ handler[h].task = "rotate"
        /\ IF Claimed(t)
           THEN /\ Unminted # {}
                /\ token' = [token EXCEPT
                       ![t] = [@ EXCEPT !.state = "revoked", !.next = new, !.recent = TRUE],
                       ![new] = New]
                /\ chain' = [chain EXCEPT ![new] = chain[t]]
                /\ \E heard \in BOOLEAN :
                    /\ jar' = IF heard THEN [jar EXCEPT ![handler[h].browser] = new] ELSE jar
                    /\ troubled' = (troubled \/ ~heard \/ Hurried(t))
                /\ Ends(h)
           ELSE Goes(h, LoserAsks) /\ UNCHANGED <<token, jar, chain, troubled>>
        /\ UNCHANGED <<link, doomed, together, shared, spent>>

\* decideOnSupersededToken reads the row again, and then its replacement.
Superseded(h) ==
    LET row == token[handler[h].token]
    IN  /\ handler[h].task = "superseded"
        /\ Goes(h, IF row.recent /\ row.next # NoToken THEN "next" ELSE "snapshot")
        /\ UNCHANGED <<token, jar, link, histories>>

LookAtNext(h) ==
    /\ handler[h].task = "next"
    /\ IF token[handler[h].token].next \in Live THEN Ends(h) ELSE Goes(h, "snapshot")
    /\ UNCHANGED <<token, jar, link, histories>>

-----------------------------------------------------------------------------
(* revokeAllRefreshTokens, and the same UPDATE after a replay              *)

\* A reset spares nobody, and neither does a replay; the mistake is to spare
\* whatever the browser carries.
SparedCookie(h) == {jar[b] : b \in Browsers}
Spared(h) == IF handler[h].for = "change" THEN {handler[h].token} ELSE {}

Snapshot(h) ==
    /\ handler[h].task = "snapshot"
    /\ handler' = [handler EXCEPT ![h].task = "revoke", ![h].targets = Live \ Spared(h)]
    /\ UNCHANGED <<token, jar, link, histories>>

\* The refresh route clears the cookies of a replay; changePassword goes on to
\* the links.
Revoke(h) ==
    /\ handler[h].task = "revoke"
    /\ token' = [t \in Tokens |->
           IF t \in handler[h].targets \cap Live
           THEN [token[t] EXCEPT !.state = "revoked"] ELSE token[t]]
    /\ jar' = IF handler[h].for = "reuse"
              THEN [jar EXCEPT ![handler[h].browser] = NoToken] ELSE jar
    /\ IF handler[h].for = "change" THEN Goes(h, "burn") ELSE Ends(h)
    /\ UNCHANGED <<link, histories>>

Logout(b) ==
    /\ jar[b] # NoToken
    /\ token' = IF jar[b] \in Live THEN [token EXCEPT ![jar[b]].state = "revoked"] ELSE token
    /\ jar' = [jar EXCEPT ![b] = NoToken]
    /\ troubled' = TRUE
    /\ UNCHANGED <<link, handler, chain, doomed, together, shared, spent>>

-----------------------------------------------------------------------------
(* changePassword: the old password is verified first                      *)

ChangePassword(h, b) ==
    /\ jar[b] # NoToken
    /\ Begins(h, "set", "change", b, jar[b], NoLink)
    /\ UNCHANGED <<token, jar, link, histories>>

SetPassword(h) ==
    /\ handler[h].task = "set"
    /\ doomed' = Doomed({handler[h].token})
    /\ Goes(h, "snapshot")
    /\ troubled' = TRUE
    /\ UNCHANGED <<token, jar, link, chain, together, shared, spent>>

\* Every link goes; the mistake is to burn the request's own, like a reset.
BurntOwn(h) == LiveLinks \cap {handler[h].link}
BurntBy(h) == LiveLinks
Burned(S) == [k \in Links |-> IF k \in S THEN "used" ELSE link[k]]

Burn(h) ==
    /\ handler[h].task = "burn"
    /\ link' = Burned(BurntBy(h))
    /\ Ends(h)
    /\ UNCHANGED <<token, jar, histories>>

-----------------------------------------------------------------------------
(* requestPasswordReset and resetPassword                                  *)

\* Links asked for earlier are invalidated first; the mistake is to leave
\* them.
LeftAlone == link
Invalidated == Burned(LiveLinks)

AskReset(h) ==
    /\ Unused # {}
    /\ link' = Invalidated
    /\ Begins(h, "create", "session", NoBrowser, NoToken, NoLink)
    /\ together' = (together \/ Doing("create") # {})
    /\ UNCHANGED <<token, jar, chain, doomed, troubled, shared, spent>>

CreateLink(h) ==
    /\ handler[h].task = "create"
    /\ Unused # {}
    /\ link' = [link EXCEPT ![Least(Unused)] = "live"]
    /\ Ends(h)
    /\ UNCHANGED <<token, jar, histories>>

\* The mistake is to look at nothing but the link's existence.
UsableIfKnown(k) == link[k] # "none"
Usable(k) == link[k] = "live"

OpenLink(h, k) ==
    LET open == {g \in Doing("redeem") : handler[g].link = k}
    IN  /\ Usable(k)
        /\ Begins(h, "redeem", "reset", NoBrowser, NoToken, k)
        /\ shared' = IF open = {} THEN shared ELSE shared \cup {k}
        /\ UNCHANGED <<token, jar, link, chain, doomed, troubled, together, spent>>

\* The link is burned in the transaction that sets the password, and neither
\* update has a condition.
Redeem(h) ==
    LET k == handler[h].link
    IN  /\ handler[h].task = "redeem"
        /\ link' = [link EXCEPT ![k] = "used"]
        /\ spent' = IF k \in shared THEN spent ELSE [spent EXCEPT ![k] = @ + 1]
        /\ doomed' = Doomed({})
        /\ troubled' = TRUE
        /\ together' = (together \/ ~Usable(k))
        /\ Goes(h, "snapshot")
        /\ UNCHANGED <<token, jar, chain, shared>>

-----------------------------------------------------------------------------
\* A process dies; after the password was set, what was to follow is lost.
Dies(h) ==
    /\ handler[h] # Idle
    /\ Ends(h)
    /\ doomed' = IF h \in Changing /\ handler[h].task \in {"snapshot", "revoke", "burn"}
                 THEN NoneDoomed ELSE doomed
    /\ UNCHANGED <<token, jar, link, chain, troubled, together, shared, spent>>

\* Ten seconds later.  A request still about the token has been under way
\* for as long.
GraceEnds(t) ==
    /\ token[t].recent
    /\ Carried(t)
    /\ token' = [token EXCEPT ![t].recent = FALSE]
    /\ troubled' = (troubled \/ \E h \in Handlers : handler[h] # Idle /\ handler[h].token = t)
    /\ UNCHANGED <<jar, link, handler, chain, doomed, together, shared, spent>>

Init ==
    /\ token = [t \in Tokens |-> [state |-> "none", next |-> NoToken, recent |-> FALSE]]
    /\ jar = [b \in Browsers |-> NoToken]
    /\ link = [k \in Links |-> "none"]
    /\ handler = [h \in Handlers |-> Idle]
    /\ chain = [t \in Tokens |-> NoToken]
    /\ doomed = NoneDoomed
    /\ troubled = FALSE
    /\ together = FALSE
    /\ shared = {}
    /\ spent = [k \in Links |-> 0]

Requested(h) ==
    \/ \E b \in Browsers : SignIn(h, b) \/ Refresh(h, b) \/ ChangePassword(h, b)
    \/ AskReset(h)
    \/ \E k \in Links : OpenLink(h, k)

Step(h) ==
    \/ IssueSession(h) \/ Rotate(h) \/ Superseded(h) \/ LookAtNext(h)
    \/ Snapshot(h) \/ Revoke(h) \/ SetPassword(h) \/ Burn(h)
    \/ CreateLink(h) \/ Redeem(h) \/ Dies(h)

Next ==
    \/ \E h \in Handlers : Requested(h) \/ Step(h)
    \/ \E b \in Browsers : Logout(b)
    \/ \E t \in Tokens : GraceEnds(t)

Spec == Init /\ [][Next]_vars

-----------------------------------------------------------------------------
\* Rows, jars and requests keep their shape.
TypeOK ==
    /\ token \in [Tokens -> Token]
    /\ jar \in [Browsers -> Tokens \cup {NoToken}]
    /\ link \in [Links -> {"none", "live", "used"}]
    /\ handler \in [Handlers -> Job \cup {Idle}]
    /\ chain \in [Tokens -> Tokens \cup {NoToken}]
    /\ doomed \in [tokens : SUBSET Tokens, links : SUBSET Links]
    /\ {troubled, together} \subseteq BOOLEAN
    /\ shared \subseteq Links
    /\ spent \in [Links -> Nat]

\* However many requests refresh one session at once, its chain does not fork:
\* no two live tokens are of one session (refreshTokens.ts:97-103).
ChainsDoNotFork == \A s, t \in Live : chain[s] = chain[t] => s = t

\* Requests of one session that race to refresh it never sign it out: that
\* takes a lost answer, a second rotation before a request ends that carries
\* the token before it, a request slower than the grace, or somebody who ends
\* the session.
RacesKeepTheSession ==
    ~troubled =>
        /\ ~\E h \in Doing("snapshot") \cup Doing("revoke") : handler[h].for = "reuse"
        /\ \A b \in Browsers : jar[b] # NoToken => jar[b] \in Live

\* When a change of password is over, every session that was open when it was
\* made has ended, the caller's own excepted (refreshTokens.ts:218).  The ones
\* excused are what a process that died half way was to end, and a token that
\* is minted between the change and its revocation.
PasswordEndsSessions == Changing = {} => Live \cap doomed.tokens = {}

\* "Two live links can never exist at once": unless they were asked for at
\* once, or one was invalidated while it was being used.
OneLiveLink == ~together => Cardinality(LiveLinks) <= 1

\* A link sets the password once, unless two had it open at the same time.
LinkSpentOnce == \A k \in Links \ shared : spent[k] <= 1

\* Nor does a link survive a change of password.
LinksDieWithPassword == ~together /\ Changing = {} => LiveLinks \cap doomed.links = {}

\* What holds of sessions and links.
SessionsInv ==
    TypeOK /\ ChainsDoNotFork /\ OneLiveLink /\ LinkSpentOnce /\ RacesKeepTheSession

\* A change of password leaves neither an old session nor a link.
PasswordEndsAll == PasswordEndsSessions /\ LinksDieWithPassword
=============================================================================
