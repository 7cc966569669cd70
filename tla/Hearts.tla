-------------------------------- MODULE Hearts --------------------------------
(***************************************************************************)
(* One buyer's saved listings, in several tabs (lib/WishlistContext.tsx of *)
(* the frontend) and at the server (lib/wishlist.ts).  A tab fills or      *)
(* empties a heart at once, asks the server, and puts the heart back when  *)
(* the answer is a failure.                                                *)
(***************************************************************************)
EXTENDS Naturals, FiniteSets

CONSTANTS
    Tabs,
    Wishes,         \* the listings
    MaxToggles      \* clicks (bound)

ASSUME HeartsAssumption == MaxToggles \in Nat

VARIABLES
    saved,      \* rows of WishlistItem
    ids,        \* ids[t]: the hearts tab t shows filled; null shows none
    calls,      \* saves and removals not yet answered
    loading,    \* loading[t]: the answer to a refresh of t, on its way
    clicks,
    doubt       \* history: <<t, w>> where t cannot know what the server has of w

heartsVars == <<saved, ids, calls, loading, clicks, doubt>>

Nothing == {"nothing"}
Doubted(pairs) == doubt' = doubt \cup pairs

-----------------------------------------------------------------------------
(* toggle                                                                  *)

Toggle(t, w) ==
    /\ clicks < MaxToggles
    /\ clicks' = clicks + 1
    /\ LET next == w \notin ids[t]
       IN  /\ ids' = [ids EXCEPT ![t] = IF next THEN @ \cup {w} ELSE @ \ {w}]
           /\ calls' = calls \cup {[n |-> clicks, tab |-> t, wish |-> w, next |-> next,
                                    before |-> ids[t], at |-> "sent"]}
    /\ Doubted(IF \E c \in calls : c.tab = t /\ c.wish = w THEN {<<t, w>>} ELSE {})
    /\ UNCHANGED <<saved, loading>>

Moves(c, at) == calls' = (calls \ {c}) \cup {[c EXCEPT !.at = at]}

\* The upsert looks for the row before it inserts it.
Looks(c) ==
    /\ c.at = "sent" /\ c.next
    /\ Moves(c, IF c.wish \in saved THEN "done" ELSE "insert")
    /\ UNCHANGED <<saved, ids, loading, clicks, doubt>>

\* Another request inserted it meanwhile, which is a success.  The mistake is
\* to let the violation through.
ViolationFails(c) == IF c.wish \in saved THEN "refused" ELSE "done"
Inserted(c) == "done"

\* A tab that shows otherwise than the server now has it was not the last to
\* decide.
Differ(w) == {<<t, w>> : t \in {u \in Tabs : (w \in ids[u]) # (w \in saved')}}

Inserts(c) ==
    /\ c.at = "insert"
    /\ saved' = saved \cup {c.wish}
    /\ Moves(c, Inserted(c))
    /\ Doubted(Differ(c.wish))
    /\ UNCHANGED <<ids, loading, clicks>>

Removes(c) ==
    /\ c.at = "sent" /\ ~c.next
    /\ saved' = saved \ {c.wish}
    /\ Moves(c, "done")
    /\ Doubted(Differ(c.wish))
    /\ UNCHANGED <<ids, loading, clicks>>

Succeeds(c) ==
    /\ c.at = "done"
    /\ calls' = calls \ {c}
    /\ UNCHANGED <<saved, ids, loading, clicks, doubt>>

\* The mistake is to put back what was on the screen.
ScreenPutBack(c) == c.before
PutBack(c) == IF c.wish \in c.before THEN ids[c.tab] \cup {c.wish} ELSE ids[c.tab] \ {c.wish}

\* The server refuses, or the call is lost on its way there or back.
Fails(c) ==
    /\ c.at \in {"sent", "refused", "done"}
    /\ ids' = [ids EXCEPT ![c.tab] = PutBack(c)]
    /\ calls' = calls \ {c}
    /\ Doubted(IF c.at # "refused" /\ (c.wish \in ids'[c.tab]) # (c.wish \in saved)
               THEN {<<c.tab, c.wish>>} ELSE {})
    /\ UNCHANGED <<saved, loading, clicks>>

-----------------------------------------------------------------------------
(* refresh                                                                 *)

Load(t) ==
    /\ loading[t] = Nothing
    /\ loading' = [loading EXCEPT ![t] = saved]
    /\ UNCHANGED <<saved, ids, calls, clicks, doubt>>

Loaded(t) ==
    /\ loading[t] # Nothing
    /\ ids' = [ids EXCEPT ![t] = loading[t]]
    /\ loading' = [loading EXCEPT ![t] = Nothing]
    /\ Doubted({<<t, w>> : w \in {v \in Wishes :
           \/ (v \in loading[t]) # (v \in saved)
           \/ \E c \in calls : c.tab = t /\ c.wish = v}})
    /\ UNCHANGED <<saved, calls, clicks>>

\* A wishlist that does not load shows no heart filled.
LoadFails(t) ==
    /\ loading[t] # Nothing
    /\ ids' = [ids EXCEPT ![t] = {}]
    /\ loading' = [loading EXCEPT ![t] = Nothing]
    /\ Doubted({t} \X Wishes)
    /\ UNCHANGED <<saved, calls, clicks>>

HeartsInit ==
    /\ saved = {} /\ ids = [t \in Tabs |-> {}] /\ calls = {}
    /\ loading = [t \in Tabs |-> Nothing] /\ clicks = 0 /\ doubt = {}

HeartsNext ==
    \/ \E t \in Tabs : \/ \E w \in Wishes : Toggle(t, w)
                       \/ Load(t) \/ Loaded(t) \/ LoadFails(t)
    \/ \E c \in calls : Looks(c) \/ Inserts(c) \/ Removes(c) \/ Succeeds(c) \/ Fails(c)

HeartsSpec == HeartsInit /\ [][HeartsNext]_heartsVars

-----------------------------------------------------------------------------
\* Hearts and rows are of listings, and calls of tabs.
HeartsTypeOK ==
    /\ saved \subseteq Wishes /\ ids \in [Tabs -> SUBSET Wishes]
    /\ loading \in [Tabs -> {Nothing} \cup SUBSET Wishes]
    /\ \A c \in calls : c.tab \in Tabs /\ c.wish \in Wishes

\* Once its calls are answered a tab shows what the server has: a call that
\* fails takes back its own heart and no other, also of two under way at once,
\* and of two tabs that save the same listing neither fails (wishlist.ts:139-148).
\* Not so where another tab decided otherwise, two clicks on one heart overlap,
\* an answer is lost after its effect, or the wishlist loads meanwhile or not
\* at all.
HeartsAreRight ==
    \A t \in Tabs, w \in Wishes :
        \/ \E c \in calls : c.tab = t /\ c.wish = w
        \/ <<t, w>> \in doubt
        \/ w \in ids[t] <=> w \in saved

\* What holds of saved listings, for one run to check.
HeartsInv == HeartsTypeOK /\ HeartsAreRight
=============================================================================
