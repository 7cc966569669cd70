------------------------------ MODULE Reviews -------------------------------
(***************************************************************************)
(* One buyer's review of one listing (lib/reviews.ts, routes/reviews.ts,   *)
(* and removeReview of lib/moderation.ts), and the two keys of the cache   *)
(* that show it: the rating, and the listing's page.                       *)
(*                                                                         *)
(* The buyer's order of the listing is paid.  Stars and bodies are data:   *)
(* each write shows as one more commit.                                    *)
(***************************************************************************)
EXTENDS Cache

CONSTANTS
    Writers,    \* requests of the buyer and of a moderator
    MaxWrites   \* writes of the review (bound)

ASSUME ReviewsAssumption == MaxWrites \in Nat

VARIABLES
    review,     \* id of the row: the number of the commit that created it
    writer      \* writer[w]: what the request read and is about to do

reviewVars == <<review, writer>>
reviewsVars == <<source, cacheVars, reviewVars>>

NoReview == 0
WriterTasks == {"post", "edit", "delete", "remove"}
AtRest == [task |-> "idle", id |-> NoReview]

Writing(w, task) == writer[w].task = task

\* eligibility, and the reads of editReview, deleteReview and removeReview,
\* which want a row.
ReadReview(w, task) ==
    /\ writer[w] = AtRest
    /\ source < MaxWrites
    /\ task = "post" \/ review # NoReview
    /\ writer' = [writer EXCEPT ![w] = [task |-> task, id |-> review]]
    /\ UNCHANGED <<source, cacheVars, review>>

\* dropReviewCaches has both keys dropped after the write, and a moderator's
\* removal neither; the mistake is to drop the page alone.
DropsPage(task) == IF task = "remove" THEN {} ELSE {"page"}
Drops(task) == IF task = "remove" THEN {} ELSE CacheKeys

Commits(w, id) ==
    LET c == source + 1
    IN  /\ source < MaxWrites
        /\ source' = c
        /\ review' = id
        /\ reader' = [r \in Readers |->
               IF reader[r].task \in Filling THEN [reader[r] EXCEPT !.missed = @ \cup {c}]
               ELSE reader[r]]
        /\ due' = [k \in CacheKeys |->
               IF k \in Drops(writer[w].task) THEN due[k] \cup {c} ELSE due[k]]
        /\ escaped' = [k \in CacheKeys |->
               IF Writing(w, "remove") THEN escaped[k] \cup {c} ELSE escaped[k]]
        /\ writer' = [writer EXCEPT ![w] = AtRest]
        /\ UNCHANGED <<rating, page, lock, faults, lapsed>>

\* upsertReview.  Telling the seller is left out.
Post(w) == Writing(w, "post") /\ Commits(w, IF review = NoReview THEN source' ELSE review)

\* editReview, deleteReview and the moderator's removeReview, by id: on a row
\* that is gone they throw.
Change(w) ==
    /\ writer[w].task \in {"edit", "delete", "remove"}
    /\ IF review = writer[w].id
       THEN Commits(w, IF Writing(w, "edit") THEN review ELSE NoReview)
       ELSE /\ writer' = [writer EXCEPT ![w] = AtRest]
            /\ UNCHANGED <<source, cacheVars, review>>

WriterDies(w) ==
    /\ writer[w] # AtRest
    /\ Lost
    /\ writer' = [writer EXCEPT ![w] = AtRest]
    /\ UNCHANGED <<source, rating, page, lock, reader, due, lapsed, escaped, review>>

-----------------------------------------------------------------------------
ReviewsInit ==
    /\ CacheInit
    /\ review = NoReview
    /\ writer = [w \in Writers |-> AtRest]

ReviewsNext ==
    \/ CacheStep /\ UNCHANGED reviewVars
    \/ \E w \in Writers :
           \/ \E task \in WriterTasks : ReadReview(w, task)
           \/ Post(w) \/ Change(w) \/ WriterDies(w)

\* Redis lets entries expire.
ReviewsFairness ==
    /\ WF_reviewsVars(AgeRating /\ UNCHANGED reviewVars)
    /\ WF_reviewsVars(AgePage /\ UNCHANGED reviewVars)

ReviewsSpec == ReviewsInit /\ [][ReviewsNext]_reviewsVars /\ ReviewsFairness

-----------------------------------------------------------------------------
\* Entries, requests and counters keep their shape, and no entry shows a commit
\* to come.
ReviewsTypeOK ==
    /\ source \in 0..MaxWrites /\ review \in 0..source
    /\ rating.age \in {"fresh", "gone"} /\ rating.rating \in 0..source
    /\ page.age \in {"fresh", "stale", "gone"}
    /\ page.own \in 0..source /\ page.rating \in 0..source
    /\ \A r \in Readers : reader[r] = Resting \/ reader[r].task \in CacheTasks
    /\ \A k \in CacheKeys : due[k] \cup escaped[k] \subseteq 1..source

\* What a key shows lacks a commit only if its drop is under way, or was lost,
\* or was not sent, as a moderator's removal sends none; or if the entry was
\* stored after the drop by a request that had read before: before the commit,
\* or, of the rating on a page, before the drop of the rating
\* (reviews.ts:145, cache.ts:385).
StaleIsExplained ==
    \A c \in 1..source :
        /\ rating.age # "gone" /\ rating.rating < c => c \in due["rating"] \cup escaped["rating"]
        /\ page.age # "gone" /\ (page.own < c \/ page.rating < c) =>
               c \in due["page"] \cup escaped["page"]

\* Once the writes stop the cache shows what is there, whatever was lost or
\* overtaken: every entry has an end (cache.ts:390).
CacheCatchesUp == <>[]Current

\* What holds of the cache and of what it shows.
ReviewsInv == ReviewsTypeOK /\ OneRefresher /\ StaleIsExplained
=============================================================================
