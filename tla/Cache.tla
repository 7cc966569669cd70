------------------------------- MODULE Cache --------------------------------
(***************************************************************************)
(* The read-through cache (lib/cache.ts), by two keys of it that show the  *)
(* reviews of a listing: the rating, of cachedMany(), which has no stale   *)
(* window and no lock; and the listing's page, of cached(), which is       *)
(* served stale while one request that holds its lock refreshes it.  The   *)
(* page's loader (buildListingDetail of routes/catalog.ts) reads the       *)
(* reviews from Postgres and the rating through its key.  Whoever writes a *)
(* review drops both.                                                      *)
(*                                                                         *)
(* What is read of Postgres is told by the number of the last commit in    *)
(* it.  Times to live appear as entries that age and a lock that lapses.   *)
(* A read of Redis that fails is a load that stores nothing.               *)
(***************************************************************************)
EXTENDS Naturals, FiniteSets

CONSTANTS
    Readers,    \* requests, and refreshes they leave in the background
    MaxFaults   \* lost calls to Redis, loads that throw, dead processes (bound)

ASSUME CacheAssumption == MaxFaults \in Nat

VARIABLES
    source,     \* commits in Postgres so far
    rating,     \* what Redis holds under the key of the rating
    page,       \* and under the key of the page
    lock,       \* the lock of the page is there
    reader,     \* reader[r]: what request r has read and is about to do
    due,        \* due[k]: commits whose drop of key k is under way
    faults,     \* faults so far
    lapsed,     \* history: the lock lapsed during a refresh
    escaped     \* history: escaped[k]: commits whose drop the entry escaped

cacheVars == <<rating, page, lock, reader, due, faults, lapsed, escaped>>

CacheKeys == {"rating", "page"}
NoRating == [age |-> "gone", rating |-> 0]
NoPage == [age |-> "gone", own |-> 0, rating |-> 0]
\* "missed" is history: commits since the read that the entry may not show.
Resting == [task |-> "idle", wants |-> "page", refresh |-> FALSE, own |-> 0, rating |-> 0,
            missed |-> {}]
Filling == {"ask", "load", "keep", "store"}
CacheTasks == {"claim", "read", "release"} \cup Filling

Refreshing == {r \in Readers : reader[r].refresh}
Lost == faults < MaxFaults /\ faults' = faults + 1
Reads(r, task) == reader[r].task = task
Turns(r, task) == reader' = [reader EXCEPT ![r].task = task]
Stops(r) == reader' = [reader EXCEPT ![r] = Resting]
Finishes(r) ==
    IF reader[r].refresh
    THEN reader' = [reader EXCEPT ![r] = [Resting EXCEPT !.task = "release", !.refresh = TRUE]]
    ELSE Stops(r)

\* What a commit made stale has been removed or replaced.
Current ==
    /\ rating.age = "gone" \/ rating.rating = source
    /\ page.age = "gone" \/ (page.own = source /\ page.rating = source)

-----------------------------------------------------------------------------
\* A fresh page is served, a stale one is served and refreshed, and without
\* one the request loads.
GetPage(r) ==
    /\ reader[r] = Resting
    /\ page.age # "fresh"
    /\ Turns(r, IF page.age = "stale" THEN "claim" ELSE "read")
    /\ UNCHANGED <<source, rating, page, lock, due, faults, lapsed, escaped>>

\* A page of the catalogue asks for the rating alone.
GetRating(r) ==
    /\ reader[r] = Resting
    /\ rating.age = "gone"
    /\ reader' = [reader EXCEPT ![r].task = "load", ![r].wants = "rating"]
    /\ UNCHANGED <<source, rating, page, lock, due, faults, lapsed, escaped>>

\* SET with NX; the mistake is a plain SET.
LockTakenOver == TRUE
LockFree == ~lock

ClaimRefresh(r) ==
    /\ Reads(r, "claim")
    /\ IF LockFree
       THEN /\ lock' = TRUE
            /\ reader' = [reader EXCEPT ![r].task = "read", ![r].refresh = TRUE]
            /\ lapsed' = (lapsed /\ Refreshing # {})
       ELSE Stops(r) /\ UNCHANGED <<lock, lapsed>>
    /\ UNCHANGED <<source, rating, page, due, faults, escaped>>

\* The star breakdown is read after the reviews and is no older.
ReadReviews(r) ==
    /\ Reads(r, "read")
    /\ reader' = [reader EXCEPT ![r].task = "ask", ![r].own = source]
    /\ UNCHANGED <<source, rating, page, lock, due, faults, lapsed, escaped>>

\* The rating that is there is taken as it is, with what it may lack.
AskRating(r) ==
    /\ Reads(r, "ask")
    /\ IF rating.age = "fresh"
       THEN reader' = [reader EXCEPT ![r].task = "store", ![r].rating = rating.rating,
                                     ![r].missed = @ \cup due["rating"] \cup escaped["rating"]]
       ELSE Turns(r, "load")
    /\ UNCHANGED <<source, rating, page, lock, due, faults, lapsed, escaped>>

LoadRating(r) ==
    /\ Reads(r, "load")
    /\ reader' = [reader EXCEPT ![r].task = "keep", ![r].rating = source]
    /\ UNCHANGED <<source, rating, page, lock, due, faults, lapsed, escaped>>

KeepRating(r) ==
    /\ Reads(r, "keep")
    /\ rating' = [age |-> "fresh", rating |-> reader[r].rating]
    /\ escaped' = [escaped EXCEPT !["rating"] =
           {c \in reader[r].missed : reader[r].rating < c} \ due["rating"]]
    /\ IF reader[r].wants = "page" THEN Turns(r, "store") ELSE Stops(r)
    /\ UNCHANGED <<source, page, lock, due, faults, lapsed>>

StorePage(r) ==
    /\ Reads(r, "store")
    /\ page' = [age |-> "fresh", own |-> reader[r].own, rating |-> reader[r].rating]
    /\ escaped' = [escaped EXCEPT !["page"] = reader[r].missed \ due["page"]]
    /\ Finishes(r)
    /\ UNCHANGED <<source, rating, lock, due, faults, lapsed>>

\* The lock is deleted, whoever holds it by now.
ReleaseRefresh(r) ==
    /\ Reads(r, "release")
    /\ lock' = FALSE
    /\ Stops(r)
    /\ UNCHANGED <<source, rating, page, due, faults, lapsed, escaped>>

\* A load that throws and a page that is not stored go on to the release, a
\* rating that is not kept to the page; any call may be the last the process
\* makes.
ReadFails(r) ==
    /\ reader[r] # Resting
    /\ Lost
    /\ \/ Stops(r)
       \/ reader[r].task \in {"read", "load", "store"} /\ Finishes(r)
       \/ Reads(r, "keep") /\ reader[r].wants = "page" /\ Turns(r, "store")
    /\ UNCHANGED <<source, rating, page, lock, due, lapsed, escaped>>

\* Every entry has a time to live; the mistake is an MSET, which gives none.
NeverExpires == FALSE
Expires == TRUE

AgeRating ==
    /\ Expires
    /\ rating.age = "fresh"
    /\ rating' = NoRating
    /\ escaped' = [escaped EXCEPT !["rating"] = {}]
    /\ UNCHANGED <<source, page, lock, reader, due, faults, lapsed>>

\* A page outlives its expiry by the stale window.
AgePage ==
    /\ page.age # "gone"
    /\ IF page.age = "fresh"
       THEN page' = [page EXCEPT !.age = "stale"] /\ UNCHANGED escaped
       ELSE page' = NoPage /\ escaped' = [escaped EXCEPT !["page"] = {}]
    /\ UNCHANGED <<source, rating, lock, reader, due, faults, lapsed>>

LapseLock ==
    /\ lock
    /\ lock' = FALSE
    /\ lapsed' = (lapsed \/ Refreshing # {})
    /\ UNCHANGED <<source, rating, page, reader, due, faults, escaped>>

-----------------------------------------------------------------------------
(* invalidate, which never throws.                                         *)

NoLongerDue(c, k) == due' = [due EXCEPT ![k] = @ \ {c}]

\* The two calls go out one after the other on one connection.
DropRating(c) ==
    /\ c \in due["rating"]
    /\ NoLongerDue(c, "rating")
    /\ rating' = NoRating
    /\ escaped' = [escaped EXCEPT !["rating"] = {}]
    /\ UNCHANGED <<source, page, lock, reader, faults, lapsed>>

DropPage(c) ==
    /\ c \in due["page"] \ due["rating"]
    /\ NoLongerDue(c, "page")
    /\ page' = NoPage
    /\ escaped' = [escaped EXCEPT !["page"] = {}]
    /\ UNCHANGED <<source, rating, lock, reader, faults, lapsed>>

\* A call that is lost, and a process that dies before it has made them.
DropsFail(c) ==
    /\ Lost
    /\ \E lost \in SUBSET CacheKeys :
        /\ lost # {}
        /\ \A k \in lost : c \in due[k]
        /\ due' = [k \in CacheKeys |-> IF k \in lost THEN due[k] \ {c} ELSE due[k]]
        /\ escaped' = [k \in CacheKeys |-> IF k \in lost THEN escaped[k] \cup {c} ELSE escaped[k]]
    /\ UNCHANGED <<source, rating, page, lock, reader, lapsed>>

-----------------------------------------------------------------------------
CacheInit ==
    /\ source = 0
    /\ rating = NoRating /\ page = NoPage
    /\ lock = FALSE
    /\ reader = [r \in Readers |-> Resting]
    /\ due = [k \in CacheKeys |-> {}]
    /\ faults = 0
    /\ lapsed = FALSE /\ escaped = [k \in CacheKeys |-> {}]

ReadGoesOn(r) ==
    \/ ClaimRefresh(r) \/ ReadReviews(r) \/ AskRating(r) \/ LoadRating(r)
    \/ KeepRating(r) \/ StorePage(r) \/ ReleaseRefresh(r)

CacheStep ==
    \/ AgeRating \/ AgePage \/ LapseLock
    \/ \E r \in Readers : GetPage(r) \/ GetRating(r) \/ ReadGoesOn(r) \/ ReadFails(r)
    \/ \E c \in due["page"] : DropRating(c) \/ DropPage(c) \/ DropsFail(c)

\* At most one request refreshes an entry, however many find it stale at
\* once, unless the lock lapsed under a refresh slower than ten seconds
\* (cache.ts:174).
OneRefresher == lapsed \/ Cardinality(Refreshing) <= 1
=============================================================================
