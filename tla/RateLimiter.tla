---------------------------- MODULE RateLimiter -----------------------------
(***************************************************************************)
(* One key of lib/rateLimit.ts in the store that all processes share: a    *)
(* counter that starts with the first attempt of a window and ends with    *)
(* the window.                                                             *)
(***************************************************************************)
EXTENDS Naturals, FiniteSets

CONSTANTS
    Limit,
    MaxWindows      \* windows that end (bound)

ASSUME LimiterAssumption == Limit \in Nat \ {0} /\ MaxWindows \in Nat

VARIABLES
    counter,    \* attempts, and whether the key has an expiry
    windows,    \* windows that have ended
    admitted    \* history: attempts let through in this window

limiterVars == <<counter, windows, admitted>>

NoCount == [n |-> 0, expires |-> FALSE]
Room == counter.n < Limit

\* INCR and PEXPIRE are one script.  The mistake is to send two commands, the
\* second of which may never arrive.
IncrThenExpire == {TRUE, FALSE}
ExpirySet == {TRUE}

\* A count above the limit is no different from the limit.
Counts ==
    \E set \in ExpirySet :
        counter' = [n |-> IF Room THEN counter.n + 1 ELSE counter.n,
                    expires |-> IF counter.n = 0 THEN set ELSE counter.expires]

\* The answer when the store cannot be reached: a limit that fails open lets
\* the attempt through.  The mistake is that this one does too.
ThroughAnyway(failClosed) == TRUE
Through(failClosed) == ~failClosed

\* checkRateLimit: the attempt is counted and allowed or not, or the store
\* cannot be reached, before it counts or after.
Checks(failClosed, allowed) ==
    /\ \/ allowed = Room /\ Counts
       \/ allowed = Through(failClosed) /\ (Counts \/ UNCHANGED counter)
    /\ admitted' = IF allowed THEN admitted + 1 ELSE admitted
    /\ UNCHANGED windows

\* The window of a key with an expiry ends.
WindowEnds ==
    /\ counter.n > 0 /\ counter.expires
    /\ windows < MaxWindows
    /\ windows' = windows + 1
    /\ counter' = NoCount
    /\ admitted' = 0

LimiterInit == counter = NoCount /\ windows = 0 /\ admitted = 0

-----------------------------------------------------------------------------
\* A limit that fails closed holds whether its store can be reached or not: no
\* more attempts pass in a window than the limit, and no counter is without an
\* end (rateLimit.ts:80-94, :169-177).
LimitKept ==
    /\ admitted <= Limit
    /\ counter.n > 0 => counter.expires
=============================================================================
