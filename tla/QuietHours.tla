----------------------------- MODULE QuietHours -----------------------------
(***************************************************************************)
(* The hours in which nobody is texted (lib/quietHours.ts): whether a      *)
(* minute of the day lies in the window, which may wrap midnight, and when *)
(* the window closes.                                                      *)
(***************************************************************************)
EXTENDS Naturals

CONSTANT MINUTES_PER_DAY

ASSUME QuietAssumption == MINUTES_PER_DAY \in Nat \ {0}

VARIABLES from, to, now

quietVars == <<from, to, now>>

Minutes == 0..MINUTES_PER_DAY - 1

\* The mistake is to forget that the window may wrap.
InWindowOfADay(f, t, n) == n >= f /\ n < t
InWindow(f, t, n) == IF f <= t THEN n >= f /\ n < t ELSE n >= f \/ n < t

\* Minutes until the window closes, asked for within it.  The mistake is to
\* count them within one day; as numbers here are natural, up to its end.
RemainingToday(f, t, n) == IF n < t THEN t - n ELSE MINUTES_PER_DAY - n
Remaining(f, t, n) ==
    IF f <= t THEN t - n
    ELSE IF n >= f THEN MINUTES_PER_DAY - n + t ELSE t - n

QuietInit == from \in Minutes /\ to \in Minutes /\ now \in Minutes

MinutePasses == now' = (now + 1) % MINUTES_PER_DAY /\ UNCHANGED <<from, to>>

QuietSpec == QuietInit /\ [][MinutePasses]_quietVars

-----------------------------------------------------------------------------
\* The minute after n minutes, and how many went by since the window opened.
After(n) == (now + n) % MINUTES_PER_DAY
SinceOpening == (now + MINUTES_PER_DAY - from) % MINUTES_PER_DAY
Length == (to + MINUTES_PER_DAY - from) % MINUTES_PER_DAY

\* Whether or not the window wraps midnight, a minute is in it if fewer have
\* gone by since it opened than it is long, and a message that is put off is
\* put off to the first minute outside (quietHours.ts:103-128).
QuietHoursRight ==
    /\ InWindow(from, to, now) <=> SinceOpening < Length
    /\ InWindow(from, to, now) =>
           LET n == Remaining(from, to, now)
           IN  /\ n > 0 /\ ~InWindow(from, to, After(n))
               /\ \A m \in 0..n - 1 : InWindow(from, to, After(m))
=============================================================================
