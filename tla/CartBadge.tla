------------------------------ MODULE CartBadge ------------------------------
(***************************************************************************)
(* The count on the cart in the header (lib/CartContext.tsx of the         *)
(* frontend), which must not go on counting a hold that has lapsed         *)
(* (lib/cart.ts): the answer says when the first hold ends, and the page   *)
(* asks again then.  Time is in seconds.  Orders count too, do not lapse,  *)
(* and are left out.                                                       *)
(***************************************************************************)
EXTENDS Naturals, FiniteSets, FiniteSetsExt

CONSTANTS
    Ends,           \* when the holds end, by the server's clock
    Fast,           \* how far the page's clock is ahead
    MaxHolds,       \* holds taken (bound)
    LastSecond,     \* (bound)
    MaxLost         \* answers that do not come (bound)

\* A second of slack is for a clock "running slightly fast".
ASSUME CartBadgeAssumption ==
    /\ Ends \subseteq Nat \ {0} /\ IsFiniteSet(Ends)
    /\ Fast \in {0, 1} /\ MaxHolds \in Nat /\ MaxLost \in Nat
    /\ LastSecond \in Nat /\ \A e \in Ends : e + 2 <= LastSecond

VARIABLES
    second,     \* the server's clock
    ends,       \* when each hold ends: a hold is told by its end
    taken,
    summary,    \* what the page has: the holds it counts, nextExpiresAt
    due,        \* when the timer fires, by the page's clock, or Unset
    asked,      \* requests on their way to the server
    answers,    \* answers on their way to the page
    lost

badgeVars == <<second, ends, taken, summary, due, asked, answers, lost>>

Unset == 0
EMPTY == [counted |-> {}, nextExpiresAt |-> Unset]
MaxAsked == 2       \* requests under way together (bound)
PageClock == second + Fast
MayAsk == asked + Cardinality(answers) < MaxAsked

\* cartSummary.  The mistake is to count what is held by its status alone.
StillHeld == ends
Held == {e \in ends : e > second}
CartSummary ==
    [counted |-> Held, nextExpiresAt |-> IF Held = {} THEN Unset ELSE Min(Held)]

-----------------------------------------------------------------------------
\* The buyer takes a hold, elsewhere, and the page asks afterwards.
TakeHold(e) ==
    /\ taken < MaxHolds /\ e > second /\ e \notin ends
    /\ MayAsk
    /\ ends' = ends \cup {e} /\ taken' = taken + 1
    /\ asked' = asked + 1
    /\ UNCHANGED <<second, summary, due, answers, lost>>

\* The page is shown again.
BecomesVisible ==
    /\ MayAsk
    /\ asked' = asked + 1
    /\ UNCHANGED <<second, ends, taken, summary, due, answers, lost>>

ServerAnswers ==
    /\ asked > 0
    /\ asked' = asked - 1
    /\ answers' = answers \cup {CartSummary}
    /\ UNCHANGED <<second, ends, taken, summary, due, lost>>

\* The effect on nextExpiresAt: it runs when that changes, and at no other
\* time.  The mistake is to leave out the second of slack.
NoSlack == 0
Slack == 1

Shows(s) ==
    /\ summary' = s
    /\ IF s.nextExpiresAt = summary.nextExpiresAt THEN UNCHANGED <<due, asked>>
       ELSE IF s.nextExpiresAt = Unset THEN due' = Unset /\ UNCHANGED asked
       ELSE IF s.nextExpiresAt + Slack <= PageClock
            THEN due' = Unset /\ asked' = asked + 1
            ELSE due' = s.nextExpiresAt + Slack /\ UNCHANGED asked

Arrives(s) ==
    /\ s \in answers
    /\ answers' = answers \ {s}
    /\ Shows(s)
    /\ UNCHANGED <<second, ends, taken, lost>>

\* A count that will not load is not shown.
AnswerLost ==
    /\ asked > 0 /\ lost < MaxLost
    /\ lost' = lost + 1
    /\ asked' = asked - 1
    /\ summary' = EMPTY /\ due' = Unset
    /\ UNCHANGED <<second, ends, taken, answers>>

TimerFires ==
    /\ due # Unset /\ PageClock >= due
    /\ due' = Unset
    /\ asked' = asked + 1
    /\ UNCHANGED <<second, ends, taken, summary, answers, lost>>

SecondPasses ==
    /\ second < LastSecond
    /\ second' = second + 1
    /\ UNCHANGED <<ends, taken, summary, due, asked, answers, lost>>

BadgeInit ==
    /\ second = 0 /\ ends = {} /\ taken = 0 /\ summary = EMPTY /\ due = Unset
    /\ asked = 1 /\ answers = {} /\ lost = 0

BadgeNext ==
    \/ \E e \in Ends : TakeHold(e)
    \/ BecomesVisible \/ ServerAnswers \/ AnswerLost
    \/ \E s \in answers : Arrives(s)
    \/ TimerFires \/ SecondPasses

BadgeSpec == BadgeInit /\ [][BadgeNext]_badgeVars

-----------------------------------------------------------------------------
\* The clock, the holds and the summary keep their shape.
BadgeTypeOK ==
    /\ second \in 0..LastSecond /\ ends \subseteq Ends
    /\ summary.counted \subseteq ends /\ summary.nextExpiresAt \in summary.counted \cup {Unset}
    /\ asked \in 0..2 * MaxAsked

\* A hold that lapses leaves the badge by itself (CartContext.tsx:84-90,
\* cart.ts:52-60): with no request under way, the timer is set for the end of
\* the first hold that is counted, whatever order the answers came in and
\* though one was lost.
BadgeWillCatchUp ==
    asked = 0 /\ answers = {} /\ summary.counted # {}
    => due = Min(summary.counted) + Slack /\ summary.counted \subseteq ends

\* What holds of the badge, for one run to check.
BadgeInv == BadgeTypeOK /\ BadgeWillCatchUp
=============================================================================
