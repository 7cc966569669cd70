------------------------------- MODULE Phones -------------------------------
(***************************************************************************)
(* Proving one telephone number (lib/smsVerification.ts and the phone      *)
(* routes of routes/notifications.ts).  Several accounts want the same     *)
(* number, whose unique index lets one of them have it.                    *)
(*                                                                         *)
(* A caller is one request.  A transaction that updates many rows changes  *)
(* those that were there when it began: it begins, and it commits.         *)
(***************************************************************************)
EXTENDS Naturals, FiniteSets

CONSTANTS
    Accounts,
    NoAccount,
    Callers,
    MAX_ATTEMPTS,   \* wrong guesses against one code
    MaxCodes        \* codes issued (bound)

ASSUME PhonesAssumption ==
    /\ NoAccount \notin Accounts
    /\ IsFiniteSet(Callers)
    /\ MAX_ATTEMPTS \in Nat \ {0} /\ MaxCodes \in Nat

VARIABLES
    code,       \* code[c]: the row of "phone_verifications"
    phoneOf,    \* the account that has the number
    caller,     \* caller[c]: what the request read and is about to write
    withdrawn,  \* history: codes that a removal ended
    atOnce,     \* history: accounts that asked for two codes at once
    returned    \* history: a code that a removal had ended proved the number

phonesVars == <<code, phoneOf, caller, withdrawn, atOnce, returned>>

Codes == 1..MaxCodes        \* in the order of createdAt
Unissued == [of |-> NoAccount, live |-> FALSE, expired |-> FALSE, attempts |-> 0]
NotCalling == [task |-> "idle"]

LiveCodes(u) == {c \in Codes : code[c].of = u /\ code[c].live}
Spends(S) == [c \in Codes |-> IF c \in S THEN [code[c] EXCEPT !.live = FALSE] ELSE code[c]]
Calls(c, task, u, codes) ==
    /\ caller[c] = NotCalling
    /\ caller' = [caller EXCEPT ![c] = [task |-> task, of |-> u, codes |-> codes, late |-> FALSE]]
HangsUp(c) == caller' = [caller EXCEPT ![c] = NotCalling]
Calling(c, task) == caller[c].task = task

-----------------------------------------------------------------------------
\* issueAndSendCode refuses a number another account has proven; earlier
\* codes are spent in the transaction that writes the new one.  The message
\* may be lost: anybody may ask again.
Issue(c, u) ==
    /\ phoneOf \in {u, NoAccount}
    /\ Calls(c, "issue", u, LiveCodes(u))
    /\ atOnce' = IF \E d \in Callers : Calling(d, "issue") /\ caller[d].of = u
                 THEN atOnce \cup {u} ELSE atOnce
    /\ UNCHANGED <<code, phoneOf, withdrawn, returned>>

IssueCommits(c) ==
    LET u == caller[c].of
    IN  /\ Calling(c, "issue")
        /\ \E new \in Codes :
            /\ code[new] = Unissued
            /\ \A d \in 1..new - 1 : code[d] # Unissued
            /\ code' = [Spends(caller[c].codes) EXCEPT ![new] = [Unissued EXCEPT !.of = u, !.live = TRUE]]
        /\ HangsUp(c)
        /\ UNCHANGED <<phoneOf, withdrawn, atOnce, returned>>

\* The mistake is to stop one guess late.
GuessesLeftOver(k) == code[k].attempts <= MAX_ATTEMPTS
GuessesLeft(k) == code[k].attempts < MAX_ATTEMPTS

\* verifyCode looks at the latest code that is not spent, and finds the guess
\* right or wrong.
Guess(c, u) ==
    LET latest == {k \in LiveCodes(u) : \A d \in LiveCodes(u) : d <= k}
    IN  /\ \E k \in latest : ~code[k].expired /\ GuessesLeft(k)
        /\ \E task \in {"prove", "count"} : Calls(c, task, u, latest)
        /\ UNCHANGED <<code, phoneOf, withdrawn, atOnce, returned>>

CountGuess(c) ==
    /\ Calling(c, "count")
    /\ \E k \in caller[c].codes : code' = [code EXCEPT ![k].attempts = @ + 1]
    /\ HangsUp(c)
    /\ UNCHANGED <<phoneOf, withdrawn, atOnce, returned>>

\* The code is spent and the number written whatever became of the code; the
\* unique index undoes both when another account was first.
Prove(c) ==
    /\ Calling(c, "prove")
    /\ IF phoneOf \in {caller[c].of, NoAccount}
       THEN /\ code' = Spends(caller[c].codes)
            /\ phoneOf' = caller[c].of
            /\ returned' = (returned \/ (~caller[c].late /\ caller[c].codes \cap withdrawn # {}))
       ELSE UNCHANGED <<code, phoneOf, returned>>
    /\ HangsUp(c)
    /\ UNCHANGED <<withdrawn, atOnce>>

\* removePhone.
Remove(c, u) ==
    /\ Calls(c, "remove", u, LiveCodes(u))
    /\ UNCHANGED <<code, phoneOf, withdrawn, atOnce, returned>>

\* A guess that was checked before is late.
RemoveCommits(c) ==
    LET u == caller[c].of
    IN  /\ Calling(c, "remove")
        /\ code' = Spends(caller[c].codes)
        /\ phoneOf' = IF phoneOf = u THEN NoAccount ELSE phoneOf
        /\ withdrawn' = withdrawn \cup caller[c].codes
        /\ caller' = [d \in Callers |-> IF d = c THEN NotCalling
                      ELSE IF Calling(d, "prove") /\ caller[d].of = u
                      THEN [caller[d] EXCEPT !.late = TRUE] ELSE caller[d]]
        /\ UNCHANGED <<atOnce, returned>>

CallDies(c) ==
    /\ caller[c] # NotCalling
    /\ HangsUp(c)
    /\ UNCHANGED <<code, phoneOf, withdrawn, atOnce, returned>>

\* Ten minutes after a code was issued.
CodeExpires(k) ==
    /\ code[k].live /\ ~code[k].expired
    /\ code' = [code EXCEPT ![k].expired = TRUE]
    /\ UNCHANGED <<phoneOf, caller, withdrawn, atOnce, returned>>

-----------------------------------------------------------------------------
PhonesInit ==
    /\ code = [c \in Codes |-> Unissued]
    /\ phoneOf = NoAccount
    /\ caller = [c \in Callers |-> NotCalling]
    /\ withdrawn = {} /\ atOnce = {} /\ returned = FALSE

PhonesNext ==
    \/ \E c \in Callers :
        \/ \E u \in Accounts : Issue(c, u) \/ Guess(c, u) \/ Remove(c, u)
        \/ IssueCommits(c) \/ CountGuess(c) \/ Prove(c) \/ RemoveCommits(c) \/ CallDies(c)
    \/ \E k \in Codes : CodeExpires(k)

PhonesSpec == PhonesInit /\ [][PhonesNext]_phonesVars

-----------------------------------------------------------------------------
\* Codes, the number and requests keep their shape.
PhonesTypeOK ==
    /\ code \in [Codes -> [of : Accounts \cup {NoAccount}, live : BOOLEAN,
                           expired : BOOLEAN, attempts : Nat]]
    /\ phoneOf \in Accounts \cup {NoAccount}
    /\ withdrawn \subseteq Codes

\* The limit is read before a guess is counted: each request that is under way
\* beside the last allowed one may add a guess, and no more
\* (smsVerification.ts:27, :138).
GuessesBounded == \A c \in Codes : code[c].attempts < MAX_ATTEMPTS + Cardinality(Callers)

\* "One live code per user at a time" (smsVerification.ts:71), unless two were
\* asked for at once.
OneLiveCode == \A u \in Accounts \ atOnce : Cardinality(LiveCodes(u)) <= 1

\* A number that was removed does not come back by a code asked for before,
\* unless the code was checked before the removal.
RemovedStaysAway == ~returned

\* What holds of codes and the number.
PhonesInv == PhonesTypeOK /\ GuessesBounded /\ OneLiveCode /\ RemovedStaysAway
=============================================================================
