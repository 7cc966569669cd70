----------------------------- MODULE MCSessions -----------------------------
(***************************************************************************)
(* Small instances of who a request comes from: sessions, and the second   *)
(* factor of a moderator.  The two share no state, so that their product   *)
(* would show nothing more: a behaviour is one of one of them, and the     *)
(* other rests.                                                            *)
(***************************************************************************)
EXTENDS Sessions, StepUp, TLC

VARIABLE part

AccountsInit ==
    /\ Init /\ StepUpInit
    /\ part \in {"sessions", "step-up"}

InSessions == part = "sessions" /\ Next /\ UNCHANGED <<stepUpVars, part>>
InStepUp == part = "step-up" /\ StepUpNext /\ UNCHANGED <<vars, part>>

AccountsSpec ==
    AccountsInit /\ [][InSessions \/ InStepUp]_<<vars, stepUpVars, part>>

Symmetry == Permutations(Handlers)
=============================================================================
