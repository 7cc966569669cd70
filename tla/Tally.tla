------------------------------- MODULE Tally --------------------------------
(***************************************************************************)
(* Sums over a finite set of rows.  The program adds up quantities and     *)
(* cents with reduce and _sum; here a sum counts tokens, so that the proof *)
(* system can reason about it with cardinalities.                          *)
(***************************************************************************)
EXTENDS Integers, FiniteSets

\* n[x] tokens for each x of S.
Tokens(S, n) == UNION {{x} \X (1..n[x]) : x \in S}

\* The sum of n[x] for x in S.
Tally(S, n) == Cardinality(Tokens(S, n))
=============================================================================
