----------------------------- MODULE MCRefunds ------------------------------
(* Small instances of Refunds: one order of two lines. *)
EXTENDS Refunds, TLC

CONSTANTS o1, l1, l2

MCOrderOf == [l \in Lines |-> o1]
MCPrice == [l \in Lines |-> 1]

Symmetry == Permutations(Refunds) \cup Permutations(Hooks) \cup Permutations(Lines)
=============================================================================
