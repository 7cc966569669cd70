------------------------------ MODULE MCOrders ------------------------------
(* Small instances of Orders: one seller, two buyers, one or two listings. *)
EXTENDS Orders, TLC

CONSTANTS seller, b1, b2

MCSeller == [l \in Listings |-> seller]

Symmetry ==
    Permutations({b1, b2}) \cup Permutations(Holds) \cup Permutations(Orders)
        \cup Permutations(Sweepers)
        \cup Permutations(Workers \ Sweepers)
=============================================================================
