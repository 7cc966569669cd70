--------------------------- MODULE MCReservations ---------------------------
(* Small instances of Reservations: one seller, buyers that compete for the *)
(* same listing, and fewer reservation rows than it takes to sell it twice. *)
EXTENDS Reservations, TLC

CONSTANTS seller, b1, b2

\* One account sells everything.
MCSeller == [l \in Listings |-> seller]

\* Buyers, holds and requests are interchangeable; the seller is not a buyer.
Symmetry == Permutations({b1, b2}) \cup Permutations(Holds) \cup Permutations(Requests)
=============================================================================
