----------------------------- MODULE MCReturns ------------------------------
(***************************************************************************)
(* Small instances of a seller's side: fulfilment and returns of an order  *)
(* of one or two lines, the account at the payouts provider, and photos.   *)
(* These share no state, so that their product would show nothing more: a  *)
(* behaviour is one of one component, and the others rest.  So too the     *)
(* photos of the listing and the picture of its seller, whose keys differ. *)
(***************************************************************************)
EXTENDS Returns, PayoutAccount, Uploads, TLC

CONSTANTS o1

MCOrderOf == [l \in Lines |-> o1]
MCPrice == [l \in Lines |-> 1]

VARIABLE part

SellerInit ==
    /\ ReturnsInit /\ PayoutAccountInit /\ UploadsInit
    /\ part \in {"returns", "account", "photos", "picture"}

\* A mishap, or a line written over what had moved, not both (bound).
Bounded == mishaps + Cardinality(crossed) <= 1

InReturns == part = "returns" /\ ReturnsNext /\ Bounded'
    /\ UNCHANGED <<payoutAccountVars, uploadsVars, part>>
InAccount == part = "account" /\ PayoutAccountNext
    /\ UNCHANGED <<vars, uploadsVars, part>>
InUploads ==
    /\ part \in {"photos", "picture"}
    /\ UploadsNext
    /\ part = "photos" => (About("putAvatar") \cup About("set") = {})'
    /\ part = "picture" => (About("putPhoto") = {})' /\ listingVars' = listingVars
    /\ UNCHANGED <<vars, payoutAccountVars, part>>

SellerSpec ==
    /\ SellerInit
    /\ [][InReturns \/ InAccount \/ InUploads]_<<
           vars, payoutAccountVars, uploadsVars, part>>

Symmetry == Permutations(Refunds) \cup Permutations(Desks) \cup Permutations(Uploaders)
=============================================================================
