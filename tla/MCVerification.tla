--------------------------- MODULE MCVerification ---------------------------
(* Small instances of Verification and the outbox under it. *)
EXTENDS Verification
=============================================================================
