----------------------------- MODULE MCRunLease -----------------------------
(* Small instances of RunLease for TLC. *)
EXTENDS RunLease_proof

CONSTANTS r1, c1, c2

=============================================================================
