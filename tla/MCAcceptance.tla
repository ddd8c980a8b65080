---------------------------- MODULE MCAcceptance ----------------------------
(* Small instances of Acceptance for TLC. *)
EXTENDS Acceptance

CONSTANTS r1, r2, p1, p2, p3, t1, t2, f1, f2, c1, c2

=============================================================================
