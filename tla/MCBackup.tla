----------------------------- MODULE MCBackup ------------------------------
(* A small instance of Backup for TLC. *)
EXTENDS Backup, TLC

CONSTANTS p1, p2, r1

Owner == r1 :> p1

=============================================================================
