---------------------------- MODULE MCWorktrees ----------------------------
(* Small instances of Worktrees for TLC. *)
EXTENDS Worktrees_proof, TLC

CONSTANTS r1, r2, b1, b2, t1, t2, t3, collector

\* The first two task ids differ only in what create_worktree folds.
Folded == t1 :> b1 @@ t2 :> b1 @@ t3 :> b2

=============================================================================
