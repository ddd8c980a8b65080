----------------------------- MODULE MCRunBudget -----------------------------
(* Small instances of RunBudget for TLC. *)
EXTENDS RunBudget

CONSTANTS builder, security, compatibility

\* A builder's request is twice as large as a reviewer's.
UnequalCost == [r \in Roles |-> IF r \in Reviewers THEN 1 ELSE 2]

=============================================================================
