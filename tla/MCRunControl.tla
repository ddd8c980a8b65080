---------------------------- MODULE MCRunControl ----------------------------
(* A small instance of RunControl for TLC. *)
EXTENDS RunControl, TLC

CONSTANTS r1, r2, k1, k2

\* The run that is created first may wait for anything, the second one does not wait.
SomeKinds == r1 :> {"safe", "review", "ci", "human"} @@ r2 :> {}

SomeNodes == r1 :> 3 @@ r2 :> 1

OneKinds == r1 :> {}

OneNode == r1 :> 1

\* A run that waits for CI and then comes to a safe point.
WaitKinds == r1 :> {"ci", "safe"}

WaitNodes == r1 :> 4

=============================================================================
