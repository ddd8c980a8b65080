----------------------------- MODULE MCRestore -----------------------------
(* Small instances of Restore for TLC. *)
EXTENDS Restore, TLC

\* One project whose worktree directory lies outside its state directory, and the
\* state directory of a second one.
Sequence == <<"requirements", "repository", "state", "worktree", "state2">>

On(postgres, wal, within) == [postgres |-> postgres, wal |-> wal, within |-> within]

AllLayouts == {On(TRUE, FALSE, None), On(FALSE, FALSE, None), On(FALSE, TRUE, None),
               On(FALSE, FALSE, "state")}

=============================================================================
