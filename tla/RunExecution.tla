---------------------------- MODULE RunExecution ----------------------------
(***************************************************************************)
(* What the lease protocol promises about runs, with no lease, timer or    *)
(* clock in sight: a controller begins to drive a run only when nobody     *)
(* drives it and its outcome has not been recorded; drivers leave in any   *)
(* order and for any reason; an outcome, once recorded, stays.             *)
(* RunLease implements it (see RunLease_proof).                            *)
(***************************************************************************)
CONSTANTS Runs, Controllers

VARIABLES
  drivers,   \* the controllers that drive each run
  finished   \* the runs with a recorded outcome

vars == <<drivers, finished>>

Init ==
  /\ drivers = [r \in Runs |-> {}]
  /\ finished = {}

Begin(c, r) ==
  /\ drivers[r] = {}
  /\ r \notin finished
  /\ drivers' = [drivers EXCEPT ![r] = {c}]
  /\ UNCHANGED finished

\* Workers end, are killed or record outcomes.
Settle ==
  /\ drivers' \in [Runs -> SUBSET Controllers]
  /\ \A r \in Runs : drivers'[r] \subseteq drivers[r]
  /\ finished' \in SUBSET Runs
  /\ finished \subseteq finished'

Next == Settle \/ \E c \in Controllers, r \in Runs : Begin(c, r)

Spec == Init /\ [][Next]_vars

=============================================================================
