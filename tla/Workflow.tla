------------------------------ MODULE Workflow ------------------------------
(***************************************************************************)
(* A convergence run from bootstrap to its end: the graph that build_graph *)
(* (graph_service.py) composes of the nodes of Planning, Reviewing and     *)
(* Delivery, in the world of WorkflowState.                                *)
(***************************************************************************)
EXTENDS Planning, Delivery

Nodes == {
  "bootstrap", "guard_plan", "pause_plan", "scout", "plan", "planner_human",
  "prepare_worktree", "tdd_baseline", "pause_build", "tdd_red_build", "tdd_red_gate",
  "snapshot_frozen_red", "pause_tdd_red_repair", "tdd_human", "build",
  "guard_quality", "quality", "review", "pause_reviewer_recovery",
  "pause_reviewer_recovery_wait", "reviewer_recovery", "review_execution_failure",
  "spec_stop", "pause_repair", "repair", "replan", "human", "pause_integrate",
  "integrate", "pause_pr", "pr", "ci_poll", "ci_wait", "pause_merge", "merge",
  "refresh"}

HumanInterrupts == {"risk_policy", "ci_failure_budget", "repair_replan_budget",
  "iteration_budget", "tdd_evidence_failure", "planner_failure_budget"}

Next == PlanningStep \/ ReviewingStep \/ DeliveryStep \/ World \/ Rest

Spec == Init /\ [][Next]_vars

\* A worker executes the node that is due and the controller's timer ends a
\* machine wait: nobody promises an answer, or anything else of the World.
FairSpec == Spec /\ WF_vars(PlanningStep \/ ReviewingStep \/ DeliveryStep \/ WakeUp)

-----------------------------------------------------------------------------
OrNone(S) == S \cup {None}

Controls == [target : OrNone(Req), attempts : 0..MaxPlanAttempts,
             recoveries : 0..MaxProviderRecoveries]

Tasks == [req : Req, tdd : BOOLEAN, risky : BOOLEAN]

\* No value of a key is the absence of the key.
ASSUME Absent ==
  /\ None \notin Trees /\ None \notin Tasks /\ None \notin Controls /\ None \notin Req
  /\ None \notin Accepted \cup {"resume"}
  /\ None \notin HumanInterrupts \cup MachineWaits \cup {"controlled_pause"}

TypeOK ==
  /\ at \in Nodes \cup {"end"}
  /\ step \in {"start", "built", "committed", "pushed", "merged", "cleaned"}
  /\ waiting \in OrNone(HumanInterrupts \cup MachineWaits \cup {"controlled_pause"})
  /\ outcome \in {"running", "ended", "failed"}
  /\ s.compliance \in Ledgers /\ disk.ledger \in Ledgers
  /\ s.control \in OrNone(Controls)
  /\ s.task \in OrNone(Tasks)
  /\ s.iteration \in 0..MaxIterations
  /\ s.repairs \in 0..(IF MaxRepairs = 0 THEN 1 ELSE MaxRepairs)
  /\ s.replans \in Nat
  /\ s.tddReplans \in 0..MaxReplans
  /\ s.redAttempts \in 0..MaxRepairs + 1
  /\ s.retries \in 0..MaxReviewRetries + 1
  /\ s.red \in {"absent", "failed"} \cup Tests
  /\ {s.risks, s.approved} \subseteq SUBSET Flags
  /\ {s.fingerprint, s.commit, s.pr, repo.wt, repo.head, repo.branch,
      audit.gated, audit.reviewed, audit.cleared} \subseteq OrNone(Trees)
  /\ repo.pr \in {"none", "open", "closed", "merged"}

-----------------------------------------------------------------------------
\* A tree is published by this step.
Pushes == repo'.branch # None /\ repo'.branch # repo.branch

\* What leaves the machine is what was judged: a push publishes exactly the tree
\* that the reviewers passed, against the base they saw, free of what policy
\* blocks, and approved by a human where policy or the task calls for one;
\* approvals of another diff do not count (review, human_gate, integrate).
PushedIsReviewed ==
  [][Pushes => LET tree == repo'.branch
               IN /\ tree = audit.reviewed
                  /\ s.recordedBase = repo.tracked
                  /\ tree.code \notin Secret
                  /\ tree.code \in Risky \/ s.task.risky => tree = audit.cleared]_vars

\* And it is the tree as the green gates left it: nothing changes it on the way from
\* quality to the push.  For a test-driven task it contains the test whose failure
\* was verified and frozen, byte for byte (the protection in build and repair,
\* run_tdd_green).
PushedIsGated ==
  [][Pushes => /\ repo'.branch = audit.gated
               /\ s.task.tdd => repo'.branch.red = s.red]_vars

\* A merge takes the head for which CI last reported success, over every repair,
\* re-push and crash in between (create_pr, ci_poll, merge_pr).
MergedIsGreen ==
  [][(repo.pr # "merged" /\ repo'.pr = "merged") =>
        repo.branch # None /\ audit.ci = [report |-> "pass", head |-> repo.branch]]_vars

\* Between two candidates nothing of the old one is left, whatever crashed on
\* the way: no open pull request, task branch or worktree
\* (_discard_current_workspace, merge_pr).
CleanStart ==
  at \in {"guard_plan", "pause_plan", "scout", "plan", "planner_human"} =>
    repo.wt = None /\ repo.head = None /\ repo.branch = None /\ repo.pr # "open"

\* PASS is never claimed, in the ledger or in the state, for a requirement that
\* no verifier passed and no merge delivered (mark_local_pass, apply_verifications,
\* mark_remote_verified).
PassIsEarned ==
  \A r \in Req : "PASS" \in {disk.ledger[r], s.compliance[r]} => r \in audit.earned

\* PASS is not lost either, but to a verifier: the ledger that a crashed or a
\* later run starts from still knows what earlier merges delivered.
PassIsKept ==
  [][\A r \in Req \ Verified :
       disk.ledger[r] = "PASS" => disk'.ledger[r] = "PASS"]_vars

\* No merge is lost: a requirement whose pull request was merged on GitHub is on
\* PASS in the state and in the ledger file, for good unless it has a verifier, or
\* merge_pr is still due for it and accounts for the merge when it is executed
\* again (merge_pr, GitHubAdapter.merge); a call that fails there ends the run.
MergeAccounted ==
  \A r \in audit.merged \ Verified :
    \/ s.compliance[r] = "PASS" /\ disk.ledger[r] = "PASS"
    \/ at = "merge" /\ s.task.req = r /\ outcome # "ended"

\* A run that says it has converged has every mandatory requirement on PASS, and
\* so has the ledger that the next run starts from.
ConvergedHonestly ==
  outcome = "ended" /\ s.status \in {"converged", "target_converged"} =>
    \A r \in Req : s.compliance[r] = "PASS" /\ disk.ledger[r] = "PASS"

\* The operator is only asked about a failed candidate once the machine's own
\* means are used up (AfterFailure; ARCHITECTURE.md, human-in-the-loop); after an
\* edit of the requirements the question can have another occasion.
HumanIsLastResort ==
  waiting \in {"repair_replan_budget", "ci_failure_budget"} /\ disk.spec = "pinned" =>
    s.repairs >= MaxRepairs /\ s.replans >= MaxReplans

\* An outage of the reviewers is never taken for their verdict: it spends no
\* repair and no replan, and asks no operator (route_after_review).
OutageIsNoVerdict ==
  at \in {"pause_repair", "repair", "replan", "human"} =>
    s.status \notin {"review_transport_failure", "reviewer_recovery_wait",
                     "review_execution_failed"}

\* A decision that its node has not dealt with yet; a pause is not asked about.
DecisionTaken == answer # None /\ at \in {"planner_human", "tdd_human", "human"}

\* Every decision that /decision passed on is in the durable state once, or about
\* to be, whatever crashes and pauses come between (record_human_decision).
AnswersRecorded ==
  outcome # "failed" =>
    audit.answers = s.decisions + (IF DecisionTaken THEN 1 ELSE 0)

\* Once ci_timeout_seconds have passed for a head, an observation of its CI ends
\* the waiting.
TimeoutEndsWaiting ==
  [][at = "ci_poll" /\ disk.late /\ at' # at => at' # "ci_wait"]_vars

\* The run comes to rest: it ends, fails or asks a human.
Settled == outcome # "running" \/ waiting \in HumanInterrupts \cup {"controlled_pause"}

\* No loop of the graph goes on for ever but two: polling a CI that stays pending
\* and, with two retries or more, calling reviewers who stay out of reach, as
\* attempts that reviewer_recovery_wait follows are not counted (reviewer_recovery).
Settles ==
  \/ <>[](at \in {"ci_poll", "ci_wait"})
  \/ <>[](at \in {"reviewer_recovery", "pause_reviewer_recovery_wait"})
  \/ []<>Settled

=============================================================================
