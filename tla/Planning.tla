------------------------------ MODULE Planning ------------------------------
(***************************************************************************)
(* The nodes that choose a requirement, get a task for it from the planner *)
(* and establish RED test evidence: bootstrap to the last RED attempt.     *)
(* Sources: workflow.py (bootstrap, prepare_worktree), targeting.py,       *)
(* graph.py (scout, tdd_* nodes, snapshot_frozen_red).                     *)
(***************************************************************************)
EXTENDS WorkflowState

MaxPlanAttempts == 2        \* _MAX_PLAN_ATTEMPTS
MaxProviderRecoveries == 3  \* _MAX_PROVIDER_RECOVERY_ATTEMPTS

LoadedAfresh == Fresh.compliance

\* _load_compliance.
Loaded == disk.ledger

\* The project is pinned to the hash of its requirements file; the ledger of
\* earlier runs is loaded and every budget starts anew.
Bootstrap ==
  /\ At("bootstrap")
  /\ UNCHANGED <<repo, audit>>
  /\ IF disk.spec = "edited" THEN Fail /\ UNCHANGED disk
     ELSE /\ disk' = Filed(Loaded)
          /\ Commit([s EXCEPT !.compliance = Loaded, !.status = "bootstrapped"],
                    "guard_plan")

GuardPlan == Guard("guard_plan", "pause_plan")

PausePlan == SafePoint("pause_plan", "scout")

\* update_base: fetch, so the tracking ref is the canonical base again.
Scout ==
  /\ At("scout")
  /\ repo' = [repo EXCEPT !.tracked = repo.upstream]
  /\ UNCHANGED <<disk, audit>>
  /\ Commit([s EXCEPT !.status = "scouted"], "plan")

-----------------------------------------------------------------------------
Priority(status) ==
  CASE status = "FAIL" -> 0 [] status = "PARTIAL" -> 1 [] OTHER -> 2

GapsBelowPartial(ledger) ==
  {i \in 1..Len(Requirements) : ledger[Requirements[i]] \notin {"PARTIAL", "PASS"}}

Gaps(ledger) == {i \in 1..Len(Requirements) : ledger[Requirements[i]] # "PASS"}

\* Verifier first, then the ledger status, then the order of the contract.
Precedes(ledger, i, j) ==
  LET V(k) == IF Requirements[k] \in Verified THEN 0 ELSE 1
      P(k) == Priority(ledger[Requirements[k]])
  IN \/ V(i) < V(j)
     \/ V(i) = V(j) /\ P(i) < P(j)
     \/ V(i) = V(j) /\ P(i) = P(j) /\ i <= j

\* choose_target_requirement.
Target(ledger) ==
  IF Gaps(ledger) = {} THEN None
  ELSE Requirements[CHOOSE i \in Gaps(ledger) :
                      \A j \in Gaps(ledger) : Precedes(ledger, i, j)]

\* _baseline_verifications: run the verifiers on the base, or read the cache.
Verifications(base) ==
  IF disk.verified # None /\ disk.verified.base = base
  THEN {disk.verified.results}
  ELSE [Verified -> {"PASS", "FAIL"}]

\* _planner_control: kept for the same target only.
Control(target) ==
  IF s.control # None /\ s.control.target = target THEN s.control
  ELSE [target |-> target, attempts |-> 0, recoveries |-> 0]

RejectedForever(st, kind) ==
  [st EXCEPT !.control.attempts = @ + 1, !.task = None, !.status = "planner_retry"]

\* _planner_failure.
Rejected(st, kind) ==
  LET attempt == st.control.attempts + 1
      status == IF attempt < MaxPlanAttempts THEN "planner_retry"
                ELSE IF kind = "contract" /\ st.replans < MaxReplans
                     THEN "planner_replan_required"
                     ELSE "planner_human_required"
  IN [st EXCEPT !.control.attempts =
                  IF status = "planner_replan_required" THEN 0 ELSE attempt,
                !.task = None, !.status = status]

\* _planner_provider_failure.
Unreachable(st) ==
  IF st.control.recoveries < MaxProviderRecoveries
  THEN [st EXCEPT !.control.recoveries = @ + 1, !.task = None,
                  !.status = "planner_provider_retry"]
  ELSE [st EXCEPT !.task = None, !.status = "planner_provider_stopped"]

Planned(st, kind) ==
  [st EXCEPT !.control = [target |-> @.target, attempts |-> 0, recoveries |-> 0],
             !.task = [req |-> st.control.target, tdd |-> kind.tdd, risky |-> kind.risky],
             !.iteration = @ + 1,
             !.risks = IF kind.risky THEN {"human"} ELSE {},
             !.approved = {}, !.baseline = FALSE, !.red = "absent",
             !.redAttempts = 0, !.status = "planned"]

\* route_after_targeted_plan.
AfterPlan(st) ==
  CASE st.status \in {"target_converged", "planner_provider_stopped"} -> "end"
    [] st.status \in {"iteration_budget_exhausted", "planner_human_required"}
         -> "planner_human"
    [] st.status \in {"planner_retry", "planner_provider_retry"} -> "plan"
    [] st.status = "planner_replan_required" -> "replan"
    [] OTHER -> "prepare_worktree"

\* targeted_plan: verify, choose, and ask the planner for a task.
Plan ==
  /\ At("plan")
  /\ UNCHANGED repo
  /\ \E results \in Verifications(repo.tracked) :
       LET ledger == [r \in Req |-> IF r \in Verified THEN results[r]
                                    ELSE s.compliance[r]]
           target == Target(ledger)
           st == [s EXCEPT !.compliance = ledger]
           asked == [st EXCEPT !.control = Control(target)]
       IN /\ disk' = [Filed(ledger) EXCEPT
                        !.verified = IF Verified = {} THEN @
                                     ELSE [base |-> repo.tracked, results |-> results]]
          /\ audit' = [audit EXCEPT !.earned =
                         @ \cup {r \in Verified : results[r] = "PASS"}]
          /\ \E ns \in
               IF target = None
               THEN {[st EXCEPT !.control = None, !.task = None,
                                !.status = "target_converged"]}
               ELSE IF s.iteration >= MaxIterations
               THEN {[st EXCEPT !.status = "iteration_budget_exhausted"]}
               ELSE {Planned(asked, kind) : kind \in TaskKinds}
                    \cup {Rejected(asked, kind) :
                            kind \in PlannerFaults \cap {"contract", "execution"}}
                    \cup {Unreachable(asked) : kind \in PlannerFaults \cap {"transport"}} :
               Commit(ns, AfterPlan(ns))

PlannerHuman ==
  /\ At("planner_human")
  /\ \/ answer = None /\ Interrupt("planner_failure_budget")
     \/ /\ answer = "retry"
        /\ UNCHANGED Outside
        /\ Commit([Recorded(s) EXCEPT
                     !.control = IF @ = None THEN None
                                 ELSE [@ EXCEPT !.attempts = 0, !.recoveries = 0],
                     !.replans = 0, !.tddReplans = 0,
                     !.status = "planner_human_retry"], "plan")
     \/ /\ answer = "stop"
        /\ UNCHANGED Outside
        /\ Commit([Recorded(s) EXCEPT !.status = "stopped"], "end")
     \/ answer \notin {None, "retry", "stop"} /\ Fail /\ UNCHANGED Outside

-----------------------------------------------------------------------------
\* create_worktree: adopt the worktree of this task if an earlier execution of
\* the node left one, otherwise branch off the tracked base.
PrepareWorktree ==
  /\ At("prepare_worktree")
  /\ IF repo.wt # None THEN UNCHANGED <<repo, audit>>
     ELSE /\ repo' = [repo EXCEPT !.wt = Base]
          /\ audit' = [audit EXCEPT !.gated = None, !.reviewed = None, !.cleared = None]
  /\ UNCHANGED disk
  /\ Commit([s EXCEPT !.branch = TRUE, !.status = "worktree_ready"], "tdd_baseline")

\* tdd_baseline: a task without TDD always has a usable baseline.
TddBaseline ==
  /\ At("tdd_baseline")
  /\ UNCHANGED Outside
  /\ \E ok \in IF RequiresTdd(s.task) THEN BOOLEAN ELSE {TRUE} :
       LET ns == [s EXCEPT
                    !.baseline = ok, !.red = "absent", !.redAttempts = 0,
                    !.control = IF ok THEN @ ELSE Feedback(@, s.task.req),
                    !.status = IF ok THEN "tdd_baseline_ready"
                               ELSE "tdd_baseline_unavailable"]
       IN Commit(ns, IF ok THEN "pause_build"
                     ELSE IF s.tddReplans < MaxReplans THEN "replan" ELSE "tdd_human")

\* route_after_build_pause.
PauseBuild ==
  SafePoint("pause_build", IF RequiresTdd(s.task) THEN "tdd_red_build" ELSE "build")

\* The builder was asked for a test only; it may write anything.
TddRedBuild ==
  /\ At("tdd_red_build")
  /\ \E code \in {repo.wt.code} \cup Contents, red \in Tests :
       repo' = [repo EXCEPT !.wt = [code |-> code, red |-> red]]
  /\ UNCHANGED <<disk, audit>>
  /\ Commit([s EXCEPT !.redAttempts = @ + 1, !.status = "tdd_red_prepared"],
            "tdd_red_gate")

\* run_tdd_red: nothing but the test differs, and it fails in a new way.
TddRedGate ==
  /\ At("tdd_red_gate")
  /\ UNCHANGED Outside
  /\ \E ok \in BOOLEAN :
       /\ ok => s.baseline /\ repo.wt.code = NoDiff /\ repo.wt.red # NoDiff
       /\ Commit([s EXCEPT
                    !.red = IF ok THEN repo.wt.red ELSE "failed",
                    !.control = IF ok THEN @ ELSE Feedback(@, s.task.req),
                    !.status = IF ok THEN "tdd_red_verified" ELSE "tdd_red_failed"],
                 "snapshot_frozen_red")

\* The verified test is copied out of the worktree; route_after_tdd_red.
FrozenRedCopied == [disk EXCEPT !.frozen = repo.wt.red]

SnapshotFrozenRed ==
  /\ At("snapshot_frozen_red")
  /\ disk' = IF s.red = "failed" THEN disk ELSE FrozenRedCopied
  /\ UNCHANGED <<repo, audit>>
  /\ Commit([s EXCEPT !.status = IF s.red = "failed" THEN @
                                 ELSE "frozen_red_snapshotted"],
            IF s.red # "failed" THEN "build"
            ELSE IF s.redAttempts < MaxRepairs THEN "pause_tdd_red_repair"
            ELSE IF s.tddReplans < MaxReplans THEN "replan"
            ELSE "tdd_human")

PauseTddRedRepair ==
  SafePoint("pause_tdd_red_repair", "tdd_red_build")

TddHuman ==
  /\ At("tdd_human")
  /\ \/ answer = None /\ Interrupt("tdd_evidence_failure")
     \/ /\ answer # None
        /\ UNCHANGED Outside
        /\ IF answer = "stop" THEN Commit([Recorded(s) EXCEPT !.status = "stopped"], "end")
           ELSE IF answer = "replan"
           THEN Commit([Recorded(s) EXCEPT !.replans = 0, !.tddReplans = 0,
                                           !.status = "tdd_human_replan"], "replan")
           ELSE Fail

PlanningStep ==
  \/ Bootstrap \/ GuardPlan \/ PausePlan \/ Scout \/ Plan \/ PlannerHuman
  \/ PrepareWorktree \/ TddBaseline \/ PauseBuild \/ TddRedBuild \/ TddRedGate
  \/ SnapshotFrozenRed \/ PauseTddRedRepair \/ TddHuman

=============================================================================
