------------------------------ MODULE Reviewing ------------------------------
(***************************************************************************)
(* The nodes that produce a candidate, judge it and decide what becomes of *)
(* it: build, quality, review and its recovery, repair, replan, human.     *)
(* Sources: graph.py (build, quality), workflow.py, policy.py.             *)
(***************************************************************************)
EXTENDS WorkflowState

\* verify_frozen_red and restore_frozen_red: the copy, not the verdict, is the authority.
FrozenRedChanged == repo.wt.red # disk.frozen

FrozenRedRestored == [repo EXCEPT !.wt.red = disk.frozen]

\* _check_frozen_red_violation.
FrozenRedMutated == RequiresTdd(s.task) /\ s.red \in Tests /\ FrozenRedChanged

BuilderUngated(node, ns) ==
  /\ At(node)
  /\ UNCHANGED <<disk, audit>>
  /\ \E code \in Contents \cup {NoDiff} : repo' = [repo EXCEPT !.wt.code = code]
  /\ Commit(ns, IF s.gates = "none" THEN "guard_quality" ELSE "review")

\* build and repair: a worktree in which an earlier, interrupted execution left
\* a mutated RED test is restored and the builder is not called; otherwise it is
\* called, and may write whatever it likes.  `ns` is what the node returns.
Builder(node, ns) ==
  /\ At(node)
  /\ UNCHANGED <<disk, audit>>
  /\ \/ /\ step = "start"
        /\ FrozenRedMutated
        /\ repo' = FrozenRedRestored
        /\ Commit([s EXCEPT !.status = "frozen_red_violation"], "guard_quality")
     \/ /\ step = "start"
        /\ ~FrozenRedMutated
        /\ \E code \in Contents \cup {NoDiff},
              red \in IF s.task.tdd THEN Tests \cup {NoDiff} ELSE {repo.wt.red} :
             repo' = [repo EXCEPT !.wt = [code |-> code, red |-> red]]
        /\ Proceed("built")
     \/ /\ step = "built"
        /\ repo' = IF FrozenRedMutated THEN FrozenRedRestored ELSE repo
        /\ Commit([ns EXCEPT !.status = IF FrozenRedMutated THEN "frozen_red_violation"
                                        ELSE @], "guard_quality")

Build == Builder("build", [s EXCEPT !.status = "built"])

RepairUncounted == Builder("repair", [s EXCEPT !.status = "repaired"])

Repair == Builder("repair", [s EXCEPT !.status = "repaired", !.repairs = @ + 1])

PauseRepair == SafePoint("pause_repair", "repair")

GuardQuality == Guard("guard_quality", "quality")

\* run_tdd_green asks for the very test that was RED; the commands of the
\* repository's own gates run afterwards, and may rewrite files.
Quality ==
  /\ At("quality")
  /\ \E green \in BOOLEAN :
       /\ green /\ RequiresTdd(s.task) => s.red \in Tests /\ repo.wt.red = s.red
       /\ \E code \in {repo.wt.code} \cup (IF MutatingGates THEN Contents ELSE {}) :
            /\ repo' = [repo EXCEPT !.wt.code = code]
            /\ audit' = [audit EXCEPT !.gated = IF green THEN repo'.wt ELSE None]
       /\ UNCHANGED disk
       /\ Commit([s EXCEPT !.gates = IF green THEN "pass" ELSE "fail",
                           !.status = "quality_checked"], "review")

-----------------------------------------------------------------------------
\* can_integrate over what the state holds (no required gate among none fails).
Decision(st) ==
  LET active == st.risks \ st.approved
  IN CASE disk.spec = "edited" -> "SPEC_CHANGED"
       [] disk.spec # "edited" /\ (\/ st.gates = "fail"
                                   \/ "secret" \in active
                                   \/ st.verdict # "pass") -> "BLOCK"
       [] OTHER -> IF "human" \in active THEN "INTERRUPT" ELSE "ALLOW"

AfterFailureNoReplan(st) ==
  IF st.repairs < MaxRepairs THEN "pause_repair" ELSE "human"

\* What repair and replan budgets leave to do about a candidate that failed.
AfterFailure(st) ==
  IF st.repairs < MaxRepairs THEN "pause_repair"
  ELSE IF st.replans < MaxReplans THEN "replan"
  ELSE "human"

AfterReviewBlind(st) ==
  CASE Decision(st) = "ALLOW" -> "pause_integrate"
    [] Decision(st) = "SPEC_CHANGED" -> "spec_stop"
    [] Decision(st) = "INTERRUPT" -> "human"
    [] Decision(st) = "BLOCK" -> AfterFailure(st)

\* route_after_review, for review and reviewer_recovery.
AfterReview(st) ==
  CASE st.status = "review_transport_failure" ->
         IF st.retries <= MaxReviewRetries THEN "pause_reviewer_recovery"
         ELSE "review_execution_failure"
    [] st.status = "reviewer_recovery_wait" -> "pause_reviewer_recovery_wait"
    [] st.status = "review_execution_failed" -> "review_execution_failure"
    [] OTHER -> CASE Decision(st) = "ALLOW" -> "pause_integrate"
                  [] Decision(st) = "SPEC_CHANGED" -> "spec_stop"
                  [] Decision(st) = "INTERRUPT" -> "human"
                  [] Decision(st) = "BLOCK" -> AfterFailure(st)

\* What the reviewer fan-out can come back with.
Verdicts == {"pass", "reject"} \cup (IF ReviewTransport THEN {"transport"} ELSE {})

Judged(st, verdict) ==
  [st EXCEPT !.verdict = IF verdict = "pass" THEN "pass" ELSE "reject",
             !.status = "reviewed", !.retries = 0]

Reviewed(verdict) ==
  audit' = [audit EXCEPT !.reviewed = IF verdict = "pass" THEN repo.wt ELSE None]

ApprovedAnyway == s.approved

\* An approval is for the very diff that the operator was shown.
StillApproved == IF s.fingerprint = repo.wt THEN s.approved ELSE {}

\* review: classify the diff, keep approvals given for this very diff, and send
\* it to the reviewers unless policy blocks that.
Review ==
  /\ At("review")
  /\ UNCHANGED <<repo, disk>>
  /\ LET found == RiskFlags(repo.wt.code)
         st == [s EXCEPT !.risks = found \cup (IF s.task.risky THEN {"human"} ELSE {}),
                         !.approved = StillApproved,
                         !.fingerprint = repo.wt,
                         !.recordedBase = repo.tracked]
     IN IF "secret" \in found
        THEN /\ UNCHANGED audit
             /\ LET ns == [st EXCEPT !.verdict = "reject", !.status = "risk_blocked"]
                IN Commit(ns, AfterReview(ns))
        ELSE \E verdict \in Verdicts :
               /\ Reviewed(verdict)
               /\ LET ns == IF verdict = "transport"
                            THEN [Judged(st, verdict) EXCEPT
                                    !.retries = s.retries + 1,
                                    !.status = "review_transport_failure"]
                            ELSE Judged(st, verdict)
                  IN Commit(ns, AfterReview(ns))

\* The nodes an edge of the graph leads to from reviewer_recovery.
RecoveryTargets == {"pause_integrate", "pause_reviewer_recovery", "replan", "human",
  "spec_stop", "review_execution_failure", "pause_reviewer_recovery_wait"}

\* reviewer_recovery: ask the reviewers again, nothing else is looked at again.
\* A route without an edge makes LangGraph raise.
ReviewerRecovery ==
  /\ At("reviewer_recovery")
  /\ UNCHANGED <<repo, disk>>
  /\ \E verdict \in Verdicts :
       LET ns == IF verdict = "transport"
                 THEN [Judged(s, verdict) EXCEPT
                         !.retries = s.retries,
                         !.status = IF s.retries < MaxReviewRetries
                                    THEN "reviewer_recovery_wait"
                                    ELSE "review_execution_failed"]
                 ELSE Judged(s, verdict)
       IN /\ Reviewed(verdict)
          /\ IF AfterReview(ns) \in RecoveryTargets
             THEN Commit(ns, AfterReview(ns))
             ELSE Fail

PauseReviewerRecovery ==
  SafePoint("pause_reviewer_recovery", "reviewer_recovery")

\* The machine wait: it only suspends the run when a pause was asked for, and
\* clears that request when it is resumed.
PauseReviewerRecoveryWait ==
  /\ At("pause_reviewer_recovery_wait")
  /\ \/ /\ ~disk.paused
        /\ UNCHANGED Outside
        /\ Commit(s, "reviewer_recovery")
     \/ /\ disk.paused
        /\ answer = None
        /\ Interrupt("reviewer_recovery_wait")
     \/ /\ disk.paused
        /\ answer # None
        /\ disk' = [disk EXCEPT !.paused = FALSE]
        /\ UNCHANGED <<repo, audit>>
        /\ IF answer = "resume"
           THEN Commit([s EXCEPT !.status = "reviewer_recovery_wait_elapsed"],
                       "reviewer_recovery")
           ELSE Fail

ReviewExecutionFailure ==
  /\ At("review_execution_failure")
  /\ UNCHANGED Outside
  /\ Commit([s EXCEPT !.status = "failed"], "end")

SpecStop ==
  /\ At("spec_stop")
  /\ UNCHANGED Outside
  /\ Commit([s EXCEPT !.status = "spec_changed"], "end")

-----------------------------------------------------------------------------
Replan ==
  /\ At("replan")
  /\ LET tdd == s.status \in {"tdd_baseline_unavailable", "tdd_red_failed"}
     IN DiscardThen(
          [WithoutCandidate(s) EXCEPT
             !.replans = IF tdd THEN @ ELSE @ + 1,
             !.tddReplans = IF tdd THEN @ + 1 ELSE @,
             !.recordedBase = None, !.retries = 0, !.status = "replanning"],
          "guard_plan")

\* _human_kind.
HumanKind ==
  CASE s.status \in {"ci_fail", "ci_timeout"} -> "ci_failure_budget"
    [] s.status = "iteration_budget_exhausted" -> "iteration_budget"
    [] OTHER -> IF s.verdict # "none" /\ Decision(s) = "INTERRUPT"
                THEN "risk_policy" ELSE "repair_replan_budget"

\* retry: budgets are renewed, never a verdict changed.
Retried(kind) ==
  IF kind = "iteration_budget"
  THEN [Recorded(s) EXCEPT !.iteration = 0, !.status = "human_retry_plan"]
  ELSE [Recorded(s) EXCEPT !.repairs = 0, !.replans = 0, !.tddReplans = 0,
          !.status = IF kind = "ci_failure_budget" THEN "human_retry_ci"
                     ELSE "human_retry_review"]

\* edit: another task takes the place of this one.
Edited(task) ==
  [WithoutCandidate(Recorded(s)) EXCEPT
     !.task = task, !.replans = 0, !.tddReplans = 0,
     !.risks = IF task.risky THEN {"human"} ELSE {}, !.status = "human_edit"]

\* route_after_human.
AfterHuman(st) ==
  CASE st.status = "human_retry_ci" -> "pause_repair"
    [] st.status = "human_edit" -> "prepare_worktree"
    [] st.status = "human_retry_plan" -> "guard_plan"
    [] st.status = "human_retry_review" -> "guard_quality"
    [] OTHER -> "end"

\* human_gate.  The kind is computed again when the answer is looked at.
Human ==
  /\ At("human")
  /\ \/ answer = None /\ Interrupt(HumanKind)
     \/ /\ answer \in {"reject", "stop"}
        /\ UNCHANGED Outside
        /\ LET ns == [Recorded(s) EXCEPT !.status = "stopped"]
           IN Commit(ns, AfterHuman(ns))
     \/ /\ answer = "approve" /\ HumanKind = "risk_policy"
        /\ UNCHANGED <<repo, disk>>
        /\ audit' = [audit EXCEPT !.cleared = s.fingerprint]
        /\ LET ns == [Recorded(s) EXCEPT !.approved = @ \cup s.risks,
                                         !.status = "human_retry_review"]
           IN Commit(ns, AfterHuman(ns))
     \/ /\ answer = "retry"
        /\ UNCHANGED Outside
        /\ Commit(Retried(HumanKind), AfterHuman(Retried(HumanKind)))
     \/ /\ answer = "edit"
        /\ \E req \in Req, kind \in TaskKinds :
             LET ns == Edited([req |-> req, tdd |-> kind.tdd, risky |-> kind.risky])
             IN DiscardThen(ns, AfterHuman(ns))
     \/ answer = "edit" /\ Fail /\ UNCHANGED Outside  \* no task, or an invalid one
     \/ /\ answer \notin {None, "reject", "stop", "retry", "edit"}
        /\ answer = "approve" => HumanKind # "risk_policy"
        /\ Fail
        /\ UNCHANGED Outside

ReviewingStep ==
  \/ Build \/ Repair \/ PauseRepair \/ GuardQuality \/ Quality
  \/ Review \/ ReviewerRecovery \/ PauseReviewerRecovery \/ PauseReviewerRecoveryWait
  \/ ReviewExecutionFailure \/ SpecStop \/ Replan \/ Human

=============================================================================
