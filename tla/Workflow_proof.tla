--------------------------- MODULE Workflow_proof ---------------------------
(***************************************************************************)
(* Theorems of Workflow for any requirements, budgets, policies, reviewers, *)
(* repositories and number of events.  IInv is inductive.  TypeInv says      *)
(* what the keys can hold, what a node can rely on when the run is at it,   *)
(* and what a run can be waiting for; the parts after it each carry one     *)
(* property, and may use TypeInv.  What a node does is stated once, in its  *)
(* Effect lemma, as the keys that change (Frame), what they change to, and  *)
(* how the run moves (Stays, Moves); the Kept lemmas go through the nodes   *)
(* with these.                                                              *)
(***************************************************************************)
EXTENDS Workflow, WellFoundedInduction, TLAPS

\* The keys of WorkflowState.
Keys == {"status", "iteration", "repairs", "replans", "tddReplans", "redAttempts",
  "retries", "compliance", "control", "task", "branch", "baseline", "red", "gates",
  "verdict", "risks", "approved", "fingerprint", "recordedBase", "commit", "pr", "ci",
  "ciHead", "ciStarted", "ciRetries", "ciError", "decisions"}

\* The values of the durable state.
Typed ==
  /\ DOMAIN s = Keys
  /\ s.compliance \in Ledgers
  /\ s.control \in OrNone(Controls)
  /\ s.task \in OrNone(Tasks)
  /\ s.iteration \in Nat /\ s.repairs \in Nat /\ s.replans \in Nat /\ s.tddReplans \in Nat
  /\ s.redAttempts \in Nat /\ s.retries \in Nat /\ s.decisions \in Nat
  /\ s.branch \in BOOLEAN
  /\ s.red \in {"absent", "failed"} \cup Tests
  /\ s.risks \in SUBSET Flags /\ s.approved \in SUBSET Flags
  /\ s.fingerprint \in OrNone(Trees) /\ s.commit \in OrNone(Trees) /\ s.pr \in OrNone(Trees)
  /\ s.ciRetries = None

\* The values of the repository, the state directory and the history.
Around ==
  /\ DOMAIN repo = {"wt", "head", "branch", "pr", "upstream", "tracked"}
  /\ repo.wt \in OrNone(Trees) /\ repo.head \in OrNone(Trees)
  /\ repo.branch \in OrNone(Trees)
  /\ repo.pr \in {"none", "open", "closed", "merged"}
  /\ repo.upstream \in Nat /\ repo.tracked \in Nat
  /\ DOMAIN disk = {"ledger", "verified", "frozen", "flaky", "spec", "paused", "late"}
  /\ disk.ledger \in Ledgers
  /\ disk.verified \in OrNone([base : Nat, results : [Verified -> {"PASS", "FAIL"}]])
  /\ disk.flaky # None => disk.flaky.count \in Nat
  /\ disk.spec \in {"pinned", "edited"} /\ disk.paused \in BOOLEAN
  /\ DOMAIN audit = {"gated", "reviewed", "cleared", "ci", "earned", "merged", "answers"}
  /\ audit.gated \in OrNone(Trees) /\ audit.reviewed \in OrNone(Trees)
  /\ audit.cleared \in OrNone(Trees)
  /\ audit.earned \subseteq Req /\ audit.merged \subseteq Req /\ audit.answers \in Nat

\* The nodes at which there is no candidate.
Between == {"guard_plan", "pause_plan", "scout", "plan", "planner_human"}

\* The nodes that need a candidate with its worktree.
Working == {"tdd_baseline", "pause_build", "tdd_red_build", "tdd_red_gate",
  "snapshot_frozen_red", "pause_tdd_red_repair", "tdd_human", "build",
  "guard_quality", "quality", "review", "pause_reviewer_recovery",
  "pause_reviewer_recovery_wait", "reviewer_recovery", "review_execution_failure",
  "spec_stop", "pause_repair", "repair", "pause_integrate", "integrate", "pause_pr",
  "pr", "ci_poll", "ci_wait", "pause_merge"}

\* The nodes that ask an operator.
HumanNodes == {"planner_human", "tdd_human", "human"}

\* There is a task, and a worktree for it.
Candidate == s.task \in Tasks /\ s.branch /\ repo.wt \in Trees

\* What a node may rely on when the run is at it.
Placed ==
  /\ at \in Nodes \cup {"end"}
  /\ step \in IF at \in {"build", "repair"} THEN {"start", "built"}
              ELSE IF at = "integrate" THEN {"start", "committed", "pushed"}
              ELSE IF at = "merge" THEN {"start", "merged", "cleaned"} ELSE {"start"}
  /\ outcome \in {"running", "ended", "failed"}
  /\ at = "end" => outcome # "running"
  /\ outcome = "ended" => at = "end"
  /\ at \in Working => Candidate
  /\ at = "human" => \/ s.status = "iteration_budget_exhausted"
                     \/ answer = "edit" \/ Candidate
  /\ at \in {"prepare_worktree", "merge", "refresh"} => s.task \in Tasks
  /\ at = "merge" => s.branch

\* What the run can be waiting for at a node.
Kinds(node) ==
  IF node = "planner_human" THEN {"planner_failure_budget"}
  ELSE IF node = "tdd_human" THEN {"tdd_evidence_failure"}
  ELSE IF node = "human"
  THEN {"risk_policy", "ci_failure_budget", "repair_replan_budget", "iteration_budget"}
  ELSE MachineWaits \cup {"controlled_pause"}

\* An interrupt belongs to the node, and its answer comes after it.
Waits ==
  /\ waiting \in OrNone(HumanInterrupts \cup MachineWaits \cup {"controlled_pause"})
  /\ answer \in OrNone(Accepted \cup {"resume"})
  /\ waiting # None => answer = None /\ waiting \in Kinds(at)

\* The RED test of the state is the one in the worktree, then the frozen one.
Frozen ==
  /\ s.red \in Tests => IF at = "snapshot_frozen_red" THEN repo.wt.red = s.red
                        ELSE disk.frozen = s.red
  /\ at = "snapshot_frozen_red" => s.red # "absent"

\* A planner failure was counted at most once before it is put to the operator.
Attempts ==
  /\ s.control # None /\ at \notin {"planner_human", "end"} => s.control.attempts <= 1

\* What the other parts rest on.
TypeInv == Typed /\ Around /\ Placed /\ Waits /\ Frozen /\ Attempts

\* What the state counts is within its budget, and one below it on the way to an attempt.
Budgets ==
  /\ s.iteration <= MaxIterations
  /\ s.repairs <= IF MaxRepairs = 0 THEN 1 ELSE MaxRepairs
  /\ at \in {"pause_repair", "repair"} => s.repairs = 0 \/ s.repairs < MaxRepairs
  /\ s.tddReplans <= MaxReplans
  /\ at = "replan" /\ s.status \in {"tdd_baseline_unavailable", "tdd_red_failed"} =>
       s.tddReplans < MaxReplans
  /\ s.redAttempts <= MaxRepairs + 1
  /\ at = "pause_build" => s.redAttempts = 0
  /\ at \in {"tdd_red_build", "pause_tdd_red_repair"} => s.redAttempts <= MaxRepairs
  /\ s.retries <= MaxReviewRetries + 1
  /\ s.retries # 0 => at \in {"pause_reviewer_recovery", "pause_reviewer_recovery_wait",
                              "reviewer_recovery", "review_execution_failure", "end"}

\* A PASS has its evidence, and one of an earlier run is in the state from bootstrap on.
Earned ==
  /\ \A r \in Req : "PASS" \in {disk.ledger[r], s.compliance[r]} => r \in audit.earned
  /\ step \in {"merged", "cleaned"} => s.task.req \in audit.earned
  /\ \A r \in Req \ Verified : disk.ledger[r] = "PASS" =>
       s.compliance[r] = "PASS" \/ at = "bootstrap" \/ (at = "merge" /\ r = s.task.req)

\* A merge is in the state and in the ledger, or merge_pr is still due.
Merged ==
  /\ at = "bootstrap" => audit.merged = {}
  /\ MergeAccounted

\* What is in the repository belongs to the candidate that the state knows.
Clean ==
  /\ repo.wt # None => s.branch \/ at = "prepare_worktree"
  /\ repo.head # None \/ repo.branch # None => s.branch
  /\ repo.pr = "open" => HasGitHub /\ (s.pr # None \/ at = "pr")
  /\ at \in Between \cup {"bootstrap", "prepare_worktree"} => ~s.branch /\ s.pr = None
  /\ at = "human" /\ s.status = "iteration_budget_exhausted" => ~s.branch /\ s.pr = None
  /\ at \in {"pause_pr", "pr"} => HasGitHub /\ repo.branch # None
  /\ step = "pushed" /\ repo.head # None => repo.branch = repo.head

\* Past a merge: the pull request, the workspace, then both ledgers.
Delivered ==
  /\ step \in {"merged", "cleaned"} \/ at = "refresh" => repo.pr = "merged"
  /\ step = "cleaned" \/ at = "refresh" =>
       repo.wt = None /\ repo.head = None /\ repo.branch = None
  /\ at = "refresh" => s.compliance[s.task.req] = "PASS" /\ disk.ledger = s.compliance
  /\ outcome = "ended" /\ s.status \in {"converged", "target_converged"} =>
       \A r \in Req : s.compliance[r] = "PASS" /\ disk.ledger[r] = "PASS"

\* Statuses that speak of reviewers out of reach.
Outages == {"review_transport_failure", "reviewer_recovery_wait", "review_execution_failed"}

\* The nodes that deal with an outage.
Recovering == {"pause_reviewer_recovery", "pause_reviewer_recovery_wait",
               "reviewer_recovery", "review_execution_failure"}

\* An outage is dealt with where it belongs.
Outaged == s.status \in Outages => at \in Recovering

\* The machine is at the end of its own means.
Spent == s.repairs >= MaxRepairs /\ s.replans >= MaxReplans

\* Who comes to human_gate has a question for it.
Asked ==
  /\ at = "human" /\ disk.spec = "pinned" =>
       \/ s.status = "iteration_budget_exhausted"
       \/ Spent
       \/ s.verdict # "none" /\ Decision(s) = "INTERRUPT" /\ s.status \notin {"ci_fail", "ci_timeout"}
  /\ HumanIsLastResort

\* What is about to be merged is the published head that CI reported on.
Green ==
  /\ at \in {"ci_poll", "ci_wait", "pause_merge"} => s.pr = repo.branch /\ repo.branch # None
  /\ at = "pause_merge" \/ (at = "merge" /\ repo.pr # "merged") =>
       /\ s.pr = repo.branch /\ repo.branch # None
       /\ audit.ci = [report |-> "pass", head |-> s.pr]

\* The nodes between a review and a push.
Judging == {"pause_reviewer_recovery", "pause_reviewer_recovery_wait", "reviewer_recovery",
            "pause_integrate", "integrate"}

\* What review saw is still in the worktree, and what it found is still approved.
Judgement ==
  /\ at \in Judging =>
       /\ s.fingerprint = repo.wt
       /\ s.recordedBase = repo.tracked
       /\ repo.wt.code \notin Secret
       /\ repo.wt.code \in Risky \/ s.task.risky => "human" \in s.risks
  /\ s.approved # {} => audit.cleared = s.fingerprint
  /\ at = "prepare_worktree" => s.approved = {}
  /\ at \in {"pause_integrate", "integrate"} =>
       /\ audit.reviewed = repo.wt
       /\ "human" \in s.risks => audit.cleared = repo.wt
  /\ step \in {"committed", "pushed"} => repo.head \in {None, repo.wt}

\* The nodes between the gates and a push.
GatedNodes == Judging \cup {"review"}

\* What the gates were green on is still in the worktree, with the frozen RED test.
Gated ==
  /\ at \in GatedNodes => s.gates # "none"
  /\ at \in GatedNodes /\ s.gates # "fail" =>
       audit.gated = repo.wt /\ (s.task.tdd => repo.wt.red = s.red)
  /\ at \in {"pause_integrate", "integrate"} => s.gates # "fail"

\* The inductive invariant.
IInv == /\ TypeInv /\ Budgets /\ Earned /\ Merged /\ Clean /\ Delivered /\ Outaged /\ Asked
        /\ AnswersRecorded /\ Green /\ Judgement /\ Gated
-----------------------------------------------------------------------------
\* A run that is left alone, or that is answered, waits for what its node asks.
LEMMA StillWaits ==
  ASSUME TypeInv, World \/ Rest \/ UNCHANGED vars
  PROVE  Waits'
<1>1. CASE Decide
  <2>1. waiting \in HumanInterrupts /\ waiting # None
    BY <1>1 DEF Decide, TypeInv, Waits, OrNone
  <2>2. at' = at /\ waiting' = None /\ answer' \in Accepted BY <1>1 DEF Decide, Happens
  <2>3. QED BY <2>2 DEF Waits, OrNone
<1>2. CASE Crash \/ CallFails \/ EditSpec \/ BaseMoves \/ TimeoutPasses \/ RequestPause
  <2>1. UNCHANGED <<at, waiting, answer>>
    BY <1>2 DEF Crash, CallFails, EditSpec, BaseMoves, TimeoutPasses, RequestPause, Killed,
         Happens
  <2>2. QED BY <2>1 DEF TypeInv, Waits
<1>3. CASE Resume \/ WakeUp \/ EarlyPoll
  <2>1. at' = at /\ waiting' = None /\ answer' = "resume"
    BY <1>3 DEF Resume, WakeUp, EarlyPoll, Happens
  <2>2. QED BY <2>1 DEF Waits, OrNone
<1>4. CASE Rest \/ UNCHANGED vars
  BY <1>4 DEF Rest, vars, TypeInv, Waits
<1>5. QED BY <1>1, <1>2, <1>3, <1>4 DEF World

\* What the world does to a run does not move it.
LEMMA Still ==
  ASSUME TypeInv, World \/ Rest \/ UNCHANGED vars
  PROVE  /\ at' = at /\ s' = s /\ step' \in {step, "start"} /\ outcome' \in {outcome, "failed"}
         /\ UNCHANGED <<repo.wt, repo.head, repo.branch, repo.pr, repo.tracked>>
         /\ UNCHANGED <<disk.ledger, disk.frozen, disk.verified>>
         /\ UNCHANGED <<audit.gated, audit.reviewed, audit.cleared, audit.ci, audit.earned,
                       audit.merged>>
         /\ Around'
         /\ waiting = None => answer' = answer
         /\ disk.spec = "edited" => disk'.spec = "edited"
<1>1. /\ at' = at /\ s' = s /\ step' \in {step, "start"} /\ outcome' \in {outcome, "failed"}
  BY DEF World, Rest, vars, Crash, CallFails, EditSpec, BaseMoves, TimeoutPasses, RequestPause,
       Resume, WakeUp, Decide, EarlyPoll, Killed, Happens
<1>2. repo' = repo \/ repo' = [repo EXCEPT !.upstream = @ + 1]
  BY DEF World, Rest, vars, Crash, CallFails, EditSpec, BaseMoves, TimeoutPasses, RequestPause,
       Resume, WakeUp, Decide, EarlyPoll
<1>3. \/ disk' = disk \/ disk' = [disk EXCEPT !.spec = "edited"]
      \/ disk' = [disk EXCEPT !.late = TRUE]
      \/ \E paused \in BOOLEAN : disk' = [disk EXCEPT !.paused = paused]
  BY DEF World, Rest, vars, Crash, CallFails, EditSpec, BaseMoves, TimeoutPasses, RequestPause,
       Resume, WakeUp, Decide, EarlyPoll
<1>4. audit' = audit \/ audit' = [audit EXCEPT !.answers = @ + 1]
  BY DEF World, Rest, vars, Crash, CallFails, EditSpec, BaseMoves, TimeoutPasses, RequestPause,
       Resume, WakeUp, Decide, EarlyPoll
<1>5. UNCHANGED <<repo.wt, repo.head, repo.branch, repo.pr, repo.tracked>> /\ repo'.upstream \in Nat
  BY <1>2 DEF TypeInv, Around
<1>6. /\ UNCHANGED <<disk.ledger, disk.frozen, disk.verified, disk.flaky>>
      /\ disk'.spec \in {"pinned", "edited"} /\ disk'.paused \in BOOLEAN
      /\ DOMAIN disk' = DOMAIN disk
      /\ disk.spec = "edited" => disk'.spec = "edited"
  BY <1>3 DEF TypeInv, Around
<1>7. /\ UNCHANGED <<audit.gated, audit.reviewed, audit.cleared, audit.ci, audit.earned,
                       audit.merged>>
      /\ DOMAIN audit' = DOMAIN audit /\ audit'.answers \in Nat
  BY <1>4 DEF TypeInv, Around
<1>8. DOMAIN repo' = DOMAIN repo
  BY <1>2 DEF TypeInv, Around
<1>9. Around' BY <1>5, <1>6, <1>7, <1>8 DEF TypeInv, Around
<1>10. waiting = None => answer' = answer
  BY Absent DEF World, Rest, vars, Crash, CallFails, EditSpec, BaseMoves, TimeoutPasses,
       RequestPause, Resume, WakeUp, Decide, EarlyPoll, Killed
<1>11. QED BY <1>1, <1>5, <1>6, <1>7, <1>9, <1>10
-----------------------------------------------------------------------------
(* What a step leaves of a record, and where it leaves the run. *)

\* Only these keys change.
Frame(new, old, changed) ==
  DOMAIN new = DOMAIN old /\ \A key \in DOMAIN old \ changed : new[key] = old[key]

\* The run stays at its node: it is killed or fails there, asks, or has got to one of `steps`.
Stays(steps) ==
  /\ at' = at /\ s' = s /\ answer' = answer
  /\ step' \in {step, "start"} \cup steps
  /\ outcome' \in {outcome, "failed"}
  /\ waiting' = waiting \/ (answer = None /\ waiting' \in Kinds(at))

\* It has left the node for another.
Moves(next) ==
  /\ at' = next /\ step' = "start" /\ answer' = None /\ waiting' = None
  /\ outcome' = IF next = "end" THEN "ended" ELSE "running"

\* The nodes that only choose the way on.
Pauses == \/ PausePlan \/ PauseBuild \/ PauseTddRedRepair \/ PauseRepair
          \/ PauseReviewerRecovery \/ PauseIntegrate \/ PausePr \/ PauseMerge

\* The nodes that change nothing but the status.
Passes == \/ GuardPlan \/ GuardQuality \/ Pauses \/ PauseReviewerRecoveryWait \/ CiWait
          \/ ReviewExecutionFailure \/ SpecStop

\* The edges that these nodes take, other than the one to END.
Ways == {<<"guard_plan", "pause_plan">>, <<"pause_plan", "scout">>,
  <<"pause_build", "tdd_red_build">>, <<"pause_build", "build">>,
  <<"pause_tdd_red_repair", "tdd_red_build">>, <<"guard_quality", "quality">>,
  <<"pause_reviewer_recovery", "reviewer_recovery">>,
  <<"pause_reviewer_recovery_wait", "reviewer_recovery">>,
  <<"pause_repair", "repair">>, <<"pause_integrate", "integrate">>, <<"pause_pr", "pr">>,
  <<"ci_wait", "ci_poll">>, <<"pause_merge", "merge">>}

\* The nodes themselves.
Waypoints == {"guard_plan", "pause_plan", "pause_build", "pause_tdd_red_repair",
  "guard_quality", "pause_reviewer_recovery", "pause_reviewer_recovery_wait", "pause_repair",
  "review_execution_failure", "spec_stop", "pause_integrate", "pause_pr", "ci_wait",
  "pause_merge"}

\* What such a node can do.
Passed ==
  /\ UNCHANGED <<repo, audit>>
  /\ Frame(disk', disk, {"paused"}) /\ disk'.paused \in BOOLEAN
  /\ \/ Stays({})
     \/ /\ Frame(s', s, {"status"})
        /\ \/ Moves("end") /\ s'.status \in {"stopped", "spec_changed", "failed"}
           \/ /\ <<at, at'>> \in Ways /\ Moves(at')
              /\ s'.status \in {s.status, "resumed", "spec_ok",
                                "reviewer_recovery_wait_elapsed", "ci_wait_elapsed"}

\* A safe point is passed.
LEMMA Pausing ==
  ASSUME Typed, Around, NEW node, NEW next, SafePoint(node, next), node \notin HumanNodes,
         <<node, next>> \in Ways
  PROVE  at = node /\ Passed
<1>1. next # "end" BY DEF Ways
<1>2. CASE ~disk.paused
  <2>1. s' = s /\ UNCHANGED Outside BY <1>2 DEF SafePoint, Commit, Killed
  <2>2. Stays({}) \/ (Moves(AfterPause(next, s)) /\ s' = s)
    BY <1>2 DEF SafePoint, Commit, Killed, Stays, Moves, At
  <2>3. Frame(s', s, {"status"}) /\ Frame(disk', disk, {"paused"}) /\ disk'.paused \in BOOLEAN
    BY <2>1 DEF Frame, Around, Outside
  <2>4. at = node /\ UNCHANGED <<repo, audit>> BY <2>1 DEF SafePoint, At, Outside
  <2>5. QED BY <2>2, <2>3, <2>4 DEF Passed, AfterPause, Moves
<1>3. CASE disk.paused /\ answer = None
  <2>1. at = node /\ Interrupt("controlled_pause") BY <1>3 DEF SafePoint, At
  <2>2. QED BY <2>1, <1>3 DEF Interrupt, Passed, Stays, Frame, Kinds, HumanNodes
<1>4. CASE disk.paused /\ answer # None
  <2>1. /\ at = node /\ UNCHANGED <<repo, audit>> /\ disk' = [disk EXCEPT !.paused = FALSE]
    BY <1>4 DEF SafePoint, At
  <2>2. Frame(disk', disk, {"paused"}) /\ disk'.paused \in BOOLEAN BY <2>1 DEF Frame, Around
  <2>3. CASE answer \in {"resume", "stop"}
    <3> DEFINE ns == [s EXCEPT !.status = IF answer = "stop" THEN "stopped" ELSE "resumed"]
    <3>1. Commit(ns, AfterPause(next, ns)) BY <1>4, <2>3 DEF SafePoint
    <3>2. ns.status \in {"stopped", "resumed"} /\ Frame(ns, s, {"status"})
      BY DEF Typed, Keys, Frame
    <3>3. Stays({}) \/ (s' = ns /\ Moves(AfterPause(next, ns)))
      <4> HIDE DEF ns
      <4>1. QED BY <3>1 DEF SafePoint, Commit, Killed, Stays, Moves, At
    <3>4. QED
      <4> HIDE DEF ns
      <4>1. QED BY <3>2, <3>3, <2>1, <2>2 DEF Passed, AfterPause, Moves
  <2>4. CASE answer \notin {"resume", "stop"}
    <3>1. Fail BY <2>4, <1>4 DEF SafePoint
    <3>2. QED BY <3>1, <2>1, <2>2 DEF Fail, Passed, Stays
  <2>5. QED BY <2>3, <2>4
<1>5. QED BY <1>2, <1>3, <1>4

\* So is a check of the requirements file.
LEMMA Guarding ==
  ASSUME Typed, Around, NEW node, NEW next, Guard(node, next), <<node, next>> \in Ways
  PROVE  at = node /\ Passed
<1> DEFINE ns == [s EXCEPT !.status =
                    IF disk.spec = "edited" THEN "spec_changed" ELSE "spec_ok"]
<1>1. /\ at = node /\ waiting = None /\ outcome = "running" /\ UNCHANGED Outside
      /\ Commit(ns, IF ns.status = "spec_ok" THEN next ELSE "end")
  BY DEF Guard, At
<1>2. ns.status \in {"spec_changed", "spec_ok"} /\ Frame(ns, s, {"status"})
  BY DEF Typed, Keys, Frame
<1>3. next # "end" BY DEF Ways
<1> HIDE DEF ns
<1>4. Stays({}) \/ (s' = ns /\ Moves(IF ns.status = "spec_ok" THEN next ELSE "end"))
  BY <1>1 DEF Commit, Killed, Stays, Moves
<1>5. Frame(disk', disk, {"paused"}) /\ disk'.paused \in BOOLEAN
  BY <1>1 DEF Frame, Around, Outside
<1>6. QED BY <1>1, <1>2, <1>4, <1>5 DEF Passed, Moves, Outside

\* So are all of them.
LEMMA Passing ==
  ASSUME TypeInv, Passes
  PROVE  Passed /\ step = "start" /\ at \in Waypoints /\ waiting = None
<1>1. at \in Waypoints /\ waiting = None
  BY DEF Passes, Pauses, PausePlan, PauseBuild, PauseTddRedRepair, PauseRepair,
       PauseReviewerRecovery, PauseIntegrate, PausePr, PauseMerge, SafePoint, GuardPlan,
       GuardQuality, Guard, PauseReviewerRecoveryWait, CiWait, ReviewExecutionFailure, SpecStop,
       At, Waypoints
<1>7. step = "start" BY <1>1 DEF TypeInv, Placed, Waypoints
<1> SUFFICES Passed BY <1>1, <1>7
<1>2. CASE Pauses
  <2>1. PICK node, next : SafePoint(node, next) /\ <<node, next>> \in Ways /\ node \notin HumanNodes
    BY <1>2 DEF Pauses, PausePlan, PauseBuild, PauseTddRedRepair, PauseRepair,
         PauseReviewerRecovery, PauseIntegrate, PausePr, PauseMerge, Ways, HumanNodes
  <2>2. QED BY <2>1, Pausing DEF TypeInv
<1>3. CASE GuardPlan \/ GuardQuality
  BY <1>3, Guarding DEF TypeInv, GuardPlan, GuardQuality, Ways
<1>4. CASE ReviewExecutionFailure \/ SpecStop
  <2>1. PICK status \in {"failed", "spec_changed"} :
          /\ UNCHANGED Outside /\ Commit([s EXCEPT !.status = status], "end")
          /\ outcome = "running" /\ waiting = None
    BY <1>4 DEF ReviewExecutionFailure, SpecStop, At
  <2> DEFINE ns == [s EXCEPT !.status = status]
  <2>2. Frame(ns, s, {"status"}) /\ ns.status = status
    BY DEF Frame
  <2>3. Stays({}) \/ (s' = ns /\ Moves("end"))
    BY <2>1 DEF Commit, Killed, Stays, Moves
  <2> HIDE DEF ns
  <2>4. Frame(disk', disk, {"paused"}) /\ disk'.paused \in BOOLEAN
    BY <2>1 DEF Frame, TypeInv, Around, Outside
  <2>5. QED BY <2>1, <2>2, <2>3, <2>4 DEF Passed, Outside
<1>5. CASE PauseReviewerRecoveryWait
  <2> DEFINE ns == [s EXCEPT !.status = "reviewer_recovery_wait_elapsed"]
  <2>1. /\ Frame(ns, s, {"status"}) /\ ns.status = "reviewer_recovery_wait_elapsed"
        /\ Frame(s, s, {"status"})
    BY DEF Frame
  <2> HIDE DEF ns
  <2>2. /\ at = "pause_reviewer_recovery_wait" /\ UNCHANGED <<repo, audit>>
        /\ \/ Stays({})
           \/ s' \in {s, ns} /\ Moves("reviewer_recovery")
    BY <1>5 DEF PauseReviewerRecoveryWait, At, Commit, Killed, Stays, Moves, Interrupt, Fail,
         Outside, Kinds, MachineWaits, ns
  <2>3. Frame(disk', disk, {"paused"}) /\ disk'.paused \in BOOLEAN
    BY <1>5 DEF PauseReviewerRecoveryWait, Interrupt, Frame, TypeInv, Around, Outside
  <2>4. QED BY <2>1, <2>2, <2>3 DEF Passed, Ways, Moves
<1>6. CASE CiWait
  <2> DEFINE ns == [s EXCEPT !.status = "ci_wait_elapsed"]
  <2>1. Frame(ns, s, {"status"}) /\ ns.status = "ci_wait_elapsed"
    BY DEF Frame
  <2> HIDE DEF ns
  <2>2. /\ at = "ci_wait" /\ UNCHANGED <<repo, audit, disk>>
        /\ \/ Stays({})
           \/ s' = ns /\ Moves("ci_poll")
    BY <1>6 DEF CiWait, At, Commit, Killed, Stays, Moves, Interrupt, Fail, Outside, Kinds,
         MachineWaits, ns
  <2>3. Frame(disk', disk, {"paused"}) /\ disk'.paused \in BOOLEAN
    BY <2>2 DEF Frame, TypeInv, Around
  <2>4. QED BY <2>1, <2>2, <2>3 DEF Passed, Ways, Moves
<1>8. QED BY <1>2, <1>3, <1>4, <1>5, <1>6 DEF Passes

-----------------------------------------------------------------------------
(* The effects of the other nodes: planning. *)

\* What bootstrap does.
LEMMA BootstrapEffect ==
  ASSUME TypeInv, Bootstrap
  PROVE  /\ at = "bootstrap" /\ step = "start" /\ UNCHANGED <<repo, audit>>
         /\ Frame(disk', disk, {"ledger"}) /\ disk'.ledger = disk.ledger
         /\ \/ Stays({})
            \/ /\ Moves("guard_plan") /\ Frame(s', s, {"compliance", "status"})
               /\ s'.compliance = disk.ledger /\ s'.status = "bootstrapped"
<1> DEFINE ns == [s EXCEPT !.compliance = Loaded, !.status = "bootstrapped"]
<1>1. /\ Frame(ns, s, {"compliance", "status"}) /\ ns.compliance = disk.ledger
      /\ ns.status = "bootstrapped"
  BY DEF TypeInv, Typed, Keys, Frame, Loaded
<1>2. Frame(disk', disk, {"ledger"}) /\ disk'.ledger = disk.ledger
  BY DEF Bootstrap, Filed, Loaded, TypeInv, Around, Frame
<1>3. at = "bootstrap" /\ UNCHANGED <<repo, audit>> /\ (Stays({}) \/ (s' = ns /\ Moves("guard_plan")))
  BY DEF Bootstrap, At, Commit, Killed, Fail, Stays, Moves
<1>4. step = "start" BY <1>3 DEF TypeInv, Placed
<1> HIDE DEF ns
<1>5. QED BY <1>1, <1>2, <1>3, <1>4

\* What scout does.
LEMMA ScoutEffect ==
  ASSUME TypeInv, Scout
  PROVE  /\ at = "scout" /\ step = "start" /\ UNCHANGED <<disk, audit>>
         /\ Frame(repo', repo, {"tracked"}) /\ repo'.tracked = repo.upstream
         /\ \/ Stays({})
            \/ Moves("plan") /\ Frame(s', s, {"status"}) /\ s'.status = "scouted"
<1> DEFINE ns == [s EXCEPT !.status = "scouted"]
<1>1. Frame(ns, s, {"status"}) /\ ns.status = "scouted"
  BY DEF Frame
<1>2. Frame(repo', repo, {"tracked"}) /\ repo'.tracked = repo.upstream
  BY DEF Scout, Frame
<1>3. at = "scout" /\ UNCHANGED <<disk, audit>> /\ (Stays({}) \/ (s' = ns /\ Moves("plan")))
  BY DEF Scout, At, Commit, Killed, Stays, Moves
<1>4. step = "start" BY <1>3 DEF TypeInv, Placed
<1> HIDE DEF ns
<1>5. QED BY <1>1, <1>2, <1>3, <1>4

\* What planner_human_gate does.
LEMMA PlannerHumanEffect ==
  ASSUME TypeInv, PlannerHuman
  PROVE  /\ at = "planner_human" /\ step = "start" /\ UNCHANGED <<repo, disk, audit>>
         /\ \/ Stays({})
            \/ /\ answer # None /\ s'.decisions = s.decisions + 1
               /\ \/ /\ Moves("plan")
                     /\ Frame(s', s, {"control", "replans", "tddReplans", "status", "decisions"})
                     /\ s'.replans = 0 /\ s'.tddReplans = 0
                     /\ s'.status = "planner_human_retry"
                     /\ s'.control \in OrNone([target : OrNone(Req), attempts : {0}, recoveries : {0}])
                  \/ /\ Moves("end") /\ Frame(s', s, {"status", "decisions"})
                     /\ s'.status = "stopped"
<1> DEFINE again == [Recorded(s) EXCEPT
                     !.control = IF @ = None THEN None
                                 ELSE [@ EXCEPT !.attempts = 0, !.recoveries = 0],
                     !.replans = 0, !.tddReplans = 0,
                     !.status = "planner_human_retry"]
           over == [Recorded(s) EXCEPT !.status = "stopped"]
<1>1. /\ Frame(again, s, {"control", "replans", "tddReplans", "status", "decisions"})
      /\ again.replans = 0 /\ again.tddReplans = 0 /\ again.status = "planner_human_retry"
      /\ again.decisions = s.decisions + 1
      /\ again.control = IF s.control = None THEN None
                         ELSE [s.control EXCEPT !.attempts = 0, !.recoveries = 0]
  BY DEF TypeInv, Typed, Keys, Frame, Recorded
<1>2. again.control \in OrNone([target : OrNone(Req), attempts : {0}, recoveries : {0}])
  <2> HIDE DEF again
  <2>1. s.control \in OrNone(Controls) BY DEF TypeInv, Typed
  <2>2. QED BY <1>1, <2>1 DEF OrNone, Controls
<1>3. /\ Frame(over, s, {"status", "decisions"}) /\ over.status = "stopped"
      /\ over.decisions = s.decisions + 1
  BY DEF TypeInv, Typed, Keys, Frame, Recorded
<1>4. /\ at = "planner_human" /\ UNCHANGED <<repo, disk, audit>>
      /\ \/ Stays({})
         \/ answer # None /\ s' = again /\ Moves("plan")
         \/ answer # None /\ s' = over /\ Moves("end")
  BY Absent DEF PlannerHuman, At, Commit, Killed, Interrupt, Fail, Stays, Moves, Outside, Kinds,
       Accepted
<1>5. step = "start" BY <1>4 DEF TypeInv, Placed
<1> HIDE DEF again, over
<1>6. QED BY <1>1, <1>2, <1>3, <1>4, <1>5

\* What prepare_worktree does.
LEMMA PrepareWorktreeEffect ==
  ASSUME TypeInv, PrepareWorktree
  PROVE  /\ at = "prepare_worktree" /\ step = "start" /\ UNCHANGED disk
         /\ Frame(repo', repo, {"wt"}) /\ repo'.wt \in Trees
         /\ Frame(audit', audit, {"gated", "reviewed", "cleared"})
         /\ audit'.gated \in OrNone(Trees) /\ audit'.reviewed \in OrNone(Trees)
         /\ audit'.cleared \in OrNone(Trees)
         /\ \/ Stays({})
            \/ /\ Moves("tdd_baseline") /\ Frame(s', s, {"branch", "status"})
               /\ s'.branch = TRUE /\ s'.status = "worktree_ready"
<1> DEFINE ns == [s EXCEPT !.branch = TRUE, !.status = "worktree_ready"]
<1>1. Frame(ns, s, {"branch", "status"}) /\ ns.branch = TRUE /\ ns.status = "worktree_ready"
  BY DEF TypeInv, Typed, Keys, Frame
<1>2. Base \in Trees BY DEF Base, Trees
<1>3. Frame(repo', repo, {"wt"}) /\ repo'.wt \in Trees
  BY <1>2 DEF PrepareWorktree, TypeInv, Around, Frame, OrNone
<1>4. /\ Frame(audit', audit, {"gated", "reviewed", "cleared"})
      /\ audit'.gated \in OrNone(Trees) /\ audit'.reviewed \in OrNone(Trees)
         /\ audit'.cleared \in OrNone(Trees)
  BY DEF PrepareWorktree, TypeInv, Around, Frame
<1>5. at = "prepare_worktree" /\ UNCHANGED disk /\ (Stays({}) \/ (s' = ns /\ Moves("tdd_baseline")))
  BY DEF PrepareWorktree, At, Commit, Killed, Stays, Moves
<1>6. step = "start" BY <1>5 DEF TypeInv, Placed
<1> HIDE DEF ns
<1>7. QED BY <1>1, <1>3, <1>4, <1>5, <1>6

\* Feedback to the planner starts a planning round or keeps it.
LEMMA FeedbackKeeps ==
  ASSUME NEW control \in OrNone(Controls), NEW req \in Req
  PROVE  /\ Feedback(control, req) \in Controls
         /\ Feedback(control, req).attempts = IF control = None THEN 0 ELSE control.attempts
BY DEF Feedback, OrNone, Controls, MaxPlanAttempts, MaxProviderRecoveries

\* What tdd_baseline does.
LEMMA TddBaselineEffect ==
  ASSUME TypeInv, TddBaseline
  PROVE  /\ at = "tdd_baseline" /\ step = "start" /\ UNCHANGED <<repo, disk, audit>>
         /\ \/ Stays({})
            \/ /\ Frame(s', s, {"baseline", "red", "redAttempts", "control", "status"})
               /\ s'.red = "absent" /\ s'.redAttempts = 0
               /\ s'.control \in {s.control, Feedback(s.control, s.task.req)}
               /\ s'.status \in {"tdd_baseline_ready", "tdd_baseline_unavailable"}
               /\ \/ Moves("pause_build")
                  \/ Moves("replan") /\ s.tddReplans < MaxReplans
                  \/ Moves("tdd_human")
<1>1. PICK ok \in BOOLEAN :
        LET ns == [s EXCEPT
                    !.baseline = ok, !.red = "absent", !.redAttempts = 0,
                    !.control = IF ok THEN @ ELSE Feedback(@, s.task.req),
                    !.status = IF ok THEN "tdd_baseline_ready"
                               ELSE "tdd_baseline_unavailable"]
        IN Commit(ns, IF ok THEN "pause_build"
                      ELSE IF s.tddReplans < MaxReplans THEN "replan" ELSE "tdd_human")
  BY DEF TddBaseline
<1> DEFINE ns == [s EXCEPT
                    !.baseline = ok, !.red = "absent", !.redAttempts = 0,
                    !.control = IF ok THEN @ ELSE Feedback(@, s.task.req),
                    !.status = IF ok THEN "tdd_baseline_ready"
                               ELSE "tdd_baseline_unavailable"]
<1>2. /\ Frame(ns, s, {"baseline", "red", "redAttempts", "control", "status"})
      /\ ns.red = "absent" /\ ns.redAttempts = 0
      /\ ns.control \in {s.control, Feedback(s.control, s.task.req)}
      /\ ns.status \in {"tdd_baseline_ready", "tdd_baseline_unavailable"}
  BY DEF TypeInv, Typed, Keys, Frame
<1>3. Commit(ns, IF ok THEN "pause_build"
                 ELSE IF s.tddReplans < MaxReplans THEN "replan" ELSE "tdd_human")
  BY <1>1
<1>4. at = "tdd_baseline" /\ waiting = None /\ outcome = "running" /\ UNCHANGED <<repo, disk, audit>>
  BY DEF TddBaseline, At, Outside
<1>5. step = "start" BY <1>4 DEF TypeInv, Placed
<1> HIDE DEF ns
<1>6. \/ Stays({})
      \/ /\ s' = ns
         /\ \/ Moves("pause_build")
            \/ Moves("replan") /\ s.tddReplans < MaxReplans
            \/ Moves("tdd_human")
  BY <1>3, <1>4 DEF Commit, Killed, Stays, Moves
<1>7. QED BY <1>2, <1>4, <1>5, <1>6

\* What tdd_red_build does.
LEMMA TddRedBuildEffect ==
  ASSUME TypeInv, TddRedBuild
  PROVE  /\ at = "tdd_red_build" /\ step = "start" /\ UNCHANGED <<disk, audit>>
         /\ Frame(repo', repo, {"wt"}) /\ repo'.wt \in Trees
         /\ \/ Stays({})
            \/ /\ Moves("tdd_red_gate") /\ Frame(s', s, {"redAttempts", "status"})
               /\ s'.redAttempts = s.redAttempts + 1 /\ s'.status = "tdd_red_prepared"
<1> DEFINE ns == [s EXCEPT !.redAttempts = @ + 1, !.status = "tdd_red_prepared"]
<1>1. /\ Frame(ns, s, {"redAttempts", "status"})
      /\ ns.redAttempts = s.redAttempts + 1 /\ ns.status = "tdd_red_prepared"
  BY DEF TypeInv, Typed, Keys, Frame
<1>2. at = "tdd_red_build" /\ UNCHANGED <<disk, audit>> /\ (Stays({}) \/ (s' = ns /\ Moves("tdd_red_gate")))
  BY DEF TddRedBuild, At, Commit, Killed, Stays, Moves
<1>3. step = "start" /\ repo.wt \in Trees
  BY <1>2 DEF TypeInv, Placed, Working, Candidate
<1>4. PICK tree \in Trees : repo' = [repo EXCEPT !.wt = tree]
  <2>1. PICK code \in {repo.wt.code} \cup Contents, red \in Tests :
          repo' = [repo EXCEPT !.wt = [code |-> code, red |-> red]]
    BY DEF TddRedBuild
  <2>2. [code |-> code, red |-> red] \in Trees BY <1>3 DEF Trees
  <2>3. QED BY <2>1, <2>2
<1>5. Frame(repo', repo, {"wt"}) /\ repo'.wt \in Trees
  BY <1>4 DEF Frame
<1> HIDE DEF ns
<1>6. QED BY <1>1, <1>2, <1>3, <1>5

\* What tdd_red_gate does.
LEMMA TddRedGateEffect ==
  ASSUME TypeInv, TddRedGate
  PROVE  /\ at = "tdd_red_gate" /\ step = "start" /\ UNCHANGED <<repo, disk, audit>>
         /\ \/ Stays({})
            \/ /\ Moves("snapshot_frozen_red") /\ Frame(s', s, {"red", "control", "status"})
               /\ s'.red = "failed" \/ (s'.red = repo.wt.red /\ s'.red \in Tests)
               /\ s'.control \in {s.control, Feedback(s.control, s.task.req)}
               /\ s'.status \in {"tdd_red_verified", "tdd_red_failed"}
<1>1. at = "tdd_red_gate" /\ waiting = None /\ outcome = "running" /\ UNCHANGED <<repo, disk, audit>>
  BY DEF TddRedGate, At, Outside
<1>2. step = "start" /\ repo.wt \in Trees
  BY <1>1 DEF TypeInv, Placed, Working, Candidate
<1>3. PICK ok \in BOOLEAN :
        /\ ok => repo.wt.red # NoDiff
        /\ Commit([s EXCEPT
                    !.red = IF ok THEN repo.wt.red ELSE "failed",
                    !.control = IF ok THEN @ ELSE Feedback(@, s.task.req),
                    !.status = IF ok THEN "tdd_red_verified" ELSE "tdd_red_failed"],
                 "snapshot_frozen_red")
  BY DEF TddRedGate
<1> DEFINE ns == [s EXCEPT
                    !.red = IF ok THEN repo.wt.red ELSE "failed",
                    !.control = IF ok THEN @ ELSE Feedback(@, s.task.req),
                    !.status = IF ok THEN "tdd_red_verified" ELSE "tdd_red_failed"]
<1>4. /\ Frame(ns, s, {"red", "control", "status"})
      /\ ns.red = IF ok THEN repo.wt.red ELSE "failed"
      /\ ns.control \in {s.control, Feedback(s.control, s.task.req)}
      /\ ns.status \in {"tdd_red_verified", "tdd_red_failed"}
  BY DEF TypeInv, Typed, Keys, Frame
<1>5. Commit(ns, "snapshot_frozen_red") BY <1>3
<1> HIDE DEF ns
<1>6. ns.red = "failed" \/ (ns.red = repo.wt.red /\ ns.red \in Tests)
  BY <1>2, <1>3, <1>4 DEF Trees
<1>7. Stays({}) \/ (s' = ns /\ Moves("snapshot_frozen_red"))
  BY <1>1, <1>5 DEF Commit, Killed, Stays, Moves
<1>8. QED BY <1>1, <1>2, <1>4, <1>6, <1>7

\* What snapshot_frozen_red does.
LEMMA SnapshotEffect ==
  ASSUME TypeInv, SnapshotFrozenRed
  PROVE  /\ at = "snapshot_frozen_red" /\ step = "start" /\ UNCHANGED <<repo, audit>>
         /\ Frame(disk', disk, {"frozen"})
         /\ disk'.frozen = IF s.red = "failed" THEN disk.frozen ELSE repo.wt.red
         /\ \/ Stays({})
            \/ /\ Frame(s', s, {"status"}) /\ s'.status \in {s.status, "frozen_red_snapshotted"}
               /\ \/ Moves("build")
                  \/ Moves("pause_tdd_red_repair") /\ s.redAttempts < MaxRepairs
                  \/ Moves("replan") /\ s.tddReplans < MaxReplans
                  \/ Moves("tdd_human")
<1> DEFINE ns == [s EXCEPT !.status = IF s.red = "failed" THEN @ ELSE "frozen_red_snapshotted"]
<1>1. Frame(ns, s, {"status"}) /\ ns.status \in {s.status, "frozen_red_snapshotted"}
  BY DEF Frame
<1>2. /\ Frame(disk', disk, {"frozen"})
      /\ disk'.frozen = IF s.red = "failed" THEN disk.frozen ELSE repo.wt.red
  BY DEF SnapshotFrozenRed, FrozenRedCopied, Frame
<1>3. /\ at = "snapshot_frozen_red" /\ UNCHANGED <<repo, audit>>
      /\ \/ Stays({})
         \/ /\ s' = ns
            /\ \/ Moves("build")
               \/ Moves("pause_tdd_red_repair") /\ s.redAttempts < MaxRepairs
               \/ Moves("replan") /\ s.tddReplans < MaxReplans
               \/ Moves("tdd_human")
  BY DEF SnapshotFrozenRed, At, Commit, Killed, Stays, Moves
<1>4. step = "start" BY <1>3 DEF TypeInv, Placed
<1> HIDE DEF ns
<1>5. QED BY <1>1, <1>2, <1>3, <1>4

\* What tdd_human_gate does.
LEMMA TddHumanEffect ==
  ASSUME TypeInv, TddHuman
  PROVE  /\ at = "tdd_human" /\ step = "start" /\ UNCHANGED <<repo, disk, audit>>
         /\ \/ Stays({})
            \/ /\ answer # None /\ s'.decisions = s.decisions + 1
               /\ \/ /\ Moves("replan") /\ s'.replans = 0 /\ s'.tddReplans = 0
                     /\ Frame(s', s, {"replans", "tddReplans", "status", "decisions"})
                     /\ s'.status = "tdd_human_replan"
                  \/ /\ Moves("end") /\ Frame(s', s, {"status", "decisions"})
                     /\ s'.status = "stopped"
<1> DEFINE again == [Recorded(s) EXCEPT !.replans = 0, !.tddReplans = 0,
                                        !.status = "tdd_human_replan"]
           over == [Recorded(s) EXCEPT !.status = "stopped"]
<1>1. /\ Frame(again, s, {"replans", "tddReplans", "status", "decisions"})
      /\ again.replans = 0 /\ again.tddReplans = 0 /\ again.status = "tdd_human_replan"
      /\ again.decisions = s.decisions + 1
  BY DEF TypeInv, Typed, Keys, Frame, Recorded
<1>2. /\ Frame(over, s, {"status", "decisions"}) /\ over.status = "stopped"
      /\ over.decisions = s.decisions + 1
  BY DEF TypeInv, Typed, Keys, Frame, Recorded
<1>3. /\ at = "tdd_human" /\ UNCHANGED <<repo, disk, audit>>
      /\ \/ Stays({})
         \/ answer # None /\ s' = again /\ Moves("replan")
         \/ answer # None /\ s' = over /\ Moves("end")
  BY DEF TddHuman, At, Commit, Killed, Interrupt, Fail, Stays, Moves, Outside, Kinds
<1>4. step = "start" BY <1>3 DEF TypeInv, Placed
<1> HIDE DEF again, over
<1>5. QED BY <1>1, <1>2, <1>3, <1>4

\* A set of numbers that is not empty has a least one.
LEMMA Least ==
  ASSUME NEW S, S \subseteq Nat, S # {}
  PROVE  \E n \in S : \A m \in S : n <= m
<1>1. PICK n \in S : \A m \in S : ~ (<<m, n>> \in OpToRel(<, Nat))
  BY WFMin, NatLessThanWellFounded
<1>2. \A m \in S : ~ (m < n) BY <1>1 DEF OpToRel
<1>3. QED BY <1>2

\* Some open requirement comes before every other.
LEMMA Preferable ==
  ASSUME NEW ledger \in Ledgers, Gaps(ledger) # {}
  PROVE  \E i \in Gaps(ledger) : \A j \in Gaps(ledger) : Precedes(ledger, i, j)
<1> DEFINE V(i) == IF Requirements[i] \in Verified THEN 0 ELSE 1
           P(i) == Priority(ledger[Requirements[i]])
           Rank(i) == 3 * V(i) + P(i)
           Ranks == {Rank(i) : i \in Gaps(ledger)}
<1>1. Gaps(ledger) \subseteq 1..Len(Requirements) /\ Len(Requirements) \in Nat
  BY WorkflowConstants DEF Gaps
<1>2. \A i \in Gaps(ledger) : V(i) \in 0..1 /\ P(i) \in 0..2
  BY DEF Priority
<1>3. Ranks \subseteq Nat /\ Ranks # {} BY <1>2
<1> HIDE DEF V, P
<1>4. PICK r \in Ranks : \A q \in Ranks : r <= q BY <1>3, Least
<1> DEFINE First == {i \in Gaps(ledger) : Rank(i) = r}
<1>5. First \subseteq Nat /\ First # {} BY <1>1, <1>4
<1>6. PICK i \in First : \A j \in First : i <= j BY <1>5, Least
<1>7. ASSUME NEW j \in Gaps(ledger)
      PROVE  Precedes(ledger, i, j)
  <2>1. Rank(i) <= Rank(j) /\ (Rank(i) = Rank(j) => i <= j) BY <1>4, <1>6
  <2>2. V(i) \in 0..1 /\ P(i) \in 0..2 /\ V(j) \in 0..1 /\ P(j) \in 0..2 BY <1>2, <1>6
  <2>3. V(i) < V(j) \/ (V(i) = V(j) /\ P(i) < P(j)) \/ (V(i) = V(j) /\ P(i) = P(j) /\ i <= j)
    BY <2>1, <2>2
  <2>4. QED BY <2>3 DEF Precedes, V, P
<1>8. QED BY <1>6, <1>7

\* The planner is asked for a requirement that is not on PASS, if there is one.
LEMMA Targets ==
  ASSUME NEW ledger \in Ledgers
  PROVE  /\ Target(ledger) = None => \A r \in Req : ledger[r] = "PASS"
         /\ Target(ledger) # None => Target(ledger) \in Req
<1>1. Gaps(ledger) = {} => \A r \in Req : ledger[r] = "PASS"
  BY DEF Gaps, Req
<1>2. ASSUME Gaps(ledger) # {}
      PROVE  Target(ledger) \in Req
  <2>1. \E i \in Gaps(ledger) : \A j \in Gaps(ledger) : Precedes(ledger, i, j)
    BY <1>2, Preferable
  <2>2. (CHOOSE i \in Gaps(ledger) : \A j \in Gaps(ledger) : Precedes(ledger, i, j)) \in Gaps(ledger)
    BY <2>1
  <2>3. \A i \in Gaps(ledger) : Requirements[i] \in Req BY DEF Gaps, Req
  <2>4. Target(ledger) = Requirements[CHOOSE i \in Gaps(ledger) :
                           \A j \in Gaps(ledger) : Precedes(ledger, i, j)]
    BY <1>2 DEF Target
  <2>5. QED BY <2>2, <2>3, <2>4
<1>3. QED BY <1>1, <1>2, Absent DEF Target

\* The planner starts with at most one failed attempt.
LEMMA ControlKeeps ==
  ASSUME TypeInv, at = "plan", NEW target \in Req
  PROVE  /\ Control(target) \in Controls
         /\ Control(target).target = target /\ Control(target).attempts <= 1
<1>1. s.control \in OrNone(Controls) /\ (s.control # None => s.control.attempts <= 1)
  BY DEF TypeInv, Typed, Attempts
<1>2. QED BY <1>1 DEF Control, OrNone, Controls, MaxPlanAttempts, MaxProviderRecoveries

\* The keys that the planner may change.
PlanFields == {"compliance", "control", "task", "iteration", "risks", "approved", "baseline",
               "red", "redAttempts", "status"}

\* What targeted_plan returns.
PlanResult(ns, ledger) ==
  /\ Frame(ns, s, PlanFields)
  /\ ns.compliance = ledger
  /\ ns.control \in OrNone(Controls) /\ ns.task \in OrNone(Tasks)
  /\ ns.red \in {s.red, "absent"} /\ ns.redAttempts \in {s.redAttempts, 0}
  /\ ns.approved \in {s.approved, {}} /\ ns.risks \in SUBSET Flags
  /\ ns.iteration = s.iteration \/ (s.iteration < MaxIterations /\ ns.iteration = s.iteration + 1)
  /\ \/ ns.status = "target_converged" /\ \A r \in Req : ledger[r] = "PASS"
     \/ ns.status \in {"planner_provider_stopped", "iteration_budget_exhausted",
                       "planner_human_required"}
     \/ /\ ns.status \in {"planner_retry", "planner_provider_retry", "planner_replan_required"}
        /\ ns.control \in Controls /\ ns.control.attempts <= 1
     \/ /\ ns.status = "planned" /\ ns.task \in Tasks /\ ns.approved = {}
        /\ ns.control \in Controls /\ ns.control.attempts = 0

\* A task is planned within its budgets.
LEMMA PlannedResult ==
  ASSUME TypeInv, at = "plan", NEW ledger \in Ledgers, NEW target \in Req,
         s.iteration < MaxIterations, NEW kind \in TaskKinds
  PROVE  PlanResult(Planned([[s EXCEPT !.compliance = ledger] EXCEPT !.control = Control(target)],
                            kind), ledger)
<1> DEFINE asked == [[s EXCEPT !.compliance = ledger] EXCEPT !.control = Control(target)]
           control == [target |-> asked.control.target, attempts |-> 0, recoveries |-> 0]
           task == [req |-> asked.control.target, tdd |-> kind.tdd, risky |-> kind.risky]
           ns == Planned(asked, kind)
<1>1. DOMAIN s = Keys /\ s.iteration \in Nat BY DEF TypeInv, Typed
<1>2. Control(target) \in Controls /\ Control(target).target = target BY ControlKeeps
<1>3. /\ Frame(asked, s, {"compliance", "control"}) /\ asked.compliance = ledger
      /\ asked.control = Control(target)
  BY <1>1 DEF Frame, Keys
<1> HIDE DEF asked
<1>4. control \in Controls /\ control.attempts = 0
  BY <1>2, <1>3 DEF Controls, MaxPlanAttempts, MaxProviderRecoveries
<1>5. task \in Tasks BY <1>2, <1>3, WorkflowConstants DEF Tasks
<1> HIDE DEF control, task
<1>6. ns = [asked EXCEPT !.control = control, !.task = task, !.iteration = @ + 1,
             !.risks = IF kind.risky THEN {"human"} ELSE {},
             !.approved = {}, !.baseline = FALSE, !.red = "absent",
             !.redAttempts = 0, !.status = "planned"]
  BY DEF Planned, control, task
<1> HIDE DEF ns
<1>7. asked.iteration = s.iteration /\ DOMAIN asked = Keys BY <1>1, <1>3 DEF Frame, Keys
<1>8. /\ Frame(ns, asked, PlanFields) /\ ns.compliance = ledger /\ ns.control = control
      /\ ns.task = task /\ ns.iteration = s.iteration + 1 /\ ns.approved = {} /\ ns.red = "absent"
      /\ ns.redAttempts = 0 /\ ns.status = "planned"
      /\ ns.risks = IF kind.risky THEN {"human"} ELSE {}
  BY <1>1, <1>3, <1>6 DEF Frame, Keys, PlanFields
<1>9. Frame(ns, s, PlanFields) BY <1>3, <1>8 DEF Frame, PlanFields
<1>10. QED
  <2> SUFFICES PlanResult(ns, ledger) BY DEF ns, asked
  <2>1. QED BY <1>4, <1>5, <1>8, <1>9 DEF PlanResult, OrNone, Flags

\* A plan that is refused leaves the attempts within their bound.
LEMMA RejectedResult ==
  ASSUME TypeInv, at = "plan", NEW ledger \in Ledgers, NEW target \in Req, NEW kind
  PROVE  PlanResult(Rejected([[s EXCEPT !.compliance = ledger] EXCEPT !.control = Control(target)],
                             kind), ledger)
<1> DEFINE asked == [[s EXCEPT !.compliance = ledger] EXCEPT !.control = Control(target)]
           attempt == asked.control.attempts + 1
           status == IF attempt < MaxPlanAttempts THEN "planner_retry"
                     ELSE IF kind = "contract" /\ asked.replans < MaxReplans
                          THEN "planner_replan_required" ELSE "planner_human_required"
           control == [asked.control EXCEPT !.attempts =
                         IF status = "planner_replan_required" THEN 0 ELSE attempt]
           ns == Rejected(asked, kind)
<1>1. DOMAIN s = Keys /\ s.iteration \in Nat /\ s.risks \in SUBSET Flags BY DEF TypeInv, Typed
<1>2. Control(target) \in Controls /\ Control(target).attempts <= 1 BY ControlKeeps
<1>3. /\ Frame(asked, s, {"compliance", "control"}) /\ asked.compliance = ledger
      /\ asked.control = Control(target)
  BY <1>1 DEF Frame, Keys
<1> HIDE DEF asked
<1>4. attempt \in 1..2 BY <1>2, <1>3 DEF Controls
<1>5. status \in {"planner_retry", "planner_replan_required", "planner_human_required"} OBVIOUS
<1>6. status = "planner_retry" => attempt = 1 BY <1>4 DEF MaxPlanAttempts
<1> HIDE DEF attempt, status
<1>7. /\ control \in Controls
      /\ control.attempts = IF status = "planner_replan_required" THEN 0 ELSE attempt
  BY <1>2, <1>3, <1>4 DEF Controls, MaxPlanAttempts
<1> HIDE DEF control
<1>8. ns = [asked EXCEPT !.control = control, !.task = None, !.status = status]
  BY DEF Rejected, control, status, attempt
<1> HIDE DEF ns
<1>9. DOMAIN asked = Keys BY <1>1, <1>3 DEF Frame
<1>10. /\ Frame(ns, asked, {"control", "task", "status"}) /\ ns.control = control
       /\ ns.task = None /\ ns.status = status
  BY <1>8, <1>9 DEF Frame, Keys
<1>11. /\ Frame(ns, s, PlanFields) /\ ns.compliance = ledger /\ ns.iteration = s.iteration
       /\ ns.red = s.red /\ ns.redAttempts = s.redAttempts /\ ns.approved = s.approved
       /\ ns.risks = s.risks
  BY <1>1, <1>3, <1>10 DEF Frame, Keys, PlanFields
<1>12. QED
  <2> SUFFICES PlanResult(ns, ledger) BY DEF ns, asked
  <2>1. QED BY <1>1, <1>5, <1>6, <1>7, <1>10, <1>11 DEF PlanResult, OrNone

\* So does a planner that is out of reach.
LEMMA UnreachableResult ==
  ASSUME TypeInv, at = "plan", NEW ledger \in Ledgers, NEW target \in Req
  PROVE  PlanResult(Unreachable([[s EXCEPT !.compliance = ledger]
                                   EXCEPT !.control = Control(target)]), ledger)
<1> DEFINE asked == [[s EXCEPT !.compliance = ledger] EXCEPT !.control = Control(target)]
           ns == Unreachable(asked)
<1>1. DOMAIN s = Keys /\ s.iteration \in Nat /\ s.risks \in SUBSET Flags BY DEF TypeInv, Typed
<1>2. Control(target) \in Controls /\ Control(target).attempts <= 1 BY ControlKeeps
<1>3. /\ Frame(asked, s, {"compliance", "control"}) /\ asked.compliance = ledger
      /\ asked.control = Control(target)
  BY <1>1 DEF Frame, Keys
<1> HIDE DEF asked
<1>4. PICK control \in Controls, status \in {"planner_provider_retry", "planner_provider_stopped"} :
        /\ ns = [asked EXCEPT !.control = control, !.task = None, !.status = status]
        /\ control.attempts <= 1
  <2> DEFINE more == [asked.control EXCEPT !.recoveries = @ + 1]
  <2>1. CASE asked.control.recoveries < MaxProviderRecoveries
    <3>1. more \in Controls /\ more.attempts <= 1
      BY <1>2, <1>3, <2>1 DEF Controls, MaxProviderRecoveries
    <3>2. ns = [asked EXCEPT !.control = more, !.task = None, !.status = "planner_provider_retry"]
      BY <2>1 DEF Unreachable
    <3>3. QED BY <3>1, <3>2
  <2>2. CASE ~(asked.control.recoveries < MaxProviderRecoveries)
    <3>1. asked.control \in Controls /\ asked.control.attempts <= 1 BY <1>2, <1>3
    <3>2. ns = [asked EXCEPT !.control = asked.control, !.task = None,
                             !.status = "planner_provider_stopped"]
      BY <2>2 DEF Unreachable
    <3>3. QED BY <3>1, <3>2
  <2>3. QED BY <2>1, <2>2
<1> HIDE DEF ns
<1>5. DOMAIN asked = Keys BY <1>1, <1>3 DEF Frame
<1>6. /\ Frame(ns, asked, {"control", "task", "status"}) /\ ns.control = control
      /\ ns.task = None /\ ns.status = status
  BY <1>4, <1>5 DEF Frame, Keys
<1>7. /\ Frame(ns, s, PlanFields) /\ ns.compliance = ledger /\ ns.iteration = s.iteration
      /\ ns.red = s.red /\ ns.redAttempts = s.redAttempts /\ ns.approved = s.approved
      /\ ns.risks = s.risks
  BY <1>1, <1>3, <1>6 DEF Frame, Keys, PlanFields
<1>8. QED
  <2> SUFFICES PlanResult(ns, ledger) BY DEF ns, asked
  <2>1. QED BY <1>1, <1>4, <1>7 DEF PlanResult, OrNone

\* What targeted_plan does.
LEMMA PlanEffect ==
  ASSUME TypeInv, Plan, s.iteration \in Nat
  PROVE  /\ at = "plan" /\ step = "start" /\ UNCHANGED repo
         /\ Frame(disk', disk, {"ledger", "verified"}) /\ disk'.ledger \in Ledgers
         /\ disk'.verified \in OrNone([base : Nat, results : [Verified -> {"PASS", "FAIL"}]])
         /\ Frame(audit', audit, {"earned"})
         /\ audit.earned \subseteq audit'.earned /\ audit'.earned \subseteq Req
         /\ \A r \in Req : /\ r \notin Verified => disk'.ledger[r] = s.compliance[r]
                           /\ r \in Verified /\ disk'.ledger[r] = "PASS" => r \in audit'.earned
         /\ \/ Stays({})
            \/ /\ PlanResult(s', disk'.ledger)
               /\ Moves(AfterPlan(s'))
<1>1. at = "plan" /\ waiting = None /\ outcome = "running" /\ UNCHANGED repo BY DEF Plan, At
<1>2. step = "start" BY <1>1 DEF TypeInv, Placed
<1>3. PICK results \in Verifications(repo.tracked) :
       LET ledger == [r \in Req |-> IF r \in Verified THEN results[r]
                                    ELSE s.compliance[r]]
           target == Target(ledger)
           st == [s EXCEPT !.compliance = ledger]
           asked == [st EXCEPT !.control = Control(target)]
       IN /\ disk' = [Filed(ledger) EXCEPT
                        !.verified = IF Verified = {} THEN @
                                     ELSE [base |-> repo.tracked, results |-> results]]
          /\ audit' = [audit EXCEPT !.earned =
                         @ \cup {r \in Verified : results[r] = "PASS"}]
          /\ \E ns \in
               IF target = None
               THEN {[st EXCEPT !.control = None, !.task = None,
                                !.status = "target_converged"]}
               ELSE IF s.iteration >= MaxIterations
               THEN {[st EXCEPT !.status = "iteration_budget_exhausted"]}
               ELSE {Planned(asked, kind) : kind \in TaskKinds}
                    \cup {Rejected(asked, kind) :
                            kind \in PlannerFaults \cap {"contract", "execution"}}
                    \cup {Unreachable(asked) : kind \in PlannerFaults \cap {"transport"}} :
               Commit(ns, AfterPlan(ns))
  BY DEF Plan
<1> DEFINE ledger == [r \in Req |-> IF r \in Verified THEN results[r] ELSE s.compliance[r]]
           target == Target(ledger)
           st == [s EXCEPT !.compliance = ledger]
           asked == [st EXCEPT !.control = Control(target)]
<1>4. results \in [Verified -> {"PASS", "FAIL"}] /\ repo.tracked \in Nat
  <2>1. /\ disk.verified \in OrNone([base : Nat, results : [Verified -> {"PASS", "FAIL"}]])
        /\ repo.tracked \in Nat
    BY DEF TypeInv, Around
  <2>2. QED BY <2>1 DEF Verifications, OrNone
<1>5. ledger \in Ledgers
  BY <1>4 DEF Ledgers, Statuses, TypeInv, Typed
<1>6. \A r \in Req : ledger[r] = IF r \in Verified THEN results[r] ELSE s.compliance[r]
  OBVIOUS
<1>7. /\ disk' = [Filed(ledger) EXCEPT
                    !.verified = IF Verified = {} THEN @
                                 ELSE [base |-> repo.tracked, results |-> results]]
      /\ audit' = [audit EXCEPT !.earned = @ \cup {r \in Verified : results[r] = "PASS"}]
  BY <1>3
<1>8. PICK ns : /\ \/ target = None /\ ns = [st EXCEPT !.control = None, !.task = None,
                                                      !.status = "target_converged"]
                   \/ /\ target # None /\ s.iteration >= MaxIterations
                      /\ ns = [st EXCEPT !.status = "iteration_budget_exhausted"]
                   \/ /\ target # None /\ ~ (s.iteration >= MaxIterations)
                      /\ \/ \E kind \in TaskKinds : ns = Planned(asked, kind)
                         \/ \E kind \in {"contract", "execution"} : ns = Rejected(asked, kind)
                         \/ ns = Unreachable(asked)
                /\ Commit(ns, AfterPlan(ns))
  BY <1>3
<1>9. target = None \/ target \in Req BY <1>5, Targets
<1>10. target = None => \A r \in Req : ledger[r] = "PASS" BY <1>5, Targets
<1> HIDE DEF ledger, target
<1>11. /\ Frame(disk', disk, {"ledger", "verified"}) /\ disk'.ledger = ledger
       /\ disk'.verified \in OrNone([base : Nat, results : [Verified -> {"PASS", "FAIL"}]])
  <2>1. /\ DOMAIN disk = {"ledger", "verified", "frozen", "flaky", "spec", "paused", "late"}
        /\ disk.verified \in OrNone([base : Nat, results : [Verified -> {"PASS", "FAIL"}]])
    BY DEF TypeInv, Around
  <2>2. Frame(disk', disk, {"ledger", "verified"}) /\ disk'.ledger = ledger
    BY <1>7, <2>1 DEF Filed, Frame
  <2>3. disk'.verified = IF Verified = {} THEN disk.verified
                         ELSE [base |-> repo.tracked, results |-> results]
    BY <1>7, <2>1 DEF Filed
  <2>4. QED BY <1>4, <2>1, <2>2, <2>3 DEF OrNone
<1>12. /\ Frame(audit', audit, {"earned"})
       /\ audit'.earned = audit.earned \cup {r \in Verified : results[r] = "PASS"}
  BY <1>7 DEF Frame
<1>13. audit.earned \subseteq audit'.earned /\ audit'.earned \subseteq Req
  BY <1>12, WorkflowConstants DEF TypeInv, Around, Req
<1>14. DOMAIN s = Keys /\ s.control \in OrNone(Controls) /\ s.task \in OrNone(Tasks)
       /\ s.risks \in SUBSET Flags /\ (s.control # None => s.control.attempts <= 1)
  BY <1>1 DEF TypeInv, Typed, Attempts
<1>15. PlanResult(ns, ledger)
  <2>1. CASE ns = [st EXCEPT !.control = None, !.task = None, !.status = "target_converged"]
             /\ target = None
    <3>1. /\ Frame(ns, s, {"compliance", "control", "task", "status"}) /\ ns.compliance = ledger
          /\ ns.control = None /\ ns.task = None /\ ns.status = "target_converged"
      BY <1>14, <2>1 DEF Frame, Keys
    <3>2. /\ Frame(ns, s, PlanFields) /\ ns.red = s.red /\ ns.redAttempts = s.redAttempts
          /\ ns.approved = s.approved /\ ns.risks = s.risks /\ ns.iteration = s.iteration
      BY <1>14, <3>1 DEF Frame, Keys, PlanFields
    <3>3. QED BY <1>10, <1>14, <2>1, <3>2 DEF PlanResult, OrNone
  <2>2. CASE ns = [st EXCEPT !.status = "iteration_budget_exhausted"]
    <3>1. /\ Frame(ns, s, {"compliance", "status"}) /\ ns.compliance = ledger
          /\ ns.status = "iteration_budget_exhausted"
      BY <1>14, <2>2 DEF Frame, Keys
    <3>2. /\ Frame(ns, s, PlanFields) /\ ns.red = s.red /\ ns.redAttempts = s.redAttempts
          /\ ns.approved = s.approved /\ ns.risks = s.risks /\ ns.iteration = s.iteration
          /\ ns.control = s.control /\ ns.task = s.task
      BY <1>14, <3>1 DEF Frame, Keys, PlanFields
    <3>3. QED BY <1>14, <3>1, <3>2 DEF PlanResult
  <2>3. CASE /\ target # None /\ ~ (s.iteration >= MaxIterations)
             /\ \/ \E kind \in TaskKinds : ns = Planned(asked, kind)
                \/ \E kind \in {"contract", "execution"} : ns = Rejected(asked, kind)
                \/ ns = Unreachable(asked)
    <3>1. PICK q \in Ledgers, p \in Req : q = ledger /\ p = target BY <1>5, <1>9, <2>3
    <3>2. s.iteration < MaxIterations BY <2>3, WorkflowConstants
    <3>3. \A kind \in TaskKinds : PlanResult(Planned(asked, kind), ledger)
      BY <1>1, <3>1, <3>2, PlannedResult
    <3>4. \A kind : PlanResult(Rejected(asked, kind), ledger)
      BY <1>1, <3>1, RejectedResult
    <3>5. PlanResult(Unreachable(asked), ledger)
      BY <1>1, <3>1, UnreachableResult
    <3>6. QED BY <2>3, <3>3, <3>4, <3>5
  <2>4. QED BY <1>8, <2>1, <2>2, <2>3
<1>16. Stays({}) \/ (s' = ns /\ Moves(AfterPlan(ns)))
  BY <1>1, <1>8 DEF Commit, Killed, Stays, Moves
<1>17. \A r \in Req : /\ r \notin Verified => disk'.ledger[r] = s.compliance[r]
                      /\ r \in Verified /\ disk'.ledger[r] = "PASS" => r \in audit'.earned
  BY <1>6, <1>11, <1>12
<1>18. QED BY <1>1, <1>2, <1>5, <1>11, <1>12, <1>13, <1>15, <1>16, <1>17

-----------------------------------------------------------------------------
(* The effects of the nodes that build, judge and repair. *)

\* What a builder does.
LEMMA BuilderEffect ==
  ASSUME TypeInv, NEW node \in {"build", "repair"}, NEW ns, Builder(node, ns), DOMAIN ns = Keys
  PROVE  /\ at = node /\ UNCHANGED <<disk, audit>>
         /\ Frame(repo', repo, {"wt"}) /\ repo'.wt \in Trees
         /\ \/ Stays({"built"})
            \/ /\ Moves("guard_quality")
               /\ Frame(s', s, {"status"}) \/ Frame(s', ns, {"status"})
               /\ s'.status \in {"frozen_red_violation", ns.status}
<1>1. at = node /\ waiting = None /\ outcome = "running" /\ UNCHANGED <<disk, audit>>
  BY DEF Builder, At
<1>2. at \in Working BY <1>1 DEF Working
<1>3. s.task \in Tasks /\ repo.wt \in Trees /\ step \in {"start", "built"}
  BY <1>1, <1>2 DEF TypeInv, Placed, Candidate
<1>4. FrozenRedMutated => disk.frozen \in Tests
  BY <1>1 DEF FrozenRedMutated, TypeInv, Frozen
<1>5. \/ repo' = repo
      \/ FrozenRedMutated /\ repo' = FrozenRedRestored
      \/ \E tree \in Trees : repo' = [repo EXCEPT !.wt = tree]
  <2>1. \/ repo' = repo
        \/ FrozenRedMutated /\ repo' = FrozenRedRestored
        \/ \E code \in Contents \cup {NoDiff},
              red \in IF s.task.tdd THEN Tests \cup {NoDiff} ELSE {repo.wt.red} :
             repo' = [repo EXCEPT !.wt = [code |-> code, red |-> red]]
    BY DEF Builder
  <2>2. \A code \in Contents \cup {NoDiff},
           red \in IF s.task.tdd THEN Tests \cup {NoDiff} ELSE {repo.wt.red} :
          [code |-> code, red |-> red] \in Trees
    BY <1>3 DEF Trees
  <2>3. QED BY <2>1, <2>2
<1>6. Frame(repo', repo, {"wt"}) /\ repo'.wt \in Trees
  <2>1. repo.wt \in Trees /\ DOMAIN repo = {"wt", "head", "branch", "pr", "upstream", "tracked"}
    BY <1>3 DEF TypeInv, Around
  <2>2. CASE repo' = repo BY <2>1, <2>2 DEF Frame
  <2>3. CASE FrozenRedMutated /\ repo' = FrozenRedRestored
    <3>1. [repo.wt EXCEPT !.red = disk.frozen] \in Trees BY <1>4, <2>1, <2>3 DEF Trees
    <3>2. repo' = [repo EXCEPT !.wt = [repo.wt EXCEPT !.red = disk.frozen]]
      BY <2>1, <2>3 DEF FrozenRedRestored
    <3>3. QED BY <3>1, <3>2 DEF Frame
  <2>4. CASE \E tree \in Trees : repo' = [repo EXCEPT !.wt = tree]
    BY <2>1, <2>4 DEF Frame
  <2>5. QED BY <1>5, <2>2, <2>3, <2>4
<1> DEFINE violated == [s EXCEPT !.status = "frozen_red_violation"]
           built == [ns EXCEPT !.status = IF FrozenRedMutated THEN "frozen_red_violation" ELSE @]
<1>7. Frame(violated, s, {"status"}) /\ violated.status = "frozen_red_violation"
  BY DEF Frame
<1>8. Frame(built, ns, {"status"}) /\ built.status \in {"frozen_red_violation", ns.status}
  BY DEF Keys, Frame
<1>9. \/ Stays({"built"})
      \/ s' \in {violated, built} /\ Moves("guard_quality")
  <2> HIDE DEF violated, built
  <2>1. \/ Commit(violated, "guard_quality") \/ Commit(built, "guard_quality") \/ Proceed("built")
    BY DEF Builder, violated, built
  <2>2. QED BY <1>1, <2>1 DEF Commit, Killed, Proceed, Stays, Moves
<1> HIDE DEF violated, built
<1>10. QED BY <1>1, <1>6, <1>7, <1>8, <1>9

\* What build does.
LEMMA BuildEffect ==
  ASSUME TypeInv, Build
  PROVE  /\ at = "build" /\ UNCHANGED <<disk, audit>>
         /\ Frame(repo', repo, {"wt"}) /\ repo'.wt \in Trees
         /\ \/ Stays({"built"})
            \/ /\ Moves("guard_quality") /\ Frame(s', s, {"status"})
               /\ s'.status \in {"frozen_red_violation", "built"}
<1>1. PICK ns : ns = [s EXCEPT !.status = "built"] OBVIOUS
<1>2. Builder("build", ns) BY <1>1 DEF Build
<1>3. DOMAIN ns = Keys /\ Frame(ns, s, {"status"}) /\ ns.status = "built"
  BY <1>1 DEF TypeInv, Typed, Frame
<1>4. /\ at = "build" /\ UNCHANGED <<disk, audit>>
      /\ Frame(repo', repo, {"wt"}) /\ repo'.wt \in Trees
      /\ \/ Stays({"built"})
         \/ /\ Moves("guard_quality")
            /\ Frame(s', s, {"status"}) \/ Frame(s', ns, {"status"})
            /\ s'.status \in {"frozen_red_violation", ns.status}
  BY <1>2, <1>3, BuilderEffect
<1>5. Frame(s', ns, {"status"}) => Frame(s', s, {"status"}) BY <1>3 DEF Frame
<1>6. QED BY <1>3, <1>4, <1>5

\* What repair does.
LEMMA RepairEffect ==
  ASSUME TypeInv, Repair
  PROVE  /\ at = "repair" /\ UNCHANGED <<disk, audit>>
         /\ Frame(repo', repo, {"wt"}) /\ repo'.wt \in Trees
         /\ \/ Stays({"built"})
            \/ /\ Moves("guard_quality") /\ Frame(s', s, {"repairs", "status"})
               /\ s'.repairs \in {s.repairs, s.repairs + 1}
               /\ s'.status \in {"frozen_red_violation", "repaired"}
<1>1. PICK ns : ns = [s EXCEPT !.status = "repaired", !.repairs = @ + 1] OBVIOUS
<1>2. Builder("repair", ns) BY <1>1 DEF Repair
<1>3. /\ DOMAIN ns = Keys /\ Frame(ns, s, {"repairs", "status"}) /\ ns.status = "repaired"
      /\ ns.repairs = s.repairs + 1 /\ DOMAIN s = Keys
  BY <1>1 DEF TypeInv, Typed, Keys, Frame
<1>4. /\ at = "repair" /\ UNCHANGED <<disk, audit>>
      /\ Frame(repo', repo, {"wt"}) /\ repo'.wt \in Trees
      /\ \/ Stays({"built"})
         \/ /\ Moves("guard_quality")
            /\ Frame(s', s, {"status"}) \/ Frame(s', ns, {"status"})
            /\ s'.status \in {"frozen_red_violation", ns.status}
  BY <1>2, <1>3, BuilderEffect
<1>5. Frame(s', ns, {"status"}) => Frame(s', s, {"repairs", "status"}) /\ s'.repairs = s.repairs + 1
  BY <1>3 DEF Frame, Keys
<1>6. Frame(s', s, {"status"}) => Frame(s', s, {"repairs", "status"}) /\ s'.repairs = s.repairs
  BY <1>3 DEF Frame, Keys
<1>7. QED BY <1>3, <1>4, <1>5, <1>6

\* What quality_gate does.
LEMMA QualityEffect ==
  ASSUME TypeInv, Quality
  PROVE  /\ at = "quality" /\ step = "start" /\ UNCHANGED disk
         /\ Frame(repo', repo, {"wt"}) /\ repo'.wt \in Trees
         /\ repo'.wt.red = repo.wt.red
         /\ Frame(audit', audit, {"gated"}) /\ audit'.gated \in {None, repo'.wt}
         /\ \/ Stays({})
            \/ /\ Moves("review") /\ Frame(s', s, {"gates", "status"})
               /\ s'.status = "quality_checked"
               /\ \/ s'.gates = "fail"
                  \/ /\ s'.gates = "pass" /\ audit'.gated = repo'.wt
                     /\ s.task.tdd => repo'.wt.red = s.red
<1>1. at = "quality" /\ waiting = None /\ outcome = "running" /\ UNCHANGED disk
  BY DEF Quality, At
<1>2. at \in Working BY <1>1 DEF Working
<1>3. step = "start" /\ repo.wt \in Trees
  BY <1>1, <1>2 DEF TypeInv, Placed, Candidate
<1>4. PICK green \in BOOLEAN,
            code \in {repo.wt.code} \cup (IF MutatingGates THEN Contents ELSE {}) :
       /\ green /\ RequiresTdd(s.task) => repo.wt.red = s.red
       /\ repo' = [repo EXCEPT !.wt.code = code]
       /\ audit' = [audit EXCEPT !.gated = IF green THEN repo'.wt ELSE None]
       /\ Commit([s EXCEPT !.gates = IF green THEN "pass" ELSE "fail",
                           !.status = "quality_checked"], "review")
  BY DEF Quality
<1> DEFINE ns == [s EXCEPT !.gates = IF green THEN "pass" ELSE "fail",
                           !.status = "quality_checked"]
<1>5. /\ Frame(ns, s, {"gates", "status"}) /\ ns.status = "quality_checked"
      /\ ns.gates = IF green THEN "pass" ELSE "fail"
  BY DEF TypeInv, Typed, Keys, Frame
<1>6. Commit(ns, "review") BY <1>4
<1> HIDE DEF ns
<1>7. Stays({}) \/ (s' = ns /\ Moves("review"))
  BY <1>1, <1>6 DEF Commit, Killed, Stays, Moves
<1>8. Frame(repo', repo, {"wt"}) /\ repo'.wt \in Trees /\ repo'.wt.red = repo.wt.red
  <2>1. repo' = [repo EXCEPT !.wt = [code |-> code, red |-> repo.wt.red]]
    BY <1>3, <1>4 DEF Trees
  <2>2. [code |-> code, red |-> repo.wt.red] \in Trees BY <1>3, <1>4 DEF Trees
  <2>3. QED BY <2>1, <2>2 DEF TypeInv, Around, Frame
<1>9. Frame(audit', audit, {"gated"}) /\ audit'.gated = IF green THEN repo'.wt ELSE None
  BY <1>4 DEF TypeInv, Around, Frame
<1>10. QED BY <1>1, <1>3, <1>4, <1>5, <1>7, <1>8, <1>9 DEF RequiresTdd

\* Where a judged candidate goes.
Routed(st, next) ==
  \/ /\ next = "pause_integrate" /\ st.gates # "fail" /\ st.verdict = "pass"
     /\ st.status \notin Outages
     /\ "human" \in st.risks => "human" \in st.approved
  \/ next = "spec_stop" /\ st.status \notin Outages
  \/ /\ next = "human" /\ st.status \notin Outages
     /\ \/ disk.spec = "pinned" /\ Decision(st) = "INTERRUPT"
        \/ st.repairs >= MaxRepairs /\ st.replans >= MaxReplans
  \/ next = "pause_repair" /\ st.repairs < MaxRepairs /\ st.status \notin Outages
  \/ next = "replan" /\ st.status \notin Outages
  \/ /\ next = "pause_reviewer_recovery" /\ st.status = "review_transport_failure"
     /\ st.retries <= MaxReviewRetries
  \/ next = "pause_reviewer_recovery_wait" /\ st.status = "reviewer_recovery_wait"
  \/ next = "review_execution_failure"

\* A failed candidate is repaired, replanned, or put to the operator at last.
LEMMA FailureRouted ==
  ASSUME NEW st, st.repairs \in Nat, st.replans \in Nat
  PROVE  \/ AfterFailure(st) = "pause_repair" /\ st.repairs < MaxRepairs
         \/ AfterFailure(st) = "replan"
         \/ /\ AfterFailure(st) = "human"
            /\ st.repairs >= MaxRepairs /\ st.replans >= MaxReplans
BY WorkflowConstants DEF AfterFailure

\* A judged candidate goes where its verdict, gates and risks send it.
LEMMA ReviewRouted ==
  ASSUME NEW st, st.repairs \in Nat, st.replans \in Nat, disk.spec \in {"pinned", "edited"}
  PROVE  Routed(st, AfterReview(st))
<1>1. CASE st.status = "review_transport_failure"
  BY <1>1 DEF Routed, AfterReview
<1>2. CASE st.status = "reviewer_recovery_wait"
  BY <1>2 DEF Routed, AfterReview
<1>3. CASE st.status = "review_execution_failed"
  BY <1>3 DEF Routed, AfterReview
<1>4. CASE st.status \notin Outages
  <2> DEFINE d == Decision(st)
  <2>1. d \in {"SPEC_CHANGED", "BLOCK", "INTERRUPT", "ALLOW"}
    BY DEF Decision
  <2>2. d = "SPEC_CHANGED" <=> disk.spec = "edited" BY DEF Decision
  <2>3. d = "ALLOW" => /\ st.gates # "fail" /\ st.verdict = "pass"
                       /\ "human" \in st.risks => "human" \in st.approved
    BY DEF Decision
  <2>4. AfterReview(st) = CASE d = "ALLOW" -> "pause_integrate"
                            [] d = "SPEC_CHANGED" -> "spec_stop"
                            [] d = "INTERRUPT" -> "human"
                            [] d = "BLOCK" -> AfterFailure(st)
    BY <1>4 DEF AfterReview, Outages
  <2> HIDE DEF d
  <2>5. CASE d = "ALLOW" BY <1>4, <2>3, <2>4, <2>5 DEF Routed
  <2>6. CASE d = "SPEC_CHANGED" BY <1>4, <2>4, <2>6 DEF Routed
  <2>7. CASE d = "INTERRUPT" BY <1>4, <2>2, <2>4, <2>7 DEF Routed, d
  <2>8. CASE d = "BLOCK" BY <1>4, <2>4, <2>8, FailureRouted DEF Routed
  <2>9. QED BY <2>1, <2>5, <2>6, <2>7, <2>8
<1>5. QED BY <1>1, <1>2, <1>3, <1>4 DEF Outages

\* The keys that review may change.
ReviewFields == {"risks", "approved", "fingerprint", "recordedBase", "verdict", "status", "retries"}

\* What review returns, with this verdict.
ReviewResult(ns, verdict) ==
  /\ Frame(ns, s, ReviewFields)
  /\ ns.fingerprint = repo.wt /\ ns.recordedBase = repo.tracked
  /\ ns.approved = StillApproved
  /\ ns.risks \in SUBSET Flags
  /\ repo.wt.code \in Risky \/ s.task.risky => "human" \in ns.risks
  /\ ns.verdict = IF verdict = "pass" THEN "pass" ELSE "reject"
  /\ \/ ns.status = "risk_blocked" /\ verdict # "pass" /\ ns.retries = s.retries
     \/ ns.status = "reviewed" /\ ns.retries = 0 /\ repo.wt.code \notin Secret
     \/ /\ ns.status = "review_transport_failure" /\ ns.retries = s.retries + 1
        /\ repo.wt.code \notin Secret

\* What review does.
LEMMA ReviewEffect ==
  ASSUME TypeInv, Review
  PROVE  /\ at = "review" /\ step = "start" /\ UNCHANGED <<repo, disk>>
         /\ Frame(audit', audit, {"reviewed"}) /\ audit'.reviewed \in OrNone(Trees)
         /\ \/ Stays({})
            \/ /\ Moves(at') /\ Routed(s', at')
               /\ \E verdict : /\ ReviewResult(s', verdict)
                               /\ verdict = "pass" => audit'.reviewed = repo.wt
<1>1. at = "review" /\ waiting = None /\ outcome = "running" /\ UNCHANGED <<repo, disk>>
  BY DEF Review, At
<1>2. at \in Working BY <1>1 DEF Working
<1>3. step = "start" /\ repo.wt \in Trees
  BY <1>1, <1>2 DEF TypeInv, Placed, Candidate
<1> DEFINE found == RiskFlags(repo.wt.code)
           st == [s EXCEPT !.risks = found \cup (IF s.task.risky THEN {"human"} ELSE {}),
                           !.approved = StillApproved,
                           !.fingerprint = repo.wt,
                           !.recordedBase = repo.tracked]
           blocked == [st EXCEPT !.verdict = "reject", !.status = "risk_blocked"]
           out == [Judged(st, "transport") EXCEPT !.retries = s.retries + 1,
                                                  !.status = "review_transport_failure"]
<1>4. /\ found \in SUBSET Flags
      /\ "secret" \notin found => repo.wt.code \notin Secret
      /\ repo.wt.code \in Risky => "human" \in found
  BY DEF RiskFlags, Flags
<1>5. DOMAIN s = Keys /\ s.repairs \in Nat /\ s.replans \in Nat /\ disk.spec \in {"pinned", "edited"}
  BY DEF TypeInv, Typed, Around
<1>6. /\ Frame(st, s, ReviewFields)
      /\ st.fingerprint = repo.wt /\ st.recordedBase = repo.tracked
      /\ st.approved = StillApproved /\ st.retries = s.retries
      /\ st.risks = found \cup (IF s.task.risky THEN {"human"} ELSE {})
      /\ DOMAIN st = Keys
  <2> HIDE DEF found
  <2>1. QED BY <1>5 DEF Frame, Keys, ReviewFields
<1>7. /\ st.risks \in SUBSET Flags
      /\ repo.wt.code \in Risky \/ s.task.risky => "human" \in st.risks
  <2> HIDE DEF st, found
  <2>1. QED BY <1>4, <1>6 DEF Flags
<1>8. PICK ns, verdict :
        /\ Commit(ns, AfterReview(ns))
        /\ \/ /\ "secret" \in found /\ UNCHANGED audit /\ verdict = "reject" /\ ns = blocked
           \/ /\ "secret" \notin found /\ Reviewed(verdict)
              /\ ns = IF verdict = "transport" THEN out ELSE Judged(st, verdict)
  <2>1. CASE "secret" \in found BY <2>1 DEF Review
  <2>2. CASE "secret" \notin found
    <3>1. PICK verdict : /\ Reviewed(verdict)
                         /\ LET ns == IF verdict = "transport"
                                  THEN [Judged(st, verdict) EXCEPT
                                          !.retries = s.retries + 1,
                                          !.status = "review_transport_failure"]
                                  ELSE Judged(st, verdict)
                            IN Commit(ns, AfterReview(ns))
      BY <2>2 DEF Review
    <3>2. QED BY <2>2, <3>1
  <2>3. QED BY <2>1, <2>2
<1> HIDE DEF found, st
<1>9. ReviewResult(ns, verdict)
  <2>1. CASE "secret" \in found /\ verdict = "reject" /\ ns = blocked
    <3>1. /\ Frame(ns, st, {"verdict", "status"}) /\ ns.verdict = "reject"
          /\ ns.status = "risk_blocked"
      BY <1>6, <2>1 DEF Frame, Keys
    <3>2. QED BY <1>6, <1>7, <2>1, <3>1 DEF ReviewResult, Frame, ReviewFields
  <2>2. CASE "secret" \notin found /\ verdict = "transport" /\ ns = out
    <3>1. /\ Frame(ns, st, {"verdict", "status", "retries"}) /\ ns.verdict = "reject"
          /\ ns.status = "review_transport_failure" /\ ns.retries = s.retries + 1
      BY <1>6, <2>2 DEF Frame, Keys, Judged
    <3>2. QED BY <1>4, <1>6, <1>7, <2>2, <3>1 DEF ReviewResult, Frame, Keys, ReviewFields
  <2>3. CASE "secret" \notin found /\ verdict # "transport" /\ ns = Judged(st, verdict)
    <3>1. /\ Frame(ns, st, {"verdict", "status", "retries"})
          /\ ns.verdict = (IF verdict = "pass" THEN "pass" ELSE "reject")
          /\ ns.status = "reviewed" /\ ns.retries = 0
      BY <1>6, <2>3 DEF Frame, Keys, Judged
    <3>2. QED BY <1>4, <1>6, <1>7, <2>3, <3>1 DEF ReviewResult, Frame, Keys, ReviewFields
  <2>4. QED BY <1>8, <2>1, <2>2, <2>3
<1>10. /\ Frame(audit', audit, {"reviewed"})
       /\ verdict = "pass" => audit'.reviewed = repo.wt
       /\ audit'.reviewed \in {audit.reviewed, None, repo.wt}
  <2>1. \/ UNCHANGED audit /\ verdict = "reject"
        \/ audit' = [audit EXCEPT !.reviewed = IF verdict = "pass" THEN repo.wt ELSE None]
    BY <1>8 DEF Reviewed
  <2>2. QED BY <2>1 DEF TypeInv, Around, Frame
<1>11. ns.repairs \in Nat /\ ns.replans \in Nat
  BY <1>5, <1>9 DEF ReviewResult, Frame, Keys, ReviewFields
<1>12. Routed(ns, AfterReview(ns)) BY <1>5, <1>11, ReviewRouted
<1>13. Stays({}) \/ (s' = ns /\ Moves(AfterReview(ns)))
  BY <1>1, <1>8 DEF Commit, Killed, Stays, Moves
<1>14. audit'.reviewed \in OrNone(Trees)
  BY <1>10 DEF TypeInv, Around, OrNone
<1>15. Moves(AfterReview(ns)) => at' = AfterReview(ns) BY DEF Moves
<1>16. QED BY <1>1, <1>3, <1>9, <1>10, <1>12, <1>13, <1>14, <1>15

\* What reviewer_recovery does.
LEMMA ReviewerRecoveryEffect ==
  ASSUME TypeInv, ReviewerRecovery
  PROVE  /\ at = "reviewer_recovery" /\ step = "start" /\ UNCHANGED <<repo, disk>>
         /\ Frame(audit', audit, {"reviewed"}) /\ audit'.reviewed \in OrNone(Trees)
         /\ \/ Stays({})
            \/ /\ Moves(at') /\ Routed(s', at')
               /\ Frame(s', s, {"verdict", "status", "retries"})
               /\ \/ s'.status = "reviewed" /\ s'.retries = 0
                  \/ /\ s'.status \in {"reviewer_recovery_wait", "review_execution_failed"}
                     /\ s'.retries = s.retries
               /\ s'.verdict \in {"pass", "reject"}
               /\ s'.verdict = "pass" => audit'.reviewed = repo.wt
<1>1. at = "reviewer_recovery" /\ waiting = None /\ outcome = "running" /\ UNCHANGED <<repo, disk>>
  BY DEF ReviewerRecovery, At
<1>2. at \in Working BY <1>1 DEF Working
<1>3. step = "start" /\ repo.wt \in Trees
  BY <1>1, <1>2 DEF TypeInv, Placed, Candidate
<1>4. PICK ns, verdict :
        /\ Reviewed(verdict)
        /\ Fail \/ Commit(ns, AfterReview(ns))
        /\ ns = IF verdict = "transport"
                 THEN [Judged(s, verdict) EXCEPT
                         !.retries = s.retries,
                         !.status = IF s.retries < MaxReviewRetries
                                    THEN "reviewer_recovery_wait"
                                    ELSE "review_execution_failed"]
                 ELSE Judged(s, verdict)
  BY DEF ReviewerRecovery
<1>5. DOMAIN s = Keys /\ s.repairs \in Nat /\ s.replans \in Nat /\ disk.spec \in {"pinned", "edited"}
  BY DEF TypeInv, Typed, Around
<1>6. /\ Frame(ns, s, {"verdict", "status", "retries"})
      /\ \/ ns.status = "reviewed" /\ ns.retries = 0
         \/ /\ ns.status \in {"reviewer_recovery_wait", "review_execution_failed"}
            /\ ns.retries = s.retries
      /\ ns.verdict = IF verdict = "pass" THEN "pass" ELSE "reject"
  BY <1>4, <1>5 DEF Judged, Frame, Keys
<1>7. /\ Frame(audit', audit, {"reviewed"})
      /\ audit'.reviewed = IF verdict = "pass" THEN repo.wt ELSE None
  BY <1>4 DEF Reviewed, Frame
<1>8. ns.repairs \in Nat /\ ns.replans \in Nat
  BY <1>5, <1>6 DEF Frame, Keys
<1>9. Routed(ns, AfterReview(ns)) BY <1>5, <1>8, ReviewRouted
<1>10. Stays({}) \/ (s' = ns /\ Moves(AfterReview(ns)))
  BY <1>1, <1>4 DEF Commit, Killed, Fail, Stays, Moves
<1>11. audit'.reviewed \in OrNone(Trees) BY <1>3, <1>7 DEF OrNone
<1>12. Moves(AfterReview(ns)) => at' = AfterReview(ns) BY DEF Moves
<1>13. QED BY <1>1, <1>3, <1>6, <1>7, <1>9, <1>10, <1>11, <1>12

\* What a discarded candidate may change of the repository.
RepoFields == {"pr", "branch", "wt", "head"}

\* The workspace of the candidate is discarded, or on the way to it.
Discards ==
  /\ UNCHANGED <<disk, audit>>
  /\ Frame(repo', repo, RepoFields)
  /\ repo'.wt \in {repo.wt, None} /\ repo'.head \in {repo.head, None}
  /\ repo'.branch \in {repo.branch, None}
  /\ repo'.pr = repo.pr \/ (repo.pr = "open" /\ repo'.pr = "closed")

\* Nothing of it is left that the state knows of.
Gone ==
  /\ s.branch => repo'.wt = None /\ repo'.head = None /\ repo'.branch = None
  /\ s.pr # None /\ HasGitHub => repo'.pr # "open"

\* Discarding completes with the checkpoint, or is cut short and will be done again.
LEMMA Discarding ==
  ASSUME TypeInv, outcome = "running", waiting = None, NEW ns, NEW next, DiscardThen(ns, next)
  PROVE  /\ Discards
         /\ Stays({}) \/ (s' = ns /\ Moves(next) /\ Gone)
<1>1. DOMAIN repo = {"wt", "head", "branch", "pr", "upstream", "tracked"}
  BY DEF TypeInv, Around
<1>2. PICK done \in 1..3 :
        /\ UNCHANGED <<disk, audit>> /\ repo' = DiscardedTo(done)
        /\ Killed \/ (done = 3 /\ Commit(ns, next))
  BY DEF DiscardThen
<1>3. /\ Frame(repo', repo, RepoFields)
      /\ repo'.pr = (IF s.pr # None /\ HasGitHub /\ repo.pr = "open" THEN "closed" ELSE repo.pr)
      /\ repo'.branch = (IF s.branch /\ done >= 2 THEN None ELSE repo.branch)
      /\ repo'.wt = (IF s.branch /\ done = 3 THEN None ELSE repo.wt)
      /\ repo'.head = (IF s.branch /\ done = 3 THEN None ELSE repo.head)
  BY <1>1, <1>2 DEF DiscardedTo, Frame, RepoFields
<1>4. Discards BY <1>2, <1>3 DEF Discards
<1>5. Stays({}) \/ (done = 3 /\ s' = ns /\ Moves(next))
  BY <1>2 DEF Commit, Killed, Stays, Moves
<1>6. done = 3 => Gone BY <1>3 DEF Gone
<1>7. QED BY <1>4, <1>5, <1>6

\* The keys that describe a candidate.
CandidateFields == {"task", "branch", "gates", "verdict", "commit", "pr", "ci", "repairs",
                    "risks", "approved", "fingerprint"}

\* The state of a run without a candidate.
Blank(ns) ==
  /\ ~ns.branch /\ ns.branch \in BOOLEAN /\ ns.pr = None /\ ns.commit = None /\ ns.repairs = 0
  /\ ns.approved = {} /\ ns.fingerprint = None

\* Forgetting the candidate touches no other key.
LEMMA WithoutCandidateBlank ==
  ASSUME NEW st, DOMAIN st = Keys
  PROVE  /\ Frame(WithoutCandidate(st), st, CandidateFields) /\ Blank(WithoutCandidate(st))
         /\ WithoutCandidate(st).task = None /\ WithoutCandidate(st).risks = {}
BY DEF WithoutCandidate, Frame, Blank, Keys, CandidateFields

\* The keys that replan may change.
ReplanFields == CandidateFields \cup {"replans", "tddReplans", "recordedBase", "retries", "status"}

\* The statuses that the budget of TDD replans is for.
TddFailures == {"tdd_baseline_unavailable", "tdd_red_failed"}

\* What replan does.
LEMMA ReplanEffect ==
  ASSUME TypeInv, Replan
  PROVE  /\ at = "replan" /\ step = "start" /\ Discards
         /\ \/ Stays({})
            \/ /\ Moves("guard_plan") /\ Gone /\ Frame(s', s, ReplanFields) /\ Blank(s')
               /\ s'.task = None /\ s'.risks = {} /\ s'.retries = 0 /\ s'.status = "replanning"
               /\ s'.replans \in {s.replans, s.replans + 1}
               /\ s'.tddReplans = IF s.status \in TddFailures THEN s.tddReplans + 1
                                  ELSE s.tddReplans
<1>1. at = "replan" /\ waiting = None /\ outcome = "running" BY DEF Replan, At
<1>2. step = "start" BY <1>1 DEF TypeInv, Placed
<1> DEFINE bare == WithoutCandidate(s)
           tdd == s.status \in TddFailures
           ns == [bare EXCEPT
             !.replans = IF tdd THEN @ ELSE @ + 1,
             !.tddReplans = IF tdd THEN @ + 1 ELSE @,
             !.recordedBase = None, !.retries = 0, !.status = "replanning"]
<1>3. DiscardThen(ns, "guard_plan") BY DEF Replan, TddFailures
<1>4. DOMAIN s = Keys BY DEF TypeInv, Typed
<1>5. Frame(bare, s, CandidateFields) /\ Blank(bare) /\ bare.task = None /\ bare.risks = {}
  BY <1>4, WithoutCandidateBlank
<1> HIDE DEF bare
<1>6. bare.replans = s.replans /\ bare.tddReplans = s.tddReplans /\ DOMAIN bare = Keys
  BY <1>4, <1>5 DEF Frame, Keys, CandidateFields
<1>7. /\ Frame(ns, bare, {"replans", "tddReplans", "recordedBase", "retries", "status"})
      /\ ns.retries = 0 /\ ns.status = "replanning"
      /\ ns.replans \in {s.replans, s.replans + 1}
      /\ ns.tddReplans = IF tdd THEN s.tddReplans + 1 ELSE s.tddReplans
  BY <1>6 DEF Frame, Keys
<1> HIDE DEF ns, tdd
<1>8. Frame(ns, s, ReplanFields) BY <1>5, <1>7 DEF Frame, ReplanFields
<1>9. Blank(ns) /\ ns.task = None /\ ns.risks = {}
  BY <1>5, <1>6, <1>7 DEF Blank, Frame, Keys
<1>10. Discards /\ (Stays({}) \/ (s' = ns /\ Moves("guard_plan") /\ Gone))
  <2>1. PICK p : p = ns OBVIOUS
  <2>2. DiscardThen(p, "guard_plan") BY <1>3, <2>1
  <2>3. Discards /\ (Stays({}) \/ (s' = p /\ Moves("guard_plan") /\ Gone))
    BY <1>1, <2>2, Discarding
  <2>4. QED BY <2>1, <2>3
<1>11. QED BY <1>1, <1>2, <1>7, <1>8, <1>9, <1>10 DEF tdd

-----------------------------------------------------------------------------
\* The keys that an edited task may change.
EditFields == CandidateFields \cup {"replans", "tddReplans", "status", "decisions"}

\* What the operator of human_gate can bring about.
Stopped ==
  /\ Moves("end") /\ UNCHANGED <<repo, disk, audit>>
  /\ Frame(s', s, {"status", "decisions"}) /\ s'.status = "stopped"

\* ... an approval of the risks that were found, ...
Approved ==
  /\ Moves("guard_quality") /\ UNCHANGED <<repo, disk>>
  /\ HumanKind = "risk_policy" /\ answer = "approve"
  /\ Frame(audit', audit, {"cleared"}) /\ audit'.cleared = s.fingerprint
  /\ Frame(s', s, {"approved", "status", "decisions"})
  /\ s'.approved = s.approved \cup s.risks /\ s'.status = "human_retry_review"

\* ... a fresh iteration budget, ...
Continued ==
  /\ Moves("guard_plan") /\ UNCHANGED <<repo, disk, audit>>
  /\ s.status = "iteration_budget_exhausted"
  /\ Frame(s', s, {"iteration", "status", "decisions"})
  /\ s'.iteration = 0 /\ s'.status = "human_retry_plan"

\* ... fresh budgets for the candidate, ...
Renewed ==
  /\ UNCHANGED <<repo, disk, audit>>
  /\ s.status # "iteration_budget_exhausted" /\ answer = "retry"
  /\ Frame(s', s, {"repairs", "replans", "tddReplans", "status", "decisions"})
  /\ s'.repairs = 0 /\ s'.replans = 0 /\ s'.tddReplans = 0
  /\ \/ Moves("pause_repair") /\ s'.status = "human_retry_ci"
     \/ Moves("guard_quality") /\ s'.status = "human_retry_review"

\* ... or another task in its place.
Replaced ==
  /\ Moves("prepare_worktree") /\ Discards /\ Gone
  /\ Frame(s', s, EditFields) /\ Blank(s')
  /\ s'.task \in Tasks /\ s'.risks \in SUBSET Flags
  /\ s'.replans = 0 /\ s'.tddReplans = 0 /\ s'.status = "human_edit"

\* The question of human_gate is about the iterations exactly when they are used up.
LEMMA Kind ==
  /\ HumanKind \in {"risk_policy", "ci_failure_budget", "repair_replan_budget", "iteration_budget"}
  /\ HumanKind = "iteration_budget" <=> s.status = "iteration_budget_exhausted"
BY DEF HumanKind

\* A retry continues the run or the candidate.
LEMMA RetriedEffect ==
  ASSUME TypeInv, at = "human", waiting = None, outcome = "running", step = "start",
         answer = "retry", UNCHANGED <<repo, disk, audit>>,
         Commit(Retried(HumanKind), AfterHuman(Retried(HumanKind)))
  PROVE  Stays({}) \/ ((Continued \/ Renewed) /\ s'.decisions = s.decisions + 1)
<1> DEFINE kind == HumanKind
           ns == Retried(kind)
<1>1. DOMAIN s = Keys BY DEF TypeInv, Typed
<1>2. kind = "iteration_budget" =>
        /\ Frame(ns, s, {"iteration", "status", "decisions"})
        /\ ns.iteration = 0 /\ ns.status = "human_retry_plan" /\ ns.decisions = s.decisions + 1
  <2> HIDE DEF kind
  <2>1. QED BY <1>1 DEF Retried, Recorded, Frame, Keys
<1>3. kind # "iteration_budget" =>
        /\ Frame(ns, s, {"repairs", "replans", "tddReplans", "status", "decisions"})
        /\ ns.repairs = 0 /\ ns.replans = 0 /\ ns.tddReplans = 0
        /\ ns.status \in {"human_retry_ci", "human_retry_review"}
        /\ ns.decisions = s.decisions + 1
  <2> HIDE DEF kind
  <2>1. QED BY <1>1 DEF Retried, Recorded, Frame, Keys
<1>4. kind = "iteration_budget" <=> s.status = "iteration_budget_exhausted" BY Kind
<1> HIDE DEF kind
<1>5. Commit(ns, AfterHuman(ns)) BY DEF kind
<1> HIDE DEF ns
<1>6. Stays({}) \/ (s' = ns /\ Moves(AfterHuman(ns)))
  BY <1>5 DEF Commit, Moves
<1>7. CASE kind = "iteration_budget"
  <2>1. AfterHuman(ns) = "guard_plan" BY <1>2, <1>7 DEF AfterHuman
  <2>2. QED BY <1>2, <1>4, <1>6, <1>7, <2>1 DEF Continued
<1>8. CASE kind # "iteration_budget"
  <2>1. AfterHuman(ns) = IF ns.status = "human_retry_ci" THEN "pause_repair" ELSE "guard_quality"
    BY <1>3, <1>8 DEF AfterHuman
  <2>2. QED BY <1>3, <1>4, <1>6, <1>8, <2>1 DEF Renewed
<1>9. QED BY <1>7, <1>8

\* An edited task replaces the candidate.
LEMMA EditedEffect ==
  ASSUME TypeInv, at = "human", waiting = None, outcome = "running",
         NEW req \in Req, NEW kind \in TaskKinds, NEW task,
         task = [req |-> req, tdd |-> kind.tdd, risky |-> kind.risky],
         DiscardThen(Edited(task), AfterHuman(Edited(task)))
  PROVE  /\ Discards
         /\ Stays({}) \/ (Replaced /\ s'.decisions = s.decisions + 1)
<1> DEFINE bare == WithoutCandidate(Recorded(s))
           ns == Edited(task)
<1>1. DOMAIN s = Keys BY DEF TypeInv, Typed
<1>2. task \in Tasks BY WorkflowConstants DEF Tasks
<1>3. Frame(Recorded(s), s, {"decisions"}) /\ Recorded(s).decisions = s.decisions + 1
  BY DEF Recorded, Frame
<1>4. DOMAIN Recorded(s) = Keys BY <1>1, <1>3 DEF Frame
<1>5. /\ Frame(bare, Recorded(s), CandidateFields) /\ Blank(bare)
  BY <1>4, WithoutCandidateBlank
<1> HIDE DEF bare
<1>6. DOMAIN bare = Keys /\ bare.decisions = s.decisions + 1
  BY <1>3, <1>4, <1>5 DEF Frame, Keys, CandidateFields
<1>7. ns = [bare EXCEPT !.task = task, !.replans = 0, !.tddReplans = 0,
              !.risks = IF task.risky THEN {"human"} ELSE {}, !.status = "human_edit"]
  BY DEF Edited, bare
<1> HIDE DEF ns
<1>8. /\ Frame(ns, bare, {"task", "replans", "tddReplans", "risks", "status"})
      /\ ns.task = task /\ ns.replans = 0 /\ ns.tddReplans = 0 /\ ns.risks \in SUBSET Flags
      /\ ns.status = "human_edit"
  BY <1>6, <1>7 DEF Frame, Keys, Flags
<1>9. Frame(ns, s, EditFields)
  BY <1>3, <1>5, <1>8 DEF Frame, EditFields, CandidateFields
<1>10. Blank(ns) /\ ns.decisions = s.decisions + 1
  BY <1>5, <1>6, <1>8 DEF Blank, Frame, Keys
<1>11. AfterHuman(ns) = "prepare_worktree" BY <1>8 DEF AfterHuman
<1>12. DiscardThen(ns, "prepare_worktree") BY <1>11 DEF ns
<1>13. Discards /\ (Stays({}) \/ (s' = ns /\ Moves("prepare_worktree") /\ Gone))
  <2>1. PICK p : p = ns OBVIOUS
  <2>2. DiscardThen(p, "prepare_worktree") BY <1>12, <2>1
  <2>3. Discards /\ (Stays({}) \/ (s' = p /\ Moves("prepare_worktree") /\ Gone))
    BY <2>2, Discarding
  <2>4. QED BY <2>1, <2>3
<1>14. QED BY <1>2, <1>8, <1>9, <1>10, <1>13 DEF Replaced

\* What human_gate does with its answer.
LEMMA HumanEffect ==
  ASSUME TypeInv, Human
  PROVE  /\ at = "human" /\ step = "start"
         /\ \/ /\ Stays({}) /\ UNCHANGED <<repo, disk, audit>>
               /\ waiting' \in {None, HumanKind}
            \/ Stays({}) /\ answer = "edit" /\ waiting' = None /\ Discards
            \/ /\ answer # None /\ s'.decisions = s.decisions + 1
               /\ Stopped \/ Approved \/ Continued \/ Renewed \/ Replaced
<1>1. at = "human" /\ waiting = None /\ outcome = "running" BY DEF Human, At
<1>2. step = "start" BY <1>1 DEF TypeInv, Placed
<1>3. DOMAIN s = Keys BY DEF TypeInv, Typed
<1> DEFINE over == [Recorded(s) EXCEPT !.status = "stopped"]
           yes == [Recorded(s) EXCEPT !.approved = @ \cup s.risks, !.status = "human_retry_review"]
<1>4. /\ Frame(over, s, {"status", "decisions"}) /\ over.status = "stopped"
      /\ over.decisions = s.decisions + 1
  BY <1>3 DEF Frame, Keys, Recorded
<1>5. /\ Frame(yes, s, {"approved", "status", "decisions"}) /\ yes.status = "human_retry_review"
      /\ yes.decisions = s.decisions + 1 /\ yes.approved = s.approved \cup s.risks
  BY <1>3 DEF Frame, Keys, Recorded
<1>6. \/ answer = None /\ Interrupt(HumanKind)
      \/ answer \in {"reject", "stop"} /\ UNCHANGED Outside /\ Commit(over, AfterHuman(over))
      \/ /\ answer = "approve" /\ HumanKind = "risk_policy" /\ UNCHANGED <<repo, disk>>
         /\ audit' = [audit EXCEPT !.cleared = s.fingerprint] /\ Commit(yes, AfterHuman(yes))
      \/ /\ answer = "retry" /\ UNCHANGED Outside
         /\ Commit(Retried(HumanKind), AfterHuman(Retried(HumanKind)))
      \/ /\ answer = "edit"
         /\ \E req \in Req, kind \in TaskKinds :
              LET ns == Edited([req |-> req, tdd |-> kind.tdd, risky |-> kind.risky])
              IN DiscardThen(ns, AfterHuman(ns))
      \/ Fail /\ UNCHANGED Outside
  BY DEF Human
<1> HIDE DEF over, yes
<1>7. CASE answer = None /\ Interrupt(HumanKind)
  <2>2. HumanKind \in Kinds(at) BY <1>1, Kind DEF Kinds
  <2>3. QED BY <1>1, <1>2, <1>7, <2>2 DEF Interrupt, Stays
<1>8. CASE answer \in {"reject", "stop"} /\ UNCHANGED Outside /\ Commit(over, AfterHuman(over))
  <2>1. AfterHuman(over) = "end" BY <1>4 DEF AfterHuman
  <2>2. (Stays({}) /\ waiting' = None) \/ (s' = over /\ Moves("end"))
    BY <1>1, <1>8, <2>1 DEF Commit, Killed, Stays, Moves
  <2>3. answer # None BY <1>8, Absent DEF Accepted
  <2>4. QED BY <1>1, <1>2, <1>4, <1>8, <2>2, <2>3 DEF Stopped, Outside
<1>9. CASE /\ answer = "approve" /\ HumanKind = "risk_policy" /\ UNCHANGED <<repo, disk>>
           /\ audit' = [audit EXCEPT !.cleared = s.fingerprint] /\ Commit(yes, AfterHuman(yes))
  <2>1. AfterHuman(yes) = "guard_quality" BY <1>5 DEF AfterHuman
  <2>2. s' = yes /\ Moves("guard_quality")
    BY <1>1, <1>2, <1>9, <2>1 DEF Commit, Moves
  <2>3. answer # None BY <1>9, Absent DEF Accepted
  <2>4. Frame(audit', audit, {"cleared"}) /\ audit'.cleared = s.fingerprint
    BY <1>9 DEF Frame
  <2>5. Approved BY <1>5, <1>9, <2>2, <2>4 DEF Approved
  <2>6. QED BY <1>1, <1>2, <1>5, <2>2, <2>3, <2>5
<1>10. CASE /\ answer = "retry" /\ UNCHANGED Outside
            /\ Commit(Retried(HumanKind), AfterHuman(Retried(HumanKind)))
  <2>1. UNCHANGED <<repo, disk, audit>> BY <1>10 DEF Outside
  <2>2. Stays({}) \/ ((Continued \/ Renewed) /\ s'.decisions = s.decisions + 1)
    BY <1>1, <1>2, <1>10, <2>1, RetriedEffect
  <2>3. answer # None BY <1>10, Absent DEF Accepted
  <2>4. Stays({}) => waiting' = None BY <1>1, <2>3 DEF Stays
  <2>5. QED BY <1>1, <1>2, <2>1, <2>2, <2>3, <2>4
<1>11. CASE /\ answer = "edit"
            /\ \E req \in Req, kind \in TaskKinds :
                 LET ns == Edited([req |-> req, tdd |-> kind.tdd, risky |-> kind.risky])
                 IN DiscardThen(ns, AfterHuman(ns))
  <2>1. PICK req \in Req, kind \in TaskKinds :
          \E task : /\ task = [req |-> req, tdd |-> kind.tdd, risky |-> kind.risky]
                    /\ DiscardThen(Edited(task), AfterHuman(Edited(task)))
    BY <1>11
  <2> PICK task : /\ task = [req |-> req, tdd |-> kind.tdd, risky |-> kind.risky]
                  /\ DiscardThen(Edited(task), AfterHuman(Edited(task)))
    BY <2>1
  <2>2. Discards /\ (Stays({}) \/ (Replaced /\ s'.decisions = s.decisions + 1))
    BY <1>1, <2>1, EditedEffect
  <2>3. answer # None BY <1>11, Absent DEF Accepted
  <2>4. Stays({}) => waiting' = None BY <1>1, <2>3 DEF Stays
  <2>5. QED BY <1>1, <1>2, <1>11, <2>2, <2>3, <2>4
<1>12. CASE Fail /\ UNCHANGED Outside
  BY <1>1, <1>2, <1>12 DEF Fail, Stays, Outside
<1>13. QED BY <1>6, <1>7, <1>8, <1>9, <1>10, <1>11, <1>12

-----------------------------------------------------------------------------
(* The effects of the nodes that deliver. *)

\* No requirement passes or fails by what is filed before a merge.
LEMMA LocalPassKeeps ==
  ASSUME NEW ledger \in Ledgers, NEW req \in Req
  PROVE  /\ LocalPass(ledger, req) \in Ledgers
         /\ \A r \in Req : LocalPass(ledger, req)[r] = "PASS" <=> ledger[r] = "PASS"
BY DEF LocalPass, Ledgers, Statuses

\* A merge adds one PASS.
LEMMA RemotePassAdds ==
  ASSUME NEW ledger \in Ledgers, NEW req \in Req
  PROVE  /\ RemotePass(ledger, req) \in Ledgers /\ RemotePass(ledger, req)[req] = "PASS"
         /\ \A r \in Req \ {req} : RemotePass(ledger, req)[r] = ledger[r]
BY DEF RemotePass, Ledgers, Statuses

\* integrate leaves the candidate unpublished; commits; pushes; files the result.
Refused ==
  /\ step = "start" /\ UNCHANGED <<repo, disk>>
  /\ Frame(s', s, {"commit", "status"}) /\ s'.commit \in {s.commit, None}
  /\ s'.status \in {"spec_changed", "base_moved"}
  /\ Moves("end") \/ Moves("replan")

\* ... commits what is in the worktree, ...
Commits ==
  /\ step = "start" /\ step' = "committed" /\ Stays({"committed"}) /\ UNCHANGED disk
  /\ Frame(repo', repo, {"head"}) /\ repo'.head \in {None, repo.wt}

\* ... pushes the head, ...
Published ==
  /\ step = "committed" /\ step' = "pushed" /\ Stays({"pushed"}) /\ UNCHANGED disk
  /\ Frame(repo', repo, {"branch"})
  /\ repo'.branch = IF repo.head = None THEN repo.branch ELSE repo.head

\* ... or files the result, and the state directory may be ahead of the checkpoint.
Files ==
  /\ step = "pushed" /\ UNCHANGED repo
  /\ Frame(disk', disk, {"ledger"}) /\ disk'.ledger \in Ledgers
  /\ \A r \in Req : disk'.ledger[r] = "PASS" <=> s.compliance[r] = "PASS"
  /\ \/ Stays({}) /\ step' = "start"
     \/ /\ Frame(s', s, {"commit", "compliance", "control", "status"})
        /\ s'.commit = repo.head /\ s'.compliance = disk'.ledger
        /\ s'.control \in {s.control, Feedback(s.control, s.task.req)}
        /\ s'.status \in {"pushed", "no_changes"}
        /\ \/ Moves("pause_pr") /\ HasGitHub /\ repo.head # None
           \/ Moves("replan")
           \/ Moves("end")

\* What integrate does.
LEMMA IntegrateEffect ==
  ASSUME TypeInv, Integrate
  PROVE  /\ at = "integrate" /\ UNCHANGED audit
         /\ Refused \/ Commits \/ Published \/ Files
<1>1. at = "integrate" /\ waiting = None /\ outcome = "running" BY DEF Integrate, At
<1>2. at \in Working BY <1>1 DEF Working
<1>3. s.task \in Tasks /\ repo.wt \in Trees BY <1>2 DEF TypeInv, Placed, Candidate
<1>4. /\ DOMAIN s = Keys /\ s.compliance \in Ledgers /\ s.task.req \in Req
      /\ DOMAIN repo = {"wt", "head", "branch", "pr", "upstream", "tracked"}
      /\ DOMAIN disk = {"ledger", "verified", "frozen", "flaky", "spec", "paused", "late"}
  BY <1>3 DEF TypeInv, Typed, Around, Tasks
<1> DEFINE edited == [s EXCEPT !.status = "spec_changed"]
           moved == [s EXCEPT !.commit = None, !.status = "base_moved"]
           ledger == IF s.gates = "fail" THEN s.compliance ELSE LocalPass(s.compliance, s.task.req)
           done == [s EXCEPT
                        !.commit = repo.head, !.compliance = ledger,
                        !.control = IF repo.head # None THEN @ ELSE Feedback(@, s.task.req),
                        !.status = IF repo.head # None THEN "pushed" ELSE "no_changes"]
<1>5. \/ step = "start" /\ UNCHANGED Outside /\ Commit(edited, "end")
      \/ step = "start" /\ UNCHANGED Outside /\ Commit(moved, ReplanOrEnd(moved))
      \/ step = "start" /\ repo' = Committed /\ UNCHANGED <<disk, audit>> /\ Proceed("committed")
      \/ /\ step = "committed"
         /\ repo' = [repo EXCEPT !.branch = IF repo.head = None THEN @ ELSE repo.head]
         /\ UNCHANGED <<disk, audit>> /\ Proceed("pushed")
      \/ /\ step = "pushed" /\ disk' = Filed(ledger) /\ UNCHANGED <<repo, audit>>
         /\ Commit(done, IF done.commit = None THEN ReplanOrEnd(done)
                         ELSE IF HasGitHub THEN "pause_pr" ELSE "end")
  BY DEF Integrate
<1>6. Frame(edited, s, {"commit", "status"}) /\ edited.commit = s.commit /\ edited.status = "spec_changed"
  BY <1>4 DEF Frame, Keys
<1>7. Frame(moved, s, {"commit", "status"}) /\ moved.commit = None /\ moved.status = "base_moved"
  BY <1>4 DEF Frame, Keys
<1>8. ledger \in Ledgers /\ \A r \in Req : ledger[r] = "PASS" <=> s.compliance[r] = "PASS"
  BY <1>4, LocalPassKeeps
<1> HIDE DEF edited, moved, ledger
<1>9. /\ Frame(done, s, {"commit", "compliance", "control", "status"})
      /\ done.commit = repo.head /\ done.compliance = ledger
      /\ done.control \in {s.control, Feedback(s.control, s.task.req)}
      /\ done.status \in {"pushed", "no_changes"}
  BY <1>4 DEF Frame, Keys
<1> HIDE DEF done
<1>10. \A st : ReplanOrEnd(st) \in {"replan", "end"} BY DEF ReplanOrEnd
<1>11. CASE step = "start" /\ UNCHANGED Outside /\ Commit(edited, "end")
  <2>1. s' = edited /\ Moves("end") /\ UNCHANGED <<repo, disk, audit>>
    BY <1>1, <1>11 DEF Commit, Moves, Outside
  <2>2. QED BY <1>1, <1>6, <1>11, <2>1 DEF Refused
<1>12. CASE step = "start" /\ UNCHANGED Outside /\ Commit(moved, ReplanOrEnd(moved))
  <2>1. s' = moved /\ Moves(ReplanOrEnd(moved)) /\ UNCHANGED <<repo, disk, audit>>
    BY <1>1, <1>12 DEF Commit, Moves, Outside
  <2>2. QED BY <1>1, <1>7, <1>10, <1>12, <2>1 DEF Refused
<1>13. CASE step = "start" /\ repo' = Committed /\ UNCHANGED <<disk, audit>> /\ Proceed("committed")
  <2>1. Frame(repo', repo, {"head"}) /\ repo'.head \in {None, repo.wt}
    BY <1>13 DEF Committed, Frame
  <2>2. QED BY <1>1, <1>13, <2>1 DEF Commits, Proceed, Stays
<1>14. CASE /\ step = "committed"
            /\ repo' = [repo EXCEPT !.branch = IF repo.head = None THEN @ ELSE repo.head]
            /\ UNCHANGED <<disk, audit>> /\ Proceed("pushed")
  <2>1. /\ Frame(repo', repo, {"branch"})
        /\ repo'.branch = IF repo.head = None THEN repo.branch ELSE repo.head
    BY <1>4, <1>14 DEF Frame
  <2>2. QED BY <1>1, <1>14, <2>1 DEF Published, Proceed, Stays
<1>15. CASE /\ step = "pushed" /\ disk' = Filed(ledger) /\ UNCHANGED <<repo, audit>>
            /\ Commit(done, IF done.commit = None THEN ReplanOrEnd(done)
                            ELSE IF HasGitHub THEN "pause_pr" ELSE "end")
  <2>1. Frame(disk', disk, {"ledger"}) /\ disk'.ledger = ledger
    BY <1>15 DEF Filed, Frame
  <2>2. PICK next : /\ next = IF done.commit = None THEN ReplanOrEnd(done)
                              ELSE IF HasGitHub THEN "pause_pr" ELSE "end"
                    /\ Commit(done, next)
    BY <1>15
  <2>3. (next = "pause_pr" /\ HasGitHub /\ repo.head # None) \/ next \in {"replan", "end"}
    BY <1>9, <1>10, <2>2
  <2>4. (Stays({}) /\ step' = "start") \/ (s' = done /\ Moves(next))
    BY <1>1, <2>2 DEF Commit, Killed, Stays, Moves
  <2>5. QED BY <1>1, <1>8, <1>9, <1>15, <2>1, <2>3, <2>4 DEF Files
<1>16. QED BY <1>5, <1>11, <1>12, <1>13, <1>14, <1>15

\* What create_pr does.
LEMMA CreatePrEffect ==
  ASSUME TypeInv, CreatePr
  PROVE  /\ at = "pr" /\ step = "start" /\ UNCHANGED audit
         /\ Frame(repo', repo, {"pr"})
         /\ repo'.pr = IF s.pr = None THEN "open" ELSE repo.pr
         /\ Frame(disk', disk, {"late"})
         /\ \/ Stays({})
            \/ /\ Moves("ci_poll") /\ Frame(s', s, {"pr", "status"})
               /\ s'.pr = repo.branch /\ s'.status = "pr_open"
<1> DEFINE ns == [s EXCEPT !.pr = repo.branch, !.status = "pr_open"]
<1>1. Frame(ns, s, {"pr", "status"}) /\ ns.pr = repo.branch /\ ns.status = "pr_open"
  BY DEF TypeInv, Typed, Keys, Frame
<1>2. Frame(repo', repo, {"pr"}) /\ repo'.pr = IF s.pr = None THEN "open" ELSE repo.pr
  BY DEF CreatePr, Frame
<1>3. Frame(disk', disk, {"late"})
  BY DEF CreatePr, Frame
<1>4. at = "pr" /\ UNCHANGED audit /\ (Stays({}) \/ (s' = ns /\ Moves("ci_poll")))
  BY DEF CreatePr, At, Commit, Killed, Stays, Moves
<1>5. step = "start" BY <1>4 DEF TypeInv, Placed
<1> HIDE DEF ns
<1>6. QED BY <1>1, <1>2, <1>3, <1>4, <1>5

\* The keys that observing CI may change.
CiFields == {"ci", "status", "ciHead", "ciStarted", "ciRetries", "ciError"}

\* An observation of CI is recorded with its head.
LEMMA ObservedResult ==
  ASSUME Typed, NEW status \in {"pass", "pending", "fail", "timeout"}, NEW retries, NEW error
  PROVE  /\ Frame(Observed(status, retries, error), s, CiFields)
         /\ Observed(status, retries, error).ci = status
         /\ Observed(status, retries, error).status
              \in {"ci_pass", "ci_pending", "ci_fail", "ci_timeout"}
         /\ Observed(status, retries, error).ciError = None
         /\ Observed(status, retries, error).ciRetries = None
<1>1. CiStatus[status] \in {"ci_pass", "ci_pending", "ci_fail", "ci_timeout"}
  BY DEF CiStatus
<1>2. \A value : /\ Channel("ci_flaky_retry_error", value) = None
                 /\ Channel("ci_flaky_retries", value) = None
  BY DEF Channel, Undeclared
<1>3. QED BY <1>1, <1>2 DEF Observed, Typed, Keys, Frame, CiFields

\* What an observation of CI does.
LEMMA CiPollEffect ==
  ASSUME TypeInv, CiPoll
  PROVE  /\ at = "ci_poll" /\ step = "start" /\ UNCHANGED repo
         /\ Frame(disk', disk, {"flaky"}) /\ Frame(audit', audit, {"ci"})
         /\ disk'.flaky # None => disk'.flaky.count \in Nat
         /\ \/ Stays({})
            \/ /\ Frame(s', s, CiFields) /\ s'.ciRetries = None
               /\ s'.status \in {"ci_pass", "ci_pending", "ci_fail", "ci_timeout"}
               /\ \/ Moves("ci_wait") \/ Moves("end") \/ Moves("replan")
                  \/ /\ Moves("pause_merge")
                     /\ audit'.ci = [report |-> "pass", head |-> s.pr]
                  \/ Moves("pause_repair") /\ s.repairs < MaxRepairs
                  \/ Moves("human") /\ s.repairs >= MaxRepairs /\ s.replans >= MaxReplans
<1>1. at = "ci_poll" /\ waiting = None /\ outcome = "running" /\ UNCHANGED repo
  BY DEF CiPoll, At
<1>2. step = "start" BY <1>1 DEF TypeInv, Placed
<1>3. Counted = 0 /\ Reserved \in Nat /\ Retries \in Nat
  BY DEF Counted, Reserved, Retries, TypeInv, Typed, Around
<1>4. PICK report \in Reports :
       /\ audit' = [audit EXCEPT !.ci = [report |-> report, head |-> s.pr]]
       /\ CASE report = "pass" -> UNCHANGED disk /\ Poll(Observed("pass", Retries, None))
            [] report = "pending" ->
                 /\ UNCHANGED disk
                 /\ Poll(Observed(IF TimedOut THEN "timeout" ELSE "pending",
                                  Retries, None))
            [] report \in {"fail", "flaky"} /\ TimedOut ->
                 UNCHANGED disk /\ Poll(Observed("fail", Retries, None))
            [] report \in {"fail", "flaky"} /\ ~TimedOut /\ Reserved > Counted ->
                 UNCHANGED disk /\ Poll(Observed("pending", Retries, None))
            [] report \in {"fail", "flaky"} /\ ~TimedOut /\ Reserved <= Counted ->
                 IF Rerunnable(report)
                 THEN /\ disk' = [disk EXCEPT !.flaky =
                                    [head |-> s.pr, count |-> Retries + 1]]
                      /\ \/ Poll(Observed("pending", Retries + 1, None))
                         \/ Poll(Observed("fail", Retries + 1, "GitHubError"))
                 ELSE UNCHANGED disk /\ Poll(Observed("fail", Retries, None))
  BY DEF CiPoll
<1>5. PICK status \in {"pass", "pending", "fail", "timeout"} :
        \E retries, error :
          /\ Poll(Observed(status, retries, error))
          /\ status = "pass" => report = "pass"
          /\ disk' = disk \/ disk' = [disk EXCEPT !.flaky = [head |-> s.pr, count |-> Retries + 1]]
  <2>1. CASE report = "pass" BY <1>4, <2>1
  <2>2. CASE report = "pending" BY <1>4, <2>2
  <2>3. CASE report \in {"fail", "flaky"}
    <3>1. Reserved > Counted \/ Reserved <= Counted BY <1>3
    <3>2. CASE TimedOut BY <1>4, <2>3, <3>2
    <3>3. CASE ~TimedOut /\ Reserved > Counted BY <1>4, <2>3, <3>3
    <3>4. CASE ~TimedOut /\ Reserved <= Counted /\ Rerunnable(report)
      BY <1>4, <2>3, <3>4
    <3>5. CASE ~TimedOut /\ Reserved <= Counted /\ ~Rerunnable(report)
      BY <1>4, <2>3, <3>5
    <3>6. QED BY <3>1, <3>2, <3>3, <3>4, <3>5
  <2>4. QED BY <2>1, <2>2, <2>3 DEF Reports
<1>20. PICK ns :
        /\ Poll(ns) /\ Frame(ns, s, CiFields) /\ ns.ci = status /\ ns.ciError = None
        /\ ns.status \in {"ci_pass", "ci_pending", "ci_fail", "ci_timeout"}
        /\ ns.ciRetries = None
        /\ status = "pass" => report = "pass"
  BY <1>5, ObservedResult DEF TypeInv
<1>6. /\ Frame(disk', disk, {"flaky"}) /\ Frame(audit', audit, {"ci"})
      /\ audit'.ci = [report |-> report, head |-> s.pr]
      /\ disk'.flaky # None => disk'.flaky.count \in Nat
  <2>1. /\ DOMAIN disk = {"ledger", "verified", "frozen", "flaky", "spec", "paused", "late"}
        /\ DOMAIN audit = {"gated", "reviewed", "cleared", "ci", "earned", "merged", "answers"}
        /\ disk.flaky # None => disk.flaky.count \in Nat
    BY DEF TypeInv, Around
  <2>2. disk' = disk \/ disk' = [disk EXCEPT !.flaky = [head |-> s.pr, count |-> Retries + 1]]
    BY <1>5
  <2>3. QED BY <1>3, <1>4, <2>1, <2>2 DEF Frame
<1>7. DOMAIN s = Keys /\ s.repairs \in Nat /\ s.replans \in Nat BY DEF TypeInv, Typed
<1>8. ns.repairs = s.repairs /\ ns.replans = s.replans BY <1>20, <1>7 DEF Frame, Keys, CiFields
<1>9. \/ AfterCi(ns) \in {"ci_wait", "end", "replan"}
      \/ AfterCi(ns) = "pause_merge" /\ status = "pass"
      \/ AfterCi(ns) = "pause_repair" /\ s.repairs < MaxRepairs
      \/ AfterCi(ns) = "human" /\ s.repairs >= MaxRepairs /\ s.replans >= MaxReplans
  <2>1. \/ AfterFailure(ns) = "pause_repair" /\ ns.repairs < MaxRepairs
        \/ AfterFailure(ns) = "replan"
        \/ AfterFailure(ns) = "human" /\ ns.repairs >= MaxRepairs /\ ns.replans >= MaxReplans
    BY <1>7, <1>8, FailureRouted
  <2>2. QED BY <1>20, <1>8, <2>1 DEF AfterCi
<1>10. Stays({}) \/ (s' = ns /\ Moves(AfterCi(ns)))
  BY <1>1, <1>20 DEF Poll, Commit, Killed, Stays, Moves
<1>11. QED BY <1>1, <1>2, <1>6, <1>9, <1>10, <1>20

\* merge takes the pull request; cleans up; files the result.
Takes ==
  /\ step = "start" /\ step' = "merged" /\ Stays({"merged"}) /\ UNCHANGED disk
  /\ Frame(repo', repo, {"pr", "upstream"}) /\ repo'.pr = "merged" /\ repo'.upstream \in Nat
  /\ Frame(audit', audit, {"earned", "merged"})
  /\ audit'.earned = audit.earned \cup {s.task.req}
  /\ audit'.merged = audit.merged \cup {s.task.req}

\* ... cleans up, ...
Cleans ==
  /\ step = "merged" /\ step' = "cleaned" /\ Stays({"cleaned"}) /\ UNCHANGED <<disk, audit>>
  /\ Frame(repo', repo, {"branch", "wt", "head"})
  /\ repo'.branch = None /\ repo'.wt = None /\ repo'.head = None

\* ... or files the result.
Accounts ==
  /\ step = "cleaned" /\ UNCHANGED <<repo, audit>>
  /\ Frame(disk', disk, {"ledger"}) /\ disk'.ledger \in Ledgers
  /\ disk'.ledger[s.task.req] = "PASS"
  /\ \A r \in Req \ {s.task.req} : disk'.ledger[r] = s.compliance[r]
  /\ \/ Stays({}) /\ step' = "start"
     \/ /\ Moves("refresh") /\ Frame(s', s, {"compliance", "status"})
        /\ s'.compliance = disk'.ledger /\ s'.status = "merged"

\* What merge_pr does.
LEMMA MergeEffect ==
  ASSUME TypeInv, Merge
  PROVE  at = "merge" /\ (Takes \/ Cleans \/ Accounts)
<1>1. at = "merge" /\ waiting = None /\ outcome = "running" BY DEF Merge, At
<1>2. s.task \in Tasks BY <1>1 DEF TypeInv, Placed
<1>3. /\ DOMAIN s = Keys /\ s.compliance \in Ledgers /\ s.task.req \in Req
      /\ DOMAIN repo = {"wt", "head", "branch", "pr", "upstream", "tracked"}
      /\ repo.upstream \in Nat
      /\ DOMAIN disk = {"ledger", "verified", "frozen", "flaky", "spec", "paused", "late"}
      /\ DOMAIN audit = {"gated", "reviewed", "cleared", "ci", "earned", "merged", "answers"}
  BY <1>2 DEF TypeInv, Typed, Around, Tasks
<1> DEFINE ledger == RemotePass(s.compliance, s.task.req)
           ns == [s EXCEPT !.compliance = ledger, !.status = "merged"]
<1>4. /\ ledger \in Ledgers /\ ledger[s.task.req] = "PASS"
      /\ \A r \in Req \ {s.task.req} : ledger[r] = s.compliance[r]
  BY <1>3, RemotePassAdds
<1>5. \/ /\ step = "start"
         /\ repo' = [repo EXCEPT !.pr = "merged",
                                !.upstream = IF repo.pr = "merged" THEN @ ELSE @ + 1]
         /\ audit' = [audit EXCEPT !.earned = @ \cup {s.task.req},
                                   !.merged = @ \cup {s.task.req}]
         /\ UNCHANGED disk /\ Proceed("merged")
      \/ /\ step = "merged"
         /\ repo' = [repo EXCEPT !.branch = None, !.wt = None, !.head = None]
         /\ UNCHANGED <<disk, audit>> /\ Proceed("cleaned")
      \/ /\ step = "cleaned" /\ disk' = Filed(ledger) /\ UNCHANGED <<repo, audit>>
         /\ Commit(ns, "refresh")
  BY DEF Merge
<1> HIDE DEF ledger
<1>6. Frame(ns, s, {"compliance", "status"}) /\ ns.compliance = ledger /\ ns.status = "merged"
  BY <1>3 DEF Frame, Keys
<1> HIDE DEF ns
<1>7. CASE /\ step = "start"
           /\ repo' = [repo EXCEPT !.pr = "merged",
                                !.upstream = IF repo.pr = "merged" THEN @ ELSE @ + 1]
           /\ audit' = [audit EXCEPT !.earned = @ \cup {s.task.req},
                                     !.merged = @ \cup {s.task.req}]
           /\ UNCHANGED disk /\ Proceed("merged")
  <2>1. Frame(repo', repo, {"pr", "upstream"}) /\ repo'.pr = "merged" /\ repo'.upstream \in Nat
    <3>1. PICK count \in Nat : count = IF repo.pr = "merged" THEN repo.upstream ELSE repo.upstream + 1
      BY <1>3
    <3>2. repo' = [repo EXCEPT !.pr = "merged", !.upstream = count] BY <1>7, <3>1
    <3>3. QED BY <1>3, <3>2 DEF Frame
  <2>2. /\ Frame(audit', audit, {"earned", "merged"})
        /\ audit'.earned = audit.earned \cup {s.task.req}
        /\ audit'.merged = audit.merged \cup {s.task.req}
    BY <1>3, <1>7 DEF Frame
  <2>3. QED BY <1>1, <1>7, <2>1, <2>2 DEF Takes, Proceed, Stays
<1>8. CASE /\ step = "merged"
           /\ repo' = [repo EXCEPT !.branch = None, !.wt = None, !.head = None]
           /\ UNCHANGED <<disk, audit>> /\ Proceed("cleaned")
  <2>1. /\ Frame(repo', repo, {"branch", "wt", "head"})
        /\ repo'.branch = None /\ repo'.wt = None /\ repo'.head = None
    BY <1>3, <1>8 DEF Frame
  <2>2. QED BY <1>1, <1>8, <2>1 DEF Cleans, Proceed, Stays
<1>9. CASE /\ step = "cleaned" /\ disk' = Filed(ledger) /\ UNCHANGED <<repo, audit>>
           /\ Commit(ns, "refresh")
  <2>1. Frame(disk', disk, {"ledger"}) /\ disk'.ledger = ledger
    BY <1>9 DEF Filed, Frame
  <2>2. (Stays({}) /\ step' = "start") \/ (s' = ns /\ Moves("refresh"))
    BY <1>1, <1>9 DEF Commit, Killed, Stays, Moves
  <2>3. QED BY <1>1, <1>4, <1>6, <1>9, <2>1, <2>2 DEF Accounts
<1>10. QED BY <1>5, <1>7, <1>8, <1>9

\* The keys that refresh may change.
RefreshFields == CandidateFields \cup {"replans", "tddReplans", "retries", "status"}

\* What refresh_from_main does.
LEMMA RefreshEffect ==
  ASSUME TypeInv, Refresh
  PROVE  /\ at = "refresh" /\ step = "start" /\ UNCHANGED <<disk, audit>>
         /\ Frame(repo', repo, {"tracked"}) /\ repo'.tracked = repo.upstream
         /\ \/ Stays({})
            \/ /\ Frame(s', s, RefreshFields) /\ Blank(s')
               /\ s'.task = None /\ s'.risks = {}
               /\ s'.replans = 0 /\ s'.tddReplans = 0 /\ s'.retries = 0
               /\ \/ /\ Moves("end") /\ s'.status = "converged"
                     /\ \A r \in Req : s.compliance[r] = "PASS"
                  \/ Moves("human") /\ s'.status = "iteration_budget_exhausted"
                  \/ Moves("guard_plan") /\ s'.status = "ready_next_iteration"
<1>1. at = "refresh" /\ waiting = None /\ outcome = "running" /\ UNCHANGED <<disk, audit>>
  BY DEF Refresh, At
<1>2. step = "start" BY <1>1 DEF TypeInv, Placed
<1>3. Frame(repo', repo, {"tracked"}) /\ repo'.tracked = repo.upstream
  BY DEF Refresh, Frame
<1>4. DOMAIN s = Keys BY DEF TypeInv, Typed
<1> DEFINE bare == WithoutCandidate(s)
           status == IF \A r \in Req : s.compliance[r] = "PASS" THEN "converged"
                     ELSE IF s.iteration >= MaxIterations
                          THEN "iteration_budget_exhausted" ELSE "ready_next_iteration"
           ns == [bare EXCEPT !.replans = 0, !.tddReplans = 0, !.retries = 0, !.status = status]
<1>5. Frame(bare, s, CandidateFields) /\ Blank(bare) /\ bare.task = None /\ bare.risks = {}
  BY <1>4, WithoutCandidateBlank
<1>6. Commit(ns, CASE ns.status = "ready_next_iteration" -> "guard_plan"
                   [] ns.status = "iteration_budget_exhausted" -> "human"
                   [] ns.status = "converged" -> "end")
  BY DEF Refresh
<1>7. /\ status \in {"converged", "iteration_budget_exhausted", "ready_next_iteration"}
      /\ status = "converged" => \A r \in Req : s.compliance[r] = "PASS"
  OBVIOUS
<1> HIDE DEF bare, status
<1>8. DOMAIN bare = Keys BY <1>4, <1>5 DEF Frame
<1>9. /\ Frame(ns, bare, {"replans", "tddReplans", "retries", "status"})
      /\ ns.replans = 0 /\ ns.tddReplans = 0 /\ ns.retries = 0 /\ ns.status = status
  BY <1>8 DEF Frame, Keys
<1> HIDE DEF ns
<1>10. Frame(ns, s, RefreshFields) BY <1>5, <1>9 DEF Frame, RefreshFields
<1>11. Blank(ns) /\ ns.task = None /\ ns.risks = {}
  BY <1>5, <1>8, <1>9 DEF Blank, Frame, Keys
<1>12. \/ Stays({})
       \/ /\ s' = ns
          /\ \/ Moves("end") /\ status = "converged"
             \/ Moves("human") /\ status = "iteration_budget_exhausted"
             \/ Moves("guard_plan") /\ status = "ready_next_iteration"
  BY <1>1, <1>6, <1>7, <1>9 DEF Commit, Killed, Stays, Moves
<1>13. QED BY <1>1, <1>2, <1>3, <1>7, <1>9, <1>10, <1>11, <1>12

\* The values stay what they are.
LEMMA TypedKept ==
  ASSUME TypeInv, [Next]_vars
  PROVE  Typed'
<1>1. CASE World \/ Rest \/ UNCHANGED vars
  BY <1>1, Still DEF TypeInv, Typed
<1>2. CASE Passes
  BY <1>2, Passing DEF Frame, Stays, TypeInv, Typed, Keys, Passed
<1>3. CASE Bootstrap
  BY <1>3, BootstrapEffect DEF Frame, Stays, TypeInv, Typed, Keys, Around
<1>4. CASE Scout
  BY <1>4, ScoutEffect DEF Frame, Stays, TypeInv, Typed, Keys
<1>5. CASE Plan
  BY <1>5, PlanEffect DEF Frame, Stays, TypeInv, Typed, Keys, PlanResult, PlanFields
<1>6. CASE PlannerHuman
  <2>1. \A control \in OrNone([target : OrNone(Req), attempts : {0}, recoveries : {0}]) :
          control \in OrNone(Controls)
    BY DEF OrNone, Controls, MaxPlanAttempts, MaxProviderRecoveries
  <2>2. QED
    BY <1>6, <2>1, PlannerHumanEffect DEF Frame, Stays, TypeInv, Typed, Keys
<1>7. CASE PrepareWorktree
  <2>1. Stays({}) \/ (Frame(s', s, {"branch", "status"}) /\ s'.branch = TRUE)
    BY <1>7, PrepareWorktreeEffect
  <2>2. QED BY <2>1 DEF Frame, Stays, TypeInv, Typed, Keys
<1>8. CASE TddBaseline
  <2>1. s.task \in Tasks /\ s.control \in OrNone(Controls)
    BY <1>8, TddBaselineEffect DEF TypeInv, Typed, Placed, Candidate, Working
  <2>2. Feedback(s.control, s.task.req) \in OrNone(Controls)
    BY <2>1, FeedbackKeeps DEF Tasks, OrNone
  <2>3. QED
    BY <1>8, <2>2, TddBaselineEffect DEF Frame, Stays, TypeInv, Typed, Keys
<1>9. CASE TddRedBuild
  BY <1>9, TddRedBuildEffect DEF Frame, Stays, TypeInv, Typed, Keys
<1>10. CASE TddRedGate
  <2>1. s.task \in Tasks /\ s.control \in OrNone(Controls)
    BY <1>10, TddRedGateEffect DEF TypeInv, Typed, Placed, Candidate, Working
  <2>2. Feedback(s.control, s.task.req) \in OrNone(Controls)
    BY <2>1, FeedbackKeeps DEF Tasks, OrNone
  <2>3. QED
    BY <1>10, <2>2, TddRedGateEffect DEF Frame, Stays, TypeInv, Typed, Keys
<1>11. CASE SnapshotFrozenRed
  BY <1>11, SnapshotEffect DEF Frame, Stays, TypeInv, Typed, Keys
<1>12. CASE TddHuman
  BY <1>12, TddHumanEffect DEF Frame, Stays, TypeInv, Typed, Keys
<1>13. CASE Build
  BY <1>13, BuildEffect DEF Frame, Stays, TypeInv, Typed, Keys
<1>14. CASE Repair
  BY <1>14, RepairEffect DEF Frame, Stays, TypeInv, Typed, Keys
<1>15. CASE Quality
  BY <1>15, QualityEffect DEF Frame, Stays, TypeInv, Typed, Keys
<1>16. CASE Review
  <2>1. Stays({}) \/ \E verdict : ReviewResult(s', verdict) BY <1>16, ReviewEffect
  <2>2. StillApproved \in SUBSET Flags /\ repo.wt \in OrNone(Trees)
    BY DEF StillApproved, TypeInv, Typed, Around
  <2>3. CASE Stays({}) BY <2>3 DEF Stays, TypeInv, Typed
  <2>4. ASSUME NEW verdict, ReviewResult(s', verdict) PROVE Typed'
    BY <2>2, <2>4 DEF ReviewResult, ReviewFields, Frame, TypeInv, Typed, Keys
  <2>5. QED BY <2>1, <2>3, <2>4
<1>17. CASE ReviewerRecovery
  BY <1>17, ReviewerRecoveryEffect DEF Frame, Stays, TypeInv, Typed, Keys
<1>18. CASE Replan
  BY <1>18, ReplanEffect DEF Frame, Stays, TypeInv, Typed, Keys, Blank, ReplanFields,
       CandidateFields, OrNone
<1>19. CASE Human
  <2>1. Stays({}) \/ Stopped \/ Approved \/ Continued \/ Renewed \/ Replaced
    BY <1>19, HumanEffect
  <2>2. Stays({}) \/ s'.decisions \in Nat
    BY <1>19, HumanEffect DEF TypeInv, Typed
  <2>3. CASE Stays({}) BY <2>3 DEF Stays, TypeInv, Typed
  <2>4. CASE Stopped BY <2>2, <2>4 DEF Stopped, Stays, Frame, TypeInv, Typed, Keys
  <2>5. CASE Approved BY <2>2, <2>5 DEF Approved, Stays, Frame, TypeInv, Typed, Keys
  <2>6. CASE Continued BY <2>2, <2>6 DEF Continued, Stays, Frame, TypeInv, Typed, Keys
  <2>7. CASE Renewed BY <2>2, <2>7 DEF Renewed, Stays, Frame, TypeInv, Typed, Keys
  <2>8. CASE Replaced
    BY <2>2, <2>8 DEF Replaced, Blank, EditFields, CandidateFields, Stays, Frame, TypeInv,
         Typed, Keys, OrNone
  <2>9. QED BY <2>1, <2>3, <2>4, <2>5, <2>6, <2>7, <2>8
<1>20. CASE Integrate
  <2>1. s.task \in Tasks /\ s.control \in OrNone(Controls)
    BY <1>20, IntegrateEffect DEF TypeInv, Typed, Placed, Candidate, Working
  <2>2. Feedback(s.control, s.task.req) \in OrNone(Controls)
    BY <2>1, FeedbackKeeps DEF Tasks, OrNone
  <2>3. QED
    BY <1>20, <2>2, IntegrateEffect DEF Frame, Stays, TypeInv, Typed, Keys, Around, OrNone,
         Refused, Commits, Published, Files
<1>21. CASE CreatePr
  BY <1>21, CreatePrEffect DEF Frame, Stays, TypeInv, Typed, Keys, Around
<1>22. CASE CiPoll
  BY <1>22, CiPollEffect DEF Frame, Stays, TypeInv, Typed, Keys, CiFields
<1>23. CASE Merge
  BY <1>23, MergeEffect DEF Frame, Stays, TypeInv, Typed, Keys, Takes, Cleans, Accounts
<1>24. CASE Refresh
  BY <1>24, RefreshEffect DEF Frame, Stays, TypeInv, Typed, Keys, Blank, RefreshFields,
       CandidateFields, OrNone
<1>25. QED
  BY <1>1, <1>2, <1>3, <1>4, <1>5, <1>6, <1>7, <1>8, <1>9, <1>10, <1>11, <1>12, <1>13, <1>14,
       <1>15, <1>16, <1>17, <1>18, <1>19, <1>20, <1>21, <1>22, <1>23, <1>24 DEF Next,
       PlanningStep, ReviewingStep, DeliveryStep, Passes, Pauses

\* So do those around the run.
LEMMA AroundKept ==
  ASSUME TypeInv, [Next]_vars
  PROVE  Around'
<1>1. CASE World \/ Rest \/ UNCHANGED vars
  BY <1>1, Still
<1>2. CASE Passes
  BY <1>2, Passing DEF Frame, TypeInv, Around, Passed
<1>3. CASE Bootstrap
  BY <1>3, BootstrapEffect DEF Frame, TypeInv, Around
<1>4. CASE Scout
  BY <1>4, ScoutEffect DEF Frame, TypeInv, Around
<1>5. CASE Plan
  BY <1>5, PlanEffect DEF Frame, TypeInv, Typed, Around
<1>6. CASE PlannerHuman
  BY <1>6, PlannerHumanEffect DEF TypeInv, Around
<1>7. CASE PrepareWorktree
  BY <1>7, PrepareWorktreeEffect DEF Frame, TypeInv, Around, OrNone
<1>8. CASE TddBaseline
  BY <1>8, TddBaselineEffect DEF TypeInv, Around
<1>9. CASE TddRedBuild
  BY <1>9, TddRedBuildEffect DEF Frame, TypeInv, Around, OrNone
<1>10. CASE TddRedGate
  BY <1>10, TddRedGateEffect DEF TypeInv, Around
<1>11. CASE SnapshotFrozenRed
  BY <1>11, SnapshotEffect DEF Frame, TypeInv, Around
<1>12. CASE TddHuman
  BY <1>12, TddHumanEffect DEF TypeInv, Around
<1>13. CASE Build
  BY <1>13, BuildEffect DEF Frame, TypeInv, Around, OrNone
<1>14. CASE Repair
  BY <1>14, RepairEffect DEF Frame, TypeInv, Around, OrNone
<1>15. CASE Quality
  BY <1>15, QualityEffect DEF Frame, TypeInv, Around, OrNone
<1>16. CASE Review
  BY <1>16, ReviewEffect DEF Frame, TypeInv, Around
<1>17. CASE ReviewerRecovery
  BY <1>17, ReviewerRecoveryEffect DEF Frame, TypeInv, Around
<1>18. CASE Replan
  BY <1>18, ReplanEffect DEF Frame, TypeInv, Around, Discards, OrNone, RepoFields
<1>19. CASE Human
  <2>1. CASE UNCHANGED <<repo, disk, audit>> BY <2>1 DEF TypeInv, Around
  <2>2. CASE Discards BY <2>2 DEF Discards, Frame, RepoFields, TypeInv, Around, OrNone
  <2>3. CASE Approved
    BY <2>3 DEF Approved, Frame, TypeInv, Typed, Around
  <2>4. QED BY <1>19, <2>1, <2>2, <2>3, HumanEffect DEF Stopped, Continued, Renewed, Replaced
<1>20. CASE Integrate
  <2>1. repo.wt \in OrNone(Trees) /\ repo.head \in OrNone(Trees) /\ repo.branch \in OrNone(Trees)
    BY DEF TypeInv, Around
  <2>2. CASE Refused BY <1>20, <2>2, IntegrateEffect DEF Refused, TypeInv, Around
  <2>3. CASE Commits
    BY <1>20, <2>3, IntegrateEffect DEF Commits, Frame, TypeInv, Around, OrNone
  <2>4. CASE Published
    BY <1>20, <2>4, IntegrateEffect DEF Published, Frame, TypeInv, Around
  <2>5. CASE Files BY <1>20, <2>5, IntegrateEffect DEF Files, Frame, TypeInv, Around
  <2>6. QED BY <1>20, <2>2, <2>3, <2>4, <2>5, IntegrateEffect
<1>21. CASE CreatePr
  BY <1>21, CreatePrEffect DEF Frame, TypeInv, Around
<1>22. CASE CiPoll
  BY <1>22, CiPollEffect DEF Frame, TypeInv, Around
<1>23. CASE Merge
  <2>1. s.task.req \in Req
    BY <1>23, MergeEffect DEF TypeInv, Placed, Tasks
  <2>2. CASE Takes BY <2>1, <2>2 DEF Takes, Frame, TypeInv, Around
  <2>3. CASE Cleans BY <2>3 DEF Cleans, Frame, TypeInv, Around, OrNone
  <2>4. CASE Accounts BY <2>4 DEF Accounts, Frame, TypeInv, Around
  <2>5. QED BY <1>23, <2>2, <2>3, <2>4, MergeEffect
<1>24. CASE Refresh
  BY <1>24, RefreshEffect DEF Frame, TypeInv, Around
<1>25. QED
  BY <1>1, <1>2, <1>3, <1>4, <1>5, <1>6, <1>7, <1>8, <1>9, <1>10, <1>11, <1>12, <1>13, <1>14,
       <1>15, <1>16, <1>17, <1>18, <1>19, <1>20, <1>21, <1>22, <1>23, <1>24 DEF Next,
       PlanningStep, ReviewingStep, DeliveryStep, Passes, Pauses

\* Every node finds what it relies on.
LEMMA PlacedKept ==
  ASSUME TypeInv, Typed', Around', [Next]_vars
  PROVE  Placed'
<1>1. CASE World \/ Rest \/ UNCHANGED vars
  <2>1. answer = "edit" => answer' = "edit" BY <1>1, Still, Absent DEF TypeInv, Waits, Accepted
  <2>2. Candidate => Candidate' BY <1>1, Still DEF Candidate
  <2>3. /\ at' = at /\ s' = s /\ step' \in {step, "start"} /\ outcome' \in {outcome, "failed"}
    BY <1>1, Still
  <2>4. QED BY <2>1, <2>2, <2>3 DEF TypeInv, Placed
<1>2. CASE Passes
  BY <1>2, Passing DEF Frame, Stays, Moves, TypeInv, Typed, Keys, Passed, Ways, Placed,
       Candidate, Working, Nodes
<1>3. CASE Bootstrap
  BY <1>3, BootstrapEffect DEF Stays, Moves, TypeInv, Placed, Working, Nodes
<1>4. CASE Scout
  BY <1>4, ScoutEffect DEF Stays, Moves, TypeInv, Placed, Working, Nodes
<1>5. CASE Plan
  BY <1>5, PlanEffect DEF Stays, Moves, TypeInv, Typed, PlanResult, AfterPlan, Placed, Working,
       Nodes
<1>6. CASE PlannerHuman
  BY <1>6, PlannerHumanEffect DEF Stays, Moves, TypeInv, Placed, Working, Nodes
<1>7. CASE PrepareWorktree
  BY <1>7, PrepareWorktreeEffect DEF Frame, Stays, Moves, TypeInv, Typed, Keys, OrNone, Placed,
       Candidate, Working, Nodes
<1>8. CASE TddBaseline
  BY <1>8, TddBaselineEffect DEF Frame, Stays, Moves, TypeInv, Typed, Keys, Placed, Candidate,
       Working, Nodes
<1>9. CASE TddRedBuild
  BY <1>9, TddRedBuildEffect DEF Frame, Stays, Moves, TypeInv, Typed, Keys, Placed, Candidate,
       Working, Nodes
<1>10. CASE TddRedGate
  BY <1>10, TddRedGateEffect DEF Frame, Stays, Moves, TypeInv, Typed, Keys, Placed, Candidate,
       Working, Nodes
<1>11. CASE SnapshotFrozenRed
  BY <1>11, SnapshotEffect DEF Frame, Stays, Moves, TypeInv, Typed, Keys, Placed, Candidate,
       Working, Nodes
<1>12. CASE TddHuman
  BY <1>12, TddHumanEffect DEF Stays, Moves, TypeInv, Placed, Candidate, Working, Nodes
<1>13. CASE Build
  BY <1>13, BuildEffect DEF Frame, Stays, Moves, TypeInv, Typed, Keys, Placed, Candidate,
       Working, Nodes
<1>14. CASE Repair
  BY <1>14, RepairEffect DEF Frame, Stays, Moves, TypeInv, Typed, Keys, Placed, Candidate,
       Working, Nodes
<1>15. CASE Quality
  BY <1>15, QualityEffect DEF Frame, Stays, Moves, TypeInv, Typed, Keys, Placed, Candidate,
       Working, Nodes
<1>16. CASE Review
  BY <1>16, ReviewEffect DEF Frame, Stays, Moves, TypeInv, Typed, Keys, ReviewResult,
       ReviewFields, Placed, Candidate, Working, Nodes, Routed
<1>17. CASE ReviewerRecovery
  BY <1>17, ReviewerRecoveryEffect DEF Frame, Stays, Moves, TypeInv, Typed, Keys, Placed,
       Candidate, Working, Nodes, Routed
<1>18. CASE Replan
  BY <1>18, ReplanEffect DEF Stays, Moves, TypeInv, Placed, Working, Nodes
<1>19. CASE Human
  <2>1. at = "human" /\ step = "start" BY <1>19, HumanEffect
  <2>2. CASE Stays({}) /\ UNCHANGED <<repo, disk, audit>>
    BY <2>2 DEF Stays, TypeInv, Placed, Candidate
  <2>3. CASE Stays({}) /\ answer = "edit"
    BY <2>1, <2>3 DEF Stays, TypeInv, Placed, Working
  <2>4. CASE Approved \/ Renewed
    <3>1. Candidate
      BY <2>1, <2>4, Kind DEF Approved, Renewed, TypeInv, Placed
    <3>2. Candidate'
      BY <3>1, <2>4 DEF Approved, Renewed, Candidate, Frame, Typed, Keys
    <3>3. QED BY <3>2, <2>4 DEF Approved, Renewed, Moves, Placed, Nodes
  <2>5. CASE Stopped \/ Continued BY <2>5 DEF Stopped, Continued, Moves, Placed, Nodes, Working
  <2>6. CASE Replaced BY <2>6 DEF Replaced, Moves, Placed, Nodes, Working
  <2>7. QED BY <1>19, <2>2, <2>3, <2>4, <2>5, <2>6, HumanEffect
<1>20. CASE Integrate
  BY <1>20, IntegrateEffect DEF Frame, Stays, Moves, TypeInv, Typed, Keys, Around, Refused,
       Commits, Published, Files, Placed, Candidate, Working, Nodes
<1>21. CASE CreatePr
  BY <1>21, CreatePrEffect DEF Frame, Stays, Moves, TypeInv, Typed, Keys, Around, Placed,
       Candidate, Working, Nodes
<1>22. CASE CiPoll
  BY <1>22, CiPollEffect DEF Frame, Stays, Moves, TypeInv, Typed, Keys, CiFields, Placed,
       Candidate, Working, Nodes
<1>23. CASE Merge
  BY <1>23, MergeEffect DEF Frame, Stays, Moves, TypeInv, Typed, Keys, Takes, Cleans, Accounts,
       Placed, Working, Nodes
<1>24. CASE Refresh
  BY <1>24, RefreshEffect DEF Stays, Moves, TypeInv, Placed, Working, Nodes
<1>25. QED
  BY <1>1, <1>2, <1>3, <1>4, <1>5, <1>6, <1>7, <1>8, <1>9, <1>10, <1>11, <1>12, <1>13, <1>14,
       <1>15, <1>16, <1>17, <1>18, <1>19, <1>20, <1>21, <1>22, <1>23, <1>24 DEF Next,
       PlanningStep, ReviewingStep, DeliveryStep, Passes, Pauses

\* A run that stays, or moves on, waits for no more than its node asks.
LEMMA Waiting ==
  ASSUME TypeInv
  PROVE  /\ \A steps : Stays(steps) => Waits'
         /\ \A next : Moves(next) => Waits'
<1>1. ASSUME NEW steps, Stays(steps) PROVE Waits'
  <2>1. CASE waiting' = waiting BY <1>1, <2>1 DEF Stays, TypeInv, Waits
  <2>2. CASE answer = None /\ waiting' \in Kinds(at)
    BY <1>1, <2>2 DEF Stays, Kinds, Waits, OrNone, HumanInterrupts
  <2>3. QED BY <1>1, <2>1, <2>2 DEF Stays
<1>2. ASSUME NEW next, Moves(next) PROVE Waits'
  BY <1>2 DEF Moves, Waits, OrNone
<1>3. QED BY <1>1, <1>2

\* Nobody asks out of turn.
LEMMA WaitsKept ==
  ASSUME TypeInv, [Next]_vars
  PROVE  Waits'
<1>1. CASE World \/ Rest \/ UNCHANGED vars
  BY <1>1, StillWaits
<1>2. CASE Passes
  BY <1>2, Passing, Waiting DEF Passed
<1>3. CASE Bootstrap
  BY <1>3, BootstrapEffect, Waiting
<1>4. CASE Scout
  BY <1>4, ScoutEffect, Waiting
<1>5. CASE Plan
  BY <1>5, PlanEffect, Waiting DEF TypeInv, Typed
<1>6. CASE PlannerHuman
  BY <1>6, PlannerHumanEffect, Waiting
<1>7. CASE PrepareWorktree
  BY <1>7, PrepareWorktreeEffect, Waiting
<1>8. CASE TddBaseline
  BY <1>8, TddBaselineEffect, Waiting
<1>9. CASE TddRedBuild
  BY <1>9, TddRedBuildEffect, Waiting
<1>10. CASE TddRedGate
  BY <1>10, TddRedGateEffect, Waiting
<1>11. CASE SnapshotFrozenRed
  BY <1>11, SnapshotEffect, Waiting
<1>12. CASE TddHuman
  BY <1>12, TddHumanEffect, Waiting
<1>13. CASE Build
  BY <1>13, BuildEffect, Waiting
<1>14. CASE Repair
  BY <1>14, RepairEffect, Waiting
<1>15. CASE Quality
  BY <1>15, QualityEffect, Waiting
<1>16. CASE Review
  BY <1>16, ReviewEffect, Waiting
<1>17. CASE ReviewerRecovery
  BY <1>17, ReviewerRecoveryEffect, Waiting
<1>18. CASE Replan
  BY <1>18, ReplanEffect, Waiting
<1>19. CASE Human
  BY <1>19, HumanEffect, Waiting DEF Stopped, Approved, Continued, Renewed, Replaced
<1>20. CASE Integrate
  BY <1>20, IntegrateEffect, Waiting DEF Refused, Commits, Published, Files
<1>21. CASE CreatePr
  BY <1>21, CreatePrEffect, Waiting
<1>22. CASE CiPoll
  BY <1>22, CiPollEffect, Waiting
<1>23. CASE Merge
  BY <1>23, MergeEffect, Waiting DEF Takes, Cleans, Accounts
<1>24. CASE Refresh
  BY <1>24, RefreshEffect, Waiting
<1>25. QED
  BY <1>1, <1>2, <1>3, <1>4, <1>5, <1>6, <1>7, <1>8, <1>9, <1>10, <1>11, <1>12, <1>13, <1>14,
       <1>15, <1>16, <1>17, <1>18, <1>19, <1>20, <1>21, <1>22, <1>23, <1>24 DEF Next,
       PlanningStep, ReviewingStep, DeliveryStep, Passes, Pauses

\* The RED test stays frozen.
LEMMA FrozenKept ==
  ASSUME TypeInv, [Next]_vars
  PROVE  Frozen'
<1>1. CASE World \/ Rest \/ UNCHANGED vars
  BY <1>1, Still DEF TypeInv, Frozen
<1>2. CASE Passes
  <2>1. /\ at # "snapshot_frozen_red" /\ at' # "snapshot_frozen_red"
        /\ s'.red = s.red /\ disk'.frozen = disk.frozen
    BY <1>2, Passing DEF Passed, Stays, Moves, Ways, Waypoints, Frame, TypeInv, Typed, Keys,
         Around
  <2>2. QED BY <2>1 DEF TypeInv, Frozen
<1>3. CASE Bootstrap
  BY <1>3, BootstrapEffect DEF Frame, Stays, Moves, TypeInv, Typed, Keys, Around, Frozen
<1>4. CASE Scout
  BY <1>4, ScoutEffect DEF Frame, Stays, Moves, TypeInv, Typed, Keys, Frozen
<1>5. CASE Plan
  BY <1>5, PlanEffect, WorkflowConstants DEF Frame, Stays, Moves, TypeInv, Typed, Around,
       PlanResult, AfterPlan, Frozen, Candidate
<1>6. CASE PlannerHuman
  BY <1>6, PlannerHumanEffect DEF Frame, Stays, Moves, TypeInv, Typed, Keys, Frozen
<1>7. CASE PrepareWorktree
  <2>1. at = "prepare_worktree" /\ at' \in {at, "tdd_baseline"} /\ s'.red = s.red /\ disk' = disk
    BY <1>7, PrepareWorktreeEffect DEF Stays, Moves, Frame, TypeInv, Typed, Keys
  <2>2. QED BY <2>1 DEF TypeInv, Frozen
<1>8. CASE TddBaseline
  BY <1>8, TddBaselineEffect, WorkflowConstants DEF Stays, Moves, TypeInv, Frozen
<1>9. CASE TddRedBuild
  BY <1>9, TddRedBuildEffect DEF Frame, Stays, Moves, TypeInv, Typed, Keys, Frozen
<1>10. CASE TddRedGate
  BY <1>10, TddRedGateEffect, WorkflowConstants DEF Stays, Moves, TypeInv, Frozen
<1>11. CASE SnapshotFrozenRed
  BY <1>11, SnapshotEffect, WorkflowConstants DEF Frame, Stays, TypeInv, Typed, Keys, Frozen
<1>12. CASE TddHuman
  BY <1>12, TddHumanEffect DEF Frame, Stays, Moves, TypeInv, Typed, Keys, Frozen
<1>13. CASE Build
  BY <1>13, BuildEffect DEF Frame, Stays, Moves, TypeInv, Typed, Keys, Frozen
<1>14. CASE Repair
  BY <1>14, RepairEffect DEF Frame, Stays, Moves, TypeInv, Typed, Keys, Frozen
<1>15. CASE Quality
  BY <1>15, QualityEffect DEF Frame, Stays, Moves, TypeInv, Typed, Keys, Frozen
<1>16. CASE Review
  BY <1>16, ReviewEffect DEF Frame, Stays, TypeInv, Typed, Keys, ReviewResult, ReviewFields,
       Frozen, Routed
<1>17. CASE ReviewerRecovery
  BY <1>17, ReviewerRecoveryEffect DEF Frame, Stays, TypeInv, Typed, Keys, Frozen, Routed
<1>18. CASE Replan
  BY <1>18, ReplanEffect DEF Frame, Stays, Moves, TypeInv, Typed, Keys, Discards, ReplanFields,
       CandidateFields, Frozen
<1>19. CASE Human
  BY <1>19, HumanEffect DEF Frame, Stays, Moves, TypeInv, Typed, Keys, Stopped, Approved,
       Continued, Renewed, Replaced, Discards, EditFields, CandidateFields, Frozen
<1>20. CASE Integrate
  BY <1>20, IntegrateEffect DEF Frame, Stays, Moves, TypeInv, Typed, Keys, Around, Refused,
       Commits, Published, Files, Frozen
<1>21. CASE CreatePr
  BY <1>21, CreatePrEffect DEF Frame, Stays, Moves, TypeInv, Typed, Keys, Around, Frozen
<1>22. CASE CiPoll
  BY <1>22, CiPollEffect DEF Frame, Stays, Moves, TypeInv, Typed, Keys, Around, CiFields, Frozen
<1>23. CASE Merge
  BY <1>23, MergeEffect DEF Frame, Stays, Moves, TypeInv, Typed, Keys, Around, Takes, Cleans,
       Accounts, Frozen
<1>24. CASE Refresh
  BY <1>24, RefreshEffect DEF Frame, Stays, Moves, TypeInv, Typed, Keys, RefreshFields,
       CandidateFields, Frozen
<1>25. QED
  BY <1>1, <1>2, <1>3, <1>4, <1>5, <1>6, <1>7, <1>8, <1>9, <1>10, <1>11, <1>12, <1>13, <1>14,
       <1>15, <1>16, <1>17, <1>18, <1>19, <1>20, <1>21, <1>22, <1>23, <1>24 DEF Next,
       PlanningStep, ReviewingStep, DeliveryStep, Passes, Pauses

\* The planner stays within its attempts.
LEMMA AttemptsKept ==
  ASSUME TypeInv, [Next]_vars
  PROVE  Attempts'
<1>1. CASE World \/ Rest \/ UNCHANGED vars
  BY <1>1, Still DEF TypeInv, Attempts
<1>2. CASE Passes
  BY <1>2, Passing DEF Frame, Stays, Moves, TypeInv, Typed, Keys, Passed, Ways, Attempts
<1>3. CASE Bootstrap
  BY <1>3, BootstrapEffect DEF Frame, Stays, TypeInv, Typed, Keys, Attempts
<1>4. CASE Scout
  BY <1>4, ScoutEffect DEF Frame, Stays, TypeInv, Typed, Keys, Attempts
<1>5. CASE Plan
  BY <1>5, PlanEffect DEF Stays, Moves, TypeInv, Typed, PlanResult, AfterPlan, Attempts
<1>6. CASE PlannerHuman
  BY <1>6, PlannerHumanEffect DEF Stays, Moves, OrNone, Attempts
<1>7. CASE PrepareWorktree
  BY <1>7, PrepareWorktreeEffect DEF Frame, Stays, TypeInv, Typed, Keys, OrNone, Placed,
       Attempts, Working, Candidate
<1>8. CASE TddBaseline
  <2>1. s.task \in Tasks /\ s.control \in OrNone(Controls)
    BY <1>8, TddBaselineEffect DEF TypeInv, Typed, Placed, Candidate, Working
  <2>2. Feedback(s.control, s.task.req) # None => Feedback(s.control, s.task.req).attempts =
          IF s.control = None THEN 0 ELSE s.control.attempts
    BY <2>1, FeedbackKeeps DEF Tasks
  <2>3. QED
    BY <1>8, <2>2, TddBaselineEffect DEF Stays, TypeInv, Attempts
<1>9. CASE TddRedBuild
  BY <1>9, TddRedBuildEffect DEF Frame, Stays, TypeInv, Typed, Keys, Attempts
<1>10. CASE TddRedGate
  <2>1. s.task \in Tasks /\ s.control \in OrNone(Controls)
    BY <1>10, TddRedGateEffect DEF TypeInv, Typed, Placed, Candidate, Working
  <2>2. Feedback(s.control, s.task.req) # None => Feedback(s.control, s.task.req).attempts =
          IF s.control = None THEN 0 ELSE s.control.attempts
    BY <2>1, FeedbackKeeps DEF Tasks
  <2>3. QED
    BY <1>10, <2>2, TddRedGateEffect DEF Stays, TypeInv, Attempts
<1>11. CASE SnapshotFrozenRed
  BY <1>11, SnapshotEffect DEF Frame, Stays, TypeInv, Typed, Keys, Attempts
<1>12. CASE TddHuman
  BY <1>12, TddHumanEffect DEF Frame, Stays, TypeInv, Typed, Keys, Attempts
<1>13. CASE Build
  BY <1>13, BuildEffect DEF Frame, Stays, TypeInv, Typed, Keys, Attempts
<1>14. CASE Repair
  BY <1>14, RepairEffect DEF Frame, Stays, TypeInv, Typed, Keys, Attempts
<1>15. CASE Quality
  BY <1>15, QualityEffect DEF Frame, Stays, TypeInv, Typed, Keys, Attempts
<1>16. CASE Review
  BY <1>16, ReviewEffect DEF Frame, Stays, TypeInv, Typed, Keys, ReviewResult, ReviewFields,
       Attempts
<1>17. CASE ReviewerRecovery
  BY <1>17, ReviewerRecoveryEffect DEF Frame, Stays, TypeInv, Typed, Keys, Attempts
<1>18. CASE Replan
  BY <1>18, ReplanEffect DEF Frame, Stays, TypeInv, Typed, Keys, ReplanFields, CandidateFields,
       Attempts
<1>19. CASE Human
  BY <1>19, HumanEffect DEF Frame, Stays, TypeInv, Typed, Keys, Stopped, Approved, Continued,
       Renewed, Replaced, EditFields, CandidateFields, Attempts
<1>20. CASE Integrate
  <2>1. s.task \in Tasks /\ s.control \in OrNone(Controls)
    BY <1>20, IntegrateEffect DEF TypeInv, Typed, Placed, Candidate, Working
  <2>2. Feedback(s.control, s.task.req) # None => Feedback(s.control, s.task.req).attempts =
          IF s.control = None THEN 0 ELSE s.control.attempts
    BY <2>1, FeedbackKeeps DEF Tasks
  <2>3. QED
    BY <1>20, <2>2, IntegrateEffect DEF Frame, Stays, TypeInv, Typed, Keys, Attempts, Refused,
         Commits, Published, Files
<1>21. CASE CreatePr
  BY <1>21, CreatePrEffect DEF Frame, Stays, TypeInv, Typed, Keys, Attempts
<1>22. CASE CiPoll
  BY <1>22, CiPollEffect DEF Frame, Stays, TypeInv, Typed, Keys, CiFields, Attempts
<1>23. CASE Merge
  BY <1>23, MergeEffect DEF Frame, Stays, TypeInv, Typed, Keys, Takes, Cleans, Accounts,
       Attempts
<1>24. CASE Refresh
  BY <1>24, RefreshEffect DEF Frame, Stays, TypeInv, Typed, Keys, RefreshFields,
       CandidateFields, Attempts
<1>25. QED
  BY <1>1, <1>2, <1>3, <1>4, <1>5, <1>6, <1>7, <1>8, <1>9, <1>10, <1>11, <1>12, <1>13, <1>14,
       <1>15, <1>16, <1>17, <1>18, <1>19, <1>20, <1>21, <1>22, <1>23, <1>24 DEF Next,
       PlanningStep, ReviewingStep, DeliveryStep, Passes, Pauses

\* The parts of TypeInv hold each other up.
LEMMA TypeInvKept ==
  ASSUME TypeInv, [Next]_vars
  PROVE  TypeInv'
BY TypedKept, AroundKept, PlacedKept, WaitsKept, FrozenKept, AttemptsKept DEF TypeInv

\* Only a run that is due executes a node.
LEMMA Executes ==
  ASSUME PlanningStep \/ ReviewingStep \/ DeliveryStep
  PROVE  outcome = "running" /\ waiting = None
BY DEF PlanningStep, Bootstrap, GuardPlan, PausePlan, Scout, Plan, PlannerHuman,
     PrepareWorktree, TddBaseline, PauseBuild, TddRedBuild, TddRedGate, SnapshotFrozenRed,
     PauseTddRedRepair, TddHuman, ReviewingStep, Build, Repair, Builder, PauseRepair,
     GuardQuality, Quality, Review, ReviewerRecovery, PauseReviewerRecovery,
     PauseReviewerRecoveryWait, ReviewExecutionFailure, SpecStop, Replan, Human, DeliveryStep,
     PauseIntegrate, Integrate, PausePr, CreatePr, CiPoll, CiWait, PauseMerge, Merge, Refresh,
     Guard, SafePoint, At

\* The budgets are numbers.
LEMMA Bounds ==
  MaxRepairs \in Nat /\ MaxReplans \in Nat /\ MaxReviewRetries \in Nat /\ MaxIterations \in Nat
BY WorkflowConstants

\* No attempt is made beyond its budget.
LEMMA BudgetsKept ==
  ASSUME TypeInv, Budgets, [Next]_vars
  PROVE  Budgets'
<1>1. CASE World \/ Rest \/ UNCHANGED vars
  BY <1>1, Still DEF Budgets
<1>2. CASE Passes
  BY <1>2, Passing, Bounds DEF Frame, Stays, Moves, TypeInv, Typed, Keys, Passed, Ways, Budgets
<1>3. CASE Bootstrap
  BY <1>3, BootstrapEffect DEF Frame, Stays, Moves, TypeInv, Typed, Keys, Budgets
<1>4. CASE Scout
  BY <1>4, ScoutEffect DEF Frame, Stays, Moves, TypeInv, Typed, Keys, Budgets
<1>5. CASE Plan
  BY <1>5, PlanEffect, Bounds DEF Frame, Stays, Moves, TypeInv, Typed, Keys, PlanResult,
       PlanFields, AfterPlan, Budgets
<1>6. CASE PlannerHuman
  BY <1>6, PlannerHumanEffect, Bounds DEF Frame, Stays, Moves, TypeInv, Typed, Keys, Budgets
<1>7. CASE PrepareWorktree
  BY <1>7, PrepareWorktreeEffect DEF Frame, Stays, Moves, TypeInv, Typed, Keys, Budgets, Placed
<1>8. CASE TddBaseline
  BY <1>8, TddBaselineEffect, Bounds DEF Frame, Stays, Moves, TypeInv, Typed, Keys, Budgets
<1>9. CASE TddRedBuild
  BY <1>9, TddRedBuildEffect, Bounds DEF Frame, Stays, Moves, TypeInv, Typed, Keys, Budgets
<1>10. CASE TddRedGate
  BY <1>10, TddRedGateEffect DEF Frame, Stays, Moves, TypeInv, Typed, Keys, Budgets
<1>11. CASE SnapshotFrozenRed
  BY <1>11, SnapshotEffect, Bounds DEF Frame, Stays, Moves, TypeInv, Typed, Keys, Budgets
<1>12. CASE TddHuman
  BY <1>12, TddHumanEffect, Bounds DEF Frame, Stays, Moves, TypeInv, Typed, Keys, Budgets
<1>13. CASE Build
  BY <1>13, BuildEffect DEF Frame, Stays, Moves, TypeInv, Typed, Keys, Budgets
<1>14. CASE Repair
  BY <1>14, RepairEffect, Bounds DEF Frame, Stays, Moves, TypeInv, Typed, Keys, Budgets
<1>15. CASE Quality
  BY <1>15, QualityEffect DEF Frame, Stays, Moves, TypeInv, Typed, Keys, Budgets
<1>16. CASE Review
  <2>1. CASE Stays({})
    BY <2>1 DEF Stays, Budgets
  <2>2. ASSUME NEW verdict, ReviewResult(s', verdict), Moves(at'), Routed(s', at') PROVE Budgets'
    <3>1. /\ s'.iteration = s.iteration /\ s'.repairs = s.repairs
          /\ s'.tddReplans = s.tddReplans /\ s'.redAttempts = s.redAttempts
      BY <2>2 DEF ReviewResult, ReviewFields, Frame, TypeInv, Typed, Keys
    <3>2. s.retries = 0 BY <1>16, ReviewEffect DEF Budgets
    <3>3. s'.status \in {"risk_blocked", "reviewed", "review_transport_failure"}
      BY <2>2 DEF ReviewResult
    <3>4. s'.retries = 0 \/ (s'.retries = 1 /\ s'.status = "review_transport_failure")
      BY <2>2, <3>2 DEF ReviewResult
    <3>5. s'.retries # 0 => at' \in Recovering
      BY <2>2, <3>4 DEF Routed, Outages, Recovering
    <3>6. QED BY <2>2, <3>1, <3>3, <3>4, <3>5, Bounds DEF Budgets, Routed, Recovering
  <2>3. QED BY <1>16, <2>1, <2>2, ReviewEffect
<1>17. CASE ReviewerRecovery
  <2>1. CASE Stays({})
    BY <2>1 DEF Stays, Budgets
  <2>2. CASE ~Stays({})
    <3>1. /\ s'.iteration = s.iteration /\ s'.repairs = s.repairs
          /\ s'.tddReplans = s.tddReplans /\ s'.redAttempts = s.redAttempts
      BY <1>17, <2>2, ReviewerRecoveryEffect DEF Frame, TypeInv, Typed, Keys
    <3>2. /\ Routed(s', at')
          /\ \/ s'.status = "reviewed" /\ s'.retries = 0
             \/ /\ s'.status \in {"reviewer_recovery_wait", "review_execution_failed"}
                /\ s'.retries = s.retries
      BY <1>17, <2>2, ReviewerRecoveryEffect
    <3>3. s'.retries # 0 => at' \in Recovering
      BY <3>2 DEF Routed, Outages, Recovering
    <3>4. QED BY <3>1, <3>2, <3>3, Bounds DEF Budgets, Routed, Recovering
  <2>3. QED BY <2>1, <2>2
<1>18. CASE Replan
  BY <1>18, ReplanEffect, Bounds DEF Frame, Stays, Moves, TypeInv, Typed, Keys, Blank,
       ReplanFields, CandidateFields, TddFailures, Budgets
<1>19. CASE Human
  BY <1>19, HumanEffect, Bounds DEF Frame, Stays, Moves, TypeInv, Typed, Keys, Stopped,
       Approved, Continued, Renewed, Replaced, Blank, EditFields, CandidateFields, Budgets
<1>20. CASE Integrate
  BY <1>20, IntegrateEffect DEF Frame, Stays, Moves, TypeInv, Typed, Keys, Refused, Commits,
       Published, Files, Budgets
<1>21. CASE CreatePr
  BY <1>21, CreatePrEffect DEF Frame, Stays, Moves, TypeInv, Typed, Keys, Budgets
<1>22. CASE CiPoll
  BY <1>22, CiPollEffect DEF Frame, Stays, Moves, TypeInv, Typed, Keys, CiFields, Budgets
<1>23. CASE Merge
  BY <1>23, MergeEffect DEF Frame, Stays, Moves, TypeInv, Typed, Keys, Takes, Cleans, Accounts,
       Budgets
<1>24. CASE Refresh
  BY <1>24, RefreshEffect, Bounds DEF Frame, Stays, Moves, TypeInv, Typed, Keys, Blank,
       RefreshFields, CandidateFields, Budgets
<1>25. QED
  BY <1>1, <1>2, <1>3, <1>4, <1>5, <1>6, <1>7, <1>8, <1>9, <1>10, <1>11, <1>12, <1>13, <1>14,
       <1>15, <1>16, <1>17, <1>18, <1>19, <1>20, <1>21, <1>22, <1>23, <1>24 DEF Next,
       PlanningStep, ReviewingStep, DeliveryStep, Passes, Pauses

\* No outage leaks into the judgement of a candidate.
LEMMA OutagedKept ==
  ASSUME TypeInv, Outaged, [Next]_vars
  PROVE  Outaged'
<1>1. CASE World \/ Rest \/ UNCHANGED vars
  BY <1>1, Still DEF Outaged
<1>2. CASE Passes
  BY <1>2, Passing DEF Stays, Passed, Ways, Outaged, Outages, Recovering
<1>3. CASE Bootstrap
  BY <1>3, BootstrapEffect DEF Stays, Outaged, Outages
<1>4. CASE Scout
  BY <1>4, ScoutEffect DEF Stays, Outaged, Outages
<1>5. CASE Plan
  BY <1>5, PlanEffect DEF Stays, TypeInv, Typed, PlanResult, Outaged, Outages
<1>6. CASE PlannerHuman
  BY <1>6, PlannerHumanEffect DEF Stays, Outaged, Outages
<1>7. CASE PrepareWorktree
  BY <1>7, PrepareWorktreeEffect DEF Stays, Outaged, Outages
<1>8. CASE TddBaseline
  BY <1>8, TddBaselineEffect DEF Stays, Outaged, Outages
<1>9. CASE TddRedBuild
  BY <1>9, TddRedBuildEffect DEF Stays, Outaged, Outages
<1>10. CASE TddRedGate
  BY <1>10, TddRedGateEffect DEF Stays, Outaged, Outages
<1>11. CASE SnapshotFrozenRed
  BY <1>11, SnapshotEffect DEF Stays, Outaged, Outages, Recovering
<1>12. CASE TddHuman
  BY <1>12, TddHumanEffect DEF Stays, Outaged, Outages
<1>13. CASE Build
  BY <1>13, BuildEffect DEF Stays, Outaged, Outages
<1>14. CASE Repair
  BY <1>14, RepairEffect DEF Stays, Outaged, Outages
<1>15. CASE Quality
  BY <1>15, QualityEffect DEF Stays, Outaged, Outages
<1>16. CASE Review
  BY <1>16, ReviewEffect DEF Stays, Outaged, Recovering, Routed
<1>17. CASE ReviewerRecovery
  BY <1>17, ReviewerRecoveryEffect DEF Stays, Outaged, Recovering, Routed
<1>18. CASE Replan
  BY <1>18, ReplanEffect DEF Stays, Outaged, Outages
<1>19. CASE Human
  BY <1>19, HumanEffect DEF Stays, Stopped, Approved, Continued, Renewed, Replaced, Outaged,
       Outages
<1>20. CASE Integrate
  BY <1>20, IntegrateEffect DEF Stays, Refused, Commits, Published, Files, Outaged, Outages
<1>21. CASE CreatePr
  BY <1>21, CreatePrEffect DEF Stays, Outaged, Outages
<1>22. CASE CiPoll
  BY <1>22, CiPollEffect DEF Stays, Outaged, Outages
<1>23. CASE Merge
  BY <1>23, MergeEffect DEF Stays, Takes, Cleans, Accounts, Outaged, Outages
<1>24. CASE Refresh
  BY <1>24, RefreshEffect DEF Stays, Outaged, Outages
<1>25. QED
  BY <1>1, <1>2, <1>3, <1>4, <1>5, <1>6, <1>7, <1>8, <1>9, <1>10, <1>11, <1>12, <1>13, <1>14,
       <1>15, <1>16, <1>17, <1>18, <1>19, <1>20, <1>21, <1>22, <1>23, <1>24 DEF Next,
       PlanningStep, ReviewingStep, DeliveryStep, Passes, Pauses

\* Nothing passes without evidence.
LEMMA EarnedKept ==
  ASSUME TypeInv, TypeInv', Earned, [Next]_vars
  PROVE  Earned'
<1>1. CASE World \/ Rest \/ UNCHANGED vars
  BY <1>1, Still DEF Earned
<1>2. CASE Passes
  BY <1>2, Passing DEF Frame, Stays, Moves, TypeInv, Typed, Keys, Around, Passed, Waypoints,
       Earned
<1>3. CASE Bootstrap
  BY <1>3, BootstrapEffect DEF Stays, Moves, Earned
<1>4. CASE Scout
  BY <1>4, ScoutEffect DEF Frame, Stays, Moves, TypeInv, Typed, Keys, Earned
<1>5. CASE Plan
  BY <1>5, PlanEffect DEF Stays, Moves, TypeInv, Typed, PlanResult, Earned
<1>6. CASE PlannerHuman
  BY <1>6, PlannerHumanEffect DEF Frame, Stays, Moves, TypeInv, Typed, Keys, Earned
<1>7. CASE PrepareWorktree
  <2>1. /\ at = "prepare_worktree" /\ step = "start" /\ step' = "start" /\ disk' = disk
        /\ s'.compliance = s.compliance /\ s'.task = s.task /\ audit'.earned = audit.earned
    BY <1>7, PrepareWorktreeEffect DEF Stays, Moves, Frame, TypeInv, Typed, Keys, Around
  <2>2. QED BY <2>1 DEF Earned
<1>8. CASE TddBaseline
  BY <1>8, TddBaselineEffect DEF Frame, Stays, Moves, TypeInv, Typed, Keys, Earned
<1>9. CASE TddRedBuild
  BY <1>9, TddRedBuildEffect DEF Frame, Stays, Moves, TypeInv, Typed, Keys, Earned
<1>10. CASE TddRedGate
  BY <1>10, TddRedGateEffect DEF Frame, Stays, Moves, TypeInv, Typed, Keys, Earned
<1>11. CASE SnapshotFrozenRed
  BY <1>11, SnapshotEffect DEF Frame, Stays, Moves, TypeInv, Typed, Keys, Around, Earned
<1>12. CASE TddHuman
  BY <1>12, TddHumanEffect DEF Frame, Stays, Moves, TypeInv, Typed, Keys, Earned
<1>13. CASE Build
  BY <1>13, BuildEffect DEF Frame, Stays, Moves, TypeInv, Typed, Keys, Earned
<1>14. CASE Repair
  BY <1>14, RepairEffect DEF Frame, Stays, Moves, TypeInv, Typed, Keys, Earned
<1>15. CASE Quality
  BY <1>15, QualityEffect DEF Frame, Stays, Moves, TypeInv, Typed, Keys, Around, Earned
<1>16. CASE Review
  BY <1>16, ReviewEffect DEF Frame, Stays, Moves, TypeInv, Typed, Keys, Around, ReviewResult,
       ReviewFields, Earned
<1>17. CASE ReviewerRecovery
  BY <1>17, ReviewerRecoveryEffect DEF Frame, Stays, Moves, TypeInv, Typed, Keys, Around, Earned
<1>18. CASE Replan
  BY <1>18, ReplanEffect DEF Frame, Stays, Moves, TypeInv, Typed, Keys, Discards, ReplanFields,
       CandidateFields, Earned
<1>19. CASE Human
  BY <1>19, HumanEffect DEF Frame, Stays, Moves, TypeInv, Typed, Keys, Around, Stopped,
       Approved, Continued, Renewed, Replaced, Discards, EditFields, CandidateFields, Earned
<1>20. CASE Integrate
  BY <1>20, IntegrateEffect DEF Frame, Stays, Moves, TypeInv, Typed, Keys, Refused, Commits,
       Published, Files, Earned
<1>21. CASE CreatePr
  BY <1>21, CreatePrEffect DEF Frame, Stays, Moves, TypeInv, Typed, Keys, Around, Earned
<1>22. CASE CiPoll
  BY <1>22, CiPollEffect DEF Frame, Stays, Moves, TypeInv, Typed, Keys, Around, CiFields, Earned
<1>23. CASE Merge
  BY <1>23, MergeEffect DEF Stays, Moves, Takes, Cleans, Accounts, Earned
<1>24. CASE Refresh
  BY <1>24, RefreshEffect DEF Frame, Stays, Moves, TypeInv, Typed, Keys, RefreshFields,
       CandidateFields, Earned
<1>25. QED
  BY <1>1, <1>2, <1>3, <1>4, <1>5, <1>6, <1>7, <1>8, <1>9, <1>10, <1>11, <1>12, <1>13, <1>14,
       <1>15, <1>16, <1>17, <1>18, <1>19, <1>20, <1>21, <1>22, <1>23, <1>24 DEF Next,
       PlanningStep, ReviewingStep, DeliveryStep, Passes, Pauses

\* Nothing counts as delivered before it is.
LEMMA DeliveredKept ==
  ASSUME TypeInv, TypeInv', Delivered, [Next]_vars
  PROVE  Delivered'
<1>1. CASE World \/ Rest \/ UNCHANGED vars
  BY <1>1, Still DEF Delivered
<1>2. CASE Passes
  BY <1>2, Passing DEF Frame, Stays, Moves, TypeInv, Around, Passed, Ways, Delivered
<1>3. CASE Bootstrap
  BY <1>3, BootstrapEffect DEF Stays, Moves, Delivered
<1>4. CASE Scout
  BY <1>4, ScoutEffect DEF Stays, Moves, Delivered
<1>5. CASE Plan
  <2>1. at = "plan" /\ step = "start" /\ s.iteration \in Nat
    BY <1>5, PlanEffect DEF TypeInv, Typed
  <2>2. CASE Stays({})
    BY <1>5, <2>1, <2>2, Executes DEF Stays, Delivered, PlanningStep
  <2>3. CASE PlanResult(s', disk'.ledger) /\ Moves(AfterPlan(s'))
    <3>1. AfterPlan(s') # "refresh" BY DEF AfterPlan
    <3>2. s'.compliance = disk'.ledger BY <2>3 DEF PlanResult
    <3>3. s'.status # "converged" BY <2>3 DEF PlanResult
    <3>4. s'.status = "target_converged" => \A r \in Req : disk'.ledger[r] = "PASS"
      BY <2>3 DEF PlanResult
    <3>5. QED BY <2>3, <3>1, <3>2, <3>3, <3>4 DEF Moves, Delivered
  <2>4. QED BY <1>5, <2>1, <2>2, <2>3, PlanEffect
<1>6. CASE PlannerHuman
  BY <1>6, PlannerHumanEffect DEF Stays, Moves, Delivered
<1>7. CASE PrepareWorktree
  <2>1. /\ at' \in {"prepare_worktree", "tdd_baseline"} /\ step' = "start"
    BY <1>7, PrepareWorktreeEffect DEF Stays, Moves
  <2>2. outcome' # "ended"
    BY <1>7, Executes, PrepareWorktreeEffect DEF Stays, Moves, PlanningStep
  <2>3. QED BY <2>1, <2>2 DEF Delivered
<1>8. CASE TddBaseline
  BY <1>8, TddBaselineEffect DEF Stays, Moves, Delivered
<1>9. CASE TddRedBuild
  BY <1>9, TddRedBuildEffect DEF Stays, Moves, Delivered
<1>10. CASE TddRedGate
  BY <1>10, TddRedGateEffect DEF Stays, Moves, Delivered
<1>11. CASE SnapshotFrozenRed
  BY <1>11, SnapshotEffect DEF Frame, Stays, Moves, TypeInv, Around, Delivered
<1>12. CASE TddHuman
  BY <1>12, TddHumanEffect DEF Stays, Moves, Delivered
<1>13. CASE Build
  BY <1>13, BuildEffect DEF Stays, Moves, TypeInv, Delivered, Placed
<1>14. CASE Repair
  BY <1>14, RepairEffect DEF Stays, Moves, TypeInv, Delivered, Placed
<1>15. CASE Quality
  BY <1>15, QualityEffect DEF Stays, Moves, Delivered
<1>16. CASE Review
  BY <1>16, ReviewEffect DEF Stays, Moves, Delivered, Routed
<1>17. CASE ReviewerRecovery
  BY <1>17, ReviewerRecoveryEffect DEF Stays, Moves, Delivered, Routed
<1>18. CASE Replan
  BY <1>18, ReplanEffect DEF Stays, Moves, Discards, Delivered
<1>19. CASE Human
  BY <1>19, HumanEffect DEF Stays, Moves, Stopped, Approved, Continued, Renewed, Replaced,
       Discards, Delivered
<1>20. CASE Integrate
  BY <1>20, IntegrateEffect DEF Stays, Moves, Refused, Commits, Published, Files, Delivered
<1>21. CASE CreatePr
  BY <1>21, CreatePrEffect DEF Frame, Stays, Moves, TypeInv, Around, Delivered
<1>22. CASE CiPoll
  BY <1>22, CiPollEffect DEF Frame, Stays, Moves, TypeInv, Around, Delivered
<1>23. CASE Merge
  BY <1>23, MergeEffect DEF Frame, Stays, TypeInv, Typed, Keys, Around, Takes, Cleans, Accounts,
       Delivered
<1>24. CASE Refresh
  BY <1>24, RefreshEffect DEF Frame, Stays, Moves, TypeInv, Typed, Keys, Around, RefreshFields,
       CandidateFields, Delivered
<1>25. QED
  BY <1>1, <1>2, <1>3, <1>4, <1>5, <1>6, <1>7, <1>8, <1>9, <1>10, <1>11, <1>12, <1>13, <1>14,
       <1>15, <1>16, <1>17, <1>18, <1>19, <1>20, <1>21, <1>22, <1>23, <1>24 DEF Next,
       PlanningStep, ReviewingStep, DeliveryStep, Passes, Pauses

\* No candidate leaves anything behind.
LEMMA CleanKept ==
  ASSUME TypeInv, TypeInv', Clean, Delivered, [Next]_vars
  PROVE  Clean'
<1>1. CASE World \/ Rest \/ UNCHANGED vars
  BY <1>1, Still DEF Clean
<1>2. CASE Passes
  BY <1>2, Passing DEF Frame, Stays, Moves, TypeInv, Typed, Keys, Passed, Ways, Waypoints,
       Clean, Between
<1>3. CASE Bootstrap
  BY <1>3, BootstrapEffect DEF Frame, Stays, Moves, TypeInv, Typed, Keys, Clean
<1>4. CASE Scout
  BY <1>4, ScoutEffect DEF Frame, Stays, Moves, TypeInv, Typed, Keys, Around, Clean, Between
<1>5. CASE Plan
  BY <1>5, PlanEffect DEF Frame, Stays, Moves, TypeInv, Typed, Keys, PlanResult, PlanFields,
       AfterPlan, Clean, Between
<1>6. CASE PlannerHuman
  BY <1>6, PlannerHumanEffect DEF Frame, Stays, Moves, TypeInv, Typed, Keys, Clean, Between
<1>7. CASE PrepareWorktree
  <2>1. /\ at = "prepare_worktree" /\ step' = "start" /\ repo'.pr = repo.pr
        /\ repo'.head = repo.head /\ repo'.branch = repo.branch /\ s'.pr = s.pr
    BY <1>7, PrepareWorktreeEffect DEF Stays, Moves, Frame, TypeInv, Typed, Keys, Around
  <2>2. \/ at' = at /\ s' = s
        \/ at' = "tdd_baseline" /\ s'.branch
    BY <1>7, PrepareWorktreeEffect DEF Stays, Moves
  <2>3. QED BY <2>1, <2>2 DEF Clean, Between
<1>8. CASE TddBaseline
  BY <1>8, TddBaselineEffect DEF Frame, Stays, Moves, TypeInv, Typed, Keys, Clean, Between
<1>9. CASE TddRedBuild
  BY <1>9, TddRedBuildEffect DEF Frame, Stays, Moves, TypeInv, Typed, Keys, Around, Clean,
       Placed, Between, Working, Candidate
<1>10. CASE TddRedGate
  BY <1>10, TddRedGateEffect DEF Frame, Stays, Moves, TypeInv, Typed, Keys, Clean, Between
<1>11. CASE SnapshotFrozenRed
  BY <1>11, SnapshotEffect DEF Frame, Stays, Moves, TypeInv, Typed, Keys, Clean, Between
<1>12. CASE TddHuman
  BY <1>12, TddHumanEffect DEF Frame, Stays, Moves, TypeInv, Typed, Keys, Clean, Between
<1>13. CASE Build
  BY <1>13, BuildEffect DEF Frame, Stays, Moves, TypeInv, Typed, Keys, Around, Clean, Placed,
       Between, Working, Candidate
<1>14. CASE Repair
  BY <1>14, RepairEffect DEF Frame, Stays, Moves, TypeInv, Typed, Keys, Around, Clean, Placed,
       Between, Working, Candidate
<1>15. CASE Quality
  BY <1>15, QualityEffect DEF Frame, Stays, Moves, TypeInv, Typed, Keys, Around, Clean, Placed,
       Between, Working, Candidate
<1>16. CASE Review
  BY <1>16, ReviewEffect DEF Frame, Stays, Moves, TypeInv, Typed, Keys, ReviewResult,
       ReviewFields, Clean, Between, Routed
<1>17. CASE ReviewerRecovery
  BY <1>17, ReviewerRecoveryEffect DEF Frame, Stays, Moves, TypeInv, Typed, Keys, Clean,
       Between, Routed
<1>18. CASE Replan
  BY <1>18, ReplanEffect DEF Stays, Moves, Discards, Gone, Blank, Clean
<1>19. CASE Human
  BY <1>19, HumanEffect DEF Frame, Stays, Moves, TypeInv, Typed, Keys, Stopped, Approved,
       Continued, Renewed, Replaced, Discards, Gone, Blank, Clean, Between
<1>20. CASE Integrate
  BY <1>20, IntegrateEffect DEF Frame, Stays, Moves, TypeInv, Typed, Keys, Around, Refused,
       Commits, Published, Files, Clean, Between
<1>21. CASE CreatePr
  BY <1>21, CreatePrEffect DEF Frame, Stays, Moves, TypeInv, Typed, Keys, Around, Clean, Between
<1>22. CASE CiPoll
  BY <1>22, CiPollEffect DEF Frame, Stays, Moves, TypeInv, Typed, Keys, CiFields, Clean, Between
<1>23. CASE Merge
  BY <1>23, MergeEffect DEF Frame, Stays, Moves, TypeInv, Typed, Keys, Around, Takes, Cleans,
       Accounts, Clean, Between
<1>24. CASE Refresh
  BY <1>24, RefreshEffect DEF Frame, Stays, Moves, TypeInv, Around, Blank, Clean, Delivered
<1>25. QED
  BY <1>1, <1>2, <1>3, <1>4, <1>5, <1>6, <1>7, <1>8, <1>9, <1>10, <1>11, <1>12, <1>13, <1>14,
       <1>15, <1>16, <1>17, <1>18, <1>19, <1>20, <1>21, <1>22, <1>23, <1>24 DEF Next,
       PlanningStep, ReviewingStep, DeliveryStep, Passes, Pauses

\* Away from human_gate there is nothing to show.
LEMMA Elsewhere ==
  ASSUME TypeInv', at' # "human"
  PROVE  Asked'
<1>1. waiting' # None => waiting' \in Kinds(at)' BY DEF TypeInv, Waits
<1>2. waiting' \notin {"repair_replan_budget", "ci_failure_budget"}
  BY <1>1, Absent DEF Kinds, MachineWaits, HumanInterrupts
<1>3. QED BY <1>2 DEF Asked, HumanIsLastResort

\* A judged candidate comes to human_gate for a risk or at last.
LEMMA HumanChosen ==
  ASSUME TypeInv', disk' = disk, Moves(at'), Routed(s', at'), s'.verdict # "none",
         s'.status \notin {"ci_fail", "ci_timeout"}
  PROVE  Asked'
<1>1. CASE at' # "human" BY <1>1, Elsewhere
<1>2. CASE at' = "human"
  <2>1. \/ disk.spec = "pinned" /\ Decision(s') = "INTERRUPT"
        \/ s'.repairs >= MaxRepairs /\ s'.replans >= MaxReplans
    BY <1>2 DEF Routed
  <2>2. Decision(s') = Decision(s)' BY DEF Decision
  <2>3. waiting' = None BY DEF Moves
  <2>4. QED BY <2>1, <2>2, <2>3, Absent DEF Asked, HumanIsLastResort, Spent, HumanInterrupts
<1>3. QED BY <1>1, <1>2

\* The operator is only asked at last.
LEMMA AskedKept ==
  ASSUME TypeInv, TypeInv', Asked, [Next]_vars
  PROVE  Asked'
<1>1. CASE World \/ Rest \/ UNCHANGED vars
  <2>1. /\ at' = at /\ s' = s /\ (disk.spec = "edited" => disk'.spec = "edited")
        /\ disk'.spec \in {"pinned", "edited"} /\ disk.spec \in {"pinned", "edited"}
    BY <1>1, Still DEF TypeInv, Around
  <2>2. waiting' = waiting \/ waiting' = None
    BY <1>1 DEF World, Rest, vars, Crash, CallFails, EditSpec, BaseMoves, TimeoutPasses,
         RequestPause, Resume, WakeUp, Decide, EarlyPoll, Killed
  <2>3. disk'.spec = "pinned" => disk.spec = "pinned" /\ Decision(s)' = Decision(s')
    BY <2>1 DEF Decision
  <2>4. disk'.spec = "pinned" => Decision(s)' = Decision(s) BY <2>1 DEF Decision
  <2>5. None \notin {"repair_replan_budget", "ci_failure_budget"}
    BY Absent DEF HumanInterrupts
  <2>6. QED BY <2>1, <2>2, <2>3, <2>5 DEF Asked, HumanIsLastResort, Spent
<1>2. CASE Passes
  <2>1. at' # "human" BY <1>2, Passing DEF Passed, Stays, Moves, Ways, Waypoints
  <2>2. QED BY <2>1, Elsewhere
<1>3. CASE Bootstrap
  <2>1. at' # "human"
    BY <1>3, BootstrapEffect DEF Stays, Moves
  <2>2. QED BY <2>1, Elsewhere
<1>4. CASE Scout
  <2>1. at' # "human"
    BY <1>4, ScoutEffect DEF Stays, Moves
  <2>2. QED BY <2>1, Elsewhere
<1>5. CASE Plan
  <2>1. at' # "human"
    BY <1>5, PlanEffect DEF Stays, Moves, TypeInv, Typed, AfterPlan
  <2>2. QED BY <2>1, Elsewhere
<1>6. CASE PlannerHuman
  <2>1. at' # "human"
    BY <1>6, PlannerHumanEffect DEF Stays, Moves
  <2>2. QED BY <2>1, Elsewhere
<1>7. CASE PrepareWorktree
  <2>1. at' # "human"
    BY <1>7, PrepareWorktreeEffect DEF Stays, Moves
  <2>2. QED BY <2>1, Elsewhere
<1>8. CASE TddBaseline
  <2>1. at' # "human"
    BY <1>8, TddBaselineEffect DEF Stays, Moves
  <2>2. QED BY <2>1, Elsewhere
<1>9. CASE TddRedBuild
  <2>1. at' # "human"
    BY <1>9, TddRedBuildEffect DEF Stays, Moves
  <2>2. QED BY <2>1, Elsewhere
<1>10. CASE TddRedGate
  <2>1. at' # "human"
    BY <1>10, TddRedGateEffect DEF Stays, Moves
  <2>2. QED BY <2>1, Elsewhere
<1>11. CASE SnapshotFrozenRed
  <2>1. at' # "human"
    BY <1>11, SnapshotEffect DEF Stays, Moves
  <2>2. QED BY <2>1, Elsewhere
<1>12. CASE TddHuman
  <2>1. at' # "human"
    BY <1>12, TddHumanEffect DEF Stays, Moves
  <2>2. QED BY <2>1, Elsewhere
<1>13. CASE Build
  <2>1. at' # "human"
    BY <1>13, BuildEffect DEF Stays, Moves
  <2>2. QED BY <2>1, Elsewhere
<1>14. CASE Repair
  <2>1. at' # "human"
    BY <1>14, RepairEffect DEF Stays, Moves
  <2>2. QED BY <2>1, Elsewhere
<1>15. CASE Quality
  <2>1. at' # "human"
    BY <1>15, QualityEffect DEF Stays, Moves
  <2>2. QED BY <2>1, Elsewhere
<1>16. CASE Review
  <2>1. at = "review" /\ disk' = disk BY <1>16, ReviewEffect
  <2>2. CASE Stays({}) BY <2>1, <2>2, Elsewhere DEF Stays
  <2>3. CASE ~Stays({})
    <3>1. PICK verdict : ReviewResult(s', verdict) BY <1>16, <2>3, ReviewEffect
    <3>2. Moves(at') /\ Routed(s', at') BY <1>16, <2>3, ReviewEffect
    <3>3. s'.verdict # "none" /\ s'.status \notin {"ci_fail", "ci_timeout"}
      BY <3>1 DEF ReviewResult
    <3>4. QED BY <2>1, <3>2, <3>3, HumanChosen
  <2>4. QED BY <2>2, <2>3
<1>17. CASE ReviewerRecovery
  <2>1. at = "reviewer_recovery" /\ disk' = disk BY <1>17, ReviewerRecoveryEffect
  <2>2. CASE Stays({}) BY <2>1, <2>2, Elsewhere DEF Stays
  <2>3. CASE ~Stays({})
    <3>1. Moves(at') /\ Routed(s', at') BY <1>17, <2>3, ReviewerRecoveryEffect
    <3>2. s'.status = "reviewed" \/ s'.status \in Outages
      BY <1>17, <2>3, ReviewerRecoveryEffect DEF Outages
    <3>3. CASE s'.status \in Outages BY <3>1, <3>3, Elsewhere DEF Routed
    <3>4. CASE s'.status = "reviewed"
      <4>1. s'.verdict # "none" BY <1>17, <2>3, ReviewerRecoveryEffect
      <4>2. QED BY <2>1, <3>1, <3>4, <4>1, HumanChosen
    <3>5. QED BY <3>2, <3>3, <3>4
  <2>4. QED BY <2>2, <2>3
<1>18. CASE Replan
  <2>1. at' # "human"
    BY <1>18, ReplanEffect DEF Stays, Moves
  <2>2. QED BY <2>1, Elsewhere
<1>19. CASE Human
  <2>1. at = "human" BY <1>19, HumanEffect
  <2>2. CASE Stays({}) /\ UNCHANGED <<repo, disk, audit>> /\ waiting' \in {None, HumanKind}
    <3>1. at' = at /\ s' = s /\ disk' = disk BY <2>2 DEF Stays
    <3>2. Decision(s)' = Decision(s) BY <3>1 DEF Decision
    <3>3. HumanKind \in {"repair_replan_budget", "ci_failure_budget"} =>
            /\ s.status # "iteration_budget_exhausted"
            /\ s.status \in {"ci_fail", "ci_timeout"} \/ s.verdict = "none" \/ Decision(s) # "INTERRUPT"
      BY DEF HumanKind
    <3>4. None \notin {"repair_replan_budget", "ci_failure_budget"}
      BY Absent DEF HumanInterrupts
    <3>5. QED BY <2>1, <2>2, <3>1, <3>2, <3>3, <3>4 DEF Asked, HumanIsLastResort, Spent
  <2>3. CASE Stays({}) /\ answer = "edit" /\ waiting' = None /\ Discards
    <3>1. at' = at /\ s' = s /\ disk' = disk BY <2>3 DEF Stays, Discards
    <3>2. Decision(s)' = Decision(s) BY <3>1 DEF Decision
    <3>3. None \notin {"repair_replan_budget", "ci_failure_budget"}
      BY Absent DEF HumanInterrupts
    <3>4. QED BY <2>3, <3>1, <3>2, <3>3 DEF Asked, HumanIsLastResort, Spent
  <2>4. CASE Stopped \/ Approved \/ Continued \/ Renewed \/ Replaced
    <3>1. at' # "human"
      BY <2>4 DEF Stopped, Approved, Continued, Renewed, Replaced, Moves
    <3>2. QED BY <3>1, Elsewhere
  <2>5. QED BY <1>19, <2>2, <2>3, <2>4, HumanEffect
<1>20. CASE Integrate
  <2>1. at' # "human"
    BY <1>20, IntegrateEffect DEF Stays, Moves, Refused, Commits, Published, Files
  <2>2. QED BY <2>1, Elsewhere
<1>21. CASE CreatePr
  <2>1. at' # "human"
    BY <1>21, CreatePrEffect DEF Stays, Moves
  <2>2. QED BY <2>1, Elsewhere
<1>22. CASE CiPoll
  <2>1. CASE at' # "human" BY <2>1, Elsewhere
  <2>2. CASE at' = "human"
    <3>1. at = "ci_poll" /\ ~Stays({}) BY <1>22, <2>2, CiPollEffect DEF Stays
    <3>2. Frame(s', s, CiFields) /\ Moves("human") /\ s.repairs >= MaxRepairs /\ s.replans >= MaxReplans
      BY <1>22, <2>2, <3>1, CiPollEffect DEF Moves
    <3>3. s'.repairs = s.repairs /\ s'.replans = s.replans
      BY <3>2 DEF Frame, CiFields, TypeInv, Typed, Keys
    <3>4. Spent' BY <3>2, <3>3 DEF Spent
    <3>5. waiting' = None BY <3>2 DEF Moves
    <3>6. QED BY <3>4 DEF Asked, HumanIsLastResort, Spent
  <2>3. QED BY <2>1, <2>2
<1>23. CASE Merge
  <2>1. at' # "human"
    BY <1>23, MergeEffect DEF Stays, Moves, Takes, Cleans, Accounts
  <2>2. QED BY <2>1, Elsewhere
<1>24. CASE Refresh
  <2>1. CASE at' # "human" BY <2>1, Elsewhere
  <2>2. CASE at' = "human"
    <3>1. at = "refresh" /\ ~Stays({}) BY <1>24, <2>2, RefreshEffect DEF Stays
    <3>2. s'.status = "iteration_budget_exhausted" /\ waiting' = None
      BY <1>24, <2>2, <3>1, RefreshEffect DEF Moves
    <3>3. QED BY <3>2, Absent DEF Asked, HumanIsLastResort, HumanInterrupts
  <2>3. QED BY <2>1, <2>2
<1>25. QED
  BY <1>1, <1>2, <1>3, <1>4, <1>5, <1>6, <1>7, <1>8, <1>9, <1>10, <1>11, <1>12, <1>13, <1>14,
       <1>15, <1>16, <1>17, <1>18, <1>19, <1>20, <1>21, <1>22, <1>23, <1>24 DEF Next,
       PlanningStep, ReviewingStep, DeliveryStep, Passes, Pauses

\* Where no operator is asked, no decision is lost.
LEMMA Unasked ==
  ASSUME AnswersRecorded, outcome = "running", at \notin HumanNodes,
         s'.decisions = s.decisions, audit'.answers = audit.answers,
         \/ \E steps : Stays(steps)
         \/ \E next : Moves(next)
  PROVE  AnswersRecorded'
<1>1. ~DecisionTaken BY DEF DecisionTaken, HumanNodes
<1>2. ~DecisionTaken' BY DEF DecisionTaken, HumanNodes, Stays, Moves
<1>3. QED BY <1>1, <1>2 DEF AnswersRecorded

\* No decision is lost or counted twice.
LEMMA AnswersKept ==
  ASSUME TypeInv, TypeInv', AnswersRecorded, [Next]_vars
  PROVE  AnswersRecorded'
<1>1. CASE World \/ Rest \/ UNCHANGED vars
  <2>1. at' = at /\ s' = s /\ outcome' \in {outcome, "failed"} BY <1>1, Still
  <2>2. CASE Decide
    <3>1. audit' = [audit EXCEPT !.answers = @ + 1] /\ answer' \in Accepted /\ waiting # None
      BY <2>2 DEF Decide
    <3>2. at \in HumanNodes
      BY <2>2 DEF Decide, TypeInv, Waits, Kinds, HumanNodes
    <3>3. answer = None BY <3>1 DEF TypeInv, Waits
    <3>4. audit'.answers = audit.answers + 1 BY <3>1 DEF TypeInv, Around
    <3>5. outcome = "running" BY <2>2 DEF Decide, Happens
    <3>6. answer' # None BY <3>1, Absent
    <3>7. ~DecisionTaken /\ DecisionTaken'
      BY <2>1, <3>2, <3>3, <3>6 DEF DecisionTaken, HumanNodes
    <3>8. s'.decisions = s.decisions /\ s.decisions \in Nat BY <2>1 DEF TypeInv, Typed
    <3>9. QED BY <3>4, <3>5, <3>7, <3>8 DEF AnswersRecorded
  <2>3. CASE Resume \/ WakeUp \/ EarlyPoll
    <3>1. audit' = audit /\ waiting \in MachineWaits \cup {"controlled_pause"}
      BY <2>3 DEF Resume, WakeUp, EarlyPoll
    <3>2. at \notin HumanNodes
      BY <3>1, Absent DEF TypeInv, Waits, Kinds, HumanNodes, MachineWaits
    <3>3. ~DecisionTaken /\ ~DecisionTaken' BY <2>1, <3>2 DEF DecisionTaken, HumanNodes
    <3>4. QED BY <2>1, <3>1, <3>3 DEF AnswersRecorded
  <2>4. CASE Crash \/ CallFails \/ EditSpec \/ BaseMoves \/ TimeoutPasses \/ RequestPause \/ Rest \/ UNCHANGED vars
    <3>1. audit' = audit /\ answer' = answer
      BY <2>4 DEF Crash, CallFails, EditSpec, BaseMoves, TimeoutPasses, RequestPause, Rest,
           vars, Killed
    <3>2. DecisionTaken' = DecisionTaken BY <2>1, <3>1 DEF DecisionTaken
    <3>3. QED BY <2>1, <3>1, <3>2 DEF AnswersRecorded
  <2>5. QED BY <1>1, <2>2, <2>3, <2>4 DEF World
<1>2. CASE Passes
  <2>1. \/ \E steps : Stays(steps)
        \/ \E next : Moves(next)
    BY <1>2, Passing DEF Passed
  <2>2. at \notin HumanNodes /\ s'.decisions = s.decisions /\ audit'.answers = audit.answers
    BY <1>2, Passing DEF Passed, Waypoints, HumanNodes, Frame, Stays, TypeInv, Typed, Keys
  <2>3. QED
    BY <1>2, <2>1, <2>2, Executes, Unasked DEF Passes, Pauses, PlanningStep, ReviewingStep,
         DeliveryStep
<1>3. CASE Bootstrap
  <2>1. \/ \E steps : Stays(steps)
        \/ \E next : Moves(next)
    BY <1>3, BootstrapEffect
  <2>2. at \notin HumanNodes /\ s'.decisions = s.decisions /\ audit'.answers = audit.answers
    BY <1>3, BootstrapEffect DEF HumanNodes, Frame, Stays, TypeInv, Typed, Keys
  <2>3. QED BY <1>3, <2>1, <2>2, Executes, Unasked DEF PlanningStep, ReviewingStep, DeliveryStep
<1>4. CASE Scout
  <2>1. \/ \E steps : Stays(steps)
        \/ \E next : Moves(next)
    BY <1>4, ScoutEffect
  <2>2. at \notin HumanNodes /\ s'.decisions = s.decisions /\ audit'.answers = audit.answers
    BY <1>4, ScoutEffect DEF HumanNodes, Frame, Stays, TypeInv, Typed, Keys
  <2>3. QED BY <1>4, <2>1, <2>2, Executes, Unasked DEF PlanningStep, ReviewingStep, DeliveryStep
<1>5. CASE Plan
  <2>1. \/ \E steps : Stays(steps)
        \/ \E next : Moves(next)
    BY <1>5, PlanEffect DEF TypeInv, Typed
  <2>2. at \notin HumanNodes /\ s'.decisions = s.decisions /\ audit'.answers = audit.answers
    BY <1>5, PlanEffect DEF HumanNodes, Frame, Stays, TypeInv, Typed, Keys, Around, PlanResult,
         PlanFields
  <2>3. QED BY <1>5, <2>1, <2>2, Executes, Unasked DEF PlanningStep, ReviewingStep, DeliveryStep
<1>6. CASE PlannerHuman
  <2>1. at \in HumanNodes /\ outcome = "running"
    BY <1>6, PlannerHumanEffect, Executes DEF HumanNodes, PlanningStep, ReviewingStep
  <2>2. audit'.answers = audit.answers /\ s.decisions \in Nat /\ audit.answers \in Nat
    BY <1>6, PlannerHumanEffect DEF TypeInv, Typed, Around
  <2>3. CASE \E steps : Stays(steps)
    <3>1. at' = at /\ s' = s /\ answer' = answer BY <2>3 DEF Stays
    <3>2. DecisionTaken' = DecisionTaken BY <3>1 DEF DecisionTaken
    <3>3. QED BY <2>1, <2>2, <3>1, <3>2 DEF AnswersRecorded
  <2>4. CASE answer # None /\ s'.decisions = s.decisions + 1 /\ \E next : Moves(next)
    <3>1. DecisionTaken /\ ~DecisionTaken'
      BY <2>1, <2>4 DEF DecisionTaken, HumanNodes, Moves
    <3>2. QED BY <2>1, <2>2, <2>4, <3>1 DEF AnswersRecorded
  <2>5. QED BY <1>6, <2>3, <2>4, PlannerHumanEffect
<1>7. CASE PrepareWorktree
  <2>1. \/ \E steps : Stays(steps)
        \/ \E next : Moves(next)
    BY <1>7, PrepareWorktreeEffect
  <2>2. at \notin HumanNodes /\ s'.decisions = s.decisions /\ audit'.answers = audit.answers
    BY <1>7, PrepareWorktreeEffect DEF HumanNodes, Frame, Stays, TypeInv, Typed, Keys, Around
  <2>3. QED BY <1>7, <2>1, <2>2, Executes, Unasked DEF PlanningStep, ReviewingStep, DeliveryStep
<1>8. CASE TddBaseline
  <2>1. \/ \E steps : Stays(steps)
        \/ \E next : Moves(next)
    BY <1>8, TddBaselineEffect
  <2>2. at \notin HumanNodes /\ s'.decisions = s.decisions /\ audit'.answers = audit.answers
    BY <1>8, TddBaselineEffect DEF HumanNodes, Frame, Stays, TypeInv, Typed, Keys
  <2>3. QED BY <1>8, <2>1, <2>2, Executes, Unasked DEF PlanningStep, ReviewingStep, DeliveryStep
<1>9. CASE TddRedBuild
  <2>1. \/ \E steps : Stays(steps)
        \/ \E next : Moves(next)
    BY <1>9, TddRedBuildEffect
  <2>2. at \notin HumanNodes /\ s'.decisions = s.decisions /\ audit'.answers = audit.answers
    BY <1>9, TddRedBuildEffect DEF HumanNodes, Frame, Stays, TypeInv, Typed, Keys
  <2>3. QED BY <1>9, <2>1, <2>2, Executes, Unasked DEF PlanningStep, ReviewingStep, DeliveryStep
<1>10. CASE TddRedGate
  <2>1. \/ \E steps : Stays(steps)
        \/ \E next : Moves(next)
    BY <1>10, TddRedGateEffect
  <2>2. at \notin HumanNodes /\ s'.decisions = s.decisions /\ audit'.answers = audit.answers
    BY <1>10, TddRedGateEffect DEF HumanNodes, Frame, Stays, TypeInv, Typed, Keys
  <2>3. QED
    BY <1>10, <2>1, <2>2, Executes, Unasked DEF PlanningStep, ReviewingStep, DeliveryStep
<1>11. CASE SnapshotFrozenRed
  <2>1. \/ \E steps : Stays(steps)
        \/ \E next : Moves(next)
    BY <1>11, SnapshotEffect
  <2>2. at \notin HumanNodes /\ s'.decisions = s.decisions /\ audit'.answers = audit.answers
    BY <1>11, SnapshotEffect DEF HumanNodes, Frame, Stays, TypeInv, Typed, Keys
  <2>3. QED
    BY <1>11, <2>1, <2>2, Executes, Unasked DEF PlanningStep, ReviewingStep, DeliveryStep
<1>12. CASE TddHuman
  <2>1. at \in HumanNodes /\ outcome = "running"
    BY <1>12, TddHumanEffect, Executes DEF HumanNodes, PlanningStep, ReviewingStep
  <2>2. audit'.answers = audit.answers /\ s.decisions \in Nat /\ audit.answers \in Nat
    BY <1>12, TddHumanEffect DEF TypeInv, Typed, Around
  <2>3. CASE \E steps : Stays(steps)
    <3>1. at' = at /\ s' = s /\ answer' = answer BY <2>3 DEF Stays
    <3>2. DecisionTaken' = DecisionTaken BY <3>1 DEF DecisionTaken
    <3>3. QED BY <2>1, <2>2, <3>1, <3>2 DEF AnswersRecorded
  <2>4. CASE answer # None /\ s'.decisions = s.decisions + 1 /\ \E next : Moves(next)
    <3>1. DecisionTaken /\ ~DecisionTaken'
      BY <2>1, <2>4 DEF DecisionTaken, HumanNodes, Moves
    <3>2. QED BY <2>1, <2>2, <2>4, <3>1 DEF AnswersRecorded
  <2>5. QED BY <1>12, <2>3, <2>4, TddHumanEffect
<1>13. CASE Build
  <2>1. \/ \E steps : Stays(steps)
        \/ \E next : Moves(next)
    BY <1>13, BuildEffect
  <2>2. at \notin HumanNodes /\ s'.decisions = s.decisions /\ audit'.answers = audit.answers
    BY <1>13, BuildEffect DEF HumanNodes, Frame, Stays, TypeInv, Typed, Keys
  <2>3. QED
    BY <1>13, <2>1, <2>2, Executes, Unasked DEF PlanningStep, ReviewingStep, DeliveryStep
<1>14. CASE Repair
  <2>1. \/ \E steps : Stays(steps)
        \/ \E next : Moves(next)
    BY <1>14, RepairEffect
  <2>2. at \notin HumanNodes /\ s'.decisions = s.decisions /\ audit'.answers = audit.answers
    BY <1>14, RepairEffect DEF HumanNodes, Frame, Stays, TypeInv, Typed, Keys
  <2>3. QED
    BY <1>14, <2>1, <2>2, Executes, Unasked DEF PlanningStep, ReviewingStep, DeliveryStep
<1>15. CASE Quality
  <2>1. \/ \E steps : Stays(steps)
        \/ \E next : Moves(next)
    BY <1>15, QualityEffect
  <2>2. at \notin HumanNodes /\ s'.decisions = s.decisions /\ audit'.answers = audit.answers
    BY <1>15, QualityEffect DEF HumanNodes, Frame, Stays, TypeInv, Typed, Keys, Around
  <2>3. QED
    BY <1>15, <2>1, <2>2, Executes, Unasked DEF PlanningStep, ReviewingStep, DeliveryStep
<1>16. CASE Review
  <2>1. \/ \E steps : Stays(steps)
        \/ \E next : Moves(next)
    BY <1>16, ReviewEffect
  <2>2. at \notin HumanNodes /\ s'.decisions = s.decisions /\ audit'.answers = audit.answers
    BY <1>16, ReviewEffect DEF HumanNodes, Frame, Stays, TypeInv, Typed, Keys, Around,
         ReviewResult, ReviewFields
  <2>3. QED
    BY <1>16, <2>1, <2>2, Executes, Unasked DEF PlanningStep, ReviewingStep, DeliveryStep
<1>17. CASE ReviewerRecovery
  <2>1. \/ \E steps : Stays(steps)
        \/ \E next : Moves(next)
    BY <1>17, ReviewerRecoveryEffect
  <2>2. at \notin HumanNodes /\ s'.decisions = s.decisions /\ audit'.answers = audit.answers
    BY <1>17, ReviewerRecoveryEffect DEF HumanNodes, Frame, Stays, TypeInv, Typed, Keys, Around
  <2>3. QED
    BY <1>17, <2>1, <2>2, Executes, Unasked DEF PlanningStep, ReviewingStep, DeliveryStep
<1>18. CASE Replan
  <2>1. \/ \E steps : Stays(steps)
        \/ \E next : Moves(next)
    BY <1>18, ReplanEffect
  <2>2. at \notin HumanNodes /\ s'.decisions = s.decisions /\ audit'.answers = audit.answers
    BY <1>18, ReplanEffect DEF HumanNodes, Frame, Stays, TypeInv, Typed, Keys, Discards,
         ReplanFields, CandidateFields
  <2>3. QED
    BY <1>18, <2>1, <2>2, Executes, Unasked DEF PlanningStep, ReviewingStep, DeliveryStep
<1>19. CASE Human
  <2>1. at \in HumanNodes /\ outcome = "running"
    BY <1>19, HumanEffect, Executes DEF HumanNodes, PlanningStep, ReviewingStep
  <2>2. audit'.answers = audit.answers /\ s.decisions \in Nat /\ audit.answers \in Nat
    BY <1>19, HumanEffect DEF Frame, TypeInv, Typed, Around, Stopped, Approved, Continued,
         Renewed, Replaced, Discards
  <2>3. CASE \E steps : Stays(steps)
    <3>1. at' = at /\ s' = s /\ answer' = answer BY <2>3 DEF Stays
    <3>2. DecisionTaken' = DecisionTaken BY <3>1 DEF DecisionTaken
    <3>3. QED BY <2>1, <2>2, <3>1, <3>2 DEF AnswersRecorded
  <2>4. CASE answer # None /\ s'.decisions = s.decisions + 1 /\ \E next : Moves(next)
    <3>1. DecisionTaken /\ ~DecisionTaken'
      BY <2>1, <2>4 DEF DecisionTaken, HumanNodes, Moves
    <3>2. QED BY <2>1, <2>2, <2>4, <3>1 DEF AnswersRecorded
  <2>5. QED
    BY <1>19, <2>3, <2>4, HumanEffect DEF Stopped, Approved, Continued, Renewed, Replaced
<1>20. CASE Integrate
  <2>1. \/ \E steps : Stays(steps)
        \/ \E next : Moves(next)
    BY <1>20, IntegrateEffect DEF Refused, Commits, Published, Files
  <2>2. at \notin HumanNodes /\ s'.decisions = s.decisions /\ audit'.answers = audit.answers
    BY <1>20, IntegrateEffect DEF HumanNodes, Frame, Stays, TypeInv, Typed, Keys, Refused,
         Commits, Published, Files
  <2>3. QED
    BY <1>20, <2>1, <2>2, Executes, Unasked DEF PlanningStep, ReviewingStep, DeliveryStep
<1>21. CASE CreatePr
  <2>1. \/ \E steps : Stays(steps)
        \/ \E next : Moves(next)
    BY <1>21, CreatePrEffect
  <2>2. at \notin HumanNodes /\ s'.decisions = s.decisions /\ audit'.answers = audit.answers
    BY <1>21, CreatePrEffect DEF HumanNodes, Frame, Stays, TypeInv, Typed, Keys
  <2>3. QED
    BY <1>21, <2>1, <2>2, Executes, Unasked DEF PlanningStep, ReviewingStep, DeliveryStep
<1>22. CASE CiPoll
  <2>1. \/ \E steps : Stays(steps)
        \/ \E next : Moves(next)
    BY <1>22, CiPollEffect
  <2>2. at \notin HumanNodes /\ s'.decisions = s.decisions /\ audit'.answers = audit.answers
    BY <1>22, CiPollEffect DEF HumanNodes, Frame, Stays, TypeInv, Typed, Keys, Around, CiFields
  <2>3. QED
    BY <1>22, <2>1, <2>2, Executes, Unasked DEF PlanningStep, ReviewingStep, DeliveryStep
<1>23. CASE Merge
  <2>1. \/ \E steps : Stays(steps)
        \/ \E next : Moves(next)
    BY <1>23, MergeEffect DEF Takes, Cleans, Accounts
  <2>2. at \notin HumanNodes /\ s'.decisions = s.decisions /\ audit'.answers = audit.answers
    BY <1>23, MergeEffect DEF HumanNodes, Frame, Stays, TypeInv, Typed, Keys, Around, Takes,
         Cleans, Accounts
  <2>3. QED
    BY <1>23, <2>1, <2>2, Executes, Unasked DEF PlanningStep, ReviewingStep, DeliveryStep
<1>24. CASE Refresh
  <2>1. \/ \E steps : Stays(steps)
        \/ \E next : Moves(next)
    BY <1>24, RefreshEffect
  <2>2. at \notin HumanNodes /\ s'.decisions = s.decisions /\ audit'.answers = audit.answers
    BY <1>24, RefreshEffect DEF HumanNodes, Frame, Stays, TypeInv, Typed, Keys, RefreshFields,
         CandidateFields
  <2>3. QED
    BY <1>24, <2>1, <2>2, Executes, Unasked DEF PlanningStep, ReviewingStep, DeliveryStep
<1>25. QED
  BY <1>1, <1>2, <1>3, <1>4, <1>5, <1>6, <1>7, <1>8, <1>9, <1>10, <1>11, <1>12, <1>13, <1>14,
       <1>15, <1>16, <1>17, <1>18, <1>19, <1>20, <1>21, <1>22, <1>23, <1>24 DEF Next,
       PlanningStep, ReviewingStep, DeliveryStep, Passes, Pauses

\* Nothing comes between the report of CI and the merge.
LEMMA GreenKept ==
  ASSUME TypeInv, TypeInv', Clean, Delivered, Green, [Next]_vars
  PROVE  Green'
<1>1. CASE World \/ Rest \/ UNCHANGED vars
  BY <1>1, Still DEF Green
<1>2. CASE Passes
  BY <1>2, Passing DEF Frame, Stays, Moves, TypeInv, Typed, Keys, Passed, Ways, Green
<1>3. CASE Bootstrap
  BY <1>3, BootstrapEffect DEF Stays, Moves, Green
<1>4. CASE Scout
  BY <1>4, ScoutEffect DEF Stays, Moves, Green
<1>5. CASE Plan
  BY <1>5, PlanEffect DEF Stays, Moves, TypeInv, Typed, AfterPlan, Green
<1>6. CASE PlannerHuman
  BY <1>6, PlannerHumanEffect DEF Stays, Moves, Green
<1>7. CASE PrepareWorktree
  BY <1>7, PrepareWorktreeEffect DEF Stays, Moves, Green
<1>8. CASE TddBaseline
  BY <1>8, TddBaselineEffect DEF Stays, Moves, Green
<1>9. CASE TddRedBuild
  BY <1>9, TddRedBuildEffect DEF Stays, Moves, Green
<1>10. CASE TddRedGate
  BY <1>10, TddRedGateEffect DEF Stays, Moves, Green
<1>11. CASE SnapshotFrozenRed
  BY <1>11, SnapshotEffect DEF Stays, Moves, Green
<1>12. CASE TddHuman
  BY <1>12, TddHumanEffect DEF Stays, Moves, Green
<1>13. CASE Build
  BY <1>13, BuildEffect DEF Stays, Moves, Green
<1>14. CASE Repair
  BY <1>14, RepairEffect DEF Stays, Moves, Green
<1>15. CASE Quality
  BY <1>15, QualityEffect DEF Stays, Moves, Green
<1>16. CASE Review
  BY <1>16, ReviewEffect DEF Stays, Green, Routed
<1>17. CASE ReviewerRecovery
  BY <1>17, ReviewerRecoveryEffect DEF Stays, Green, Routed
<1>18. CASE Replan
  BY <1>18, ReplanEffect DEF Stays, Moves, Green
<1>19. CASE Human
  BY <1>19, HumanEffect DEF Stays, Moves, Stopped, Approved, Continued, Renewed, Replaced, Green
<1>20. CASE Integrate
  BY <1>20, IntegrateEffect DEF Stays, Moves, Refused, Commits, Published, Files, Green
<1>21. CASE CreatePr
  BY <1>21, CreatePrEffect DEF Frame, Stays, Moves, TypeInv, Around, Green, Clean
<1>22. CASE CiPoll
  BY <1>22, CiPollEffect DEF Frame, Stays, Moves, TypeInv, Typed, Keys, CiFields, Green
<1>23. CASE Merge
  BY <1>23, MergeEffect DEF Frame, Stays, Moves, TypeInv, Around, Takes, Cleans, Accounts,
       Green, Delivered
<1>24. CASE Refresh
  BY <1>24, RefreshEffect DEF Stays, Moves, Green
<1>25. QED
  BY <1>1, <1>2, <1>3, <1>4, <1>5, <1>6, <1>7, <1>8, <1>9, <1>10, <1>11, <1>12, <1>13, <1>14,
       <1>15, <1>16, <1>17, <1>18, <1>19, <1>20, <1>21, <1>22, <1>23, <1>24 DEF Next,
       PlanningStep, ReviewingStep, DeliveryStep, Passes, Pauses

\* Nothing comes between the review and the push.
LEMMA JudgementKept ==
  ASSUME TypeInv, TypeInv', Judgement, [Next]_vars
  PROVE  Judgement'
<1>1. CASE World \/ Rest \/ UNCHANGED vars
  BY <1>1, Still DEF Judgement
<1>2. CASE Passes
  BY <1>2, Passing DEF Frame, Stays, Moves, TypeInv, Typed, Keys, Passed, Ways, Judgement,
       Judging
<1>3. CASE Bootstrap
  BY <1>3, BootstrapEffect DEF Frame, Stays, Moves, TypeInv, Typed, Keys, Judgement, Judging
<1>4. CASE Scout
  BY <1>4, ScoutEffect DEF Frame, Stays, Moves, TypeInv, Typed, Keys, Judgement, Judging
<1>5. CASE Plan
  BY <1>5, PlanEffect DEF Frame, Stays, Moves, TypeInv, Typed, Keys, Around, PlanResult,
       PlanFields, AfterPlan, Judgement, Judging
<1>6. CASE PlannerHuman
  BY <1>6, PlannerHumanEffect DEF Frame, Stays, Moves, TypeInv, Typed, Keys, Judgement, Judging
<1>7. CASE PrepareWorktree
  BY <1>7, PrepareWorktreeEffect DEF Frame, Stays, Moves, TypeInv, Typed, Keys, Judgement,
       Judging, Working, Candidate
<1>8. CASE TddBaseline
  BY <1>8, TddBaselineEffect DEF Frame, Stays, Moves, TypeInv, Typed, Keys, Judgement, Judging
<1>9. CASE TddRedBuild
  BY <1>9, TddRedBuildEffect DEF Frame, Stays, Moves, TypeInv, Typed, Keys, Judgement, Judging
<1>10. CASE TddRedGate
  BY <1>10, TddRedGateEffect DEF Frame, Stays, Moves, TypeInv, Typed, Keys, Judgement, Judging
<1>11. CASE SnapshotFrozenRed
  BY <1>11, SnapshotEffect DEF Frame, Stays, Moves, TypeInv, Typed, Keys, Judgement, Judging
<1>12. CASE TddHuman
  BY <1>12, TddHumanEffect DEF Frame, Stays, Moves, TypeInv, Typed, Keys, Judgement, Judging
<1>13. CASE Build
  BY <1>13, BuildEffect DEF Frame, Stays, Moves, TypeInv, Typed, Keys, Judgement, Judging,
       Placed
<1>14. CASE Repair
  BY <1>14, RepairEffect DEF Frame, Stays, Moves, TypeInv, Typed, Keys, Judgement, Judging,
       Placed
<1>15. CASE Quality
  BY <1>15, QualityEffect DEF Frame, Stays, Moves, TypeInv, Typed, Keys, Around, Judgement,
       Judging
<1>16. CASE Review
  <2>1. /\ at = "review" /\ step = "start" /\ repo' = repo /\ audit'.cleared = audit.cleared
    BY <1>16, ReviewEffect DEF Frame, TypeInv, Around
  <2>2. CASE Stays({})
    BY <2>1, <2>2 DEF Stays, Judgement
  <2>3. CASE ~Stays({})
    <3>1. PICK verdict : /\ ReviewResult(s', verdict)
                         /\ verdict = "pass" => audit'.reviewed = repo.wt
      BY <1>16, <2>3, ReviewEffect
    <3>2. Moves(at') /\ Routed(s', at') BY <1>16, <2>3, ReviewEffect
    <3>3. /\ s'.fingerprint = repo'.wt /\ s'.recordedBase = repo'.tracked
          /\ s'.approved = StillApproved /\ s'.task = s.task
          /\ repo.wt.code \in Risky \/ s.task.risky => "human" \in s'.risks
          /\ s'.verdict = "pass" => verdict = "pass"
          /\ verdict = "pass" => s'.verdict = "pass"
      BY <2>1, <3>1 DEF ReviewResult, ReviewFields, Frame, TypeInv, Typed, Keys
    <3>4. at' \in Judging => at' \in {"pause_reviewer_recovery", "pause_integrate"}
      BY <3>1, <3>2 DEF ReviewResult, Routed, Judging
    <3>5. at' \in Judging => repo.wt.code \notin Secret
      BY <3>1, <3>2, <3>4 DEF ReviewResult, Routed
    <3>6. s'.approved # {} => audit'.cleared = s'.fingerprint
      BY <2>1, <3>3 DEF StillApproved, Judgement
    <3>7. at' \in {"pause_integrate", "integrate"} =>
            /\ audit'.reviewed = repo'.wt
            /\ "human" \in s'.risks => audit'.cleared = repo'.wt
      BY <2>1, <3>1, <3>2, <3>3, <3>6 DEF Routed
    <3>8. at' # "prepare_worktree" /\ step' = "start" BY <3>2 DEF Routed, Moves
    <3>9. QED BY <2>1, <3>3, <3>5, <3>6, <3>7, <3>8 DEF Judgement
  <2>4. QED BY <2>2, <2>3
<1>17. CASE ReviewerRecovery
  BY <1>17, ReviewerRecoveryEffect DEF Frame, Stays, Moves, TypeInv, Typed, Keys, Around,
       Judgement, Judging, Routed
<1>18. CASE Replan
  BY <1>18, ReplanEffect DEF Stays, Moves, Discards, Blank, Judgement, Judging
<1>19. CASE Human
  BY <1>19, HumanEffect DEF Frame, Stays, Moves, TypeInv, Typed, Keys, Stopped, Approved,
       Continued, Renewed, Replaced, Discards, Blank, Judgement, Judging
<1>20. CASE Integrate
  BY <1>20, IntegrateEffect DEF Frame, Stays, Moves, TypeInv, Typed, Keys, Around, Refused,
       Commits, Published, Files, Judgement, Judging
<1>21. CASE CreatePr
  BY <1>21, CreatePrEffect DEF Frame, Stays, Moves, TypeInv, Typed, Keys, Judgement, Judging
<1>22. CASE CiPoll
  BY <1>22, CiPollEffect DEF Frame, Stays, Moves, TypeInv, Typed, Keys, Around, CiFields,
       Judgement, Judging
<1>23. CASE Merge
  BY <1>23, MergeEffect DEF Frame, Stays, Moves, TypeInv, Typed, Keys, Around, Takes, Cleans,
       Accounts, Judgement, Judging
<1>24. CASE Refresh
  BY <1>24, RefreshEffect DEF Stays, Moves, Blank, Judgement, Judging
<1>25. QED
  BY <1>1, <1>2, <1>3, <1>4, <1>5, <1>6, <1>7, <1>8, <1>9, <1>10, <1>11, <1>12, <1>13, <1>14,
       <1>15, <1>16, <1>17, <1>18, <1>19, <1>20, <1>21, <1>22, <1>23, <1>24 DEF Next,
       PlanningStep, ReviewingStep, DeliveryStep, Passes, Pauses

\* Nothing comes between the gates and the push.
LEMMA GatedKept ==
  ASSUME TypeInv, TypeInv', Gated, [Next]_vars
  PROVE  Gated'
<1>1. CASE World \/ Rest \/ UNCHANGED vars
  BY <1>1, Still DEF Gated
<1>2. CASE Passes
  BY <1>2, Passing DEF Frame, Stays, Moves, TypeInv, Typed, Keys, Passed, Ways, Gated,
       GatedNodes, Judging
<1>3. CASE Bootstrap
  BY <1>3, BootstrapEffect DEF Stays, Moves, Gated, GatedNodes, Judging
<1>4. CASE Scout
  BY <1>4, ScoutEffect DEF Stays, Moves, Gated, GatedNodes, Judging
<1>5. CASE Plan
  BY <1>5, PlanEffect DEF Stays, Moves, TypeInv, Typed, AfterPlan, Gated, GatedNodes, Judging
<1>6. CASE PlannerHuman
  BY <1>6, PlannerHumanEffect DEF Stays, Moves, Gated, GatedNodes, Judging
<1>7. CASE PrepareWorktree
  BY <1>7, PrepareWorktreeEffect DEF Stays, Moves, Gated, GatedNodes, Judging
<1>8. CASE TddBaseline
  BY <1>8, TddBaselineEffect DEF Stays, Moves, Gated, GatedNodes, Judging
<1>9. CASE TddRedBuild
  BY <1>9, TddRedBuildEffect DEF Stays, Moves, Gated, GatedNodes, Judging
<1>10. CASE TddRedGate
  BY <1>10, TddRedGateEffect DEF Stays, Moves, Gated, GatedNodes, Judging
<1>11. CASE SnapshotFrozenRed
  BY <1>11, SnapshotEffect DEF Stays, Moves, Gated, GatedNodes, Judging
<1>12. CASE TddHuman
  BY <1>12, TddHumanEffect DEF Stays, Moves, Gated, GatedNodes, Judging
<1>13. CASE Build
  BY <1>13, BuildEffect DEF Stays, Moves, Gated, GatedNodes, Judging
<1>14. CASE Repair
  BY <1>14, RepairEffect DEF Stays, Moves, Gated, GatedNodes, Judging
<1>15. CASE Quality
  BY <1>15, QualityEffect DEF Frame, Stays, Moves, TypeInv, Typed, Keys, Gated, GatedNodes,
       Judging
<1>16. CASE Review
  BY <1>16, ReviewEffect DEF Frame, Stays, TypeInv, Typed, Keys, Around, ReviewResult,
       ReviewFields, Gated, GatedNodes, Routed
<1>17. CASE ReviewerRecovery
  BY <1>17, ReviewerRecoveryEffect DEF Frame, Stays, TypeInv, Typed, Keys, Around, Gated,
       GatedNodes, Judging, Routed
<1>18. CASE Replan
  BY <1>18, ReplanEffect DEF Stays, Moves, Gated, GatedNodes, Judging
<1>19. CASE Human
  BY <1>19, HumanEffect DEF Stays, Moves, Stopped, Approved, Continued, Renewed, Replaced,
       Gated, GatedNodes, Judging
<1>20. CASE Integrate
  BY <1>20, IntegrateEffect DEF Frame, Stays, Moves, TypeInv, Around, Refused, Commits,
       Published, Files, Gated, GatedNodes, Judging
<1>21. CASE CreatePr
  BY <1>21, CreatePrEffect DEF Stays, Moves, Gated, GatedNodes, Judging
<1>22. CASE CiPoll
  BY <1>22, CiPollEffect DEF Stays, Moves, Gated, GatedNodes, Judging
<1>23. CASE Merge
  BY <1>23, MergeEffect DEF Stays, Moves, Takes, Cleans, Accounts, Gated, GatedNodes, Judging
<1>24. CASE Refresh
  BY <1>24, RefreshEffect DEF Stays, Moves, Gated, GatedNodes, Judging
<1>25. QED
  BY <1>1, <1>2, <1>3, <1>4, <1>5, <1>6, <1>7, <1>8, <1>9, <1>10, <1>11, <1>12, <1>13, <1>14,
       <1>15, <1>16, <1>17, <1>18, <1>19, <1>20, <1>21, <1>22, <1>23, <1>24 DEF Next,
       PlanningStep, ReviewingStep, DeliveryStep, Passes, Pauses

\* Only integrate publishes a tree.
LEMMA WhoPushes ==
  ASSUME TypeInv, [Next]_vars
  PROVE  \/ repo'.branch \in {repo.branch, None}
         \/ at = "integrate" /\ Published
<1>1. CASE World \/ Rest \/ UNCHANGED vars
  BY <1>1, Still
<1>2. CASE Passes
  BY <1>2, Passing DEF Passed
<1>3. CASE Bootstrap
  BY <1>3, BootstrapEffect
<1>4. CASE Scout
  BY <1>4, ScoutEffect DEF Frame, TypeInv, Around
<1>5. CASE Plan
  BY <1>5, PlanEffect DEF TypeInv, Typed
<1>6. CASE PlannerHuman
  BY <1>6, PlannerHumanEffect
<1>7. CASE PrepareWorktree
  BY <1>7, PrepareWorktreeEffect DEF Frame, TypeInv, Around
<1>8. CASE TddBaseline
  BY <1>8, TddBaselineEffect
<1>9. CASE TddRedBuild
  BY <1>9, TddRedBuildEffect DEF Frame, TypeInv, Around
<1>10. CASE TddRedGate
  BY <1>10, TddRedGateEffect
<1>11. CASE SnapshotFrozenRed
  BY <1>11, SnapshotEffect
<1>12. CASE TddHuman
  BY <1>12, TddHumanEffect
<1>13. CASE Build
  BY <1>13, BuildEffect DEF Frame, TypeInv, Around
<1>14. CASE Repair
  BY <1>14, RepairEffect DEF Frame, TypeInv, Around
<1>15. CASE Quality
  BY <1>15, QualityEffect DEF Frame, TypeInv, Around
<1>16. CASE Review
  BY <1>16, ReviewEffect
<1>17. CASE ReviewerRecovery
  BY <1>17, ReviewerRecoveryEffect
<1>18. CASE Replan
  BY <1>18, ReplanEffect DEF Discards
<1>19. CASE Human
  BY <1>19, HumanEffect DEF Stopped, Approved, Continued, Renewed, Replaced, Discards
<1>20. CASE Integrate
  BY <1>20, IntegrateEffect DEF Frame, TypeInv, Around, Refused, Commits, Files
<1>21. CASE CreatePr
  BY <1>21, CreatePrEffect DEF Frame, TypeInv, Around
<1>22. CASE CiPoll
  BY <1>22, CiPollEffect
<1>23. CASE Merge
  BY <1>23, MergeEffect DEF Frame, TypeInv, Around, Takes, Cleans, Accounts
<1>24. CASE Refresh
  BY <1>24, RefreshEffect DEF Frame, TypeInv, Around
<1>25. QED
  BY <1>1, <1>2, <1>3, <1>4, <1>5, <1>6, <1>7, <1>8, <1>9, <1>10, <1>11, <1>12, <1>13, <1>14,
       <1>15, <1>16, <1>17, <1>18, <1>19, <1>20, <1>21, <1>22, <1>23, <1>24 DEF Next,
       PlanningStep, ReviewingStep, DeliveryStep, Passes, Pauses

\* Only merge merges.
LEMMA WhoMerges ==
  ASSUME TypeInv, [Next]_vars
  PROVE  \/ /\ repo'.pr = "merged" => repo.pr = "merged"
            /\ audit'.merged = audit.merged
         \/ at = "merge" /\ step = "start"
<1>1. CASE World \/ Rest \/ UNCHANGED vars
  BY <1>1, Still
<1>2. CASE Passes
  BY <1>2, Passing DEF Passed
<1>3. CASE Bootstrap
  BY <1>3, BootstrapEffect
<1>4. CASE Scout
  BY <1>4, ScoutEffect DEF Frame, TypeInv, Around
<1>5. CASE Plan
  BY <1>5, PlanEffect DEF Frame, TypeInv, Typed, Around
<1>6. CASE PlannerHuman
  BY <1>6, PlannerHumanEffect
<1>7. CASE PrepareWorktree
  BY <1>7, PrepareWorktreeEffect DEF Frame, TypeInv, Around
<1>8. CASE TddBaseline
  BY <1>8, TddBaselineEffect
<1>9. CASE TddRedBuild
  BY <1>9, TddRedBuildEffect DEF Frame, TypeInv, Around
<1>10. CASE TddRedGate
  BY <1>10, TddRedGateEffect
<1>11. CASE SnapshotFrozenRed
  BY <1>11, SnapshotEffect
<1>12. CASE TddHuman
  BY <1>12, TddHumanEffect
<1>13. CASE Build
  BY <1>13, BuildEffect DEF Frame, TypeInv, Around
<1>14. CASE Repair
  BY <1>14, RepairEffect DEF Frame, TypeInv, Around
<1>15. CASE Quality
  BY <1>15, QualityEffect DEF Frame, TypeInv, Around
<1>16. CASE Review
  BY <1>16, ReviewEffect DEF Frame, TypeInv, Around
<1>17. CASE ReviewerRecovery
  BY <1>17, ReviewerRecoveryEffect DEF Frame, TypeInv, Around
<1>18. CASE Replan
  BY <1>18, ReplanEffect DEF Discards
<1>19. CASE Human
  BY <1>19, HumanEffect DEF Frame, TypeInv, Around, Stopped, Approved, Continued, Renewed,
       Replaced, Discards
<1>20. CASE Integrate
  BY <1>20, IntegrateEffect DEF Frame, TypeInv, Around, Refused, Commits, Published, Files
<1>21. CASE CreatePr
  BY <1>21, CreatePrEffect
<1>22. CASE CiPoll
  BY <1>22, CiPollEffect DEF Frame, TypeInv, Around
<1>23. CASE Merge
  BY <1>23, MergeEffect DEF Frame, TypeInv, Around, Takes, Cleans, Accounts
<1>24. CASE Refresh
  BY <1>24, RefreshEffect DEF Frame, TypeInv, Around
<1>25. QED
  BY <1>1, <1>2, <1>3, <1>4, <1>5, <1>6, <1>7, <1>8, <1>9, <1>10, <1>11, <1>12, <1>13, <1>14,
       <1>15, <1>16, <1>17, <1>18, <1>19, <1>20, <1>21, <1>22, <1>23, <1>24 DEF Next,
       PlanningStep, ReviewingStep, DeliveryStep, Passes, Pauses

\* No step takes PASS from a requirement without a verifier.
LEMMA PassStays ==
  ASSUME TypeInv, Earned, NEW req \in Req \ Verified, disk.ledger[req] = "PASS", [Next]_vars
  PROVE  disk'.ledger[req] = "PASS"
<1>1. CASE World \/ Rest \/ UNCHANGED vars
  BY <1>1, Still
<1>2. CASE Passes
  BY <1>2, Passing DEF Frame, TypeInv, Around, Passed
<1>3. CASE Bootstrap
  BY <1>3, BootstrapEffect
<1>4. CASE Scout
  BY <1>4, ScoutEffect
<1>5. CASE Plan
  BY <1>5, PlanEffect DEF TypeInv, Typed, Earned
<1>6. CASE PlannerHuman
  BY <1>6, PlannerHumanEffect
<1>7. CASE PrepareWorktree
  BY <1>7, PrepareWorktreeEffect
<1>8. CASE TddBaseline
  BY <1>8, TddBaselineEffect
<1>9. CASE TddRedBuild
  BY <1>9, TddRedBuildEffect
<1>10. CASE TddRedGate
  BY <1>10, TddRedGateEffect
<1>11. CASE SnapshotFrozenRed
  BY <1>11, SnapshotEffect DEF Frame, TypeInv, Around
<1>12. CASE TddHuman
  BY <1>12, TddHumanEffect
<1>13. CASE Build
  BY <1>13, BuildEffect
<1>14. CASE Repair
  BY <1>14, RepairEffect
<1>15. CASE Quality
  BY <1>15, QualityEffect
<1>16. CASE Review
  BY <1>16, ReviewEffect
<1>17. CASE ReviewerRecovery
  BY <1>17, ReviewerRecoveryEffect
<1>18. CASE Replan
  BY <1>18, ReplanEffect DEF Discards
<1>19. CASE Human
  BY <1>19, HumanEffect DEF Stopped, Approved, Continued, Renewed, Replaced, Discards
<1>20. CASE Integrate
  BY <1>20, IntegrateEffect DEF Refused, Commits, Published, Files, Earned
<1>21. CASE CreatePr
  BY <1>21, CreatePrEffect DEF Frame, TypeInv, Around
<1>22. CASE CiPoll
  BY <1>22, CiPollEffect DEF Frame, TypeInv, Around
<1>23. CASE Merge
  BY <1>23, MergeEffect DEF Takes, Cleans, Accounts, Earned
<1>24. CASE Refresh
  BY <1>24, RefreshEffect
<1>25. QED
  BY <1>1, <1>2, <1>3, <1>4, <1>5, <1>6, <1>7, <1>8, <1>9, <1>10, <1>11, <1>12, <1>13, <1>14,
       <1>15, <1>16, <1>17, <1>18, <1>19, <1>20, <1>21, <1>22, <1>23, <1>24 DEF Next,
       PlanningStep, ReviewingStep, DeliveryStep, Passes, Pauses

\* Bootstrap comes first, and at merge only merge_pr acts.
LEMMA FirstAndLast ==
  ASSUME TypeInv, [Next]_vars
  PROVE  /\ at' = "bootstrap" => at = "bootstrap"
         /\ at = "merge" => Merge \/ World \/ Rest \/ UNCHANGED vars
<1>1. CASE World \/ Rest \/ UNCHANGED vars
  BY <1>1, Still
<1>2. CASE Passes
  BY <1>2, Passing DEF Stays, Moves, Passed, Ways, Waypoints
<1>3. CASE Bootstrap
  BY <1>3, BootstrapEffect DEF Stays, Moves
<1>4. CASE Scout
  BY <1>4, ScoutEffect DEF Stays, Moves
<1>5. CASE Plan
  BY <1>5, PlanEffect DEF Stays, Moves, TypeInv, Typed, AfterPlan
<1>6. CASE PlannerHuman
  BY <1>6, PlannerHumanEffect DEF Stays, Moves
<1>7. CASE PrepareWorktree
  BY <1>7, PrepareWorktreeEffect DEF Stays, Moves
<1>8. CASE TddBaseline
  BY <1>8, TddBaselineEffect DEF Stays, Moves
<1>9. CASE TddRedBuild
  BY <1>9, TddRedBuildEffect DEF Stays, Moves
<1>10. CASE TddRedGate
  BY <1>10, TddRedGateEffect DEF Stays, Moves
<1>11. CASE SnapshotFrozenRed
  BY <1>11, SnapshotEffect DEF Stays, Moves
<1>12. CASE TddHuman
  BY <1>12, TddHumanEffect DEF Stays, Moves
<1>13. CASE Build
  BY <1>13, BuildEffect DEF Stays, Moves
<1>14. CASE Repair
  BY <1>14, RepairEffect DEF Stays, Moves
<1>15. CASE Quality
  BY <1>15, QualityEffect DEF Stays, Moves
<1>16. CASE Review
  BY <1>16, ReviewEffect DEF Stays, Moves, Routed
<1>17. CASE ReviewerRecovery
  BY <1>17, ReviewerRecoveryEffect DEF Stays, Moves, Routed
<1>18. CASE Replan
  BY <1>18, ReplanEffect DEF Stays, Moves
<1>19. CASE Human
  BY <1>19, HumanEffect DEF Stays, Moves, Stopped, Approved, Continued, Renewed, Replaced
<1>20. CASE Integrate
  BY <1>20, IntegrateEffect DEF Stays, Moves, Refused, Commits, Published, Files
<1>21. CASE CreatePr
  BY <1>21, CreatePrEffect DEF Stays, Moves
<1>22. CASE CiPoll
  BY <1>22, CiPollEffect DEF Stays, Moves
<1>23. CASE Merge
  BY <1>23, MergeEffect DEF Stays, Moves, Takes, Cleans, Accounts
<1>24. CASE Refresh
  BY <1>24, RefreshEffect DEF Stays, Moves
<1>25. QED
  BY <1>1, <1>2, <1>3, <1>4, <1>5, <1>6, <1>7, <1>8, <1>9, <1>10, <1>11, <1>12, <1>13, <1>14,
       <1>15, <1>16, <1>17, <1>18, <1>19, <1>20, <1>21, <1>22, <1>23, <1>24 DEF Next,
       PlanningStep, ReviewingStep, DeliveryStep, Passes, Pauses

\* No merge is lost.
LEMMA MergedKept ==
  ASSUME TypeInv, TypeInv', Earned, Earned', Merged, [Next]_vars
  PROVE  Merged'
<1>1. CASE Merge
  <2>1. s.task.req \in Req BY <1>1, MergeEffect DEF TypeInv, Placed, Tasks
  <2>2. at' \in {"merge", "refresh"}
    BY <1>1, MergeEffect DEF Stays, Moves, Takes, Cleans, Accounts
  <2>3. ASSUME NEW r \in audit'.merged \ Verified
        PROVE  \/ s'.compliance[r] = "PASS" /\ disk'.ledger[r] = "PASS"
               \/ at' = "merge" /\ s'.task.req = r /\ outcome' # "ended"
    <3>1. CASE r = s.task.req
      BY <1>1, <3>1, MergeEffect DEF Stays, Moves, Frame, TypeInv, Typed, Keys, Placed, Takes,
           Cleans, Accounts
    <3>2. CASE r # s.task.req
      <4>1. r \in audit.merged \ Verified
        BY <1>1, <2>3, <3>2, MergeEffect DEF Takes, Cleans, Accounts
      <4>2. s.compliance[r] = "PASS" /\ disk.ledger[r] = "PASS" /\ r \in Req
        BY <3>2, <4>1 DEF Merged, MergeAccounted, TypeInv, Around
      <4>3. QED
        BY <1>1, <3>2, <4>2, MergeEffect DEF Stays, Takes, Cleans, Accounts
    <3>3. QED BY <3>1, <3>2
  <2>4. QED BY <2>2, <2>3 DEF Merged, MergeAccounted
<1>2. CASE World \/ Rest \/ UNCHANGED vars
  BY <1>2, Still DEF Merged, MergeAccounted
<1>3. CASE ~Merge /\ ~World /\ ~Rest /\ ~UNCHANGED vars
  <2>1. at # "merge" /\ audit'.merged = audit.merged
    BY <1>3, WhoMerges, FirstAndLast
  <2>2. at' = "bootstrap" => at = "bootstrap" BY FirstAndLast
  <2>3. ASSUME NEW r \in audit.merged \ Verified
        PROVE  \/ s'.compliance[r] = "PASS" /\ disk'.ledger[r] = "PASS"
               \/ at' = "merge" /\ s'.task.req = r /\ outcome' # "ended"
    <3>1. r \in Req \ Verified BY DEF TypeInv, Around
    <3>2. disk.ledger[r] = "PASS" BY <2>1, <2>3 DEF Merged, MergeAccounted
    <3>3. disk'.ledger[r] = "PASS" BY <3>1, <3>2, PassStays
    <3>4. at' # "bootstrap" BY <2>2, <2>3 DEF Merged
    <3>5. s'.compliance[r] = "PASS" \/ (at' = "merge" /\ r = s'.task.req)
      BY <3>1, <3>3, <3>4 DEF Earned
    <3>6. QED BY <3>3, <3>5 DEF TypeInv, Placed
  <2>4. QED BY <2>1, <2>2, <2>3 DEF Merged, MergeAccounted
<1>4. QED BY <1>1, <1>2, <1>3

-----------------------------------------------------------------------------
\* A run starts in the invariant.
LEMMA InitHolds ==
  ASSUME Init
  PROVE  IInv
<1>1. /\ at = "bootstrap" /\ step = "start" /\ waiting = None /\ answer = None
      /\ outcome = "running" /\ s = Fresh
  BY DEF Init
<1>2. /\ repo = [wt |-> None, head |-> None, branch |-> None, pr |-> "none",
                 upstream |-> 0, tracked |-> 0]
      /\ disk \in [ledger : [Req -> {"UNVERIFIED", "PASS"}], verified : {None},
                   frozen : {None}, flaky : {None}, spec : {"pinned", "edited"},
                   paused : {FALSE}, late : {FALSE}]
      /\ audit = [gated |-> None, reviewed |-> None, cleared |-> None, ci |-> None,
                  earned |-> {r \in Req : disk.ledger[r] = "PASS"}, merged |-> {},
                  answers |-> 0]
  BY DEF Init
<1>3. Typed BY <1>1 DEF Typed, Fresh, Keys, Ledgers, Statuses, OrNone
<1>4. Around BY <1>2 DEF Around, Ledgers, Statuses, OrNone
<1>5. Placed BY <1>1 DEF Placed, Nodes, Working
<1>6. Waits BY <1>1 DEF Waits, OrNone
<1>7. Frozen BY <1>1, WorkflowConstants DEF Frozen, Fresh
<1>8. Attempts BY <1>1 DEF Attempts, Fresh
<1>9. Budgets BY <1>1, Bounds DEF Budgets, Fresh
<1>10. Earned BY <1>1, <1>2 DEF Earned, Fresh
<1>11. Clean BY <1>1, <1>2 DEF Clean, Fresh
<1>12. Delivered BY <1>1, <1>2 DEF Delivered
<1>13. Outaged BY <1>1 DEF Outaged, Outages, Fresh
<1>14. Asked BY <1>1, Absent DEF Asked, HumanIsLastResort, HumanInterrupts
<1>15. AnswersRecorded BY <1>1, <1>2 DEF AnswersRecorded, DecisionTaken, Fresh
<1>16. Green BY <1>1 DEF Green
<1>17. Judgement BY <1>1 DEF Judgement, Judging, Fresh
<1>18. Gated BY <1>1 DEF Gated, GatedNodes, Judging
<1>19. Merged BY <1>2 DEF Merged, MergeAccounted
<1>20. QED
  BY <1>3, <1>4, <1>5, <1>6, <1>7, <1>8, <1>9, <1>10, <1>11, <1>12, <1>13, <1>14, <1>15, <1>16,
       <1>17, <1>18, <1>19 DEF IInv, TypeInv

\* Every step keeps it.
LEMMA NextKeeps ==
  ASSUME IInv, [Next]_vars
  PROVE  IInv'
<1>1. TypeInv' BY TypeInvKept DEF IInv
<1>2. Budgets' BY BudgetsKept DEF IInv
<1>3. Earned' BY <1>1, EarnedKept DEF IInv
<1>4. Clean' BY <1>1, CleanKept DEF IInv
<1>5. Delivered' BY <1>1, DeliveredKept DEF IInv
<1>6. Outaged' BY OutagedKept DEF IInv
<1>7. Asked' BY <1>1, AskedKept DEF IInv
<1>8. AnswersRecorded' BY <1>1, AnswersKept DEF IInv
<1>9. Green' BY <1>1, GreenKept DEF IInv
<1>10. Judgement' BY <1>1, JudgementKept DEF IInv
<1>11. Gated' BY <1>1, GatedKept DEF IInv
<1>12. Merged' BY <1>1, <1>3, MergedKept DEF IInv
<1>13. QED
  BY <1>1, <1>2, <1>3, <1>4, <1>5, <1>6, <1>7, <1>8, <1>9, <1>10, <1>11, <1>12 DEF IInv

\* Every state of a run satisfies the inductive invariant.
THEOREM Invariant == Spec => []IInv
BY InitHolds, NextKeeps, PTL DEF Spec

\* Whatever the requirements and the budgets, the state of a run has its type, and every
\* budget that the state counts stays within its limit (models.py, WorkflowState).
THEOREM TypeCorrect == Spec => []TypeOK
<1>1. IInv => TypeOK
  <2> SUFFICES ASSUME IInv PROVE TypeOK OBVIOUS
  <2>1. Typed /\ Around /\ Placed /\ Waits /\ Budgets BY DEF IInv, TypeInv
  <2>2. s.pr \in OrNone(Trees) /\ s.iteration \in 0..MaxIterations
        /\ s.repairs \in 0..(IF MaxRepairs = 0 THEN 1 ELSE MaxRepairs)
        /\ s.tddReplans \in 0..MaxReplans /\ s.redAttempts \in 0..MaxRepairs + 1
        /\ s.retries \in 0..MaxReviewRetries + 1
    BY <2>1 DEF Typed, Budgets
  <2>3. step \in {"start", "built", "committed", "pushed", "merged", "cleaned"}
    BY <2>1 DEF Placed
  <2>4. QED BY <2>1, <2>2 DEF TypeOK, Typed, Around, Placed, Waits
<1>2. QED BY <1>1, Invariant, PTL

\* PASS is never claimed for a requirement that neither a verifier passed nor a merge
\* delivered (mark_local_pass, apply_verifications, mark_remote_verified).
THEOREM PassEarned == Spec => []PassIsEarned
<1>1. IInv => PassIsEarned BY DEF IInv, Earned, PassIsEarned
<1>2. QED BY <1>1, Invariant, PTL

\* What earlier merges delivered stays PASS in the ledger for every requirement without a
\* verifier, also over crashes and into later runs (_write_compliance, _load_compliance).
THEOREM PassKept == Spec => PassIsKept
<1>1. IInv /\ [Next]_vars =>
        [\A r \in Req \ Verified : disk.ledger[r] = "PASS" => disk'.ledger[r] = "PASS"]_vars
  BY PassStays DEF IInv
<1>2. QED BY <1>1, Invariant, PTL DEF Spec, PassIsKept

\* Whatever crashed on the way, the planner starts without a worktree, a task branch or an
\* open pull request of the candidate before (_discard_current_workspace, merge_pr).
THEOREM CleanStarts == Spec => []CleanStart
<1>1. IInv => CleanStart
  BY DEF IInv, Clean, CleanStart, Between
<1>2. QED BY <1>1, Invariant, PTL

\* No merge is lost: whatever crashes come between GitHub's merge and the ledger write, the
\* merged requirement is on PASS in state and ledger, and stays there, or merge_pr is still
\* due or was broken off by a failing call (merge_pr, GitHubAdapter.merge).
THEOREM MergesAccounted == Spec => []MergeAccounted
<1>1. IInv => MergeAccounted BY DEF IInv, Merged
<1>2. QED BY <1>1, Invariant, PTL

\* A run only says that it has converged when state and ledger have every requirement on
\* PASS (targeted_plan, refresh_from_main).
THEOREM HonestEnd == Spec => []ConvergedHonestly
<1>1. IInv => ConvergedHonestly BY DEF IInv, Delivered, ConvergedHonestly
<1>2. QED BY <1>1, Invariant, PTL

\* An outage of the reviewers spends no repair and no replan, and is put to no operator
\* (route_after_review).
THEOREM OutagesAside == Spec => []OutageIsNoVerdict
<1>1. IInv => OutageIsNoVerdict
  BY DEF IInv, Outaged, Outages, Recovering, OutageIsNoVerdict
<1>2. QED BY <1>1, Invariant, PTL

\* The operator is asked about a failed candidate only when repairs and replans are used up,
\* unless the requirements were edited (AfterFailure, human_gate).
THEOREM LastResort == Spec => []HumanIsLastResort
<1>1. IInv => HumanIsLastResort BY DEF IInv, Asked
<1>2. QED BY <1>1, Invariant, PTL

\* Every decision is in the state once, or about to be (record_human_decision).
THEOREM DecisionsRecorded == Spec => []AnswersRecorded
<1>1. IInv => AnswersRecorded BY DEF IInv
<1>2. QED BY <1>1, Invariant, PTL

\* merge_pr takes only the head for which CI last reported success.
THEOREM GreenMerges == Spec => MergedIsGreen
<1>1. ASSUME IInv, [Next]_vars, repo.pr # "merged", repo'.pr = "merged"
      PROVE  repo.branch # None /\ audit.ci = [report |-> "pass", head |-> repo.branch]
  <2>1. at = "merge" BY <1>1, WhoMerges DEF IInv
  <2>2. QED BY <1>1, <2>1 DEF IInv, Green
<1>2. IInv /\ [Next]_vars =>
        [(repo.pr # "merged" /\ repo'.pr = "merged") =>
           repo.branch # None /\ audit.ci = [report |-> "pass", head |-> repo.branch]]_vars
  BY <1>1
<1>3. QED BY <1>2, Invariant, PTL DEF Spec, MergedIsGreen

\* What a push publishes is the tree in the worktree, and integrate is the node.
LEMMA WhatIsPushed ==
  ASSUME IInv, [Next]_vars, Pushes
  PROVE  at = "integrate" /\ repo'.branch = repo.wt
<1>1. at = "integrate" /\ Published BY WhoPushes DEF IInv, Pushes
<1>2. repo.head \in {None, repo.wt} BY <1>1 DEF Published, IInv, Judgement
<1>3. QED BY <1>1, <1>2 DEF Published, Pushes

\* A push publishes exactly the tree that the reviewers passed, against the base they saw,
\* free of what policy blocks and, where policy or task ask for it, approved by a human
\* (review, human_gate, integrate).
THEOREM ReviewedPushes == Spec => PushedIsReviewed
<1>1. ASSUME IInv, [Next]_vars, Pushes
      PROVE  LET tree == repo'.branch
             IN /\ tree = audit.reviewed
                /\ s.recordedBase = repo.tracked
                /\ tree.code \notin Secret
                /\ tree.code \in Risky \/ s.task.risky => tree = audit.cleared
  BY <1>1, WhatIsPushed DEF IInv, Judgement, Judging
<1>2. IInv /\ [Next]_vars =>
        [Pushes => LET tree == repo'.branch
                   IN /\ tree = audit.reviewed
                      /\ s.recordedBase = repo.tracked
                      /\ tree.code \notin Secret
                      /\ tree.code \in Risky \/ s.task.risky => tree = audit.cleared]_vars
  BY <1>1
<1>3. QED BY <1>2, Invariant, PTL DEF Spec, PushedIsReviewed

\* A push publishes the very tree that the green gates left, with the frozen RED test of a
\* test-driven task in it (quality, build, repair).
THEOREM GatedPushes == Spec => PushedIsGated
<1>1. ASSUME IInv, [Next]_vars, Pushes
      PROVE  repo'.branch = audit.gated /\ (s.task.tdd => repo'.branch.red = s.red)
  BY <1>1, WhatIsPushed DEF IInv, Gated, GatedNodes, Judging
<1>2. IInv /\ [Next]_vars =>
        [Pushes => /\ repo'.branch = audit.gated
                   /\ s.task.tdd => repo'.branch.red = s.red]_vars
  BY <1>1
<1>3. QED BY <1>2, Invariant, PTL DEF Spec, PushedIsGated

=============================================================================
