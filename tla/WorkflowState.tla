--------------------------- MODULE WorkflowState ---------------------------
(***************************************************************************)
(* The state of one convergence run and what its graph nodes share.        *)
(*                                                                         *)
(* LangGraph executes one node at a time and commits a checkpoint (the     *)
(* channels of WorkflowState, here the record `s`, and the next node, `at`) *)
(* after it: a process that dies before the commit executes the node again *)
(* over whatever the first execution left in the repository and on disk.   *)
(* Planning, Reviewing and Delivery define the nodes, Workflow composes    *)
(* them; build_graph in graph_service.py is where the edges come from.     *)
(*                                                                         *)
(* A candidate is its content: two commits, diffs or fingerprints of the   *)
(* same content are the same here.                                         *)
(***************************************************************************)
EXTENDS Naturals, Sequences, FiniteSets

CONSTANTS
  Requirements,     \* the mandatory requirements, in contract order
  Verified,         \* those with a configured deterministic verifier
  TaskKinds,        \* records [tdd, risky]: what a planned task may ask for
  Contents,         \* implementation diffs a builder can produce
  Tests,            \* versions of the RED test file a builder can write
  NoDiff,           \* the empty diff (of the implementation, of the tests)
  Risky,            \* diffs that repository policy flags for a human
  Secret,           \* diffs that repository policy blocks
  None,             \* a key that is absent or null
  MaxRepairs,       \* max_repair_attempts
  MaxReplans,       \* max_replans
  MaxReviewRetries, \* max_review_execution_retries
  MaxIterations,    \* max_iterations
  HasGitHub,        \* github_repo is configured
  AutoMerge,        \* auto_merge
  FlakyRetries,     \* max_retries_per_check of the flaky CI policy, 0 without one
  MutatingGates,    \* quality gates may rewrite files other than the frozen RED test
  PlannerFaults,    \* the ways the planner may fail
  ReviewTransport,  \* reviewer providers may be unreachable
  StrayAnswers,     \* answers operators give although the interrupt does not list them
  Limits            \* what may happen: how often each event of Events may occur

\* What the world does to a run: the process is killed, a call to git, GitHub or
\* a model fails for good, the requirements file is edited, somebody else's
\* commit lands upstream, an operator asks for a pause or answers, the CI
\* timeout passes.
Events == {"crash", "fail", "spec", "base", "pause", "answer", "late"}

ASSUME WorkflowConstants ==
  /\ Requirements \in Seq(STRING)
  /\ Verified \subseteq {Requirements[i] : i \in 1..Len(Requirements)}
  /\ TaskKinds \subseteq [tdd : BOOLEAN, risky : BOOLEAN]
  /\ Risky \subseteq Contents
  /\ Secret \subseteq Contents
  /\ {NoDiff, "absent", "failed"} \cap (Contents \cup Tests) = {}
  /\ {MaxRepairs, MaxReplans, MaxReviewRetries, MaxIterations, FlakyRetries} \subseteq Nat
  /\ {HasGitHub, AutoMerge, MutatingGates, ReviewTransport} \subseteq BOOLEAN
  /\ PlannerFaults \subseteq {"contract", "execution", "transport"}
  /\ Limits \subseteq [Events -> Nat]

VARIABLES
  at,       \* the node that is due, or "end"
  step,     \* how far the execution of that node has got
  s,        \* the checkpointed WorkflowState
  waiting,  \* the kind of the pending interrupt, or None
  answer,   \* the resume value recorded for the node, or None
  outcome,  \* "running", "ended", or "failed" (the node raised)
  repo,     \* worktree, task branch, pull request, upstream and tracked base
  disk,     \* the state directory: ledger, caches, snapshot, control signal
  env,      \* how many of each event may still happen
  audit     \* what really happened to candidates (history, read by nothing)

vars == <<at, step, s, waiting, answer, outcome, repo, disk, env, audit>>

Req == {Requirements[i] : i \in 1..Len(Requirements)}

Statuses == {"UNVERIFIED", "PARTIAL", "PASS", "FAIL"}

Ledgers == [Req -> Statuses]

\* The content of a worktree or commit against the base.
Trees == [code : Contents \cup {NoDiff}, red : Tests \cup {NoDiff}]

Base == [code |-> NoDiff, red |-> NoDiff]

Flags == {"human", "secret"}

RiskFlags(code) == {f \in Flags : \/ f = "human" /\ code \in Risky
                                  \/ f = "secret" /\ code \in Secret}

-----------------------------------------------------------------------------
\* A variant named in PROJECT.json as a mutant, such as Unrecorded below, is a
\* plausible mistake in the definition that follows it: the specification never
\* uses it, and some property of Workflow fails when it takes that place.

\* What start_run puts into a new thread, absent keys as their defaults.
Fresh == [
  status |-> "queued", iteration |-> 0,
  repairs |-> 0, replans |-> 0, tddReplans |-> 0, redAttempts |-> 0, retries |-> 0,
  compliance |-> [r \in Req |-> "UNVERIFIED"],
  control |-> None,      \* baseline.planner_control
  task |-> None, branch |-> FALSE,
  baseline |-> FALSE,    \* tdd_baseline_result.ok
  red |-> "absent",      \* tdd_red_result: absent, failed, or the frozen test
  gates |-> "none", verdict |-> "none",
  risks |-> {}, approved |-> {}, fingerprint |-> None, recordedBase |-> None,
  commit |-> None, pr |-> None, ci |-> None,
  ciHead |-> None, ciStarted |-> None, ciRetries |-> None, ciError |-> None,
  decisions |-> 0 ]      \* human_decisions, those on controlled pauses left out

Init ==
  /\ at = "bootstrap"
  /\ step = "start"
  /\ s = Fresh
  /\ waiting = None
  /\ answer = None
  /\ outcome = "running"
  /\ repo = [wt |-> None, head |-> None, branch |-> None, pr |-> "none",
             upstream |-> 0, tracked |-> 0]
  /\ disk \in [ledger : [Req -> {"UNVERIFIED", "PASS"}], verified : {None},
               frozen : {None}, flaky : {None}, spec : {"pinned", "edited"},
               paused : {FALSE}, late : {FALSE}]
  /\ env \in Limits
  /\ audit = [gated |-> None, reviewed |-> None, cleared |-> None, ci |-> None,
              earned |-> {r \in Req : disk.ledger[r] = "PASS"}, merged |-> {},
              answers |-> 0]

\* StateGraph(WorkflowState) has a channel for every key the class declares; what
\* a node returns under another key is not checkpointed (models.py, ci.py).
Undeclared == {"ci_head_sha", "ci_started_at", "ci_flaky_retries",
               "ci_flaky_retry_error"}

Channel(key, value) == IF key \in Undeclared THEN None ELSE value

-----------------------------------------------------------------------------
At(node) == outcome = "running" /\ waiting = None /\ at = node

\* The process dies: the node will be executed again from its first line.
Killed ==
  /\ env.crash > 0
  /\ env' = [env EXCEPT !.crash = @ - 1]
  /\ step' = "start"
  /\ UNCHANGED <<at, s, waiting, answer, outcome>>

\* The node returns `ns` and the router picks `next`: LangGraph commits both, or
\* the process is killed first and what the node did outside stays done.
Commit(ns, next) ==
  /\ \/ /\ s' = ns
        /\ at' = next
        /\ answer' = None
        /\ outcome' = IF next = "end" THEN "ended" ELSE outcome
        /\ step' = "start"
        /\ UNCHANGED <<waiting, env>>
     \/ /\ <<repo, disk>>' # <<repo, disk>> \/ step # "start"
        /\ Killed

\* The node has done part of its work outside and goes on.
Proceed(next) ==
  /\ step' = next
  /\ UNCHANGED <<at, s, waiting, answer, outcome, env>>

\* The node raises: the controller records the run as failed.
Fail ==
  /\ outcome' = "failed"
  /\ UNCHANGED <<at, step, s, waiting, answer, env>>

\* interrupt(): the node suspends the run until somebody answers.
Interrupt(kind) ==
  /\ waiting' = kind
  /\ UNCHANGED <<at, step, s, answer, outcome, repo, disk, env, audit>>

Outside == <<repo, disk, audit>>

Unrecorded(st) == st

\* record_human_decision.
Recorded(st) == [st EXCEPT !.decisions = @ + 1]

\* route_after_pause.
AfterPause(next, st) == IF st.status = "stopped" THEN "end" ELSE next

\* _safe_point: a pause is only noticed here; the answer is only asked for, and
\* recorded, while the signal file is there: /resume has removed it, so that it
\* is a decision on the pause only if another pause was requested meanwhile.
SafePoint(node, next) ==
  /\ At(node)
  /\ \/ /\ ~disk.paused
        /\ UNCHANGED Outside
        /\ Commit(s, AfterPause(next, s))
     \/ /\ disk.paused
        /\ answer = None
        /\ Interrupt("controlled_pause")
     \/ /\ disk.paused
        /\ answer # None
        /\ disk' = [disk EXCEPT !.paused = FALSE]
        /\ UNCHANGED <<repo, audit>>
        /\ IF answer \in {"resume", "stop"}
           THEN LET ns == [s EXCEPT !.status =
                             IF answer = "stop" THEN "stopped" ELSE "resumed"]
                IN Commit(ns, AfterPause(next, ns))
           ELSE Fail

\* guard_spec.
Guard(node, next) ==
  /\ At(node)
  /\ UNCHANGED Outside
  /\ LET ns == [s EXCEPT !.status =
                  IF disk.spec = "edited" THEN "spec_changed" ELSE "spec_ok"]
     IN Commit(ns, IF ns.status = "spec_ok" THEN next ELSE "end")

\* What replan, a merge and an edited task leave of the old candidate's state.
WithoutCandidate(st) ==
  [st EXCEPT !.task = None, !.branch = FALSE, !.gates = "none", !.verdict = "none",
             !.commit = None, !.pr = None, !.ci = None, !.repairs = 0,
             !.risks = {}, !.approved = {}, !.fingerprint = None]

DiscardedWithoutBranch(done) ==
  [repo EXCEPT
     !.pr = IF s.pr # None /\ HasGitHub /\ @ = "open" THEN "closed" ELSE @,
     !.wt = IF s.branch /\ done = 3 THEN None ELSE @,
     !.head = IF s.branch /\ done = 3 THEN None ELSE @]

\* _discard_current_workspace: close the pull request, delete the remote branch,
\* remove the worktree with its local branch, in this order; `done` of the three
\* were reached.  Each is a no-op the second time.
DiscardedTo(done) ==
  [repo EXCEPT
     !.pr = IF s.pr # None /\ HasGitHub /\ @ = "open" THEN "closed" ELSE @,
     !.branch = IF s.branch /\ done >= 2 THEN None ELSE @,
     !.wt = IF s.branch /\ done = 3 THEN None ELSE @,
     !.head = IF s.branch /\ done = 3 THEN None ELSE @]

\* The whole of it and then the checkpoint, or a process killed on the way.
DiscardThen(ns, next) ==
  /\ UNCHANGED <<disk, audit>>
  /\ \/ repo' = DiscardedTo(3) /\ Commit(ns, next)
     \/ \E done \in 1..2 : repo' = DiscardedTo(done) /\ Killed

\* _write_compliance: the state directory with this ledger.
Filed(ledger) == [disk EXCEPT !.ledger = ledger]

\* requires_tdd.
RequiresTdd(task) == task.tdd

\* record_tdd_evidence_feedback, record_no_change_feedback: tell the planner.
Feedback(control, req) ==
  IF control = None THEN [target |-> req, attempts |-> 0, recoveries |-> 0]
  ELSE [control EXCEPT !.target = req]

-----------------------------------------------------------------------------
\* The process is killed half way through a node.
Crash ==
  /\ step # "start"
  /\ Killed
  /\ UNCHANGED <<repo, disk, audit>>

\* A call the node depends on raises (git, GitHub, the sandbox, the disk).
CallFails ==
  /\ outcome = "running" /\ waiting = None
  /\ env.fail > 0
  /\ env' = [env EXCEPT !.fail = @ - 1]
  /\ outcome' = "failed"
  /\ UNCHANGED <<at, step, s, waiting, answer, repo, disk, audit>>

Happens(event) ==
  /\ outcome = "running"
  /\ env[event] > 0
  /\ env' = [env EXCEPT ![event] = @ - 1]
  /\ UNCHANGED <<at, step, s, outcome>>

EditSpec ==
  /\ disk.spec = "pinned"
  /\ disk' = [disk EXCEPT !.spec = "edited"]
  /\ Happens("spec")
  /\ UNCHANGED <<waiting, answer, repo, audit>>

BaseMoves ==
  /\ repo' = [repo EXCEPT !.upstream = @ + 1]
  /\ Happens("base")
  /\ UNCHANGED <<waiting, answer, disk, audit>>

\* ci_timeout_seconds have gone by since the first poll of this head, which starts
\* the clock: a poll that found CI pending is in the state.
TimeoutPasses ==
  /\ at \in {"ci_poll", "ci_wait"} /\ s.ci = "pending"
  /\ ~disk.late
  /\ disk' = [disk EXCEPT !.late = TRUE]
  /\ Happens("late")
  /\ UNCHANGED <<waiting, answer, repo, audit>>

\* /pause: the signal file, whatever the run is doing.
RequestPause ==
  /\ ~disk.paused
  /\ disk' = [disk EXCEPT !.paused = TRUE]
  /\ Happens("pause")
  /\ UNCHANGED <<waiting, answer, repo, audit>>

\* /resume clears the signal first and then resumes the graph.
Resume ==
  /\ waiting = "controlled_pause"
  /\ disk' = [disk EXCEPT !.paused = FALSE]
  /\ waiting' = None
  /\ answer' = "resume"
  /\ UNCHANGED <<at, step, s, outcome, repo, env, audit>>

MachineWaits == {"ci_wait", "reviewer_recovery_wait"}

\* The controller's timer resumes a machine wait.
WakeUp ==
  /\ waiting \in MachineWaits
  /\ waiting' = None
  /\ answer' = "resume"
  /\ UNCHANGED <<at, step, s, outcome, repo, disk, env, audit>>

\* What the interrupt payload lists as allowed.
Allowed(kind) ==
  CASE kind = "risk_policy" -> {"approve", "edit", "reject"}
    [] kind \in {"ci_failure_budget", "repair_replan_budget", "iteration_budget"}
         -> {"retry", "edit", "reject"}
    [] kind = "tdd_evidence_failure" -> {"replan", "stop"}
    [] kind = "planner_failure_budget" -> {"retry", "stop"}
    [] OTHER -> {}

\* What a DecisionRequest can say; it has no "replan".
Accepted == {"approve", "edit", "reject", "retry", "stop"}

\* /decision: refused for a pause and a machine wait; else the answer is passed
\* on, whether the interrupt allows it or not.
Decide ==
  /\ waiting \notin {None, "controlled_pause"} \cup MachineWaits
  /\ answer' \in Accepted \cap (Allowed(waiting) \cup StrayAnswers)
  /\ waiting' = None
  /\ audit' = [audit EXCEPT !.answers = @ + 1]
  /\ Happens("answer")
  /\ UNCHANGED <<repo, disk>>

\* /resume ends a machine wait early; that is no decision.
EarlyPoll ==
  /\ waiting \in MachineWaits
  /\ waiting' = None
  /\ answer' = "resume"
  /\ Happens("answer")
  /\ UNCHANGED <<repo, disk, audit>>

\* A run that has finished stays so, and an operator may never answer.
Rest ==
  /\ outcome # "running" \/ waiting \notin {None, "controlled_pause"} \cup MachineWaits
  /\ UNCHANGED vars

World == \/ Crash \/ CallFails \/ EditSpec \/ BaseMoves \/ TimeoutPasses
         \/ RequestPause \/ Resume \/ WakeUp \/ Decide \/ EarlyPoll

=============================================================================
