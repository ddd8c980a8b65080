------------------------------ MODULE Delivery ------------------------------
(***************************************************************************)
(* The nodes that deliver a candidate: commit and push, pull request, CI,  *)
(* merge, refresh.  Sources: workflow.py (integrate to                     *)
(* route_after_refresh), ci.py, ci_flakes.py, the merge and pull-request   *)
(* calls of github.py.                                                     *)
(***************************************************************************)
EXTENDS Reviewing

PauseIntegrate ==
  SafePoint("pause_integrate", "integrate")

LocalPassIsPass(ledger, req) == [ledger EXCEPT ![req] = "PASS"]

\* mark_local_pass: local gates and a review never make a requirement PASS.
LocalPass(ledger, req) ==
  [ledger EXCEPT ![req] = IF @ = "PASS" THEN @ ELSE "PARTIAL"]

ReplanOrEnd(st) == IF st.replans < MaxReplans THEN "replan" ELSE "end"

\* commit_all, existing_candidate_commit: a commit when the worktree differs
\* from the last one, which may be one that an interrupted execution made.
Committed ==
  [repo EXCEPT !.head = IF @ = None /\ repo.wt = Base THEN None ELSE repo.wt]

\* integrate: check the requirements file and the base the review was made on,
\* commit, push, and enter the local verdict into the ledger.
Integrate ==
  /\ At("integrate")
  /\ \/ /\ step = "start" /\ disk.spec = "edited"
        /\ UNCHANGED Outside
        /\ Commit([s EXCEPT !.status = "spec_changed"], "end")
     \/ /\ step = "start" /\ disk.spec = "pinned"
        /\ s.recordedBase \notin {None, repo.tracked}
        /\ UNCHANGED Outside
        /\ LET ns == [s EXCEPT !.commit = None, !.status = "base_moved"]
           IN Commit(ns, ReplanOrEnd(ns))
     \/ /\ step = "start" /\ disk.spec = "pinned"
        /\ s.recordedBase \in {None, repo.tracked}
        /\ repo' = Committed
        /\ UNCHANGED <<disk, audit>>
        /\ Proceed("committed")
     \/ /\ step = "committed"
        /\ repo' = [repo EXCEPT !.branch = IF repo.head = None THEN @ ELSE repo.head]
        /\ UNCHANGED <<disk, audit>>
        /\ Proceed("pushed")
     \/ /\ step = "pushed"
        /\ LET ledger == IF s.gates = "fail" THEN s.compliance
                         ELSE LocalPass(s.compliance, s.task.req)
               ns == [s EXCEPT
                        !.commit = repo.head, !.compliance = ledger,
                        !.control = IF repo.head # None THEN @
                                    ELSE Feedback(@, s.task.req),
                        !.status = IF repo.head # None THEN "pushed" ELSE "no_changes"]
           IN /\ disk' = Filed(ledger)
              /\ UNCHANGED <<repo, audit>>
              /\ Commit(ns, IF ns.commit = None THEN ReplanOrEnd(ns)
                            ELSE IF HasGitHub THEN "pause_pr" ELSE "end")

PausePr == SafePoint("pause_pr", "pr")

CreatePrStale ==
  /\ At("pr")
  /\ repo' = [repo EXCEPT !.pr = IF s.pr = None THEN "open" ELSE @]
  /\ UNCHANGED <<disk, audit>>
  /\ Commit([s EXCEPT !.pr = IF @ = None THEN repo.branch ELSE @, !.status = "pr_open"],
            "ci_poll")

\* create_pr: refresh the known pull request, or adopt the open one of this
\* branch, or open one.  The CI clock of a new head is yet to start.
CreatePr ==
  /\ At("pr")
  /\ repo' = [repo EXCEPT !.pr = IF s.pr = None THEN "open" ELSE @]
  /\ disk' = [disk EXCEPT !.late = @ /\ s.pr = repo.branch]
  /\ UNCHANGED audit
  /\ Commit([s EXCEPT !.pr = repo.branch, !.status = "pr_open"], "ci_poll")

-----------------------------------------------------------------------------
\* The retry ledger on disk and the counter of the state, for this head.
Reserved == IF disk.flaky # None /\ disk.flaky.head = s.pr THEN disk.flaky.count ELSE 0

Counted == IF s.ciHead = s.pr /\ s.ciRetries # None THEN s.ciRetries ELSE 0

Retries == IF Reserved > Counted THEN Reserved ELSE Counted

\* The start of the observation of this head is remembered, and long ago.
TimedOut == s.ciHead = s.pr /\ s.ciStarted # None /\ disk.late

\* f"ci_{result.status}".
CiStatus == [pass |-> "ci_pass", pending |-> "ci_pending", fail |-> "ci_fail",
             timeout |-> "ci_timeout"]

\* What ci_poll keeps in the state about an observation of the current head.
Observed(status, retries, error) ==
  [s EXCEPT !.ci = status, !.status = CiStatus[status],
            !.ciHead = Channel("ci_head_sha", s.pr),
            !.ciStarted = Channel("ci_started_at", "set"),
            !.ciRetries = Channel("ci_flaky_retries", retries),
            !.ciError = Channel("ci_flaky_retry_error", error)]

\* route_after_ci.
AfterCi(st) ==
  CASE st.ci = "pending" -> "ci_wait"
    [] st.ci = "pass" -> IF AutoMerge THEN "pause_merge" ELSE "end"
    [] OTHER -> IF st.ciError # None THEN "human" ELSE AfterFailure(st)

Poll(ns) == Commit(ns, AfterCi(ns))

Rerunnable(report) == report = "flaky" /\ Retries < FlakyRetries

\* What GitHub can report; only a policy for flaky checks knows "flaky" failures.
Reports == {"pass", "pending", "fail"} \cup (IF FlakyRetries > 0 THEN {"flaky"} ELSE {})

\* ci_poll: a failure of a check known to be flaky is run again, once its retry
\* has been reserved on disk, so that a crash cannot run it again unnoticed.
CiPoll ==
  /\ At("ci_poll")
  /\ UNCHANGED repo
  /\ \E report \in Reports :
       /\ audit' = [audit EXCEPT !.ci = [report |-> report, head |-> s.pr]]
       /\ CASE report = "pass" -> UNCHANGED disk /\ Poll(Observed("pass", Retries, None))
            [] report = "pending" ->
                 /\ UNCHANGED disk
                 /\ Poll(Observed(IF TimedOut THEN "timeout" ELSE "pending",
                                  Retries, None))
            [] report \in {"fail", "flaky"} /\ TimedOut ->
                 UNCHANGED disk /\ Poll(Observed("fail", Retries, None))
            [] report \in {"fail", "flaky"} /\ ~TimedOut /\ Reserved > Counted ->
                 UNCHANGED disk /\ Poll(Observed("pending", Retries, None))
            [] report \in {"fail", "flaky"} /\ ~TimedOut /\ Reserved <= Counted ->
                 IF Rerunnable(report)
                 THEN /\ disk' = [disk EXCEPT !.flaky =
                                    [head |-> s.pr, count |-> Retries + 1]]
                      /\ \/ Poll(Observed("pending", Retries + 1, None))
                         \/ Poll(Observed("fail", Retries + 1, "GitHubError"))
                 ELSE UNCHANGED disk /\ Poll(Observed("fail", Retries, None))

CiWait ==
  /\ At("ci_wait")
  /\ \/ answer = None /\ Interrupt("ci_wait")
     \/ /\ answer # None
        /\ UNCHANGED Outside
        /\ IF answer \in {"resume", "poll"}
           THEN Commit([s EXCEPT !.status = "ci_wait_elapsed"], "ci_poll")
           ELSE Fail

PauseMerge == SafePoint("pause_merge", "merge")

-----------------------------------------------------------------------------
\* mark_remote_verified.
RemotePass(ledger, req) == [ledger EXCEPT ![req] = "PASS"]

MergeTakenForDone ==
  /\ At("merge")
  /\ \/ /\ step = "start" /\ repo.pr = "merged"
        /\ UNCHANGED Outside
        /\ Commit([s EXCEPT !.status = "merged"], "refresh")
     \/ /\ step = "start" /\ repo.pr # "merged"
        /\ repo' = [repo EXCEPT !.pr = "merged", !.upstream = @ + 1]
        /\ audit' = [audit EXCEPT !.earned = @ \cup {s.task.req},
                                  !.merged = @ \cup {s.task.req}]
        /\ UNCHANGED disk
        /\ Proceed("merged")
     \/ /\ step = "merged"
        /\ disk' = Filed(RemotePass(s.compliance, s.task.req))
        /\ UNCHANGED <<repo, audit>>
        /\ Commit([s EXCEPT !.compliance = disk'.ledger, !.status = "merged"],
                  "refresh")

\* merge_pr: merge unless an interrupted execution has, remove branch and
\* worktree, then write the ledger.
Merge ==
  /\ At("merge")
  /\ \/ /\ step = "start"
        /\ repo' = [repo EXCEPT !.pr = "merged",
                                !.upstream = IF repo.pr = "merged" THEN @ ELSE @ + 1]
        /\ audit' = [audit EXCEPT !.earned = @ \cup {s.task.req},
                                  !.merged = @ \cup {s.task.req}]
        /\ UNCHANGED disk
        /\ Proceed("merged")
     \/ /\ step = "merged"
        /\ repo' = [repo EXCEPT !.branch = None, !.wt = None, !.head = None]
        /\ UNCHANGED <<disk, audit>>
        /\ Proceed("cleaned")
     \/ /\ step = "cleaned"
        /\ LET ledger == RemotePass(s.compliance, s.task.req)
           IN /\ disk' = Filed(ledger)
              /\ UNCHANGED <<repo, audit>>
              /\ Commit([s EXCEPT !.compliance = ledger, !.status = "merged"],
                        "refresh")

\* refresh_from_main, route_after_refresh.
Refresh ==
  /\ At("refresh")
  /\ repo' = [repo EXCEPT !.tracked = repo.upstream]
  /\ UNCHANGED <<disk, audit>>
  /\ LET converged == \A r \in Req : s.compliance[r] = "PASS"
         ns == [WithoutCandidate(s) EXCEPT
                  !.replans = 0, !.tddReplans = 0, !.retries = 0,
                  !.status = IF converged THEN "converged"
                             ELSE IF s.iteration >= MaxIterations
                                  THEN "iteration_budget_exhausted"
                                  ELSE "ready_next_iteration"]
     IN Commit(ns, CASE ns.status = "ready_next_iteration" -> "guard_plan"
                     [] ns.status = "iteration_budget_exhausted" -> "human"
                     [] ns.status = "converged" -> "end")

DeliveryStep ==
  \/ PauseIntegrate \/ Integrate \/ PausePr \/ CreatePr \/ CiPoll \/ CiWait
  \/ PauseMerge \/ Merge \/ Refresh

=============================================================================
