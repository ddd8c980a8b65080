----------------------------- MODULE Acceptance -----------------------------
(***************************************************************************)
(* The external acceptance scenario: converge-acceptance supervise          *)
(* (acceptance_supervisor.py) beside the runs and API controllers that it   *)
(* starts, watches, restarts and answers, and the verdict on its evidence   *)
(* (acceptance.py, acceptance_provenance.py).                               *)
(*                                                                         *)
(* A supervisor is a process that may be killed between any two effects; it *)
(* then leaves its controller running and its journal on disk, and another  *)
(* attempt may follow.  What a run does is its own choice (see Workflow);   *)
(* mishaps records what went otherwise than the scenario plans.             *)
(***************************************************************************)
EXTENDS Naturals, FiniteSets, Sequences

CONSTANTS
  Runs,        \* runs of the acceptance project
  Pids,        \* process ids of controllers; one may be used again
  Tasks,       \* tasks that may be merged
  Flags,       \* risk flags that policy may raise
  Contents,    \* contents of a candidate's worktree
  None,        \* no run, process, content or artifact
  Retries,     \* _API_TRANSPORT_RETRIES
  MaxAttempts, \* bound: supervise commands
  MaxMishaps   \* bound: kinds of mishaps besides time-outs and lost answers

ASSUME AcceptanceConstants ==
  /\ None \notin Runs \cup Pids \cup Contents
  /\ {Retries, MaxAttempts, MaxMishaps} \subseteq Nat

VARIABLES
  \* the runs: checkpoint, worktree and evidence
  phase,     \* what the run does or waits for
  driver,    \* the controller whose worker executes it
  merged,    \* the tasks that its event stream calls merged
  flags,     \* the flags of its risk_policy interrupt
  reviewed,  \* the content that the interrupt is about (risk_fingerprint)
  content,   \* the content of its worktree
  answered,  \* a decision was submitted and its node has not returned
  decisions, \* human_decisions: the flags each of them approved
  defects,   \* what its evidence lacks when it is over
  \* the machine and the disk
  alive,     \* the controllers that run
  project,   \* the project is registered
  journal,   \* supervisor-progress.json of each run
  output,    \* what lies at --output
  audit,     \* external-final-audit.json of each run
  report,    \* external-acceptance-report.json of each run
  \* the supervisor's process
  at,        \* where it stands
  api,       \* its controller
  run,       \* its run, once it knows it
  flag,      \* --expected-risk-flag
  old,       \* before_pid
  fresh,     \* the run's event stream has grown since event_count_before
  shown,     \* the fingerprint taken before the operator was asked
  checks,    \* the verdicts of the final audit
  tries,     \* failed attempts of the request under way
  \* history
  attempts, mishaps, verdict,
  revived,   \* runs that the restarted controller has executed
  asked      \* runs and contents that an operator said yes to

runVars == <<phase, driver, merged, flags, reviewed, content, answered, decisions, defects>>
diskVars == <<project, journal, output, audit, report>>
procVars == <<at, api, run, flag, old, fresh, shown, checks, tries>>
historyVars == <<attempts, mishaps, verdict, revived, asked>>
vars == <<runVars, alive, diskVars, procVars, historyVars>>

Finished == {"converged", "stopped"}
Machine == {"ci_wait", "reviewer_recovery_wait"}
Phases == {"absent", "work", "risk_policy", "other"} \cup Machine \cup Finished
Waits == {"merge_events", "merge_status", "recovery", "risk", "converge"}
Places == Waits \cup {"idle", "register", "create", "open", "count", "stop", "start", "restarted",
                      "show", "operator", "recheck", "post", "lost", "record", "audit", "output",
                      "write_audit", "report"}

\* What evaluate_external_acceptance finds on disk and in the checkpoint, per task and per run.
TaskChecks == {"artifacts", "quality", "review", "ci", "pr", "traceability", "risk", "diff"}
RunChecks == {"immutable_requirements", "run_budget", "event_stream", "final_compliance"}
Lanes == {"requirements", "architecture", "compatibility", "security"}

Progress == [flag : Flags, restarted : BOOLEAN, before : Pids \cup {None}, after : Pids \cup {None},
             observed : BOOLEAN, approved : Contents \cup {None}]

\* No progress and no report are not a kind of progress and of report.
ASSUME Absent == None \notin Progress /\ None \notin {"ready", "rejected"}

Init ==
  /\ phase = [r \in Runs |-> "absent"]
  /\ driver = [r \in Runs |-> None]
  /\ merged = [r \in Runs |-> {}]
  /\ flags = [r \in Runs |-> {}]
  /\ reviewed = [r \in Runs |-> None]
  /\ content = [r \in Runs |-> None]
  /\ answered = [r \in Runs |-> FALSE]
  /\ decisions = [r \in Runs |-> <<>>]
  /\ defects = [r \in Runs |-> {}]
  /\ alive = {} /\ project = FALSE
  /\ journal = [r \in Runs |-> None]
  /\ output = None
  /\ audit = [r \in Runs |-> None]
  /\ report = [r \in Runs |-> None]
  /\ at = "idle" /\ api = None /\ run = None /\ flag \in Flags /\ old = None
  /\ fresh = FALSE /\ shown = None /\ checks = {} /\ tries = 0
  /\ attempts = 0 /\ mishaps = {} /\ verdict = "none" /\ revived = {} /\ asked = {}

\* A step that needs what is in why to go wrong.
Needs(why) ==
  /\ mishaps' = mishaps \cup why
  /\ \/ why \subseteq {"timeout", "transport"}
     \/ Cardinality(mishaps' \ {"timeout", "transport"}) <= MaxMishaps

-----------------------------------------------------------------------------
\* The run, while the worker of a living controller executes it.  The planned scenario: merges,
\* then one risk_policy interrupt after the restart, then convergence with complete evidence.
Works(r) == phase[r] = "work" /\ driver[r] \in alive

\* Mutant: takes a finished run up again.
UnfinishedOrDone(r) == phase[r] # "absent"

Unfinished(r) == phase[r] \notin Finished \cup {"absent"}

\* Whatever a run does appends to events.jsonl; an event of the controller about to be stopped
\* comes after event_count_before and is not one of its successor.
Events(r, why) ==
  /\ fresh' = (fresh \/ r = run)
  /\ Needs(why \cup IF r = run /\ at = "stop" THEN {"noise"} ELSE {})

Recovered(r) == r = run /\ journal[r] # None /\ journal[r].observed

\* integrate's merged event; the event of a merge may be written again.
Merge(r) ==
  /\ Works(r) /\ Events(r, {})
  /\ \E t \in Tasks : merged' = [merged EXCEPT ![r] = @ \cup {t}]
  /\ UNCHANGED <<phase, driver, flags, reviewed, content, answered, decisions, defects>>

Interrupted(r, kind) ==
  /\ phase' = [phase EXCEPT ![r] = kind]
  /\ driver' = [driver EXCEPT ![r] = None]

\* ci_wait, and the wait for reviewers that cannot be reached: timers end both.
WaitForMachine(r) ==
  /\ Works(r) /\ Events(r, {})
  /\ \E kind \in Machine : Interrupted(r, kind)
  /\ UNCHANGED <<merged, flags, reviewed, content, answered, decisions, defects>>

\* human_gate with kind risk_policy.
RaiseRisk(r) ==
  /\ Works(r) /\ Interrupted(r, "risk_policy")
  /\ \E c \in Contents, f \in (SUBSET Flags) \ {{}} :
       /\ flags' = [flags EXCEPT ![r] = f]
       /\ reviewed' = [reviewed EXCEPT ![r] = c]
       /\ content' = [content EXCEPT ![r] = c]
       /\ Events(r, IF Recovered(r) /\ decisions[r] = <<>> /\ flag \in f THEN {} ELSE {"astray"})
  /\ UNCHANGED <<merged, answered, decisions, defects>>

\* Any other interrupt that waits for a human.
RaiseOther(r) ==
  /\ Works(r) /\ Events(r, {"astray"}) /\ Interrupted(r, "other")
  /\ UNCHANGED <<merged, flags, reviewed, content, answered, decisions, defects>>

\* The graph ends, with whatever its evidence lacks.
Finish(r) ==
  /\ Works(r)
  /\ \E end \in Finished, d \in {{}} \cup {{c} : c \in TaskChecks \cup RunChecks} :
       /\ Interrupted(r, end)
       /\ defects' = [defects EXCEPT ![r] = d]
       /\ LET planned == /\ end = "converged" /\ d = {}
                         /\ Len(decisions[r]) = 1 /\ Cardinality(merged[r]) >= 2
          IN Events(r, IF planned THEN {} ELSE {"astray"})
  /\ UNCHANGED <<merged, flags, reviewed, content, answered, decisions>>

\* The node of the interrupt returns; only then is the interrupt gone from the checkpoint.
TakeUp(r) ==
  /\ answered[r] /\ driver[r] \in alive /\ Events(r, {})
  /\ phase' = [phase EXCEPT ![r] = "work"]
  /\ answered' = [answered EXCEPT ![r] = FALSE]
  /\ decisions' = [decisions EXCEPT ![r] = Append(@, flags[r])]
  /\ UNCHANGED <<driver, merged, flags, reviewed, content, defects>>

RunStep ==
  /\ \E r \in Runs : \/ Merge(r) \/ WaitForMachine(r) \/ RaiseRisk(r)
                     \/ RaiseOther(r) \/ Finish(r) \/ TakeUp(r)
  /\ UNCHANGED <<alive, diskVars, at, api, run, flag, old, shown, checks, tries,
                 attempts, verdict, revived, asked>>

\* A living controller takes up what nobody executes: at its start, or when a timer fires.
Recover(c, r) ==
  /\ phase[r] \in {"work"} \cup Machine /\ driver[r] \notin alive
  /\ phase' = [phase EXCEPT ![r] = "work"]
  /\ driver' = [driver EXCEPT ![r] = c]
  /\ revived' = IF c = api /\ at \in {"restarted", "recovery"} THEN revived \cup {r} ELSE revived
  /\ UNCHANGED <<merged, flags, reviewed, content, answered, decisions, defects, alive, diskVars,
                 procVars, attempts, mishaps, verdict, asked>>

\* Somebody edits the worktree while the decision is open.
Edit(r) ==
  /\ phase[r] = "risk_policy" /\ Needs({"edit"})
  /\ \E c \in Contents \ {content[r]} : content' = [content EXCEPT ![r] = c]
  /\ UNCHANGED <<phase, driver, merged, flags, reviewed, answered, decisions, defects, alive,
                 diskVars, procVars, attempts, verdict, revived, asked>>

\* With its process a controller loses its workers and the decisions they had not taken up.
Killed(c) ==
  /\ alive' = alive \ {c}
  /\ driver' = [r \in Runs |-> IF driver[r] = c THEN None ELSE driver[r]]
  /\ answered' = [r \in Runs |-> answered[r] /\ driver[r] # c]
  /\ UNCHANGED <<phase, merged, flags, reviewed, content, decisions, defects>>

Dies(c) ==
  /\ Killed(c) /\ Needs({"death"})
  /\ UNCHANGED <<diskVars, procVars, attempts, verdict, revived, asked>>

-----------------------------------------------------------------------------
\* The supervisor.
Goes(place) == at' = place

\* The API answers; a read that was retried before is forgotten.
Answers == api \in alive /\ tries' = 0

NoProgress == [flag |-> flag, restarted |-> FALSE, before |-> None, after |-> None,
               observed |-> FALSE, approved |-> None]

Saves(p) == journal' = [journal EXCEPT ![run] = p]

Leaves(result) ==
  /\ Goes("idle") /\ verdict' = result
  /\ api' = None /\ run' = None /\ old' = None /\ shown' = None
  /\ checks' = {} /\ tries' = 0 /\ fresh' = FALSE
  /\ UNCHANGED flag

\* AcceptanceSupervisorError: a failure record, unless the run is unknown or its success evidence
\* is written; then the controller is stopped.  Nothing that follows the success evidence raises
\* it: writing and judging the reports can only fail with an OSError or a ValueError (Escapes).
SuccessWritten == at \in {"write_audit", "report"}

Fail(why) ==
  /\ mishaps' = mishaps \cup why
  /\ output' = IF run = None \/ SuccessWritten THEN output ELSE [kind |-> "failure", run |-> run]
  /\ Killed(api) /\ Leaves("failed")
  /\ UNCHANGED <<project, journal, audit, report, attempts, revived, asked>>

\* Any other exception (git, a full disk at any of the writes, a model budget, a report that is
\* refused): no record, but the controller is stopped.
Escapes ==
  /\ at \notin {"idle", "operator"} /\ Needs({"escape"})
  /\ Killed(api) /\ Leaves("failed")
  /\ UNCHANGED <<diskVars, attempts, revived, asked>>

\* The supervisor is killed and its controller is not.
Crash ==
  /\ at # "idle" /\ Needs({"crash"})
  /\ Leaves("failed")
  /\ UNCHANGED <<runVars, alive, diskVars, attempts, revived, asked>>

\* Mutant: retries once too often.
ReadFailsOnceMore ==
  /\ at \in Waits \ {"merge_events"}
  /\ IF tries <= Retries
     THEN /\ tries' = tries + 1
          /\ UNCHANGED <<runVars, alive, diskVars, at, api, run, flag, old, fresh, shown, checks,
                         historyVars>>
     ELSE Fail({"transport"})

\* _api_json: reads are repeated Retries times; then, or when a write is not answered, it is over.
ReadFails ==
  /\ at \in Waits \ {"merge_events"}
  /\ IF tries < Retries
     THEN /\ tries' = tries + 1
          /\ UNCHANGED <<runVars, alive, diskVars, at, api, run, flag, old, fresh, shown, checks,
                         historyVars>>
     ELSE Fail({"transport"})

\* The deadline of a wait: the wall time of the run and a minute.
TimesOut == at \in Waits /\ Fail({"timeout"})

\* The command: preflight, the one unfinished run if there is one, and a controller of its own.
Unfinisheds == {r \in Runs : Unfinished(r)}

Begin ==
  /\ at = "idle" /\ attempts < MaxAttempts
  /\ attempts' = attempts + 1
  /\ \E p \in Pids \ alive : alive' = alive \cup {p} /\ api' = p
  /\ flag' \in Flags
  /\ \/ Unfinisheds = {} /\ run' = None /\ Goes(IF project THEN "create" ELSE "register")
     \/ run' \in Unfinisheds /\ Cardinality(Unfinisheds) = 1 /\ Goes("open")
  /\ verdict' = "none"
  /\ UNCHANGED <<runVars, diskVars, old, fresh, shown, checks, tries, mishaps, revived, asked>>

\* Writes: done and answered, or not answered, when it may have been done all the same.
Register ==
  /\ at = "register"
  /\ \/ /\ Answers /\ project' = TRUE /\ Goes("create")
        /\ UNCHANGED <<runVars, alive, journal, output, audit, report, api, run, flag, old, fresh,
                       shown, checks, historyVars>>
     \/ Fail({"transport"})

Submitted(r) ==
  /\ phase[r] = "absent" /\ api \in alive
  /\ phase' = [phase EXCEPT ![r] = "work"]
  /\ driver' = [driver EXCEPT ![r] = api]
  /\ UNCHANGED <<merged, flags, reviewed, content, answered, decisions, defects>>

Create ==
  /\ at = "create"
  /\ \/ \E r \in Runs :
          /\ Submitted(r) /\ run' = r /\ Goes("open")
          /\ UNCHANGED <<alive, diskVars, api, flag, old, fresh, shown, checks, tries, historyVars>>
     \/ \E r \in Runs :   \* the answer is lost, and with it the run's id
          /\ Submitted(r) /\ Needs({"transport"}) /\ Goes("lost")
          /\ UNCHANGED <<alive, diskVars, api, run, flag, old, fresh, shown, checks, tries,
                         attempts, verdict, revived, asked>>
     \/ Fail({"transport"})

\* The journal of the run: made, or read and continued where it ends.
Open ==
  /\ at = "open"
  /\ LET p == journal[run]
     IN IF p = None
        THEN /\ Saves(NoProgress) /\ Goes("merge_events")
             /\ UNCHANGED <<runVars, alive, project, output, audit, report, api, run, flag, old,
                            fresh, shown, checks, tries, historyVars>>
        ELSE IF p.flag # flag \/ (p.restarted /\ ~p.observed) THEN Fail({})
        ELSE /\ Goes(IF ~p.restarted THEN "merge_events"
                     ELSE IF p.approved = None THEN "risk" ELSE "converge")
             /\ UNCHANGED <<runVars, alive, diskVars, api, run, flag, old, fresh, shown, checks,
                            tries, historyVars>>

\* Mutant: takes a wait for CI for an exception.
HumanAlsoCi == phase[run] \in {"risk_policy", "other", "reviewer_recovery_wait", "ci_wait"}

\* What the supervisor takes for a human interrupt: every one but ci_wait.
Human == phase[run] \in {"risk_policy", "other", "reviewer_recovery_wait"}

Blames == CASE phase[run] = "reviewer_recovery_wait" -> {"outage"}
            [] answered[run] -> {"stale"}
            [] OTHER -> {}

Moves == UNCHANGED <<runVars, alive, diskVars, api, run, flag, old, fresh, shown, checks, historyVars>>

\* _wait_for_first_merge reads the event stream, then asks for the status.
ReadMerges ==
  /\ at = "merge_events"
  /\ Goes(IF merged[run] # {} THEN "count" ELSE "merge_status")
  /\ UNCHANGED tries /\ Moves

AskBeforeMerge ==
  /\ at = "merge_status" /\ api \in alive
  /\ IF phase[run] \in Finished \/ Human THEN Fail(Blames)
     ELSE Goes("merge_events") /\ tries' = 0 /\ Moves

\* event_count_before and before_pid; then the controller is stopped and another one started.
Count ==
  /\ at = "count"
  /\ fresh' = FALSE /\ old' = api /\ Goes("stop")
  /\ UNCHANGED <<runVars, alive, diskVars, api, run, flag, shown, checks, tries, historyVars>>

Stop ==
  /\ at = "stop"
  /\ Killed(api) /\ Goes("start")
  /\ UNCHANGED <<diskVars, api, run, flag, old, fresh, shown, checks, tries, historyVars>>

Start ==
  /\ at = "start"
  /\ \/ /\ \E p \in Pids \ alive : api' = p /\ alive' = alive \cup {p}
        /\ Goes("restarted")
        /\ UNCHANGED <<runVars, diskVars, run, flag, old, fresh, shown, checks, tries, historyVars>>
     \/ Fail({"death"})

Restarted ==
  /\ at = "restarted"
  /\ IF api = old THEN Fail({"same_pid"})
     ELSE /\ Saves([journal[run] EXCEPT !.restarted = TRUE, !.before = old, !.after = api])
          /\ Goes("recovery")
          /\ UNCHANGED <<runVars, alive, project, output, audit, report, api, run, flag, old, fresh,
                         shown, checks, tries, historyVars>>

\* A worker in the new controller, or a longer event stream, is taken for the recovery.
Alive(r) == driver[r] = api /\ (phase[r] = "work" \/ answered[r])

AskRecovery ==
  /\ at = "recovery" /\ Answers
  /\ IF Alive(run) \/ fresh
     THEN /\ Saves([journal[run] EXCEPT !.observed = TRUE]) /\ Goes("risk")
          /\ UNCHANGED <<runVars, alive, project, output, audit, report, api, run, flag, old, fresh,
                         shown, checks, historyVars>>
     ELSE IF phase[run] \in Finished THEN Fail({})
     ELSE UNCHANGED at /\ Moves

\* _wait_for_risk_interrupt: the one with the declared flag, and none but machine waits before it.
AskRisk ==
  /\ at = "risk" /\ Answers
  /\ IF phase[run] \in Finished \/ (Human /\ ~(phase[run] = "risk_policy" /\ flag \in flags[run]))
     THEN Fail(Blames)
     ELSE /\ Goes(IF phase[run] = "risk_policy" THEN "show" ELSE "risk")
          /\ Moves

\* Mutant: what lies in the worktree, whatever policy judged.
FingerprintNow == content[run]

\* _candidate_fingerprint: the worktree must be what the checkpoint says that policy judged.
Fingerprint == IF content[run] = reviewed[run] THEN content[run] ELSE None

Show ==
  /\ at = "show"
  /\ IF Fingerprint = None THEN Fail({})
     ELSE /\ shown' = Fingerprint /\ Goes("operator")
          /\ UNCHANGED <<runVars, alive, diskVars, api, run, flag, old, fresh, checks, tries,
                         historyVars>>

\* The operator is shown the interrupt and takes any time to answer.
Operator ==
  /\ at = "operator"
  /\ \/ /\ Goes("recheck")
        /\ UNCHANGED <<runVars, alive, diskVars, api, run, flag, old, fresh, shown, checks, tries,
                       historyVars>>
     \/ Fail({"declined"})

Recheck ==
  /\ at = "recheck"
  /\ IF Fingerprint # shown THEN Fail({})
     ELSE Goes("post") /\ UNCHANGED tries /\ Moves

\* POST decision: the controller submits the approval and answers at once.
Decided ==
  /\ phase[run] = "risk_policy" /\ ~answered[run] /\ api \in alive
  /\ answered' = [answered EXCEPT ![run] = TRUE]
  /\ driver' = [driver EXCEPT ![run] = api]
  /\ asked' = asked \cup {<<run, shown>>}
  /\ UNCHANGED <<phase, merged, flags, reviewed, content, decisions, defects>>

Post ==
  /\ at = "post"
  /\ \/ /\ Decided /\ Goes("record")
        /\ UNCHANGED <<alive, diskVars, api, run, flag, old, fresh, shown, checks, tries,
                       attempts, mishaps, verdict, revived>>
     \/ /\ Decided /\ Needs({"transport"})   \* the answer is lost; the controller is killed later
        /\ Goes("lost")
        /\ UNCHANGED <<alive, diskVars, api, run, flag, old, fresh, shown, checks, tries,
                       attempts, verdict, revived>>
     \/ Fail({"transport"})

\* How far the worker got before its controller is stopped is open.
Lost == at = "lost" /\ Fail({"transport"})

Record ==
  /\ at = "record"
  /\ Saves([journal[run] EXCEPT !.approved = shown]) /\ Goes("converge")
  /\ UNCHANGED <<runVars, alive, project, output, audit, report, api, run, flag, old, fresh, shown,
                 checks, tries, historyVars>>

AskConverged ==
  /\ at = "converge" /\ Answers
  /\ IF phase[run] = "stopped" \/ Human THEN Fail(Blames)
     ELSE /\ Goes(IF phase[run] = "converged" THEN "audit" ELSE "converge")
          /\ Moves

-----------------------------------------------------------------------------
\* What evaluate_external_acceptance asks of the run and of the supervisor's evidence.
Evidence == [run : Runs, before : Pids \cup {None}, after : Pids \cup {None}, observed : BOOLEAN,
             flag : Flags, approved : BOOLEAN, checks : SUBSET (Lanes \cup {"evidence"})]

RestartOk(r, e) == e.run = r /\ e.before # e.after /\ e.observed

\* Mutant: more approvals than one.
HitlOkOnce(r, e) == e.run = r /\ e.approved /\ Len(decisions[r]) > 0

\* Exactly one checkpointed human decision, and it approved the declared flag.
HitlOk(r, e) ==
  /\ e.run = r /\ e.approved
  /\ Len(decisions[r]) = 1 /\ e.flag \in decisions[r][1]

RunOk(r) == phase[r] = "converged" /\ defects[r] = {} /\ Cardinality(merged[r]) >= 2

Ready(r, e) == /\ RunOk(r) /\ RestartOk(r, e) /\ HitlOk(r, e)
               /\ e.run = r /\ e.checks = Lanes \cup {"evidence"}

\* evaluate_external_acceptance_with_provenance: the evidence must be what the journal and the
\* audit file of the same run say.
ProvenReady(r, e) ==
  /\ Ready(r, e)
  /\ LET p == journal[r]
     IN /\ p # None /\ p.restarted /\ p.before = e.before /\ p.after = e.after
        /\ p.observed /\ p.approved # None /\ p.flag = e.flag
  /\ audit[r] = Lanes \cup {"evidence"}

\* The evidence of this supervisor, before and after the final audit.
Emitted == [run |-> run, before |-> journal[run].before, after |-> journal[run].after,
            observed |-> journal[run].observed, flag |-> flag,
            approved |-> journal[run].approved # None, checks |-> checks]

\* _run_final_audit: the controller is stopped, every lane gives a verdict (an outage is a
\* rejection, no JSON an error), and "evidence" is what the rest of the report says.
Audit ==
  /\ at = "audit"
  /\ \/ Fail({"audit"})
     \/ \E passed \in {Lanes} \cup {Lanes \ {l} : l \in Lanes} :
          /\ Needs(IF passed = Lanes THEN {} ELSE {"audit"})
          /\ LET rest == RunOk(run) /\ RestartOk(run, Emitted) /\ HitlOk(run, Emitted)
             IN checks' = passed \cup (IF rest THEN {"evidence"} ELSE {})
          /\ Killed(api) /\ Goes("output")
          /\ UNCHANGED <<diskVars, api, run, flag, old, fresh, shown, tries, attempts, verdict,
                         revived, asked>>

WriteOutput ==
  /\ at = "output"
  /\ output' = [kind |-> "success", run |-> run, evidence |-> Emitted]
  /\ Goes("write_audit")
  /\ UNCHANGED <<runVars, alive, project, journal, audit, report, api, run, flag, old, fresh, shown,
                 checks, tries, historyVars>>

WriteAudit ==
  /\ at = "write_audit"
  /\ audit' = [audit EXCEPT ![run] = checks]
  /\ Goes("report")
  /\ UNCHANGED <<runVars, alive, project, journal, output, report, api, run, flag, old, fresh,
                 shown, checks, tries, historyVars>>

WriteReport ==
  /\ at = "report"
  /\ LET result == IF Ready(run, Emitted) THEN "ready" ELSE "rejected"
     IN report' = [report EXCEPT ![run] = result] /\ Leaves(result)
  /\ UNCHANGED <<runVars, alive, project, journal, output, audit, attempts, mishaps, revived, asked>>

Supervisor ==
  \/ ReadFails \/ TimesOut \/ Register \/ Create \/ Open \/ ReadMerges \/ AskBeforeMerge \/ Count
  \/ Stop \/ Start \/ Restarted \/ AskRecovery \/ AskRisk \/ Show \/ Recheck \/ Post \/ Lost \/ Record
  \/ AskConverged \/ Audit \/ WriteOutput \/ WriteAudit \/ WriteReport

Next ==
  \/ RunStep \/ Supervisor \/ Begin \/ Operator \/ Escapes \/ Crash
  \/ \E c \in alive, r \in Runs : Recover(c, r)
  \/ \E r \in Runs : Edit(r)
  \/ \E c \in alive : Dies(c)

Spec == Init /\ [][Next]_vars

-----------------------------------------------------------------------------
Mishaps == {"astray", "audit", "crash", "death", "declined", "edit", "escape", "flag", "noise",
            "outage", "same_pid", "stale", "timeout", "transport"}

TypeOK ==
  /\ phase \in [Runs -> Phases]
  /\ driver \in [Runs -> Pids \cup {None}]
  /\ merged \in [Runs -> SUBSET Tasks]
  /\ flags \in [Runs -> SUBSET Flags]
  /\ {reviewed, content} \subseteq [Runs -> Contents \cup {None}]
  /\ answered \in [Runs -> BOOLEAN]
  /\ decisions \in [Runs -> Seq(SUBSET Flags)]
  /\ defects \in [Runs -> SUBSET (TaskChecks \cup RunChecks)]
  /\ alive \subseteq Pids /\ project \in BOOLEAN
  /\ journal \in [Runs -> Progress \cup {None}]
  /\ \/ output = None
     \/ output \in [kind : {"failure"}, run : Runs]
     \/ output \in [kind : {"success"}, run : Runs, evidence : Evidence]
  /\ audit \in [Runs -> (SUBSET (Lanes \cup {"evidence"})) \cup {None}]
  /\ report \in [Runs -> {None, "ready", "rejected"}]
  /\ at \in Places /\ {api, old} \subseteq Pids \cup {None}
  /\ run \in Runs \cup {None} /\ flag \in Flags
  /\ fresh \in BOOLEAN /\ shown \in Contents \cup {None}
  /\ checks \subseteq Lanes \cup {"evidence"}
  /\ tries \in 0..Retries
  /\ mishaps \subseteq Mishaps /\ attempts \in 0..MaxAttempts

\* A run that does what the scenario plans, on a machine where nothing goes wrong but reads that
\* succeed when repeated, is found ready: whatever the supervisor refuses has a reason.
NoFalseAlarm == verdict \in {"failed", "rejected"} => mishaps # {}

\* Ready, by the supervisor's report or by the report command with whatever evidence somebody
\* hands in, means: the run converged with everything it has to leave behind, somebody was asked
\* for its one exception and said yes, and the run was taken up again after a restart; except
\* that events of the old controller after the count, or of one that a killed supervisor left,
\* are taken for the work of the restarted one.
Best(r) == [run |-> r, before |-> journal[r].before, after |-> journal[r].after,
            observed |-> TRUE, flag |-> journal[r].flag, approved |-> TRUE,
            checks |-> Lanes \cup {"evidence"}]

ReadyIsEarned ==
  \A r \in Runs :
    report[r] = "ready" \/ (journal[r] # None /\ ProvenReady(r, Best(r)))
      => /\ RunOk(r) /\ Len(decisions[r]) = 1
         /\ \E c \in Contents : <<r, c>> \in asked
         /\ r \in revived \/ mishaps \cap {"noise", "crash"} # {}

\* A decision takes effect for the content that the operator was shown.  The exception takes a
\* killed supervisor, whose controller takes its approval up while a second supervisor asks again,
\* and a run that then raises a further risk_policy interrupt: the second approval reaches that one.
ApprovedAsShown ==
  [][\A r \in Runs : decisions'[r] # decisions[r]
       => <<r, reviewed[r]>> \in asked \/ {"astray", "crash"} \subseteq mishaps]_vars

\* The evidence of a run that was proven is never replaced by a failure record of the same run.
EvidenceKept ==
  [][(output # None /\ output.kind = "success")
       => ~(output'.kind = "failure" /\ output'.run = output.run)]_output

=============================================================================
