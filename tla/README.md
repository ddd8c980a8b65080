# Converge Orchestrator in TLA+

A model of the orchestrator in `src/src/converge_orchestrator`: a service that
drives a LangGraph workflow over a Git repository until every mandatory
requirement is satisfied. A planner model proposes a task, a builder model edits
a worktree, deterministic gates and reviewer models judge it, and the controller
commits, pushes, opens a pull request, watches CI, merges and starts again. All
of it is durable: the process may be killed at any instant and is expected to
continue from the last checkpoint.

## Inventory

| component | state it keeps | operations | talks to |
|---|---|---|---|
| Workflow graph (`graph_service.py`, `workflow.py`, `graph.py`, `targeting.py`, `ci.py`) | the checkpointed `WorkflowState`, the node that is due, a pending interrupt | one per node: bootstrap … refresh | worktree, remote repository, GitHub, models, state directory |
| State directory (`compliance.json`, evidence, `control/`) | ledger of requirements, verification cache, frozen RED snapshot, flaky retry ledger, pause signal | written by nodes, read by later nodes and later runs | nodes, API |
| Run controller (`runtime.py`, `runtime_service.py`) | worker threads, recovery timers, generations | start, submit, heartbeat, execute, retire, restore, status | registry, checkpoints, graph |
| Control registry (`registry.py`, `registry_postgres.py`) | projects and runs with outcome and lease | create, claim, renew, release, update | every controller |
| Operator API (`api.py`, `cli.py`, `control.py`) | none | pause, resume, decision, status | controller |
| Run budget (`budget.py`) | attempts and tokens reserved per run, a lock | initialise, reserve, assert | controller, model calls |
| Worktrees (`git.py`, `workspace_ownership.py`) | git worktree list, branches, ownership ledger | create, adopt, clean up, collect garbage | nodes |
| Evidence (`evidence.py`, `verification.py`) | per-run evidence, frozen RED snapshot | write, snapshot, restore | nodes |
| Model calls (`opencode.py`, `context.py`, `model_usage.py`) | usage and context records | lanes, retries, fallback models | budget, sandbox |
| Backup (`backup.py`) | a staging directory, the bundle | read, copy, read again, publish | registry, state directories, repositories |
| Restore (`restore*.py`) | journal, stages | plan, apply, adopt, reset | state directory, registry, PostgreSQL |
| Mutation guards (`fencing.py`, `mutation_authority.py`, `mutation_domain_lease.py`, `affinity.py`, `quiescence.py`) | none | guards over records | no caller yet, but for `affinity.py` |
| Acceptance (`acceptance*.py`, `campaign.py`) | journal, evidence and verdict of an external trial | supervise, judge | public API, controllers it starts and stops |
| Configuration, prompts, context, risk and architecture scanners, sandbox | none | pure functions, process calls | nodes |

What is hard here, and what a unit test hardly reaches:

* a node's effects (commit, push, pull request, merge, files) precede its
  checkpoint, so a crash repeats the node over its own half-finished work;
* the candidate that was judged is a directory that builders, gates and
  interrupted executions keep writing to, while verdicts, approvals and CI
  results travel through the checkpoint;
* budgets (repairs, two classes of replans, RED attempts, planner attempts,
  provider recoveries, reviewer retries, iterations) are spent and renewed in
  different nodes, and termination rests on all of them together;
* operator requests, timers and workers of several processes meet at one
  registry row, guarded only by a lease with a clock; what a request has read
  (the row, the interrupt) may be old when it acts on it;
* parallel reviewer lanes share one ledger, and what they fail of must not pass
  for what they say;
* backups copy a deployment that others may use, and the acceptance supervisor
  judges a run by what it can see from outside;
* what a node returns is kept only if `WorkflowState` declares it.

The properties that make each part correct are listed with the runs below; every
hazard with its line is in `PROJECT.json`.

## Modules

```
RunExecution                      WorkflowState
   ^  implemented by                 ^        ^
RunLease                         Planning   Reviewing
   ^                                 ^        ^
RunLease_proof                       |     Delivery
   ^                                 |        ^
MCRunLease                          Workflow --+
                                     ^
                                    MCWorkflow

Worktrees
   ^
Worktrees_proof
   ^
MCWorktrees
```

`RunControl`, `Restore`, `RunBudget`, `Backup` and `Acceptance` have a proof module
(`RunControl_proof` and so on) and an MC module each, both of which extend the module
itself. `Workflow_proof` extends `Workflow`.

The modules meet where the code does. `RunLease` is about several controllers and one
run, `RunControl` about one controller, its request threads and several runs; what a
worker does between two checkpoints is `Workflow`, of which `RunControl` keeps the kinds
of nodes and `RunLease` only that it goes on. `RunBudget` ends a run whose ledger is used
up, which is an outcome of `RunLease`; its verdicts are what `Workflow` takes for those
of its reviewers. `Worktrees` details what is one value in `Workflow`. A bundle of
`Backup` is where `Restore` begins. `Acceptance` watches all of it from outside.

### RunLease: who drives a run

`row` is the `runs` table (is `finished_at` set, the lease owner, the time the
lease has left), `ckpt` what the run's checkpoint says, `phase` the worker thread
of each controller, `timer` its recovery timer or callback, `life` the process.
Every registry call of `_submit`, `_execute`, `_lease_heartbeat`, a timer callback
and `status` is an action, because another process can act between two of them;
the reads and the write of one SQL transaction are one action. `Tick` is time; it
is stopped where a live worker would have been silent for longer than
`MaxSilence`. Clocks of hosts differ by up to `MaxSkew`. `RegistryFails`,
`Standby`, `EarlyRestart` and `Polled` switch parts of the environment on. A write of an
outcome that fails is followed by the write of a failure (`RecordFails`); when that fails
too, the thread dies, and the `finally` clause may or may not have given the lease back
(`DatabaseError`).

Abstractions: run ids are never reused, statuses are reduced to finished or not,
a controller has one timer or callback per run (a callback in flight that a new
timer would overtake does nothing that an operator's submit could not do, which
is an action of its own), and a restart is a new controller with a new owner
name, as in the code.

`RunExecution` is what the protocol promises without leases: a controller begins
to drive a run only when nobody does and no outcome is recorded; outcomes stay.

### Workflow: what a run does

`s` is the checkpointed state, `at` the node that is due, `step` how far its
execution has got, `waiting` and `answer` the interrupt and its resume value,
`repo` the worktree, task branch, pull request and base, `disk` the state
directory, `env` how often each event of the world may still happen, and `audit`
a history of what was really gated, reviewed, approved, observed and merged,
which no action reads.

* One action per node. A node whose effects another crash could cut in two has a
  `step` for each (build and repair, integrate, merge, discarding a candidate);
  every node may crash between its effects and its checkpoint (`Commit`).
* A candidate is its content (`Trees`: an implementation diff and a RED test
  file), because shas, diffs and fingerprints are only ever compared.
* Routers are operators named after them (`AfterReview`, `AfterCi`, …). An edge
  the graph lacks makes LangGraph raise, and the run fails (`RecoveryTargets`).
* `Channel` drops what a node returns under a key that `WorkflowState` does not
  declare; `Undeclared` lists the four keys of `ci.py` this concerns.
* The world: kills, calls that fail for good, an edit of the requirements file, a
  foreign commit, pause, resume, decisions (the five that the API accepts), early
  polls, the passing of the CI timeout after the poll that starts its clock. `Limits`
  bounds each.

`WorkflowState` holds the state and what nodes share, `Planning` bootstrap to the
RED evidence, `Reviewing` build to human, `Delivery` integrate to refresh,
`Workflow` the composition and the properties.

Abstractions: `decisions` counts the records of `human_decisions` other than those on
controlled pauses; the models return any of the outcomes their nodes tell apart; gates
are green or red together; one CI check stands for all; a task serves one
requirement; the ancestor checks of `git.py` and the ownership ledger are not
here; gates may rewrite files of the worktree (`MutatingGates`), but not the frozen
RED test; an operator's `edit` picks any valid task, or an invalid one.

### Worktrees: whose directory it is

`node`, `task` and `waits` say where each run is (`waits`: its registry status is
`waiting_ci` or `waiting_review`), `step` how far it, or the collector, has got in
`create_worktree`, `cleanup_worktree` or `garbage_collect_requested_worktrees`,
`todo` what the collector has listed, `record` the ownership ledger, `entry` git's
worktree list, `dir` and `local` the paths and branches that exist. Task branch and
path follow from the task id and are told by one value; two ids can share it,
because `create_worktree` folds case and punctuation. Every read of the ledger or
of git and every effect is an action, and `Crash` may come between any two; the
node is then executed again from its first line. `CallFails` ends a run with what
it has left. A builder may check out another branch in its worktree, and
directories that git does not know may lie at the paths from the beginning.

Two switches name what the results rest on. `AtomicStarts`: nothing else happens
while `start_run` looks for other runs; without it `OneCandidate` fails, because both
`start_run` and `activate` (`workspace_ownership.py:88`) check before they write.
`LateCollector`: a branch that a run has released may be planned again
while the collector still has it on its list; the collector would then remove the
new worktree, because it never reads the record again. The planner is free to name
an earlier task in every other situation.

Two things a reader of the code may not expect hold in the model as well: the
record of a run that failed stays active, so that a later run can only go on with
the same task id; and the collector does not look whether the owner's run has
ended, although `src/docs/RECOVERY.md:88` says so (it only acts on requested
cleanups, and has no caller in `src/src` yet).

Abstractions: paths outside the worktree root, a branch that is checked out
somewhere else, corrupt ledger files and history entries are left out; a refusal
of any of these ends the run as `CallFails` does.

### Restore: rebuilding a lost deployment

`target` and `stage` say what is at each target and at the path beside it where its
copy is prepared, `journal` and `tmp` what is on disk of the journal, `pc`, `at` and
`published` where the running `restore-apply` is and what it remembers, `orphans` the
PostgreSQL transactions whose psql has lost its client. Targets are restored in the
order of `Order`, the database last. One target takes up to six steps, as in
`_ensure_file`, `_ensure_repo`, `_ensure_state`, `_ensure_empty_worktree` and
`_ensure_postgres_database`, which have the same shape: look, stage, copy, publish,
validate, mark; `Mark` creates the temporary file of the journal and `Write` replaces
the journal by it. `Kill` leaves everything as it is; `CallFails` does what the
`except` and `finally` branches do. `Layout` is what the outcome of a kill depends on:
the backend, whether the saved checkpoint database is in WAL mode, and whether the
control database lies inside a state directory (as with the default paths).

Contents are told apart by what the validations tell apart: `exact`, `touched` (with
the side files that SQLite leaves when it checks a WAL database), `live` (used since),
`foreign`. `Lose`, `Intrude` and `Use` are the world: losses and intruders come
between two commands, the service may run as soon as there is a database.

`Stuck` names the four leftovers that no repetition of the command gets past: the
temporary file of the journal, a journal cut off in its first write, the stage of a
database inside a state directory, and the side files of a WAL checkpoint database.
`Completes` holds outside of these.

Abstractions: requirements and configuration are both files and stand for one
target each or together (`Order` may have any number); a backup or manifest that
changes, journals written by somebody else, and a hash mismatch after a copy end the
command as `Refuse` and `CallFails` do; restores of two tokens do not run at once.

### RunControl: who asks and who answers

`row`, `finished` and `ledger` are the registry and the budget files, `signal` the pause
files, `due`, `asked` and `nodes` the checkpoints, `worker`, `carry` and `tails` the
threads, `timer` and `callback` the timers, `request` where the thread of each request
stands. A request reads in one step and acts in later ones, as `start_run` (waiting
runs, active runs, insertion, submission), `request_pause` (file, row, status),
`resume` (checkpoint, pause file, submission, timer) and `decide` (checkpoint,
submission) do; status requests come at any time. `Submit` is `_submit`, which holds the
controller's lock. A worker executes nodes of the kinds that `Kinds` gives its run: a
safe point, the wait of reviewer recovery, the wait for CI, a human gate, or work. When
it is over its outcome is recorded (`Record`), and later, in a thread that is no longer in
`_workers`, its timer is set (`Tail`). `Crash` may come anywhere; `Restart` is
`restore_durable_runs`, which is over before the first request.

What the properties except is kept in ghosts: `hurried` (something in the project
changed between the looks of a start request), `disarmed` (a resume call cancelled the
timer that its own worker had left), and `promised`, the pauses that were accepted.

Abstractions: one process at a time (leases are the subject of `RunLease`), one callback
of a run in flight, `Tail` and a status request in one step each, and no database errors.

### RunBudget: what a run may spend

`file`, `attempts` and `tokens` are the ledger, `lock` its lock, `records` the usage
records, `worker` what the worker of the run does, and `pc`, `try`, `number`, `seen`,
`issued`, `deadline` and `answer` where each lane stands. `Enforce`, `Execute` and `Leave`
are the controller's part (`_enforce_submission_budget`, the outcome of a refusal),
`Invoke` begins an invocation, `Check`, `Write`, `Launch`, `Answer`, `Raise`, `TimesOut`
and `Record` are the attempt of a lane, `Gather` is the end of the fan-out. Reading and writing the ledger are steps of their own, so that the lock
matters; so are the reservation and the start of the call, so that time can pass. A
crash, a lapsed lease with a worker elsewhere, a damaged ledger and failing writes are
`Mishaps`.

### Backup: a copy of a deployment in use

`registered`, `row`, `part` and `owned` are the deployment: projects, runs, the versions
of each project's files, and worktrees that are not released. `step`, `round` and `todo`
are where `create_deployment_backup` is; every read of the registry, of a project's
sources and every copy is a step, between which others may register projects, begin and
end runs, and change files. `moments` keeps every state the deployment has been in, so
that `Consistent` can ask whether the copy is one of them. `missed` names the changes
that the two readings cannot tell.

### Acceptance: judging a run from outside

`phase`, `merged`, `flags`, `reviewed`, `decisions` and `defects` are what the API and the
evidence of a run show, `driver` and `alive` the controllers, `journal`, `output`, `audit`
and `report` the files of the supervisor, `at` and what follows it its process. Each API
call, file and process that `supervise_external_acceptance` uses is a step; a call may be
answered, repeated, or lost with or without its effect. What a run does is its own
choice. `mishaps` names what went otherwise than the scenario plans, so that a property
can say which of it matters.

The definitions that `PROJECT.json` lists under `mutants` (for instance
`ApprovedAnyway` and `MayActivateAlone`) are deliberate mistakes: with one of
them in place of the definition that follows it, the property it is listed with is
violated.

## Runs

| run | expects | properties | what it shows |
|---|---|---|---|
| `lease` | pass | `SingleWriter`, `LeaseNotStolen`, `KeepsPromise`, `Failover` | Two controllers, failing registry writes, skewed clocks, early restarts and timers: one writer per run, leases are not stolen, the protocol implements RunExecution, and with status requests an abandoned run is driven again or ends. |
| `delivery` | pass | `CleanStart`, `PassIsEarned`, `MergeAccounted`, `ConvergedHonestly`, `PassIsKept`, `MergedIsGreen` | Two requirements through GitHub with flaky checks, two crashes anywhere, a foreign commit, a failing call and the CI timeout: ledger, merges and convergence are honest, no merge is lost, a merge is green, and nothing of an old candidate is left over. |
| `risk` | pass | `TypeOK`, `AnswersRecorded`, `HumanIsLastResort`, `OutageIsNoVerdict`, `PushedIsReviewed`, `PushedIsGated`, `Settles` | Flagged and blocked candidates, gates that rewrite files, a foreign commit, operators who answer anything, a pause, reviewers out of reach for as long as one likes: only what was reviewed, approved and gated is pushed, decisions are recorded once, an outage is never a verdict, and the run comes to rest but for two loops. |
| `worktrees` | pass | `OneCandidate`, `WorkspaceKept`, `RemovedOnRequest` | Two runs in sequence, task ids that share a branch, the garbage collector, crashes between any two effects of git and ledger: one candidate, no worktree is taken from a working run, nothing is removed without a request or released before it is gone. |
| `restore` | pass | `DatabaseLast`, `NeverOverwritten`, `ReceiptHonest`, `Completes` | Every backend and layout, two kills or failing calls, a psql that outlives its client, one loss or change of targets by others: the database comes last, nothing is replaced, a receipt is honest, and repeating the command completes the restore unless one of the leftovers of Stuck is in its way. |
| `acceptance` | pass | `TypeOK`, `NoFalseAlarm`, `ReadyIsEarned`, `ApprovedAsShown`, `EvidenceKept` | Two supervise commands over one run and its controllers, one mishap of every kind besides time-outs and lost answers: what is reported ready is earned, what is refused has a reason, an approval reaches what the operator was shown, and success evidence is not overwritten. |
| `budget` | pass | `CallsKept`, `OwnReservation`, `NeverRefilled`, `RefusalEnds`, `VerdictIsHeard`, `InvocationEnds` | A builder and two reviewer lanes with a retry and a fallback profile under a budget that runs out, with one mishap (a crash, a lapsed lease, a damaged ledger, a failing write, a profile that is too small): calls keep the budget and are accounted for, a refusal ends the run, a verdict says what the reviewers said, and an invocation ends. |
| `backup` | pass | `Consistent` | Two projects, a run, an operator and a registration, three events anywhere between the steps of a backup: what is published is one idle state of the deployment, with every project in it. |
| `control` | pass | `Attended`, `OneRun`, `PauseKept` | Three requests of two clients, status requests at any time, timers and a crash between any two steps of the controller: no run with machine work is forgotten, a project has one run, and an accepted pause stays on file until the run sees it. |
| `timeout` | violation | `TimeoutEndsWaiting` | The CI clock started by one poll is forgotten at the checkpoint, so that polls after the timeout go on waiting. |
| `early` | violation | `EarlyDeathIsRecovered` | A run whose process dies before its first checkpoint is given up by the process that should start it again. |
| `resumed` | violation | `NeverAutoResumed` | Two CI timer callbacks of one run: the second reads the interrupt that the first has just answered, is submitted when the run already waits at a controlled pause, and ends the pause. |


### Bounds, and why they are enough

* RunLease: one run (runs share nothing but the controller's submit lock), two
  controllers, which is what a claim has to do with (a restarted one counts anew, and
  the proofs hold for any number); `TTL` 3, `MaxSilence` 1, `MaxSkew` 1 is the
  smallest lease that meets `MaxSilence + MaxSkew < TTL`.
* Workflow: one requirement where it is about one candidate, two (one with a
  verifier) where choice and ledger matter; budgets of 1 or 2, so that both
  "left" and "used up" occur; two recoveries of the reviewers in `risk`, where recovery
  and its wait can alternate; two or three contents, so that there is another one
  to change to. `Limits` is a set of mixes of events, one of which a behaviour has: it
  makes the counters of the world finite, and the mixes of `risk` keep apart what would
  multiply (`MCWorkflow`). The program's own counters need no bound, because its own
  budgets bound them (`TypeOK` says so). Gates rewrite files in `risk`, and leave them
  alone in `delivery`, which is about what comes after the push.

* Worktrees: two runs, one after the other or at the same time, so that one meets
  what the other left; three task ids over two branches, two of which share one;
  one collector. Everything is finite, nothing is bounded. A run ends, so does the
  model: deadlock is not checked.
* Restore: a file, a repository, a state directory, a worktree outside of it, the
  state directory of another project and the database: one target of each shape, and
  two of the kind in which the database may lie. Two kills or failing calls, so that
  a second one meets what the first left; one change by others. A refused restore
  stops, so deadlock is not checked.
* RunControl: two runs, as `OneRun` needs, the first of which goes through three nodes
  of any kind (a pause, a wait and a gate in any order), the second only starts; three
  requests, two at a time, so that one overtakes another with a third before; one
  crash; two threads of a run that have not ended. `Free` uses that threads are alike.
* RunBudget: a builder and two lanes with a retry and a fallback profile each, whose
  requests cost differently, three attempts and four tokens, so that either limit is met
  by any lane; one mishap of any kind; a second has two ticks, so that rounding matters.
* Backup: two projects and a run, three events of any kind: a change, its undoing and
  one more.
* Acceptance: one run and two commands over three process ids, one of which may come
  back; two tasks and two contents; one mishap besides time-outs and lost answers.  With
  two mishaps TLC has found no violation in the 3.7 million states it saw, without
  coming to an end.

### Fairness

`RunLease!Fairness` is what the code schedules: clocks run, an armed timer fires
and its callback finishes, a thread that has ended records its outcome, somebody
restarts a controller. Nothing is promised about how long `invoke` runs, and a
status request is only repeated where `Polled` says so. The run `lease` has `Polled`:
somebody keeps asking for the status. Without it `Failover` fails: a controller that
starts while the lease of its killed predecessor has not expired skips the run
(`runtime_service.py:417`), and nothing looks at it again. `Restore!FairSpec`: the
operator repeats the command, a command goes on, a transaction ends; kills and
failing calls are bounded by `MaxKills`. `Workflow!FairSpec` is
weak fairness of the nodes together and of the controller's timer; operators and
the world owe nothing. `Settles` excludes two loops by name: waiting for CI, which may
stay pending, and recovery of the reviewers with its wait, which the code does not count
(see below); CI's own time-out would not end the first, as the run `timeout` shows.
`RunBudget!FairSpec`: a lane goes on, a call ends (it has a timeout), the worker joins
its lanes. `RunControl`, `Backup` and `Acceptance` have no fairness: `Attended` says as an
invariant that somebody will come back to a run, a backup may be killed, and a supervisor
may be left waiting by its operator.

## What disagrees

* `TimeoutEndsWaiting` (run `timeout`, `ci.py:206`): ci_poll returns ci_head_sha and ci_started_at, which WorkflowState (models.py:704) does not declare, so LangGraph drops them and every poll of a waiting run starts the clock anew. src/docs/CONFIGURATION.md:94 says "`ci_timeout_seconds`: twardy timeout CI observation." and src/README.md:292 "bounded CI observation"; src/tests/test_checkpointable_ci.py:86 (test_ci_timeout_is_measured_across_checkpointed_polls) passes the keys by hand.
* `EarlyDeathIsRecovered` (run `early`, `runtime.py:339`): restore_durable_runs marks a run without a checkpoint "recoverable" (runtime_service.py:444) before it submits it, and _enforce_submission_budget initialises the missing ledger only of a run that is still "queued": a process that dies between create_run (runtime.py:207) and initialize_run_budget (line 343) leaves a run that its successor ends as failed ("run budget ledger missing for active run"). src/docs/RECOVERY.md:30 says "no checkpoint, or the exact minimal input-envelope checkpoint before the first node | reconstruct only the original minimal run input from the control registry and re-enter the same thread".
* `NeverAutoResumed` (run `resumed`, `runtime_service.py:525`): _resume_ci_wait looks at the interrupt and submits Command(resume="resume") later, with nothing that ties the answer to the interrupt it looked at: a second callback of the same wait, armed by a status request while the first is submitting, is accepted after the first one's worker has stopped at a controlled pause, whose node takes any answer for the operator's (workflow.py:531). src/docs/RECOVERY.md:28 says "controlled pause | remain paused; never auto-resume", and RECOVERY.md:76-78 "Automatic recovery must never: approve a HITL interrupt".

The model has the following behaviours too, which no run states as a property of its own.

In the workflow:

* After an outage that `reviewer_recovery` sees, `review_execution_retries` stays as it
  was (`workflow.py:983`): with two or more recoveries allowed, recovery and its wait
  alternate for as long as the reviewers are out of reach, up to the wall time of the run,
  against "bounded" in `src/README.md:288` and `workflow.py:48`. With the default of three
  the counter never gets past 1, every wait is the 15 seconds of the second entry of
  `_REVIEWER_RECOVERY_BACKOFF_SECONDS`, and the exhausted branch, which
  `src/tests/test_reviewer_transport_recovery.py:314` tests with a state of its own, is out
  of reach. `Settles` exempts the alternation; without its second disjunct the run `risk`
  finds it.
* A call that fails in `merge_pr` after GitHub has merged ends the run as failed with the
  merge missing in both ledgers, and the next run starts from the file; `MergeAccounted`
  counts this as "still due", because the run has not been ended by the graph.
* A reviewer that rejects after an outage, with repairs left, ends the run: the router
  answers `repair`, for which `reviewer_recovery` has no edge (`graph_service.py:163`);
  `src/docs/ARCHITECTURE.md:319` wants routine failures to stay autonomous.
* After the first flaky rerun of a head every later failure of it is reported as pending,
  and a refused rerun is repaired instead of escalated (both for the reason of
  `TimeoutEndsWaiting`); the operator's resume of a pause leaves no record (`_safe_point`
  finds the signal already cleared); a replan that meets a used-up iteration budget asks
  about a planner failure.
* What the API takes is not what interrupts offer: `tdd_human` offers a replan and a
  controlled pause a stop, neither of which `/decision` accepts (`api.py:26`,
  `runtime.py:260`).

In the controller:

* A run that dies between END and the write of the registry is never finished when its
  status is `pushed`, `base_moved`, `target_converged` or `planner_provider_stopped`,
  which `_TERMINAL_STATUSES` (`runtime.py:40`) does not list (`unlisted`), against
  `src/docs/RECOVERY.md:31`. "Done" in `RunLease` means a listed status.
* A pause asked for during reviewer recovery becomes a machine wait, which the timer
  answers (`workflow.py:531`), against `src/docs/RECOVERY.md:28`. A pause that arrives
  while a resumption is under way is removed with the earlier one. `PauseKept` is about
  the others.
* `resume` cancels the timer after it has submitted (`runtime_service.py:185`), and may
  cancel the one that its own worker has just armed: the run then waits until somebody
  asks for its status (`disarmed`).
* Two start requests at once create two runs (`hurried`), which end in two active
  candidates, against `workspace_ownership.py:124`.
* A decision of a client that another worker overtakes is submitted to the next interrupt; where it
  does not fit there, the run fails.
* `status` gives a finished run whose checkpoint still has an interrupt the status of
  that interrupt (it stays finished).
* Not in the model: a transient database error at a restart makes `_restore_ci_waits` see
  no interrupt, and the later inspection sees one and leaves it alone, so that the wait
  has no timer (`runtime_service.py:374` and `421`, against `src/docs/RECOVERY.md:40`).
* When renewals fail for longer than the lease time, which `TimelyHeartbeat` excludes, a
  second worker may start beside the first.

In restore, budget, backup and acceptance:

* A kill between the creation of the journal's temporary file and its rename blocks the
  restore for ever (`restore_apply.py:95`), against
  `src/docs/PRODUCTION_PERSISTENCE.md:222`; it is the first leftover of `Stuck`.
* A context ledger that cannot be written makes a retry of an answer that is there
  (`opencode.py:470`), although line 500 says that telemetry must never trigger one.
* A project that is registered between the first list and the fingerprint is in the copied
  database and not in the manifest (`backup.py:319`, `late`), a source that is changed
  back and a file that is written before the registry says so go unnoticed (`reverted`,
  `unannounced`), against `src/docs/PRODUCTION_PERSISTENCE.md:128`.
* An event of the old controller that is written after the count is taken for the work of
  the new one (`acceptance_supervisor.py:944`, `noise`), so that recovery is reported
  without one; and an outage of the reviewers fails the scenario as an unexpected human
  interrupt (line 811), although `src/docs/EXTERNAL_ACCEPTANCE.md` calls it routine.

## Proofs

| theorem | module | states | |
|---|---|---|---|
| `Typed` | `RunLease_proof` |  | The registry, checkpoints, workers and timers keep their types for every number of runs and controllers and every lease time. |
| `Inductive` | `RunLease_proof` |  | The strengthening the other results rest on is an invariant: who works holds the lease, with enough of it left. |
| `OneWriter` | `RunLease_proof` | `SingleWriter` | While heartbeats are timely (MaxSilence + MaxSkew < TTL), no two controllers ever drive the same run. |
| `OutcomeFinal` | `RunLease_proof` |  | A run whose outcome is recorded is driven no further. |
| `LeaseKept` | `RunLease_proof` | `LeaseNotStolen` | The lease of a working controller is changed by nobody else. |
| `Implements` | `RunLease_proof` | `KeepsPromise` | The lease protocol implements RunExecution: every step is one of its steps or a stutter. |
| `Typed` | `Worktrees_proof` |  | Ledger, git's records and the runs keep their types, for every number of runs, tasks and branches. |
| `OneLine` | `Worktrees_proof` | `OneCandidate` | If start requests overlap with nothing, at most one candidate is active, after any crashes and failures and beside the collector. |
| `Undisturbed` | `Worktrees_proof` | `WorkspaceKept` | A run keeps the worktree it works in, unless a branch is planned again that the collector still lists. |
| `Typed` | `Restore_proof` |  | Journal, stages and targets keep their types, for every number of targets: no half-copied artifact is ever in its place. |
| `Ordered` | `Restore_proof` | `DatabaseLast` | The database becomes visible last, also when its transaction outlives the command that began it. |
| `Preserved` | `Restore_proof` | `NeverOverwritten` | restore-apply never replaces what is at a target. |
| `Honest` | `Restore_proof` | `ReceiptHonest` | A command that reports success leaves a complete journal and every target in place. |
| `Typed` | `RunBudget_proof` |  | The ledger, its lock and the lanes keep their types, for every number of agents, retries and fallback profiles and every limit. |
| `Inductive` | `RunBudget_proof` |  | The strengthening of the following results is an invariant: the lane that writes the ledger holds its lock and has read what is there. |
| `Unshared` | `RunBudget_proof` | `OwnReservation` | Unless a lease lapses, no two calls share a reservation, whatever lanes, retries and crashes there are. |
| `CallsCounted` | `RunBudget_proof` |  | Unless a lease lapses, every call that was ever made has a number within max_model_attempts. |
| `Kept` | `RunBudget_proof` | `NeverRefilled` | What was reserved stays reserved, and a lost ledger is not begun anew. |
| `BackupTyped` | `Backup_proof` |  | The command's places, copies and staging directory keep their types, for every set of projects and runs: only a kill leaves staged files. |
| `BackupConsistent` | `Backup_proof` | `Consistent` | What is published is one idle state of the deployment and lists every project in it, but for changes that the two readings cannot tell, for any number of projects, runs and events. |
| `BackupRefused` | `Backup_proof` |  | A deployment that is idle and that nobody uses meanwhile is never refused. |
| `ControlTyped` | `RunControl_proof` |  | Registry, checkpoints, threads and requests keep their types, for every set of runs and clients. |
| `PauseIsKept` | `RunControl_proof` | `PauseKept` | An accepted pause is on file until it takes effect, for any number of requests, timers, workers and crashes. |
| `OneRunAtATime` | `RunControl_proof` | `OneRun` | A project has at most one open run unless it changed under a start request, for any number of runs and starting threads. |
| `NobodyIsForgotten` | `RunControl_proof` | `Attended` | A run with machine work left and no worker has a timer, a callback, a request or the end of a worker coming to it, through any crashes, unless a resume call has cancelled the timer of its own worker. |
| `OnRequest` | `Worktrees_proof` | `RemovedOnRequest` | A directory only goes when the ledger asks for it and it is the candidate's own, and a branch is only called released when all of it is gone, for any number of runs, branches and interrupted cleanups that meet on one branch; with starts that overlap with nothing and no listed branch planned again. |
| `Limited` | `RunBudget_proof` |  | The strengthening for the limits is an invariant: what was read is still what is on file, what a lane reserves fits, and a call has the time it was granted. |
| `LimitsHold` | `RunBudget_proof` | `CallsKept` | The calls a run ever made keep its limits in number, tokens and time, and complete coverage misses none of them, for every set of agents, retries, fallbacks, prices, limits and crashes; when a lease lapses only the time is kept. |
| `Heard` | `RunBudget_proof` |  | What lanes remember of the answers of their models is what the models said, as an invariant. |
| `VerdictsHeard` | `RunBudget_proof` | `VerdictIsHeard` | A verdict says what the reviewers said, for every number of reviewers, retries and fallback profiles: nobody's silence is taken for a pass, nor an outage for a rejection. |
| `RefusalsEnd` | `RunBudget_proof` | `RefusalEnds` | A refused reservation ends the run, whatever the other lanes have come to. |
| `Typed` | `Acceptance_proof` | `TypeOK` | Files, runs, controllers and commands keep their types, for every number of runs, commands and process ids. |
| `Deserving` | `Acceptance_proof` | `ReadyIsEarned` | A verdict of ready rests on a run that converged with all its evidence, on an operator's yes and on a restart that was survived, whatever answers are lost, repeated or late and however often the command is killed and resumed. |
| `Kept` | `Acceptance_proof` | `EvidenceKept` | Success evidence is never replaced by the failure record of a run. |
| `AsShown` | `Acceptance_proof` | `ApprovedAsShown` | An approval takes effect for the content the operator was shown, unless the supervisor was killed with the decision under way and the run raised another interrupt. |
| `NoAlarm` | `Acceptance_proof` | `NoFalseAlarm` | A scenario in which nothing goes otherwise than planned is never refused. |
| `Invariant` | `Workflow_proof` |  | The inductive invariant of the whole graph: what each node may rely on, and the parts that carry the results below, for any requirements, budgets, policies, answers of models and operators, crashes, failures and foreign commits. |
| `TypeCorrect` | `Workflow_proof` | `TypeOK` | State, repository and interrupts keep their types, and repairs, TDD replans, RED attempts, reviewer retries and iterations stay within their budgets. |
| `PassEarned` | `Workflow_proof` | `PassIsEarned` | No ledger, checkpointed or on disk, has a requirement on PASS that was not merged under green CI or verified. |
| `PassKept` | `Workflow_proof` | `PassIsKept` | No step takes PASS from a requirement without a verifier, on disk or across crashes and later runs. |
| `CleanStarts` | `Workflow_proof` | `CleanStart` | A new candidate starts without the worktree, branch or open pull request of an earlier one, however its discarding was interrupted. |
| `MergesAccounted` | `Workflow_proof` | `MergeAccounted` | A pull request that GitHub merged has its requirement on PASS in state and ledger from then on, unless it has a verifier or merge_pr is still due or was broken off by a failing call, through every crash between the merge and the ledger. |
| `HonestEnd` | `Workflow_proof` | `ConvergedHonestly` | A run that ends as converged has every requirement on PASS, in the state and on disk. |
| `OutagesAside` | `Workflow_proof` | `OutageIsNoVerdict` | An outage of the reviewers never spends a repair or a replan and never asks an operator. |
| `LastResort` | `Workflow_proof` | `HumanIsLastResort` | An operator is only asked about a failed candidate when its repairs and replans are used up, unless the requirements were edited. |
| `DecisionsRecorded` | `Workflow_proof` | `AnswersRecorded` | Every decision that /decision passed on is recorded in the durable state once, through any crashes and pauses. |
| `GreenMerges` | `Workflow_proof` | `MergedIsGreen` | What is merged is the head for which CI last reported success. |
| `ReviewedPushes` | `Workflow_proof` | `PushedIsReviewed` | What is pushed is what the reviewers passed and, where it is risky, what an operator approved, on the base they saw. |
| `GatedPushes` | `Workflow_proof` | `PushedIsGated` | What is pushed is the tree that the green gates left, whether or not they rewrite files, with the frozen RED test of a test-driven task in it. |

`RunLease_proof` proves its results for every set of runs and controllers and every
lease time, from the assumptions on the constants (`LeaseConstants`) and
`TimelyHeartbeat` (`MaxSilence + MaxSkew < TTL`).

The argument for `RunLease`: `SingleWriter` alone is not inductive. `WorkerHoldsLease` adds that
whoever works owns the lease and that what the lease has left and the worker's
silence add up to `TTL`, unless the outcome of an ended graph has already been
recorded; with `TimelyHeartbeat` a claim by another controller is then impossible
(`ClaimIsExclusive`), whatever its clock says. `EndIsDone` is needed because a
timer or status request may finish the row under a worker, which is harmless only
when the graph has reached its end. `IInv` is the conjunction; `InitIInv` and
`StepIInv` prove it inductive, with one step per action. Refinement follows from the same invariant (`ClaimOrLeave`: a step either
claims, or lets drivers only leave).

`Worktrees_proof` proves its results for every set of runs, tasks and branches and
every way in which ids share a branch, from `WorktreeConstants`. `Typed` needs
only which step belongs to which node and that what is being cleaned up is
recorded (`StepFits`). `OneLine` assumes `AtomicStarts`. `OneCandidate` is not
inductive: that `activate` checks before it writes only helps when nobody else
activates in between, which follows from there being one run at a time
(`OneRun`, counting the one being started), and from cleanups only ever taking
candidates away (`MarkedLedger`); `StillAlone` carries the check over to the write.
`Undisturbed` further assumes that no listed branch is planned again and adds what
`create_worktree` has achieved at each step (`Prepares`) and that no run prepares or
works on what the collector has listed (`ListHarmless`). `OnRequest` is about a run and
the collector that clean up the same branch: `Progress` says how much of a branch each of
them has removed, `Asked` what the ledger says of it meanwhile. Neither undoes what the
other has done (`Fades`), because nobody prepares or works on a branch that is being
cleaned up (`ClaimedElsewhere`). Both switches are needed: TLC finds `RemovedOnRequest`
violated where starts overlap, and where a listed branch may be planned again.

`Restore_proof` proves its results for every number and order of targets, every set
of layouts and any number of kills and changes, from `RestoreConstants`. The
invariant counts a target as restored (`Fine`) when it is exact, or in use beside an
existing database. `Behind` says that all targets before `at` are, and all of them
while a transaction without a client is pending, which is what makes a late commit
harmless; `Marked` that the journal and the command's memory agree and cover them;
`Ahead` that what is published next is complete and its place free. `Effects` sums
up what a step does to the targets; the three action properties follow from it.

`RunBudget_proof` proves its results for every set of agents, number of retries and
fallback profiles, limit and clock, from `BudgetConstants`. That no reservation is used
twice (`OwnReservation`) needs that the lane which is about to write has read the ledger
as it is (`Current`), which follows from the lock (`Locked`), and that a number which a
lane holds or has used is not above what the ledger counts (`Owned`, `Counted`); all of
it unless a lease lapses, when a worker elsewhere has a lock of its own. `NeverRefilled`
adds that a ledger is only begun when nothing was reserved (`Fresh`). For `CallsKept`,
`Limits` adds that what a lane is about to reserve fits what is left, that the tokens of
all calls together are within those reserved, and that a call has the time it was
granted. For `VerdictIsHeard`, `Hearing` relates what a lane has come to with what its
models said, attempt by attempt; `RefusalEnds` follows from the same.

`Backup_proof` proves its results for every set of projects and runs and any number of
events, from `BackupConstants`. `Consistent` is about a moment that only shows at the end;
its witness is the moment at which the database was copied (`Pin`). Runs only go forward
(`Later`), so what was read of them before is no later than at that moment (`Reading`) and
what is read afterwards no earlier; a run that used a project since is not finished in the
first fingerprint and shows in the second (`Worked`, `Shown`), so if both agree then
nothing was used (`Agreement`). For the sources the versions of first reading, moment, copy
and second reading are in order (`Printed`, `Ordered`) and equal at both ends. What the
readings cannot tell (`missed`) is exempt in the invariant as it is in the property.
`RefusedForCause`, which only the proof covers, says that both pairs of readings agree
where nothing happened (`Quiet`).

`RunControl_proof` proves its results for every set of runs and clients, every mixture of
nodes and any number of requests, crashes and threads, from `ControlConstants`. What is
said of one run is `Local`; a step of one run leaves it alone for the others
(`LocalElsewhere`), so that each action is looked at for its own run only. `AnswerOK` is
what keeps a pause: an answer that is under way finds the question it was given to or a
worker, so the node that takes an answer and the pause file with it had asked, and a
pause that is promised is one that nobody has been asked about (`PromiseOK`).
`AttendedOK` needs that a timer is the one its checkpoint calls for (`TimerOK`), else
firing it would do nothing; that what is before its first node has a timer, a callback or
its start request (`BeginOK`, with the status that `RowOK` gives its row); and that a
resume call which cancels a timer has had a worker whose end it saw (`CancelOK`).
`OneRun` follows from what a start request that nothing disturbed has seen
(`Undisturbed`) and from a row that shows every open run (`RowOK`, `Alone`).

`Acceptance_proof` proves its results for every number of runs, commands and process ids
and any mishaps, from `AcceptanceConstants` and `Absent`. A verdict is computed from files
that several commands may have written, so the invariant follows each of them:
`Journalled` says what the claims of the journal rest on, `Reported` the same of reports
and of success evidence, from which `ReadyIsEarned` follows. `Approving` follows a
decision from the interrupt that the operator was shown to the run that takes it, and
`AsPlanned` says what a scenario looks like in which no mishap has happened yet, which is
what `NoFalseAlarm` is about.

`Workflow_proof` proves its results for every list of requirements, any budgets, policies,
tasks and contents, any answers of models and operators and any number of events, from
`WorkflowConstants` and `Absent`. None of the properties is inductive, and what most of
them lack is the same: what a node may rely on when the run gets to it. `TypeInv`
collects that: the values of the keys (`Typed`, `Around`), that the nodes from
`tdd_baseline` to `pause_merge` have a task, a branch and a worktree (`Placed`), that an
interrupt and its answer belong to the node (`Waits`), that the RED test in the state is
the frozen one (`Frozen`), and how many planner attempts have failed (`Attempts`). The
parts of the invariant that each carry a property come after it:

* `Budgets` has, for each counter, its limit and that it is below it on the way to the
  node that raises it (`TypeCorrect`).
* `Earned`, `Delivered`: the three places that know of a PASS (state, ledger on disk,
  history) agree up to the nodes between which they are written; after a crash in
  `integrate` or `merge` the ledger on disk is ahead of the state, and what it is ahead by
  is already earned (`PassEarned`, `PassKept`, `HonestEnd`).
* `Merged` follows every merge of GitHub: its requirement is on PASS in both ledgers, or the
  run is still at `merge` with it. That it stays so needs `Earned`, which keeps the state
  from falling behind the file (`MergesAccounted`).
* `Clean`: whatever lies in the repository belongs to the candidate that the state still
  knows, so that a discarding that was cut short is repeated (`CleanStarts`).
* `Outaged` keeps the statuses of an outage within the nodes that deal with it
  (`OutagesAside`), `Asked` says what brings a run to `human_gate` (`LastResort`).
* `Judgement`: between review and push, verdict, fingerprint and approvals are about the
  tree in the worktree and the base it was reviewed on; `Gated` says the same of the gates,
  and of the frozen test: what counts is the tree as the green gates left it
  (`ReviewedPushes`, `GatedPushes`).
* `Green`: between CI and merge the pull request has the head that CI reported on
  (`GreenMerges`).

What a node does is proved once, as a lemma named after it (`ReviewEffect`), in terms of
which keys change, to what, and where the run goes; the step lemmas (`JudgementKept`) go
through the nodes with these.

Only model-checked: liveness (`Failover`, `Settles`, `Completes`,
`InvocationEnds`), which is out of the prover's reach, as are ENABLED and induction over
data. Every other property of the passing runs is stated by a theorem.

## Not modelled

`PROJECT.json` lists every component with its status and the reason. In short:
configuration is sequential parsing and validation without state; persistence opens
connections and classifies errors; fencing and mutation authority are pure guards that
nothing calls yet; scanners, prompts and process execution are text processing or I/O, of
which only outcomes are modelled.

## Plan

1. Done: `RunLease` with `RunExecution`, `Workflow`, `Worktrees`, `Restore`, `RunBudget`,
   `RunControl`, `Backup`, `Acceptance`, and the proofs listed above.
2. `FrozenRed`: snapshot and restore of the frozen test file by file, with kills between
   them; in `Workflow` they are one value.
3. Registration and affinity of projects, and database errors at a restart, in
   `RunControl`.
4. Proofs: that `RunControl` keeps the promise of `RunExecution`.
