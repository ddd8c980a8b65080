----------------------------- MODULE Worktrees -----------------------------
(***************************************************************************)
(* The worktrees of one project: what git has (git.py), what the ownership *)
(* ledger says (workspace_ownership.py), and the runs that create, adopt   *)
(* and clean them up, with crashes between any two effects.                *)
(*                                                                         *)
(* A task's branch and the path of its worktree follow from its id, so both *)
(* are told by the branch here; two ids may have the same branch, because  *)
(* create_worktree folds case and punctuation.                             *)
(***************************************************************************)
EXTENDS Naturals

CONSTANTS
  Runs,         \* runs that may be started
  Tasks,        \* task ids the planner may choose
  Branches,     \* branches, each with its path under the worktree root
  BranchOf,     \* the branch of each task id
  None,         \* no ledger record, no task
  Collector,    \* the process of garbage_collect_requested_worktrees
  AtomicStarts, \* nothing else happens while start_run looks for active runs
  LateCollector \* a released branch may be planned again while the collector lists it

Records == [task : Tasks \cup {None}, status : {"active", "cleanup_requested", "released"}]

ASSUME WorktreeConstants ==
  /\ BranchOf \in [Tasks -> Branches]
  /\ None \notin Tasks \cup Records
  /\ Collector \notin Runs
  /\ {AtomicStarts, LateCollector} \subseteq BOOLEAN

VARIABLES
  node,    \* the node a run has reached, or "absent", or "finished"
  task,    \* its task, when it has planned one
  waits,   \* its registry status says that it waits for CI or for reviewers
  step,    \* how far a run has got within its node, or the collector
  todo,    \* the branches that the collector has listed and not dealt with
  record,  \* the ownership ledger: per branch a task and a status
  entry,   \* git's worktree list: what is checked out at the path of a branch
  dir,     \* the paths that exist
  local    \* the local branches that exist

vars == <<node, task, waits, step, todo, record, entry, dir, local>>

Procs == Runs \cup {Collector}

Nodes == {"absent", "plan", "prepare", "work", "discard", "finished"}

Steps == {"idle", "asked", "admitted", "look", "add", "activate", "write", "made",
          "validate", "remove", "prune", "drop", "release", "cleaned"}

\* Unregistered directories may lie at the paths from the beginning.
Init ==
  /\ node = [r \in Runs |-> "absent"]
  /\ task = [r \in Runs |-> None]
  /\ waits = [r \in Runs |-> FALSE]
  /\ step = [p \in Procs |-> "idle"]
  /\ todo = {}
  /\ record = [b \in Branches |-> None]
  /\ entry = [b \in Branches |-> "none"]
  /\ dir \in SUBSET Branches
  /\ local = {}

Unfinished(r) == node[r] \notin {"absent", "finished"}

Branch(r) == BranchOf[task[r]]

Status(b) == IF record[b] = None THEN "none" ELSE record[b].status

Goes(p, to) == step' = [step EXCEPT ![p] = to]

Git == <<entry, dir, local>>

Run == <<node, task, waits>>

\* The node raises, and the run is over with all it has left.
Raise(r) ==
  /\ node' = [node EXCEPT ![r] = "finished"]
  /\ waits' = [waits EXCEPT ![r] = FALSE]
  /\ Goes(r, "idle")
  /\ UNCHANGED <<task, todo, record, Git>>

\* The node returns and is checkpointed.
Return(r, next) ==
  /\ node' = [node EXCEPT ![r] = next]
  /\ Goes(r, "idle")
  /\ UNCHANGED <<task, waits, todo, record, Git>>

-----------------------------------------------------------------------------
\* start_run looks for waiting runs, then for active ones, then creates the run.
Starting(r) == step[r] \in {"asked", "admitted"}

\* Another process may act, or a request begin, while start_run is under way.
MayAct(p) == AtomicStarts => \A r \in Runs \ {p} : ~Starting(r)

Ask(r) ==
  /\ node[r] = "absent" /\ step[r] = "idle"
  /\ \A q \in Runs : ~(Unfinished(q) /\ waits[q])
  /\ Goes(r, "asked")
  /\ UNCHANGED <<Run, todo, record, Git>>

Admit(r) ==
  /\ step[r] = "asked"
  /\ Goes(r, IF \E q \in Runs : Unfinished(q) /\ ~waits[q] THEN "idle" ELSE "admitted")
  /\ UNCHANGED <<Run, todo, record, Git>>

Create(r) ==
  /\ step[r] = "admitted"
  /\ Return(r, "plan")

-----------------------------------------------------------------------------
\* The planner names a task, maybe one of an earlier candidate; see LateCollector.
Plan(r) ==
  /\ node[r] = "plan"
  /\ \E t \in Tasks :
       /\ LateCollector \/ BranchOf[t] \notin todo \/ Status(BranchOf[t]) # "released"
       /\ task' = [task EXCEPT ![r] = t]
  /\ node' = [node EXCEPT ![r] = "prepare"]
  /\ UNCHANGED <<waits, step, todo, record, Git>>

\* create_worktree: a pending cleanup is refused, ...
ReadOwner(r) ==
  /\ node[r] = "prepare" /\ step[r] = "idle"
  /\ IF Status(Branch(r)) = "cleanup_requested" THEN Raise(r)
     ELSE Goes(r, "look") /\ UNCHANGED <<Run, todo, record, Git>>

\* ... a worktree of this branch is adopted, anything else at its path refused, ...
Look(r) ==
  /\ step[r] = "look"
  /\ LET b == Branch(r)
         present == b \in dir \/ entry[b] # "none"
     IN IF present /\ ~(b \in dir /\ entry[b] = "own") THEN Raise(r)
        ELSE /\ Goes(r, IF present THEN "activate" ELSE "add")
             /\ UNCHANGED <<Run, todo, record, Git>>

\* ... git worktree add creates the branch unless it is there, and the worktree, ...
AddBranch(r) ==
  /\ step[r] = "add" /\ Branch(r) \notin local
  /\ local' = local \cup {Branch(r)}
  /\ UNCHANGED <<Run, step, todo, record, entry, dir>>

AddWorktree(r) ==
  /\ step[r] = "add" /\ Branch(r) \in local
  /\ IF Branch(r) \in dir \/ entry[Branch(r)] # "none" THEN Raise(r)
     ELSE /\ dir' = dir \cup {Branch(r)}
          /\ entry' = [entry EXCEPT ![Branch(r)] = "own"]
          /\ Goes(r, "activate")
          /\ UNCHANGED <<Run, todo, record, local>>

Active(b) == Status(b) = "active" /\ record[b].task # None

MayActivateAlone(t) ==
  /\ Active(BranchOf[t]) => record[BranchOf[t]].task = t
  /\ Status(BranchOf[t]) # "cleanup_requested"

\* ... activate refuses a branch that another candidate owns or that awaits its
\* cleanup, and any second candidate (_refuse_second_active_candidate), ...
MayActivate(t) ==
  /\ Status(BranchOf[t]) # "cleanup_requested"
  /\ \A b \in Branches : Active(b) => record[b].task = t

Activate(r) ==
  /\ step[r] = "activate"
  /\ IF MayActivate(task[r])
     THEN Goes(r, "write") /\ UNCHANGED <<Run, todo, record, Git>>
     ELSE Raise(r)

\* ... and writes the record.
WriteActive(r) ==
  /\ step[r] = "write"
  /\ record' = [record EXCEPT ![Branch(r)] = [task |-> task[r], status |-> "active"]]
  /\ Goes(r, "made")
  /\ UNCHANGED <<Run, todo, Git>>

Prepared(r) == step[r] = "made" /\ Return(r, "work")

-----------------------------------------------------------------------------
\* From build to merge or replan.  The builder may check out another branch in
\* its worktree.
Work(r) ==
  /\ node[r] = "work" /\ ~waits[r]
  /\ entry' \in {entry, [entry EXCEPT ![Branch(r)] = "foreign"]}
  /\ node' = [node EXCEPT ![r] = "discard"]
  /\ UNCHANGED <<task, waits, step, todo, record, dir, local>>

\* A machine wait changes the status of the run, and back.
Wait(r) ==
  /\ node[r] = "work"
  /\ waits' = [waits EXCEPT ![r] = ~@]
  /\ UNCHANGED <<node, task, step, todo, record, Git>>

-----------------------------------------------------------------------------
\* request_cleanup and mark_released keep the candidate, if one is recorded.
Mark(b, status) ==
  record' = [record EXCEPT ![b] =
    [task |-> IF @ = None THEN None ELSE @.task, status |-> status]]

\* cleanup_worktree (replan, an edited task, merge_pr): intent first, ...
RequestCleanup(r) ==
  /\ node[r] = "discard" /\ step[r] = "idle"
  /\ Mark(Branch(r), "cleanup_requested")
  /\ Goes(r, "validate")
  /\ UNCHANGED <<Run, todo, Git>>

ValidAnyway(b) == b \in dir => entry[b] # "none"

\* ... then only what git says belongs to the branch, ...
Valid(b) == entry[b] # "foreign" /\ (b \in dir => entry[b] = "own")

\* The collector goes through its list in the order of the ledger's file names.
Current == CHOOSE b \in todo : TRUE

\* A refusal ends the run; the collector goes on with the next record.
Refused(p) ==
  IF p \in Runs THEN Raise(p)
  ELSE /\ Goes(p, "idle")
       /\ todo' = todo \ {Current}
       /\ UNCHANGED <<Run, record, Git>>

Validate(p, b) ==
  /\ step[p] = "validate"
  /\ IF Valid(b) THEN Goes(p, "remove") /\ UNCHANGED <<Run, todo, record, Git>>
     ELSE Refused(p)

\* ... git worktree remove --force deletes the directory, then its registration, ...
Remove(p, b) ==
  /\ step[p] = "remove"
  /\ IF entry[b] # "none"
     THEN /\ dir' = dir \ {b}
          /\ Goes(p, "prune")
          /\ UNCHANGED <<Run, todo, record, entry, local>>
     ELSE IF b \in dir THEN Refused(p)
     ELSE Goes(p, "drop") /\ UNCHANGED <<Run, todo, record, Git>>

Prune(p, b) ==
  /\ step[p] = "prune"
  /\ entry' = [entry EXCEPT ![b] = "none"]
  /\ Goes(p, "drop")
  /\ UNCHANGED <<Run, todo, record, dir, local>>

\* ... git branch -D leaves a branch that is checked out (exit status 1), ...
Drop(p, b) ==
  /\ step[p] = "drop"
  /\ local' = IF entry[b] = "own" THEN local ELSE local \ {b}
  /\ Goes(p, "release")
  /\ UNCHANGED <<Run, todo, record, entry, dir>>

\* ... and the record is marked, whatever it says by now.
Release(p, b) ==
  /\ step[p] = "release"
  /\ Mark(b, "released")
  /\ Goes(p, IF p \in Runs THEN "cleaned" ELSE "idle")
  /\ todo' = IF p \in Runs THEN todo ELSE todo \ {Current}
  /\ UNCHANGED <<Run, Git>>

Cleanup(p, b) ==
  Validate(p, b) \/ Remove(p, b) \/ Prune(p, b) \/ Drop(p, b) \/ Release(p, b)

\* The next task, or the end of the run.
Discarded(r) ==
  /\ step[r] = "cleaned"
  /\ \E next \in {"plan", "finished"} : Return(r, next)

-----------------------------------------------------------------------------
ListUnreleased ==
  /\ step[Collector] = "idle" /\ todo = {}
  /\ todo' = {b \in Branches : Status(b) \in {"active", "cleanup_requested"}}
  /\ UNCHANGED <<Run, step, record, Git>>

\* garbage_collect_requested_worktrees reads the ledger once ...
List ==
  /\ step[Collector] = "idle" /\ todo = {}
  /\ \E b \in Branches : Status(b) = "cleanup_requested"
  /\ todo' = {b \in Branches : Status(b) = "cleanup_requested"}
  /\ UNCHANGED <<Run, step, record, Git>>

\* ... and finishes what was requested then.
Collect ==
  /\ step[Collector] = "idle" /\ todo # {}
  /\ Goes(Collector, "validate")
  /\ UNCHANGED <<Run, todo, record, Git>>

-----------------------------------------------------------------------------
\* The process dies: the node is executed again from its first line.
Crash(r) ==
  /\ Unfinished(r) /\ step[r] # "idle"
  /\ Goes(r, "idle")
  /\ UNCHANGED <<Run, todo, record, Git>>

CollectorDies ==
  /\ step[Collector] # "idle" \/ todo # {}
  /\ Goes(Collector, "idle")
  /\ todo' = {}
  /\ UNCHANGED <<Run, record, Git>>

\* A git command, a model or the disk fails for good, or a budget is used up.
CallFails(r) == Unfinished(r) /\ Raise(r)

Prepare(r) == \/ ReadOwner(r) \/ Look(r) \/ AddBranch(r) \/ AddWorktree(r)
              \/ Activate(r) \/ WriteActive(r) \/ Prepared(r)

Discard(r) == RequestCleanup(r) \/ (step[r] # "idle" /\ Cleanup(r, Branch(r))) \/ Discarded(r)

Start(r) == Ask(r) \/ Admit(r) \/ Create(r)

RunStep(r) == \/ Start(r) \/ Plan(r) \/ Prepare(r) \/ Work(r) \/ Wait(r) \/ Discard(r)
              \/ Crash(r) \/ CallFails(r)

CollectorStep == \/ List \/ Collect \/ CollectorDies
                 \/ step[Collector] # "idle" /\ Cleanup(Collector, Current)

Next == \/ \E r \in Runs : MayAct(r) /\ RunStep(r)
        \/ MayAct(Collector) /\ CollectorStep

Spec == Init /\ [][Next]_vars

-----------------------------------------------------------------------------
TypeOK ==
  /\ node \in [Runs -> Nodes]
  /\ task \in [Runs -> Tasks \cup {None}]
  /\ waits \in [Runs -> BOOLEAN]
  /\ \A r \in Runs : waits[r] => node[r] = "work"
  /\ step \in [Procs -> Steps]
  /\ todo \subseteq Branches
  /\ record \in [Branches -> Records \cup {None}]
  /\ entry \in [Branches -> {"none", "own", "foreign"}]
  /\ dir \subseteq Branches
  /\ local \subseteq Branches

\* At most one candidate is active on the project's integration line, whatever
\* crashed or failed before (_refuse_second_active_candidate).
OneCandidate ==
  \A b, c \in Branches : Active(b) /\ Active(c) => record[b].task = record[c].task

Working(r) == node[r] = "work"

\* A run that works on a candidate has its worktree, and the ledger says so; the
\* collector and the cleanup of other candidates leave it alone.
WorkspaceKept ==
  \A r \in Runs : Working(r) =>
    /\ Branch(r) \in dir
    /\ entry[Branch(r)] # "none"
    /\ record[Branch(r)] = [task |-> task[r], status |-> "active"]

Gone(b) == b \notin dir /\ entry[b] = "none" /\ b \notin local

\* A directory is only ever removed while the ledger asks for it, and never one
\* that is not git's, or in which another branch is checked out: a candidate
\* survives the failure of its run, and an operator's files survive everything.
\* And the ledger only calls a branch released once its directory, registration and
\* local branch are gone, wherever a cleanup was interrupted before and whoever
\* else is at it (cleanup_worktree, garbage_collect_requested_worktrees).
RemovedOnRequest ==
  [][/\ \A b \in dir \ dir' : Status(b) = "cleanup_requested" /\ entry[b] = "own"
     /\ \A b \in Branches : Status(b) # "released" /\ Status(b)' = "released" => Gone(b)]_vars

=============================================================================
