-------------------------- MODULE Worktrees_proof --------------------------
(***************************************************************************)
(* Theorems of Worktrees for every number of runs, tasks and branches: with *)
(* starts that do not overlap there is one candidate, and, unless a branch  *)
(* is planned again that the collector still lists, a working candidate     *)
(* keeps its worktree beside the collector, and worktrees only go on        *)
(* request, whole.                                                          *)
(***************************************************************************)
EXTENDS Worktrees, TLAPS

\* Which step belongs to which node, and what a cleanup works on is recorded.
StepFits ==
  /\ \A r \in Runs :
       /\ Starting(r) => node[r] = "absent"
       /\ step[r] \in {"look", "add", "activate", "write", "made"} => node[r] = "prepare"
       /\ step[r] \in {"validate", "remove", "prune", "drop", "release", "cleaned"}
            => node[r] = "discard" /\ record[Branch(r)] # None
       /\ node[r] \in {"prepare", "work", "discard"} => task[r] # None
  /\ step[Collector] \in {"idle", "validate", "remove", "prune", "drop", "release"}
  /\ step[Collector] # "idle" => todo # {}
  /\ \A b \in todo : record[b] # None

\* One run at a time, counting the one that is being started.
OneRun ==
  \A r, q \in Runs :
    /\ Unfinished(r) /\ Unfinished(q) => r = q
    /\ Starting(r) /\ Starting(q) => r = q
    /\ Starting(r) /\ Unfinished(q) => ~waits[q]
    /\ step[r] = "admitted" => ~Unfinished(q)

\* Between the check of the ledger and the write nothing has changed.
StillAlone == \A r \in Runs : step[r] = "write" => MayActivate(task[r])

LineInv == TypeOK /\ StepFits /\ OneRun /\ StillAlone /\ OneCandidate

\* The collector's list is behind, but no run works on what it lists.
ListHarmless ==
  /\ \A b \in todo :
       /\ Status(b) \in {"cleanup_requested", "released"}
       /\ \A r \in Runs : node[r] = "work" => Branch(r) # b
       /\ Status(b) = "released" =>
            \A r \in Runs : node[r] = "prepare" => Branch(r) # b
  /\ \A r \in Runs : node[r] = "prepare" /\ step[r] # "idle" =>
       Status(Branch(r)) # "cleanup_requested"

\* What create_worktree has achieved so far.
Prepares ==
  \A r \in Runs :
    /\ step[r] \in {"activate", "write", "made"} =>
         Branch(r) \in dir /\ entry[Branch(r)] = "own"
    /\ step[r] = "made" =>
         record[Branch(r)] = [task |-> task[r], status |-> "active"]

WorkInv == ListHarmless /\ Prepares /\ WorkspaceKept

Cleans(r) == step[r] \in {"validate", "remove", "prune", "drop", "release"}

\* What the ledger asks to clean up, or has called released.
Asked(b) == /\ Status(b) \in {"cleanup_requested", "released"}
            /\ Status(b) = "released" => Gone(b)

\* How much of a branch a cleanup has removed.
Progress(p, b) ==
  /\ step[p] = "remove" => Valid(b)
  /\ step[p] = "prune" => b \notin dir /\ entry[b] # "foreign"
  /\ step[p] = "drop" => b \notin dir /\ entry[b] = "none"
  /\ step[p] = "release" => Gone(b)

CleanInv ==
  /\ \A b \in todo : Asked(b)
  /\ \A r \in Runs : Cleans(r) => Asked(Branch(r)) /\ Progress(r, Branch(r))
  /\ step[Collector] # "idle" => Progress(Collector, Current)
-----------------------------------------------------------------------------
(* The step of a process is one of run or collector, and what a step may do. *)
LEMMA TypeStep == TypeOK /\ StepFits /\ [Next]_vars => TypeOK'
<1> SUFFICES ASSUME TypeOK, StepFits, [Next]_vars PROVE TypeOK'
  OBVIOUS
<1> USE WorktreeConstants DEF TypeOK, Goes, Git, Run, Procs, Steps, Nodes, Records
<1>0. ASSUME NEW r \in Runs, Raise(r) PROVE TypeOK'
  BY <1>0 DEF Raise
<1>1. ASSUME NEW r \in Runs, Start(r) \/ Plan(r) PROVE TypeOK'
  <2>1. CASE Ask(r) \/ Admit(r)
    BY <2>1 DEF Ask, Admit
  <2>2. CASE Create(r)
    BY <2>2 DEF Create, Return, StepFits, Starting
  <2>3. CASE Plan(r)
    BY <2>3 DEF Plan
  <2> QED
    BY <1>1, <2>1, <2>2, <2>3 DEF Start
<1>2. ASSUME NEW r \in Runs, Prepare(r) PROVE TypeOK'
  <2>1. CASE ReadOwner(r) \/ Look(r) \/ Activate(r)
    BY <2>1 DEF ReadOwner, Look, Activate, Raise
  <2>4. CASE Prepared(r)
    BY <2>4 DEF Prepared, Return, StepFits
  <2>2. CASE AddBranch(r) \/ AddWorktree(r)
    <3>1. Branch(r) \in Branches
      BY <2>2 DEF AddBranch, AddWorktree, Branch, StepFits
    <3>2. CASE AddBranch(r)
      BY <3>1, <3>2 DEF AddBranch
    <3>3. CASE AddWorktree(r)
      <4>1. CASE Raise(r)
        BY <1>0, <4>1
      <4>2. CASE ~Raise(r)
        BY <3>1, <3>3, <4>2 DEF AddWorktree
      <4> QED
        BY <4>1, <4>2
    <3> QED
      BY <2>2, <3>2, <3>3
  <2>3. CASE WriteActive(r)
    <3>1. Branch(r) \in Branches /\ task[r] \in Tasks
      BY <2>3 DEF WriteActive, Branch, StepFits
    <3> QED
      BY <2>3, <3>1 DEF WriteActive
  <2> QED
    BY <1>2, <2>1, <2>2, <2>3, <2>4 DEF Prepare
<1>3. ASSUME NEW r \in Runs, Work(r) \/ Wait(r) PROVE TypeOK'
  <2>1. CASE Work(r)
    BY <2>1 DEF Work, Branch, StepFits
  <2>2. CASE Wait(r)
    BY <2>2 DEF Wait
  <2> QED
    BY <1>3, <2>1, <2>2
<1>4. ASSUME NEW p \in Procs, NEW b \in Branches, Cleanup(p, b), record[b] # None
      PROVE TypeOK'
  <2>1. ASSUME Refused(p) PROVE TypeOK'
    <3>1. CASE p \in Runs
      BY <1>0, <2>1, <3>1 DEF Refused
    <3>2. CASE p \notin Runs
      BY <2>1, <3>2 DEF Refused
    <3> QED
      BY <3>1, <3>2
  <2>2. CASE Validate(p, b)
    BY <2>1, <2>2 DEF Validate
  <2>3. CASE Remove(p, b)
    BY <2>1, <2>3 DEF Remove
  <2>4. CASE Prune(p, b) \/ Drop(p, b)
    BY <2>4 DEF Prune, Drop
  <2>5. CASE Release(p, b)
    BY <1>4, <2>5 DEF Release, Mark
  <2> QED
    BY <1>4, <2>2, <2>3, <2>4, <2>5 DEF Cleanup
<1>5. ASSUME NEW r \in Runs, Discard(r) PROVE TypeOK'
  <2>1. CASE RequestCleanup(r)
    BY <2>1 DEF RequestCleanup, Mark, Branch, StepFits
  <2>2. CASE step[r] # "idle" /\ Cleanup(r, Branch(r))
    <3>1. Branch(r) \in Branches /\ record[Branch(r)] # None
      BY <2>2 DEF Cleanup, Validate, Remove, Prune, Drop, Release, StepFits, Branch
    <3> QED
      BY <2>2, <3>1, <1>4
  <2>3. CASE Discarded(r)
    BY <2>3 DEF Discarded, Return, StepFits
  <2> QED
    BY <1>5, <2>1, <2>2, <2>3 DEF Discard
<1>6. ASSUME NEW r \in Runs, Crash(r) \/ CallFails(r) PROVE TypeOK'
  <2>1. CASE Crash(r)
    BY <2>1 DEF Crash
  <2>2. CASE CallFails(r)
    BY <2>2 DEF CallFails, Raise
  <2> QED
    BY <1>6, <2>1, <2>2
<1>7. CASE CollectorStep
  <2>1. CASE List \/ Collect \/ CollectorDies
    BY <2>1 DEF List, Collect, CollectorDies
  <2>2. CASE step[Collector] # "idle" /\ Cleanup(Collector, Current)
    <3>1. Current \in todo
      BY <2>2 DEF StepFits, Current
    <3> QED
      BY <2>2, <3>1, <1>4 DEF StepFits
  <2> QED
    BY <1>7, <2>1, <2>2 DEF CollectorStep
<1>8. CASE UNCHANGED vars
  BY <1>8 DEF vars
<1> QED
  BY <1>1, <1>2, <1>3, <1>5, <1>6, <1>7, <1>8 DEF Next, RunStep

(* A step belongs to its node, and what is being cleaned up is recorded.    *)
LEMMA FitsStep == TypeOK /\ StepFits /\ [Next]_vars => StepFits'
<1> SUFFICES ASSUME TypeOK, StepFits, [Next]_vars PROVE StepFits'
  OBVIOUS
<1> USE WorktreeConstants DEF Goes, Git, Run, Procs, Starting
<1>a. /\ node \in [Runs -> Nodes] /\ task \in [Runs -> Tasks \cup {None}]
      /\ step \in [Procs -> Steps] /\ todo \subseteq Branches
      /\ record \in [Branches -> Records \cup {None}]
  BY DEF TypeOK
<1>b. \A r \in Runs : node[r] \in {"prepare", "work", "discard"} => Branch(r) \in Branches
  BY <1>a DEF StepFits, Branch
<1>1. ASSUME NEW r \in Runs, Raise(r) PROVE StepFits'
  BY <1>a, <1>1 DEF Raise, StepFits, Branch
<1>2. ASSUME NEW r \in Runs, Start(r) PROVE StepFits'
  BY <1>a, <1>2 DEF Start, Ask, Admit, Create, Return, StepFits, Branch
<1>3. ASSUME NEW r \in Runs, Plan(r) PROVE StepFits'
  BY <1>a, <1>3 DEF Plan, StepFits, Branch
<1>4. ASSUME NEW r \in Runs, ReadOwner(r) \/ Look(r) PROVE StepFits'
  BY <1>a, <1>1, <1>4 DEF ReadOwner, Look, StepFits, Branch
<1>5. ASSUME NEW r \in Runs, AddBranch(r) \/ AddWorktree(r) PROVE StepFits'
  BY <1>a, <1>1, <1>5 DEF AddBranch, AddWorktree, StepFits, Branch
<1>6. ASSUME NEW r \in Runs, Activate(r) \/ Prepared(r) PROVE StepFits'
  BY <1>a, <1>1, <1>6 DEF Activate, Prepared, Return, StepFits, Branch
<1>7. ASSUME NEW r \in Runs, WriteActive(r) PROVE StepFits'
  <2>1. [task |-> task[r], status |-> "active"] # None
    BY <1>a DEF Records
  <2> QED
    BY <1>a, <1>7, <2>1 DEF WriteActive, StepFits, Branch
<1>8. ASSUME NEW r \in Runs, Work(r) \/ Wait(r) PROVE StepFits'
  BY <1>a, <1>8 DEF Work, Wait, StepFits, Branch
<1>9. \A t \in Tasks \cup {None}, st \in {"released", "cleanup_requested"} :
        [task |-> t, status |-> st] # None
  BY DEF Records
<1>10. ASSUME NEW r \in Runs, RequestCleanup(r) PROVE StepFits'
  BY <1>a, <1>b, <1>9, <1>10 DEF RequestCleanup, Mark, StepFits, Branch, Records
<1>11. ASSUME NEW r \in Runs, step[r] # "idle", Cleanup(r, Branch(r)) PROVE StepFits'
  <2>1. CASE Validate(r, Branch(r)) \/ Remove(r, Branch(r))
    BY <1>a, <1>1, <2>1 DEF Validate, Remove, Refused, StepFits, Branch
  <2>2. CASE Prune(r, Branch(r)) \/ Drop(r, Branch(r))
    BY <1>a, <2>2 DEF Prune, Drop, StepFits, Branch
  <2>3. CASE Release(r, Branch(r))
    BY <1>a, <1>b, <1>9, <2>3 DEF Release, Mark, StepFits, Branch, Records
  <2> QED
    BY <1>11, <2>1, <2>2, <2>3 DEF Cleanup
<1>12. ASSUME NEW r \in Runs, Discarded(r) \/ Crash(r) \/ CallFails(r) PROVE StepFits'
  BY <1>a, <1>1, <1>12 DEF Discarded, Return, Crash, CallFails, StepFits, Branch
<1>13. CASE CollectorStep
  <2>1. CASE List \/ Collect \/ CollectorDies
    BY <1>a, <2>1 DEF List, Collect, CollectorDies, StepFits, Branch, Status
  <2>2. CASE step[Collector] # "idle" /\ Cleanup(Collector, Current)
    <3>1. Current \in todo /\ Current \in Branches /\ record[Current] # None
      BY <1>a, <2>2 DEF StepFits, Current
    <3>2. CASE Validate(Collector, Current) \/ Remove(Collector, Current)
      BY <1>a, <2>2, <3>1, <3>2 DEF Validate, Remove, Refused, StepFits, Branch
    <3>3. CASE Prune(Collector, Current) \/ Drop(Collector, Current)
      BY <1>a, <2>2, <3>1, <3>3 DEF Prune, Drop, StepFits, Branch
    <3>4. CASE Release(Collector, Current)
      BY <1>a, <1>9, <3>1, <3>4 DEF Release, Mark, StepFits, Branch, Records
    <3> QED
      BY <2>2, <3>2, <3>3, <3>4 DEF Cleanup
  <2> QED
    BY <1>13, <2>1, <2>2 DEF CollectorStep
<1>14. CASE UNCHANGED vars
  BY <1>14 DEF vars, StepFits, Branch
<1> QED
  BY <1>2, <1>3, <1>4, <1>5, <1>6, <1>7, <1>8, <1>10, <1>11, <1>12, <1>13, <1>14
  DEF Next, RunStep, Prepare, Discard

(* Starts that do not overlap with anything leave one run at a time.        *)
LEMMA OneRunStep ==
  ASSUME AtomicStarts, TypeOK, StepFits, OneRun, [Next]_vars
  PROVE  OneRun'
<1> USE WorktreeConstants DEF Goes, Git, Run, Procs
<1>a. /\ node \in [Runs -> Nodes] /\ waits \in [Runs -> BOOLEAN]
      /\ step \in [Procs -> Steps]
  BY DEF TypeOK
<1>1. ASSUME \A q \in Runs : /\ Unfinished(q)' => Unfinished(q)
                             /\ Starting(q)' => step'[q] = step[q]
                             /\ waits'[q] => waits[q]
      PROVE  OneRun'
  BY <1>1 DEF OneRun, Starting
<1>2. ASSUME NEW r \in Runs, Raise(r) PROVE OneRun'
  BY <1>a, <1>1, <1>2 DEF Raise, Unfinished, Starting
<1>3. ASSUME NEW r \in Runs, MayAct(r), Ask(r) PROVE OneRun'
  BY <1>a, <1>3 DEF Ask, MayAct, OneRun, Unfinished, Starting
<1>4. ASSUME NEW r \in Runs, MayAct(r), Admit(r) PROVE OneRun'
  BY <1>a, <1>4 DEF Admit, MayAct, OneRun, Unfinished, Starting
<1>5. ASSUME NEW r \in Runs, MayAct(r), Create(r) PROVE OneRun'
  BY <1>a, <1>5 DEF Create, Return, MayAct, OneRun, Unfinished, Starting
<1>6. ASSUME NEW r \in Runs, Plan(r) \/ Work(r) PROVE OneRun'
  BY <1>a, <1>1, <1>6 DEF Plan, Work, Unfinished, Starting
<1>7. ASSUME NEW r \in Runs, MayAct(r), Wait(r) PROVE OneRun'
  BY <1>a, <1>7 DEF Wait, MayAct, OneRun, StepFits, Unfinished, Starting
<1>8. ASSUME NEW r \in Runs, ReadOwner(r) \/ Look(r) \/ Activate(r) PROVE OneRun'
  BY <1>a, <1>1, <1>2, <1>8 DEF ReadOwner, Look, Activate, Unfinished, Starting
<1>9. ASSUME NEW r \in Runs, AddBranch(r) \/ AddWorktree(r) \/ WriteActive(r) PROVE OneRun'
  BY <1>a, <1>1, <1>2, <1>9 DEF AddBranch, AddWorktree, WriteActive, Unfinished, Starting
<1>10. ASSUME NEW r \in Runs, Prepared(r) \/ Discarded(r) PROVE OneRun'
  BY <1>a, <1>1, <1>10 DEF Prepared, Discarded, Return, StepFits, Unfinished, Starting
<1>11. ASSUME NEW r \in Runs, RequestCleanup(r) \/ Crash(r) \/ CallFails(r) PROVE OneRun'
  BY <1>a, <1>1, <1>2, <1>11 DEF RequestCleanup, Crash, CallFails, Unfinished, Starting
<1>12. ASSUME NEW p \in Procs, NEW b, Cleanup(p, b) PROVE OneRun'
  <2>1. CASE Refused(p)
    BY <1>a, <1>1, <1>2, <2>1 DEF Refused, Unfinished, Starting
  <2>2. CASE ~Refused(p)
    BY <1>a, <1>1, <1>12, <2>2
    DEF Cleanup, Validate, Remove, Prune, Drop, Release, Unfinished, Starting
  <2> QED
    BY <2>1, <2>2
<1>13. CASE CollectorStep
  BY <1>a, <1>1, <1>12, <1>13
  DEF CollectorStep, List, Collect, CollectorDies, Unfinished, Starting
<1>14. CASE UNCHANGED vars
  BY <1>1, <1>14 DEF vars, Unfinished, Starting
<1> QED
  BY <1>3, <1>4, <1>5, <1>6, <1>7, <1>8, <1>9, <1>10, <1>11, <1>12, <1>13, <1>14
  DEF Next, RunStep, Start, Prepare, Discard

(* What a step can do to the ledger.                                        *)
LEMMA LedgerStep ==
  ASSUME TypeOK, StepFits, [Next]_vars
  PROVE  \/ record' = record
         \/ \E r \in Runs : WriteActive(r)
         \/ \E r \in Runs : RequestCleanup(r)
         \/ \E p \in Procs, b \in Branches : Release(p, b) /\ record[b] # None
<1> USE WorktreeConstants DEF Goes, Git, Run, Procs
<1>1. ASSUME NEW r \in Runs, Raise(r) PROVE record' = record
  BY <1>1 DEF Raise
<1>2. ASSUME NEW r \in Runs, Start(r) \/ Plan(r) \/ Work(r) \/ Wait(r) PROVE record' = record
  BY <1>2 DEF Start, Ask, Admit, Create, Return, Plan, Work, Wait
<1>3. ASSUME NEW r \in Runs, Prepare(r), ~WriteActive(r) PROVE record' = record
  BY <1>1, <1>3 DEF Prepare, ReadOwner, Look, AddBranch, AddWorktree, Activate, Prepared, Return
<1>4. ASSUME NEW p \in Procs, NEW b, Cleanup(p, b), ~Release(p, b) PROVE record' = record
  <2>1. CASE Refused(p)
    BY <1>1, <2>1 DEF Refused
  <2> QED
    BY <1>4, <2>1 DEF Cleanup, Validate, Remove, Prune, Drop
<1>5. ASSUME NEW r \in Runs, Discarded(r) \/ Crash(r) \/ CallFails(r) PROVE record' = record
  BY <1>1, <1>5 DEF Discarded, Return, Crash, CallFails
<1>6. ASSUME NEW r \in Runs, Release(r, Branch(r))
      PROVE  Branch(r) \in Branches /\ record[Branch(r)] # None
  BY <1>6 DEF Release, StepFits, Branch, TypeOK
<1>7. ASSUME Release(Collector, Current)
      PROVE  Current \in Branches /\ record[Current] # None
  BY <1>7 DEF Release, StepFits, Current, TypeOK
<1>8. CASE CollectorStep
  <2>1. CASE List \/ Collect \/ CollectorDies
    BY <2>1 DEF List, Collect, CollectorDies
  <2> QED
    BY <1>4, <1>7, <1>8, <2>1 DEF CollectorStep
<1>9. ASSUME NEW r \in Runs, Discard(r)
      PROVE  \/ record' = record
             \/ RequestCleanup(r)
             \/ Release(r, Branch(r)) /\ Branch(r) \in Branches /\ record[Branch(r)] # None
  BY <1>4, <1>5, <1>6, <1>9 DEF Discard
<1>10. CASE UNCHANGED vars
  BY <1>10 DEF vars
<1> QED
  BY <1>2, <1>3, <1>5, <1>8, <1>9, <1>10 DEF Next, RunStep

(* A mark other than "active" leaves the active records it does not concern.*)
LEMMA MarkedLedger ==
  ASSUME TypeOK, NEW c \in Branches, NEW st \in {"cleanup_requested", "released"},
         Mark(c, st)
  PROVE  /\ record'[c] # None /\ record'[c].status = st
         /\ \A b \in Branches : b # c => record'[b] = record[b]
         /\ \A b \in Branches : Active(b)' => Active(b) /\ record'[b] = record[b]
<1>1. record' = [record EXCEPT ![c] =
        [task |-> IF record[c] = None THEN None ELSE record[c].task, status |-> st]]
  BY DEF Mark
<1>2. \A t : [task |-> t, status |-> st] # None
        \/ t \notin Tasks \cup {None}
  BY WorktreeConstants DEF Records
<1>3. record[c] # None => record[c].task \in Tasks \cup {None}
  BY DEF TypeOK, Records
<1>4. record'[c] # None /\ record'[c].status = st
  BY <1>1, <1>2, <1>3 DEF TypeOK
<1>5. \A b \in Branches : b # c => record'[b] = record[b]
  BY <1>1 DEF TypeOK
<1> QED
  BY <1>4, <1>5 DEF Active, Status

(* The check of activate still holds when its record is written.            *)
LEMMA AloneStep ==
  ASSUME TypeOK, StepFits, OneRun, StillAlone, [Next]_vars
  PROVE  StillAlone'
<1> SUFFICES ASSUME NEW r \in Runs, step'[r] = "write" PROVE MayActivate(task[r])'
  BY DEF StillAlone
<1> USE WorktreeConstants DEF Goes, Git, Run, Procs
<1>a. step \in [Procs -> Steps] /\ task \in [Runs -> Tasks \cup {None}]
  BY DEF TypeOK
<1>1. ASSUME record' = record, task' = task, MayActivate(task[r]) PROVE MayActivate(task[r])'
  BY <1>1 DEF MayActivate, Active, Status
<1>2. CASE Activate(r)
  BY <1>a, <1>1, <1>2 DEF Activate, Raise
<1>3. CASE ~Activate(r)
  <2>1. step[r] = "write" /\ step'[r] = step[r]
    <3>1. \A q \in Runs : Raise(q) => step'[r] = step[r] \/ step'[r] = "idle"
      BY <1>a DEF Raise
    <3>2. \A p \in Procs : \A b : Cleanup(p, b) => step'[r] = step[r] \/ step'[r] # "write"
      BY <1>a, <3>1 DEF Cleanup, Validate, Remove, Prune, Drop, Release, Refused
    <3>3. \A q \in Runs : Discard(q) => step'[r] = step[r] \/ step'[r] # "write"
      BY <1>a, <3>2 DEF Discard, RequestCleanup, Discarded, Return
    <3>4. \A q \in Runs : Prepare(q) => step'[r] = step[r] \/ step'[r] # "write"
      BY <1>a, <1>3, <3>1 DEF Prepare, ReadOwner, Look, AddBranch, AddWorktree, Activate,
                              WriteActive, Prepared, Return
    <3>5. \A q \in Runs : Start(q) \/ Plan(q) \/ Work(q) \/ Wait(q)
            => step'[r] = step[r] \/ step'[r] # "write"
      BY <1>a DEF Start, Ask, Admit, Create, Return, Plan, Work, Wait
    <3>6. \A q \in Runs : Crash(q) \/ CallFails(q) => step'[r] = step[r] \/ step'[r] # "write"
      BY <1>a, <3>1 DEF Crash, CallFails
    <3>7. CollectorStep => step'[r] = step[r] \/ step'[r] # "write"
      BY <1>a, <3>2 DEF CollectorStep, List, Collect, CollectorDies
    <3> QED
      BY <3>3, <3>4, <3>5, <3>6, <3>7 DEF Next, RunStep, vars
  <2>2. node[r] = "prepare" /\ MayActivate(task[r])
    BY <2>1 DEF StepFits, StillAlone
  <2>3. task' = task
    <3>1. \A q \in Runs : ~Plan(q)
      BY <2>2, <2>1, <1>a DEF Plan, OneRun, Unfinished, StepFits
    <3> QED
      BY <3>1 DEF Next, RunStep, Start, Ask, Admit, Create, Return, Prepare, ReadOwner, Look,
        AddBranch, AddWorktree, Activate, WriteActive, Prepared, Work, Wait, Discard,
        RequestCleanup, Cleanup, Validate, Remove, Prune, Drop, Release, Refused, Raise,
        Discarded, Crash, CallFails, CollectorStep, List, Collect, CollectorDies, vars
  <2>4. ASSUME NEW q \in Runs, WriteActive(q) PROVE FALSE
    BY <1>a, <2>1, <2>2, <2>4 DEF WriteActive, OneRun, Unfinished, StepFits
  <2>5. ASSUME NEW q \in Runs, RequestCleanup(q) PROVE FALSE
    BY <1>a, <2>1, <2>2, <2>5 DEF RequestCleanup, OneRun, Unfinished
  <2>6. ASSUME NEW p \in Procs, NEW b \in Branches, Release(p, b)
        PROVE  MayActivate(task[r])'
    <3>1. Mark(b, "released")
      BY <2>6 DEF Release
    <3>2. \A c \in Branches : Status(c)' = "cleanup_requested" => Status(c) = "cleanup_requested"
      BY <3>1, MarkedLedger DEF Status
    <3>3. \A c \in Branches : Active(c)' => Active(c) /\ record'[c] = record[c]
      BY <3>1, MarkedLedger
    <3>4. BranchOf[task[r]] \in Branches
      BY <1>a, <2>2 DEF StepFits
    <3> QED
      BY <2>2, <2>3, <3>2, <3>3, <3>4 DEF MayActivate
  <2> QED
    BY <1>1, <2>2, <2>3, <2>4, <2>5, <2>6, LedgerStep
<1> QED
  BY <1>2, <1>3

(* Nobody becomes a second candidate.                                       *)
LEMMA CandidateStep ==
  ASSUME TypeOK, StepFits, StillAlone, OneCandidate, [Next]_vars
  PROVE  OneCandidate'
<1>1. CASE record' = record
  BY <1>1 DEF OneCandidate, Active, Status
<1>2. ASSUME NEW c \in Branches, NEW st \in {"cleanup_requested", "released"}, Mark(c, st)
      PROVE  OneCandidate'
  BY <1>2, MarkedLedger DEF OneCandidate
<1>3. ASSUME NEW r \in Runs, RequestCleanup(r) PROVE OneCandidate'
  BY <1>2, <1>3, WorktreeConstants DEF RequestCleanup, StepFits, TypeOK, Branch
<1>4. ASSUME NEW r \in Runs, WriteActive(r) PROVE OneCandidate'
  <2>1. MayActivate(task[r]) /\ record' =
          [record EXCEPT ![Branch(r)] = [task |-> task[r], status |-> "active"]]
    BY <1>4 DEF WriteActive, StillAlone
  <2> QED
    BY <2>1 DEF MayActivate, OneCandidate, Active, Status, TypeOK
<1> QED
  BY <1>1, <1>2, <1>3, <1>4, LedgerStep DEF Release

LEMMA LineInit == Init => LineInv
<1> SUFFICES ASSUME Init PROVE LineInv
  OBVIOUS
<1>1. TypeOK /\ StepFits
  BY DEF Init, TypeOK, StepFits, Nodes, Steps, Procs, Starting
<1>2. OneRun /\ StillAlone
  BY DEF Init, OneRun, StillAlone, Unfinished, Starting, Procs
<1>3. OneCandidate
  BY DEF Init, OneCandidate, Active, Status
<1> QED
  BY <1>1, <1>2, <1>3 DEF LineInv

(* The types hold whatever overlaps.                                        *)
THEOREM Typed == Spec => []TypeOK
<1>1. Init => TypeOK /\ StepFits
  BY LineInit DEF LineInv
<1>2. TypeOK /\ StepFits /\ [Next]_vars => (TypeOK /\ StepFits)'
  BY TypeStep, FitsStep
<1> QED
  BY <1>1, <1>2, PTL DEF Spec

LEMMA LineHolds == ASSUME AtomicStarts PROVE Spec => []LineInv
<1>1. LineInv /\ [Next]_vars => LineInv'
  BY TypeStep, FitsStep, OneRunStep, AloneStep, CandidateStep DEF LineInv
<1> QED
  BY <1>1, LineInit, PTL DEF Spec

(* With starts that overlap with nothing there is at most one candidate,    *)
(* after any crashes and failures, and beside the collector.                *)
THEOREM OneLine == ASSUME AtomicStarts PROVE Spec => []OneCandidate
<1>1. LineInv => OneCandidate
  BY DEF LineInv
<1> QED
  BY <1>1, LineHolds, PTL

(* Neither a run that prepares its worktree nor one that works in it has a  *)
(* branch the collector is about to clean up.                               *)
LEMMA ListedElsewhere ==
  ASSUME StepFits, ListHarmless, Prepares, WorkspaceKept, NEW r \in Runs, NEW b \in todo,
         node[r] = "work" \/ (node[r] = "prepare" /\ step[r] # "idle")
  PROVE  Branch(r) # b
  BY DEF ListHarmless

(* If no listed branch is planned again, the collector leaves runs alone.   *)
LEMMA WorkStep ==
  ASSUME ~LateCollector, LineInv, WorkInv, [Next]_vars
  PROVE  WorkInv'
<1> USE WorktreeConstants DEF Goes, Git, Run, Procs
<1>a. /\ node \in [Runs -> Nodes] /\ task \in [Runs -> Tasks \cup {None}]
      /\ step \in [Procs -> Steps] /\ todo \subseteq Branches
      /\ record \in [Branches -> Records \cup {None}]
      /\ entry \in [Branches -> {"none", "own", "foreign"}]
  BY DEF LineInv, TypeOK
<1>b. StepFits /\ ListHarmless /\ Prepares /\ WorkspaceKept
  BY DEF LineInv, WorkInv
<1>c. \A r, q \in Runs : Unfinished(r) /\ Unfinished(q) => r = q
  BY DEF LineInv, OneRun
<1>d. \A r \in Runs : node[r] \in {"prepare", "work", "discard"} => Branch(r) \in Branches
  BY <1>a, <1>b DEF StepFits, Branch
<1>e. StepFits'
  BY FitsStep DEF LineInv
<1> USE DEF Status, Branch
<1>1. ASSUME NEW r \in Runs, Raise(r) PROVE WorkInv'
  BY <1>a, <1>b, <1>1 DEF Raise, WorkInv, ListHarmless, Prepares, WorkspaceKept, Working
<1>2. ASSUME NEW r \in Runs, Start(r) PROVE WorkInv'
  BY <1>a, <1>b, <1>2 DEF Start, Ask, Admit, Create, Return, StepFits, Starting,
                          WorkInv, ListHarmless, Prepares, WorkspaceKept, Working
<1>3. ASSUME NEW r \in Runs, Plan(r) PROVE WorkInv'
  <2>1. /\ Branch(r)' \notin todo \/ Status(Branch(r)') # "released"
        /\ node' = [node EXCEPT ![r] = "prepare"]
        /\ \A q \in Runs : q # r => task'[q] = task[q]
        /\ UNCHANGED <<waits, step, todo, record, entry, dir, local>>
    BY <1>a, <1>3 DEF Plan
  <2>2. step[r] = "idle"
    BY <1>a, <1>b, <1>3 DEF Plan, StepFits, Starting, TypeOK, Steps
  <2> QED
    BY <1>a, <1>b, <2>1, <2>2 DEF WorkInv, ListHarmless, Prepares, WorkspaceKept, Working
<1>4. ASSUME NEW r \in Runs, ReadOwner(r) \/ Look(r) PROVE WorkInv'
  BY <1>a, <1>b, <1>d, <1>1, <1>4
  DEF ReadOwner, Look, StepFits, WorkInv, ListHarmless, Prepares, WorkspaceKept, Working
<1>5. ASSUME NEW r \in Runs, AddBranch(r) \/ AddWorktree(r) PROVE WorkInv'
  BY <1>a, <1>b, <1>c, <1>d, <1>1, <1>5
  DEF AddBranch, AddWorktree, StepFits, Unfinished,
      WorkInv, ListHarmless, Prepares, WorkspaceKept, Working
<1>6. ASSUME NEW r \in Runs, Activate(r) PROVE WorkInv'
  BY <1>a, <1>b, <1>1, <1>6
  DEF Activate, StepFits, WorkInv, ListHarmless, Prepares, WorkspaceKept, Working
<1>7. ASSUME NEW r \in Runs, WriteActive(r) PROVE WorkInv'
  <2>1. node[r] = "prepare" /\ Branch(r) \notin todo
    BY <1>b, <1>7, ListedElsewhere DEF WriteActive, StepFits
  <2>2. \A q \in Runs : q # r => node[q] \notin {"prepare", "work", "discard"}
    BY <1>c, <2>1 DEF Unfinished
  <2>3. [task |-> task[r], status |-> "active"] # None
    BY <1>a DEF Records
  <2> QED
    BY <1>a, <1>b, <1>d, <1>7, <2>1, <2>2, <2>3
    DEF WriteActive, StepFits, WorkInv, ListHarmless, Prepares, WorkspaceKept, Working
<1>8. ASSUME NEW r \in Runs, Prepared(r) PROVE WorkInv'
  <2>1. node[r] = "prepare" /\ Branch(r) \notin todo
    BY <1>b, <1>8, ListedElsewhere DEF Prepared, StepFits
  <2> QED
    BY <1>a, <1>b, <1>8, <2>1
    DEF Prepared, Return, StepFits, WorkInv, ListHarmless, Prepares, WorkspaceKept, Working
<1>9. ASSUME NEW r \in Runs, Work(r) \/ Wait(r) PROVE WorkInv'
  BY <1>a, <1>b, <1>c, <1>9
  DEF Work, Wait, StepFits, Unfinished, WorkInv, ListHarmless, Prepares, WorkspaceKept, Working
<1>10. ASSUME NEW r \in Runs, node[r] = "discard",
              NEW st \in {"cleanup_requested", "released"}, Mark(Branch(r), st),
              UNCHANGED <<node, task, todo, entry, dir>>,
              \A q \in Runs : q # r => step'[q] = step[q]
       PROVE  WorkInv'
  <2>1. \A q \in Runs : q # r => node[q] \notin {"prepare", "work", "discard"}
    BY <1>c, <1>10 DEF Unfinished
  <2>2. /\ record'[Branch(r)] # None /\ record'[Branch(r)].status = st
        /\ \A b \in Branches : b # Branch(r) => record'[b] = record[b]
    BY <1>d, <1>10, MarkedLedger DEF LineInv
  <2>3. step'[r] \notin {"activate", "write", "made"}
    BY <1>e, <1>10 DEF StepFits
  <2> QED
    BY <1>a, <1>b, <1>10, <2>1, <2>2, <2>3
    DEF StepFits, WorkInv, ListHarmless, Prepares, WorkspaceKept, Working
<1>11. ASSUME NEW r \in Runs, Discard(r) PROVE WorkInv'
  <2>1. CASE RequestCleanup(r)
    BY <1>a, <1>10, <2>1 DEF RequestCleanup
  <2>2. CASE Release(r, Branch(r))
    <3>1. node[r] = "discard"
      BY <1>b, <2>2 DEF Release, StepFits
    <3> QED
      BY <1>a, <1>10, <2>2, <3>1 DEF Release
  <2>3. ASSUME step[r] # "idle", NEW b \in {Branch(r)},
               Validate(r, b) \/ Remove(r, b) \/ Prune(r, b) \/ Drop(r, b)
        PROVE  WorkInv'
    <3>1. node[r] = "discard"
      BY <1>b, <2>3 DEF Validate, Remove, Prune, Drop, StepFits
    <3>2. \A q \in Runs : q # r => node[q] \notin {"prepare", "work", "discard"}
      BY <1>c, <3>1 DEF Unfinished
    <3>3. CASE Raise(r)
      BY <1>1, <3>3
    <3>4. CASE ~Raise(r)
      <4>1. /\ UNCHANGED <<node, task, todo, record>>
            /\ \A q \in Runs : q # r => step'[q] = step[q]
        BY <1>a, <2>3, <3>4 DEF Validate, Remove, Prune, Drop, Refused
      <4>2. step'[r] \notin {"activate", "write", "made"}
        BY <1>e, <3>1, <4>1 DEF StepFits
      <4> QED
        BY <1>a, <1>b, <3>1, <3>2, <4>1, <4>2
        DEF StepFits, WorkInv, ListHarmless, Prepares, WorkspaceKept, Working
    <3> QED
      BY <3>3, <3>4
  <2>4. CASE Discarded(r)
    BY <1>a, <1>b, <1>c, <2>4
    DEF Discarded, Return, StepFits, Unfinished,
        WorkInv, ListHarmless, Prepares, WorkspaceKept, Working
  <2> QED
    BY <1>11, <2>1, <2>2, <2>3, <2>4 DEF Discard, Cleanup
<1>12. ASSUME NEW r \in Runs, Crash(r) \/ CallFails(r) PROVE WorkInv'
  BY <1>a, <1>b, <1>1, <1>12
  DEF Crash, CallFails, WorkInv, ListHarmless, Prepares, WorkspaceKept, Working
<1>14. CASE CollectorStep
  <2>1. CASE List
    <3>1. \A r \in Runs, b \in todo' : node[r] = "work" => Branch(r) # b
      <4> SUFFICES ASSUME NEW r \in Runs, NEW b \in todo', node[r] = "work", Branch(r) = b
                   PROVE  FALSE
        OBVIOUS
      <4>1. record[b] # None /\ record[b].status = "cleanup_requested"
        BY <2>1 DEF List
      <4>2. record[b] = [task |-> task[r], status |-> "active"]
        BY <1>b DEF WorkspaceKept, Working
      <4>3. record[b].status = "active"
        BY <4>2
      <4> QED
        BY <4>1, <4>3
    <3>2. \A b \in todo' : Status(b) = "cleanup_requested"
      BY <2>1 DEF List
    <3>3. UNCHANGED <<node, task, step, record, entry, dir>>
      BY <2>1 DEF List
    <3> QED
      BY <1>b, <3>1, <3>2, <3>3 DEF WorkInv, ListHarmless, Prepares, WorkspaceKept, Working
  <2>2. CASE Collect \/ CollectorDies
    BY <1>a, <1>b, <2>2
    DEF Collect, CollectorDies, WorkInv, ListHarmless, Prepares, WorkspaceKept, Working
  <2>3. CASE step[Collector] # "idle" /\ Cleanup(Collector, Current)
    <3> DEFINE b == Current
    <3>1. b \in todo /\ b \in Branches
      BY <1>a, <1>b, <2>3 DEF StepFits, Current
    <3>2. \A r \in Runs : node[r] = "work" \/ (node[r] = "prepare" /\ step[r] # "idle")
                           => Branch(r) # b
      BY <1>b, <3>1, ListedElsewhere
    <3> HIDE DEF b
    <3>3. /\ UNCHANGED <<node, task>> /\ todo' \subseteq todo
          /\ \A r \in Runs : step'[r] = step[r]
          /\ \A c \in Branches : c # b => entry'[c] = entry[c] /\ (c \in dir => c \in dir')
      BY <1>a, <2>3, <3>1
      DEF b, Cleanup, Validate, Remove, Prune, Drop, Release, Refused, Mark
    <3>4. CASE record' = record
      BY <1>a, <1>b, <3>1, <3>2, <3>3, <3>4
      DEF StepFits, WorkInv, ListHarmless, Prepares, WorkspaceKept, Working
    <3>5. CASE Release(Collector, b)
      <4>1. /\ record'[b] # None /\ record'[b].status = "released"
            /\ \A c \in Branches : c # b => record'[c] = record[c]
        BY <3>1, <3>5, MarkedLedger DEF Release, LineInv
      <4>2. b \notin todo'
        BY <3>5 DEF b, Release
      <4> QED
        BY <1>a, <1>b, <1>d, <3>1, <3>2, <3>3, <4>1, <4>2
        DEF StepFits, WorkInv, ListHarmless, Prepares, WorkspaceKept, Working
    <3> QED
      BY <2>3, <3>4, <3>5
      DEF b, Cleanup, Validate, Remove, Prune, Drop, Refused
  <2> QED
    BY <1>14, <2>1, <2>2, <2>3 DEF CollectorStep
<1>13. CASE UNCHANGED vars
  BY <1>b, <1>13 DEF vars, WorkInv, ListHarmless, Prepares, WorkspaceKept, Working
<1> QED
  BY <1>2, <1>3, <1>4, <1>5, <1>6, <1>7, <1>8, <1>9, <1>11, <1>12, <1>13, <1>14
  DEF Next, RunStep, Prepare

(* A run keeps the worktree it works in, beside the collector and whatever  *)
(* crashed or failed before it.                                             *)
THEOREM Undisturbed ==
  ASSUME AtomicStarts, ~LateCollector
  PROVE  Spec => []WorkspaceKept
<1>1. Init => WorkInv
  BY DEF Init, WorkInv, ListHarmless, Prepares, WorkspaceKept, Working, Procs
<1>2. LineInv /\ WorkInv /\ [Next]_vars => WorkInv'
  BY WorkStep
<1>3. WorkInv => WorkspaceKept
  BY DEF WorkInv
<1> QED
  BY <1>1, <1>2, <1>3, LineHolds, PTL DEF Spec

(* What is being cleaned up, by a run or from the collector's list.         *)
Claimed(b) == b \in todo \/ \E r \in Runs : Cleans(r) /\ Branch(r) = b

\* Nothing of a branch comes back, and what the ledger says of it stays true.
Fades(b) ==
  /\ b \in dir' => b \in dir
  /\ b \in local' => b \in local
  /\ entry'[b] = entry[b] \/ (entry'[b] = "none" /\ b \notin dir)
  /\ \/ Status(b)' \in {Status(b), "cleanup_requested"}
     \/ Status(b)' = "released" /\ Gone(b)

(* A run that prepares a worktree or works in it has another branch.        *)
LEMMA ClaimedElsewhere ==
  ASSUME LineInv, WorkInv, NEW b, Claimed(b), NEW r \in Runs,
         node[r] = "work" \/ (node[r] = "prepare" /\ step[r] # "idle")
  PROVE  Branch(r) # b
<1>1. CASE b \in todo
  BY <1>1, ListedElsewhere DEF LineInv, WorkInv
<1>2. CASE \E q \in Runs : Cleans(q) /\ Branch(q) = b
  BY <1>2 DEF LineInv, StepFits, OneRun, Unfinished, Cleans
<1> QED
  BY <1>1, <1>2 DEF Claimed

(* What the step of a cleanup does to its branch and to others.             *)
LEMMA CleanupStep ==
  ASSUME TypeOK, NEW p \in Procs, NEW b \in Branches, record[b] # None,
         Progress(p, b), Cleanup(p, b)
  PROVE  /\ Fades(b)
         /\ \A c \in Branches : c # b => Fades(c)
         /\ UNCHANGED task
         /\ \A q \in Procs : q # p => step'[q] = step[q]
         /\ step'[p] \in {"remove", "prune", "drop", "release"} => Progress(p, b)' /\ todo' = todo
<1> USE DEF Goes, Git, Run, Progress, Fades, Status
<1>a. /\ step \in [Procs -> Steps] /\ p \in DOMAIN step
      /\ entry \in [Branches -> {"none", "own", "foreign"}]
      /\ record \in [Branches -> Records \cup {None}]
  BY DEF TypeOK
<1>1. ASSUME Refused(p)
      PROVE  UNCHANGED <<task, record, Git>> /\ step' = [step EXCEPT ![p] = "idle"]
  BY <1>1 DEF Refused, Raise
<1>2. CASE Validate(p, b)
  BY <1>a, <1>1, <1>2 DEF Validate, Valid
<1>3. CASE Remove(p, b)
  BY <1>a, <1>1, <1>3 DEF Remove, Valid
<1>4. CASE Prune(p, b)
  BY <1>a, <1>4 DEF Prune
<1>5. CASE Drop(p, b)
  BY <1>a, <1>5 DEF Drop, Gone
<1>6. CASE Release(p, b)
  <2>1. /\ record'[b] # None /\ record'[b].status = "released"
        /\ \A c \in Branches : c # b => record'[c] = record[c]
    BY <1>6, MarkedLedger DEF Release
  <2> QED
    BY <1>a, <1>6, <2>1 DEF Release, Gone
<1> QED
  BY <1>2, <1>3, <1>4, <1>5, <1>6 DEF Cleanup

(* What one cleanup, or the collector's list, has got rid of stays away.    *)
LEMMA FadesStep ==
  ASSUME LineInv, WorkInv, CleanInv, [Next]_vars, NEW b \in Branches, Claimed(b)
  PROVE  Fades(b)
<1> USE DEF Goes, Git, Run
<1>a. /\ TypeOK /\ StepFits /\ entry \in [Branches -> {"none", "own", "foreign"}]
      /\ record \in [Branches -> Records \cup {None}]
  BY DEF LineInv, TypeOK
<1>b. ASSUME UNCHANGED <<record, Git>> PROVE Fades(b)
  BY <1>b DEF Fades, Status
<1>c. ASSUME NEW r \in Runs,
             node[r] = "work" \/ (node[r] = "prepare" /\ step[r] # "idle")
      PROVE  Branch(r) # b
  BY <1>c, ClaimedElsewhere
<1>1. ASSUME NEW r \in Runs, Start(r) \/ Plan(r) \/ Wait(r) PROVE Fades(b)
  BY <1>b, <1>1 DEF Start, Ask, Admit, Create, Return, Plan, Wait
<1>2. ASSUME NEW r \in Runs, Raise(r) PROVE Fades(b)
  BY <1>b, <1>2 DEF Raise
<1>3. ASSUME NEW r \in Runs, ReadOwner(r) \/ Look(r) \/ Activate(r) \/ Prepared(r)
      PROVE  Fades(b)
  BY <1>b, <1>2, <1>3 DEF ReadOwner, Look, Activate, Prepared, Return
<1>4. ASSUME NEW r \in Runs, AddBranch(r) \/ AddWorktree(r) PROVE Fades(b)
  <2>1. Branch(r) # b
    BY <1>a, <1>c, <1>4 DEF AddBranch, AddWorktree, StepFits
  <2> QED
    BY <1>a, <1>2, <1>4, <2>1 DEF AddBranch, AddWorktree, Fades, Status
<1>5. ASSUME NEW r \in Runs, WriteActive(r) PROVE Fades(b)
  <2>1. Branch(r) # b
    BY <1>a, <1>c, <1>5 DEF WriteActive, StepFits
  <2> QED
    BY <1>a, <1>5, <2>1 DEF WriteActive, Fades, Status
<1>6. ASSUME NEW r \in Runs, Work(r) PROVE Fades(b)
  <2>1. Branch(r) # b
    BY <1>c, <1>6 DEF Work
  <2> QED
    BY <1>a, <1>6, <2>1 DEF Work, Fades, Status
<1>7. ASSUME NEW r \in Runs, RequestCleanup(r) PROVE Fades(b)
  <2>1. Branch(r) \in Branches /\ Mark(Branch(r), "cleanup_requested")
    BY <1>a, <1>7, WorktreeConstants DEF RequestCleanup, StepFits, Branch, TypeOK
  <2>2. /\ record'[Branch(r)] # None /\ record'[Branch(r)].status = "cleanup_requested"
        /\ \A c \in Branches : c # Branch(r) => record'[c] = record[c]
    BY <1>a, <2>1, MarkedLedger
  <2> QED
    BY <1>7, <2>2 DEF RequestCleanup, Fades, Status
<1>8. ASSUME NEW r \in Runs, step[r] # "idle", Cleanup(r, Branch(r)) PROVE Fades(b)
  <2>1. Cleans(r)
    BY <1>8 DEF Cleans, Cleanup, Validate, Remove, Prune, Drop, Release
  <2>2. Branch(r) \in Branches /\ record[Branch(r)] # None /\ r \in Procs
    BY <1>a, <2>1, WorktreeConstants DEF Cleans, StepFits, Branch, TypeOK, Procs
  <2>3. Progress(r, Branch(r))
    BY <2>1 DEF CleanInv
  <2> QED
    BY <1>a, <1>8, <2>2, <2>3, CleanupStep
<1>9. ASSUME NEW r \in Runs, Discarded(r) \/ Crash(r) \/ CallFails(r) PROVE Fades(b)
  BY <1>b, <1>2, <1>9 DEF Discarded, Return, Crash, CallFails
<1>10. CASE List \/ Collect \/ CollectorDies
  BY <1>b, <1>10 DEF List, Collect, CollectorDies
<1>11. CASE step[Collector] # "idle" /\ Cleanup(Collector, Current)
  <2>1. Current \in todo /\ Current \in Branches /\ record[Current] # None
    BY <1>a, <1>11 DEF StepFits, Current, TypeOK
  <2>2. Progress(Collector, Current) /\ Collector \in Procs
    BY <1>11 DEF CleanInv, Procs
  <2> QED
    BY <1>a, <1>11, <2>1, <2>2, CleanupStep
<1>12. CASE UNCHANGED vars
  BY <1>b, <1>12 DEF vars
<1> QED
  BY <1>1, <1>3, <1>4, <1>5, <1>6, <1>7, <1>8, <1>9, <1>10, <1>11, <1>12
  DEF Next, RunStep, Prepare, Discard, CollectorStep

(* What holds of a branch that fades goes on to hold.                       *)
LEMMA FadingKept ==
  ASSUME NEW b \in Branches, Fades(b)
  PROVE  /\ Gone(b) => Gone(b)'
         /\ Asked(b) => Asked(b)'
         /\ \A p \in Procs : step'[p] = step[p] /\ Progress(p, b) => Progress(p, b)'
<1>1. Gone(b) => Gone(b)'
  BY DEF Fades, Gone
<1>2. Asked(b) => Asked(b)'
  BY <1>1 DEF Fades, Asked
<1>3. Valid(b) => Valid(b)'
  BY DEF Fades, Valid
<1> QED
  BY <1>1, <1>2, <1>3 DEF Progress, Fades

(* Who moves a run within a cleanup.                                        *)
LEMMA CleanerStep ==
  ASSUME LineInv, [Next]_vars, NEW r \in Runs, Cleans(r)'
  PROVE  \/ Cleans(r) /\ step'[r] = step[r] /\ task'[r] = task[r]
         \/ RequestCleanup(r)
         \/ Cleans(r) /\ Cleanup(r, Branch(r))
<1> USE WorktreeConstants DEF Goes, Git, Run, Procs, Cleans
<1>a. /\ step \in [Procs -> Steps] /\ node \in [Runs -> Nodes]
      /\ task \in [Runs -> Tasks \cup {None}]
  BY DEF LineInv, TypeOK
<1>b. StepFits
  BY DEF LineInv
<1>1. ASSUME NEW q \in Runs, Raise(q) PROVE Cleans(r) /\ step'[r] = step[r] /\ task'[r] = task[r]
  BY <1>a, <1>1 DEF Raise
<1>2. ASSUME NEW q \in Runs, Start(q) \/ Work(q) \/ Wait(q)
      PROVE  Cleans(r) /\ step'[r] = step[r] /\ task'[r] = task[r]
  BY <1>a, <1>2 DEF Start, Ask, Admit, Create, Return, Work, Wait
<1>3. ASSUME NEW q \in Runs, Plan(q)
      PROVE  Cleans(r) /\ step'[r] = step[r] /\ task'[r] = task[r]
  BY <1>a, <1>b, <1>3 DEF Plan, StepFits
<1>4. ASSUME NEW q \in Runs, Prepare(q)
      PROVE  Cleans(r) /\ step'[r] = step[r] /\ task'[r] = task[r]
  BY <1>a, <1>1, <1>4 DEF Prepare, ReadOwner, Look, AddBranch, AddWorktree, Activate,
                          WriteActive, Prepared, Return
<1>5. ASSUME NEW p \in Procs, NEW b, Cleanup(p, b), p # r
      PROVE  Cleans(r) /\ step'[r] = step[r] /\ task'[r] = task[r]
  <2>1. CASE Refused(p)
    BY <1>a, <1>1, <1>5, <2>1 DEF Refused
  <2> QED
    BY <1>a, <1>5, <2>1 DEF Cleanup, Validate, Remove, Prune, Drop, Release
<1>6. ASSUME NEW q \in Runs, Discard(q)
      PROVE  \/ Cleans(r) /\ step'[r] = step[r] /\ task'[r] = task[r]
             \/ RequestCleanup(r)
             \/ Cleans(r) /\ Cleanup(r, Branch(r))
  <2>1. CASE RequestCleanup(q) \/ Discarded(q)
    BY <1>a, <2>1 DEF RequestCleanup, Discarded, Return
  <2>2. CASE Cleanup(q, Branch(q)) /\ q # r
    BY <1>5, <2>2
  <2>3. CASE Cleanup(q, Branch(q)) /\ q = r
    BY <2>3 DEF Cleanup, Validate, Remove, Prune, Drop, Release
  <2> QED
    BY <1>6, <2>1, <2>2, <2>3 DEF Discard
<1>7. ASSUME NEW q \in Runs, Crash(q) \/ CallFails(q)
      PROVE  Cleans(r) /\ step'[r] = step[r] /\ task'[r] = task[r]
  BY <1>a, <1>1, <1>7 DEF Crash, CallFails
<1>8. CASE CollectorStep
  <2>1. CASE List \/ Collect \/ CollectorDies
    BY <1>a, <2>1 DEF List, Collect, CollectorDies
  <2> QED
    BY <1>5, <1>8, <2>1 DEF CollectorStep
<1>9. CASE UNCHANGED vars
  BY <1>9 DEF vars
<1> QED
  BY <1>2, <1>3, <1>4, <1>6, <1>7, <1>8, <1>9 DEF Next, RunStep

(* Nobody but the collector takes part in its list.                         *)
LEMMA CollectedStep ==
  ASSUME LineInv, [Next]_vars
  PROVE  \/ UNCHANGED todo /\ step'[Collector] = step[Collector]
         \/ List \/ Collect \/ CollectorDies
         \/ step[Collector] # "idle" /\ Cleanup(Collector, Current)
<1> USE WorktreeConstants DEF Goes, Git, Run, Procs
<1>a. step \in [Procs -> Steps]
  BY DEF LineInv, TypeOK
<1>1. ASSUME NEW r \in Runs, Raise(r)
      PROVE  UNCHANGED todo /\ step'[Collector] = step[Collector]
  BY <1>a, <1>1 DEF Raise
<1>2. ASSUME NEW r \in Runs, Start(r) \/ Plan(r) \/ Work(r) \/ Wait(r)
      PROVE  UNCHANGED todo /\ step'[Collector] = step[Collector]
  BY <1>a, <1>2 DEF Start, Ask, Admit, Create, Return, Plan, Work, Wait
<1>3. ASSUME NEW r \in Runs, Prepare(r)
      PROVE  UNCHANGED todo /\ step'[Collector] = step[Collector]
  BY <1>a, <1>1, <1>3 DEF Prepare, ReadOwner, Look, AddBranch, AddWorktree, Activate,
                          WriteActive, Prepared, Return
<1>4. ASSUME NEW r \in Runs, Cleanup(r, Branch(r))
      PROVE  UNCHANGED todo /\ step'[Collector] = step[Collector]
  <2>1. CASE Refused(r)
    BY <1>1, <2>1 DEF Refused
  <2> QED
    BY <1>a, <1>4, <2>1 DEF Cleanup, Validate, Remove, Prune, Drop, Release
<1>5. ASSUME NEW r \in Runs, Discard(r)
      PROVE  UNCHANGED todo /\ step'[Collector] = step[Collector]
  BY <1>a, <1>4, <1>5 DEF Discard, RequestCleanup, Discarded, Return
<1>6. ASSUME NEW r \in Runs, Crash(r) \/ CallFails(r)
      PROVE  UNCHANGED todo /\ step'[Collector] = step[Collector]
  BY <1>a, <1>1, <1>6 DEF Crash, CallFails
<1> QED
  BY <1>2, <1>3, <1>5, <1>6 DEF Next, RunStep, CollectorStep, vars

(* Cleanups that meet on a branch help each other, and never go back.       *)
LEMMA CleanStep ==
  ASSUME LineInv, WorkInv, CleanInv, [Next]_vars
  PROVE  CleanInv'
<1>a. TypeOK /\ StepFits /\ TypeOK' /\ StepFits'
  BY TypeStep, FitsStep DEF LineInv
<1>b. Collector \in Procs /\ Runs \subseteq Procs /\ Collector \notin Runs
  BY WorktreeConstants DEF Procs
<1>c. \A b \in Branches : Claimed(b) => Fades(b)
  BY FadesStep
<1>1. ASSUME NEW b \in todo' PROVE Asked(b)'
  <2>1. CASE b \in todo
    <3>1. b \in Branches /\ Asked(b) /\ Claimed(b)
      BY <1>a, <2>1 DEF TypeOK, CleanInv, Claimed
    <3> QED
      BY <1>c, <3>1, FadingKept
  <2>2. CASE b \notin todo
    <3>1. List
      BY <1>1, <2>2, CollectedStep DEF Collect, CollectorDies, Cleanup, Validate, Remove,
         Prune, Drop, Release, Refused, Run, Git, Raise
    <3> QED
      BY <1>1, <3>1 DEF List, Asked, Status
  <2> QED
    BY <2>1, <2>2
<1>2. ASSUME NEW r \in Runs, Cleans(r)' PROVE (Asked(Branch(r)) /\ Progress(r, Branch(r)))'
  <2>1. CASE Cleans(r) /\ step'[r] = step[r] /\ task'[r] = task[r]
    <3>1. /\ Branch(r) \in Branches /\ Claimed(Branch(r)) /\ Branch(r)' = Branch(r)
          /\ Asked(Branch(r)) /\ Progress(r, Branch(r))
      BY <1>a, <2>1, WorktreeConstants DEF Cleans, StepFits, TypeOK, Branch, Claimed, CleanInv
    <3>2. Asked(Branch(r))' /\ Progress(r, Branch(r))'
      BY <1>b, <1>c, <2>1, <3>1, FadingKept DEF Branch
    <3> QED
      BY <3>2
  <2>2. CASE RequestCleanup(r)
    <3>1. /\ Branch(r) \in Branches /\ Mark(Branch(r), "cleanup_requested")
          /\ step' = [step EXCEPT ![r] = "validate"] /\ Branch(r)' = Branch(r)
      BY <1>a, <2>2, WorktreeConstants
      DEF RequestCleanup, StepFits, Branch, TypeOK, Goes, Run
    <3>2. record'[Branch(r)] # None /\ record'[Branch(r)].status = "cleanup_requested"
      BY <1>a, <3>1, MarkedLedger
    <3>3. step'[r] = "validate"
      BY <1>a, <1>b, <3>1 DEF TypeOK
    <3> QED
      BY <3>1, <3>2, <3>3 DEF Asked, Status, Progress
  <2>3. CASE Cleans(r) /\ Cleanup(r, Branch(r))
    <3>1. PICK b \in Branches : b = Branch(r)
      BY <1>a, <2>3, WorktreeConstants DEF Cleans, StepFits, TypeOK, Branch
    <3>2. Claimed(b) /\ record[b] # None /\ Asked(b) /\ Progress(r, b) /\ Cleanup(r, b)
      BY <1>a, <2>3, <3>1 DEF Cleans, StepFits, Claimed, CleanInv
    <3>3. /\ task' = task
          /\ step'[r] \in {"remove", "prune", "drop", "release"} => Progress(r, b)'
      BY <1>a, <1>b, <3>2, CleanupStep
    <3>4. Asked(b)'
      BY <1>c, <3>2, FadingKept
    <3>5. Progress(r, b)'
      BY <3>3 DEF Progress
    <3>6. Branch(r)' = b
      BY <3>1, <3>3 DEF Branch
    <3> QED
      BY <3>4, <3>5, <3>6 DEF Asked, Status, Gone, Progress, Valid
  <2> QED
    BY <1>2, <2>1, <2>2, <2>3, CleanerStep
<1>3. ASSUME (step[Collector] # "idle")' PROVE Progress(Collector, Current)'
  <2>1. CASE UNCHANGED todo /\ step'[Collector] = step[Collector]
    <3>1. Current \in Branches /\ Claimed(Current) /\ Progress(Collector, Current)
      BY <1>3, <1>a, <2>1 DEF TypeOK, StepFits, Current, Claimed, CleanInv
    <3>2. Current' = Current
      BY <2>1 DEF Current
    <3> DEFINE b == Current
    <3>3. Progress(Collector, b)'
      BY <1>b, <1>c, <2>1, <3>1, <3>2, FadingKept
    <3> QED
      BY <3>3
  <2>2. CASE List \/ Collect \/ CollectorDies
    <3>1. step'[Collector] = "validate"
      BY <1>3, <1>a, <1>b, <2>2 DEF List, Collect, CollectorDies, Goes, TypeOK, Run, Git
    <3> QED
      BY <3>1 DEF Progress
  <2>3. CASE step[Collector] # "idle" /\ Cleanup(Collector, Current)
    <3>1. PICK b \in Branches : b = Current
      BY <1>a, <2>3 DEF TypeOK, StepFits, Current
    <3>2. Progress(Collector, b) /\ record[b] # None /\ Cleanup(Collector, b)
      BY <1>a, <2>3, <3>1 DEF TypeOK, StepFits, Current, CleanInv
    <3>3. step'[Collector] \in {"remove", "prune", "drop", "release"}
            => Progress(Collector, b)' /\ todo' = todo
      BY <1>a, <1>b, <3>2, CleanupStep
    <3>4. todo' = todo => Current' = b
      BY <3>1 DEF Current
    <3> QED
      BY <3>3, <3>4 DEF Progress, Valid, Gone
  <2> QED
    BY <2>1, <2>2, <2>3, CollectedStep
<1> QED
  BY <1>1, <1>2, <1>3 DEF CleanInv

(* Only a cleanup removes a directory or calls a branch released, and then  *)
(* it was asked to, or all of the branch is gone.                           *)
LEMMA OnlyCleanup ==
  ASSUME LineInv, WorkInv, CleanInv, [Next]_vars
  PROVE  /\ \A b \in dir \ dir' : Status(b) = "cleanup_requested" /\ entry[b] = "own"
         /\ \A b \in Branches : Status(b) # "released" /\ Status(b)' = "released" => Gone(b)
<1>a. /\ TypeOK /\ StepFits /\ dir \subseteq Branches
      /\ record \in [Branches -> Records \cup {None}]
  BY DEF LineInv, TypeOK
<1>b. Collector \in Procs /\ Runs \subseteq Procs
  BY DEF Procs
<1> DEFINE Orderly ==
      /\ \A b \in dir \ dir' : Status(b) = "cleanup_requested" /\ entry[b] = "own"
      /\ \A b \in Branches : Status(b) # "released" /\ Status(b)' = "released" => Gone(b)
<1> SUFFICES Orderly
  OBVIOUS
<1>1. ASSUME dir \subseteq dir', UNCHANGED record PROVE Orderly
  BY <1>1 DEF Status
<1>2. ASSUME NEW p \in Procs, NEW b \in Branches, record[b] # None,
             Asked(b), Progress(p, b), Cleanup(p, b)
      PROVE  Orderly
  <2>1. Fades(b) /\ \A c \in Branches : c # b => Fades(c)
    BY <1>a, <1>2, CleanupStep
  <2>2. ASSUME NEW c \in dir \ dir'
        PROVE  c = b /\ entry[b] = "own" /\ Status(b) = "cleanup_requested"
    <3>1. step[p] = "remove" /\ dir' = dir \ {b}
      BY <1>2, <2>2 DEF Cleanup, Validate, Remove, Prune, Drop, Release, Refused, Raise, Git
    <3> QED
      BY <1>2, <2>2, <3>1 DEF Progress, Valid, Asked, Gone
  <2>3. \A c \in Branches : Status(c) # "released" /\ Status(c)' = "released" => Gone(c)
    BY <2>1 DEF Fades
  <2> QED
    BY <2>2, <2>3
<1> HIDE DEF Orderly
<1>3. ASSUME NEW r \in Runs, Raise(r) PROVE Orderly
  BY <1>1, <1>3 DEF Raise, Git
<1>4. ASSUME NEW r \in Runs, Start(r) \/ Plan(r) \/ Work(r) \/ Wait(r) PROVE Orderly
  BY <1>1, <1>4 DEF Start, Ask, Admit, Create, Return, Plan, Work, Wait, Git
<1>5. ASSUME NEW r \in Runs, Prepare(r), ~WriteActive(r) PROVE Orderly
  BY <1>1, <1>3, <1>5
  DEF Prepare, ReadOwner, Look, AddBranch, AddWorktree, Activate, Prepared, Return, Git
<1>6. ASSUME NEW r \in Runs, WriteActive(r) PROVE Orderly
  <2>1. dir' = dir /\ \A b \in Branches : record'[b] = record[b] \/
               record'[b] = [task |-> task[r], status |-> "active"]
    BY <1>a, <1>6 DEF WriteActive, Git
  <2>2. \A b \in Branches : Status(b)' = Status(b) \/ Status(b)' # "released"
    BY <2>1 DEF Status
  <2> QED
    BY <2>1, <2>2 DEF Orderly
<1>7. ASSUME NEW r \in Runs, RequestCleanup(r) PROVE Orderly
  <2>1. Branch(r) \in Branches /\ Mark(Branch(r), "cleanup_requested") /\ dir' = dir
    BY <1>a, <1>7, WorktreeConstants DEF RequestCleanup, StepFits, Branch, TypeOK, Git
  <2>2. PICK c \in Branches : c = Branch(r) /\ Mark(c, "cleanup_requested")
    BY <2>1
  <2>3. /\ record'[c] # None /\ record'[c].status = "cleanup_requested"
        /\ \A b \in Branches : b # c => record'[b] = record[b]
    BY <1>a, <2>2, MarkedLedger
  <2>4. \A b \in Branches : Status(b)' = Status(b) \/ Status(b)' # "released"
    BY <2>3 DEF Status
  <2> QED
    BY <2>1, <2>4 DEF Orderly
<1>8. ASSUME NEW r \in Runs, step[r] # "idle", Cleanup(r, Branch(r)) PROVE Orderly
  <2>1. Cleans(r)
    BY <1>8 DEF Cleans, Cleanup, Validate, Remove, Prune, Drop, Release
  <2>2. Branch(r) \in Branches /\ record[Branch(r)] # None
    BY <1>a, <2>1, WorktreeConstants DEF Cleans, StepFits, Branch, TypeOK
  <2> QED
    BY <1>2, <1>8, <1>b, <2>1, <2>2 DEF CleanInv
<1>9. ASSUME NEW r \in Runs, Discarded(r) \/ Crash(r) \/ CallFails(r) PROVE Orderly
  BY <1>1, <1>3, <1>9 DEF Discarded, Return, Crash, CallFails, Git
<1>10. CASE CollectorStep
  <2>1. CASE List \/ Collect \/ CollectorDies
    BY <1>1, <2>1 DEF List, Collect, CollectorDies, Git
  <2>2. CASE step[Collector] # "idle" /\ Cleanup(Collector, Current)
    <3>1. Current \in todo /\ Current \in Branches /\ record[Current] # None
      BY <1>a, <2>2 DEF StepFits, Current, TypeOK
    <3> QED
      BY <1>2, <1>b, <2>2, <3>1 DEF CleanInv
  <2> QED
    BY <1>10, <2>1, <2>2 DEF CollectorStep
<1>11. CASE UNCHANGED vars
  BY <1>1, <1>11 DEF vars
<1> QED
  BY <1>4, <1>5, <1>6, <1>7, <1>8, <1>9, <1>10, <1>11 DEF Next, RunStep, Discard

(* A worktree only goes on request and when it is the candidate's own, and  *)
(* what is called released is gone, however cleanups meet or are cut short. *)
THEOREM OnRequest ==
  ASSUME AtomicStarts, ~LateCollector
  PROVE  Spec => RemovedOnRequest
<1>1. Init => WorkInv /\ CleanInv
  BY WorktreeConstants
  DEF Init, WorkInv, ListHarmless, Prepares, WorkspaceKept, Working, Procs, CleanInv, Cleans
<1>2. LineInv /\ WorkInv /\ [Next]_vars => WorkInv'
  BY WorkStep
<1>3. LineInv /\ WorkInv /\ CleanInv /\ [Next]_vars => CleanInv'
  BY CleanStep
<1>4. LineInv /\ WorkInv /\ CleanInv /\ [Next]_vars =>
        /\ \A b \in dir \ dir' : Status(b) = "cleanup_requested" /\ entry[b] = "own"
        /\ \A b \in Branches : Status(b) # "released" /\ Status(b)' = "released" => Gone(b)
  BY OnlyCleanup
<1> QED
  BY <1>1, <1>2, <1>3, <1>4, LineHolds, PTL DEF Spec, RemovedOnRequest

=============================================================================
