------------------------------ MODULE RunLease ------------------------------
(***************************************************************************)
(* Run leases, worker threads and failover timers of the run controllers.  *)
(*                                                                         *)
(* Several controller processes share one control registry (SQLite or      *)
(* PostgreSQL).  A controller claims the lease of a run before it starts   *)
(* the thread that drives the run's LangGraph checkpoint, renews the lease *)
(* from a heartbeat thread, and clears it when the thread ends.  Recovery  *)
(* timers, armed at start-up, by a status request and at the end of a      *)
(* worker, are what makes an abandoned run move again.                     *)
(*                                                                         *)
(* Sources: registry.py (runs table), registry_postgres.py (the same SQL   *)
(* under FOR UPDATE), runtime.py (RunController), runtime_service.py       *)
(* (ScheduledRunController).                                               *)
(*                                                                         *)
(* Time is kept relative: `left` is lease_expires_at minus the present, in *)
(* ticks, 0 once it has passed; `silence` is the time since the last       *)
(* successful claim or renewal of a worker.  An instant is only ever       *)
(* compared with the present, so nothing else of it matters.               *)
(***************************************************************************)
EXTENDS Naturals, FiniteSets

CONSTANTS
  Runs,          \* run ids
  Controllers,   \* controller processes; a lease owner name is never reused
  NoOwner,       \* lease_owner NULL
  TTL,           \* _LEASE_TTL_SECONDS, in ticks
  MaxSilence,    \* the longest a live worker can fail to renew its lease
  MaxSkew,       \* the most one host's clock can run ahead of another's
  Standby,       \* several controllers may run side by side
  EarlyRestart,  \* a controller may start while a dead one's lease is unexpired
  RegistryFails, \* registry writes of a starting or ending worker may fail
  Polled         \* somebody keeps asking for the status of unfinished runs

ASSUME LeaseConstants ==
  /\ TTL \in Nat \ {0}
  /\ MaxSilence \in Nat
  /\ MaxSkew \in Nat
  /\ NoOwner \notin Controllers
  /\ Standby \in BOOLEAN
  /\ EarlyRestart \in BOOLEAN
  /\ RegistryFails \in BOOLEAN
  /\ Polled \in BOOLEAN

VARIABLES
  row,      \* the runs table: whether finished_at is set, and the lease
  ckpt,     \* what the run's durable LangGraph checkpoint says
  phase,    \* the worker thread of each controller for each run
  silence,  \* ticks since that worker last claimed or renewed the lease
  timer,    \* the recovery timer (or start_run call) of each controller for a run
  life      \* "new" (not yet started), "up" or "dead", per controller

vars == <<row, ckpt, phase, silence, timer, life>>

\* "none": no such run; "next": a node is due; "wait": a machine interrupt
\* (ci_wait); "parked": an interrupt for the operator; "done": END reached.
Checkpoints == {"none", "next", "wait", "parked", "done"}

Rows == [finished : BOOLEAN, owner : Controllers \cup {NoOwner}, left : 0..TTL]

\* "claimed": inside _submit, lease claimed, thread not started; "running":
\* inside graph.invoke; "suspended", "completed", "failed": invoke has returned
\* and the outcome is not yet in the registry; "recorded": it is; "released":
\* the lease has been given back and the thread is still in _workers.
Phases == {"idle", "claimed", "running", "suspended", "completed", "failed",
           "recorded", "released"}

\* "checked": the callback has seen no foreign lease and a checkpoint to resume;
\* "reconciling": it has seen a terminal checkpoint.  "starting" is a start_run
\* that has created the row and has yet to submit.
Timers == {"off", "armed", "checked", "reconciling", "starting"}

TypeOK ==
  /\ row \in [Runs -> Rows]
  /\ ckpt \in [Runs -> Checkpoints]
  /\ phase \in [Controllers -> [Runs -> Phases]]
  /\ silence \in [Controllers -> [Runs -> 0..MaxSilence]]
  /\ timer \in [Controllers -> [Runs -> Timers]]
  /\ life \in [Controllers -> {"new", "up", "dead"}]

\* The phases in which a thread drives the run or still owes its outcome.
Working == {"claimed", "running", "suspended", "completed", "failed"}

Workers(r) == {c \in Controllers : phase[c][r] \in Working}

FreeRow == [finished |-> FALSE, owner |-> NoOwner, left |-> 0]

LeasedRow(c) == [finished |-> FALSE, owner |-> c, left |-> TTL]

FinishedRow == [finished |-> TRUE, owner |-> NoOwner, left |-> 0]

\* A variant named in PROJECT.json as a mutant, such as this one, is a plausible
\* mistake in the definition that follows it; the specification never uses it.
ForeignLeaseForever(c, r, skew) == row[r].owner \notin {c, NoOwner}

\* _foreign_lease_active, on a clock that runs `skew` ticks ahead.
ForeignLease(c, r, skew) ==
  /\ row[r].owner \notin {c, NoOwner}
  /\ row[r].left > skew

Init ==
  /\ row = [r \in Runs |-> FreeRow]
  /\ ckpt = [r \in Runs |-> "none"]
  /\ phase = [c \in Controllers |-> [r \in Runs |-> "idle"]]
  /\ silence = [c \in Controllers |-> [r \in Runs |-> 0]]
  /\ timer = [c \in Controllers |-> [r \in Runs |-> "off"]]
  /\ life = [c \in Controllers |-> "new"]

-----------------------------------------------------------------------------
SetPhase(c, r, p) == phase' = [phase EXCEPT ![c][r] = p]

SetTimer(c, r, t) == timer' = [timer EXCEPT ![c][r] = t]

ClaimableByAnyone(c, r, skew) == ~row[r].finished

ClaimableFinished(c, r, skew) == ~ForeignLease(c, r, skew)

\* A row no finished run and no other unexpired owner stands in the way of.
Claimable(c, r, skew) == ~row[r].finished /\ ~ForeignLease(c, r, skew)

\* registry.claim_run_lease by _submit, which runs under the controller's lock:
\* no other _submit of the same controller is half way through.
Claim(c, r, skew) ==
  /\ life[c] = "up"
  /\ ckpt[r] # "none"
  /\ \A q \in Runs : phase[c][q] # "claimed"
  /\ phase[c][r] = "idle"
  /\ Claimable(c, r, skew)
  /\ row' = [row EXCEPT ![r] = LeasedRow(c)]
  /\ SetPhase(c, r, "claimed")
  /\ silence' = [silence EXCEPT ![c][r] = 0]

\* start_run: the row appears (without a lease, as `row` has it from the start),
\* its checkpoint thread with nothing done, and then the run is submitted (or
\* refused, when somebody else was quicker).
CreateRun(c, r) ==
  /\ life[c] = "up"
  /\ ckpt[r] = "none"
  /\ ckpt' = [ckpt EXCEPT ![r] = "next"]
  /\ SetTimer(c, r, "starting")
  /\ UNCHANGED <<row, phase, silence, life>>

StartRun(c, r, skew) ==
  /\ timer[c][r] = "starting"
  /\ \/ Claim(c, r, skew)
     \/ /\ phase[c][r] # "idle" \/ ~Claimable(c, r, skew)
        /\ UNCHANGED <<row, phase, silence>>
  /\ SetTimer(c, r, "off")
  /\ UNCHANGED <<ckpt, life>>

\* /resume and /decision: an operator's request reaches _submit; both look at
\* the checkpoint, not at finished_at.
Submit(c, r, skew) ==
  /\ ckpt[r] # "done"
  /\ Claim(c, r, skew)
  /\ UNCHANGED <<ckpt, timer, life>>

\* update_run(finished=True): names the run, never the owner of its lease.
Finish(r) == row' = [row EXCEPT ![r] = FinishedRow]

\* _enforce_submission_budget raises inside _submit.
BudgetStop(c, r) ==
  /\ phase[c][r] = "claimed"
  /\ Finish(r)
  /\ SetPhase(c, r, "idle")
  /\ UNCHANGED <<ckpt, silence, timer, life>>

ReleaseAny(c, r) ==
  row' = [row EXCEPT ![r] =
           [finished |-> row[r].finished, owner |-> NoOwner, left |-> 0]]

\* registry.release_run_lease: clears the lease only of its owner.
ReleaseOwn(c, r) ==
  row' = IF row[r].owner = c
         THEN [row EXCEPT ![r] =
                [finished |-> row[r].finished, owner |-> NoOwner, left |-> 0]]
         ELSE row

LaunchFails(c, r) ==
  /\ RegistryFails
  /\ phase[c][r] = "claimed"
  /\ ReleaseOwn(c, r)
  /\ SetPhase(c, r, "idle")
  /\ UNCHANGED <<ckpt, silence, timer, life>>

Launch(c, r) ==
  /\ phase[c][r] = "claimed"
  /\ SetPhase(c, r, "running")
  /\ UNCHANGED <<row, ckpt, silence, timer, life>>

\* _lease_heartbeat: renews while the lease is still this controller's, even
\* one that has expired; a refused renewal ends the heartbeat thread and leaves
\* the worker running, which changes nothing here.
Heartbeat(c, r) ==
  /\ phase[c][r] \in {"running", "suspended", "completed", "failed"}
  /\ row[r].owner = c
  /\ ~row[r].finished
  /\ row' = [row EXCEPT ![r] = LeasedRow(c)]
  /\ silence' = [silence EXCEPT ![c][r] = 0]
  /\ UNCHANGED <<ckpt, phase, timer, life>>

\* graph.invoke commits a checkpoint after each node; it returns at an
\* interrupt or at END, and an exception leaves the checkpoint as it was.  A
\* graph that has reached END runs no node.
Progress(c, r) ==
  /\ phase[c][r] = "running"
  /\ \E next \in {"next", "wait", "parked", "done"} :
       /\ ckpt[r] = "done" => next = "done"
       /\ ckpt' = [ckpt EXCEPT ![r] = next]
       /\ SetPhase(c, r, IF next = "done" THEN "completed"
                         ELSE IF next = "next" THEN "running" ELSE "suspended")
  /\ UNCHANGED <<row, silence, timer, life>>

Raise(c, r) ==
  /\ phase[c][r] = "running"
  /\ SetPhase(c, r, "failed")
  /\ UNCHANGED <<row, ckpt, silence, timer, life>>

\* The last update_run of _execute.
Record(c, r) ==
  /\ phase[c][r] \in {"suspended", "completed", "failed"}
  /\ IF phase[c][r] = "suspended" THEN UNCHANGED row ELSE Finish(r)
  /\ SetPhase(c, r, "recorded")
  /\ UNCHANGED <<ckpt, silence, timer, life>>

Release(c, r) ==
  /\ phase[c][r] = "recorded"
  /\ ReleaseOwn(c, r)
  /\ SetPhase(c, r, "released")
  /\ UNCHANGED <<ckpt, silence, timer, life>>

\* _workers.pop, then the tail of ScheduledRunController._execute.
Retire(c, r) ==
  /\ phase[c][r] = "released"
  /\ SetPhase(c, r, "idle")
  /\ SetTimer(c, r, IF ~row[r].finished /\ ckpt[r] \in {"next", "wait"}
                    THEN "armed" ELSE "off")
  /\ UNCHANGED <<row, ckpt, silence, life>>

\* The write of an outcome fails: `except Exception` will record a failure instead,
\* of a run that has only been suspended or has ended.
RecordFails(c, r) ==
  /\ RegistryFails
  /\ phase[c][r] \in {"suspended", "completed"}
  /\ SetPhase(c, r, "failed")
  /\ UNCHANGED <<row, ckpt, silence, timer, life>>

\* So does that write, or the release: the thread dies without what Retire does, and
\* with the lease still in the row unless the `finally` clause could clear it.
DatabaseError(c, r) ==
  /\ RegistryFails
  /\ phase[c][r] \in {"failed", "recorded"}
  /\ SetPhase(c, r, "idle")
  /\ \/ UNCHANGED row
     \/ phase[c][r] = "failed" /\ ReleaseOwn(c, r)
  /\ UNCHANGED <<ckpt, silence, timer, life>>

-----------------------------------------------------------------------------
\* The constructor of a new process: restore_durable_runs looks once at every
\* unfinished run, skips those under a foreign lease, reconciles terminal
\* checkpoints and arms a timer for the work that can go on.
StartController(c, skew) ==
  /\ life[c] = "new"
  /\ Standby \/ \A d \in Controllers : life[d] # "up"
  /\ EarlyRestart \/ \A r \in Runs : row[r].owner # NoOwner =>
                        life[row[r].owner] = "up" \/ row[r].left = 0
  /\ life' = [life EXCEPT ![c] = "up"]
  /\ LET Seen == {r \in Runs : ~row[r].finished /\ ~ForeignLease(c, r, skew)}
     IN /\ timer' = [timer EXCEPT ![c] = [r \in Runs |->
                       IF r \in Seen /\ ckpt[r] \in {"next", "wait"}
                       THEN "armed" ELSE "off"]]
        /\ row' = [r \in Runs |-> IF r \in Seen /\ ckpt[r] = "done"
                                  THEN FinishedRow ELSE row[r]]
  /\ UNCHANGED <<ckpt, phase, silence>>

\* A timer callback up to _submit: the registry row and the checkpoint are read
\* here, and a run under a foreign lease is left alone without another timer.
TimerFires(c, r, skew) ==
  /\ life[c] = "up"
  /\ timer[c][r] = "armed"
  /\ SetTimer(c, r,
       IF row[r].finished \/ ForeignLease(c, r, skew) \/ ckpt[r] = "parked"
       THEN "off"
       ELSE IF ckpt[r] = "done" THEN "reconciling" ELSE "checked")
  /\ UNCHANGED <<row, ckpt, phase, silence, life>>

\* The callback's _submit gets the lease.
TimerSubmits(c, r, skew) ==
  /\ timer[c][r] = "checked"
  /\ Claim(c, r, skew)
  /\ SetTimer(c, r, "off")
  /\ UNCHANGED <<ckpt, life>>

\* It does not (leased by another controller, or still executing here): the
\* timer is armed again.
TimerContends(c, r, skew) ==
  /\ timer[c][r] = "checked"
  /\ phase[c][r] # "idle" \/ ~Claimable(c, r, skew)
  /\ SetTimer(c, r, "armed")
  /\ UNCHANGED <<row, ckpt, phase, silence, life>>

TimerReconciles(c, r) ==
  /\ timer[c][r] = "reconciling"
  /\ Finish(r)
  /\ SetTimer(c, r, "off")
  /\ UNCHANGED <<ckpt, phase, silence, life>>

\* The status endpoint: finishes a terminal run, arms a timer for one that can
\* go on, when neither this controller nor a foreign lease is working on it.
PollStatus(c, r, skew) ==
  /\ life[c] = "up"
  /\ phase[c][r] = "idle"
  /\ ~row[r].finished
  /\ ~ForeignLease(c, r, skew)
  /\ \/ /\ ckpt[r] = "done"
        /\ Finish(r)
        /\ SetTimer(c, r, "off")
     \/ /\ ckpt[r] \in {"next", "wait"}
        /\ timer[c][r] = "off"
        /\ SetTimer(c, r, "armed")
        /\ UNCHANGED row
  /\ UNCHANGED <<ckpt, phase, silence, life>>

\* The process is killed: threads and timers vanish, registry and checkpoint
\* stay.  One controller always remains that has started or can start.
Crash(c) ==
  /\ life[c] = "up"
  /\ \E d \in Controllers \ {c} : life[d] # "dead"
  /\ life' = [life EXCEPT ![c] = "dead"]
  /\ phase' = [phase EXCEPT ![c] = [r \in Runs |-> "idle"]]
  /\ timer' = [timer EXCEPT ![c] = [r \in Runs |-> "off"]]
  /\ UNCHANGED <<row, ckpt, silence>>

\* A worker that could renew its lease now.
Renewing(c, r) == phase[c][r] \in Working /\ row[r].owner = c

\* Time passes, no further than a live worker can be kept from its renewal.
Tick ==
  /\ \A c \in Controllers, r \in Runs : Renewing(c, r) => silence[c][r] < MaxSilence
  /\ row' = [r \in Runs |->
       [row[r] EXCEPT !.left = IF row[r].left = 0 THEN 0 ELSE row[r].left - 1]]
  /\ silence' = [c \in Controllers |-> [r \in Runs |->
       IF Renewing(c, r) THEN silence[c][r] + 1 ELSE silence[c][r]]]
  /\ UNCHANGED <<ckpt, phase, timer, life>>

-----------------------------------------------------------------------------
WorkerStep(c, r) ==
  \/ BudgetStop(c, r) \/ LaunchFails(c, r) \/ Launch(c, r)
  \/ Heartbeat(c, r) \/ Progress(c, r) \/ Raise(c, r)
  \/ Record(c, r) \/ RecordFails(c, r) \/ Release(c, r) \/ Retire(c, r)
  \/ DatabaseError(c, r)

TimerStep(c, r, skew) ==
  \/ TimerFires(c, r, skew) \/ TimerSubmits(c, r, skew)
  \/ TimerContends(c, r, skew) \/ TimerReconciles(c, r)

ControllerStep(c) ==
  \/ Crash(c)
  \/ \E skew \in 0..MaxSkew :
       \/ StartController(c, skew)
       \/ \E r \in Runs :
            \/ StartRun(c, r, skew) \/ Submit(c, r, skew) \/ PollStatus(c, r, skew)
            \/ TimerStep(c, r, skew)
  \/ \E r \in Runs : CreateRun(c, r) \/ WorkerStep(c, r)

Next == Tick \/ \E c \in Controllers : ControllerStep(c)

Spec == Init /\ [][Next]_vars

\* What the code schedules: clocks run, an armed timer fires and its callback
\* finishes, a launched thread records its outcome and leaves, and one of the
\* controllers is (re)started.  How long invoke runs is not promised, and a
\* status request is only made again and again where Polled says so.
Fairness ==
  /\ WF_vars(Tick)
  /\ WF_vars(\E c \in Controllers, skew \in 0..MaxSkew : StartController(c, skew))
  /\ \A c \in Controllers, r \in Runs :
       /\ WF_vars(TimerFires(c, r, 0))
       /\ WF_vars(TimerSubmits(c, r, 0) \/ TimerContends(c, r, 0))
       /\ WF_vars(TimerReconciles(c, r))
       /\ WF_vars(StartRun(c, r, 0))
       /\ WF_vars(BudgetStop(c, r) \/ LaunchFails(c, r) \/ Launch(c, r))
       /\ WF_vars(Record(c, r) \/ RecordFails(c, r) \/ DatabaseError(c, r))
       /\ WF_vars(Release(c, r) \/ DatabaseError(c, r))
       /\ WF_vars(Retire(c, r))
       /\ Polled => WF_vars(PollStatus(c, r, 0))

FairSpec == Spec /\ Fairness

-----------------------------------------------------------------------------
\* One controller at a time drives a run: the single-writer guarantee that the
\* lease exists for (runtime.py _submit, registry.py claim_run_lease).
SingleWriter == \A r \in Runs : \A c, d \in Workers(r) : c = d

\* Nobody executes nodes of a run whose registry row says it has finished: what
\* _execute, a timer or a status request recorded as the outcome stays true.
NoWorkAfterFinish ==
  \A r \in Runs : row[r].finished => ckpt[r] = "done" \/ Workers(r) = {}

\* The lease of a controller that is executing a run changes hands only through
\* that controller's own worker: no release, reconciliation or late worker of
\* somebody else erases it.
LeaseNotStolen ==
  [][\A r \in Runs, c \in Controllers :
       (/\ phase[c][r] \in Working /\ phase'[c][r] = phase[c][r]
        /\ ckpt[r] # "done") => row'[r].owner = row[r].owner]_vars

\* The lease protocol seen as RunExecution: the drivers are the workers.
Promise == INSTANCE RunExecution WITH
  drivers <- [r \in Runs |-> Workers(r)],
  finished <- {r \in Runs : row[r].finished}

\* Every step of the registry, of a worker or of a timer is a step RunExecution
\* allows: a claim only where nobody drives and no outcome is recorded.
KeepsPromise == Promise!Spec

\* An abandoned run with work due is driven again, or ends: failover.
Failover ==
  \A r \in Runs :
    ckpt[r] = "next" ~> (row[r].finished \/ Workers(r) # {} \/ ckpt[r] # "next")

=============================================================================
