----------------------------- MODULE RunControl -----------------------------
(***************************************************************************)
(* One run controller and those who call it (runtime.py,                   *)
(* runtime_service.py, control.py): requests that read the registry and    *)
(* the checkpoint and act on them later, in threads of their own; the      *)
(* pause file; the workers; the timers of machine waits and of recovery;   *)
(* and a process that dies and restores what it finds.                     *)
(*                                                                         *)
(* Leases are the subject of RunLease: here there is one controller at a   *)
(* time, and a new one starts when the leases of the old one have expired. *)
(***************************************************************************)
EXTENDS Naturals, FiniteSets

CONSTANTS
  Runs,         \* the ids of the runs of one project
  Clients,      \* the threads that serve requests
  Answers,      \* the actions that are sent to /decision
  Kinds,        \* the kinds of nodes that each run goes through
  MaxNodes,     \* how many nodes each executes
  MaxRequests,  \* requests that change something
  MaxCrashes,
  MaxTails      \* the threads of a run that are between _workers.pop and their end

NodeKinds == {"work", "safe", "review", "ci", "human"}

ASSUME ControlConstants ==
  /\ IsFiniteSet(Runs) /\ "none" \notin Runs /\ IsFiniteSet(Clients)
  /\ Answers \subseteq {"approve", "edit", "reject", "retry", "stop"}
  /\ Kinds \in [Runs -> SUBSET NodeKinds]
  /\ MaxNodes \in [Runs -> Nat \ {0}] /\ MaxRequests \in Nat /\ MaxCrashes \in Nat
  /\ MaxTails \in Nat \ {0}

VARIABLES
  row,       \* the status of each run in the registry, "absent" before it is created
  finished,  \* the runs with finished_at
  ledger,    \* the runs that have a budget ledger
  signal,    \* the runs whose pause file exists
  due,       \* where the checkpoint of each run stands: the kind of the node that is due,
             \* "none" without one, "input" with the input only, "end" at END
  asked,     \* the runs whose due node has interrupted
  unlisted,  \* the runs at END with a status that is not in _TERMINAL_STATUSES
  nodes,     \* how many nodes each has executed
  worker,    \* what the worker of each run is at
  carry,     \* the value that its first node gets from interrupt()
  tails,     \* the workers that have left _workers and have not looked at the timer yet
  timer,     \* the timer of each run
  callback,  \* the timer callback of each run that is about to submit: its kind and input
  request,   \* what each client's request is at
  requests,  \* how many requests there were
  up,        \* the process is up
  crashes,   \* how often it was killed
  promised,  \* ghost: the runs with an accepted pause that has not taken effect
  disturbed, \* ghost: the starting clients whose project has changed since they looked
  hurried,   \* ghost: such a client has created a run
  rearmed,   \* ghost: the resuming clients whose run got a timer after they submitted
  disarmed   \* ghost: the runs whose timer such a client has cancelled

registry == <<row, finished, ledger>>

thread == <<due, asked, unlisted, nodes>>

process == <<worker, carry, tails, timer, callback>>

calls == <<request, requests>>

life == <<up, crashes>>

ghosts == <<promised, disturbed, hurried, rearmed, disarmed>>

vars == <<registry, signal, thread, process, calls, life, ghosts>>

Active == {"queued", "running", "pause_requested", "paused", "interrupted", "recoverable"}

Waiting == {"waiting_ci", "waiting_review"}

Precheckpoint == {"queued", "running", "pause_requested", "recoverable"}

NoCall == [kind |-> "none", input |-> "none"]

NoRequest == [stage |-> "none", run |-> "none", input |-> "none"]

Init ==
  /\ row = [r \in Runs |-> "absent"] /\ finished = {} /\ ledger = {} /\ signal = {}
  /\ due = [r \in Runs |-> "none"] /\ asked = {} /\ unlisted = {}
  /\ nodes = [r \in Runs |-> 0]
  /\ worker = [r \in Runs |-> "idle"] /\ carry = [r \in Runs |-> "none"]
  /\ tails = [r \in Runs |-> 0]
  /\ timer = [r \in Runs |-> "off"] /\ callback = [r \in Runs |-> NoCall]
  /\ request = [k \in Clients |-> NoRequest] /\ requests = 0
  /\ up = TRUE /\ crashes = 0
  /\ promised = {} /\ disturbed = {} /\ hurried = FALSE /\ rearmed = {} /\ disarmed = {}

SetRow(r, status) == row' = [row EXCEPT ![r] = status]

Arm(r, kind) == timer' = [timer EXCEPT ![r] = kind]

-----------------------------------------------------------------------------
\* The checkpoint as a snapshot shows it.
Interrupt(r) == IF r \in asked THEN due[r] ELSE "none"

MachineWait(r) == Interrupt(r) \in {"ci", "review"}

Executable(r) == r \notin asked /\ due[r] \in Kinds[r]

Terminal(r) == due[r] = "end" /\ r \notin unlisted

InputOnly(r) == due[r] = "input" /\ row[r] \in Precheckpoint

\* Nothing but the input is there, if that, and the row does not say otherwise.
BeforeFirstNode(r) == due[r] \in {"none", "input"} /\ row[r] \in Precheckpoint

MachineWork(r) == MachineWait(r) \/ Executable(r) \/ BeforeFirstNode(r)

\* _submit, in one piece: it holds the controller's lock.
Contended(r) == worker[r] # "idle" \/ r \in finished

WithoutLedger(r) == r \notin ledger /\ row[r] # "queued"

Submit(r, input) ==
  /\ ~Contended(r)
  /\ IF WithoutLedger(r)
     THEN /\ SetRow(r, "failed") /\ finished' = finished \cup {r}
          /\ UNCHANGED <<ledger, worker, carry>>
     ELSE /\ SetRow(r, "running") /\ ledger' = ledger \cup {r}
          /\ worker' = [worker EXCEPT ![r] = "running"]
          /\ carry' = [carry EXCEPT ![r] = input]
          /\ UNCHANGED finished

Refused(r) == Contended(r) /\ UNCHANGED <<registry, worker, carry>>

-----------------------------------------------------------------------------
(* The worker. *)

Stop(r, how) == worker' = [worker EXCEPT ![r] = how]

\* The first checkpoint holds the input; it is written before the first node runs.
WriteInput(r) ==
  /\ worker[r] = "running" /\ due[r] = "none"
  /\ due' = [due EXCEPT ![r] = "input"]
  /\ UNCHANGED <<asked, unlisted, nodes, worker, carry, signal>>

\* What is due after a node: another one, or nothing.
Follows(r) ==
  /\ nodes' = [nodes EXCEPT ![r] = @ + 1]
  /\ \/ /\ nodes[r] + 1 < MaxNodes[r]
        /\ \E next \in Kinds[r] : due' = [due EXCEPT ![r] = next]
        /\ UNCHANGED <<unlisted, worker>>
     \/ /\ due' = [due EXCEPT ![r] = "end"]
        /\ unlisted' \in {unlisted, unlisted \cup {r}}
        /\ Stop(r, "returned")

\* A node returns, and its interrupt is answered.
Pass(r) ==
  Follows(r) /\ carry' = [carry EXCEPT ![r] = "none"] /\ asked' = asked \ {r}

Stopped(r) ==
  /\ nodes' = [nodes EXCEPT ![r] = @ + 1]
  /\ asked' = asked \ {r} /\ due' = [due EXCEPT ![r] = "end"]
  /\ UNCHANGED <<carry, unlisted>>
  /\ Stop(r, "returned")

Interrupts(r) ==
  /\ asked' = asked \cup {r}
  /\ Stop(r, "returned")
  /\ UNCHANGED <<due, unlisted, nodes, carry>>

Raises(r) == Stop(r, "raised") /\ UNCHANGED <<due, asked, unlisted, nodes, carry>>

At(r, kind) == worker[r] = "running" /\ due[r] = kind

\* Nodes that ask nothing.
Work(r) ==
  /\ At(r, "input") \/ At(r, "work")
  /\ UNCHANGED signal
  /\ Pass(r) \/ Raises(r)

\* _safe_point: without a pause file it asks nothing, and an answer is then lost.
SafePoint(r) ==
  /\ At(r, "safe")
  /\ \/ r \notin signal /\ Pass(r) /\ UNCHANGED signal
     \/ r \in signal /\ carry[r] = "none" /\ Interrupts(r) /\ UNCHANGED signal
     \/ /\ r \in signal /\ carry[r] # "none" /\ signal' = signal \ {r}
        /\ CASE carry[r] = "resume" -> Pass(r)
             [] carry[r] = "stop" -> Stopped(r)
             [] OTHER -> Raises(r)

\* pause_before_reviewer_recovery_wait: the same file, for a machine wait.
ReviewerWait(r) ==
  /\ At(r, "review")
  /\ \/ r \notin signal /\ Pass(r) /\ UNCHANGED signal
     \/ r \in signal /\ carry[r] = "none" /\ Interrupts(r) /\ UNCHANGED signal
     \/ /\ r \in signal /\ carry[r] # "none" /\ signal' = signal \ {r}
        /\ IF carry[r] = "resume" THEN Pass(r) ELSE Raises(r)

CiWait(r) ==
  /\ At(r, "ci") /\ UNCHANGED signal
  /\ CASE carry[r] = "none" -> Interrupts(r)
       [] carry[r] = "resume" -> Pass(r)
       [] OTHER -> Raises(r)

\* The gates of operators: an answer is good for the gate at hand or is not.
HumanGate(r) ==
  /\ At(r, "human") /\ UNCHANGED signal
  /\ CASE carry[r] = "none" -> Interrupts(r)
       [] carry[r] = "resume" -> Raises(r)
       [] carry[r] \in {"reject", "stop"} -> Stopped(r) \/ Raises(r)
       [] OTHER -> Pass(r) \/ Raises(r)

Node(r) ==
  /\ \/ WriteInput(r) \/ Work(r)
     \/ SafePoint(r) \/ ReviewerWait(r) \/ CiWait(r) \/ HumanGate(r)
  /\ UNCHANGED <<registry, tails, timer, callback, calls, life>>

\* The end of RunController._execute: what has come of the invocation, ...
Record(r) ==
  /\ worker[r] \in {"returned", "raised"} /\ tails[r] < MaxTails
  /\ IF worker[r] = "raised" THEN SetRow(r, "failed") /\ finished' = finished \cup {r}
     ELSE IF r \in asked
          THEN /\ SetRow(r, IF due[r] = "safe" THEN "paused" ELSE "interrupted")
               /\ UNCHANGED finished
          ELSE SetRow(r, IF Terminal(r) THEN "ended" ELSE "ended_unlisted")
               /\ finished' = finished \cup {r}
  /\ Stop(r, "idle")
  /\ carry' = [carry EXCEPT ![r] = "none"]
  /\ tails' = [tails EXCEPT ![r] = @ + 1]
  /\ UNCHANGED <<ledger, signal, thread, timer, callback, calls, life>>

\* ... and, once the worker is out of _workers, the timer that it calls for.
WaitRow(r) == IF due[r] = "ci" THEN "waiting_ci" ELSE "waiting_review"

Tail(r) ==
  /\ tails[r] > 0
  /\ tails' = [tails EXCEPT ![r] = @ - 1]
  /\ IF r \notin finished /\ MachineWait(r) THEN SetRow(r, WaitRow(r)) /\ Arm(r, due[r])
     ELSE IF r \notin finished /\ Executable(r)
          THEN SetRow(r, "recoverable") /\ Arm(r, "recover")
          ELSE UNCHANGED row /\ Arm(r, "off")
  /\ UNCHANGED <<finished, ledger, signal, thread, worker, carry, callback, calls, life>>

-----------------------------------------------------------------------------
(* Timers.  A callback that has taken its generation cannot be cancelled; one at a time. *)

Fires(r) ==
  /\ timer[r] # "off" /\ callback[r] = NoCall
  /\ Arm(r, "off")
  /\ LET Goes(input) == callback' = [callback EXCEPT ![r] = [kind |-> timer[r], input |-> input]]
     IN IF r \in finished THEN UNCHANGED <<registry, callback>>
        ELSE IF timer[r] \in {"ci", "review"}
        THEN /\ IF Interrupt(r) = timer[r] THEN Goes("resume") ELSE UNCHANGED callback
             /\ UNCHANGED registry
        ELSE IF Terminal(r)
        THEN /\ SetRow(r, "ended") /\ finished' = finished \cup {r}
             /\ UNCHANGED <<ledger, callback>>
        ELSE /\ IF Executable(r) \/ BeforeFirstNode(r) THEN Goes("none") ELSE UNCHANGED callback
             /\ UNCHANGED registry
  /\ UNCHANGED <<signal, thread, worker, carry, tails, calls, life>>

\* _submit, or, when somebody else was quicker, another timer.
Called(r) ==
  /\ callback[r] # NoCall
  /\ callback' = [callback EXCEPT ![r] = NoCall]
  /\ \/ Submit(r, callback[r].input) /\ UNCHANGED timer
     \/ Refused(r) /\ Arm(r, IF callback[r].kind = "ci" THEN "ci" ELSE "recover")
  /\ UNCHANGED <<signal, thread, tails, calls, life>>

-----------------------------------------------------------------------------
(* Requests: what is read when one comes in, and what is done later. *)

\* Which of the free threads takes a request makes no difference.
Free(k) == k = CHOOSE x \in Clients : request[x] = NoRequest

Arrive(k, r, stage, input) ==
  /\ up /\ request[k] = NoRequest /\ Free(k) /\ requests < MaxRequests
  /\ requests' = requests + 1
  /\ request' = [request EXCEPT ![k] = [stage |-> stage, run |-> r, input |-> input]]
  /\ UNCHANGED <<registry, signal, thread, process, life>>

Goto(k, stage) == request' = [request EXCEPT ![k].stage = stage]

Done(k) == request' = [request EXCEPT ![k] = NoRequest]

InStage(k, stage) == request[k].stage = stage

\* start_run: ScheduledRunController looks for runs that wait, RunController for runs
\* that are active, and then the run is created.
\* (A variant named in PROJECT.json as a mutant, such as this one, is never used by the
\* specification.)
BlocksNothing(r) == FALSE

BlockedByWait(r) == row[r] \in Waiting /\ r \notin finished

BlockedByRun(r) == row[r] \in Active /\ r \notin finished

StartRequest(k) ==
  /\ \E r \in Runs : row[r] = "absent"
  /\ \A r \in Runs : ~BlockedByWait(r)
  /\ Arrive(k, "none", "check", "none")

StartChecks(k) ==
  /\ InStage(k, "check")
  /\ IF \E q \in Runs : BlockedByRun(q) THEN Done(k) ELSE Goto(k, "create")
  /\ UNCHANGED <<registry, signal, thread, process, requests, life>>

NewRun == CHOOSE r \in Runs : row[r] = "absent"

StartCreates(k) ==
  /\ InStage(k, "create") /\ \E r \in Runs : row[r] = "absent"
  /\ SetRow(NewRun, "queued")
  /\ request' = [request EXCEPT ![k] = [stage |-> "start", run |-> NewRun, input |-> "none"]]
  /\ UNCHANGED <<finished, ledger, signal, thread, process, requests, life>>

\* request_pause: the file, then the row, then a status.
PauseRequest(k, r) ==
  row[r] # "absent" /\ r \notin finished /\ Arrive(k, r, "write", "none")

PauseWrites(k) ==
  /\ InStage(k, "write")
  /\ signal' = signal \cup {request[k].run}
  /\ Goto(k, "mark")
  /\ UNCHANGED <<registry, thread, process, requests, life>>

PauseMarks(k) ==
  /\ InStage(k, "mark")
  /\ SetRow(request[k].run, "pause_requested")
  /\ Goto(k, "report")
  /\ UNCHANGED <<finished, ledger, signal, thread, process, requests, life>>

\* resume: a controlled pause, an early poll of a machine wait, or a node that is due.
ResumeClearsAll(k, r) == r \in asked /\ due[r] # "human" /\ Arrive(k, r, "clear", "resume")

ResumePause(k, r) == Interrupt(r) = "safe" /\ Arrive(k, r, "clear", "resume")

ResumeRequest(k, r) ==
  \/ ResumePause(k, r)
  \/ MachineWait(r) /\ Arrive(k, r, "poll", "resume")
  \/ Executable(r) /\ Arrive(k, r, "resume", "none")

ResumeClears(k) ==
  /\ InStage(k, "clear")
  /\ signal' = signal \ {request[k].run}
  /\ Goto(k, "resume")
  /\ UNCHANGED <<registry, thread, process, requests, life>>

\* decide: an interrupt that is neither a pause nor a machine wait.
DecisionRequest(k, r) ==
  Interrupt(r) = "human" /\ \E answer \in Answers : Arrive(k, r, "decide", answer)

\* The last step of a start, a resumption or a decision.  A resumption that gets through
\* cancels the timer afterwards; an early poll that does not arms it again.
Submits(k) ==
  LET r == request[k].run
  IN /\ request[k].stage \in {"start", "resume", "poll", "decide"}
     /\ \/ /\ Submit(r, request[k].input)
           /\ IF request[k].stage \in {"resume", "poll"} THEN Goto(k, "cancel") ELSE Done(k)
           /\ UNCHANGED timer
        \/ /\ Refused(r)
           /\ Done(k)
           /\ IF request[k].stage = "poll" /\ MachineWait(r) THEN Arm(r, due[r])
              ELSE UNCHANGED timer
     /\ UNCHANGED <<signal, thread, tails, callback, requests, life>>

Cancels(k) ==
  /\ InStage(k, "cancel")
  /\ Arm(request[k].run, "off")
  /\ Done(k)
  /\ UNCHANGED <<registry, signal, thread, worker, carry, tails, callback, requests, life>>

Request(k) ==
  \/ StartRequest(k)
  \/ \E r \in Runs : PauseRequest(k, r) \/ ResumeRequest(k, r) \/ DecisionRequest(k, r)

\* status: the row follows the checkpoint, and a run that nobody works on gets its timer.
IdleRow(r) ==
  IF r \in asked
  THEN IF due[r] = "safe" THEN "paused" ELSE IF due[r] = "human" THEN "interrupted"
       ELSE WaitRow(r)
  ELSE IF due[r] = "end" THEN IF Terminal(r) THEN "ended" ELSE "ended_unlisted"
  ELSE row[r]

Reconciled(r) ==
  IF r \in finished \/ worker[r] # "idle"
  THEN /\ SetRow(r, IF (r \in asked) \/ worker[r] = "idle" THEN IdleRow(r) ELSE row[r])
       /\ IF worker[r] = "idle" /\ MachineWait(r) THEN Arm(r, due[r]) ELSE UNCHANGED timer
       /\ UNCHANGED finished
  ELSE IF Terminal(r)
  THEN SetRow(r, "ended") /\ finished' = finished \cup {r} /\ Arm(r, "off")
  ELSE IF MachineWait(r) THEN SetRow(r, IdleRow(r)) /\ Arm(r, due[r]) /\ UNCHANGED finished
  ELSE IF Executable(r) \/ InputOnly(r)
  THEN SetRow(r, "recoverable") /\ Arm(r, "recover") /\ UNCHANGED finished
  ELSE SetRow(r, IdleRow(r)) /\ UNCHANGED <<finished, timer>>

Status(r) ==
  /\ up /\ row[r] # "absent"
  /\ Reconciled(r)
  /\ UNCHANGED <<ledger, signal, thread, worker, carry, tails, callback, calls, life>>

PauseReports(k) ==
  /\ InStage(k, "report")
  /\ Reconciled(request[k].run)
  /\ Done(k)
  /\ UNCHANGED <<ledger, signal, thread, worker, carry, tails, callback, requests, life>>

Serve(k) ==
  \/ StartChecks(k) \/ StartCreates(k)
  \/ PauseWrites(k) \/ PauseMarks(k) \/ PauseReports(k)
  \/ ResumeClears(k) \/ Submits(k) \/ Cancels(k)

-----------------------------------------------------------------------------
\* The process is killed, between any two steps, and started again.
Crash ==
  /\ up /\ crashes < MaxCrashes
  /\ up' = FALSE /\ crashes' = crashes + 1
  /\ worker' = [r \in Runs |-> "idle"] /\ carry' = [r \in Runs |-> "none"]
  /\ tails' = [r \in Runs |-> 0]
  /\ timer' = [r \in Runs |-> "off"] /\ callback' = [r \in Runs |-> NoCall]
  /\ request' = [k \in Clients |-> NoRequest]
  /\ UNCHANGED <<registry, signal, thread, requests>>

\* restore_durable_runs, before the first request is served: its three loops.
Unfinished(r) == row[r] # "absent" /\ r \notin finished

Restorable(r) == Unfinished(r) /\ ~(r \in asked) /\ (Executable(r) \/ BeforeFirstNode(r))

RestoredCiOnly(r) ==
  IF Unfinished(r) /\ Interrupt(r) = "ci" THEN "ci"
  ELSE IF Restorable(r) THEN "recover" ELSE "off"

RestoredTimer(r) ==
  IF Unfinished(r) /\ MachineWait(r) THEN due[r]
  ELSE IF Restorable(r) THEN "recover" ELSE "off"

Restart ==
  /\ ~up /\ up' = TRUE
  /\ row' = [r \in Runs |->
       IF Unfinished(r) /\ MachineWait(r) THEN WaitRow(r)
       ELSE IF Unfinished(r) /\ Terminal(r) THEN "ended"
       ELSE IF Restorable(r) THEN "recoverable" ELSE row[r]]
  /\ finished' = finished \cup {r \in Runs : Unfinished(r) /\ Terminal(r)}
  /\ timer' = [r \in Runs |-> RestoredTimer(r)]
  /\ UNCHANGED <<ledger, signal, thread, worker, carry, tails, callback, calls, crashes>>

-----------------------------------------------------------------------------
(* Ghosts *)

Resuming(r) ==
  \/ \E k \in Clients : request[k].run = r /\ request[k].stage \in {"clear", "resume", "poll"}
  \/ carry[r] # "none"

\* An accepted pause is kept or given up: it shows as an interrupt, of either kind, the run
\* ends, or a resumption is under way that was there before it.
Promises ==
  promised' = {r \in Runs :
    /\ r \in promised \/ (r \in signal' \ signal /\ ~Resuming(r))
    /\ r \notin asked' \/ due'[r] \notin {"safe", "review"}
    /\ r \notin finished'}

Starting(k) == request[k].stage \in {"check", "create"}

Disturbs ==
  /\ disturbed' = {k \in Clients :
       /\ request'[k].stage \in {"check", "create"}
       /\ k \in disturbed \/ (Starting(k) /\ <<row', finished'>> # <<row, finished>>)}
  /\ hurried' = (hurried \/ \E k \in disturbed : InStage(k, "create") /\ ~InStage(k, "create")')

Rearms ==
  /\ rearmed' = {k \in Clients :
       /\ request'[k].stage = "cancel"
       /\ \/ k \in rearmed
          \/ InStage(k, "cancel") /\ tails'[request[k].run] < tails[request[k].run]}
  /\ disarmed' = {r \in Runs :
       /\ timer'[r] = "off"
       /\ r \in disarmed \/ \E k \in rearmed : InStage(k, "cancel") /\ request[k].run = r
                                               /\ request'[k] = NoRequest}

Step ==
  \/ \E r \in Runs : Node(r) \/ Record(r) \/ Tail(r) \/ Fires(r) \/ Called(r) \/ Status(r)
  \/ \E k \in Clients : Request(k) \/ Serve(k)
  \/ Crash \/ Restart

Next == Step /\ Promises /\ Disturbs /\ Rearms

Spec == Init /\ [][Next]_vars

-----------------------------------------------------------------------------
Inputs == {"none", "resume"} \cup Answers

Stages == {"none", "check", "create", "write", "mark", "report", "clear", "resume", "poll",
           "start", "decide", "cancel"}

Statuses == Active \cup Waiting \cup {"absent", "failed", "ended", "ended_unlisted"}

WorkerStates == {"idle", "running", "returned", "raised"}

Timers == {"off", "ci", "review", "recover"}

Calls == [kind : {"none", "ci", "review", "recover"}, input : {"none", "resume"}]

RegistryOK ==
  /\ row \in [Runs -> Statuses]
  /\ finished \subseteq Runs /\ ledger \subseteq Runs /\ signal \subseteq Runs

ThreadOK ==
  /\ due \in [Runs -> NodeKinds \cup {"none", "input", "end"}]
  /\ \A r \in Runs : due[r] \in Kinds[r] \cup {"none", "input", "end"}
  /\ asked \subseteq {r \in Runs : due[r] \in Kinds[r] \ {"work"}}
  /\ unlisted \subseteq {r \in Runs : due[r] = "end"}
  /\ nodes \in [Runs -> Nat] /\ \A r \in Runs : nodes[r] <= MaxNodes[r]

ProcessOK ==
  /\ worker \in [Runs -> WorkerStates]
  /\ carry \in [Runs -> Inputs] /\ tails \in [Runs -> 0 .. MaxTails]
  /\ timer \in [Runs -> Timers] /\ callback \in [Runs -> Calls]

CallsOK ==
  /\ request \in [Clients -> [stage : Stages, run : Runs \cup {"none"}, input : Inputs]]
  /\ \A k \in Clients :
       request[k].run \in Runs <=> request[k].stage \notin {"none", "check", "create"}
  /\ requests \in 0 .. MaxRequests /\ crashes \in 0 .. MaxCrashes /\ up \in BOOLEAN

\* Registry, checkpoints, process and requests; a request has its run once it is past the
\* looks of start_run.
TypeOK == RegistryOK /\ ThreadOK /\ ProcessOK /\ CallsOK

\* A run with machine work left (a first node to start with, a node that is due, a wait to
\* be polled) that no worker has is never left alone: a timer, a callback, a request or the
\* end of a worker will come back to it.  Only a resume call that cancels the timer that its
\* own worker has left behind may forget it (resume, _cancel_timer after _submit).
Attended ==
  \A r \in Runs :
    up /\ Unfinished(r) /\ worker[r] = "idle" /\ MachineWork(r) =>
      \/ timer[r] # "off" \/ callback[r] # NoCall \/ tails[r] > 0
      \/ \E k \in Clients : request[k].run = r
      \/ r \in disarmed

\* A project has one run that is under way, unless something changed in the project between
\* the two looks of a start request and its insertion (start_run).
OneRun == hurried \/ Cardinality({r \in Runs : Unfinished(r) /\ due[r] # "end"}) <= 1

\* A pause that was accepted is on file until the run interrupts for it or ends, whatever
\* other requests, timers, crashes and workers do in between.
PauseKept == promised \subseteq signal

\* The machine never ends a controlled pause and never answers a gate: whoever gets through
\* with the resumption that a timer has begun does not find the run waiting for an operator
\* (_resume_ci_wait, _resume_reviewer_recovery_wait, _submit).
NeverAutoResumed ==
  [][\A r \in Runs :
       /\ callback[r].input = "resume" /\ callback'[r] = NoCall
       /\ worker'[r] # worker[r] /\ up'
       => Interrupt(r) \notin {"safe", "human"}]_vars

\* A run that died before its first checkpoint is started again, not given up.
EarlyDeathIsRecovered == \A r \in Runs : due[r] = "none" => r \notin finished

=============================================================================
