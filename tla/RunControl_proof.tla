-------------------------- MODULE RunControl_proof --------------------------
(***************************************************************************)
(* One controller, for every set of runs and of clients, every mixture of   *)
(* nodes and any number of requests, crashes and threads.                   *)
(***************************************************************************)
EXTENDS RunControl, FiniteSetTheorems, TLAPS

\* A run that goes on.
Open(r) == Unfinished(r) /\ due[r] # "end"

Early(r) == due[r] \in {"none", "input"}

\* An answer is under way to r.
Pending(r) ==
  \/ callback[r].input # "none"
  \/ \E k \in Clients : request[k].run = r /\ request[k].input # "none"

For(k, r) == request[k].run = r

-----------------------------------------------------------------------------
NodesLeft == \A r \in Runs : due[r] # "end" => nodes[r] < MaxNodes[r]

\* What is not in the registry is nowhere.
AbsentOK(r) ==
  row[r] = "absent" =>
    /\ r \notin finished /\ due[r] = "none" /\ worker[r] = "idle" /\ tails[r] = 0
    /\ timer[r] = "off" /\ callback[r] = NoCall /\ \A k \in Clients : ~For(k, r)

\* The row of a run that goes on says so, before its first node in the words of start_run.
RowOK(r) ==
  Open(r) => /\ row[r] \in Active \cup Waiting
             /\ Early(r) => row[r] \in Precheckpoint

\* A worker ends with a question, at END or with an error.
EndOK(r) ==
  /\ worker[r] = "returned" => r \in asked \/ due[r] = "end"
  /\ tails[r] > 0 => r \in finished \/ ~Early(r)

\* An answer finds the question, or a worker that has had it before.
AnswerOK(r) ==
  /\ Pending(r) => \/ r \in asked \/ r \in finished
                   \/ worker[r] \in {"running", "raised"}
                   \/ worker[r] = "returned" /\ due[r] = "end"
  /\ worker[r] = "running" /\ carry[r] # "none" => r \in asked

\* A pause that is promised is on file, and nobody is about to clear it.
PromiseOK(r) ==
  r \in promised => /\ r \in signal /\ r \notin finished
                    /\ r \notin asked \/ due[r] \notin {"safe", "review"}
                    /\ \A k \in Clients : ~(For(k, r) /\ InStage(k, "clear"))

\* A run without a worker has the timer that its checkpoint calls for or none.
TimerOK(r) ==
  Unfinished(r) /\ worker[r] = "idle" /\ tails[r] = 0 =>
    timer[r] \in {"off", IF MachineWait(r) THEN due[r] ELSE "recover"}

\* A resumption that is about to cancel the timer of its run came with a worker, whose end
\* it has seen if that is over.
CancelOK(r) ==
  \A k \in Clients : For(k, r) =>
    /\ request[k].stage \in {"resume", "poll", "clear", "cancel"} => ~Early(r)
    /\ InStage(k, "cancel") => \/ worker[r] # "idle" \/ tails[r] > 0
                               \/ r \in finished \/ k \in rearmed

\* Before its first node a run has a timer, a callback or its start request.
BeginOK(r) ==
  up /\ Unfinished(r) /\ worker[r] = "idle" /\ Early(r) =>
    \/ timer[r] # "off" \/ callback[r] # NoCall
    \/ \E k \in Clients : For(k, r) /\ InStage(k, "start")

\* Attended, of one run.
AttendedOK(r) ==
  up /\ Unfinished(r) /\ worker[r] = "idle" /\ MachineWork(r) =>
    \/ timer[r] # "off" \/ callback[r] # NoCall \/ tails[r] > 0
    \/ \E k \in Clients : For(k, r)
    \/ r \in disarmed

Local(r) ==
  /\ AbsentOK(r) /\ RowOK(r) /\ EndOK(r) /\ AnswerOK(r) /\ PromiseOK(r)
  /\ TimerOK(r) /\ CancelOK(r) /\ BeginOK(r) /\ AttendedOK(r)

\* While nothing changes, what a start request has seen is so.
Undisturbed ==
  \A k \in Clients : Starting(k) /\ k \notin disturbed =>
    \A r \in Runs : /\ ~BlockedByWait(r)
                    /\ InStage(k, "create") => ~BlockedByRun(r)

Alone == hurried \/ \A r, q \in Runs : Open(r) /\ Open(q) => r = q

\* Only a running process has workers, timers and requests.
Down ==
  ~up => /\ \A r \in Runs : worker[r] = "idle" /\ tails[r] = 0 /\ timer[r] = "off"
                            /\ callback[r] = NoCall
         /\ \A k \in Clients : request[k] = NoRequest

IInv ==
  /\ TypeOK /\ NodesLeft /\ \A r \in Runs : Local(r)
  /\ Undisturbed /\ Alone /\ Down /\ promised \subseteq Runs

-----------------------------------------------------------------------------
(* What the actions do.                                                        *)
LEMMA Constants ==
  /\ "none" \notin Runs
  /\ \A r \in Runs : Kinds[r] \subseteq NodeKinds /\ MaxNodes[r] \in Nat /\ MaxNodes[r] > 0
  /\ MaxTails \in Nat /\ MaxTails > 0 /\ MaxRequests \in Nat /\ MaxCrashes \in Nat
BY ControlConstants

\* One step of the worker of r.
NodeEffect(r) ==
  /\ worker[r] = "running" /\ due[r] # "end"
  /\ UNCHANGED <<registry, tails, timer, callback, calls, life>>
  /\ \A q \in Runs \ {r} : /\ worker'[q] = worker[q] /\ due'[q] = due[q] /\ carry'[q] = carry[q]
                           /\ q \in asked' <=> q \in asked
  /\ worker'[r] # "idle"
  /\ \/ carry'[r] = "none"
     \/ carry'[r] = carry[r] /\ (r \in asked' <=> r \in asked)
     \/ worker'[r] # "running"
  /\ worker'[r] = "returned" => \/ r \in asked' /\ due'[r] = due[r] /\ ~Early(r)
                                \/ r \notin asked' /\ due'[r] = "end"
  /\ worker'[r] = "running" => r \notin asked'
  /\ worker'[r] = "raised" => due'[r] = due[r] /\ (r \in asked' <=> r \in asked)
  /\ due'[r] # "none" /\ (due'[r] = "input" => Early(r))
  /\ \/ UNCHANGED signal
     \/ signal' = signal \ {r} /\ carry[r] # "none" /\ due[r] \in {"safe", "review"}

\* The ways in which a node ends.
LEMMA PassEffect ==
  ASSUME TypeOK, NodesLeft, NEW r \in Runs, Pass(r), worker[r] = "running", due[r] # "end"
  PROVE  /\ ThreadOK' /\ NodesLeft'
         /\ worker' \in [Runs -> WorkerStates]
         /\ carry' = [carry EXCEPT ![r] = "none"] /\ asked' = asked \ {r}
         /\ \A q \in Runs \ {r} : worker'[q] = worker[q] /\ due'[q] = due[q]
         /\ \/ worker'[r] = "running" /\ due'[r] \in Kinds[r]
            \/ worker'[r] = "returned" /\ due'[r] = "end"
<1> USE Constants DEF TypeOK, ThreadOK, ProcessOK, WorkerStates, NodesLeft
<1>1. carry' = [carry EXCEPT ![r] = "none"] /\ asked' = asked \ {r} /\ Follows(r) BY DEF Pass
<1>2. nodes[r] < MaxNodes[r] /\ nodes[r] + 1 \in Nat /\ nodes[r] + 1 <= MaxNodes[r]
  OBVIOUS
<1>3. /\ nodes' \in [Runs -> Nat] /\ \A q \in Runs : nodes'[q] <= MaxNodes[q]
      /\ nodes'[r] = nodes[r] + 1 /\ \A q \in Runs \ {r} : nodes'[q] = nodes[q]
  BY <1>1, <1>2 DEF Follows
<1>4. CASE /\ nodes[r] + 1 < MaxNodes[r]
           /\ \E next \in Kinds[r] : due' = [due EXCEPT ![r] = next]
           /\ UNCHANGED <<unlisted, worker>>
  <2>1. PICK next \in Kinds[r] : due' = [due EXCEPT ![r] = next] BY <1>4
  <2>2. next \in NodeKinds OBVIOUS
  <2>3. /\ due' \in [Runs -> NodeKinds \cup {"none", "input", "end"}] /\ due'[r] = next
        /\ \A q \in Runs \ {r} : due'[q] = due[q]
    BY <2>1, <2>2
  <2>4. ThreadOK'
    <3>1. asked' \subseteq {q \in Runs : due'[q] \in Kinds[q] \ {"work"}} BY <1>1, <2>3
    <3>2. unlisted' \subseteq {q \in Runs : due'[q] = "end"} BY <1>4, <2>3
    <3>3. QED BY <1>3, <2>1, <2>3, <3>1, <3>2
  <2>5. QED BY <1>1, <1>3, <1>4, <2>3, <2>4
<1>5. CASE /\ due' = [due EXCEPT ![r] = "end"]
           /\ unlisted' \in {unlisted, unlisted \cup {r}}
           /\ Stop(r, "returned")
  <2>1. /\ due' \in [Runs -> NodeKinds \cup {"none", "input", "end"}] /\ due'[r] = "end"
        /\ \A q \in Runs \ {r} : due'[q] = due[q]
    BY <1>5
  <2>2. ThreadOK' BY <1>1, <1>3, <1>5, <2>1
  <2>3. QED BY <1>1, <1>3, <1>5, <2>1, <2>2 DEF Stop
<1>6. QED BY <1>1, <1>4, <1>5 DEF Follows

LEMMA StoppedEffect ==
  ASSUME TypeOK, NodesLeft, NEW r \in Runs, Stopped(r), worker[r] = "running", due[r] # "end"
  PROVE  /\ ThreadOK' /\ NodesLeft'
         /\ worker' = [worker EXCEPT ![r] = "returned"] /\ carry' = carry
         /\ due' = [due EXCEPT ![r] = "end"] /\ asked' = asked \ {r}
<1> USE Constants DEF TypeOK, ThreadOK, ProcessOK, WorkerStates, NodesLeft
<1>1. nodes[r] < MaxNodes[r] /\ nodes[r] + 1 \in Nat /\ nodes[r] + 1 <= MaxNodes[r]
  OBVIOUS
<1>2. /\ nodes' \in [Runs -> Nat] /\ \A q \in Runs : nodes'[q] <= MaxNodes[q]
      /\ \A q \in Runs \ {r} : nodes'[q] = nodes[q]
  BY <1>1 DEF Stopped
<1>3. /\ due' = [due EXCEPT ![r] = "end"] /\ asked' = asked \ {r} /\ unlisted' = unlisted
      /\ worker' = [worker EXCEPT ![r] = "returned"] /\ carry' = carry
  BY DEF Stopped, Stop
<1>4. QED BY <1>2, <1>3

LEMMA NodeWorks ==
  ASSUME TypeOK, NodesLeft, NEW r \in Runs, Node(r)
  PROVE  /\ NodeEffect(r) /\ ThreadOK' /\ NodesLeft'
         /\ worker' \in [Runs -> WorkerStates]
         /\ carry' \in [Runs -> Inputs] /\ signal' \subseteq Runs
<1> DEFINE Goal == /\ NodeEffect(r) /\ ThreadOK' /\ NodesLeft'
                   /\ worker' \in [Runs -> WorkerStates]
                   /\ carry' \in [Runs -> Inputs] /\ signal' \subseteq Runs
<1>1. /\ UNCHANGED <<registry, tails, timer, callback, calls, life>>
      /\ worker[r] = "running" /\ due[r] # "end" /\ "none" \in Inputs /\ r \notin unlisted
      /\ due[r] \notin {"none", "input", "work"} => due[r] \in Kinds[r] \ {"work"}
  BY DEF Node, WriteInput, Work, SafePoint, ReviewerWait, CiWait, HumanGate, At, Inputs, TypeOK,
         ThreadOK
<1>2. \/ UNCHANGED signal
      \/ signal' = signal \ {r} /\ carry[r] # "none" /\ due[r] \in {"safe", "review"}
  BY DEF Node, WriteInput, Work, SafePoint, ReviewerWait, CiWait, HumanGate, At
<1>3. signal' \subseteq Runs BY <1>2 DEF TypeOK, RegistryOK
<1>4. CASE WriteInput(r)
  <2>1. /\ due[r] = "none" /\ due' = [due EXCEPT ![r] = "input"]
        /\ UNCHANGED <<asked, unlisted, nodes, worker, carry>>
    BY <1>4 DEF WriteInput
  <2>2. r \notin asked BY <2>1, Constants DEF TypeOK, ThreadOK, NodeKinds
  <2>3. ThreadOK' /\ NodesLeft' BY <2>1, <2>2 DEF TypeOK, ThreadOK, NodesLeft
  <2>4. QED BY <1>1, <1>2, <1>3, <2>1, <2>2, <2>3 DEF NodeEffect, Early, TypeOK, ThreadOK,
                                                          ProcessOK, WorkerStates
<1>5. CASE Pass(r)
  <2>1. /\ ThreadOK' /\ NodesLeft'
        /\ worker' \in [Runs -> WorkerStates]
        /\ carry' = [carry EXCEPT ![r] = "none"] /\ asked' = asked \ {r}
        /\ \A q \in Runs \ {r} : worker'[q] = worker[q] /\ due'[q] = due[q]
        /\ \/ worker'[r] = "running" /\ due'[r] \in Kinds[r]
           \/ worker'[r] = "returned" /\ due'[r] = "end"
    BY <1>1, <1>5, PassEffect
  <2>2. /\ carry' \in [Runs -> Inputs] /\ carry'[r] = "none"
        /\ \A q \in Runs \ {r} : carry'[q] = carry[q]
    BY <1>1, <2>1 DEF TypeOK, ProcessOK
  <2>3. due'[r] \notin {"none", "input"} BY <2>1, Constants DEF NodeKinds
  <2>4. NodeEffect(r) BY <1>1, <1>2, <2>1, <2>2, <2>3 DEF NodeEffect
  <2>5. QED BY <1>3, <2>1, <2>2, <2>4
<1>6. CASE Raises(r) /\ due[r] # "none"
  <2>1. /\ worker' = [worker EXCEPT ![r] = "raised"]
        /\ UNCHANGED <<due, asked, unlisted, nodes, carry>>
    BY <1>6 DEF Raises, Stop
  <2>2. QED BY <1>1, <1>2, <1>3, <1>6, <2>1 DEF NodeEffect, Early, TypeOK, ThreadOK,
                                                          ProcessOK, WorkerStates, NodesLeft
<1>7. CASE Stopped(r)
  <2>1. /\ ThreadOK' /\ NodesLeft'
        /\ worker' = [worker EXCEPT ![r] = "returned"] /\ carry' = carry
        /\ due' = [due EXCEPT ![r] = "end"] /\ asked' = asked \ {r}
    BY <1>1, <1>7, StoppedEffect
  <2>2. NodeEffect(r) BY <1>1, <1>2, <2>1 DEF NodeEffect, TypeOK, ThreadOK, ProcessOK
  <2>3. QED BY <1>3, <2>1, <2>2 DEF TypeOK, ProcessOK, WorkerStates
<1>8. CASE Interrupts(r) /\ due[r] \notin {"none", "input", "work"}
  <2>1. /\ worker' = [worker EXCEPT ![r] = "returned"] /\ asked' = asked \cup {r}
        /\ UNCHANGED <<due, unlisted, nodes, carry>>
    BY <1>8 DEF Interrupts, Stop
  <2>2. /\ worker' \in [Runs -> WorkerStates] /\ worker'[r] = "returned"
        /\ \A q \in Runs \ {r} : worker'[q] = worker[q]
    BY <2>1 DEF TypeOK, ProcessOK, WorkerStates
  <2>3. ThreadOK' /\ NodesLeft' BY <1>1, <1>8, <2>1 DEF TypeOK, ThreadOK, NodesLeft
  <2>4. carry' \in [Runs -> Inputs] BY <2>1 DEF TypeOK, ProcessOK
  <2>5. NodeEffect(r) BY <1>1, <1>2, <1>8, <2>1, <2>2 DEF NodeEffect, Early
  <2>6. QED BY <1>3, <2>2, <2>3, <2>4, <2>5
<1>9. \/ WriteInput(r) \/ Pass(r) \/ (Raises(r) /\ due[r] # "none") \/ Stopped(r)
      \/ Interrupts(r) /\ due[r] \notin {"none", "input", "work"}
  BY DEF Node, Work, SafePoint, ReviewerWait, CiWait, HumanGate, At
<1>10. QED BY <1>4, <1>5, <1>6, <1>7, <1>8, <1>9

LEMMA RowSet ==
  ASSUME TypeOK, NEW r \in Runs, NEW status \in Statuses, SetRow(r, status)
  PROVE  /\ row' \in [Runs -> Statuses] /\ row'[r] = status
         /\ \A q \in Runs \ {r} : row'[q] = row[q]
BY DEF SetRow, TypeOK, RegistryOK

LEMMA Armed ==
  ASSUME TypeOK, NEW r \in Runs, NEW kind \in Timers, Arm(r, kind)
  PROVE  /\ timer' \in [Runs -> Timers] /\ timer'[r] = kind
         /\ \A q \in Runs \ {r} : timer'[q] = timer[q]
BY DEF Arm, TypeOK, ProcessOK

\* The request that a step of a client is about.
LEMMA Served ==
  ASSUME TypeOK, NEW k \in Clients,
         request[k].stage \notin {"none", "check", "create"}
  PROVE  request[k].run \in Runs /\ request[k].input \in Inputs
BY DEF TypeOK, CallsOK

LEMMA NewRunAbsent ==
  (\E r \in Runs : row[r] = "absent") => NewRun \in Runs /\ row[NewRun] = "absent"
BY DEF NewRun

\* What _submit does to r.
SubmitEffect(r, input) ==
  /\ worker[r] = "idle" /\ r \notin finished
  /\ \A q \in Runs \ {r} : row'[q] = row[q] /\ worker'[q] = worker[q] /\ carry'[q] = carry[q]
  /\ \/ /\ row'[r] = "failed" /\ finished' = finished \cup {r}
        /\ worker'[r] = worker[r] /\ carry'[r] = carry[r]
     \/ /\ row'[r] = "running" /\ finished' = finished
        /\ worker'[r] = "running" /\ carry'[r] = input

LEMMA SubmitWorks ==
  ASSUME TypeOK, NEW r \in Runs, NEW input \in Inputs, Submit(r, input)
  PROVE  /\ SubmitEffect(r, input)
         /\ row' \in [Runs -> Statuses]
         /\ finished' \subseteq Runs /\ ledger' \subseteq Runs
         /\ worker' \in [Runs -> WorkerStates]
         /\ carry' \in [Runs -> Inputs]
<1>1. worker[r] = "idle" /\ r \notin finished BY DEF Submit, Contended
<1>2. CASE WithoutLedger(r)
  BY <1>1, <1>2 DEF Submit, SubmitEffect, TypeOK, RegistryOK, ProcessOK, SetRow, Statuses
<1>3. CASE ~WithoutLedger(r)
  <2>1. /\ row' = [row EXCEPT ![r] = "running"] /\ ledger' = ledger \cup {r}
        /\ worker' = [worker EXCEPT ![r] = "running"] /\ carry' = [carry EXCEPT ![r] = input]
        /\ finished' = finished
    BY <1>3 DEF Submit, SetRow
  <2>2. /\ row' \in [Runs -> Statuses] /\ row'[r] = "running"
        /\ \A q \in Runs \ {r} : row'[q] = row[q]
    BY <2>1 DEF TypeOK, RegistryOK, Statuses, Active
  <2>3. /\ worker' \in [Runs -> WorkerStates] /\ worker'[r] = "running"
        /\ \A q \in Runs \ {r} : worker'[q] = worker[q]
    BY <2>1 DEF TypeOK, ProcessOK, WorkerStates
  <2>4. /\ carry' \in [Runs -> Inputs] /\ carry'[r] = input
        /\ \A q \in Runs \ {r} : carry'[q] = carry[q]
    BY <2>1 DEF TypeOK, ProcessOK
  <2>5. finished' \subseteq Runs /\ ledger' \subseteq Runs BY <2>1 DEF TypeOK, RegistryOK
  <2>6. QED BY <1>1, <2>1, <2>2, <2>3, <2>4, <2>5 DEF SubmitEffect
<1>4. QED BY <1>2, <1>3

\* What becomes of r at a status request.
ReconciledEffect(r) ==
  /\ \A q \in Runs \ {r} : row'[q] = row[q] /\ timer'[q] = timer[q]
  /\ finished' \in {finished, finished \cup {r}} /\ row'[r] # "absent"
  /\ Open(r) => r \in finished' \/ row'[r] \in Active \cup Waiting
  /\ Early(r) => row'[r] \in {row[r], "recoverable"}
  /\ r \notin finished /\ worker[r] = "idle" =>
       \/ r \in finished'
       \/ /\ MachineWait(r) => timer'[r] = due[r]
          /\ Executable(r) => timer'[r] = "recover"
          /\ due[r] = "input" /\ row[r] \in Precheckpoint => timer'[r] = "recover"
          /\ \/ timer'[r] = timer[r]
             \/ timer'[r] = IF MachineWait(r) THEN due[r] ELSE "recover"

LEMMA ReconciledWorks ==
  ASSUME TypeOK, NEW r \in Runs, RowOK(r), row[r] # "absent", Reconciled(r)
  PROVE  /\ ReconciledEffect(r)
         /\ row' \in [Runs -> Statuses]
         /\ finished' \subseteq Runs
         /\ timer' \in [Runs -> Timers]
<1> USE DEF TypeOK, RegistryOK, ProcessOK, Statuses, WorkerStates, Timers, ThreadOK
<1>1. IdleRow(r) \in Active \cup Waiting \cup {"failed", "ended", "ended_unlisted"}
  BY DEF IdleRow, WaitRow, Active, Waiting, Terminal
<1>2. /\ Open(r) /\ IdleRow(r) # row[r] => IdleRow(r) \in Active \cup Waiting
      /\ Early(r) => IdleRow(r) = row[r]
  BY Constants DEF IdleRow, WaitRow, Active, Waiting, Terminal, Open, Early, NodeKinds
<1>3. /\ MachineWait(r) => due[r] \in {"ci", "review"} /\ r \in asked /\ ~Early(r)
      /\ MachineWait(r) => ~Executable(r)
      /\ Early(r) => r \notin asked /\ ~Terminal(r)
      /\ Open(r) => row[r] \in Active \cup Waiting
  BY Constants DEF MachineWait, Interrupt, Executable, NodeKinds, Early, Terminal, RowOK
<1>4. /\ "off" \in Timers /\ "recover" \in Timers /\ (MachineWait(r) => due[r] \in Timers)
      /\ IdleRow(r) \in Statuses /\ row[r] \in Statuses /\ "ended" \in Statuses
      /\ "recoverable" \in Statuses /\ "recoverable" \in Active /\ IdleRow(r) # "absent"
  BY <1>1, <1>3 DEF Active, Waiting
<1>5. CASE r \in finished \/ worker[r] # "idle"
  <2>1. PICK status \in {IdleRow(r), row[r]} : SetRow(r, status)
    BY <1>5 DEF Reconciled
  <2>2. /\ row' \in [Runs -> Statuses] /\ row'[r] \in {IdleRow(r), row[r]}
        /\ \A q \in Runs \ {r} : row'[q] = row[q]
    BY <1>4, <2>1, RowSet
  <2>3. /\ timer' \in [Runs -> Timers] /\ \A q \in Runs \ {r} : timer'[q] = timer[q]
    <3>1. timer' = timer \/ (MachineWait(r) /\ Arm(r, due[r])) BY <1>5 DEF Reconciled
    <3>2. QED BY <1>4, <3>1, Armed
  <2>4. finished' = finished BY <1>5 DEF Reconciled
  <2>5. QED BY <1>2, <1>3, <1>4, <1>5, <2>2, <2>3, <2>4 DEF ReconciledEffect, Open, Unfinished
<1>6. CASE ~(r \in finished \/ worker[r] # "idle") /\ Terminal(r)
  <2>1. SetRow(r, "ended") /\ finished' = finished \cup {r} /\ Arm(r, "off")
    BY <1>6 DEF Reconciled
  <2>2. QED BY <1>3, <1>4, <1>6, <2>1, RowSet, Armed DEF ReconciledEffect
<1>7. CASE ~(r \in finished \/ worker[r] # "idle") /\ ~Terminal(r) /\ MachineWait(r)
  <2>1. SetRow(r, IdleRow(r)) /\ Arm(r, due[r]) /\ finished' = finished
    BY <1>7 DEF Reconciled
  <2>2. /\ row' \in [Runs -> Statuses] /\ row'[r] = IdleRow(r)
        /\ \A q \in Runs \ {r} : row'[q] = row[q]
    BY <1>4, <2>1, RowSet
  <2>3. /\ timer' \in [Runs -> Timers] /\ timer'[r] = due[r]
        /\ \A q \in Runs \ {r} : timer'[q] = timer[q]
    BY <1>4, <1>7, <2>1, Armed
  <2>4. QED BY <1>2, <1>3, <1>4, <1>7, <2>1, <2>2, <2>3 DEF ReconciledEffect, Early
<1>8. CASE /\ ~(r \in finished \/ worker[r] # "idle") /\ ~Terminal(r) /\ ~MachineWait(r)
           /\ Executable(r) \/ InputOnly(r)
  <2>1. SetRow(r, "recoverable") /\ Arm(r, "recover") /\ finished' = finished
    BY <1>8 DEF Reconciled
  <2>2. /\ row' \in [Runs -> Statuses] /\ row'[r] = "recoverable"
        /\ \A q \in Runs \ {r} : row'[q] = row[q]
    BY <1>4, <2>1, RowSet
  <2>3. /\ timer' \in [Runs -> Timers] /\ timer'[r] = "recover"
        /\ \A q \in Runs \ {r} : timer'[q] = timer[q]
    BY <1>4, <2>1, Armed
  <2>4. QED BY <1>4, <1>8, <2>1, <2>2, <2>3 DEF ReconciledEffect
<1>9. CASE /\ ~(r \in finished \/ worker[r] # "idle") /\ ~Terminal(r) /\ ~MachineWait(r)
           /\ ~(Executable(r) \/ InputOnly(r))
  <2>1. SetRow(r, IdleRow(r)) /\ finished' = finished /\ timer' = timer
    BY <1>9 DEF Reconciled
  <2>2. /\ row' \in [Runs -> Statuses] /\ row'[r] = IdleRow(r)
        /\ \A q \in Runs \ {r} : row'[q] = row[q]
    BY <1>4, <2>1, RowSet
  <2>3. QED BY <1>2, <1>3, <1>4, <1>9, <2>1, <2>2 DEF ReconciledEffect, InputOnly, Open, Unfinished
<1>10. QED BY <1>5, <1>6, <1>7, <1>8, <1>9

RecordEffect(r) ==
  /\ worker[r] \in {"returned", "raised"}
  /\ \A q \in Runs \ {r} : /\ row'[q] = row[q] /\ worker'[q] = worker[q] /\ carry'[q] = carry[q]
                           /\ tails'[q] = tails[q]
  /\ worker'[r] = "idle" /\ carry'[r] = "none" /\ tails'[r] > 0
  /\ \/ finished' = finished \cup {r}
     \/ finished' = finished /\ r \in asked /\ worker[r] = "returned"
        /\ row'[r] \in {"paused", "interrupted"}
  /\ row'[r] # "absent"

LEMMA RecordWorks ==
  ASSUME TypeOK, NEW r \in Runs, Record(r)
  PROVE  /\ RecordEffect(r)
         /\ row' \in [Runs -> Statuses]
         /\ finished' \subseteq Runs
         /\ worker' \in [Runs -> WorkerStates]
         /\ carry' \in [Runs -> Inputs] /\ tails' \in [Runs -> 0..MaxTails]
<1> USE DEF TypeOK, RegistryOK, ProcessOK, Statuses, WorkerStates, Timers
<1>1. /\ worker[r] \in {"returned", "raised"} /\ worker' = [worker EXCEPT ![r] = "idle"]
      /\ carry' = [carry EXCEPT ![r] = "none"] /\ tails' = [tails EXCEPT ![r] = tails[r] + 1]
      /\ tails[r] < MaxTails
  BY DEF Record, Stop
<1>2. /\ worker' \in [Runs -> WorkerStates] /\ worker'[r] = "idle"
      /\ \A q \in Runs \ {r} : worker'[q] = worker[q]
  BY <1>1
<1>3. /\ carry' \in [Runs -> Inputs] /\ carry'[r] = "none"
      /\ \A q \in Runs \ {r} : carry'[q] = carry[q]
  BY <1>1 DEF Inputs
<1>4. /\ tails' \in [Runs -> 0..MaxTails] /\ tails'[r] > 0
      /\ \A q \in Runs \ {r} : tails'[q] = tails[q]
  BY <1>1, Constants
<1>5. \E status \in {"failed", "paused", "interrupted", "ended", "ended_unlisted"} :
        /\ row' = [row EXCEPT ![r] = status]
        /\ \/ finished' = finished \cup {r}
           \/ /\ finished' = finished /\ r \in asked /\ worker[r] = "returned"
              /\ status \in {"paused", "interrupted"}
  BY DEF Record, SetRow
<1>6. QED BY <1>1, <1>2, <1>3, <1>4, <1>5 DEF RecordEffect, Active

TailEffect(r) ==
  /\ tails[r] > 0 /\ tails'[r] = tails[r] - 1
  /\ \A q \in Runs \ {r} : row'[q] = row[q] /\ timer'[q] = timer[q] /\ tails'[q] = tails[q]
  /\ r \notin finished /\ MachineWait(r) => timer'[r] = due[r]
  /\ r \notin finished /\ Executable(r) => timer'[r] = "recover"
  /\ r \notin finished => timer'[r] \in {"off", IF MachineWait(r) THEN due[r] ELSE "recover"}
  /\ \/ row'[r] = row[r]
     \/ row'[r] \in {"waiting_ci", "waiting_review", "recoverable"} /\ ~Early(r)

LEMMA TailWorks ==
  ASSUME TypeOK, NEW r \in Runs, Tail(r)
  PROVE  /\ TailEffect(r)
         /\ row' \in [Runs -> Statuses]
         /\ timer' \in [Runs -> Timers]
         /\ tails' \in [Runs -> 0..MaxTails]
<1> USE DEF TypeOK, RegistryOK, ProcessOK, Statuses, WorkerStates, Timers, ThreadOK
<1>1. tails[r] > 0 /\ tails' = [tails EXCEPT ![r] = tails[r] - 1] BY DEF Tail
<1>2. /\ tails' \in [Runs -> 0..MaxTails] /\ tails'[r] = tails[r] - 1
      /\ \A q \in Runs \ {r} : tails'[q] = tails[q]
  BY <1>1, Constants
<1>3. /\ MachineWait(r) => due[r] \in {"ci", "review"} /\ ~Executable(r) /\ ~Early(r)
      /\ Executable(r) => ~Early(r)
  BY Constants DEF MachineWait, Interrupt, Executable, Early, NodeKinds
<1>4. CASE r \notin finished /\ MachineWait(r)
  <2>1. row' = [row EXCEPT ![r] = WaitRow(r)] /\ timer' = [timer EXCEPT ![r] = due[r]]
    BY <1>4 DEF Tail, SetRow, Arm
  <2>2. WaitRow(r) \in {"waiting_ci", "waiting_review"} BY DEF WaitRow
  <2>3. QED BY <1>1, <1>2, <1>3, <1>4, <2>1, <2>2 DEF TailEffect, Waiting
<1>5. CASE ~(r \notin finished /\ MachineWait(r)) /\ r \notin finished /\ Executable(r)
  <2>1. row' = [row EXCEPT ![r] = "recoverable"] /\ timer' = [timer EXCEPT ![r] = "recover"]
    BY <1>5 DEF Tail, SetRow, Arm
  <2>2. QED BY <1>1, <1>2, <1>3, <1>5, <2>1 DEF TailEffect, Active
<1>6. CASE ~(r \notin finished /\ MachineWait(r)) /\ ~(r \notin finished /\ Executable(r))
  <2>1. row' = row /\ timer' = [timer EXCEPT ![r] = "off"]
    BY <1>6 DEF Tail, Arm
  <2>2. QED BY <1>1, <1>2, <1>6, <2>1 DEF TailEffect
<1>7. QED BY <1>4, <1>5, <1>6

FiresEffect(r) ==
  /\ timer[r] # "off" /\ callback[r] = NoCall /\ timer'[r] = "off"
  /\ \A q \in Runs \ {r} : row'[q] = row[q] /\ timer'[q] = timer[q] /\ callback'[q] = callback[q]
  /\ \/ /\ row'[r] = row[r] /\ finished' = finished
        /\ r \notin finished => \/ callback'[r] # NoCall
                                \/ timer[r] \in {"ci", "review"} /\ Interrupt(r) # timer[r]
                                \/ timer[r] = "recover" /\ ~Executable(r) /\ ~BeforeFirstNode(r)
     \/ row'[r] = "ended" /\ finished' = finished \cup {r} /\ callback'[r] = callback[r]
  /\ \/ callback'[r] = callback[r]
     \/ callback'[r].input = "none"
     \/ callback'[r].input = "resume" /\ Interrupt(r) = callback'[r].kind /\ r \in asked

LEMMA FiresWorks ==
  ASSUME TypeOK, NEW r \in Runs, Fires(r)
  PROVE  /\ FiresEffect(r)
         /\ row' \in [Runs -> Statuses]
         /\ finished' \subseteq Runs /\ ledger' \subseteq Runs
         /\ timer' \in [Runs -> Timers]
         /\ callback' \in [Runs -> Calls]
<1> USE DEF TypeOK, RegistryOK, ProcessOK, Statuses, WorkerStates, Timers
<1> DEFINE Goes(input) == callback' = [callback EXCEPT ![r] = [kind |-> timer[r], input |-> input]]
<1>1. /\ timer[r] \in {"ci", "review", "recover"} /\ callback[r] = NoCall
      /\ timer' = [timer EXCEPT ![r] = "off"]
  BY DEF Fires, Arm
<1>2. /\ timer' \in [Runs -> Timers] /\ timer'[r] = "off"
      /\ \A q \in Runs \ {r} : timer'[q] = timer[q]
  BY <1>1
<1>3. ASSUME NEW input \in {"none", "resume"}, Goes(input)
      PROVE  /\ callback' \in [Runs -> Calls]
             /\ callback'[r].input = input /\ callback'[r].kind = timer[r] /\ callback'[r] # NoCall
             /\ \A q \in Runs \ {r} : callback'[q] = callback[q]
  <2>1. [kind |-> timer[r], input |-> input]
          \in Calls
    BY <1>1 DEF Calls
  <2>2. [kind |-> timer[r], input |-> input] # NoCall BY <1>1 DEF NoCall
  <2>3. QED BY <1>3, <2>1, <2>2
<1>4. CASE r \in finished
  BY <1>1, <1>2, <1>4 DEF Fires, FiresEffect, registry
<1>5. CASE r \notin finished /\ timer[r] \in {"ci", "review"}
  <2>1. UNCHANGED <<row, finished, ledger>> BY <1>5 DEF Fires, registry
  <2>2. CASE Interrupt(r) = timer[r]
    <3>1. Goes("resume") BY <1>5, <2>2 DEF Fires
    <3>2. r \in asked BY <1>5, <2>2 DEF Interrupt
    <3>3. QED BY <1>1, <1>2, <1>3, <1>5, <2>1, <2>2, <3>1, <3>2 DEF FiresEffect
  <2>3. CASE Interrupt(r) # timer[r]
    <3>1. callback' = callback BY <1>5, <2>3 DEF Fires
    <3>2. QED BY <1>1, <1>2, <1>5, <2>1, <2>3, <3>1 DEF FiresEffect
  <2>4. QED BY <2>2, <2>3
<1>6. CASE r \notin finished /\ timer[r] = "recover" /\ Terminal(r)
  <2>1. /\ row' = [row EXCEPT ![r] = "ended"] /\ finished' = finished \cup {r}
        /\ ledger' = ledger /\ callback' = callback
    BY <1>6 DEF Fires, SetRow
  <2>2. QED BY <1>1, <1>2, <2>1 DEF FiresEffect
<1>7. CASE r \notin finished /\ timer[r] = "recover" /\ ~Terminal(r)
  <2>1. UNCHANGED <<row, finished, ledger>> BY <1>7 DEF Fires, registry
  <2>2. CASE Executable(r) \/ BeforeFirstNode(r)
    <3>1. Goes("none") BY <1>7, <2>2 DEF Fires
    <3>2. QED BY <1>1, <1>2, <1>3, <1>7, <2>1, <3>1 DEF FiresEffect
  <2>3. CASE ~(Executable(r) \/ BeforeFirstNode(r))
    <3>1. callback' = callback BY <1>7, <2>3 DEF Fires
    <3>2. QED BY <1>1, <1>2, <1>7, <2>1, <2>3, <3>1 DEF FiresEffect
  <2>4. QED BY <2>2, <2>3
<1>8. QED BY <1>1, <1>4, <1>5, <1>6, <1>7

-----------------------------------------------------------------------------
(* What a step leaves alone.                                                   *)
SameRun(q) ==
  /\ row'[q] = row[q] /\ (q \in finished' <=> q \in finished) /\ (q \in signal' <=> q \in signal)
  /\ due'[q] = due[q] /\ (q \in asked' <=> q \in asked)
  /\ worker'[q] = worker[q] /\ carry'[q] = carry[q] /\ tails'[q] = tails[q]
  /\ timer'[q] = timer[q] /\ callback'[q] = callback[q]
  /\ \A k \in Clients : For(k, q) \/ For(k, q)' => request'[k] = request[k]

Elsewhere(r) == up /\ up' /\ \A q \in Runs \ {r} : SameRun(q)

Ghosts == Promises /\ Disturbs /\ Rearms

LEMMA LocalElsewhere ==
  ASSUME IInv, Ghosts, NEW q \in Runs, SameRun(q), up, up'
  PROVE  Local(q)'
<1> USE DEF SameRun, For
<1>1. Local(q) BY DEF IInv
<1>2. AbsentOK(q)' BY <1>1 DEF Local, AbsentOK
<1>3. RowOK(q)' BY <1>1 DEF Local, RowOK, Open, Unfinished, Early
<1>4. EndOK(q)' BY <1>1 DEF Local, EndOK, Early
<1>5. AnswerOK(q)' BY <1>1 DEF Local, AnswerOK, Pending
<1>6. PromiseOK(q)' BY <1>1 DEF Local, PromiseOK, Ghosts, Promises, InStage
<1>8. TimerOK(q)' BY <1>1 DEF Local, TimerOK, Unfinished, MachineWait, Interrupt
<1>9. CancelOK(q)' BY <1>1 DEF Local, CancelOK, Early, InStage, Ghosts, Rearms
<1>10. BeginOK(q)' BY <1>1 DEF Local, BeginOK, Unfinished, Early, InStage
<1>11. AttendedOK(q)'
  <2>1. MachineWork(q)' => MachineWork(q)
    BY DEF MachineWork, MachineWait, Interrupt, Executable, BeforeFirstNode
  <2>2. q \in disarmed /\ timer'[q] = "off" => q \in disarmed' BY DEF Ghosts, Rearms
  <2>3. QED BY <1>1, <2>1, <2>2 DEF Local, AttendedOK, Unfinished
<1>12. QED
  BY <1>2, <1>3, <1>4, <1>5, <1>6, <1>8, <1>9, <1>10, <1>11 DEF Local

\* A run never becomes open again, and only a start request opens one.
Grows == \A q \in Runs : Open(q)' => Open(q)

\* No request comes to the looks of start_run, and none goes on to its insertion.
NoStart == \A k \in Clients : Starting(k)' => request'[k] = request[k]

\* What every step but those of start requests does to the invariants of all runs.
LEMMA GlobalKept ==
  ASSUME IInv, Ghosts, Grows, NoStart
  PROVE  Undisturbed' /\ Alone' /\ promised' \subseteq Runs
<1>1. promised' \subseteq Runs BY DEF Ghosts, Promises
<1>2. Alone' BY DEF IInv, Alone, Grows, Ghosts, Disturbs
<1>3. Undisturbed'
  <2> SUFFICES ASSUME NEW k \in Clients, Starting(k)', k \notin disturbed', NEW r \in Runs
               PROVE  /\ ~BlockedByWait(r)' /\ (InStage(k, "create")' => ~BlockedByRun(r)')
    BY DEF Undisturbed
  <2>1. request'[k] = request[k] /\ Starting(k) BY DEF NoStart, Starting
  <2>2. <<row', finished'>> = <<row, finished>> /\ k \notin disturbed
    BY <2>1 DEF Ghosts, Disturbs, Starting
  <2>3. QED BY <2>1, <2>2 DEF IInv, Undisturbed, BlockedByWait, BlockedByRun, InStage
<1>4. QED BY <1>1, <1>2, <1>3

LEMMA Closes ==
  ASSUME IInv, Ghosts, TypeOK', NodesLeft', NEW r \in Runs, Elsewhere(r), Local(r)',
         Open(r)' => Open(r), NoStart
  PROVE  IInv'
<1>1. \A q \in Runs : Local(q)'
  <2> TAKE q \in Runs
  <2>1. CASE q = r BY <2>1
  <2>2. CASE q # r BY <2>2, LocalElsewhere DEF Elsewhere
  <2>3. QED BY <2>1, <2>2
<1>2. Grows BY DEF Grows, Elsewhere, SameRun, Open, Unfinished
<1>3. Undisturbed' /\ Alone' /\ promised' \subseteq Runs BY <1>2, GlobalKept
<1>4. Down' BY DEF Down, Elsewhere
<1>5. QED BY <1>1, <1>3, <1>4 DEF IInv

\* A node that has interrupted is one of the nodes, and not the beginning.
LEMMA AskedNotEarly ==
  ASSUME TypeOK, NEW r \in Runs
  PROVE  /\ r \in asked => ~Early(r) /\ due[r] # "end"
         /\ MachineWait(r) => due[r] \in {"ci", "review"} /\ r \in asked
         /\ Executable(r) => ~Early(r) /\ r \notin asked
BY Constants DEF TypeOK, ThreadOK, Early, NodeKinds, MachineWait, Interrupt, Executable

LEMMA Parts ==
  ASSUME IInv, NEW r \in Runs
  PROVE  /\ TypeOK /\ NodesLeft /\ Down
         /\ AbsentOK(r) /\ RowOK(r) /\ EndOK(r) /\ AnswerOK(r) /\ PromiseOK(r)
         /\ TimerOK(r) /\ CancelOK(r) /\ BeginOK(r) /\ AttendedOK(r)
BY DEF IInv, Local

-----------------------------------------------------------------------------
(* The worker.                                                                 *)
LEMMA NodeKeeps ==
  ASSUME IInv, Ghosts, NEW r \in Runs, Node(r)
  PROVE  IInv'
<1>1. /\ NodeEffect(r) /\ ThreadOK' /\ NodesLeft' /\ worker' \in [Runs -> WorkerStates]
      /\ carry' \in [Runs -> Inputs] /\ signal' \subseteq Runs
  BY NodeWorks DEF IInv
<1>2. /\ row' = row /\ finished' = finished /\ ledger' = ledger /\ tails' = tails
      /\ timer' = timer /\ callback' = callback /\ request' = request /\ requests' = requests
      /\ up' = up /\ crashes' = crashes
  BY <1>1 DEF NodeEffect, registry, calls, life
<1>3. up /\ up' BY <1>1, <1>2, Parts DEF Down, NodeEffect
<1>4. Elsewhere(r) BY <1>1, <1>2, <1>3 DEF Elsewhere, SameRun, NodeEffect
<1>5. TypeOK' BY <1>1, <1>2, Parts DEF TypeOK, RegistryOK, ProcessOK, CallsOK
<1>6. /\ worker[r] = "running" /\ due[r] # "end" /\ worker'[r] # "idle" /\ due'[r] # "none"
      /\ Early(r)' => Early(r)
  BY <1>1 DEF NodeEffect, Early
<1>7. AbsentOK(r)' BY <1>2, <1>6, Parts DEF AbsentOK
<1>8. RowOK(r)' BY <1>2, <1>6, Parts DEF RowOK, Open, Unfinished
<1>9. EndOK(r)' BY <1>1, <1>2, <1>6, Parts DEF EndOK, NodeEffect
<1>10. AnswerOK(r)'
  <2>1. worker'[r] \in {"running", "raised", "returned"}
    BY <1>1, <1>6 DEF WorkerStates
  <2>2. QED BY <1>1, <1>2, <2>1, Parts DEF AnswerOK, NodeEffect
<1>11. PromiseOK(r)'
  <2>1. r \in promised => r \in signal'
    BY <1>1, <1>6, Parts DEF NodeEffect, PromiseOK, AnswerOK
  <2>2. signal' \ signal = {} BY <1>1 DEF NodeEffect
  <2>3. QED BY <1>2, <2>1, <2>2, Parts DEF PromiseOK, Ghosts, Promises, For, InStage
<1>13. TimerOK(r)' BY <1>6 DEF TimerOK
<1>14. CancelOK(r)'
  BY <1>2, <1>6, Parts DEF CancelOK, For, InStage
<1>15. BeginOK(r)' /\ AttendedOK(r)' BY <1>6 DEF BeginOK, AttendedOK
<1>16. Local(r)'
  BY <1>7, <1>8, <1>9, <1>10, <1>11, <1>13, <1>14, <1>15 DEF Local
<1>17. Open(r)' => Open(r) BY <1>2, <1>6 DEF Open, Unfinished
<1>18. NoStart BY <1>2 DEF NoStart
<1>19. QED BY <1>1, <1>4, <1>5, <1>16, <1>17, <1>18, Closes

LEMMA RecordKeeps ==
  ASSUME IInv, Ghosts, NEW r \in Runs, Record(r)
  PROVE  IInv'
<1>1. /\ RecordEffect(r) /\ row' \in [Runs -> Statuses] /\ finished' \subseteq Runs
      /\ worker' \in [Runs -> WorkerStates] /\ carry' \in [Runs -> Inputs]
      /\ tails' \in [Runs -> 0..MaxTails]
  BY RecordWorks DEF IInv
<1>2. /\ ledger' = ledger /\ signal' = signal /\ due' = due /\ asked' = asked
      /\ unlisted' = unlisted /\ nodes' = nodes
      /\ timer' = timer /\ callback' = callback /\ request' = request /\ requests' = requests
      /\ up' = up /\ crashes' = crashes
  BY DEF Record, thread, calls, life
<1>3. /\ up /\ up' /\ worker[r] \in {"returned", "raised"} /\ worker'[r] = "idle"
      /\ carry'[r] = "none" /\ tails'[r] > 0 /\ row'[r] # "absent"
  BY <1>1, <1>2, Parts DEF Down, RecordEffect
<1>4. /\ finished \subseteq finished' /\ finished' \subseteq finished \cup {r}
      /\ r \notin finished' => /\ r \in asked /\ ~Early(r) /\ worker[r] = "returned"
                               /\ row'[r] \in {"paused", "interrupted"}
  BY <1>1, AskedNotEarly, Parts DEF RecordEffect
<1>5. Elsewhere(r) BY <1>1, <1>2, <1>3, <1>4 DEF Elsewhere, SameRun, RecordEffect
<1>6. TypeOK' /\ NodesLeft'
  BY <1>1, <1>2, Parts DEF TypeOK, RegistryOK, ThreadOK, ProcessOK, CallsOK, NodesLeft
<1>7. AbsentOK(r)' BY <1>3 DEF AbsentOK
<1>8. RowOK(r)' BY <1>2, <1>4 DEF RowOK, Open, Unfinished, Early, Active
<1>9. EndOK(r)' BY <1>2, <1>3, <1>4 DEF EndOK, Early
<1>10. AnswerOK(r)' BY <1>2, <1>3, <1>4 DEF AnswerOK
<1>11. PromiseOK(r)'
  BY <1>2, Parts DEF PromiseOK, Ghosts, Promises, For, InStage
<1>13. TimerOK(r)' BY <1>3, <1>6 DEF TimerOK
<1>14. CancelOK(r)' BY <1>2, <1>3, Parts DEF CancelOK, For, InStage, Early
<1>15. BeginOK(r)' BY <1>2, <1>4 DEF BeginOK, Unfinished, Early
<1>16. AttendedOK(r)' BY <1>3 DEF AttendedOK
<1>17. Local(r)'
  BY <1>7, <1>8, <1>9, <1>10, <1>11, <1>13, <1>14, <1>15, <1>16 DEF Local
<1>18. Open(r)' => Open(r)
  BY <1>2, <1>3, <1>4, Parts DEF Open, Unfinished, AbsentOK
<1>19. NoStart BY <1>2 DEF NoStart
<1>20. QED BY <1>5, <1>6, <1>17, <1>18, <1>19, Closes

LEMMA TailKeeps ==
  ASSUME IInv, Ghosts, NEW r \in Runs, Tail(r)
  PROVE  IInv'
<1>1. /\ TailEffect(r) /\ row' \in [Runs -> Statuses] /\ timer' \in [Runs -> Timers]
      /\ tails' \in [Runs -> 0..MaxTails]
  BY TailWorks DEF IInv
<1>2. /\ ledger' = ledger /\ signal' = signal /\ due' = due /\ asked' = asked
      /\ unlisted' = unlisted /\ nodes' = nodes /\ finished' = finished /\ worker' = worker
      /\ carry' = carry /\ callback' = callback /\ request' = request /\ requests' = requests
      /\ up' = up /\ crashes' = crashes
  BY DEF Tail, thread, calls, life
<1>3. /\ up /\ up' /\ tails[r] > 0 /\ tails[r] \in Nat /\ tails'[r] = tails[r] - 1
  BY <1>1, <1>2, Parts DEF Down, TailEffect, TypeOK, ProcessOK
<1>4. Elsewhere(r) BY <1>1, <1>2, <1>3 DEF Elsewhere, SameRun, TailEffect
<1>5. TypeOK' /\ NodesLeft'
  BY <1>1, <1>2, Parts DEF TypeOK, RegistryOK, ThreadOK, ProcessOK, CallsOK, NodesLeft
<1>6. /\ r \in finished \/ ~Early(r)
      /\ row'[r] # row[r] => row'[r] \in {"waiting_ci", "waiting_review", "recoverable"}
      /\ row[r] # "absent" /\ row'[r] # "absent"
  BY <1>1, <1>3, Parts DEF EndOK, AbsentOK, TailEffect
<1>7. AbsentOK(r)' BY <1>6 DEF AbsentOK
<1>8. RowOK(r)'
  BY <1>2, <1>6, Parts DEF RowOK, Open, Unfinished, Early, Active, Waiting
<1>9. EndOK(r)' BY <1>2, <1>3, Parts DEF EndOK, Early
<1>10. AnswerOK(r)' BY <1>2, Parts DEF AnswerOK, Pending, For
<1>11. PromiseOK(r)'
  BY <1>2, Parts DEF PromiseOK, Ghosts, Promises, For, InStage
<1>13. TimerOK(r)'
  BY <1>1, <1>2 DEF TimerOK, TailEffect, Unfinished, MachineWait, Interrupt
<1>14. CancelOK(r)'
  <2> SUFFICES ASSUME NEW k \in Clients, For(k, r)'
               PROVE  /\ request'[k].stage \in {"resume", "poll", "clear", "cancel"} => ~Early(r)'
                      /\ InStage(k, "cancel")' =>
                           \/ worker'[r] # "idle" \/ tails'[r] > 0
                           \/ r \in finished' \/ k \in rearmed'
    BY DEF CancelOK
  <2>1. InStage(k, "cancel")' => k \in rearmed'
    BY <1>2, <1>3 DEF Ghosts, Rearms, InStage, For
  <2>2. QED BY <1>2, <2>1, Parts DEF CancelOK, Early, For
<1>15. BeginOK(r)' BY <1>2, <1>6 DEF BeginOK, Unfinished, Early
<1>16. AttendedOK(r)'
  <2> SUFFICES ASSUME r \notin finished', MachineWork(r)'
               PROVE  timer'[r] # "off"
    BY DEF AttendedOK, Unfinished
  <2>1. MachineWait(r) \/ Executable(r)
    BY <1>2, <1>6 DEF MachineWork, MachineWait, Executable, BeforeFirstNode, Interrupt, Early
  <2>2. QED BY <1>1, <1>2, <2>1, AskedNotEarly, Parts DEF TailEffect
<1>17. Local(r)'
  BY <1>7, <1>8, <1>9, <1>10, <1>11, <1>13, <1>14, <1>15, <1>16 DEF Local
<1>18. Open(r)' => Open(r) BY <1>2, <1>6 DEF Open, Unfinished
<1>19. NoStart BY <1>2 DEF NoStart
<1>20. QED BY <1>4, <1>5, <1>17, <1>18, <1>19, Closes

-----------------------------------------------------------------------------
(* Timers and their callbacks.                                                 *)
LEMMA FiresKeeps ==
  ASSUME IInv, Ghosts, NEW r \in Runs, Fires(r)
  PROVE  IInv'
<1>1. /\ FiresEffect(r) /\ row' \in [Runs -> Statuses] /\ finished' \subseteq Runs
      /\ ledger' \subseteq Runs /\ timer' \in [Runs -> Timers] /\ callback' \in [Runs -> Calls]
  BY FiresWorks DEF IInv
<1>2. /\ signal' = signal /\ due' = due /\ asked' = asked
      /\ unlisted' = unlisted /\ nodes' = nodes /\ worker' = worker /\ tails' = tails
      /\ carry' = carry /\ request' = request /\ requests' = requests
      /\ up' = up /\ crashes' = crashes
  BY DEF Fires, thread, calls, life
<1>3. /\ up /\ up' /\ timer[r] # "off" /\ callback[r] = NoCall /\ timer'[r] = "off"
      /\ row[r] # "absent" /\ row'[r] # "absent"
      /\ row'[r] = row[r] \/ r \in finished'
      /\ finished \subseteq finished' /\ finished' \subseteq finished \cup {r}
  BY <1>1, <1>2, Parts DEF Down, FiresEffect, AbsentOK
<1>4. Elsewhere(r) BY <1>1, <1>2, <1>3 DEF Elsewhere, SameRun, FiresEffect
<1>5. TypeOK' /\ NodesLeft'
  BY <1>1, <1>2, Parts DEF TypeOK, RegistryOK, ThreadOK, ProcessOK, CallsOK, NodesLeft
<1>6. ASSUME r \notin finished', MachineWork(r) \/ Early(r), tails[r] = 0, worker[r] = "idle"
      PROVE  callback'[r] # NoCall
  <2>1. Unfinished(r) /\ r \notin finished BY <1>3, <1>6 DEF Unfinished
  <2>2. timer[r] = IF MachineWait(r) THEN due[r] ELSE "recover"
    BY <1>3, <1>6, <2>1, Parts DEF TimerOK
  <2>3. MachineWait(r) => timer[r] # "recover" /\ Interrupt(r) = timer[r]
    BY <2>2, AskedNotEarly, Parts DEF MachineWait, Interrupt
  <2>4. ~MachineWait(r) => timer[r] = "recover" /\ (Executable(r) \/ BeforeFirstNode(r))
    <3>1. Early(r) => row[r] \in Precheckpoint
      BY <2>1, Parts DEF RowOK, Open, Early
    <3>2. Early(r) => BeforeFirstNode(r) BY <3>1 DEF Early, BeforeFirstNode
    <3>3. QED BY <1>6, <2>2, <3>2 DEF MachineWork
  <2>5. QED BY <1>1, <1>6, <2>1, <2>3, <2>4 DEF FiresEffect
<1>7. AbsentOK(r)' BY <1>3 DEF AbsentOK
<1>8. RowOK(r)' BY <1>2, <1>3, Parts DEF RowOK, Open, Unfinished, Early
<1>9. EndOK(r)' BY <1>2, <1>3, Parts DEF EndOK, Early
<1>10. AnswerOK(r)'
  <2>1. Pending(r)' => Pending(r) \/ r \in asked
    BY <1>1, <1>2, <1>3 DEF FiresEffect, Pending, For
  <2>2. QED BY <1>2, <1>3, <2>1, Parts DEF AnswerOK
<1>11. PromiseOK(r)'
  BY <1>2, Parts DEF PromiseOK, Ghosts, Promises, For, InStage
<1>13. TimerOK(r)' BY <1>3 DEF TimerOK
<1>14. CancelOK(r)' BY <1>2, <1>3, Parts DEF CancelOK, For, InStage, Early, Ghosts, Rearms
<1>15. BeginOK(r)'
  <2> SUFFICES ASSUME r \notin finished', worker[r] = "idle", Early(r)
               PROVE  callback'[r] # NoCall
    BY <1>2 DEF BeginOK, Unfinished, Early
  <2>1. tails[r] = 0
    BY <1>3, Parts DEF EndOK, TypeOK, ProcessOK
  <2>2. QED BY <1>6, <2>1
<1>16. AttendedOK(r)'
  <2> SUFFICES ASSUME r \notin finished', worker[r] = "idle", MachineWork(r)', tails[r] = 0
               PROVE  callback'[r] # NoCall
    BY <1>2, Parts DEF AttendedOK, Unfinished, TypeOK, ProcessOK
  <2>1. MachineWork(r) \/ Early(r)
    BY <1>2 DEF MachineWork, MachineWait, Executable, BeforeFirstNode, Interrupt, Early
  <2>2. QED BY <1>6, <2>1
<1>17. Local(r)'
  BY <1>7, <1>8, <1>9, <1>10, <1>11, <1>13, <1>14, <1>15, <1>16 DEF Local
<1>18. Open(r)' => Open(r) BY <1>2, <1>3 DEF Open, Unfinished
<1>19. NoStart BY <1>2 DEF NoStart
<1>20. QED BY <1>4, <1>5, <1>17, <1>18, <1>19, Closes

\* A submission: a worker with the answer, the end of a run without a budget, or nothing.
Offered(r, input) ==
  /\ \A q \in Runs \ {r} : row'[q] = row[q] /\ worker'[q] = worker[q] /\ carry'[q] = carry[q]
  /\ finished \subseteq finished' /\ finished' \subseteq finished \cup {r}
  /\ \/ /\ worker[r] = "idle" /\ worker'[r] = "running" /\ carry'[r] = input
        /\ row'[r] = "running" /\ r \notin finished'
     \/ worker'[r] = worker[r] /\ carry'[r] = carry[r] /\ r \in finished' /\ row'[r] # "absent"
     \/ /\ worker'[r] = worker[r] /\ carry'[r] = carry[r] /\ worker[r] # "idle"
        /\ finished' = finished /\ row'[r] = row[r]

\* What is so of r after a submission, whatever happens to its callback and its request.
LEMMA OfferedKeeps ==
  ASSUME IInv, Ghosts, NEW r \in Runs, NEW input \in Inputs, Offered(r, input),
         input # "none" => Pending(r), row[r] # "absent",
         Pending(r)' => Pending(r),
         UNCHANGED <<thread, signal, tails>>,
         callback'[r] # NoCall => callback'[r] = callback[r],
         \A k \in Clients : For(k, r)' =>
           \/ request'[k] = request[k]
           \/ /\ request'[k].stage = "cancel" /\ request'[k].input = request[k].input
              /\ ~Early(r) /\ (worker'[r] # "idle" \/ r \in finished')
  PROVE  Local(r)' /\ (Open(r)' => Open(r))
<1>1. /\ due' = due /\ asked' = asked /\ unlisted' = unlisted /\ nodes' = nodes
      /\ signal' = signal /\ tails' = tails
  BY DEF thread
<1>2. /\ r \in finished' \/ worker'[r] # "idle"
      /\ row'[r] # "absent" /\ (r \in finished => r \in finished')
      /\ row'[r] = row[r] \/ row'[r] = "running" \/ r \in finished'
  BY DEF Offered
<1>3. AbsentOK(r)' BY <1>2 DEF AbsentOK
<1>4. RowOK(r)'
  BY <1>1, <1>2, Parts DEF RowOK, Open, Unfinished, Early, Active, Precheckpoint
<1>5. EndOK(r)' BY <1>1, <1>2, Parts DEF EndOK, Early, Offered
<1>6. AnswerOK(r)'
  <2>1. CASE worker'[r] = "running" /\ worker[r] = "idle"
    BY <1>1, <1>2, <2>1, Parts DEF AnswerOK, Offered
  <2>2. CASE worker'[r] = worker[r] /\ carry'[r] = carry[r]
    BY <1>1, <1>2, <2>2, Parts DEF AnswerOK
  <2>3. QED BY <2>1, <2>2 DEF Offered
<1>7. PromiseOK(r)'
  <2>1. r \in promised' => r \in promised /\ r \notin finished' BY <1>1 DEF Ghosts, Promises
  <2>2. \A k \in Clients : For(k, r)' /\ InStage(k, "clear")' => For(k, r) /\ InStage(k, "clear")
    BY DEF InStage, For
  <2>3. QED BY <1>1, <2>1, <2>2, Parts DEF PromiseOK
<1>9. TimerOK(r)' BY <1>2 DEF TimerOK, Unfinished
<1>10. CancelOK(r)'
  BY <1>1, <1>2, Parts DEF CancelOK, For, InStage, Early
<1>11. BeginOK(r)' /\ AttendedOK(r)' BY <1>2 DEF BeginOK, AttendedOK, Unfinished
<1>12. Local(r)'
  BY <1>3, <1>4, <1>5, <1>6, <1>7, <1>9, <1>10, <1>11 DEF Local
<1>13. Open(r)' => Open(r) BY <1>1, <1>2 DEF Open, Unfinished
<1>14. QED BY <1>12, <1>13

LEMMA Submitted ==
  ASSUME TypeOK, NEW r \in Runs, NEW input \in Inputs, row[r] # "absent",
         Submit(r, input) \/ Refused(r)
  PROVE  /\ Offered(r, input)
         /\ row' \in [Runs -> Statuses] /\ finished' \subseteq Runs /\ ledger' \subseteq Runs
         /\ worker' \in [Runs -> WorkerStates] /\ carry' \in [Runs -> Inputs]
         /\ Refused(r) => r \in finished' \/ worker[r] # "idle"
<1>1. CASE Submit(r, input) BY <1>1, SubmitWorks DEF SubmitEffect, Offered, Submit, Refused
<1>2. CASE Refused(r)
  <2>1. UNCHANGED <<row, finished, ledger, worker, carry>> /\ (r \in finished \/ worker[r] # "idle")
    BY <1>2 DEF Refused, registry, Contended
  <2>2. QED BY <2>1 DEF Offered, TypeOK, RegistryOK, ProcessOK
<1>3. QED BY <1>1, <1>2

LEMMA CalledKeeps ==
  ASSUME IInv, Ghosts, NEW r \in Runs, Called(r)
  PROVE  IInv'
<1>1. /\ signal' = signal /\ UNCHANGED thread /\ tails' = tails
      /\ request' = request /\ requests' = requests /\ up' = up /\ crashes' = crashes
      /\ callback[r] # NoCall /\ callback' = [callback EXCEPT ![r] = NoCall]
  BY DEF Called, calls, life
<1>2. /\ callback' \in [Runs -> Calls] /\ callback'[r] = NoCall
      /\ \A q \in Runs \ {r} : callback'[q] = callback[q]
      /\ callback[r].input \in Inputs
  BY <1>1, Parts DEF TypeOK, ProcessOK, NoCall, Calls, Inputs
<1>3. /\ up /\ up' /\ row[r] # "absent" BY <1>1, Parts DEF Down, AbsentOK
<1>4. /\ Submit(r, callback[r].input) \/ Refused(r)
      /\ \/ timer' = timer
         \/ Arm(r, "ci") \/ Arm(r, "recover")
  BY DEF Called
<1>5. /\ Offered(r, callback[r].input) /\ row' \in [Runs -> Statuses] /\ finished' \subseteq Runs
      /\ ledger' \subseteq Runs /\ worker' \in [Runs -> WorkerStates]
      /\ carry' \in [Runs -> Inputs]
  BY <1>2, <1>3, <1>4, Submitted, Parts
<1>6. timer' \in [Runs -> Timers] /\ \A q \in Runs \ {r} : timer'[q] = timer[q]
  <2>1. "ci" \in Timers /\ "recover" \in Timers BY DEF Timers
  <2>2. timer' = timer => timer' \in [Runs -> Timers] BY Parts DEF TypeOK, ProcessOK
  <2>3. QED BY <1>4, <2>1, <2>2, Armed, Parts
<1>7. Elsewhere(r)
  BY <1>1, <1>2, <1>3, <1>5, <1>6 DEF Elsewhere, SameRun, Offered, thread
<1>8. TypeOK' /\ NodesLeft'
  BY <1>1, <1>2, <1>5, <1>6, Parts
  DEF TypeOK, RegistryOK, ThreadOK, ProcessOK, CallsOK, NodesLeft, thread
<1>9. Local(r)' /\ (Open(r)' => Open(r))
  <2>1. callback[r].input # "none" => Pending(r) BY DEF Pending
  <2>2. Pending(r)' => Pending(r) BY <1>1, <1>2 DEF Pending, NoCall, For
  <2>3. \A k \in Clients : request'[k] = request[k] BY <1>1
  <2>4. QED BY <1>1, <1>2, <1>3, <1>5, <2>1, <2>2, <2>3, OfferedKeeps
<1>10. NoStart BY <1>1 DEF NoStart
<1>11. QED BY <1>7, <1>8, <1>9, <1>10, Closes

-----------------------------------------------------------------------------
(* Status requests, and the others.                                            *)

\* What k's request becomes.
LEMMA Moves ==
  ASSUME TypeOK, NEW k \in Clients, NEW stage \in Stages, Goto(k, stage),
         request[k].run \in Runs <=> stage \notin {"none", "check", "create"}
  PROVE  /\ request'[k].stage = stage /\ request'[k].run = request[k].run
         /\ request'[k].input = request[k].input
         /\ \A j \in Clients \ {k} : request'[j] = request[j]
         /\ requests' = requests /\ UNCHANGED life => CallsOK'
<1>1. request \in [Clients -> [stage : Stages, run : Runs \cup {"none"}, input : Inputs]]
  BY DEF TypeOK, CallsOK
<1>2. /\ request'[k] = [request[k] EXCEPT !.stage = stage]
      /\ \A j \in Clients \ {k} : request'[j] = request[j]
      /\ request' \in [Clients -> [stage : Stages, run : Runs \cup {"none"}, input : Inputs]]
  BY <1>1 DEF Goto
<1>3. /\ request'[k].stage = stage /\ request'[k].run = request[k].run
      /\ request'[k].input = request[k].input
  BY <1>1, <1>2
<1>4. QED BY <1>2, <1>3 DEF TypeOK, CallsOK, life

LEMMA IsDone ==
  ASSUME TypeOK, NEW k \in Clients, Done(k)
  PROVE  /\ request'[k] = NoRequest /\ \A j \in Clients \ {k} : request'[j] = request[j]
         /\ requests' = requests /\ UNCHANGED life => CallsOK'
<1>1. NoRequest \in [stage : Stages, run : Runs \cup {"none"}, input : Inputs]
  BY DEF NoRequest, Stages, Inputs
<1>2. /\ request'[k] = NoRequest /\ \A j \in Clients \ {k} : request'[j] = request[j]
      /\ request' \in [Clients -> [stage : Stages, run : Runs \cup {"none"}, input : Inputs]]
  BY <1>1 DEF Done, TypeOK, CallsOK
<1>3. QED BY <1>2, Constants DEF TypeOK, CallsOK, life, NoRequest

LEMMA NoRequestOfNoRun ==
  ASSUME NEW k \in Clients, request[k] = NoRequest, NEW q \in Runs
  PROVE  ~For(k, q)
BY Constants DEF NoRequest, For

\* What is so of r after its row has been brought up to date.
LEMMA ReconciledKeeps ==
  ASSUME IInv, Ghosts, NEW r \in Runs, row[r] # "absent", ReconciledEffect(r),
         UNCHANGED <<thread, signal, worker, carry, tails, callback>>, up, up',
         timer' \in [Runs -> Timers],
         \A k \in Clients :
           request'[k] = request[k] \/ (request'[k] = NoRequest /\ InStage(k, "report"))
  PROVE  Local(r)' /\ (Open(r)' => Open(r))
<1>1. /\ due' = due /\ asked' = asked /\ unlisted' = unlisted /\ nodes' = nodes
      /\ signal' = signal /\ tails' = tails /\ worker' = worker /\ carry' = carry
      /\ callback' = callback
  BY DEF thread
<1>2. /\ finished \subseteq finished' /\ finished' \subseteq finished \cup {r} /\ row'[r] # "absent"
  BY DEF ReconciledEffect
<1>3. \A k \in Clients : For(k, r)' => For(k, r) /\ request'[k] = request[k]
  BY Constants DEF For, NoRequest
<1>4. \A k \in Clients : For(k, r) => \/ request'[k] = request[k] /\ For(k, r)'
                                      \/ InStage(k, "report")
  BY DEF For
<1>5. Early(r)' <=> Early(r) BY <1>1 DEF Early
<1>6. AbsentOK(r)' BY <1>2 DEF AbsentOK
<1>7. RowOK(r)'
  <2> SUFFICES ASSUME Open(r)'
               PROVE  /\ row'[r] \in Active \cup Waiting
                      /\ Early(r) => row'[r] \in Precheckpoint
    BY <1>5 DEF RowOK
  <2>1. Open(r) /\ r \notin finished' BY <1>1, <1>2 DEF Open, Unfinished
  <2>2. Early(r) => row[r] \in Precheckpoint /\ row'[r] \in {row[r], "recoverable"}
    BY <2>1, Parts DEF RowOK, ReconciledEffect
  <2>3. QED BY <2>1, <2>2 DEF ReconciledEffect, Precheckpoint
<1>8. EndOK(r)' BY <1>1, <1>2, <1>5, Parts DEF EndOK
<1>9. AnswerOK(r)'
  <2>1. Pending(r)' => Pending(r) BY <1>1, <1>3 DEF Pending, For
  <2>2. QED BY <1>1, <1>2, <2>1, Parts DEF AnswerOK
<1>10. PromiseOK(r)'
  <2>1. r \in promised' => r \in promised /\ r \notin finished' BY <1>1 DEF Ghosts, Promises
  <2>2. QED BY <1>1, <1>3, <2>1, Parts DEF PromiseOK, InStage
<1>12. TimerOK(r)'
  <2> SUFFICES ASSUME r \notin finished', worker[r] = "idle", tails[r] = 0
               PROVE  timer'[r] \in {"off", IF MachineWait(r) THEN due[r] ELSE "recover"}
    BY <1>1 DEF TimerOK, Unfinished, MachineWait, Interrupt
  <2>1. timer[r] \in {"off", IF MachineWait(r) THEN due[r] ELSE "recover"}
    BY <1>2, Parts DEF TimerOK, Unfinished
  <2>2. QED BY <1>2, <2>1 DEF ReconciledEffect
<1>13. CancelOK(r)'
  <2> SUFFICES ASSUME NEW k \in Clients, For(k, r)'
               PROVE  /\ request'[k].stage \in {"resume", "poll", "clear", "cancel"} => ~Early(r)'
                      /\ InStage(k, "cancel")' =>
                           \/ worker'[r] # "idle" \/ tails'[r] > 0
                           \/ r \in finished' \/ k \in rearmed'
    BY DEF CancelOK
  <2>1. For(k, r) /\ request'[k] = request[k] BY <1>3
  <2>2. k \in rearmed /\ InStage(k, "cancel") => k \in rearmed'
    BY <2>1 DEF Ghosts, Rearms, InStage
  <2>3. QED BY <1>1, <1>2, <1>5, <2>1, <2>2, Parts DEF CancelOK, InStage
<1>14. BeginOK(r)'
  <2> SUFFICES ASSUME r \notin finished', worker[r] = "idle", Early(r)
               PROVE  \/ timer'[r] # "off" \/ callback[r] # NoCall
                      \/ \E k \in Clients : For(k, r)' /\ InStage(k, "start")'
    BY <1>1, <1>5 DEF BeginOK, Unfinished
  <2>1. \/ timer[r] # "off" \/ callback[r] # NoCall
        \/ \E k \in Clients : For(k, r) /\ InStage(k, "start")
    BY <1>2, Parts DEF BeginOK, Unfinished
  <2>2. ~MachineWait(r) BY AskedNotEarly, Parts
  <2>3. timer'[r] = timer[r] \/ timer'[r] = "recover"
    BY <1>2, <2>2 DEF ReconciledEffect
  <2>4. \A k \in Clients : For(k, r) /\ InStage(k, "start") => For(k, r)' /\ InStage(k, "start")'
    BY <1>4 DEF InStage
  <2>5. QED BY <2>1, <2>3, <2>4
<1>15. AttendedOK(r)'
  <2> SUFFICES ASSUME r \notin finished', worker[r] = "idle", MachineWork(r)'
               PROVE  \/ timer'[r] # "off" \/ callback'[r] # NoCall
                      \/ \E k \in Clients : For(k, r)'
    BY <1>1 DEF AttendedOK, Unfinished
  <2>1. CASE MachineWait(r) \/ Executable(r)
    <3>1. MachineWait(r) => due[r] # "off" BY AskedNotEarly, Parts
    <3>2. QED BY <1>2, <2>1, <3>1 DEF ReconciledEffect
  <2>2. CASE ~MachineWait(r) /\ ~Executable(r)
    <3>1. Early(r)
      BY <1>1, <2>2 DEF MachineWork, MachineWait, Interrupt, Executable, BeforeFirstNode, Early
    <3>2. QED BY <1>1, <1>2, <1>5, <1>14, <3>1 DEF BeginOK, Unfinished
  <2>3. QED BY <2>1, <2>2
<1>16. Local(r)'
  BY <1>6, <1>7, <1>8, <1>9, <1>10, <1>12, <1>13, <1>14, <1>15 DEF Local
<1>17. Open(r)' => Open(r) BY <1>1, <1>2 DEF Open, Unfinished
<1>18. QED BY <1>16, <1>17

LEMMA ReportKeeps ==
  ASSUME IInv, Ghosts, NEW r \in Runs, row[r] # "absent", Reconciled(r), up,
         UNCHANGED <<ledger, signal, thread, worker, carry, tails, callback, requests, life>>,
         CallsOK',
         \A k \in Clients :
           \/ request'[k] = request[k]
           \/ request'[k] = NoRequest /\ InStage(k, "report") /\ For(k, r)
  PROVE  IInv'
<1>1. /\ ReconciledEffect(r) /\ row' \in [Runs -> Statuses] /\ finished' \subseteq Runs
      /\ timer' \in [Runs -> Timers]
  BY ReconciledWorks, Parts
<1>2. /\ due' = due /\ asked' = asked /\ unlisted' = unlisted /\ nodes' = nodes
      /\ signal' = signal /\ tails' = tails /\ worker' = worker /\ carry' = carry
      /\ callback' = callback /\ ledger' = ledger /\ up'
  BY DEF thread, life
<1>3. Elsewhere(r)
  <2>1. \A q \in Runs \ {r}, k \in Clients : For(k, q) \/ For(k, q)' => request'[k] = request[k]
    BY Constants DEF For, NoRequest
  <2>2. QED BY <1>1, <1>2, <2>1 DEF Elsewhere, SameRun, ReconciledEffect
<1>4. TypeOK' /\ NodesLeft'
  BY <1>1, <1>2, Parts DEF TypeOK, RegistryOK, ThreadOK, ProcessOK, NodesLeft
<1>5. Local(r)' /\ (Open(r)' => Open(r))
  <2>1. UNCHANGED <<thread, signal, worker, carry, tails, callback>> OBVIOUS
  <2>2. QED BY <1>1, <1>2, <2>1, ReconciledKeeps
<1>6. NoStart BY DEF NoStart, Starting, NoRequest
<1>7. QED BY <1>3, <1>4, <1>5, <1>6, Closes

LEMMA StatusKeeps ==
  ASSUME IInv, Ghosts, NEW r \in Runs, Status(r)
  PROVE  IInv'
<1>1. /\ row[r] # "absent" /\ Reconciled(r) /\ up /\ request' = request /\ UNCHANGED calls
      /\ UNCHANGED <<ledger, signal, thread, worker, carry, tails, callback, requests, life>>
  BY DEF Status, calls
<1>2. CallsOK' BY <1>1, Parts DEF TypeOK, CallsOK, life
<1>3. QED BY <1>1, <1>2, ReportKeeps

LEMMA PauseReportsKeeps ==
  ASSUME IInv, Ghosts, NEW k \in Clients, PauseReports(k)
  PROVE  IInv'
<1> DEFINE r == request[k].run
<1>1. /\ InStage(k, "report") /\ Reconciled(r) /\ Done(k)
      /\ UNCHANGED <<ledger, signal, thread, worker, carry, tails, callback, requests, life>>
  BY DEF PauseReports
<1>2. r \in Runs BY <1>1, Served, Parts DEF InStage, IInv
<1>3. /\ request'[k] = NoRequest /\ \A j \in Clients \ {k} : request'[j] = request[j]
      /\ CallsOK'
  BY <1>1, IsDone DEF IInv
<1>4. request[k] # NoRequest BY <1>1 DEF InStage, NoRequest
<1>5. up /\ row[r] # "absent" BY <1>2, <1>4, Parts DEF Down, AbsentOK, For
<1>6. QED BY <1>1, <1>2, <1>3, <1>5, ReportKeeps DEF For

\* A request comes in or goes on, and the pause file may be written or cleared with it.
LEMMA CallKeeps ==
  ASSUME IInv, Ghosts, NEW k \in Clients, NEW r \in Runs, row[r] # "absent", up,
         UNCHANGED <<registry, thread, process, life>>, CallsOK',
         request[k] = NoRequest \/ (For(k, r) /\ ~InStage(k, "start")), For(k, r)',
         \A j \in Clients \ {k} : request'[j] = request[j],
         signal' \subseteq Runs, \A q \in Runs \ {r} : q \in signal' <=> q \in signal,
         r \in promised' => r \in signal' /\ ~InStage(k, "clear")',
         request'[k].input # "none" => Pending(r) \/ r \in asked,
         request'[k].stage \in {"resume", "poll", "clear"} => ~Early(r),
         request'[k].stage \notin {"check", "create", "cancel"}
  PROVE  IInv'
<1>1. /\ due' = due /\ asked' = asked /\ unlisted' = unlisted /\ nodes' = nodes
      /\ row' = row /\ finished' = finished /\ ledger' = ledger
      /\ tails' = tails /\ worker' = worker /\ carry' = carry
      /\ callback' = callback /\ timer' = timer /\ up' /\ crashes' = crashes
  BY DEF thread, life, registry, process
<1>2. \A j \in Clients, q \in Runs : q # r /\ (For(j, q) \/ For(j, q)') => j # k
  BY NoRequestOfNoRun DEF For
<1>3. Elsewhere(r) BY <1>1, <1>2 DEF Elsewhere, SameRun
<1>4. TypeOK' /\ NodesLeft'
  BY <1>1, Parts DEF TypeOK, RegistryOK, ThreadOK, ProcessOK, NodesLeft
<1>5. \A j \in Clients \ {k} : For(j, r)' <=> For(j, r) BY DEF For
<1>6. AbsentOK(r)' /\ RowOK(r)' /\ EndOK(r)'
  BY <1>1, Parts DEF AbsentOK, RowOK, EndOK, Open, Unfinished, Early
<1>7. AnswerOK(r)'
  <2>1. Pending(r)' => Pending(r) \/ r \in asked
    BY <1>1, <1>5 DEF Pending
  <2>2. QED BY <1>1, <2>1, Parts DEF AnswerOK
<1>8. PromiseOK(r)'
  <2> SUFFICES ASSUME r \in promised' PROVE PromiseOK(r)'
    BY DEF PromiseOK
  <2>1. \A j \in Clients :
          For(j, r)' /\ InStage(j, "clear")' => j # k /\ For(j, r) /\ InStage(j, "clear")
    BY <1>5 DEF InStage
  <2>2. \A j \in Clients : ~(For(j, r) /\ InStage(j, "clear"))
    BY Parts DEF PromiseOK, Ghosts, Promises, Resuming, For, InStage
  <2>3. QED BY <2>1, <2>2 DEF PromiseOK, Ghosts, Promises
<1>10. TimerOK(r)' BY <1>1, Parts DEF TimerOK, Unfinished, MachineWait, Interrupt
<1>11. CancelOK(r)'
  <2> SUFFICES ASSUME NEW j \in Clients, For(j, r)'
               PROVE  /\ request'[j].stage \in {"resume", "poll", "clear", "cancel"} => ~Early(r)'
                      /\ InStage(j, "cancel")' =>
                           \/ worker'[r] # "idle" \/ tails'[r] > 0
                           \/ r \in finished' \/ j \in rearmed'
    BY DEF CancelOK
  <2>1. CASE j = k BY <1>1, <2>1 DEF InStage, Early
  <2>2. CASE j # k
    <3>1. For(j, r) /\ request'[j] = request[j] BY <1>5, <2>2
    <3>2. j \in rearmed /\ InStage(j, "cancel") => j \in rearmed'
      BY <3>1 DEF Ghosts, Rearms, InStage
    <3>3. QED BY <1>1, <3>1, <3>2, Parts DEF CancelOK, InStage, Early
  <2>3. QED BY <2>1, <2>2
<1>12. BeginOK(r)'
  <2>1. \A j \in Clients : For(j, r) /\ InStage(j, "start") => For(j, r)' /\ InStage(j, "start")'
    BY <1>5, NoRequestOfNoRun DEF InStage
  <2>2. QED BY <1>1, <2>1, Parts DEF BeginOK, Unfinished, Early
<1>13. AttendedOK(r)' BY DEF AttendedOK
<1>14. Local(r)'
  BY <1>6, <1>7, <1>8, <1>10, <1>11, <1>12, <1>13 DEF Local
<1>15. Open(r)' => Open(r) BY <1>1 DEF Open, Unfinished
<1>16. NoStart BY DEF NoStart, Starting
<1>17. QED BY <1>3, <1>4, <1>14, <1>15, <1>16, Closes

LEMMA ArriveWorks ==
  ASSUME TypeOK, NEW k \in Clients, NEW r \in Runs \cup {"none"}, NEW stage \in Stages,
         NEW input \in Inputs, Arrive(k, r, stage, input),
         r \in Runs <=> stage \notin {"none", "check", "create"}
  PROVE  /\ up /\ request[k] = NoRequest /\ CallsOK'
         /\ request'[k].stage = stage /\ request'[k].run = r /\ request'[k].input = input
         /\ \A j \in Clients \ {k} : request'[j] = request[j]
         /\ UNCHANGED <<registry, signal, thread, process, life>>
<1> DEFINE new == [stage |-> stage, run |-> r, input |-> input]
<1>1. /\ up /\ request[k] = NoRequest /\ request' = [request EXCEPT ![k] = new]
      /\ UNCHANGED <<registry, signal, thread, process, life>>
      /\ requests < MaxRequests /\ requests' = requests + 1
  BY DEF Arrive
<1>2. requests' \in 0..MaxRequests BY <1>1, Constants DEF TypeOK, CallsOK
<1>3. new \in [stage : Stages, run : Runs \cup {"none"}, input : Inputs] OBVIOUS
<1>4. /\ request' \in [Clients -> [stage : Stages, run : Runs \cup {"none"}, input : Inputs]]
      /\ request'[k] = new /\ \A j \in Clients \ {k} : request'[j] = request[j]
  BY <1>1, <1>3 DEF TypeOK, CallsOK
<1>5. \A j \in Clients :
        request'[j].run \in Runs <=> request'[j].stage \notin {"none", "check", "create"}
  BY <1>4 DEF TypeOK, CallsOK
<1>6. up' = up /\ crashes' = crashes BY <1>1 DEF life
<1>7. CallsOK' BY <1>2, <1>4, <1>5, <1>6 DEF TypeOK, CallsOK
<1>8. QED BY <1>1, <1>4, <1>7

LEMMA AnswersOK == Answers \subseteq Inputs /\ {"none", "resume"} \subseteq Inputs
BY DEF Inputs

LEMMA ArriveKeeps ==
  ASSUME IInv, Ghosts, NEW k \in Clients, NEW r \in Runs,
         PauseRequest(k, r) \/ ResumeRequest(k, r) \/ DecisionRequest(k, r)
  PROVE  IInv'
<1>1. \E stage \in {"write", "clear", "poll", "resume", "decide"}, input \in Inputs :
        /\ Arrive(k, r, stage, input) /\ row[r] # "absent"
        /\ input # "none" => r \in asked
        /\ stage \in {"resume", "poll", "clear"} => ~Early(r)
        /\ stage = "clear" => r \in asked /\ due[r] = "safe"
  <2>1. Interrupt(r) # "none" \/ MachineWait(r) => r \in asked BY DEF MachineWait, Interrupt
  <2>2. r \in asked \/ Executable(r) => row[r] # "absent" /\ ~Early(r)
    BY AskedNotEarly, Parts DEF AbsentOK, Early
  <2>3. CASE PauseRequest(k, r) BY <2>3, AnswersOK DEF PauseRequest
  <2>4. CASE ResumePause(k, r) BY <2>1, <2>2, <2>4, AnswersOK DEF ResumePause, Interrupt
  <2>5. CASE MachineWait(r) /\ Arrive(k, r, "poll", "resume") BY <2>1, <2>2, <2>5, AnswersOK
  <2>6. CASE Executable(r) /\ Arrive(k, r, "resume", "none") BY <2>2, <2>6, AnswersOK
  <2>7. CASE DecisionRequest(k, r) BY <2>1, <2>2, <2>7, AnswersOK DEF DecisionRequest
  <2>8. QED BY <2>3, <2>4, <2>5, <2>6, <2>7 DEF ResumeRequest
<1>2. PICK stage \in {"write", "clear", "poll", "resume", "decide"}, input \in Inputs :
        /\ Arrive(k, r, stage, input) /\ row[r] # "absent"
        /\ input # "none" => r \in asked
        /\ stage \in {"resume", "poll", "clear"} => ~Early(r)
        /\ stage = "clear" => r \in asked /\ due[r] = "safe"
  BY <1>1
<1>3. /\ up /\ request[k] = NoRequest /\ CallsOK'
      /\ request'[k].stage = stage /\ request'[k].run = r /\ request'[k].input = input
      /\ \A j \in Clients \ {k} : request'[j] = request[j]
      /\ UNCHANGED <<registry, signal, thread, process, life>>
  BY <1>2, ArriveWorks, Parts DEF Stages
<1>4. r \in promised' => r \in signal' /\ ~InStage(k, "clear")'
  BY <1>2, <1>3, Parts DEF Ghosts, Promises, PromiseOK, thread, InStage
<1>5. signal' \subseteq Runs /\ \A q \in Runs \ {r} : q \in signal' <=> q \in signal
  BY <1>3, Parts DEF TypeOK, RegistryOK
<1>6. For(k, r)' BY <1>3 DEF For
<1>7. UNCHANGED <<registry, thread, process, life>> BY <1>3
<1>8. QED BY <1>2, <1>3, <1>4, <1>5, <1>6, <1>7, CallKeeps

\* The two looks of start_run.
LEMMA LookKeeps ==
  ASSUME IInv, Ghosts, NEW k \in Clients, up,
         UNCHANGED <<registry, signal, thread, process, life>>, CallsOK',
         request[k].run \notin Runs, request'[k].run \notin Runs,
         \A j \in Clients \ {k} : request'[j] = request[j],
         Starting(k)' => k \in disturbed' \/ \A r \in Runs : ~BlockedByWait(r),
         InStage(k, "create")' => \A r \in Runs : ~BlockedByRun(r)
  PROVE  IInv'
<1>1. /\ due' = due /\ asked' = asked /\ unlisted' = unlisted /\ nodes' = nodes
      /\ row' = row /\ finished' = finished /\ ledger' = ledger /\ signal' = signal
      /\ tails' = tails /\ worker' = worker /\ carry' = carry
      /\ callback' = callback /\ timer' = timer /\ up' /\ crashes' = crashes
  BY DEF thread, life, registry, process
<1>2. \A q \in Runs : SameRun(q) BY <1>1 DEF SameRun, For
<1>3. \A q \in Runs : Local(q)' BY <1>1, <1>2, LocalElsewhere
<1>4. TypeOK' /\ NodesLeft' /\ Down'
  BY <1>1, Parts DEF TypeOK, RegistryOK, ThreadOK, ProcessOK, NodesLeft, Down, IInv
<1>5. promised' \subseteq Runs BY DEF Ghosts, Promises
<1>6. Alone' BY <1>1 DEF IInv, Alone, Ghosts, Disturbs, Open, Unfinished
<1>7. Undisturbed'
  <2> SUFFICES ASSUME NEW j \in Clients, Starting(j)', j \notin disturbed', NEW r \in Runs
               PROVE  /\ ~BlockedByWait(r) /\ (InStage(j, "create")' => ~BlockedByRun(r))
    BY <1>1 DEF Undisturbed, BlockedByWait, BlockedByRun
  <2>1. CASE j = k BY <2>1
  <2>2. CASE j # k
    <3>1. Starting(j) /\ request'[j] = request[j] BY <2>2 DEF Starting
    <3>2. j \notin disturbed BY <3>1 DEF Ghosts, Disturbs, Starting
    <3>3. QED BY <3>1, <3>2 DEF IInv, Undisturbed, InStage
  <2>3. QED BY <2>1, <2>2
<1>8. QED BY <1>3, <1>4, <1>5, <1>6, <1>7 DEF IInv

LEMMA StartKeeps ==
  ASSUME IInv, Ghosts, NEW k \in Clients, StartRequest(k) \/ StartChecks(k)
  PROVE  IInv'
<1> USE Constants
<1>1. CASE StartRequest(k)
  <2>1. Arrive(k, "none", "check", "none") /\ \A r \in Runs : ~BlockedByWait(r)
    BY <1>1 DEF StartRequest
  <2>2. /\ up /\ request[k] = NoRequest /\ CallsOK'
        /\ request'[k].stage = "check" /\ request'[k].run = "none"
        /\ \A j \in Clients \ {k} : request'[j] = request[j]
        /\ UNCHANGED <<registry, signal, thread, process, life>>
    BY <2>1, ArriveWorks DEF IInv, Stages, Inputs
  <2>3. request[k].run \notin Runs BY <2>2 DEF NoRequest
  <2>4. ~InStage(k, "create")' BY <2>2 DEF InStage
  <2>5. UNCHANGED <<registry, signal, thread, process, life>> BY <2>2
  <2>6. QED BY <2>1, <2>2, <2>3, <2>4, <2>5, LookKeeps
<1>2. CASE StartChecks(k)
  <2>1. /\ request[k].stage = "check" /\ UNCHANGED <<registry, signal, thread, process, life>>
        /\ requests' = requests /\ UNCHANGED life
    BY <1>2 DEF StartChecks, InStage
  <2>2. request[k].run \notin Runs /\ Starting(k) BY <2>1 DEF IInv, TypeOK, CallsOK, Starting
  <2>3. up BY <2>1 DEF IInv, Down, NoRequest
  <2>4. /\ CallsOK' /\ request'[k].run \notin Runs
        /\ \A j \in Clients \ {k} : request'[j] = request[j]
        /\ request'[k].stage \in {"none", "create"}
        /\ InStage(k, "create")' => \A r \in Runs : ~BlockedByRun(r)
    <3>1. CASE Done(k) /\ \E q \in Runs : BlockedByRun(q)
      BY <2>1, <3>1, IsDone DEF IInv, NoRequest, InStage
    <3>2. CASE Goto(k, "create") /\ \A q \in Runs : ~BlockedByRun(q)
      BY <2>1, <2>2, <3>2, Moves DEF IInv, InStage, Stages
    <3>3. QED BY <1>2, <3>1, <3>2 DEF StartChecks
  <2>5. Starting(k)' => k \in disturbed' \/ \A r \in Runs : ~BlockedByWait(r)
    BY <2>2, <2>4 DEF IInv, Undisturbed, Ghosts, Disturbs, Starting
  <2>6. QED BY <2>1, <2>2, <2>3, <2>4, <2>5, LookKeeps
<1>3. QED BY <1>1, <1>2

LEMMA StartCreatesKeeps ==
  ASSUME IInv, Ghosts, NEW k \in Clients, StartCreates(k)
  PROVE  IInv'
<1> USE Constants
<1>1. PICK r \in Runs : r = NewRun /\ row[r] = "absent" BY NewRunAbsent DEF StartCreates
<1>2. /\ request[k].stage = "create" /\ row' = [row EXCEPT ![r] = "queued"]
      /\ request' = [request EXCEPT ![k] = [stage |-> "start", run |-> r, input |-> "none"]]
      /\ UNCHANGED <<finished, ledger, signal, thread, process, requests, life>>
  BY <1>1 DEF StartCreates, InStage, SetRow
<1>3. /\ due' = due /\ asked' = asked /\ unlisted' = unlisted /\ nodes' = nodes
      /\ finished' = finished /\ ledger' = ledger /\ signal' = signal
      /\ tails' = tails /\ worker' = worker /\ carry' = carry /\ requests' = requests
      /\ callback' = callback /\ timer' = timer /\ up' = up /\ crashes' = crashes
  BY <1>2 DEF thread, life, process
<1>4. /\ row' \in [Runs -> Statuses] /\ row'[r] = "queued"
      /\ \A q \in Runs \ {r} : row'[q] = row[q]
  BY <1>2, Parts DEF TypeOK, RegistryOK, Statuses, Active
<1>5. /\ request' \in [Clients -> [stage : Stages, run : Runs \cup {"none"}, input : Inputs]]
      /\ request'[k] = [stage |-> "start", run |-> r, input |-> "none"]
      /\ \A j \in Clients \ {k} : request'[j] = request[j]
  <2>1. [stage |-> "start", run |-> r, input |-> "none"]
          \in [stage : Stages, run : Runs \cup {"none"}, input : Inputs]
    BY DEF Stages, Inputs
  <2>2. QED BY <1>2, <2>1 DEF IInv, TypeOK, CallsOK
<1>6. request'[k].stage = "start" /\ request'[k].run = r /\ request'[k].input = "none"
  BY <1>5
<1>7. up /\ up' /\ request[k].run \notin Runs
  BY <1>2, <1>3 DEF IInv, Down, NoRequest, TypeOK, CallsOK
<1>8. TypeOK' /\ NodesLeft'
  <2>1. CallsOK' BY <1>3, <1>5, <1>6 DEF IInv, TypeOK, CallsOK
  <2>2. QED BY <1>3, <1>4, <2>1, Parts DEF TypeOK, RegistryOK, ThreadOK, ProcessOK, NodesLeft
<1>9. /\ r \notin finished /\ due[r] = "none" /\ worker[r] = "idle" /\ tails[r] = 0
      /\ timer[r] = "off" /\ callback[r] = NoCall /\ \A j \in Clients : ~For(j, r)
  BY <1>1, Parts DEF AbsentOK
<1>10. For(k, r)' /\ \A j \in Clients : For(j, r)' => j = k
  BY <1>5, <1>6, <1>9 DEF For
<1>11. r \notin asked BY <1>9, AskedNotEarly, Parts DEF Early
<1>12. Local(r)'
  <2>1. AbsentOK(r)' BY <1>4 DEF AbsentOK
  <2>2. RowOK(r)' BY <1>4 DEF RowOK, Active, Precheckpoint
  <2>3. EndOK(r)' BY <1>3, <1>9 DEF EndOK
  <2>4. AnswerOK(r)'
    <3>1. ~Pending(r)' BY <1>3, <1>6, <1>9, <1>10 DEF Pending, NoCall, For
    <3>2. QED BY <1>3, <1>9, <3>1 DEF AnswerOK
  <2>5. PromiseOK(r)'
    BY <1>3, <1>6, <1>10, Parts DEF PromiseOK, Ghosts, Promises, InStage
  <2>6. TimerOK(r)' BY <1>3, <1>9 DEF TimerOK
  <2>7. CancelOK(r)' BY <1>6, <1>10 DEF CancelOK, InStage
  <2>8. BeginOK(r)' /\ AttendedOK(r)' BY <1>6, <1>10 DEF BeginOK, AttendedOK, InStage
  <2>9. QED BY <2>1, <2>2, <2>3, <2>4, <2>5, <2>6, <2>7, <2>8 DEF Local
<1>13. \A q \in Runs : Local(q)'
  <2> TAKE q \in Runs
  <2>1. CASE q = r BY <1>12, <2>1
  <2>2. CASE q # r
    <3>1. SameRun(q) BY <1>3, <1>4, <1>5, <1>6, <1>7, <2>2 DEF SameRun, For
    <3>2. QED BY <1>7, <3>1, LocalElsewhere
  <2>3. QED BY <2>1, <2>2
<1>14. Undisturbed'
  <2>1. row' # row BY <1>1, <1>4
  <2>2. \A j \in Clients : Starting(j)' => Starting(j) BY <1>5, <1>6 DEF Starting
  <2>3. QED BY <2>1, <2>2 DEF Undisturbed, Ghosts, Disturbs, Starting
<1>15. Alone'
  <2> SUFFICES ASSUME ~hurried' PROVE \A p, q \in Runs : Open(p)' /\ Open(q)' => p = q
    BY DEF Alone
  <2>1. k \notin disturbed BY <1>2, <1>6 DEF Ghosts, Disturbs, InStage
  <2>2. \A q \in Runs : ~BlockedByWait(q) /\ ~BlockedByRun(q)
    BY <1>2, <2>1 DEF IInv, Undisturbed, Starting, InStage
  <2>3. \A q \in Runs : ~Open(q)
    BY <2>2, Parts DEF RowOK, BlockedByWait, BlockedByRun, Open, Unfinished
  <2>4. QED BY <1>3, <1>4, <2>3 DEF Open, Unfinished
<1>16. QED BY <1>7, <1>8, <1>13, <1>14, <1>15 DEF IInv, Down, Ghosts, Promises

LEMMA PauseWritesKeeps ==
  ASSUME IInv, Ghosts, NEW k \in Clients, PauseWrites(k)
  PROVE  IInv'
<1>0. PICK r \in Runs : r = request[k].run BY Served DEF IInv, PauseWrites, InStage
<1>1. /\ request[k].stage = "write" /\ signal' = signal \cup {r} /\ Goto(k, "mark")
      /\ UNCHANGED <<registry, thread, process, life>> /\ requests' = requests
      /\ UNCHANGED life
  BY <1>0 DEF PauseWrites, InStage
<1>2. r \in Runs OBVIOUS
<1>3. /\ request'[k].stage = "mark" /\ request'[k].run = r
      /\ request'[k].input = request[k].input /\ CallsOK'
      /\ \A j \in Clients \ {k} : request'[j] = request[j]
  BY <1>0, <1>1, <1>2, Moves DEF IInv, Stages
<1>4. up /\ row[r] # "absent" /\ For(k, r) /\ For(k, r)'
  BY <1>0, <1>1, <1>2, <1>3, Parts DEF Down, AbsentOK, For, NoRequest
<1>5. /\ signal' \subseteq Runs /\ r \in signal'
      /\ \A q \in Runs \ {r} : q \in signal' <=> q \in signal
  BY <1>1, <1>2 DEF IInv, TypeOK, RegistryOK
<1>6. /\ ~InStage(k, "start") /\ ~InStage(k, "clear")'
      /\ request'[k].input # "none" => Pending(r)
  BY <1>0, <1>1, <1>3 DEF InStage, Pending
<1>7. QED BY <1>0, <1>1, <1>2, <1>3, <1>4, <1>5, <1>6, CallKeeps

LEMMA ResumeClearsKeeps ==
  ASSUME IInv, Ghosts, NEW k \in Clients, ResumeClears(k)
  PROVE  IInv'
<1>0. PICK r \in Runs : r = request[k].run BY Served DEF IInv, ResumeClears, InStage
<1>1. /\ request[k].stage = "clear" /\ signal' = signal \ {r} /\ Goto(k, "resume")
      /\ UNCHANGED <<registry, thread, process, life>> /\ requests' = requests
      /\ UNCHANGED life
  BY <1>0 DEF ResumeClears, InStage
<1>2. r \in Runs OBVIOUS
<1>3. /\ request'[k].stage = "resume" /\ request'[k].run = r
      /\ request'[k].input = request[k].input /\ CallsOK'
      /\ \A j \in Clients \ {k} : request'[j] = request[j]
  BY <1>0, <1>1, <1>2, Moves DEF IInv, Stages
<1>4. up /\ row[r] # "absent" /\ For(k, r) /\ For(k, r)'
  BY <1>0, <1>1, <1>2, <1>3, Parts DEF Down, AbsentOK, For, NoRequest
<1>5. /\ signal' \subseteq Runs /\ \A q \in Runs \ {r} : q \in signal' <=> q \in signal
  BY <1>1 DEF IInv, TypeOK, RegistryOK
<1>6. r \notin promised'
  BY <1>0, <1>1, <1>2, <1>4, Parts DEF PromiseOK, InStage, Ghosts, Promises
<1>7. /\ ~InStage(k, "start") /\ ~Early(r)
      /\ request'[k].input # "none" => Pending(r)
  BY <1>0, <1>1, <1>2, <1>3, <1>4, Parts DEF InStage, Pending, CancelOK
<1>8. QED BY <1>1, <1>2, <1>3, <1>4, <1>5, <1>6, <1>7, CallKeeps

LEMMA PauseMarksKeeps ==
  ASSUME IInv, Ghosts, NEW k \in Clients, PauseMarks(k)
  PROVE  IInv'
<1>0. PICK r \in Runs : r = request[k].run BY Served DEF IInv, PauseMarks, InStage
<1>1. /\ request[k].stage = "mark" /\ SetRow(r, "pause_requested") /\ Goto(k, "report")
      /\ requests' = requests /\ UNCHANGED life
      /\ UNCHANGED <<finished, ledger, signal, thread, process>>
  BY <1>0 DEF PauseMarks, InStage
<1>2. r \in Runs OBVIOUS
<1>3. /\ request'[k].stage = "report" /\ request'[k].run = r
      /\ request'[k].input = request[k].input /\ CallsOK'
      /\ \A j \in Clients \ {k} : request'[j] = request[j]
  BY <1>0, <1>1, <1>2, Moves DEF IInv, Stages
<1>4. /\ row' \in [Runs -> Statuses] /\ row'[r] = "pause_requested"
      /\ \A q \in Runs \ {r} : row'[q] = row[q]
  BY <1>0, <1>1, <1>2, RowSet DEF IInv, Statuses, Active
<1>5. /\ due' = due /\ asked' = asked /\ unlisted' = unlisted /\ nodes' = nodes
      /\ finished' = finished /\ ledger' = ledger /\ signal' = signal
      /\ tails' = tails /\ worker' = worker /\ carry' = carry
      /\ callback' = callback /\ timer' = timer /\ up' = up
  BY <1>1 DEF thread, life, process
<1>6. up /\ up' /\ row[r] # "absent" /\ For(k, r) /\ For(k, r)'
  BY <1>0, <1>1, <1>2, <1>3, <1>5, Parts DEF Down, AbsentOK, For, NoRequest
<1>7. Elsewhere(r) BY <1>0, <1>3, <1>4, <1>5, <1>6 DEF Elsewhere, SameRun, For
<1>8. TypeOK' /\ NodesLeft'
  BY <1>3, <1>4, <1>5, Parts DEF TypeOK, RegistryOK, ThreadOK, ProcessOK, NodesLeft
<1>9. \A j \in Clients : (For(j, r)' <=> For(j, r)) /\ request'[j].input = request[j].input
  BY <1>0, <1>3 DEF For
<1>10. Local(r)'
  <2>1. AbsentOK(r)' BY <1>4 DEF AbsentOK
  <2>2. RowOK(r)' BY <1>4 DEF RowOK, Active, Precheckpoint
  <2>3. EndOK(r)' BY <1>2, <1>5, Parts DEF EndOK, Early
  <2>4. AnswerOK(r)'
    <3>1. Pending(r)' => Pending(r) BY <1>5, <1>9 DEF Pending, For
    <3>2. QED BY <1>2, <1>5, <3>1, Parts DEF AnswerOK
  <2>5. PromiseOK(r)'
    BY <1>2, <1>3, <1>5, <1>9, Parts DEF PromiseOK, Ghosts, Promises, InStage
  <2>7. TimerOK(r)'
    BY <1>2, <1>5, <1>6, Parts DEF TimerOK, Unfinished, MachineWait, Interrupt
  <2>8. CancelOK(r)'
    <3>1. \A j \in Clients : InStage(j, "cancel")' /\ j \in rearmed => j \in rearmed'
      BY <1>1, <1>3 DEF Ghosts, Rearms, InStage
    <3>2. \A j \in Clients : j # k => request'[j] = request[j] BY <1>3
    <3>3. QED BY <1>2, <1>3, <1>5, <1>9, <3>1, <3>2, Parts DEF CancelOK, InStage, Early
  <2>9. BeginOK(r)'
    <3>1. \A j \in Clients : For(j, r) /\ InStage(j, "start") => For(j, r)' /\ InStage(j, "start")'
      BY <1>1, <1>3, <1>9 DEF InStage
    <3>2. QED BY <1>2, <1>5, <1>6, <3>1, Parts DEF BeginOK, Unfinished, Early
  <2>10. AttendedOK(r)' BY <1>6 DEF AttendedOK
  <2>11. QED
    BY <2>1, <2>2, <2>3, <2>4, <2>5, <2>7, <2>8, <2>9, <2>10 DEF Local
<1>11. Open(r)' => Open(r) BY <1>5, <1>6 DEF Open, Unfinished
<1>12. NoStart BY <1>3 DEF NoStart, Starting
<1>13. QED BY <1>2, <1>7, <1>8, <1>10, <1>11, <1>12, Closes

LEMMA SubmitsKeeps ==
  ASSUME IInv, Ghosts, NEW k \in Clients, Submits(k)
  PROVE  IInv'
<1>0. PICK r \in Runs, input \in Inputs : r = request[k].run /\ input = request[k].input
  BY Served DEF IInv, Submits, InStage
<1>1. /\ request[k].stage \in {"start", "resume", "poll", "decide"}
      /\ Submit(r, input) \/ Refused(r)
      /\ requests' = requests /\ UNCHANGED life
      /\ signal' = signal /\ UNCHANGED thread /\ tails' = tails /\ callback' = callback
  BY <1>0 DEF Submits
<1>2. r \in Runs /\ input \in Inputs OBVIOUS
<1>3. up /\ up' /\ row[r] # "absent" /\ For(k, r)
  BY <1>0, <1>1, <1>2, Parts DEF Down, AbsentOK, For, NoRequest, life
<1>4. /\ Offered(r, input) /\ row' \in [Runs -> Statuses] /\ finished' \subseteq Runs
      /\ ledger' \subseteq Runs /\ worker' \in [Runs -> WorkerStates]
      /\ carry' \in [Runs -> Inputs]
  BY <1>0, <1>1, <1>2, <1>3, Submitted, Parts
<1>5. timer' = timer \/ (MachineWait(r) /\ Arm(r, due[r])) BY <1>0 DEF Submits
<1>6. timer' \in [Runs -> Timers] /\ \A q \in Runs \ {r} : timer'[q] = timer[q]
  <2>1. CASE timer' = timer BY <1>0, <1>2, <2>1, Parts DEF TypeOK, ProcessOK
  <2>2. CASE MachineWait(r) /\ Arm(r, due[r])
    <3>1. due[r] \in Timers BY <1>2, <2>2, AskedNotEarly, Parts DEF Timers
    <3>2. QED BY <1>2, <2>2, <3>1, Armed, Parts
  <2>3. QED BY <1>0, <1>5, <2>1, <2>2
<1>7. /\ CallsOK' /\ \A j \in Clients \ {k} : request'[j] = request[j]
      /\ \/ request'[k] = NoRequest
         \/ /\ request'[k].stage = "cancel" /\ request'[k].run = r /\ request'[k].input = input
            /\ request[k].stage \in {"resume", "poll"}
  <2>1. CASE Goto(k, "cancel") /\ request[k].stage \in {"resume", "poll"}
    BY <1>0, <1>1, <1>2, <2>1, Moves DEF IInv, Stages
  <2>2. CASE Done(k) BY <1>0, <1>1, <2>2, IsDone DEF IInv
  <2>3. QED BY <2>1, <2>2 DEF Submits
<1>8. Elsewhere(r)
  <2>1. \A j \in Clients, q \in Runs \ {r} : For(j, q) \/ For(j, q)' => request'[j] = request[j]
    BY <1>3, <1>7, Constants DEF For, NoRequest
  <2>2. QED
    BY <1>1, <1>2, <1>3, <1>4, <1>6, <2>1 DEF Elsewhere, SameRun, Offered, thread
<1>9. TypeOK' /\ NodesLeft'
  BY <1>1, <1>2, <1>4, <1>6, <1>7, Parts
  DEF TypeOK, RegistryOK, ThreadOK, ProcessOK, NodesLeft, thread
<1>10. Local(r)' /\ (Open(r)' => Open(r))
  <2>1. input # "none" => Pending(r) BY <1>0, <1>3 DEF Pending, For
  <2>2. \A j \in Clients : For(j, r)' =>
          \/ request'[j] = request[j]
          \/ /\ request'[j].stage = "cancel" /\ request'[j].input = request[j].input
             /\ ~Early(r) /\ (worker'[r] # "idle" \/ r \in finished')
    <3>1. worker'[r] # "idle" \/ r \in finished' BY <1>4 DEF Offered
    <3>2. request[k].stage \in {"resume", "poll"} => ~Early(r)
      BY <1>2, <1>3, Parts DEF CancelOK
    <3>3. QED BY <1>0, <1>2, <1>7, <3>1, <3>2, Constants DEF For, NoRequest
  <2>3. Pending(r)' => Pending(r)
    <3>1. \A j \in Clients : For(j, r)' => For(j, r) /\ request'[j].input = request[j].input
      BY <1>0, <1>2, <1>3, <1>7, Constants DEF For, NoRequest
    <3>2. QED BY <1>1, <3>1 DEF Pending, For
  <2>4. UNCHANGED <<thread, signal, tails>> BY <1>1
  <2>5. QED BY <1>1, <1>2, <1>3, <1>4, <2>1, <2>2, <2>3, <2>4, OfferedKeeps
<1>11. NoStart BY <1>7 DEF NoStart, Starting, NoRequest
<1>12. QED BY <1>2, <1>8, <1>9, <1>10, <1>11, Closes

LEMMA CancelsKeeps ==
  ASSUME IInv, Ghosts, NEW k \in Clients, Cancels(k)
  PROVE  IInv'
<1>0. PICK r \in Runs : r = request[k].run BY Served DEF IInv, Cancels, InStage
<1>1. /\ InStage(k, "cancel") /\ request[k].stage = "cancel" /\ Arm(r, "off") /\ Done(k)
      /\ requests' = requests /\ UNCHANGED life
      /\ UNCHANGED <<registry, signal, thread, worker, carry, tails, callback>>
  BY <1>0 DEF Cancels, InStage
<1>2. r \in Runs OBVIOUS
<1>3. /\ request'[k] = NoRequest /\ CallsOK'
      /\ \A j \in Clients \ {k} : request'[j] = request[j]
  BY <1>0, <1>1, IsDone DEF IInv
<1>4. /\ timer' \in [Runs -> Timers] /\ timer'[r] = "off"
      /\ \A q \in Runs \ {r} : timer'[q] = timer[q]
  BY <1>0, <1>1, <1>2, Armed DEF IInv, Timers
<1>5. /\ due' = due /\ asked' = asked /\ unlisted' = unlisted /\ nodes' = nodes
      /\ row' = row /\ finished' = finished /\ ledger' = ledger /\ signal' = signal
      /\ tails' = tails /\ worker' = worker /\ carry' = carry
      /\ callback' = callback /\ up' = up
  BY <1>1 DEF thread, life, registry
<1>6. up /\ up' /\ row[r] # "absent" /\ For(k, r)
  BY <1>0, <1>1, <1>2, <1>5, Parts DEF Down, AbsentOK, For, NoRequest
<1>7. /\ \A j \in Clients, q \in Runs : For(j, q)' => j # k /\ For(j, q) /\ request'[j] = request[j]
      /\ \A j \in Clients, q \in Runs : For(j, q) /\ q # r => request'[j] = request[j]
  BY <1>0, <1>2, <1>3, <1>6, Constants DEF For, NoRequest
<1>8. Elsewhere(r) BY <1>4, <1>5, <1>6, <1>7 DEF Elsewhere, SameRun
<1>9. TypeOK' /\ NodesLeft'
  BY <1>2, <1>3, <1>4, <1>5, Parts DEF TypeOK, RegistryOK, ThreadOK, ProcessOK, NodesLeft
<1>10. /\ ~Early(r)
       /\ worker[r] # "idle" \/ tails[r] > 0 \/ r \in finished \/ k \in rearmed
  BY <1>1, <1>2, <1>6, Parts DEF CancelOK
<1>11. Local(r)'
  <2>1. AbsentOK(r)' BY <1>5, <1>6 DEF AbsentOK
  <2>2. RowOK(r)' /\ EndOK(r)'
    BY <1>2, <1>5, Parts DEF RowOK, EndOK, Early, Open, Unfinished
  <2>3. AnswerOK(r)'
    <3>1. Pending(r)' => Pending(r) BY <1>2, <1>5, <1>7 DEF Pending, For
    <3>2. QED BY <1>2, <1>5, <3>1, Parts DEF AnswerOK
  <2>4. PromiseOK(r)'
    BY <1>2, <1>5, <1>7, Parts DEF PromiseOK, Ghosts, Promises, InStage
  <2>6. TimerOK(r)' BY <1>4 DEF TimerOK
  <2>7. CancelOK(r)'
    <3>1. \A j \in Clients : For(j, r)' /\ InStage(j, "cancel")' /\ j \in rearmed => j \in rearmed'
      BY <1>2, <1>7 DEF Ghosts, Rearms, InStage
    <3>2. QED BY <1>2, <1>5, <1>7, <3>1, Parts DEF CancelOK, InStage, Early
  <2>8. BeginOK(r)' BY <1>5, <1>10 DEF BeginOK, Early
  <2>9. AttendedOK(r)'
    <3>1. k \in rearmed => r \in disarmed'
      BY <1>0, <1>1, <1>2, <1>3, <1>4 DEF Ghosts, Rearms
    <3>2. QED BY <1>5, <1>10, <3>1 DEF AttendedOK, Unfinished
  <2>10. QED
    BY <2>1, <2>2, <2>3, <2>4, <2>6, <2>7, <2>8, <2>9 DEF Local
<1>12. Open(r)' => Open(r) BY <1>5 DEF Open, Unfinished
<1>13. NoStart BY <1>3 DEF NoStart, Starting, NoRequest
<1>14. QED BY <1>2, <1>8, <1>9, <1>11, <1>12, <1>13, Closes

-----------------------------------------------------------------------------
(* The process dies and comes back.                                            *)
LEMMA CrashKeeps ==
  ASSUME IInv, Ghosts, Crash
  PROVE  IInv'
<1> USE Constants
<1>1. /\ ~up' /\ crashes < MaxCrashes /\ crashes' = crashes + 1
      /\ row' = row /\ finished' = finished /\ ledger' = ledger /\ signal' = signal
      /\ due' = due /\ asked' = asked /\ unlisted' = unlisted /\ nodes' = nodes
      /\ requests' = requests /\ up' = FALSE
      /\ worker' = [r \in Runs |-> "idle"] /\ carry' = [r \in Runs |-> "none"]
      /\ tails' = [r \in Runs |-> 0] /\ timer' = [r \in Runs |-> "off"]
      /\ callback' = [r \in Runs |-> NoCall] /\ request' = [k \in Clients |-> NoRequest]
  BY DEF Crash, registry, thread
<1>2. /\ \A r \in Runs : /\ worker'[r] = "idle" /\ carry'[r] = "none" /\ tails'[r] = 0
                         /\ timer'[r] = "off" /\ callback'[r] = NoCall
                         /\ \A k \in Clients : ~For(k, r)'
      /\ \A k \in Clients : request'[k] = NoRequest /\ ~Starting(k)'
  BY <1>1 DEF For, Starting, NoRequest
<1>3. TypeOK' /\ NodesLeft'
  <2>1. RegistryOK' /\ ThreadOK' /\ NodesLeft'
    BY <1>1 DEF IInv, TypeOK, RegistryOK, ThreadOK, NodesLeft
  <2>2. ProcessOK'
    <3>1. NoCall \in Calls /\ 0 \in 0..MaxTails BY DEF NoCall, Calls
    <3>2. QED BY <1>1, <3>1 DEF ProcessOK, WorkerStates, Timers, Inputs
  <2>3. CallsOK'
    <3>1. NoRequest \in [stage : Stages, run : Runs \cup {"none"}, input : Inputs]
      BY DEF NoRequest, Stages, Inputs
    <3>2. crashes' \in 0..MaxCrashes BY <1>1 DEF IInv, TypeOK, CallsOK
    <3>3. QED BY <1>1, <3>1, <3>2 DEF IInv, TypeOK, CallsOK, NoRequest
  <2>4. QED BY <2>1, <2>2, <2>3 DEF TypeOK
<1>4. ASSUME NEW r \in Runs PROVE Local(r)'
  <2>1. AbsentOK(r)' /\ RowOK(r)'
    BY <1>1, <1>2, Parts DEF AbsentOK, RowOK, Open, Unfinished, Early
  <2>2. EndOK(r)' /\ TimerOK(r)'
    BY <1>2 DEF EndOK, TimerOK
  <2>3. AnswerOK(r)'
    <3>1. ~Pending(r)' BY <1>2 DEF Pending, For, NoCall
    <3>2. QED BY <1>2, <3>1 DEF AnswerOK
  <2>4. PromiseOK(r)' BY <1>1, <1>2, Parts DEF PromiseOK, Ghosts, Promises
  <2>5. CancelOK(r)' /\ BeginOK(r)' /\ AttendedOK(r)'
    BY <1>1, <1>2 DEF CancelOK, BeginOK, AttendedOK
  <2>6. QED BY <2>1, <2>2, <2>3, <2>4, <2>5 DEF Local
<1>5. Undisturbed' BY <1>2 DEF Undisturbed
<1>6. Alone' BY <1>1 DEF IInv, Alone, Ghosts, Disturbs, Open, Unfinished
<1>7. Down' BY <1>1, <1>2 DEF Down
<1>8. QED BY <1>3, <1>4, <1>5, <1>6, <1>7 DEF IInv, Ghosts, Promises

LEMMA RestartKeeps ==
  ASSUME IInv, Ghosts, Restart
  PROVE  IInv'
<1> USE Constants
<1>1. /\ ~up /\ up' = TRUE /\ ledger' = ledger /\ signal' = signal
      /\ due' = due /\ asked' = asked /\ unlisted' = unlisted /\ nodes' = nodes
      /\ worker' = worker /\ carry' = carry /\ tails' = tails /\ callback' = callback
      /\ request' = request /\ requests' = requests /\ crashes' = crashes
      /\ finished' = finished \cup {r \in Runs : Unfinished(r) /\ Terminal(r)}
      /\ timer' = [r \in Runs |-> RestoredTimer(r)]
      /\ row' = [r \in Runs |->
           IF Unfinished(r) /\ MachineWait(r) THEN WaitRow(r)
           ELSE IF Unfinished(r) /\ Terminal(r) THEN "ended"
           ELSE IF Restorable(r) THEN "recoverable" ELSE row[r]]
  BY DEF Restart, thread, calls
<1>2. /\ \A r \in Runs : /\ worker'[r] = "idle" /\ tails'[r] = 0 /\ callback'[r] = NoCall
                         /\ \A k \in Clients : ~For(k, r)'
      /\ \A k \in Clients : request'[k] = NoRequest /\ ~Starting(k)'
  BY <1>1 DEF IInv, Down, For, Starting, NoRequest
<1>3. \A r \in Runs :
        /\ WaitRow(r) \in Waiting \cap Statuses /\ RestoredTimer(r) \in Timers
        /\ row[r] \in Statuses /\ "recoverable" \in Active \cap Precheckpoint
        /\ {"recoverable", "ended"} \subseteq Statuses
        /\ Restorable(r) => Unfinished(r) /\ ~MachineWait(r) /\ ~Terminal(r)
  <2> TAKE r \in Runs
  <2>1. MachineWait(r) => due[r] \in {"ci", "review"} /\ r \in asked
    BY AskedNotEarly DEF IInv
  <2>2. RestoredTimer(r) \in Timers BY <2>1 DEF RestoredTimer, Timers
  <2>3. due[r] = "end" => ~Executable(r) /\ ~BeforeFirstNode(r)
    BY DEF Executable, BeforeFirstNode, NodeKinds
  <2>4. QED
    BY <2>1, <2>2, <2>3
    DEF IInv, TypeOK, RegistryOK, Restorable, Terminal, WaitRow, Waiting, Statuses, Active,
        Precheckpoint
<1>4. TypeOK' /\ NodesLeft'
  <2>1. row' \in [Runs -> Statuses] /\ timer' \in [Runs -> Timers]
    BY <1>1, <1>3
  <2>2. QED
    BY <1>1, <2>1 DEF IInv, TypeOK, RegistryOK, ThreadOK, ProcessOK, CallsOK, NodesLeft
<1>5. ASSUME NEW r \in Runs PROVE Local(r)' /\ (Open(r)' => Open(r))
  <2>1. /\ timer'[r] = RestoredTimer(r)
        /\ row'[r] = IF Unfinished(r) /\ MachineWait(r) THEN WaitRow(r)
                     ELSE IF Unfinished(r) /\ Terminal(r) THEN "ended"
                     ELSE IF Restorable(r) THEN "recoverable" ELSE row[r]
        /\ r \in finished' <=> r \in finished \/ (Unfinished(r) /\ Terminal(r))
    BY <1>1
  <2>2. /\ row'[r] = "absent" <=> row[r] = "absent"
        /\ Unfinished(r)' => Unfinished(r) /\ ~Terminal(r)
        /\ Restorable(r) => row[r] # "absent"
    BY <1>3, <2>1 DEF Unfinished, Waiting, Restorable
  <2>3. AbsentOK(r)'
    <3>1. row[r] = "absent" => ~Unfinished(r) /\ ~Restorable(r)
      BY <2>2 DEF Unfinished
    <3>2. QED BY <1>1, <1>2, <2>1, <2>2, <3>1, Parts DEF AbsentOK, RestoredTimer
  <2>4. Early(r)' <=> Early(r) BY <1>1 DEF Early
  <2>5. Unfinished(r)' /\ Early(r) => Restorable(r) /\ ~MachineWait(r)
    <3> SUFFICES ASSUME Unfinished(r)', Early(r) PROVE Restorable(r) /\ ~MachineWait(r)
      OBVIOUS
    <3>1. row[r] \in Precheckpoint
      BY <2>2, Parts DEF RowOK, Open, Early
    <3>2. QED BY <2>2, <3>1, AskedNotEarly, Parts DEF Restorable, BeforeFirstNode, Early
  <2>6. RowOK(r)'
    <3>1. ASSUME Open(r)'
          PROVE  row'[r] \in Active \cup Waiting /\ (Early(r)' => row'[r] \in Precheckpoint)
      <4>1. Open(r) /\ ~Terminal(r) BY <1>1, <2>2, <3>1 DEF Open
      <4>2. QED BY <1>3, <2>1, <2>4, <2>5, <3>1, <4>1, Parts DEF RowOK, Open
    <3>2. QED BY <3>1 DEF RowOK
  <2>7. EndOK(r)' BY <1>2 DEF EndOK
  <2>8. AnswerOK(r)'
    <3>1. ~Pending(r)' BY <1>2 DEF Pending, For, NoCall
    <3>2. QED BY <1>2, <3>1 DEF AnswerOK
  <2>9. PromiseOK(r)' BY <1>1, <1>2, Parts DEF PromiseOK, Ghosts, Promises
  <2>10. TimerOK(r)'
    <3>1. MachineWait(r)' <=> MachineWait(r) BY <1>1 DEF MachineWait, Interrupt
    <3>2. QED BY <1>1, <2>1, <2>2, <3>1 DEF TimerOK, RestoredTimer
  <2>11. CancelOK(r)' BY <1>2 DEF CancelOK
  <2>12. BeginOK(r)'
    BY <2>1, <2>4, <2>5 DEF BeginOK, RestoredTimer
  <2>13. AttendedOK(r)'
    <3> SUFFICES ASSUME Unfinished(r)', MachineWork(r)' PROVE timer'[r] # "off"
      BY DEF AttendedOK
    <3>1. MachineWait(r) \/ Executable(r) \/ Early(r)
      BY <1>1 DEF MachineWork, MachineWait, Interrupt, Executable, BeforeFirstNode, Early
    <3>2. MachineWait(r) => due[r] # "off" BY AskedNotEarly, Parts
    <3>3. Executable(r) => Restorable(r) BY <2>2, AskedNotEarly, Parts DEF Restorable
    <3>4. QED BY <2>1, <2>2, <2>5, <3>1, <3>2, <3>3 DEF RestoredTimer
  <2>14. Local(r)'
    BY <2>3, <2>6, <2>7, <2>8, <2>9, <2>10, <2>11, <2>12, <2>13 DEF Local
  <2>15. Open(r)' => Open(r) BY <1>1, <2>2 DEF Open
  <2>16. QED BY <2>14, <2>15
<1>6. Grows BY <1>5 DEF Grows
<1>7. NoStart BY <1>2 DEF NoStart
<1>8. Down' BY <1>1 DEF Down
<1>9. QED BY <1>4, <1>5, <1>6, <1>7, <1>8, GlobalKept DEF IInv

-----------------------------------------------------------------------------
(* The specification.                                                          *)
LEMMA Begins == Init => IInv
<1> SUFFICES ASSUME Init PROVE IInv
  OBVIOUS
<1> USE Constants DEF Init
<1>1. TypeOK
  <2>1. RegistryOK BY DEF RegistryOK, Statuses
  <2>2. ThreadOK BY DEF ThreadOK
  <2>3. ProcessOK
    <3>1. NoCall \in Calls /\ 0 \in 0..MaxTails BY DEF NoCall, Calls
    <3>2. QED BY <3>1 DEF ProcessOK, WorkerStates, Timers, Inputs
  <2>4. CallsOK
    <3>1. NoRequest \in [stage : Stages, run : Runs \cup {"none"}, input : Inputs]
      BY DEF NoRequest, Stages, Inputs
    <3>2. QED BY <3>1 DEF CallsOK, NoRequest
  <2>5. QED BY <2>1, <2>2, <2>3, <2>4 DEF TypeOK
<1>2. NodesLeft BY DEF NodesLeft
<1>3. ASSUME NEW r \in Runs PROVE Local(r)
  <2>1. ~Unfinished(r) /\ ~Open(r) /\ \A k \in Clients : ~For(k, r)
    BY DEF Unfinished, Open, For, NoRequest
  <2>2. ~Pending(r) BY <2>1 DEF Pending, For, NoCall
  <2>3. QED
    BY <2>1, <2>2 DEF Local, AbsentOK, RowOK, EndOK, AnswerOK, PromiseOK, TimerOK,
                      CancelOK, BeginOK, AttendedOK
<1>4. Undisturbed BY DEF Undisturbed, Starting, NoRequest
<1>5. Alone BY DEF Alone, Open, Unfinished
<1>6. QED BY <1>1, <1>2, <1>3, <1>4, <1>5 DEF IInv, Down

LEMMA Stutters == IInv /\ UNCHANGED vars => IInv'
<1> SUFFICES ASSUME IInv, UNCHANGED vars PROVE IInv'
  OBVIOUS
<1>1. /\ UNCHANGED <<row, finished, ledger, signal, due, asked, unlisted, nodes>>
      /\ UNCHANGED <<worker, carry, tails, timer, callback, request, requests, up, crashes>>
      /\ UNCHANGED <<promised, disturbed, hurried, rearmed, disarmed>>
  BY DEF vars, registry, thread, process, calls, life, ghosts
<1>2. TypeOK' /\ NodesLeft'
  BY <1>1 DEF IInv, TypeOK, RegistryOK, ThreadOK, ProcessOK, CallsOK, NodesLeft
<1>3. ASSUME NEW r \in Runs PROVE Local(r)'
  <2>1. AbsentOK(r)' BY <1>1, Parts DEF AbsentOK, For
  <2>2. RowOK(r)' BY <1>1, Parts DEF RowOK, Open, Unfinished, Early
  <2>3. EndOK(r)' BY <1>1, Parts DEF EndOK, Early
  <2>4. AnswerOK(r)' BY <1>1, Parts DEF AnswerOK, Pending
  <2>5. PromiseOK(r)' BY <1>1, Parts DEF PromiseOK, For, InStage
  <2>7. TimerOK(r)' BY <1>1, Parts DEF TimerOK, Unfinished, MachineWait, Interrupt
  <2>8. CancelOK(r)' BY <1>1, Parts DEF CancelOK, For, InStage, Early
  <2>9. BeginOK(r)' BY <1>1, Parts DEF BeginOK, For, InStage, Early, Unfinished
  <2>10. AttendedOK(r)'
    BY <1>1, Parts DEF AttendedOK, For, Unfinished, MachineWork, MachineWait, Executable,
                       BeforeFirstNode, Interrupt
  <2>11. QED
    BY <2>1, <2>2, <2>3, <2>4, <2>5, <2>7, <2>8, <2>9, <2>10 DEF Local
<1>4. Undisturbed'
  BY <1>1 DEF IInv, Undisturbed, Starting, InStage, BlockedByWait, BlockedByRun
<1>5. Alone' BY <1>1 DEF IInv, Alone, Open, Unfinished
<1>6. Down' BY <1>1 DEF IInv, Down
<1>7. QED BY <1>1, <1>2, <1>3, <1>4, <1>5, <1>6 DEF IInv

LEMMA Inductive == IInv /\ [Next]_vars => IInv'
<1> SUFFICES ASSUME IInv, [Next]_vars PROVE IInv'
  OBVIOUS
<1>1. CASE UNCHANGED vars BY <1>1, Stutters
<1>2. CASE Next
  <2>1. Ghosts /\ Step BY <1>2 DEF Next, Ghosts
  <2>2. ASSUME NEW r \in Runs,
               Node(r) \/ Record(r) \/ Tail(r) \/ Fires(r) \/ Called(r) \/ Status(r)
        PROVE  IInv'
    BY <2>1, <2>2, NodeKeeps, RecordKeeps, TailKeeps, FiresKeeps, CalledKeeps, StatusKeeps
  <2>3. ASSUME NEW k \in Clients, Request(k) PROVE IInv'
    BY <2>1, <2>3, StartKeeps, ArriveKeeps DEF Request
  <2>4. ASSUME NEW k \in Clients, Serve(k) PROVE IInv'
    BY <2>1, <2>4, StartKeeps, StartCreatesKeeps, PauseWritesKeeps, PauseMarksKeeps,
       PauseReportsKeeps, ResumeClearsKeeps, SubmitsKeeps, CancelsKeeps
    DEF Serve
  <2>5. QED BY <2>1, <2>2, <2>3, <2>4, CrashKeeps, RestartKeeps DEF Step
<1>3. QED BY <1>1, <1>2

LEMMA Always == Spec => []IInv
BY Begins, Inductive, PTL DEF Spec

-----------------------------------------------------------------------------
\* Types: registry, checkpoints, process and requests.
THEOREM ControlTyped == Spec => []TypeOK
<1>1. IInv => TypeOK BY DEF IInv
<1>2. QED BY <1>1, Always, PTL

\* A pause that was accepted is on file until the run interrupts for it or ends, with any
\* number of requests, timers and crashes (request_pause, _safe_point, resume).
THEOREM PauseIsKept == Spec => []PauseKept
<1>1. IInv => PauseKept
  <2> SUFFICES ASSUME IInv, NEW r \in promised PROVE r \in signal
    BY DEF PauseKept
  <2>1. r \in Runs BY DEF IInv
  <2>2. QED BY <2>1, Parts DEF PromiseOK
<1>2. QED BY <1>1, Always, PTL

\* A project has one run under way unless it changed under a start request (start_run).
THEOREM OneRunAtATime == Spec => []OneRun
<1>1. IInv => OneRun
  <2> SUFFICES ASSUME IInv, ~hurried
               PROVE  Cardinality({r \in Runs : Unfinished(r) /\ due[r] # "end"}) <= 1
    BY DEF OneRun
  <2> DEFINE S == {r \in Runs : Unfinished(r) /\ due[r] # "end"}
  <2>1. \A r, q \in S : r = q BY DEF IInv, Alone, Open
  <2>2. CASE S = {} BY <2>2, FS_EmptySet
  <2>3. CASE S # {}
    <3>1. PICK r \in S : TRUE BY <2>3
    <3>2. S = {r} BY <2>1, <3>1
    <3>3. Cardinality({r}) = 1 BY FS_Singleton
    <3>4. QED BY <3>2, <3>3
  <2>4. QED BY <2>2, <2>3
<1>2. QED BY <1>1, Always, PTL

\* Machine work that no worker has is never left alone (_execute, _schedule, reconcile,
\* restore_durable_runs, resume).
THEOREM NobodyIsForgotten == Spec => []Attended
<1>1. IInv => Attended
  <2> SUFFICES ASSUME IInv, NEW r \in Runs,
                      up /\ Unfinished(r) /\ worker[r] = "idle" /\ MachineWork(r)
               PROVE  \/ timer[r] # "off" \/ callback[r] # NoCall \/ tails[r] > 0
                      \/ \E k \in Clients : request[k].run = r
                      \/ r \in disarmed
    BY DEF Attended
  <2>1. QED BY Parts DEF AttendedOK, For
<1>2. QED BY <1>1, Always, PTL

=============================================================================
