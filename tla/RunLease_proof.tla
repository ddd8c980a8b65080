--------------------------- MODULE RunLease_proof ---------------------------
(***************************************************************************)
(* Theorems of RunLease for every number of runs and controllers and every *)
(* lease time: type correctness, the single-writer guarantee, that no      *)
(* worker executes a finished run, and that RunLease implements            *)
(* RunExecution.                                                           *)
(***************************************************************************)
EXTENDS RunLease, TLAPS

\* A live worker renews its lease, and clocks agree, well inside the lease time:
\* a heartbeat every 30 seconds against a lease of 120 leaves three missed
\* renewals (runtime.py, _LEASE_TTL_SECONDS and _LEASE_HEARTBEAT_SECONDS).
ASSUME TimelyHeartbeat == MaxSilence + MaxSkew < TTL

\* A worker holds an unexpired lease that was renewed `silence` ticks ago, or
\* the graph has ended and somebody has already recorded so.
HoldsLease(c, r) ==
  /\ row[r].owner = c
  /\ ~row[r].finished
  /\ row[r].left + silence[c][r] = TTL

EndRecorded(r) == row[r].finished /\ ckpt[r] = "done"

WorkerHoldsLease ==
  \A c \in Controllers, r \in Runs :
    phase[c][r] \in Working => HoldsLease(c, r) \/ EndRecorded(r)

\* Who reports END has seen END.
EndIsDone ==
  \A c \in Controllers, r \in Runs :
    (phase[c][r] = "completed" \/ timer[c][r] = "reconciling") => ckpt[r] = "done"

IInv == TypeOK /\ SingleWriter /\ WorkerHoldsLease /\ EndIsDone

-----------------------------------------------------------------------------
(* What a claim establishes: the claimant found no unexpired lease of       *)
(* anybody else, so, renewals being timely, no other worker of the run.     *)
LEMMA ClaimIsExclusive ==
  ASSUME TypeOK, WorkerHoldsLease,
         NEW c \in Controllers, NEW r \in Runs, NEW skew \in 0..MaxSkew,
         Claimable(c, r, skew),
         NEW d \in Controllers, d # c
  PROVE  phase[d][r] \notin Working
<1> SUFFICES ASSUME phase[d][r] \in Working PROVE FALSE
  OBVIOUS
<1>1. ~row[r].finished
  BY DEF Claimable
<1>2. row[r].owner = d /\ row[r].left + silence[d][r] = TTL
  BY <1>1 DEF WorkerHoldsLease, HoldsLease, EndRecorded
<1>3. row[r].left > skew
  <2>1. silence[d][r] \in 0..MaxSilence /\ row[r].left \in Nat
    BY LeaseConstants DEF TypeOK, Rows
  <2> QED
    BY <1>2, <2>1, LeaseConstants, TimelyHeartbeat
<1> QED
  BY <1>2, <1>3, LeaseConstants DEF Claimable, ForeignLease

(* The rows that claims, renewals, releases and outcomes write are rows.    *)
LEMMA WrittenRows ==
  /\ FreeRow \in Rows
  /\ FinishedRow \in Rows
  /\ \A c \in Controllers : LeasedRow(c) \in Rows
  /\ \A ro \in Rows :
       /\ ro.finished \in BOOLEAN
       /\ ro.left \in 0..TTL
       /\ [finished |-> ro.finished, owner |-> NoOwner, left |-> 0] \in Rows
       /\ \A n \in 0..TTL : [ro EXCEPT !.left = n] \in Rows
BY LeaseConstants DEF Rows, FreeRow, FinishedRow, LeasedRow

(* Every variable keeps its type: the lease time left never leaves 0..TTL   *)
(* and a live worker's silence never exceeds MaxSilence.                    *)
LEMMA TypeStep == TypeOK /\ [Next]_vars => TypeOK'
<1> SUFFICES ASSUME TypeOK, [Next]_vars PROVE TypeOK'
  OBVIOUS
<1>a. /\ row \in [Runs -> Rows]
      /\ ckpt \in [Runs -> Checkpoints]
      /\ phase \in [Controllers -> [Runs -> Phases]]
      /\ silence \in [Controllers -> [Runs -> 0..MaxSilence]]
      /\ timer \in [Controllers -> [Runs -> Timers]]
      /\ life \in [Controllers -> {"new", "up", "dead"}]
  BY DEF TypeOK
<1>b. /\ MaxSilence \in Nat /\ 0 \in 0..MaxSilence
      /\ TTL \in Nat
  BY LeaseConstants
<1>c. \A r \in Runs : row[r] \in Rows
  BY <1>a
<1>1. CASE Tick
  <2>1. row' \in [Runs -> Rows]
    <3>1. SUFFICES ASSUME NEW r \in Runs
          PROVE [row[r] EXCEPT !.left = IF row[r].left = 0 THEN 0 ELSE row[r].left - 1]
                \in Rows
      BY <1>1, Zenon DEF Tick
    <3>2. row[r].left \in 0..TTL
      BY <1>c, WrittenRows
    <3>3. (IF row[r].left = 0 THEN 0 ELSE row[r].left - 1) \in 0..TTL
      BY <3>2, <1>b
    <3> QED
      BY <1>c, <3>3, WrittenRows, Zenon
  <2>2. silence' \in [Controllers -> [Runs -> 0..MaxSilence]]
    BY <1>1, <1>a, <1>b DEF Tick, Renewing
  <2> QED
    BY <1>1, <1>a, <2>1, <2>2 DEF Tick, TypeOK
<1>2. ASSUME NEW c \in Controllers, Crash(c) PROVE TypeOK'
  BY <1>2, <1>a DEF Crash, TypeOK, Phases, Timers
<1>3. ASSUME NEW c \in Controllers, NEW skew \in 0..MaxSkew, StartController(c, skew)
      PROVE TypeOK'
  <2>1. row' \in [Runs -> Rows]
    BY <1>3, <1>c, WrittenRows DEF StartController
  <2>2. timer' \in [Controllers -> [Runs -> Timers]]
    BY <1>3, <1>a DEF StartController, Timers
  <2> QED
    BY <1>3, <1>a, <2>1, <2>2 DEF StartController, TypeOK
<1>4. ASSUME NEW c \in Controllers, NEW r \in Runs, CreateRun(c, r) PROVE TypeOK'
  BY <1>4, <1>a DEF CreateRun, SetTimer, TypeOK, Checkpoints, Timers
<1>5. ASSUME NEW c \in Controllers, NEW r \in Runs, NEW skew \in 0..MaxSkew,
             \/ StartRun(c, r, skew) \/ Submit(c, r, skew)
             \/ PollStatus(c, r, skew) \/ TimerStep(c, r, skew)
      PROVE TypeOK'
  <2> DEFINE Rest == /\ row' \in [Runs -> Rows]
                     /\ phase' \in [Controllers -> [Runs -> Phases]]
                     /\ silence' \in [Controllers -> [Runs -> 0..MaxSilence]]
  <2>a. ASSUME Claim(c, r, skew) PROVE Rest
    BY <2>a, <1>a, <1>b, WrittenRows DEF Claim, SetPhase, Phases
  <2>b. ASSUME Finish(r) PROVE row' \in [Runs -> Rows]
    BY <2>b, <1>a, WrittenRows DEF Finish
  <2>c. ASSUME NEW t \in Timers, SetTimer(c, r, t)
        PROVE timer' \in [Controllers -> [Runs -> Timers]]
    BY <2>c, <1>a DEF SetTimer
  <2>1. CASE StartRun(c, r, skew)
    <3>1. Rest
      BY <2>1, <2>a, <1>a DEF StartRun
    <3>2. timer' \in [Controllers -> [Runs -> Timers]]
      BY <2>1, <2>c DEF StartRun, Timers
    <3> QED
      BY <2>1, <3>1, <3>2, <1>a DEF StartRun, TypeOK
  <2>2. CASE Submit(c, r, skew)
    BY <2>2, <2>a, <1>a DEF Submit, TypeOK
  <2>3. CASE PollStatus(c, r, skew)
    <3>1. row' \in [Runs -> Rows]
      BY <2>3, <2>b, <1>a DEF PollStatus
    <3>2. timer' \in [Controllers -> [Runs -> Timers]]
      BY <2>3, <2>c DEF PollStatus, Timers
    <3> QED
      BY <2>3, <3>1, <3>2, <1>a DEF PollStatus, TypeOK
  <2>4. CASE TimerFires(c, r, skew)
    <3>1. timer' \in [Controllers -> [Runs -> Timers]]
      BY <2>4, <2>c DEF TimerFires, Timers
    <3> QED
      BY <2>4, <3>1, <1>a DEF TimerFires, TypeOK
  <2>5. CASE TimerSubmits(c, r, skew)
    <3>1. timer' \in [Controllers -> [Runs -> Timers]]
      BY <2>5, <2>c DEF TimerSubmits, Timers
    <3> QED
      BY <2>5, <2>a, <3>1, <1>a DEF TimerSubmits, TypeOK
  <2>6. CASE TimerContends(c, r, skew)
    BY <2>6, <2>c, <1>a DEF TimerContends, TypeOK, Timers
  <2>7. CASE TimerReconciles(c, r)
    <3>1. timer' \in [Controllers -> [Runs -> Timers]]
      BY <2>7, <2>c DEF TimerReconciles, Timers
    <3> QED
      BY <2>7, <2>b, <3>1, <1>a DEF TimerReconciles, TypeOK
  <2> QED
    BY <1>5, <2>1, <2>2, <2>3, <2>4, <2>5, <2>6, <2>7 DEF TimerStep
<1>6. ASSUME NEW c \in Controllers, NEW r \in Runs, WorkerStep(c, r) PROVE TypeOK'
  <2>a. ASSUME Finish(r) PROVE row' \in [Runs -> Rows]
    BY <2>a, <1>a, WrittenRows DEF Finish
  <2>b. ASSUME ReleaseOwn(c, r) PROVE row' \in [Runs -> Rows]
    BY <2>b, <1>a, <1>c, WrittenRows DEF ReleaseOwn
  <2>c. ASSUME NEW p \in Phases, SetPhase(c, r, p)
        PROVE phase' \in [Controllers -> [Runs -> Phases]]
    BY <2>c, <1>a DEF SetPhase
  <2>1. CASE BudgetStop(c, r)
    BY <2>1, <2>a, <2>c, <1>a DEF BudgetStop, Phases, TypeOK
  <2>2. CASE LaunchFails(c, r)
    BY <2>2, <2>b, <2>c, <1>a DEF LaunchFails, Phases, TypeOK
  <2>3. CASE Launch(c, r)
    BY <2>3, <2>c, <1>a DEF Launch, Phases, TypeOK
  <2>4. CASE Heartbeat(c, r)
    BY <2>4, <1>a, <1>b, WrittenRows DEF Heartbeat, TypeOK
  <2>5. CASE Progress(c, r)
    <3>1. phase' \in [Controllers -> [Runs -> Phases]]
      BY <2>5, <2>c DEF Progress, Phases
    <3>2. ckpt' \in [Runs -> Checkpoints]
      BY <2>5, <1>a DEF Progress, Checkpoints
    <3> QED
      BY <2>5, <3>1, <3>2, <1>a DEF Progress, TypeOK
  <2>6. CASE Raise(c, r)
    BY <2>6, <2>c, <1>a DEF Raise, Phases, TypeOK
  <2>7. CASE Record(c, r)
    <3>1. row' \in [Runs -> Rows]
      BY <2>7, <2>a, <1>a DEF Record
    <3>2. phase' \in [Controllers -> [Runs -> Phases]]
      BY <2>7, <2>c DEF Record, Phases
    <3> QED
      BY <2>7, <3>1, <3>2, <1>a DEF Record, TypeOK
  <2>8. CASE Release(c, r)
    BY <2>8, <2>b, <2>c, <1>a DEF Release, Phases, TypeOK
  <2>9. CASE Retire(c, r)
    <3>1. phase' \in [Controllers -> [Runs -> Phases]]
      BY <2>9, <2>c DEF Retire, Phases
    <3>2. timer' \in [Controllers -> [Runs -> Timers]]
      BY <2>9, <1>a DEF Retire, SetTimer, Timers
    <3> QED
      BY <2>9, <3>1, <3>2, <1>a DEF Retire, TypeOK
  <2>10. CASE RecordFails(c, r)
    BY <2>10, <2>c, <1>a DEF RecordFails, Phases, TypeOK
  <2>11. CASE DatabaseError(c, r)
    <3>1. row' \in [Runs -> Rows]
      BY <2>11, <2>b, <1>a DEF DatabaseError
    <3>2. phase' \in [Controllers -> [Runs -> Phases]]
      BY <2>11, <2>c DEF DatabaseError, Phases
    <3> QED
      BY <2>11, <3>1, <3>2, <1>a DEF DatabaseError, TypeOK
  <2> QED
    BY <1>6, <2>1, <2>2, <2>3, <2>4, <2>5, <2>6, <2>7, <2>8, <2>9, <2>10, <2>11
    DEF WorkerStep
<1>7. CASE UNCHANGED vars
  BY <1>7, <1>a DEF vars, TypeOK
<1> QED
  BY <1>1, <1>2, <1>3, <1>4, <1>5, <1>6, <1>7 DEF Next, ControllerStep

(* Only a claim makes anybody a worker; every other step keeps or loses     *)
(* workers.                                                                 *)
LEMMA ClaimOrLeave ==
  ASSUME TypeOK, Next
  PROVE  \/ \E c \in Controllers, r \in Runs, skew \in 0..MaxSkew : Claim(c, r, skew)
         \/ \A d \in Controllers, q \in Runs :
              phase'[d][q] \in Working => phase[d][q] \in Working
<1> DEFINE Leave == \A d \in Controllers, q \in Runs :
                      phase'[d][q] \in Working => phase[d][q] \in Working
<1>a. phase \in [Controllers -> [Runs -> Phases]]
  BY DEF TypeOK
<1>1. CASE Tick
  BY <1>1 DEF Tick
<1>2. ASSUME NEW c \in Controllers, Crash(c) PROVE Leave
  BY <1>2, <1>a DEF Crash, Working
<1>3. ASSUME NEW c \in Controllers, NEW skew \in 0..MaxSkew, StartController(c, skew)
      PROVE Leave
  BY <1>3 DEF StartController
<1>4. ASSUME NEW c \in Controllers, NEW r \in Runs, CreateRun(c, r) PROVE Leave
  BY <1>4 DEF CreateRun
<1>5. ASSUME NEW c \in Controllers, NEW r \in Runs, NEW skew \in 0..MaxSkew,
             \/ StartRun(c, r, skew) \/ Submit(c, r, skew)
             \/ PollStatus(c, r, skew) \/ TimerStep(c, r, skew)
      PROVE Claim(c, r, skew) \/ Leave
  BY <1>5 DEF StartRun, Submit, PollStatus, TimerStep, TimerFires, TimerSubmits,
              TimerContends, TimerReconciles
<1>6. ASSUME NEW c \in Controllers, NEW r \in Runs, WorkerStep(c, r) PROVE Leave
  <2>1. phase[c][r] \in Working \/ phase[c][r] \in {"recorded", "released"}
                               \/ phase' = phase
    BY <1>6 DEF WorkerStep, BudgetStop, LaunchFails, Launch, Heartbeat, Progress, Raise,
                Record, Release, Retire, RecordFails, DatabaseError, Working
  <2>2. \E p \in Phases : SetPhase(c, r, p) \/ phase' = phase
    BY <1>6 DEF WorkerStep, BudgetStop, LaunchFails, Launch, Heartbeat, Progress, Raise,
                Record, Release, Retire, RecordFails, DatabaseError, Phases
  <2>3. CASE phase[c][r] \in Working \/ phase' = phase
    BY <2>2, <2>3, <1>a DEF SetPhase
  <2>4. CASE phase[c][r] \in {"recorded", "released"}
    BY <1>6, <2>4, <1>a DEF WorkerStep, BudgetStop, LaunchFails, Launch, Heartbeat,
       Progress, Raise, Record, Release, Retire, RecordFails, DatabaseError, SetPhase,
       Working
  <2> QED
    BY <2>1, <2>3, <2>4
<1> QED
  BY <1>1, <1>2, <1>3, <1>4, <1>5, <1>6 DEF Next, ControllerStep

(* A run whose graph has ended stays ended; a recorded outcome stays.       *)
LEMMA OutcomesStay ==
  ASSUME TypeOK, Next, NEW q \in Runs
  PROVE  /\ ckpt[q] = "done" => ckpt'[q] = "done"
         /\ row[q].finished => row'[q].finished
<1>a. /\ ckpt \in [Runs -> Checkpoints]
      /\ row \in [Runs -> Rows]
  BY DEF TypeOK
<1> DEFINE Stay == /\ ckpt[q] = "done" => ckpt'[q] = "done"
                   /\ row[q].finished => row'[q].finished
<1>1. CASE Tick
  BY <1>1, <1>a DEF Tick, Rows
<1>2. ASSUME NEW c \in Controllers, Crash(c) PROVE Stay
  BY <1>2 DEF Crash
<1>3. ASSUME NEW c \in Controllers, NEW skew \in 0..MaxSkew, StartController(c, skew)
      PROVE Stay
  BY <1>3 DEF StartController, FinishedRow
<1>4. ASSUME NEW c \in Controllers, NEW r \in Runs, CreateRun(c, r) PROVE Stay
  BY <1>4, <1>a DEF CreateRun
<1>b. ASSUME NEW c \in Controllers, NEW r \in Runs, NEW skew \in 0..MaxSkew,
             Claim(c, r, skew)
      PROVE row[q].finished => row'[q].finished
  BY <1>b, <1>a DEF Claim, Claimable
<1>c. ASSUME NEW r \in Runs, Finish(r) PROVE row[q].finished => row'[q].finished
  BY <1>c, <1>a DEF Finish, FinishedRow
<1>5. ASSUME NEW c \in Controllers, NEW r \in Runs, NEW skew \in 0..MaxSkew,
             \/ StartRun(c, r, skew) \/ Submit(c, r, skew)
             \/ PollStatus(c, r, skew) \/ TimerStep(c, r, skew)
      PROVE Stay
  BY <1>5, <1>b, <1>c DEF StartRun, Submit, PollStatus, TimerStep, TimerFires,
     TimerSubmits, TimerContends, TimerReconciles
<1>d. ASSUME NEW c \in Controllers, NEW r \in Runs, ReleaseOwn(c, r)
      PROVE row[q].finished => row'[q].finished
  BY <1>d, <1>a DEF ReleaseOwn
<1>6. ASSUME NEW c \in Controllers, NEW r \in Runs, WorkerStep(c, r) PROVE Stay
  <2>1. CASE Progress(c, r)
    BY <2>1, <1>a DEF Progress
  <2>2. CASE Heartbeat(c, r)
    BY <2>2, <1>a DEF Heartbeat
  <2> QED
    BY <1>6, <2>1, <2>2, <1>c, <1>d DEF WorkerStep, BudgetStop, LaunchFails, Launch,
       Raise, Record, Release, Retire, RecordFails, DatabaseError
<1> QED
  BY <1>1, <1>2, <1>3, <1>4, <1>5, <1>6 DEF Next, ControllerStep

(* Whoever reports END, in a worker or in a timer callback, has seen END.   *)
LEMMA EndStep == ASSUME TypeOK, EndIsDone, Next PROVE EndIsDone'
<1> SUFFICES ASSUME NEW d \in Controllers, NEW q \in Runs,
                    phase'[d][q] = "completed" \/ timer'[d][q] = "reconciling"
             PROVE ckpt'[q] = "done"
  BY DEF EndIsDone
<1>a. /\ phase \in [Controllers -> [Runs -> Phases]]
      /\ timer \in [Controllers -> [Runs -> Timers]]
      /\ ckpt \in [Runs -> Checkpoints]
  BY DEF TypeOK
<1> DEFINE Old == phase[d][q] = "completed" \/ timer[d][q] = "reconciling"
<1>b. Old => ckpt'[q] = "done"
  BY OutcomesStay DEF EndIsDone
<1>1. CASE Tick
  BY <1>1, <1>b DEF Tick
<1>2. ASSUME NEW c \in Controllers, Crash(c) PROVE Old
  BY <1>2, <1>a DEF Crash
<1>3. ASSUME NEW c \in Controllers, NEW skew \in 0..MaxSkew, StartController(c, skew)
      PROVE Old
  BY <1>3, <1>a DEF StartController
<1>4. ASSUME NEW c \in Controllers, NEW r \in Runs, CreateRun(c, r) PROVE Old
  BY <1>4, <1>a DEF CreateRun, SetTimer
<1>5. ASSUME NEW c \in Controllers, NEW r \in Runs, NEW skew \in 0..MaxSkew,
             \/ StartRun(c, r, skew) \/ Submit(c, r, skew)
             \/ PollStatus(c, r, skew) \/ TimerStep(c, r, skew)
      PROVE Old \/ ckpt'[q] = "done"
  <2>1. CASE TimerFires(c, r, skew)
    BY <2>1, <1>a DEF TimerFires, SetTimer
  <2>2. CASE TimerSubmits(c, r, skew)
    BY <2>2, <1>a DEF TimerSubmits, Claim, SetTimer, SetPhase
  <2>3. CASE TimerContends(c, r, skew) \/ TimerReconciles(c, r)
    BY <2>3, <1>a DEF TimerContends, TimerReconciles, SetTimer
  <2>4. CASE StartRun(c, r, skew)
    BY <2>4, <1>a DEF StartRun, Claim, SetTimer, SetPhase
  <2>5. CASE Submit(c, r, skew)
    BY <2>5, <1>a DEF Submit, Claim, SetPhase
  <2>6. CASE PollStatus(c, r, skew)
    BY <2>6, <1>a DEF PollStatus, SetTimer
  <2> QED
    BY <1>5, <2>1, <2>2, <2>3, <2>4, <2>5, <2>6 DEF TimerStep
<1>6. ASSUME NEW c \in Controllers, NEW r \in Runs, WorkerStep(c, r)
      PROVE Old \/ ckpt'[q] = "done"
  <2>1. CASE Progress(c, r)
    <3>1. PICK next \in {"next", "wait", "parked", "done"} :
            /\ ckpt' = [ckpt EXCEPT ![r] = next]
            /\ SetPhase(c, r, IF next = "done" THEN "completed"
                              ELSE IF next = "next" THEN "running" ELSE "suspended")
      BY <2>1 DEF Progress
    <3>2. CASE d = c /\ q = r
      BY <3>1, <3>2, <2>1, <1>a DEF SetPhase, Progress
    <3>3. CASE ~(d = c /\ q = r)
      BY <3>1, <3>3, <2>1, <1>a DEF SetPhase, Progress
    <3> QED
      BY <3>2, <3>3
  <2>2. CASE Retire(c, r)
    BY <2>2, <1>a DEF Retire, SetPhase, SetTimer
  <2> QED
    BY <1>6, <1>a, <2>1, <2>2 DEF WorkerStep, BudgetStop, LaunchFails, Launch,
       Heartbeat, Raise, Record, RecordFails, Release, DatabaseError, SetPhase
<1> QED
  BY <1>1, <1>2, <1>3, <1>4, <1>5, <1>6, <1>b DEF Next, ControllerStep

(* A worker keeps its lease, or the end of the run has been recorded: no    *)
(* other claim, outcome, release or passing of time takes it away.          *)
LEMMA HoldsStep == ASSUME IInv, Next PROVE WorkerHoldsLease'
<1> SUFFICES ASSUME NEW d \in Controllers, NEW q \in Runs, phase'[d][q] \in Working
             PROVE HoldsLease(d, q)' \/ EndRecorded(q)'
  BY DEF WorkerHoldsLease
<1>a. /\ row \in [Runs -> Rows]
      /\ ckpt \in [Runs -> Checkpoints]
      /\ phase \in [Controllers -> [Runs -> Phases]]
      /\ silence \in [Controllers -> [Runs -> 0..MaxSilence]]
      /\ timer \in [Controllers -> [Runs -> Timers]]
  BY DEF IInv, TypeOK
<1>b. /\ row[q].left \in 0..TTL
      /\ silence[d][q] \in 0..MaxSilence
      /\ TTL \in Nat /\ MaxSilence \in Nat /\ MaxSkew \in Nat
      /\ NoOwner \notin Controllers
      /\ MaxSilence + MaxSkew < TTL
  <2>1. row[q] \in Rows
    BY <1>a
  <2>2. row[q].left \in 0..TTL
    BY <2>1, WrittenRows
  <2> QED
    BY <1>a, <2>2, LeaseConstants, TimelyHeartbeat
<1> DEFINE Good == HoldsLease(d, q)' \/ EndRecorded(q)'
<1>c. ASSUME EndRecorded(q) PROVE EndRecorded(q)'
  BY <1>c, OutcomesStay DEF EndRecorded, IInv
<1>d. ASSUME phase[d][q] \in Working, ~EndRecorded(q) PROVE HoldsLease(d, q)
  BY <1>d DEF IInv, WorkerHoldsLease
<1>e. ASSUME phase[d][q] \in Working, row'[q] = row[q], silence'[d][q] = silence[d][q]
      PROVE Good
  BY <1>c, <1>d, <1>e DEF HoldsLease
<1>f. ASSUME NEW c \in Controllers, NEW r \in Runs, NEW skew \in 0..MaxSkew,
             Claim(c, r, skew)
      PROVE Good
  <2>1. CASE d = c /\ q = r
    BY <1>f, <2>1, <1>a, <1>b DEF Claim, LeasedRow, HoldsLease
  <2>2. CASE q # r \/ (q = r /\ d # c)
    <3>1. phase[d][q] \in Working /\ silence'[d][q] = silence[d][q]
      BY <1>f, <2>2, <1>a DEF Claim, SetPhase
    <3>2. q # r
      BY <1>f, <2>2, <3>1, ClaimIsExclusive DEF Claim, IInv
    <3> QED
      BY <1>f, <1>e, <1>a, <3>1, <3>2 DEF Claim
  <2> QED
    BY <2>1, <2>2
<1>1. CASE Tick
  <2>1. phase[d][q] \in Working
    BY <1>1 DEF Tick
  <2>2. CASE HoldsLease(d, q)
    <3>1. silence[d][q] < MaxSilence /\ silence'[d][q] = silence[d][q] + 1
      BY <1>1, <2>1, <2>2 DEF Tick, Renewing, HoldsLease
    <3>2. row[q].left # 0
      BY <1>b, <2>2, <3>1 DEF HoldsLease
    <3>3. row'[q].left = row[q].left - 1 /\ row'[q].owner = row[q].owner
          /\ row'[q].finished = row[q].finished
      BY <1>1, <1>a, <3>2 DEF Tick, Rows
    <3> QED
      BY <1>b, <2>2, <3>1, <3>3 DEF HoldsLease
  <2> QED
    BY <2>1, <2>2, <1>c, <1>d
<1>2. ASSUME NEW c \in Controllers, Crash(c) PROVE Good
  <2>1. phase[d][q] \in Working
    BY <1>2, <1>a DEF Crash, Working
  <2> QED
    BY <1>2, <2>1, <1>e DEF Crash
<1>3. ASSUME NEW c \in Controllers, NEW skew \in 0..MaxSkew, StartController(c, skew)
      PROVE Good
  BY <1>3, <1>c, <1>d, <1>e DEF StartController, FinishedRow, EndRecorded
<1>4. ASSUME NEW c \in Controllers, NEW r \in Runs, CreateRun(c, r) PROVE Good
  BY <1>4, <1>e DEF CreateRun
<1>5. ASSUME NEW c \in Controllers, NEW r \in Runs, NEW skew \in 0..MaxSkew,
             \/ StartRun(c, r, skew) \/ Submit(c, r, skew)
             \/ PollStatus(c, r, skew) \/ TimerStep(c, r, skew)
      PROVE Good
  <2>1. CASE PollStatus(c, r, skew)
    BY <2>1, <1>a, <1>e DEF PollStatus, Finish, FinishedRow, EndRecorded
  <2>2. CASE TimerReconciles(c, r)
    <3>1. ckpt[r] = "done"
      BY <2>2 DEF TimerReconciles, IInv, EndIsDone
    <3> QED
      BY <2>2, <3>1, <1>a, <1>e DEF TimerReconciles, Finish, FinishedRow, EndRecorded
  <2>3. CASE StartRun(c, r, skew) \/ Submit(c, r, skew) \/ TimerSubmits(c, r, skew)
    BY <2>3, <1>e, <1>f DEF StartRun, Submit, TimerSubmits
  <2>4. CASE TimerFires(c, r, skew) \/ TimerContends(c, r, skew)
    BY <2>4, <1>e DEF TimerFires, TimerContends
  <2> QED
    BY <1>5, <2>1, <2>2, <2>3, <2>4 DEF TimerStep
<1>6. ASSUME NEW c \in Controllers, NEW r \in Runs, WorkerStep(c, r) PROVE Good
  <2>a. phase[d][q] \in Working
    <3>1. \E p \in Phases : SetPhase(c, r, p) \/ phase' = phase
      BY <1>6 DEF WorkerStep, BudgetStop, LaunchFails, Launch, Heartbeat, Progress,
         Raise, Record, Release, Retire, RecordFails, DatabaseError, Phases
    <3>2. CASE phase[c][r] \in Working \/ phase' = phase
      BY <3>1, <3>2, <1>a DEF SetPhase
    <3>3. CASE phase[c][r] \notin Working /\ phase' # phase
      BY <1>6, <3>3, <1>a DEF WorkerStep, BudgetStop, LaunchFails, Launch, Heartbeat,
         Progress, Raise, Record, Release, Retire, RecordFails, DatabaseError, SetPhase,
         Working
    <3> QED
      BY <3>2, <3>3
  <2>b. ASSUME q = r, phase[c][r] \in Working PROVE d = c
    BY <2>a, <2>b DEF IInv, SingleWriter, Workers
  <2>c. ASSUME SetPhase(c, r, "idle") \/ SetPhase(c, r, "recorded"), d = c PROVE q # r
    BY <2>c, <1>a DEF SetPhase, Working
  <2>1. CASE BudgetStop(c, r)
    <3>1. q # r
      BY <2>1, <2>b, <2>c DEF BudgetStop, Working
    <3> QED
      BY <2>1, <3>1, <2>a, <1>a, <1>e DEF BudgetStop, Finish
  <2>2. CASE Record(c, r)
    <3>1. q # r
      BY <2>2, <2>b, <2>c DEF Record, Working
    <3> QED
      BY <2>2, <3>1, <2>a, <1>a, <1>e DEF Record, Finish
  <2>3. CASE Heartbeat(c, r)
    <3>1. CASE q = r
      <4>1. d = c /\ phase'[d][q] = phase[d][q]
        BY <2>3, <3>1, <2>b DEF Heartbeat, Working
      <4> QED
        BY <2>3, <3>1, <4>1, <1>a, <1>b DEF Heartbeat, LeasedRow, HoldsLease
    <3>2. CASE q # r
      BY <2>3, <3>2, <2>a, <1>a, <1>e DEF Heartbeat
    <3> QED
      BY <3>1, <3>2
  <2>4. CASE ReleaseOwn(c, r) /\ UNCHANGED silence /\ q # r
    BY <2>4, <2>a, <1>a, <1>e DEF ReleaseOwn
  <2>5. CASE LaunchFails(c, r)
    <3>1. q # r
      BY <2>5, <2>b, <2>c DEF LaunchFails, Working
    <3> QED
      BY <2>5, <3>1, <2>4 DEF LaunchFails
  <2>6. CASE Release(c, r)
    <3>1. CASE q = r /\ ~EndRecorded(q)
      <4>1. d # c
        BY <2>6, <2>a, <3>1 DEF Release, Working
      <4>2. row' = row
        BY <2>6, <4>1, <3>1, <2>a, <1>d DEF Release, ReleaseOwn, HoldsLease
      <4> QED
        BY <2>6, <4>2, <2>a, <1>e DEF Release
    <3> QED
      BY <2>6, <3>1, <2>4, <1>c DEF Release
  <2>7. CASE DatabaseError(c, r)
    <3>1. CASE ReleaseOwn(c, r) /\ phase[c][r] = "failed"
      <4>1. q # r
        BY <2>7, <3>1, <2>b, <2>c DEF DatabaseError, Working
      <4> QED
        BY <2>7, <3>1, <4>1, <2>4 DEF DatabaseError
    <3>2. CASE UNCHANGED row
      BY <2>7, <3>2, <2>a, <1>e DEF DatabaseError
    <3> QED
      BY <2>7, <3>1, <3>2 DEF DatabaseError
  <2>8. CASE UNCHANGED <<row, silence>>
    BY <2>8, <2>a, <1>e
  <2> QED
    BY <1>6, <2>1, <2>2, <2>3, <2>5, <2>6, <2>7, <2>8 DEF WorkerStep, Launch, Progress,
       Raise, RecordFails, Retire
<1> QED
  BY <1>1, <1>2, <1>3, <1>4, <1>5, <1>6 DEF Next, ControllerStep, IInv

(* A second worker could only come from a claim, and a claim is exclusive.  *)
LEMMA SingleStep == ASSUME IInv, Next PROVE SingleWriter'
<1> SUFFICES ASSUME NEW q \in Runs, NEW d \in Controllers, NEW e \in Controllers,
                    phase'[d][q] \in Working, phase'[e][q] \in Working
             PROVE d = e
  BY DEF SingleWriter, Workers
<1>a. phase \in [Controllers -> [Runs -> Phases]]
  BY DEF IInv, TypeOK
<1>1. CASE \E c \in Controllers, r \in Runs, skew \in 0..MaxSkew : Claim(c, r, skew)
  <2>1. PICK c \in Controllers, r \in Runs, skew \in 0..MaxSkew : Claim(c, r, skew)
    BY <1>1
  <2>2. CASE q = r
    <3>1. ASSUME NEW x \in Controllers, x # c PROVE phase'[x][r] \notin Working
      BY <2>1, <3>1, <1>a, ClaimIsExclusive DEF Claim, SetPhase, IInv
    <3> QED
      BY <2>2, <3>1
  <2>3. CASE q # r
    BY <2>1, <2>3, <1>a DEF Claim, SetPhase, IInv, SingleWriter, Workers
  <2> QED
    BY <2>2, <2>3
<1>2. CASE \A x \in Controllers, r \in Runs :
             phase'[x][r] \in Working => phase[x][r] \in Working
  BY <1>2 DEF IInv, SingleWriter, Workers
<1> QED
  BY <1>1, <1>2, ClaimOrLeave DEF IInv

(* A graph reaches END in the worker that drives it.                        *)
LEMMA EndedByWorker ==
  ASSUME TypeOK, Next, NEW q \in Runs, ckpt[q] # "done", ckpt'[q] = "done"
  PROVE  \E d \in Controllers : phase[d][q] = "running" /\ phase'[d][q] = "completed"
<1>a. /\ ckpt \in [Runs -> Checkpoints]
      /\ phase \in [Controllers -> [Runs -> Phases]]
  BY DEF TypeOK
<1>1. ckpt' # ckpt
  OBVIOUS
<1>2. PICK c \in Controllers, r \in Runs : CreateRun(c, r) \/ Progress(c, r)
  BY <1>1 DEF Next, Tick, ControllerStep, Crash, StartController, StartRun, Submit,
     PollStatus, TimerStep, TimerFires, TimerSubmits, TimerContends, TimerReconciles,
     WorkerStep, BudgetStop, LaunchFails, Launch, Heartbeat, Raise, Record, Release,
     Retire, RecordFails, DatabaseError
<1>3. CASE CreateRun(c, r)
  BY <1>3, <1>a DEF CreateRun
<1>4. CASE Progress(c, r)
  <2>1. PICK next \in {"next", "wait", "parked", "done"} :
          /\ ckpt' = [ckpt EXCEPT ![r] = next]
          /\ SetPhase(c, r, IF next = "done" THEN "completed"
                            ELSE IF next = "next" THEN "running" ELSE "suspended")
    BY <1>4 DEF Progress
  <2>2. q = r /\ next = "done"
    BY <2>1, <1>a
  <2> QED
    BY <1>4, <2>1, <2>2, <1>a DEF Progress, SetPhase
<1> QED
  BY <1>2, <1>3, <1>4

LEMMA InitIInv == Init => IInv
<1> SUFFICES ASSUME Init PROVE IInv
  OBVIOUS
<1>1. TypeOK
  BY LeaseConstants, WrittenRows
  DEF Init, TypeOK, Checkpoints, Phases, Timers
<1>2. SingleWriter /\ WorkerHoldsLease /\ EndIsDone
  BY DEF Init, SingleWriter, Workers, Working, WorkerHoldsLease, EndIsDone
<1> QED
  BY <1>1, <1>2 DEF IInv

LEMMA StepIInv == IInv /\ [Next]_vars => IInv'
<1> SUFFICES ASSUME IInv, [Next]_vars PROVE IInv'
  OBVIOUS
<1>1. CASE Next
  BY <1>1, TypeStep, SingleStep, HoldsStep, EndStep DEF IInv
<1>2. CASE UNCHANGED vars
  BY <1>2 DEF vars, IInv, TypeOK, SingleWriter, Workers, WorkerHoldsLease, HoldsLease,
              EndRecorded, EndIsDone
<1> QED
  BY <1>1, <1>2

-----------------------------------------------------------------------------
(* The registry rows, the checkpoints, the workers and the timers keep      *)
(* their types in every behaviour, with or without timely heartbeats.       *)
THEOREM Typed == Spec => []TypeOK
<1>1. Init => TypeOK
  BY InitIInv DEF IInv
<1> QED
  BY <1>1, TypeStep, PTL DEF Spec

(* The strengthening of the single-writer guarantee is inductive.           *)
THEOREM Inductive == Spec => []IInv
BY InitIInv, StepIInv, PTL DEF Spec

(* However many controllers share the registry, restart, lose timers, fail  *)
(* writes or submit on an operator's request, at most one of them drives a  *)
(* run.                                                                     *)
THEOREM OneWriter == Spec => []SingleWriter
<1>1. IInv => SingleWriter
  BY DEF IInv
<1> QED
  BY <1>1, Inductive, PTL

(* Once an outcome is in the registry, no worker executes nodes of the run. *)
THEOREM OutcomeFinal == Spec => []NoWorkAfterFinish
<1>1. IInv => NoWorkAfterFinish
  BY DEF IInv, WorkerHoldsLease, HoldsLease, EndRecorded, NoWorkAfterFinish, Workers
<1> QED
  BY <1>1, Inductive, PTL

(* Nobody else's step changes the owner of the lease of a worker that still *)
(* has nodes to run.                                                        *)
THEOREM LeaseKept == Spec => LeaseNotStolen
<1> DEFINE Kept == \A r \in Runs, c \in Controllers :
                     (/\ phase[c][r] \in Working /\ phase'[c][r] = phase[c][r]
                      /\ ckpt[r] # "done") => row'[r].owner = row[r].owner
<1>1. IInv /\ IInv' /\ [Next]_vars => [Kept]_vars
  <2> SUFFICES ASSUME IInv, IInv', Next, NEW r \in Runs, NEW c \in Controllers,
                      phase[c][r] \in Working, phase'[c][r] = phase[c][r], ckpt[r] # "done"
               PROVE row'[r].owner = row[r].owner
    OBVIOUS
  <2>1. row[r].owner = c
    BY DEF IInv, WorkerHoldsLease, HoldsLease, EndRecorded
  <2>2. HoldsLease(c, r)' \/ EndRecorded(r)'
    BY DEF IInv, WorkerHoldsLease
  <2>3. ckpt'[r] # "done"
    <3>1. SUFFICES ASSUME NEW d \in Controllers, phase[d][r] = "running",
                          phase'[d][r] = "completed"
                   PROVE FALSE
      BY EndedByWorker DEF IInv
    <3>2. d = c
      BY <3>1 DEF IInv, SingleWriter, Workers, Working
    <3> QED
      BY <3>1, <3>2
  <2> QED
    BY <2>1, <2>2, <2>3 DEF HoldsLease, EndRecorded
<1> QED
  BY <1>1, Inductive, PTL DEF Spec, LeaseNotStolen

(* The protocol implements RunExecution: a claim begins a run nobody        *)
(* drives, and every other step only ends workers or records outcomes.      *)
THEOREM Implements == Spec => KeepsPromise
<1>1. Init => Promise!Init
  BY DEF Init, Promise!Init, Workers, Working, FreeRow
<1>2. IInv /\ IInv' /\ [Next]_vars => [Promise!Next]_Promise!vars
  <2> SUFFICES ASSUME IInv, IInv', Next PROVE [Promise!Next]_Promise!vars
    BY DEF vars, Promise!vars, Workers
  <2>a. phase \in [Controllers -> [Runs -> Phases]] /\ row \in [Runs -> Rows]
    BY DEF IInv, TypeOK
  <2>1. CASE \E c \in Controllers, r \in Runs, skew \in 0..MaxSkew : Claim(c, r, skew)
    <3>1. PICK c \in Controllers, r \in Runs, skew \in 0..MaxSkew : Claim(c, r, skew)
      BY <2>1
    <3>2. Workers(r) = {}
      BY <3>1, ClaimIsExclusive DEF Claim, Workers, Working, IInv
    <3>3. Workers(r)' = {c}
      BY <3>1, <3>2, <2>a DEF Claim, SetPhase, Workers, Working
    <3>4. \A q \in Runs : q # r => Workers(q)' = Workers(q)
      BY <3>1, <2>a DEF Claim, SetPhase, Workers
    <3>5. \A q \in Runs : row'[q].finished = row[q].finished
      <4>1. row[r].finished = FALSE
        <5>1. row[r].finished \in BOOLEAN
          BY <2>a, WrittenRows
        <5> QED
          BY <3>1, <5>1 DEF Claim, Claimable
      <4> QED
        BY <3>1, <4>1, <2>a DEF Claim, LeasedRow
    <3>6. ~row[r].finished
      BY <3>1 DEF Claim, Claimable
    <3>7. [q \in Runs |-> Workers(q)]' = [[q \in Runs |-> Workers(q)] EXCEPT ![r] = {c}]
      BY <3>3, <3>4
    <3> QED
      BY <3>1, <3>2, <3>5, <3>6, <3>7 DEF Promise!Next, Promise!Begin
  <2>2. CASE \A d \in Controllers, q \in Runs :
               phase'[d][q] \in Working => phase[d][q] \in Working
    <3>1. \A q \in Runs : Workers(q)' \subseteq Workers(q)
      BY <2>2 DEF Workers
    <3>2. \A q \in Runs : row[q].finished => row'[q].finished
      BY OutcomesStay DEF IInv
    <3> QED
      BY <3>1, <3>2 DEF Promise!Next, Promise!Settle, Workers
  <2> QED
    BY <2>1, <2>2, ClaimOrLeave DEF IInv
<1> QED
  BY <1>1, <1>2, Inductive, PTL DEF Spec, KeepsPromise, Promise!Spec

=============================================================================
