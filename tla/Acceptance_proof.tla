-------------------------- MODULE Acceptance_proof --------------------------
(* The acceptance scenario, for any runs, controllers and number of attempts and mishaps. *)
EXTENDS Acceptance, TLAPS

\* Where the supervisor has no run, knows its run, and has opened the run's journal.
Nowhere == {"idle", "register", "create"}
Opened == Places \ {"idle", "register", "create", "lost", "open"}
Closing == {"output", "write_audit", "report"}

\* The supervisor's part of the state goes with the place where it stands.
Standing ==
  /\ at \in Nowhere => run = None
  /\ at \in {"open"} \cup Opened => run \in Runs /\ phase[run] # "absent"
  /\ at \in Opened => journal[run] # None
  /\ at = "idle" <=> api = None
  /\ at \in {"start"} \cup Closing => api \notin alive
  /\ at \in {"operator", "recheck", "post", "record"} => shown \in Contents
  /\ at = "record" => <<run, shown>> \in asked

\* A run is executed by a controller that lives; a decision is taken up by its worker.
Driven ==
  /\ \A r \in Runs : driver[r] \in alive \cup {None}
  /\ \A r \in Runs : answered[r] => phase[r] = "risk_policy" /\ driver[r] \in alive
  /\ \A r \in Runs : phase[r] = "absent" => journal[r] = None /\ decisions[r] = <<>>

\* Only a killed supervisor leaves a controller behind.
Lone == "crash" \in mishaps \/ alive \subseteq {api}

TypeInv == TypeOK /\ Standing /\ Driven /\ Lone

-----------------------------------------------------------------------------
\* What the journal claims has happened.
Excused == mishaps \cap {"noise", "crash"} # {}

Restarting == {"stop", "start", "restarted", "recovery"}

Journalled ==
  /\ \A r \in Runs : journal[r] # None =>
       /\ journal[r].approved # None => \E c \in Contents : <<r, c>> \in asked
       /\ journal[r].observed => r \in revived \/ Excused
  /\ at \in {"restarted", "recovery"} /\ driver[run] = api => run \in revived
  /\ at \in Restarting /\ fresh => run \in revived \/ Excused

\* A report that calls a run ready, and success evidence, are of a run that is over.
Earned(r) ==
  /\ RunOk(r) /\ Len(decisions[r]) = 1
  /\ \E c \in Contents : <<r, c>> \in asked
  /\ r \in revived \/ Excused

Success(r) == output # None /\ output.kind = "success" /\ output.run = r

Reported ==
  /\ \A r \in Runs : report[r] = "ready" => Earned(r)
  /\ at \in {"audit", "output", "write_audit", "report"} => phase[run] = "converged"
  /\ \A r \in Runs : Success(r) => /\ phase[r] = "converged"
                                   /\ run = r => at \in {"write_audit", "report"}

-----------------------------------------------------------------------------
\* Between the interrupt that was found and the decision on it.
Asking == {"show", "operator", "recheck", "post"}
Undecided == Nowhere \cup Asking \cup Restarting
               \cup {"open", "merge_events", "merge_status", "count", "risk"}

Shown ==
  /\ \A r \in Runs : answered[r] => <<r, reviewed[r]>> \in asked
  /\ at \in Asking => phase[run] = "risk_policy" \/ decisions[run] # <<>>
  /\ at \in {"operator", "recheck", "post"} => shown = reviewed[run]

Approving ==
  /\ "crash" \in mishaps \/ (at \in Undecided => \A r \in Runs : ~answered[r])
  /\ "crash" \in mishaps \/ (at \in Asking => phase[run] = "risk_policy")
  /\ {"astray", "crash"} \subseteq mishaps \/ Shown

-----------------------------------------------------------------------------
\* The scenario as planned, as long as nothing has gone otherwise.
Over(r) == phase[r] \in Finished \cup {"absent"}
Decision(r) == Len(decisions[r]) = 1 /\ flag \in decisions[r][1]
Before == Undecided \ Nowhere
After == {"record", "converge"}
Auditing == {"audit"} \cup Closing

Planned ==
  /\ \A r \in Runs : r # run => Over(r)
  /\ at # "lost"
  /\ at = "open" => journal[run] = None
  /\ at \in Before =>
       decisions[run] = <<>> /\ phase[run] \in {"work", "risk_policy"} \cup Machine
  /\ at \in {"open", "merge_events", "merge_status", "count"} \cup Restarting =>
       phase[run] # "risk_policy"
  /\ at \in {"merge_events", "merge_status", "count"} \cup Restarting => ~journal[run].observed
  /\ at \in {"risk"} \cup Asking \cup After \cup Auditing => journal[run].observed
  /\ at \in {"recovery", "risk"} \cup Asking \cup After \cup Auditing =>
       journal[run].before # journal[run].after
  /\ at \in {"converge"} \cup Auditing => journal[run].approved # None
  /\ at \in Before \cup After /\ phase[run] = "risk_policy" =>
       flag \in flags[run] /\ content[run] = reviewed[run] /\ reviewed[run] \in Contents
  /\ at \in After =>
       \/ phase[run] = "risk_policy" /\ answered[run] /\ decisions[run] = <<>>
       \/ phase[run] \in {"work"} \cup Machine /\ Decision(run)
       \/ RunOk(run) /\ Decision(run)
  /\ at \in Auditing => RunOk(run) /\ Decision(run)
  /\ at \in Closing => checks = Lanes \cup {"evidence"}
  /\ verdict \notin {"failed", "rejected"}

AsPlanned == mishaps = {} => Planned

IInv == TypeInv /\ Journalled /\ Reported /\ Approving /\ AsPlanned

-----------------------------------------------------------------------------
(* Types. *)

LEMMA Constants == /\ None \notin Runs /\ None \notin Pids /\ None \notin Contents
                   /\ Retries \in Nat /\ MaxAttempts \in Nat
BY AcceptanceConstants

LEMMA KilledTyped ==
  ASSUME TypeOK, NEW c, Killed(c)
  PROVE  /\ alive' \subseteq alive /\ c \notin alive'
         /\ driver' \in [Runs -> Pids \cup {None}] /\ answered' \in [Runs -> BOOLEAN]
         /\ \A r \in Runs : /\ driver'[r] \in {driver[r], None} /\ (driver'[r] # c \/ c = None)
                            /\ driver[r] # c => driver'[r] = driver[r]
                            /\ answered'[r] => answered[r] /\ driver[r] # c
         /\ UNCHANGED <<phase, merged, flags, reviewed, content, decisions, defects>>
<1>1. driver' = [r \in Runs |-> IF driver[r] = c THEN None ELSE driver[r]]
  BY DEF Killed
<1>2. answered' = [r \in Runs |-> answered[r] /\ driver[r] # c] BY DEF Killed
<1>3. driver' \in [Runs -> Pids \cup {None}] BY <1>1 DEF TypeOK
<1>4. answered' \in [Runs -> BOOLEAN] BY <1>2
<1>5. \A r \in Runs : answered'[r] => answered[r] /\ driver[r] # c BY <1>2
<1>6. \A r \in Runs : /\ driver'[r] \in {driver[r], None} /\ (driver'[r] # c \/ c = None)
                      /\ driver[r] # c => driver'[r] = driver[r]
  BY <1>1
<1>7. QED BY <1>3, <1>4, <1>5, <1>6 DEF Killed

LEMMA LeavesTyped ==
  ASSUME Leaves("failed") \/ Leaves("ready") \/ Leaves("rejected")
  PROVE  /\ at' = "idle" /\ api' = None /\ run' = None /\ old' = None /\ shown' = None
         /\ checks' = {} /\ tries' = 0 /\ fresh' = FALSE /\ flag' = flag
BY DEF Leaves, Goes

LEMMA NeedsTyped ==
  ASSUME TypeOK, NEW why \in SUBSET Mishaps, Needs(why) PROVE mishaps' \subseteq Mishaps
BY DEF Needs, TypeOK

LEMMA FailTyped ==
  ASSUME TypeOK, NEW why \in SUBSET Mishaps, Fail(why) PROVE TypeOK'
<1>1. Killed(api) /\ Leaves("failed") BY DEF Fail
<1>2. \/ output' = output
      \/ run # None /\ output' = [kind |-> "failure", run |-> run]
  BY DEF Fail
<1>3. \/ output' = None
      \/ output' \in [kind : {"failure"}, run : Runs]
      \/ output' \in [kind : {"success"}, run : Runs, evidence : Evidence]
  BY <1>2 DEF TypeOK
<1>4. QED BY <1>1, <1>3, KilledTyped, LeavesTyped, Constants DEF Fail, TypeOK, Places, Waits

\* What a step of a run leaves alone.
RunFrame == UNCHANGED <<alive, project, journal, output, audit, report, at, api, run, flag, old, shown,
                        checks, tries, attempts, verdict, revived, asked>>

LEMMA EventsTyped ==
  ASSUME TypeOK, NEW r \in Runs, NEW why \in SUBSET Mishaps, Events(r, why)
  PROVE  fresh' \in BOOLEAN /\ mishaps' \subseteq Mishaps
BY DEF Events, Needs, TypeOK, Mishaps

LEMMA RunTyped == ASSUME TypeOK, RunStep PROVE TypeOK'
<1> USE DEF diskVars
<1>1. PICK r \in Runs : \/ Merge(r) \/ WaitForMachine(r) \/ RaiseRisk(r)
                        \/ RaiseOther(r) \/ Finish(r) \/ TakeUp(r)
  BY DEF RunStep
<1>2. RunFrame BY DEF RunStep, RunFrame
<1>3. {} \in SUBSET Mishaps /\ {"astray"} \in SUBSET Mishaps BY DEF Mishaps
<1>4. fresh' \in BOOLEAN /\ mishaps' \subseteq Mishaps
  <2>1. \E why \in {{}, {"astray"}} : Events(r, why)
    BY <1>1 DEF Merge, WaitForMachine, RaiseRisk, RaiseOther, Finish, TakeUp
  <2>2. QED BY <1>3, <2>1, EventsTyped
<1>5. CASE Merge(r) BY <1>2, <1>4, <1>5 DEF Merge, RunFrame, TypeOK
<1>6. CASE WaitForMachine(r)
  BY <1>2, <1>4, <1>6 DEF WaitForMachine, Interrupted, Machine, Phases, RunFrame, TypeOK
<1>7. CASE RaiseRisk(r)
  BY <1>2, <1>4, <1>7 DEF RaiseRisk, Interrupted, Phases, RunFrame, TypeOK
<1>8. CASE RaiseOther(r)
  BY <1>2, <1>4, <1>8 DEF RaiseOther, Interrupted, Phases, RunFrame, TypeOK
<1>9. CASE Finish(r)
  <2>1. PICK end \in Finished, d \in {{}} \cup {{c} : c \in TaskChecks \cup RunChecks} :
          Interrupted(r, end) /\ defects' = [defects EXCEPT ![r] = d]
    BY <1>9 DEF Finish
  <2>2. d \in SUBSET (TaskChecks \cup RunChecks) BY <2>1
  <2>3. QED BY <1>2, <1>4, <1>9, <2>1, <2>2 DEF Finish, Interrupted, Phases, RunFrame, TypeOK
<1>10. CASE TakeUp(r)
  <2>1. Append(decisions[r], flags[r]) \in Seq(SUBSET Flags) BY DEF TypeOK
  <2>2. decisions' \in [Runs -> Seq(SUBSET Flags)] BY <1>10, <2>1 DEF TakeUp, TypeOK
  <2>3. QED BY <1>2, <1>4, <1>10, <2>2 DEF TakeUp, Phases, RunFrame, TypeOK
<1>11. QED BY <1>1, <1>5, <1>6, <1>7, <1>8, <1>9, <1>10

LEMMA ProgressTyped ==
  ASSUME TypeOK, NEW p \in Progress, run \in Runs
  PROVE  [journal EXCEPT ![run] = p] \in [Runs -> Progress \cup {None}]
BY DEF TypeOK

LEMMA EmittedTyped ==
  ASSUME TypeOK, run \in Runs, journal[run] # None
  PROVE  Emitted \in Evidence
<1>1. journal[run] \in Progress BY DEF TypeOK
<1>2. QED BY <1>1 DEF TypeOK, Emitted, Evidence, Progress

\* The answer of a wait: the supervisor goes on, or stays, or fails.
LEMMA MovesTyped ==
  ASSUME TypeOK, Moves, at' \in Places, tries' \in {0, tries} PROVE TypeOK'
BY Constants DEF Moves, runVars, diskVars, historyVars, TypeOK

LEMMA BlamesTyped == Blames \in SUBSET Mishaps
BY DEF Blames, Mishaps

LEMMA SupervisorTyped == ASSUME TypeOK, Standing, Supervisor PROVE TypeOK'
<1> USE DEF runVars, diskVars, historyVars, Places, Waits, Goes
<1>0. \A why \in SUBSET Mishaps : Fail(why) => TypeOK' BY FailTyped
<1>00. /\ {} \in SUBSET Mishaps /\ {"transport"} \in SUBSET Mishaps /\ {"timeout"} \in SUBSET Mishaps
       /\ {"death"} \in SUBSET Mishaps /\ {"same_pid"} \in SUBSET Mishaps
       /\ {"audit"} \in SUBSET Mishaps /\ {"declined"} \in SUBSET Mishaps
       /\ Blames \in SUBSET Mishaps
  BY BlamesTyped DEF Mishaps
<1> SUFFICES ASSUME \A why \in SUBSET Mishaps : ~Fail(why) PROVE TypeOK'
  BY <1>0
<1>1. CASE ReadFails
  <2>1. tries < Retries => tries + 1 \in 0..Retries BY Constants DEF TypeOK
  <2>2. QED BY <1>00, <1>1, <2>1 DEF ReadFails, TypeOK
<1>2. CASE TimesOut \/ Lost BY <1>00, <1>2 DEF TimesOut, Lost
<1>3. CASE Register
  <2>1. /\ project' = TRUE /\ at' = "create" /\ tries' = 0
        /\ UNCHANGED <<phase, driver, merged, flags, reviewed, content, answered, decisions,
                        defects, alive, journal, output, audit, report, api, run,
                        flag, old, fresh, shown, checks, attempts, mishaps>>
    BY <1>00, <1>3 DEF Register, Answers
  <2>2. QED BY <2>1, Constants DEF TypeOK
<1>4. CASE Create
  <2>1. TypeOK'
    <3>1. PICK r \in Runs : /\ Submitted(r) /\ run' \in {r, run} /\ at' \in {"open", "lost"}
                            /\ mishaps' = mishaps \/ Needs({"transport"})
      BY <1>00, <1>4 DEF Create
    <3>2. mishaps' \subseteq Mishaps BY <1>00, <3>1, NeedsTyped DEF TypeOK
    <3>3. phase' \in [Runs -> Phases] /\ driver' \in [Runs -> Pids \cup {None}]
      BY <3>1 DEF Submitted, Phases, TypeOK
    <3>4. /\ UNCHANGED <<merged, flags, reviewed, content, answered, decisions, defects, alive,
                          project, journal, output, audit, report, api, flag, old,
                          fresh, shown, checks, tries, attempts>>
      BY <1>00, <1>4 DEF Create, Submitted
    <3>5. QED BY <3>1, <3>2, <3>3, <3>4 DEF TypeOK
  <2>3. QED BY <2>1
<1>5. CASE Open
  <2>1. run \in Runs BY <1>5 DEF Open, Standing
  <2>2. NoProgress \in Progress BY DEF NoProgress, Progress, TypeOK
  <2>3. [journal EXCEPT ![run] = NoProgress] \in [Runs -> Progress \cup {None}]
    BY <2>1, <2>2, ProgressTyped
  <2>4. /\ journal' \in {journal, [journal EXCEPT ![run] = NoProgress]} /\ at' \in Places
        /\ UNCHANGED <<phase, driver, merged, flags, reviewed, content, answered, decisions,
                        defects, alive, project, output, audit, report, api, run,
                        flag, old, fresh, shown, checks, tries, attempts, mishaps>>
    BY <1>00, <1>5 DEF Open, Saves
  <2>5. QED BY <2>3, <2>4 DEF TypeOK
<1>6. CASE ReadMerges \/ AskBeforeMerge \/ AskRisk \/ Recheck \/ AskConverged
  <2>1. Moves /\ at' \in Places /\ tries' \in {0, tries}
    BY <1>00, <1>6 DEF ReadMerges, AskBeforeMerge, AskRisk, Recheck, AskConverged, Answers
  <2>2. QED BY <1>0, <2>1, MovesTyped
<1>7. CASE Count \/ Show
  <2>1. /\ at' \in {"stop", "operator"} /\ fresh' \in {FALSE, fresh} /\ old' \in {api, old}
        /\ shown' \in {shown} \cup {content[r] : r \in Runs}
        /\ UNCHANGED <<phase, driver, merged, flags, reviewed, content, answered, decisions,
                        defects, alive, project, journal, output, audit, report, api,
                        run, flag, checks, tries, attempts, mishaps>>
    BY <1>00, <1>7, Constants DEF Count, Show, Fingerprint, Standing, Opened, TypeOK
  <2>2. shown' \in Contents \cup {None} BY <2>1 DEF TypeOK
  <2>3. old' \in Pids \cup {None} /\ fresh' \in BOOLEAN BY <2>1 DEF TypeOK
  <2>4. at' \in Places BY <2>1
  <2> HIDE DEF Places, Waits
  <2>5. QED BY <2>1, <2>2, <2>3, <2>4 DEF TypeOK
<1>8. CASE Stop BY <1>8, KilledTyped DEF Stop, TypeOK
<1>9. CASE Start BY <1>00, <1>9 DEF Start, TypeOK
<1>10. CASE Restarted
  <2> DEFINE p == [journal[run] EXCEPT !.restarted = TRUE, !.before = old, !.after = api]
  <2>1. run \in Runs /\ journal[run] \in Progress
    BY <1>10 DEF Restarted, Standing, Opened, TypeOK
  <2>2. p \in Progress BY <2>1 DEF Progress, TypeOK
  <2>3. [journal EXCEPT ![run] = p] \in [Runs -> Progress \cup {None}]
    BY <2>1, <2>2, ProgressTyped
  <2>4. /\ journal' = [journal EXCEPT ![run] = p] /\ at' = "recovery"
        /\ UNCHANGED <<phase, driver, merged, flags, reviewed, content, answered, decisions,
                        defects, alive, project, output, audit, report, api, run,
                        flag, old, fresh, shown, checks, tries, attempts, mishaps>>
    BY <1>00, <1>10 DEF Restarted, Saves
  <2>5. QED BY <2>3, <2>4 DEF TypeOK
<1>11. CASE AskRecovery
  <2> DEFINE p == [journal[run] EXCEPT !.observed = TRUE]
  <2>1. run \in Runs /\ journal[run] \in Progress
    BY <1>11 DEF AskRecovery, Standing, Opened, TypeOK
  <2>2. p \in Progress BY <2>1 DEF Progress
  <2>3. [journal EXCEPT ![run] = p] \in [Runs -> Progress \cup {None}]
    BY <2>1, <2>2, ProgressTyped
  <2>4. CASE Saves(p) /\ at' = "risk"
    BY <1>11, <2>3, <2>4, Constants DEF AskRecovery, Answers, Saves, Moves, TypeOK
  <2>6. CASE UNCHANGED at /\ Moves
    BY <1>11, <2>6, MovesTyped DEF AskRecovery, Answers, TypeOK
  <2>7. QED BY <1>11, <2>4, <2>6, <1>00 DEF AskRecovery
<1>12. CASE Post
  <2>1. TypeOK'
    <3>1. /\ Decided /\ at' \in {"record", "lost"}
          /\ mishaps' = mishaps \/ Needs({"transport"})
      BY <1>00, <1>12 DEF Post
    <3>2. mishaps' \subseteq Mishaps BY <1>00, <3>1, NeedsTyped DEF TypeOK
    <3>3. answered' \in [Runs -> BOOLEAN] /\ driver' \in [Runs -> Pids \cup {None}]
      BY <3>1 DEF Decided, TypeOK
    <3>4. QED BY <1>00, <1>12, <3>1, <3>2, <3>3 DEF Post, Decided, TypeOK
  <2>3. QED BY <2>1
<1>13. CASE Record
  <2> DEFINE p == [journal[run] EXCEPT !.approved = shown]
  <2>1. run \in Runs /\ journal[run] \in Progress
    BY <1>13 DEF Record, Standing, Opened, TypeOK
  <2>2. p \in Progress BY <2>1 DEF Progress, TypeOK
  <2>3. [journal EXCEPT ![run] = p] \in [Runs -> Progress \cup {None}]
    BY <2>1, <2>2, ProgressTyped
  <2>4. QED BY <1>13, <2>3 DEF Record, Saves, TypeOK
<1>14. CASE Audit
  <2>1. TypeOK'
    <3>1. PICK passed \in {Lanes} \cup {Lanes \ {l} : l \in Lanes} :
            /\ Needs(IF passed = Lanes THEN {} ELSE {"audit"})
            /\ checks' = passed \cup
                           (IF RunOk(run) /\ RestartOk(run, Emitted) /\ HitlOk(run, Emitted)
                            THEN {"evidence"} ELSE {})
            /\ Killed(api) /\ at' = "output"
            /\ UNCHANGED <<diskVars, api, run, flag, old, fresh, shown, tries, attempts, verdict,
                           revived, asked>>
      BY <1>00, <1>14 DEF Audit
    <3>2. mishaps' \subseteq Mishaps BY <1>00, <3>1, NeedsTyped
    <3>3. checks' \subseteq Lanes \cup {"evidence"} BY <3>1
    <3>4. QED BY <3>1, <3>2, <3>3, KilledTyped DEF TypeOK
  <2>3. QED BY <2>1
<1>15. CASE WriteOutput
  <2>1. run \in Runs /\ Emitted \in Evidence
    BY <1>15, EmittedTyped DEF WriteOutput, Standing, Opened
  <2>2. output' \in [kind : {"success"}, run : Runs, evidence : Evidence]
    BY <1>15, <2>1 DEF WriteOutput
  <2>3. QED BY <1>15, <2>2 DEF WriteOutput, TypeOK
<1>16. CASE WriteAudit BY <1>16 DEF WriteAudit, Standing, Opened, TypeOK
<1>17. CASE WriteReport
  <2>1. \E result \in {"ready", "rejected"} :
          report' = [report EXCEPT ![run] = result] /\ Leaves(result)
    BY <1>17 DEF WriteReport
  <2>2. /\ at' = "idle" /\ api' = None /\ run' = None /\ old' = None /\ shown' = None
        /\ checks' = {} /\ tries' = 0 /\ fresh' = FALSE /\ flag' = flag
    BY <2>1, LeavesTyped
  <2>3. run \in Runs BY <1>17 DEF WriteReport, Standing, Opened
  <2>4. report' \in [Runs -> {None, "ready", "rejected"}] BY <2>1, <2>3 DEF TypeOK
  <2>5. /\ UNCHANGED <<phase, driver, merged, flags, reviewed, content, answered, decisions,
                        defects, alive, project, journal, output, audit, attempts,
                        mishaps>>
    BY <1>17 DEF WriteReport
  <2>6. at' \in Places BY <2>2
  <2> HIDE DEF Places, Waits
  <2>8. flag' \in Flags BY <2>2 DEF TypeOK
  <2>9. /\ {api', old'} \subseteq Pids \cup {None} /\ run' \in Runs \cup {None}
        /\ fresh' \in BOOLEAN /\ shown' \in Contents \cup {None}
        /\ checks' \subseteq Lanes \cup {"evidence"}
    BY <2>2
  <2>11. tries' \in 0..Retries BY <2>2, Constants
  <2>10. QED BY <2>4, <2>5, <2>6, <2>8, <2>9, <2>11 DEF TypeOK
<1>18. QED
  BY <1>1, <1>2, <1>3, <1>4, <1>5, <1>6, <1>7, <1>8, <1>9, <1>10, <1>11, <1>12, <1>13, <1>14,
     <1>15, <1>16, <1>17 DEF Supervisor

LEMMA TypeStep == ASSUME TypeOK, Standing, [Next]_vars PROVE TypeOK'
<1> USE DEF runVars, diskVars, procVars, historyVars, Places, Goes
<1>0. /\ {"declined"} \in SUBSET Mishaps /\ {"escape"} \in SUBSET Mishaps
      /\ {"crash"} \in SUBSET Mishaps /\ {"edit"} \in SUBSET Mishaps
      /\ {"death"} \in SUBSET Mishaps
  BY DEF Mishaps
<1>1. CASE RunStep BY <1>1, RunTyped
<1>2. CASE Supervisor BY <1>2, SupervisorTyped
<1>3. CASE Begin
  <2>1. attempts' \in 0..MaxAttempts BY <1>3, Constants DEF Begin, TypeOK
  <2>2. run' \in Runs \cup {None} /\ at' \in Places
    BY <1>3 DEF Begin, Unfinisheds
  <2>3. alive' \subseteq Pids /\ api' \in Pids BY <1>3 DEF Begin, TypeOK
  <2>4. QED BY <1>3, <2>1, <2>2, <2>3 DEF Begin, TypeOK
<1>4. CASE Operator
  <2>1. CASE Fail({"declined"}) BY <1>0, <2>1, FailTyped
  <2>2. CASE ~Fail({"declined"}) BY <1>4, <2>2 DEF Operator, TypeOK
  <2>3. QED BY <2>1, <2>2
<1>5. CASE Escapes
  <2>1. mishaps' \subseteq Mishaps BY <1>0, <1>5, NeedsTyped DEF Escapes
  <2>2. QED BY <1>5, <2>1, KilledTyped, LeavesTyped, Constants DEF Escapes, TypeOK
<1>6. CASE Crash
  <2>1. mishaps' \subseteq Mishaps BY <1>0, <1>6, NeedsTyped DEF Crash
  <2>2. QED BY <1>6, <2>1, LeavesTyped, Constants DEF Crash, TypeOK
<1>7. ASSUME NEW c \in alive, NEW r \in Runs, Recover(c, r) PROVE TypeOK'
  BY <1>7 DEF Recover, Phases, TypeOK
<1>8. ASSUME NEW r \in Runs, Edit(r) PROVE TypeOK'
  <2>1. mishaps' \subseteq Mishaps BY <1>0, <1>8, NeedsTyped DEF Edit
  <2>2. QED BY <1>8, <2>1 DEF Edit, TypeOK
<1>9. ASSUME NEW c \in alive, Dies(c) PROVE TypeOK'
  <2>1. mishaps' \subseteq Mishaps BY <1>0, <1>9, NeedsTyped DEF Dies
  <2>2. QED BY <1>9, <2>1, KilledTyped DEF Dies, TypeOK
<1>10. CASE UNCHANGED vars BY <1>10 DEF vars, TypeOK
<1>11. QED BY <1>1, <1>2, <1>3, <1>4, <1>5, <1>6, <1>7, <1>8, <1>9, <1>10 DEF Next

-----------------------------------------------------------------------------
(* The supervisor's place, and who executes what. *)

LEMMA InitTypeInv == Init => TypeInv
<1> SUFFICES ASSUME Init PROVE TypeInv OBVIOUS
<1> USE DEF Init
<1>1. [r \in Runs |-> <<>>] \in [Runs -> Seq(SUBSET Flags)] OBVIOUS
<1>a. /\ phase \in [Runs -> Phases] /\ driver \in [Runs -> Pids \cup {None}]
      /\ merged \in [Runs -> SUBSET Tasks] /\ flags \in [Runs -> SUBSET Flags]
      /\ {reviewed, content} \subseteq [Runs -> Contents \cup {None}]
      /\ answered \in [Runs -> BOOLEAN] /\ decisions \in [Runs -> Seq(SUBSET Flags)]
      /\ defects \in [Runs -> SUBSET (TaskChecks \cup RunChecks)]
  BY <1>1 DEF Phases
<1>b. journal \in [Runs -> Progress \cup {None}] OBVIOUS
<1>c. audit \in [Runs -> (SUBSET (Lanes \cup {"evidence"})) \cup {None}]
  <2> DEFINE Verdicts == (SUBSET (Lanes \cup {"evidence"})) \cup {None}
  <2>1. None \in Verdicts OBVIOUS
  <2> HIDE DEF Verdicts
  <2>2. audit \in [Runs -> Verdicts] BY <2>1
  <2>3. QED BY <2>2 DEF Verdicts
<1>d. report \in [Runs -> {None, "ready", "rejected"}] OBVIOUS
<1>e. at \in Places BY DEF Places
<1>f. tries \in 0..Retries /\ attempts \in 0..MaxAttempts BY Constants
<1>2. TypeOK BY <1>a, <1>b, <1>c, <1>d, <1>e, <1>f DEF TypeOK
<1>3. Standing BY DEF Standing, Nowhere, Opened, Closing
<1>4. Driven /\ Lone BY DEF Driven, Lone
<1>5. QED BY <1>2, <1>3, <1>4 DEF TypeInv

\* A controller is gone.
LEMMA KilledDriven ==
  ASSUME TypeOK, Driven, NEW c, Killed(c), UNCHANGED journal PROVE Driven'
<1>1. alive' = alive \ {c} BY DEF Killed
<1>2. \A r \in Runs : /\ driver'[r] \in {driver[r], None} /\ (driver'[r] # c \/ c = None)
                      /\ driver[r] # c => driver'[r] = driver[r]
                      /\ answered'[r] => answered[r] /\ driver[r] # c
  BY KilledTyped
<1>3. UNCHANGED <<phase, decisions>> BY DEF Killed
<1>4. alive \subseteq Pids BY DEF TypeOK
<1>5. QED BY <1>1, <1>2, <1>3, <1>4, Constants DEF Driven

\* The supervisor is over.
LEMMA IdleStands ==
  ASSUME at' = "idle", run' = None, api' = None PROVE Standing'
BY DEF Standing, Nowhere, Opened, Closing

LEMMA FailStands ==
  ASSUME TypeInv, NEW why, Fail(why) PROVE Standing' /\ Driven' /\ Lone'
<1>1. Killed(api) /\ Leaves("failed") /\ UNCHANGED journal /\ mishaps \subseteq mishaps' BY DEF Fail
<1>2. Standing' BY <1>1, LeavesTyped, IdleStands
<1>3. Driven' BY <1>1, KilledDriven DEF TypeInv
<1>4. alive' = alive \ {api} BY <1>1 DEF Killed
<1>5. Lone' BY <1>1, <1>4 DEF TypeInv, Lone
<1>6. QED BY <1>2, <1>3, <1>5

\* A run does something, or is taken up.
LEMMA RunStands ==
  ASSUME TypeInv, NEW r \in Runs,
         UNCHANGED <<at, api, run, alive, journal, shown>>, mishaps \subseteq mishaps',
         asked \subseteq asked',
         \A q \in Runs \ {r} :
           UNCHANGED <<phase[q], driver[q], answered[q], decisions[q]>>,
         phase'[r] # "absent", phase[r] # "absent", driver'[r] \in alive \cup {None},
         answered'[r] => phase'[r] = "risk_policy" /\ driver'[r] \in alive
  PROVE  Standing' /\ Driven' /\ Lone'
<1>1. Standing' BY DEF TypeInv, Standing, Closing
<1>2. Driven' BY DEF TypeInv, Driven
<1>3. Lone' BY DEF TypeInv, Lone
<1>4. QED BY <1>1, <1>2, <1>3

\* What a run does while it is executed.
LEMMA RunEffect ==
  ASSUME TypeInv, NEW r \in Runs,
         \/ Merge(r) \/ WaitForMachine(r) \/ RaiseRisk(r) \/ RaiseOther(r) \/ Finish(r) \/ TakeUp(r)
  PROVE  /\ \A q \in Runs \ {r} :
              UNCHANGED <<phase[q], driver[q], merged[q], flags[q], reviewed[q], content[q],
                          answered[q], decisions[q], defects[q]>>
         /\ \E why \in SUBSET Mishaps : Events(r, why)
         /\ phase[r] \in {"work", "risk_policy"} /\ driver[r] \in alive
         /\ phase'[r] \in Phases \ {"absent"} /\ driver'[r] \in {driver[r], None}
         /\ ~answered'[r]
<1>0. TypeOK /\ Driven BY DEF TypeInv
<1>1. {} \in SUBSET Mishaps /\ {"astray"} \in SUBSET Mishaps BY DEF Mishaps
<1>2. CASE TakeUp(r)
  <2>1. phase[r] = "risk_policy" /\ driver[r] \in alive BY <1>0, <1>2 DEF TakeUp, Driven
  <2>2. QED BY <1>0, <1>1, <1>2, <2>1 DEF TakeUp, TypeOK, Phases
<1>3. CASE \/ Merge(r) \/ WaitForMachine(r) \/ RaiseRisk(r) \/ RaiseOther(r) \/ Finish(r)
  <2>1. Works(r) /\ UNCHANGED <<answered, decisions>>
    BY <1>3 DEF Merge, WaitForMachine, RaiseRisk, RaiseOther, Finish
  <2>2. ~answered[r] /\ phase[r] = "work" /\ driver[r] \in alive
    BY <1>0, <2>1 DEF Works, Driven
  <2>3. \E why \in SUBSET Mishaps : Events(r, why)
    BY <1>1, <1>3 DEF Merge, WaitForMachine, RaiseRisk, RaiseOther, Finish
  <2>4. CASE Merge(r)
    BY <1>0, <2>1, <2>2, <2>3, <2>4 DEF Merge, TypeOK, Phases
  <2>5. CASE WaitForMachine(r)
    BY <1>0, <2>1, <2>2, <2>3, <2>5 DEF WaitForMachine, Interrupted, Machine, TypeOK, Phases
  <2>6. CASE RaiseRisk(r)
    BY <1>0, <2>1, <2>2, <2>3, <2>6 DEF RaiseRisk, Interrupted, TypeOK, Phases
  <2>7. CASE RaiseOther(r)
    BY <1>0, <2>1, <2>2, <2>3, <2>7 DEF RaiseOther, Interrupted, TypeOK, Phases
  <2>8. CASE Finish(r)
    <3>1. PICK end \in Finished, d \in {{}} \cup {{c} : c \in TaskChecks \cup RunChecks} :
            Interrupted(r, end) /\ defects' = [defects EXCEPT ![r] = d]
      BY <2>8 DEF Finish
    <3>2. QED BY <1>0, <2>1, <2>2, <2>3, <2>8, <3>1
              DEF Finish, Finished, Interrupted, TypeOK, Phases
  <2>9. QED BY <1>3, <2>4, <2>5, <2>6, <2>7, <2>8
<1>4. QED BY <1>2, <1>3

\* The supervisor's steps that only go to another place, and what they find out.
LEMMA SupervisorStands ==
  ASSUME TypeInv, Supervisor PROVE Standing' /\ Driven' /\ Lone'
<1> USE DEF runVars, diskVars, historyVars, Goes
<1>0. TypeOK /\ Standing /\ Driven /\ Lone BY DEF TypeInv
<1> SUFFICES ASSUME \A why \in SUBSET Mishaps : ~Fail(why) PROVE Standing' /\ Driven' /\ Lone'
  BY FailStands
<1>00. /\ {} \in SUBSET Mishaps /\ {"transport"} \in SUBSET Mishaps /\ {"timeout"} \in SUBSET Mishaps
       /\ {"death"} \in SUBSET Mishaps /\ {"same_pid"} \in SUBSET Mishaps
       /\ {"audit"} \in SUBSET Mishaps /\ {"declined"} \in SUBSET Mishaps
       /\ Blames \in SUBSET Mishaps
  BY BlamesTyped DEF Mishaps
<1>a. ASSUME UNCHANGED <<phase, driver, answered, decisions, alive, journal, api, mishaps>>
      PROVE  Driven' /\ Lone'
  BY <1>0, <1>a DEF Driven, Lone
<1>b. ASSUME UNCHANGED <<phase, driver, answered, decisions, alive, api, mishaps>>, run \in Runs,
             phase[run] # "absent", \A q \in Runs \ {run} : journal'[q] = journal[q]
      PROVE  Driven' /\ Lone'
  BY <1>0, <1>b DEF Driven, Lone
<1> DEFINE Known == run \in Runs /\ phase[run] # "absent" /\ run # None /\ api # None
<1>c. at \in {"open"} \cup Opened => Known
  BY <1>0, Constants DEF Standing, Opened
<1>1. CASE ReadFails \/ ReadMerges \/ AskBeforeMerge \/ AskRisk \/ Recheck \/ AskConverged
  <2>1. /\ UNCHANGED <<phase, driver, answered, decisions, alive, journal, run, shown, api, mishaps,
                       asked>>
        /\ at \in Opened
        /\ \/ at' = at
           \/ at' \in {"count", "merge_status", "merge_events", "show", "risk", "audit", "converge"}
           \/ at = "recheck" /\ at' = "post"
    BY <1>00, <1>1 DEF ReadFails, ReadMerges, AskBeforeMerge, AskRisk, Recheck, AskConverged,
                       Moves, Waits, Opened, Places
  <2>2. Standing'
    BY <1>0, <1>c, <2>1 DEF Standing, Nowhere, Opened, Closing
  <2>3. QED BY <1>a, <2>1, <2>2
<1>2. CASE TimesOut \/ Lost BY <1>00, <1>2 DEF TimesOut, Lost
<1>3. CASE Register
  <2>1. /\ UNCHANGED <<phase, driver, answered, decisions, alive, journal, run, shown, api, mishaps,
                       asked>>
        /\ at = "register" /\ at' = "create"
    BY <1>00, <1>3 DEF Register, Answers
  <2>2. Standing' BY <1>0, <2>1 DEF Standing, Nowhere, Opened, Closing
  <2>3. QED BY <1>a, <2>1, <2>2
<1>4. CASE Create
  <2>1. PICK r \in Runs : /\ Submitted(r) /\ at = "create"
                          /\ (run' = r /\ at' = "open") \/ (run' = run /\ at' = "lost")
                          /\ mishaps \subseteq mishaps'
                          /\ UNCHANGED <<alive, journal, shown, api, asked>>
    BY <1>00, <1>4 DEF Create, Needs
  <2>2. /\ phase[r] = "absent" /\ phase'[r] = "work" /\ driver'[r] = api /\ api \in alive
        /\ \A q \in Runs \ {r} : UNCHANGED <<phase[q], driver[q]>>
        /\ UNCHANGED <<answered, decisions>>
    BY <1>0, <2>1 DEF Submitted, TypeOK
  <2>3. Standing' BY <1>0, <2>1, <2>2, Constants DEF Standing, Nowhere, Opened, Closing
  <2>4. Driven' BY <1>0, <2>1, <2>2 DEF Driven
  <2>5. Lone' BY <1>0, <2>1 DEF Lone
  <2>6. QED BY <2>3, <2>4, <2>5
<1>5. CASE Open
  <2>1. /\ UNCHANGED <<phase, driver, answered, decisions, alive, run, shown, api, mishaps, asked>>
        /\ at = "open" /\ at' \in {"merge_events", "risk", "converge"}
        /\ \/ journal' = [journal EXCEPT ![run] = NoProgress]
           \/ journal' = journal /\ journal[run] # None
    BY <1>00, <1>5 DEF Open, Saves
  <2>2. NoProgress \in Progress BY <1>0 DEF NoProgress, Progress, TypeOK
  <2>3. Known BY <1>c, <2>1
  <2>4. journal'[run] # None /\ \A q \in Runs \ {run} : journal'[q] = journal[q]
    BY <1>0, <2>1, <2>2, <2>3, Absent DEF TypeOK
  <2>5. Standing' BY <2>1, <2>3, <2>4 DEF Standing, Nowhere, Opened, Closing
  <2>6. QED BY <1>b, <2>1, <2>3, <2>4, <2>5
<1>6. CASE Count \/ Show
  <2>1. /\ UNCHANGED <<phase, driver, answered, decisions, alive, journal, run, api, mishaps, asked>>
        /\ \/ at = "count" /\ at' = "stop"
           \/ at = "show" /\ at' = "operator" /\ shown' = content[run] /\ content[run] # None
    BY <1>00, <1>6 DEF Count, Show, Fingerprint
  <2>2. Known BY <1>c, <2>1 DEF Opened, Places, Waits
  <2>3. content[run] \in Contents \cup {None} BY <1>0, <2>2 DEF TypeOK
  <2>4. journal[run] # None BY <1>0, <2>1 DEF Standing, Opened, Places, Waits
  <2>5. Standing' BY <2>1, <2>2, <2>3, <2>4 DEF Standing, Nowhere, Opened, Closing
  <2>6. QED BY <1>a, <2>1, <2>5
<1>7. CASE Stop
  <2>1. /\ Killed(api) /\ at = "stop" /\ at' = "start"
        /\ UNCHANGED <<journal, run, api, mishaps>>
    BY <1>7 DEF Stop
  <2>2. Known /\ journal[run] # None BY <1>0, <1>c, <2>1 DEF Standing, Opened, Places, Waits
  <2>3. phase' = phase /\ alive' = alive \ {api} BY <2>1 DEF Killed
  <2>4. Standing' BY <2>1, <2>2, <2>3 DEF Standing, Nowhere, Opened, Closing
  <2>5. Driven' BY <1>0, <2>1, KilledDriven
  <2>6. Lone' BY <1>0, <2>1, <2>3 DEF Lone
  <2>7. QED BY <2>4, <2>5, <2>6
<1>8. CASE Start
  <2>1. PICK p \in Pids \ alive : api' = p /\ alive' = alive \cup {p} BY <1>00, <1>8 DEF Start
  <2>2. /\ at = "start" /\ at' = "restarted"
        /\ UNCHANGED <<phase, driver, answered, decisions, journal, run, mishaps>>
    BY <1>00, <1>8 DEF Start
  <2>3. Known /\ journal[run] # None BY <1>0, <1>c, <2>2 DEF Standing, Opened, Places, Waits
  <2>4. Standing' BY <2>1, <2>2, <2>3, Constants DEF Standing, Nowhere, Opened, Closing
  <2>5. Driven' BY <1>0, <2>1, <2>2 DEF Driven
  <2>6. Lone' BY <1>0, <2>1, <2>2 DEF Lone, Standing
  <2>7. QED BY <2>4, <2>5, <2>6
<1>9. CASE Restarted \/ AskRecovery \/ Record
  <2>1. /\ UNCHANGED <<phase, driver, answered, decisions, alive, run, shown, api, mishaps, asked>>
        /\ at \in {"restarted", "recovery", "record"}
        /\ at' \in {"recovery", "risk", "converge"}
        /\ \/ journal' = journal
           \/ \E p \in {[journal[run] EXCEPT !.restarted = TRUE, !.before = old, !.after = api],
                        [journal[run] EXCEPT !.observed = TRUE],
                        [journal[run] EXCEPT !.approved = shown]} :
                journal' = [journal EXCEPT ![run] = p]
    BY <1>00, <1>9 DEF Restarted, AskRecovery, Record, Saves, Moves
  <2>2. Known /\ journal[run] # None BY <1>0, <1>c, <2>1 DEF Standing, Opened, Places, Waits
  <2>3. journal[run] \in Progress BY <1>0, <2>2 DEF TypeOK
  <2>4. /\ [journal[run] EXCEPT !.restarted = TRUE, !.before = old, !.after = api] \in Progress
        /\ [journal[run] EXCEPT !.observed = TRUE] \in Progress
        /\ [journal[run] EXCEPT !.approved = shown] \in Progress
    BY <1>0, <2>3 DEF Progress, TypeOK
  <2>5. journal'[run] # None /\ \A q \in Runs \ {run} : journal'[q] = journal[q]
    <3>1. CASE journal' = journal BY <2>2, <3>1
    <3>2. CASE \E p \in Progress : journal' = [journal EXCEPT ![run] = p]
      BY <1>0, <2>2, <3>2, Absent DEF TypeOK
    <3>3. QED BY <2>1, <2>4, <3>1, <3>2
  <2>6. Standing' BY <2>1, <2>2, <2>5 DEF Standing, Nowhere, Opened, Closing
  <2>7. QED BY <1>b, <2>1, <2>2, <2>5, <2>6
<1>10. CASE Post
  <2>1. /\ Decided /\ at = "post" /\ at' \in {"record", "lost"} /\ mishaps \subseteq mishaps'
        /\ UNCHANGED <<alive, journal, run, shown, api>>
    BY <1>00, <1>10 DEF Post, Needs
  <2>2. /\ Known /\ journal[run] # None /\ shown \in Contents
    BY <1>0, <1>c, <2>1 DEF Standing, Opened, Places, Waits
  <2>3. /\ phase[run] = "risk_policy" /\ api \in alive /\ <<run, shown>> \in asked'
        /\ driver'[run] = api
        /\ \A q \in Runs \ {run} : UNCHANGED <<driver[q], answered[q]>>
        /\ UNCHANGED <<phase, decisions>>
    BY <1>0, <2>1, <2>2 DEF Decided, TypeOK
  <2>4. Standing' BY <2>1, <2>2, <2>3 DEF Standing, Nowhere, Opened, Closing
  <2>5. Driven' BY <1>0, <2>1, <2>2, <2>3 DEF Driven
  <2>6. Lone' BY <1>0, <2>1 DEF Lone
  <2>7. QED BY <2>4, <2>5, <2>6
<1>11. CASE Audit
  <2>1. /\ Killed(api) /\ at = "audit" /\ at' = "output" /\ mishaps \subseteq mishaps'
        /\ UNCHANGED <<journal, run, api>>
    BY <1>00, <1>11 DEF Audit, Needs
  <2>2. Known /\ journal[run] # None BY <1>0, <1>c, <2>1 DEF Standing, Opened, Places, Waits
  <2>3. phase' = phase /\ alive' = alive \ {api} BY <2>1 DEF Killed
  <2>4. Standing' BY <2>1, <2>2, <2>3 DEF Standing, Nowhere, Opened, Closing
  <2>5. Driven' BY <1>0, <2>1, KilledDriven
  <2>6. Lone' BY <1>0, <2>1, <2>3 DEF Lone
  <2>7. QED BY <2>4, <2>5, <2>6
<1>12. CASE WriteOutput \/ WriteAudit
  <2>1. /\ UNCHANGED <<phase, driver, answered, decisions, alive, journal, run, api, mishaps>>
        /\ at \in Closing /\ at' \in Closing
    BY <1>12 DEF WriteOutput, WriteAudit, Closing
  <2>2. Known /\ journal[run] # None /\ api \notin alive
    BY <1>0, <1>c, <2>1 DEF Standing, Opened, Places, Closing
  <2>3. Standing' BY <2>1, <2>2 DEF Standing, Nowhere, Opened, Closing
  <2>4. QED BY <1>a, <2>1, <2>3
<1>13. CASE WriteReport
  <2>1. /\ at = "report"
        /\ UNCHANGED <<phase, driver, answered, decisions, alive, journal, mishaps>>
        /\ Leaves("ready") \/ Leaves("rejected")
    BY <1>13 DEF WriteReport
  <2>2. at' = "idle" /\ run' = None /\ api' = None BY <2>1, LeavesTyped
  <2>3. Standing' BY <2>2, IdleStands
  <2>4. Driven' BY <1>0, <2>1 DEF Driven
  <2>5. Lone' BY <1>0, <2>1 DEF Lone, Standing, Closing
  <2>6. QED BY <2>3, <2>4, <2>5
<1>14. QED
  BY <1>1, <1>2, <1>3, <1>4, <1>5, <1>6, <1>7, <1>8, <1>9, <1>10, <1>11, <1>12, <1>13
     DEF Supervisor

LEMMA StepTypeInv == ASSUME TypeInv, [Next]_vars PROVE TypeInv'
<1> USE DEF runVars, diskVars, procVars, historyVars, Goes
<1>0. TypeOK /\ Standing /\ Driven /\ Lone /\ TypeOK' BY TypeStep DEF TypeInv
<1> SUFFICES Standing' /\ Driven' /\ Lone' BY <1>0 DEF TypeInv
<1>1. CASE RunStep
  <2>1. PICK r \in Runs : \/ Merge(r) \/ WaitForMachine(r) \/ RaiseRisk(r)
                          \/ RaiseOther(r) \/ Finish(r) \/ TakeUp(r)
    BY <1>1 DEF RunStep
  <2>2. PICK why \in SUBSET Mishaps : Events(r, why) BY <2>1, RunEffect
  <2>3. mishaps \subseteq mishaps' BY <2>2 DEF Events, Needs
  <2>4. UNCHANGED <<at, api, run, alive, journal, shown, asked>> BY <1>1 DEF RunStep
  <2>5. QED BY <2>1, <2>3, <2>4, RunEffect, RunStands
<1>2. CASE Supervisor BY <1>2, SupervisorStands
<1>3. CASE Begin
  <2>1. PICK p \in Pids \ alive : alive' = alive \cup {p} /\ api' = p BY <1>3 DEF Begin
  <2>2. /\ at = "idle" /\ UNCHANGED <<phase, driver, answered, decisions, journal, mishaps>>
        /\ \/ run' = None /\ at' \in {"create", "register"}
           \/ run' \in Unfinisheds /\ at' = "open"
    BY <1>3 DEF Begin
  <2>3. Unfinisheds \subseteq {r \in Runs : phase[r] # "absent"} BY DEF Unfinisheds, Unfinished
  <2>4. Standing' BY <2>1, <2>2, <2>3, Constants DEF Standing, Nowhere, Opened, Closing
  <2>5. Driven' BY <1>0, <2>1, <2>2 DEF Driven
  <2>6. api = None /\ alive \subseteq Pids BY <1>0, <2>2 DEF Standing, TypeOK
  <2>7. Lone' BY <1>0, <2>1, <2>2, <2>6, Constants DEF Lone
  <2>8. QED BY <2>4, <2>5, <2>7
<1>4. CASE Operator
  <2>1. CASE Fail({"declined"}) BY <2>1, FailStands
  <2>2. CASE ~Fail({"declined"})
    <3>1. /\ at = "operator" /\ at' = "recheck"
          /\ UNCHANGED <<phase, driver, answered, decisions, journal, mishaps, alive, run, api, shown>>
      BY <1>4, <2>2 DEF Operator
    <3>2. Standing' BY <1>0, <3>1 DEF Standing, Nowhere, Opened, Closing, Places, Waits
    <3>3. QED BY <1>0, <3>1, <3>2 DEF Driven, Lone
  <2>3. QED BY <2>1, <2>2
<1>5. CASE Escapes
  <2>1. /\ Killed(api) /\ Leaves("failed") /\ UNCHANGED journal /\ mishaps \subseteq mishaps'
    BY <1>5 DEF Escapes, Needs
  <2>2. alive' = alive \ {api} BY <2>1 DEF Killed
  <2>3. QED BY <1>0, <2>1, <2>2, LeavesTyped, IdleStands, KilledDriven DEF Lone
<1>6. CASE Crash
  <2>1. /\ Leaves("failed") /\ UNCHANGED <<phase, driver, answered, decisions, journal, alive>>
        /\ "crash" \in mishaps'
    BY <1>6 DEF Crash, Needs
  <2>2. QED BY <1>0, <2>1, LeavesTyped, IdleStands DEF Driven, Lone
<1>7. ASSUME NEW c \in alive, NEW r \in Runs, Recover(c, r) PROVE Standing' /\ Driven' /\ Lone'
  <2>1. /\ phase[r] # "absent" /\ phase'[r] = "work" /\ driver'[r] = c
        /\ phase[r] # "risk_policy"
        /\ \A q \in Runs \ {r} : UNCHANGED <<phase[q], driver[q]>>
        /\ UNCHANGED <<answered, decisions, at, api, run, alive, journal, shown, mishaps, asked>>
    BY <1>0, <1>7 DEF Recover, Machine, TypeOK
  <2>2. ~answered'[r] BY <1>0, <2>1 DEF Driven
  <2>3. QED BY <2>1, <2>2, RunStands
<1>8. ASSUME NEW r \in Runs, Edit(r) PROVE Standing' /\ Driven' /\ Lone'
  <2>1. /\ phase[r] = "risk_policy" /\ mishaps \subseteq mishaps'
        /\ UNCHANGED <<phase, driver, answered, decisions, at, api, run, alive, journal, shown, asked>>
    BY <1>8 DEF Edit, Needs
  <2>2. QED BY <1>0, <2>1 DEF Standing, Driven, Lone, Nowhere, Opened, Closing
<1>9. ASSUME NEW c \in alive, Dies(c) PROVE Standing' /\ Driven' /\ Lone'
  <2>1. /\ Killed(c) /\ mishaps \subseteq mishaps'
        /\ UNCHANGED <<at, api, run, journal, shown, asked>>
    BY <1>9 DEF Dies, Needs
  <2>2. alive' = alive \ {c} /\ phase' = phase BY <2>1 DEF Killed
  <2>3. Standing' BY <1>0, <2>1, <2>2 DEF Standing, Nowhere, Opened, Closing
  <2>4. Driven' BY <1>0, <2>1, KilledDriven
  <2>5. Lone' BY <1>0, <2>1, <2>2 DEF Lone
  <2>6. QED BY <2>3, <2>4, <2>5
<1>10. CASE UNCHANGED vars
  BY <1>0, <1>10 DEF vars, Standing, Driven, Lone, Nowhere, Opened, Closing
<1>11. QED BY <1>1, <1>2, <1>3, <1>4, <1>5, <1>6, <1>7, <1>8, <1>9, <1>10 DEF Next

\* The types of everything on the disk, in the runs and in the supervisor's process.
THEOREM Typed == Spec => []TypeOK
<1>1. TypeInv /\ [Next]_vars => TypeInv' BY StepTypeInv
<1>2. TypeInv => TypeOK BY DEF TypeInv
<1>3. QED BY InitTypeInv, <1>1, <1>2, PTL DEF Spec

-----------------------------------------------------------------------------
(* What the journal claims, and what a report rests on. *)

\* No step forgets what was asked, who was revived, or what went wrong.
LEMMA Grows ==
  ASSUME [Next]_vars PROVE asked \subseteq asked' /\ revived \subseteq revived' /\ mishaps \subseteq mishaps'
<1> USE DEF historyVars
<1>1. CASE RunStep
  BY <1>1 DEF RunStep, Merge, WaitForMachine, RaiseRisk, RaiseOther, Finish, TakeUp, Events, Needs
<1>2. CASE Supervisor
  <2>1. ASSUME NEW why, Fail(why)
        PROVE  asked \subseteq asked' /\ revived \subseteq revived' /\ mishaps \subseteq mishaps'
    BY <2>1 DEF Fail
  <2>2. CASE \/ ReadFails \/ TimesOut \/ Register \/ Create \/ Open \/ Lost
    BY <2>1, <2>2 DEF ReadFails, TimesOut, Register, Create, Open, Lost, Needs
  <2>3. CASE ReadMerges \/ AskBeforeMerge \/ AskRisk \/ Recheck \/ AskConverged
    BY <2>1, <2>3 DEF ReadMerges, AskBeforeMerge, AskRisk, Recheck, AskConverged, Moves
  <2>4. CASE Count \/ Stop \/ Start \/ Restarted \/ AskRecovery \/ Show
    BY <2>1, <2>4 DEF Count, Stop, Start, Restarted, AskRecovery, Show, Moves
  <2>5. CASE Post \/ Record \/ Audit
    BY <2>1, <2>5 DEF Post, Decided, Record, Audit, Needs
  <2>6. CASE WriteOutput \/ WriteAudit \/ WriteReport
    BY <2>6 DEF WriteOutput, WriteAudit, WriteReport
  <2>7. QED BY <1>2, <2>2, <2>3, <2>4, <2>5, <2>6 DEF Supervisor
<1>3. CASE Begin \/ Operator \/ Escapes \/ Crash
  BY <1>3 DEF Begin, Operator, Escapes, Crash, Fail, Needs
<1>4. CASE \/ \E c \in alive, r \in Runs : Recover(c, r)
           \/ \E r \in Runs : Edit(r)
           \/ \E c \in alive : Dies(c)
  BY <1>4 DEF Recover, Edit, Dies, Needs
<1>5. CASE UNCHANGED vars BY <1>5 DEF vars
<1>6. QED BY <1>1, <1>2, <1>3, <1>4, <1>5 DEF Next

\* The journals rest on what has happened.
Claims(r) ==
  journal[r] # None =>
    /\ journal[r].approved # None => \E c \in Contents : <<r, c>> \in asked
    /\ journal[r].observed => r \in revived \/ Excused

LEMMA ClaimsKept ==
  ASSUME [Next]_vars, NEW r \in Runs, Claims(r), journal'[r] = journal[r] PROVE Claims(r)'
BY Grows DEF Claims, Excused

\* A journal is written that claims no more than has happened.
LEMMA ClaimsMade ==
  ASSUME TypeOK, [Next]_vars, Journalled, NEW q \in Runs, NEW p,
         journal' = [journal EXCEPT ![q] = p],
         p.approved # None => \E c \in Contents : <<q, c>> \in asked',
         p.observed => q \in revived' \/ Excused'
  PROVE  \A r \in Runs : Claims(r)'
<1>1. SUFFICES ASSUME NEW r \in Runs PROVE Claims(r)' OBVIOUS
<1>2. CASE r = q BY <1>2 DEF Claims, TypeOK
<1>3. CASE r # q
  <2>1. journal'[r] = journal[r] BY <1>3 DEF TypeOK
  <2>2. QED BY <2>1, ClaimsKept DEF Journalled, Claims
<1>4. QED BY <1>2, <1>3

\* The supervisor is not restarting its controller, and writes no journal.
LEMMA JournalledAway ==
  ASSUME [Next]_vars, Journalled, UNCHANGED journal, at' \notin Restarting PROVE Journalled'
<1>1. \A r \in Runs : Claims(r)' BY ClaimsKept DEF Journalled, Claims
<1>2. QED BY <1>1 DEF Journalled, Claims, Restarting

\* It stays where it is, and so does all that matters to it.
LEMMA JournalledStays ==
  ASSUME [Next]_vars, Journalled, UNCHANGED <<journal, at, run, api, fresh>>,
         at \in Restarting => driver'[run] \in {driver[run], None} /\ api # None
  PROVE  Journalled'
<1>1. \A r \in Runs : Claims(r)' BY ClaimsKept DEF Journalled, Claims
<1>2. QED BY <1>1, Grows DEF Journalled, Claims, Restarting, Excused

LEMMA SupervisorJournalled ==
  ASSUME TypeInv, Journalled, Supervisor, [Next]_vars PROVE Journalled'
<1> USE DEF runVars, diskVars, historyVars, Goes
<1>0. TypeOK /\ Standing /\ Driven /\ Lone BY DEF TypeInv
<1>1. ASSUME NEW why, Fail(why) PROVE Journalled'
  <2>1. at' = "idle" /\ UNCHANGED journal BY <1>1, LeavesTyped DEF Fail
  <2>2. QED BY <2>1, JournalledAway DEF Restarting
<1> SUFFICES ASSUME \A why : ~Fail(why) PROVE Journalled' BY <1>1
<1>2. at \in Opened => run \in Runs /\ journal[run] # None /\ journal[run] \in Progress /\ api # None
  BY <1>0 DEF Standing, TypeOK, Opened
<1>3. CASE ReadFails
  BY <1>2, <1>3, JournalledStays DEF ReadFails, Waits, Opened, Places
<1>4. CASE \/ TimesOut \/ Register \/ Create \/ ReadMerges \/ AskBeforeMerge \/ AskRisk \/ Show
           \/ Recheck \/ Post \/ Lost \/ AskConverged \/ Audit \/ WriteOutput \/ WriteAudit
  <2>1. UNCHANGED journal /\ at' \notin Restarting
    BY <1>4 DEF TimesOut, Register, Create, ReadMerges, AskBeforeMerge, AskRisk, Show, Recheck, Post,
                Lost, AskConverged, Audit, WriteOutput, WriteAudit, Moves, Restarting
  <2>2. QED BY <2>1, JournalledAway
<1>5. CASE WriteReport
  <2>1. UNCHANGED journal /\ at' \notin Restarting BY <1>5 DEF WriteReport, Leaves, Restarting
  <2>2. QED BY <2>1, JournalledAway
<1>6. CASE Open
  <2>1. /\ at = "open" /\ at' \notin Restarting
        /\ journal' = journal \/ journal' = [journal EXCEPT ![run] = NoProgress]
    BY <1>6 DEF Open, Saves, Restarting
  <2>2. run \in Runs BY <1>0, <2>1 DEF Standing
  <2>3. CASE journal' = journal BY <2>1, <2>3, JournalledAway
  <2>4. CASE journal' = [journal EXCEPT ![run] = NoProgress]
    <3>1. NoProgress.approved = None /\ NoProgress.observed = FALSE BY DEF NoProgress
    <3>2. \A r \in Runs : Claims(r)' BY <1>0, <2>2, <2>4, <3>1, ClaimsMade
    <3>3. QED BY <2>1, <3>2 DEF Journalled, Claims, Restarting
  <2>5. QED BY <2>1, <2>3, <2>4
<1>7. CASE Count \/ Stop
  <2>1. /\ UNCHANGED <<journal, run>> /\ at' \in {"stop", "start"}
        /\ \/ fresh' = FALSE
           \/ at = "stop" /\ fresh' = fresh
    BY <1>7 DEF Count, Stop
  <2>2. \A r \in Runs : Claims(r)' BY <2>1, ClaimsKept DEF Journalled, Claims
  <2>3. at = "stop" /\ fresh => run \in revived \/ Excused BY DEF Journalled, Restarting
  <2>4. QED BY <2>1, <2>2, <2>3, Grows DEF Journalled, Claims, Excused
<1>8. CASE Start
  <2>1. PICK p \in Pids \ alive : api' = p BY <1>8 DEF Start
  <2>2. at = "start" /\ at' = "restarted" /\ UNCHANGED <<journal, run, fresh, driver>>
    BY <1>8 DEF Start
  <2>3. run \in Runs /\ driver'[run] # api'
    BY <1>0, <1>2, <2>1, <2>2, Constants DEF Driven, Opened, Places, Waits
  <2>4. \A r \in Runs : Claims(r)' BY <2>2, ClaimsKept DEF Journalled, Claims
  <2>5. QED BY <2>2, <2>3, <2>4, Grows DEF Journalled, Claims, Excused, Restarting
<1>9. CASE Restarted
  <2>1. /\ at = "restarted" /\ at' = "recovery" /\ UNCHANGED <<run, fresh, driver, api>>
        /\ journal' = [journal EXCEPT ![run] =
                         [journal[run] EXCEPT !.restarted = TRUE, !.before = old, !.after = api]]
    BY <1>9 DEF Restarted, Saves
  <2>2. run \in Runs /\ journal[run] \in Progress /\ journal[run] # None
    BY <1>2, <2>1 DEF Opened, Places, Waits
  <2> DEFINE p == [journal[run] EXCEPT !.restarted = TRUE, !.before = old, !.after = api]
  <2>3. p.approved = journal[run].approved /\ p.observed = journal[run].observed
    BY <2>2 DEF Progress
  <2>4. /\ p.approved # None => \E c \in Contents : <<run, c>> \in asked'
        /\ p.observed => run \in revived' \/ Excused'
    BY <2>2, <2>3, Grows DEF Journalled, Excused
  <2>5. \A r \in Runs : Claims(r)' BY <1>0, <2>1, <2>2, <2>4, ClaimsMade
  <2>6. QED BY <2>1, <2>5, Grows DEF Journalled, Claims, Excused, Restarting
<1>10. CASE AskRecovery
  <2>1. CASE journal' = journal
    BY <1>2, <1>10, <2>1, JournalledStays, JournalledAway
       DEF AskRecovery, Saves, Moves, Restarting, Opened, Places, Waits
  <2>2. CASE journal' # journal
    <3>1. /\ at = "recovery" /\ at' = "risk" /\ (Alive(run) \/ fresh)
          /\ journal' = [journal EXCEPT ![run] = [journal[run] EXCEPT !.observed = TRUE]]
      BY <1>10, <2>2 DEF AskRecovery, Saves, Moves
    <3>2. run \in Runs /\ journal[run] \in Progress /\ journal[run] # None
      BY <1>2, <3>1 DEF Opened, Places, Waits
    <3> DEFINE p == [journal[run] EXCEPT !.observed = TRUE]
    <3>3. p.approved = journal[run].approved BY <3>2 DEF Progress
    <3>4. run \in revived \/ Excused BY <3>1 DEF Journalled, Restarting, Alive
    <3>5. /\ p.approved # None => \E c \in Contents : <<run, c>> \in asked'
          /\ run \in revived' \/ Excused'
      BY <3>2, <3>3, <3>4, Grows DEF Journalled, Excused
    <3>6. \A r \in Runs : Claims(r)' BY <1>0, <3>1, <3>2, <3>5, ClaimsMade
    <3>7. QED BY <3>1, <3>6 DEF Journalled, Claims, Restarting
  <2>3. QED BY <2>1, <2>2
<1>11. CASE Record
  <2>1. /\ at = "record" /\ at' = "converge"
        /\ journal' = [journal EXCEPT ![run] = [journal[run] EXCEPT !.approved = shown]]
    BY <1>11 DEF Record, Saves
  <2>2. run \in Runs /\ journal[run] \in Progress /\ journal[run] # None
    BY <1>2, <2>1 DEF Opened, Places, Waits
  <2>3. shown \in Contents /\ <<run, shown>> \in asked' BY <1>0, <2>1, Grows DEF Standing
  <2> DEFINE p == [journal[run] EXCEPT !.approved = shown]
  <2>4. p.observed = journal[run].observed /\ p.approved = shown BY <2>2 DEF Progress
  <2>5. p.observed => run \in revived' \/ Excused'
    BY <2>2, <2>4, Grows DEF Journalled, Excused
  <2>6. \A r \in Runs : Claims(r)' BY <1>0, <2>1, <2>2, <2>3, <2>4, <2>5, ClaimsMade
  <2>7. QED BY <2>1, <2>6 DEF Journalled, Claims, Restarting
<1>12. QED
  BY <1>3, <1>4, <1>5, <1>6, <1>7, <1>8, <1>9, <1>10, <1>11 DEF Supervisor

LEMMA StepJournalled == ASSUME TypeInv, Journalled, [Next]_vars PROVE Journalled'
<1> USE DEF runVars, diskVars, procVars, historyVars, Goes
<1>0. TypeOK /\ Standing /\ Driven /\ Lone BY DEF TypeInv
<1>1. CASE RunStep
  <2>1. PICK r \in Runs : \/ Merge(r) \/ WaitForMachine(r) \/ RaiseRisk(r)
                          \/ RaiseOther(r) \/ Finish(r) \/ TakeUp(r)
    BY <1>1 DEF RunStep
  <2>2. PICK why \in SUBSET Mishaps : Events(r, why) BY <2>1, RunEffect
  <2>3. /\ driver[r] \in alive /\ driver'[r] \in {driver[r], None}
        /\ \A q \in Runs \ {r} : driver'[q] = driver[q]
    BY <2>1, RunEffect
  <2>4. UNCHANGED <<at, api, run, alive, journal, revived, asked>> BY <1>1 DEF RunStep
  <2>5. \A q \in Runs : Claims(q)' BY <2>4, ClaimsKept DEF Journalled, Claims
  <2>6. ASSUME at \in Restarting
        PROVE  /\ at \in {"restarted", "recovery"} /\ driver'[run] = api => run \in revived
               /\ fresh' => run \in revived \/ Excused'
    <3>1. run \in Runs /\ api # None
      BY <1>0, <2>6 DEF Standing, Restarting, Opened, Places, Waits
    <3>2. driver'[run] = api => driver[run] = api BY <2>3, <3>1
    <3>3. ASSUME r = run, ~Excused' PROVE run \in revived
      <4>1. at # "stop" BY <2>2, <3>3 DEF Events, Needs, Excused
      <4>2. "crash" \notin mishaps BY <3>3, Grows DEF Excused
      <4>3. driver[run] = api BY <1>0, <2>3, <3>3, <4>2 DEF Lone
      <4>4. at # "start" BY <1>0, <2>3, <3>3, <4>3 DEF Standing
      <4>5. QED BY <2>6, <4>1, <4>3, <4>4 DEF Journalled, Restarting
    <3>4. fresh' => fresh \/ r = run BY <2>2 DEF Events
    <3>5. fresh => run \in revived \/ Excused' BY <2>6, Grows DEF Journalled, Excused
    <3>6. QED BY <3>2, <3>3, <3>4, <3>5 DEF Journalled
  <2>7. QED BY <2>4, <2>5, <2>6 DEF Journalled, Claims, Restarting
<1>2. CASE Supervisor BY <1>2, SupervisorJournalled
<1>3. CASE Begin \/ Operator \/ Escapes \/ Crash
  <2>1. UNCHANGED journal BY <1>3 DEF Begin, Operator, Escapes, Crash, Fail
  <2>2. at' \notin Restarting
    BY <1>3, LeavesTyped DEF Begin, Operator, Escapes, Crash, Fail, Restarting
  <2>3. QED BY <2>1, <2>2, JournalledAway
<1>4. ASSUME NEW c \in alive, NEW r \in Runs, Recover(c, r) PROVE Journalled'
  <2>1. /\ driver' = [driver EXCEPT ![r] = c]
        /\ c = api /\ at \in {"restarted", "recovery"} => r \in revived'
        /\ UNCHANGED <<at, api, run, journal, fresh>>
    BY <1>4 DEF Recover
  <2>2. \A q \in Runs : Claims(q)' BY <2>1, ClaimsKept DEF Journalled, Claims
  <2>3. at \in {"restarted", "recovery"} => run \in Runs
    BY <1>0 DEF Standing, Opened, Places, Waits
  <2>4. QED BY <1>0, <2>1, <2>2, <2>3, Grows DEF Journalled, Claims, Excused, Restarting, TypeOK
<1>5. ASSUME NEW r \in Runs, Edit(r) PROVE Journalled'
  <2>1. UNCHANGED <<journal, at, run, api, fresh, driver>> BY <1>5 DEF Edit
  <2>2. at \in Restarting => api # None BY <1>0 DEF Standing, Restarting
  <2>3. QED BY <2>1, <2>2, JournalledStays
<1>6. ASSUME NEW c \in alive, Dies(c) PROVE Journalled'
  <2>1. UNCHANGED <<journal, at, run, api, fresh>> /\ Killed(c) BY <1>6 DEF Dies
  <2>2. at \in Restarting => api # None /\ run \in Runs
    BY <1>0 DEF Standing, Restarting, Opened, Places, Waits
  <2>3. \A r \in Runs : driver'[r] \in {driver[r], None} BY <1>0, <2>1, KilledTyped
  <2>4. QED BY <2>1, <2>2, <2>3, JournalledStays
<1>7. CASE UNCHANGED vars
  <2>1. UNCHANGED <<journal, at, run, api, fresh, driver>> BY <1>7 DEF vars
  <2>2. at \in Restarting => api # None BY <1>0 DEF Standing, Restarting
  <2>3. QED BY <2>1, <2>2, JournalledStays
<1>8. QED BY <1>1, <1>2, <1>3, <1>4, <1>5, <1>6, <1>7 DEF Next

-----------------------------------------------------------------------------
(* Reports and success evidence. *)

\* The supervisor changes a run's phase only by creating it.
LEMMA SupervisorRuns ==
  ASSUME Supervisor
  PROVE  /\ UNCHANGED <<merged, flags, reviewed, content, decisions, defects>>
         /\ \/ phase' = phase
            \/ \E r \in Runs : Submitted(r) /\ at = "create" /\ run' \in {r, run}
                               /\ at' \in {"open", "lost"}
<1> USE DEF runVars, Goes
<1>1. ASSUME NEW c, Killed(c)
      PROVE  UNCHANGED <<phase, merged, flags, reviewed, content, decisions, defects>>
  BY <1>1 DEF Killed
<1>2. ASSUME NEW why, Fail(why)
      PROVE  UNCHANGED <<phase, merged, flags, reviewed, content, decisions, defects>>
  BY <1>1, <1>2 DEF Fail
<1>3. CASE ReadFails \/ TimesOut \/ Register \/ Open \/ Lost
  BY <1>2, <1>3 DEF ReadFails, TimesOut, Register, Open, Lost
<1>4. CASE Create BY <1>2, <1>4 DEF Create, Submitted
<1>5. CASE ReadMerges \/ AskBeforeMerge \/ AskRisk \/ Recheck \/ AskConverged
  BY <1>2, <1>5 DEF ReadMerges, AskBeforeMerge, AskRisk, Recheck, AskConverged, Moves
<1>6. CASE Count \/ Stop \/ Start \/ Restarted \/ AskRecovery \/ Show
  BY <1>1, <1>2, <1>6 DEF Count, Stop, Start, Restarted, AskRecovery, Show, Moves
<1>7. CASE Post \/ Record \/ Audit
  BY <1>1, <1>2, <1>7 DEF Post, Decided, Record, Audit
<1>8. CASE WriteOutput \/ WriteAudit \/ WriteReport
  BY <1>8 DEF WriteOutput, WriteAudit, WriteReport
<1>9. QED BY <1>3, <1>4, <1>5, <1>6, <1>7, <1>8 DEF Supervisor

\* A run that is over stays as it is.
LEMMA Frozen ==
  ASSUME TypeInv, [Next]_vars, NEW r \in Runs, phase[r] \in Finished
  PROVE  UNCHANGED <<phase[r], merged[r], decisions[r], defects[r]>>
<1> USE DEF runVars, Finished
<1>0. TypeOK BY DEF TypeInv
<1>1. CASE RunStep
  <2>1. PICK q \in Runs : \/ Merge(q) \/ WaitForMachine(q) \/ RaiseRisk(q)
                          \/ RaiseOther(q) \/ Finish(q) \/ TakeUp(q)
    BY <1>1 DEF RunStep
  <2>2. /\ phase[q] \in {"work", "risk_policy"}
        /\ \A p \in Runs \ {q} : UNCHANGED <<phase[p], merged[p], decisions[p], defects[p]>>
    BY <2>1, RunEffect
  <2>3. r # q BY <2>2
  <2>4. QED BY <2>2, <2>3
<1>2. CASE Supervisor
  <2>1. phase'[r] = phase[r] BY <1>0, <1>2, SupervisorRuns DEF Submitted, TypeOK
  <2>2. QED BY <1>2, <2>1, SupervisorRuns
<1>3. CASE Begin \/ Operator \/ Escapes \/ Crash
  BY <1>3 DEF Begin, Operator, Escapes, Crash, Fail, Killed
<1>4. CASE \/ \E c \in alive, q \in Runs : Recover(c, q)
           \/ \E q \in Runs : Edit(q)
           \/ \E c \in alive : Dies(c)
  BY <1>0, <1>4 DEF Recover, Edit, Dies, Killed, Machine, TypeOK
<1>5. CASE UNCHANGED vars BY <1>5 DEF vars
<1>6. QED BY <1>1, <1>2, <1>3, <1>4, <1>5 DEF Next

LEMMA EarnedKept ==
  ASSUME TypeInv, [Next]_vars, NEW r \in Runs, Earned(r) PROVE Earned(r)'
<1>1. phase[r] \in Finished BY DEF Earned, RunOk, Finished
<1>2. UNCHANGED <<phase[r], merged[r], decisions[r], defects[r]>> BY <1>1, Frozen
<1>3. QED BY <1>2, Grows DEF Earned, RunOk, Excused

\* Neither reports nor evidence are written.
LEMMA ReportedQuiet ==
  ASSUME TypeInv, Reported, [Next]_vars, UNCHANGED <<report, output>>,
         at' \in Auditing => run' = run /\ run \in Runs /\ phase[run] = "converged",
         \A r \in Runs : phase[r] = "converged" /\ run' = r =>
           run = r /\ (at \in {"write_audit", "report"} => at' \in {"write_audit", "report"})
  PROVE  Reported'
<1>1. \A r \in Runs : phase[r] = "converged" => phase'[r] = "converged"
  BY Frozen DEF Finished
<1>2. ASSUME NEW r \in Runs, report'[r] = "ready" PROVE Earned(r)'
  BY <1>2, EarnedKept DEF Reported
<1>3. at' \in Auditing => phase'[run'] = "converged" BY <1>1
<1>4. ASSUME NEW r \in Runs, Success(r)'
      PROVE  phase'[r] = "converged" /\ (run' = r => at' \in {"write_audit", "report"})
  <2>1. Success(r) BY <1>4 DEF Success
  <2>2. phase[r] = "converged" /\ (run = r => at \in {"write_audit", "report"})
    BY <2>1 DEF Reported
  <2>3. QED BY <1>1, <2>2
<1>5. QED BY <1>2, <1>3, <1>4 DEF Reported, Auditing, Closing

LEMMA FailReported ==
  ASSUME TypeInv, Reported, [Next]_vars, NEW why, Fail(why) PROVE Reported'
<1>1. at' = "idle" /\ run' = None /\ UNCHANGED report BY LeavesTyped DEF Fail
<1>2. ASSUME NEW r \in Runs, Success(r)' PROVE Success(r) BY <1>2 DEF Fail, Success
<1>3. \A r \in Runs : phase[r] = "converged" => phase'[r] = "converged"
  BY Frozen DEF Finished
<1>4. ASSUME NEW r \in Runs, report'[r] = "ready" PROVE Earned(r)'
  BY <1>1, <1>4, EarnedKept DEF Reported
<1>5. QED BY <1>1, <1>2, <1>3, <1>4, Constants DEF Reported

LEMMA SupervisorReported ==
  ASSUME TypeInv, Journalled, Reported, Supervisor, [Next]_vars PROVE Reported'
<1> USE DEF runVars, diskVars, historyVars, Goes
<1>0. TypeOK /\ Standing BY DEF TypeInv
<1> SUFFICES ASSUME \A why : ~Fail(why) PROVE Reported' BY FailReported
<1>1. at \in Opened => run \in Runs /\ journal[run] # None BY <1>0 DEF Standing
<1>2. at \in Auditing => run \in Runs /\ phase[run] = "converged"
  BY <1>1 DEF Reported, Auditing, Closing, Opened, Places
<1>3. CASE \/ ReadFails \/ TimesOut \/ Register \/ Open \/ Lost \/ ReadMerges \/ AskBeforeMerge
           \/ AskRisk \/ Recheck
  <2>1. /\ UNCHANGED <<report, output, run>> /\ at' \notin Auditing
        /\ at \notin {"write_audit", "report"}
    BY <1>3 DEF ReadFails, TimesOut, Register, Open, Lost, ReadMerges, AskBeforeMerge, AskRisk,
                Recheck, Moves, Auditing, Closing, Waits
  <2>2. QED BY <2>1, ReportedQuiet
<1>4. CASE Count \/ Stop \/ Start \/ Restarted \/ AskRecovery \/ Show \/ Post \/ Record
  <2>1. /\ UNCHANGED <<report, output, run>> /\ at' \notin Auditing
        /\ at \notin {"write_audit", "report"}
    BY <1>4 DEF Count, Stop, Start, Restarted, AskRecovery, Show, Post, Record, Moves, Auditing,
                Closing
  <2>2. QED BY <2>1, ReportedQuiet
<1>5. CASE Create
  <2>1. PICK r \in Runs : /\ phase[r] = "absent" /\ run' \in {r, run} /\ at' \in {"open", "lost"}
                          /\ at = "create" /\ UNCHANGED <<report, output>>
    BY <1>5 DEF Create, Submitted
  <2>2. QED BY <2>1, ReportedQuiet DEF Auditing, Closing
<1>6. CASE AskConverged
  <2>1. /\ UNCHANGED <<report, output, run>> /\ at = "converge"
        /\ at' = IF phase[run] = "converged" THEN "audit" ELSE "converge"
    BY <1>6 DEF AskConverged, Moves
  <2>2. run \in Runs BY <1>1, <2>1 DEF Opened, Places, Waits
  <2>3. QED BY <2>1, <2>2, ReportedQuiet DEF Auditing, Closing
<1>7. CASE Audit
  <2>1. UNCHANGED <<report, output, run>> /\ at = "audit" /\ at' = "output"
    BY <1>7 DEF Audit
  <2>2. QED BY <1>2, <2>1, ReportedQuiet DEF Auditing, Closing
<1>8. CASE WriteOutput
  <2>1. /\ UNCHANGED <<phase, report, run>> /\ at = "output" /\ at' = "write_audit"
        /\ output' = [kind |-> "success", run |-> run, evidence |-> Emitted]
    BY <1>8 DEF WriteOutput
  <2>2. run \in Runs /\ phase[run] = "converged" BY <1>2, <2>1 DEF Auditing, Closing
  <2>3. ASSUME NEW r \in Runs, report'[r] = "ready" PROVE Earned(r)'
    BY <2>1, <2>3, EarnedKept DEF Reported
  <2>4. \A r \in Runs : Success(r)' => r = run BY <2>1 DEF Success
  <2>5. QED BY <2>1, <2>2, <2>3, <2>4 DEF Reported
<1>9. CASE WriteAudit
  <2>1. UNCHANGED <<report, output, run>> /\ at = "write_audit" /\ at' = "report"
    BY <1>9 DEF WriteAudit
  <2>2. QED BY <1>2, <2>1, ReportedQuiet DEF Auditing, Closing
<1>10. CASE WriteReport
  <2>1. PICK result \in {"ready", "rejected"} :
          /\ report' = [report EXCEPT ![run] = result] /\ Leaves(result)
          /\ result = "ready" => Ready(run, Emitted)
    BY <1>10 DEF WriteReport
  <2>2. at' = "idle" /\ run' = None BY <2>1, LeavesTyped
  <2>3. at = "report" /\ UNCHANGED <<phase, output>> BY <1>10 DEF WriteReport
  <2>4. run \in Runs /\ journal[run] # None BY <1>1, <2>3 DEF Opened, Places
  <2>5. ASSUME Ready(run, Emitted) PROVE Earned(run)
    <3>1. journal[run].approved # None /\ journal[run].observed
      BY <2>5 DEF Ready, RestartOk, HitlOk, Emitted
    <3>2. QED BY <2>4, <2>5, <3>1 DEF Journalled, Ready, HitlOk, Earned
  <2>6. ASSUME NEW r \in Runs, report'[r] = "ready" PROVE Earned(r)'
    <3>1. Earned(r) BY <1>0, <2>1, <2>4, <2>5, <2>6 DEF Reported, TypeOK
    <3>2. QED BY <3>1, EarnedKept
  <2>7. \A r \in Runs : Success(r)' => Success(r) BY <2>3 DEF Success
  <2>8. QED BY <2>2, <2>3, <2>6, <2>7, Constants DEF Reported
<1>11. QED
  BY <1>3, <1>4, <1>5, <1>6, <1>7, <1>8, <1>9, <1>10 DEF Supervisor

LEMMA StepReported ==
  ASSUME TypeInv, Journalled, Reported, [Next]_vars PROVE Reported'
<1> USE DEF diskVars, procVars, historyVars, Goes
<1>0. TypeOK /\ Standing BY DEF TypeInv
<1>1. at \in Auditing => run \in Runs /\ phase[run] = "converged"
  BY <1>0 DEF Standing, Reported, Auditing, Closing, Opened, Places
<1>2. ASSUME UNCHANGED <<report, output, at, run>> PROVE Reported'
  BY <1>1, <1>2, ReportedQuiet
<1>3. CASE RunStep BY <1>2, <1>3 DEF RunStep
<1>4. CASE Supervisor BY <1>4, SupervisorReported
<1>5. CASE Begin
  <2>1. /\ UNCHANGED <<report, output>> /\ at' \notin Auditing /\ run' \in Unfinisheds \cup {None}
    BY <1>5 DEF Begin, Auditing, Closing
  <2>2. \A r \in Unfinisheds : phase[r] # "converged" BY DEF Unfinisheds, Unfinished, Finished
  <2>3. QED BY <2>1, <2>2, ReportedQuiet, Constants
<1>6. CASE Operator
  <2>1. CASE Fail({"declined"}) BY <2>1, FailReported
  <2>2. CASE ~Fail({"declined"})
    <3>1. UNCHANGED <<report, output, run>> /\ at = "operator" /\ at' = "recheck"
      BY <1>6, <2>2 DEF Operator
    <3>2. QED BY <3>1, ReportedQuiet DEF Auditing, Closing
  <2>3. QED BY <2>1, <2>2
<1>7. CASE Escapes \/ Crash
  <2>1. UNCHANGED <<report, output>> /\ at' = "idle" /\ run' = None
    BY <1>7, LeavesTyped DEF Escapes, Crash
  <2>2. QED BY <2>1, ReportedQuiet, Constants DEF Auditing, Closing
<1>8. CASE \/ \E c \in alive, r \in Runs : Recover(c, r)
           \/ \E r \in Runs : Edit(r)
           \/ \E c \in alive : Dies(c)
  BY <1>2, <1>8 DEF Recover, Edit, Dies
<1>9. CASE UNCHANGED vars BY <1>2, <1>9 DEF vars
<1>10. QED BY <1>3, <1>4, <1>5, <1>6, <1>7, <1>8, <1>9 DEF Next

\* Whatever is found ready, by the supervisor or by the report command, is so for a reason.
LEMMA Deserved == TypeInv /\ Journalled /\ Reported => ReadyIsEarned
<1>1. SUFFICES ASSUME TypeInv, Journalled, Reported, NEW r \in Runs,
                      report[r] = "ready" \/ (journal[r] # None /\ ProvenReady(r, Best(r)))
               PROVE  Earned(r)
  BY DEF ReadyIsEarned, Earned, Excused
<1>2. CASE report[r] = "ready" BY <1>1, <1>2 DEF Reported
<1>3. CASE journal[r] # None /\ ProvenReady(r, Best(r))
  <2>1. /\ RunOk(r) /\ Len(decisions[r]) = 1
        /\ journal[r].approved # None /\ journal[r].observed
    BY <1>3 DEF ProvenReady, Ready, HitlOk
  <2>2. QED BY <1>1, <1>3, <2>1 DEF Earned, Journalled
<1>4. QED BY <1>1, <1>2, <1>3

LEMMA InitReported == Init => Journalled /\ Reported
<1> SUFFICES ASSUME Init PROVE Journalled /\ Reported OBVIOUS
<1>1. Journalled BY DEF Init, Journalled, Restarting
<1>2. Reported BY Absent DEF Init, Reported, Success
<1>3. QED BY <1>1, <1>2

\* acceptance.py and acceptance_provenance.py: a verdict of ready rests on a run that converged
\* with everything it has to leave behind, on somebody's yes, and on a restart that was survived.
THEOREM Deserving == Spec => []ReadyIsEarned
<1>1. TypeInv /\ Journalled /\ Reported /\ [Next]_vars => (TypeInv /\ Journalled /\ Reported)'
  BY StepTypeInv, StepJournalled, StepReported
<1>2. QED BY InitTypeInv, InitReported, <1>1, Deserved, PTL DEF Spec

\* acceptance_supervisor.py: success evidence is never replaced by a failure record of its run.
THEOREM Kept == Spec => EvidenceKept
<1>1. TypeInv /\ Journalled /\ Reported /\ [Next]_vars => (TypeInv /\ Journalled /\ Reported)'
  BY StepTypeInv, StepJournalled, StepReported
<1>2. TypeInv /\ Reported /\ [Next]_vars =>
        [(output # None /\ output.kind = "success")
           => ~(output'.kind = "failure" /\ output'.run = output.run)]_output
  <2> SUFFICES ASSUME TypeInv, Reported, [Next]_vars, output' # output, output # None,
                      output.kind = "success", output'.kind = "failure", output'.run = output.run
               PROVE  FALSE
    OBVIOUS
  <2> USE DEF diskVars, procVars, historyVars
  <2>1. output.run \in Runs BY DEF TypeInv, TypeOK
  <2>2. PICK r \in Runs : r = output.run BY <2>1
  <2>3. run = r => at \in {"write_audit", "report"} BY <2>2 DEF Reported, Success
  <2>4. ASSUME NEW why, Fail(why) PROVE FALSE
    <3>1. output' = [kind |-> "failure", run |-> run] /\ ~SuccessWritten BY <2>4 DEF Fail
    <3>2. QED BY <2>2, <2>3, <3>1 DEF SuccessWritten
  <2>5. ~WriteOutput BY DEF WriteOutput
  <2>6. CASE Supervisor
    BY <2>4, <2>5, <2>6
       DEF Supervisor, ReadFails, TimesOut, Register, Create, Open, ReadMerges, AskBeforeMerge,
           Count, Stop, Start, Restarted, AskRecovery, AskRisk, Show, Recheck, Post, Lost, Record,
           AskConverged, Audit, WriteAudit, WriteReport, Moves
  <2>7. ~Supervisor BY <2>6
  <2>8. QED
    BY <2>4, <2>7 DEF Next, vars, RunStep, Begin, Operator, Escapes, Crash, Recover, Edit, Dies
<1>3. QED BY InitTypeInv, InitReported, <1>1, <1>2, PTL DEF Spec, EvidenceKept

-----------------------------------------------------------------------------
(* What a decision is about. *)

\* Without a killed supervisor, no decision outlives the controller that took it.
LEMMA NoneLeft ==
  ASSUME TypeInv, Killed(api) PROVE "crash" \in mishaps \/ \A r \in Runs : ~answered'[r]
<1>0. TypeOK /\ Driven /\ Lone BY DEF TypeInv
<1>1. \A r \in Runs : answered'[r] => answered[r] /\ driver[r] # api BY <1>0, KilledTyped
<1>2. QED BY <1>0, <1>1 DEF Driven, Lone

\* No decision is submitted, and the question that is under way stays the same.
LEMMA ApprovingQuiet ==
  ASSUME TypeInv, Approving, [Next]_vars,
         \A r \in Runs : answered'[r] => answered[r] /\ reviewed'[r] = reviewed[r],
         at' \in Undecided => at \in Undecided \/ "crash" \in mishaps' \/ \A r \in Runs : ~answered'[r],
         at' \in Asking =>
           /\ at \in Asking /\ run' = run
           /\ phase'[run] = phase[run] /\ decisions'[run] = decisions[run]
           /\ reviewed'[run] = reviewed[run]
           /\ at' # "show" => at # "show" /\ shown' = shown
  PROVE  Approving'
<1>1. "crash" \in mishaps' \/ (at' \in Undecided => \A r \in Runs : ~answered'[r])
  BY Grows DEF Approving
<1>2. "crash" \in mishaps' \/ (at' \in Asking => phase'[run'] = "risk_policy")
  BY Grows DEF Approving
<1>3. ASSUME ~({"astray", "crash"} \subseteq mishaps') PROVE Shown'
  <2>1. Shown BY <1>3, Grows DEF Approving
  <2>2. \A r \in Runs : answered'[r] => <<r, reviewed'[r]>> \in asked' BY <2>1, Grows DEF Shown
  <2>3. at' \in Asking => phase'[run'] = "risk_policy" \/ decisions'[run'] # <<>>
    BY <2>1 DEF Shown
  <2>4. at' \in {"operator", "recheck", "post"} => shown' = reviewed'[run']
    BY <2>1 DEF Shown, Asking
  <2>5. QED BY <2>2, <2>3, <2>4 DEF Shown
<1>4. QED BY <1>1, <1>2, <1>3 DEF Approving

LEMMA FailApproving ==
  ASSUME TypeInv, Approving, [Next]_vars, NEW why, Fail(why) PROVE Approving'
<1>0. TypeOK BY DEF TypeInv
<1>1. /\ Killed(api) /\ at' = "idle" /\ UNCHANGED reviewed
  BY LeavesTyped DEF Fail, Killed
<1>2. \A r \in Runs : answered'[r] => answered[r] BY <1>0, <1>1, KilledTyped
<1>3. "crash" \in mishaps' \/ \A r \in Runs : ~answered'[r] BY <1>1, NoneLeft, Grows
<1>4. QED BY <1>1, <1>2, <1>3, ApprovingQuiet DEF Asking

LEMMA SupervisorApproving ==
  ASSUME TypeInv, Approving, Supervisor, [Next]_vars PROVE Approving'
<1> USE DEF runVars, diskVars, historyVars, Goes
<1>0. TypeOK /\ Standing /\ Driven /\ Lone BY DEF TypeInv
<1> SUFFICES ASSUME \A why : ~Fail(why) PROVE Approving' BY FailApproving
<1>1. at \in Opened => run \in Runs BY <1>0 DEF Standing
<1>2. UNCHANGED <<merged, flags, reviewed, content, decisions, defects>> BY SupervisorRuns
<1>3. CASE \/ TimesOut \/ Register \/ Create \/ Open \/ Lost \/ ReadMerges \/ AskBeforeMerge
           \/ Count \/ Start \/ Restarted
  <2>1. /\ UNCHANGED answered /\ at' \notin Asking /\ at \in Undecided
    BY <1>3 DEF TimesOut, Register, Create, Submitted, Open, Lost, ReadMerges, AskBeforeMerge,
                Count, Start, Restarted, Moves, Undecided, Nowhere, Restarting, Asking
  <2>2. QED BY <1>2, <2>1, ApprovingQuiet
<1>4. CASE AskRecovery \/ Record \/ AskConverged \/ WriteOutput \/ WriteAudit
  <2>1. /\ UNCHANGED answered /\ at' \notin Asking
        /\ at \in Undecided \/ at' \notin Undecided
    BY <1>4 DEF AskRecovery, Record, AskConverged, WriteOutput, WriteAudit, Moves, Undecided,
                Nowhere, Restarting, Asking
  <2>2. QED BY <1>2, <2>1, ApprovingQuiet
<1>5. CASE ReadFails \/ Recheck
  <2>1. /\ UNCHANGED <<phase, answered, run, shown>>
        /\ at' = at \/ (at = "recheck" /\ at' = "post")
    BY <1>5 DEF ReadFails, Recheck, Moves
  <2>2. QED BY <1>2, <2>1, ApprovingQuiet DEF Undecided, Asking
<1>6. CASE Stop \/ Audit
  <2>1. Killed(api) /\ at' \notin Asking BY <1>6 DEF Stop, Audit, Asking
  <2>2. \A r \in Runs : answered'[r] => answered[r] BY <1>0, <2>1, KilledTyped
  <2>3. "crash" \in mishaps' \/ \A r \in Runs : ~answered'[r] BY <2>1, NoneLeft, Grows
  <2>4. QED BY <1>2, <2>1, <2>2, <2>3, ApprovingQuiet
<1>7. CASE AskRisk
  <2>1. /\ at = "risk" /\ UNCHANGED <<phase, answered, run, shown>>
        /\ \/ at' = "risk"
           \/ at' = "show" /\ phase[run] = "risk_policy"
    BY <1>7 DEF AskRisk, Moves
  <2>2. CASE at' = "risk" BY <1>2, <2>1, <2>2, ApprovingQuiet DEF Undecided, Asking
  <2>3. CASE at' = "show"
    <3>1. at \in Undecided BY <2>1 DEF Undecided
    <3>2. ASSUME ~({"astray", "crash"} \subseteq mishaps') PROVE Shown'
      <4>1. Shown BY <3>2, Grows DEF Approving
      <4>2. QED BY <1>2, <2>1, <2>3, <4>1, Grows DEF Shown, Asking
    <3>3. QED BY <2>1, <2>3, <3>1, <3>2, Grows DEF Approving, Undecided, Asking
  <2>4. QED BY <2>1, <2>2, <2>3
<1>8. CASE Show
  <2>1. /\ at = "show" /\ at' = "operator" /\ UNCHANGED <<phase, answered, run>>
        /\ shown' = Fingerprint /\ Fingerprint # None
    BY <1>8 DEF Show
  <2>2. shown' = reviewed'[run'] BY <1>2, <2>1 DEF Fingerprint
  <2>3. ASSUME ~({"astray", "crash"} \subseteq mishaps') PROVE Shown'
    <3>1. Shown BY <2>3, Grows DEF Approving
    <3>2. QED BY <1>2, <2>1, <2>2, <3>1, Grows DEF Shown, Asking
  <2>4. QED BY <1>2, <2>1, <2>3, Grows DEF Approving, Undecided, Asking
<1>9. CASE Post
  <2>1. Decided /\ at = "post" /\ at' \in {"record", "lost"} BY <1>9 DEF Post
  <2>2. run \in Runs BY <1>1, <2>1 DEF Opened, Places
  <2>3. at' \notin Undecided /\ at' \notin Asking
    BY <2>1 DEF Undecided, Nowhere, Restarting, Asking
  <2>4. ASSUME ~({"astray", "crash"} \subseteq mishaps') PROVE Shown'
    <3>1. Shown BY <2>4, Grows DEF Approving
    <3>2. shown = reviewed[run] BY <2>1, <3>1 DEF Shown
    <3>3. ASSUME NEW r \in Runs, answered'[r] PROVE <<r, reviewed'[r]>> \in asked'
      <4>1. CASE r = run BY <1>2, <2>1, <3>2, <4>1 DEF Decided
      <4>2. CASE r # run
        <5>1. answered[r] BY <1>0, <2>1, <3>3, <4>2 DEF Decided, TypeOK
        <5>2. QED BY <1>2, <3>1, <5>1, Grows DEF Shown
      <4>3. QED BY <4>1, <4>2
    <3>4. QED BY <2>3, <3>3 DEF Shown, Asking
  <2>5. QED BY <2>3, <2>4 DEF Approving
<1>10. CASE WriteReport
  <2>1. /\ at = "report" /\ UNCHANGED answered
        /\ Leaves("ready") \/ Leaves("rejected")
    BY <1>10 DEF WriteReport
  <2>2. at' = "idle" BY <2>1, LeavesTyped
  <2>3. "crash" \in mishaps \/ \A r \in Runs : ~answered[r]
    BY <1>0, <2>1 DEF Standing, Closing, Driven, Lone
  <2>4. QED BY <1>2, <2>1, <2>2, <2>3, Grows, ApprovingQuiet DEF Asking
<1>11. QED
  BY <1>3, <1>4, <1>5, <1>6, <1>7, <1>8, <1>9, <1>10 DEF Supervisor

LEMMA StepApproving ==
  ASSUME TypeInv, Approving, [Next]_vars PROVE Approving'
<1> USE DEF runVars, diskVars, procVars, historyVars, Goes
<1>0. TypeOK /\ Standing /\ Driven /\ Lone BY DEF TypeInv
<1>1. at \in Asking => run \in Runs BY <1>0 DEF Standing, Opened, Places, Asking
<1>2. CASE RunStep
  <2>1. PICK r \in Runs : \/ Merge(r) \/ WaitForMachine(r) \/ RaiseRisk(r)
                          \/ RaiseOther(r) \/ Finish(r) \/ TakeUp(r)
    BY <1>2 DEF RunStep
  <2>2. UNCHANGED <<at, run, shown, asked>> BY <1>2 DEF RunStep
  <2>3. /\ \A q \in Runs \ {r} :
             UNCHANGED <<phase[q], reviewed[q], answered[q], decisions[q]>>
        /\ ~answered'[r] /\ phase[r] \in {"work", "risk_policy"}
    BY <2>1, RunEffect
  <2>4. TakeUp(r) => answered[r] BY DEF TakeUp
  <2>5. ~TakeUp(r) => phase[r] = "work" /\ decisions'[r] = decisions[r]
    BY <2>1 DEF Merge, WaitForMachine, RaiseRisk, RaiseOther, Finish, Works
  <2>6. TakeUp(r) => decisions'[r] # <<>>
    BY <1>0 DEF TakeUp, TypeOK
  <2>7. reviewed'[r] # reviewed[r] /\ decisions[r] # <<>> => "astray" \in mishaps'
    BY <2>1 DEF Merge, WaitForMachine, RaiseRisk, RaiseOther, Finish, TakeUp, Events, Needs
  <2>8. "crash" \in mishaps' \/ (at' \in Undecided => \A q \in Runs : ~answered'[q])
    BY <2>2, <2>3, Grows DEF Approving
  <2>9. ASSUME "crash" \notin mishaps', at \in Asking PROVE phase'[run] = "risk_policy"
    <3>1. phase[run] = "risk_policy" /\ \A q \in Runs : ~answered[q]
      BY <2>9, Grows DEF Approving, Undecided
    <3>2. r # run BY <2>4, <2>5, <3>1
    <3>3. QED BY <1>1, <2>3, <2>9, <3>1, <3>2
  <2>10. ASSUME ~({"astray", "crash"} \subseteq mishaps') PROVE Shown'
    <3>1. Shown BY <2>10, Grows DEF Approving
    <3>2. \A q \in Runs : answered'[q] => <<q, reviewed'[q]>> \in asked'
      BY <2>2, <2>3, <3>1 DEF Shown
    <3>3. ASSUME at \in Asking PROVE phase'[run] = "risk_policy" \/ decisions'[run] # <<>>
      BY <1>1, <2>3, <2>5, <2>6, <3>1, <3>3 DEF Shown
    <3>4. ASSUME at \in {"operator", "recheck", "post"} PROVE reviewed'[run] = reviewed[run]
      <4>1. at \in Asking BY <3>4 DEF Asking
      <4>2. CASE run # r BY <1>1, <2>3, <4>1, <4>2
      <4>3. CASE run = r
        <5>1. CASE TakeUp(r) BY <4>3, <5>1 DEF TakeUp
        <5>2. CASE ~TakeUp(r)
          <6>1. phase[run] = "work" BY <2>5, <4>3, <5>2
          <6>2. "crash" \in mishaps /\ decisions[run] # <<>>
            BY <3>1, <4>1, <6>1 DEF Approving, Shown
          <6>3. QED BY <2>7, <2>10, <4>3, <6>2, Grows
        <5>3. QED BY <5>1, <5>2
      <4>4. QED BY <4>2, <4>3
    <3>5. QED BY <2>2, <3>1, <3>2, <3>3, <3>4 DEF Shown
  <2>11. QED BY <2>2, <2>8, <2>9, <2>10 DEF Approving
<1>3. CASE Supervisor BY <1>3, SupervisorApproving
<1>4. CASE Begin
  <2>1. UNCHANGED <<answered, reviewed>> /\ at = "idle" /\ at' \notin Asking
    BY <1>4 DEF Begin, Asking
  <2>2. QED BY <2>1, ApprovingQuiet DEF Undecided, Nowhere
<1>5. CASE Operator
  <2>1. CASE Fail({"declined"}) BY <2>1, FailApproving
  <2>2. CASE ~Fail({"declined"})
    <3>1. /\ UNCHANGED <<phase, answered, reviewed, decisions, run, shown>>
          /\ at = "operator" /\ at' = "recheck"
      BY <1>5, <2>2 DEF Operator
    <3>2. QED BY <3>1, ApprovingQuiet DEF Undecided, Asking
  <2>3. QED BY <2>1, <2>2
<1>6. CASE Escapes
  <2>1. Killed(api) /\ at' = "idle" BY <1>6, LeavesTyped DEF Escapes
  <2>2. \A r \in Runs : answered'[r] => answered[r] BY <1>0, <2>1, KilledTyped
  <2>3. "crash" \in mishaps' \/ \A r \in Runs : ~answered'[r] BY <2>1, NoneLeft, Grows
  <2>4. reviewed' = reviewed BY <2>1 DEF Killed
  <2>5. QED BY <2>1, <2>2, <2>3, <2>4, ApprovingQuiet DEF Asking
<1>7. CASE Crash
  <2>1. UNCHANGED <<answered, reviewed>> /\ at' = "idle" /\ "crash" \in mishaps'
    BY <1>7, LeavesTyped DEF Crash, Needs
  <2>2. QED BY <2>1, ApprovingQuiet DEF Asking
<1>8. ASSUME NEW c \in alive, NEW r \in Runs, Recover(c, r) PROVE Approving'
  <2>1. /\ phase[r] \in {"work"} \cup Machine /\ phase' = [phase EXCEPT ![r] = "work"]
        /\ UNCHANGED <<answered, reviewed, decisions, at, run, shown>>
    BY <1>8 DEF Recover
  <2>2. \A q \in Runs : phase'[q] = "risk_policy" <=> phase[q] = "risk_policy"
    BY <1>0, <2>1 DEF Machine, TypeOK
  <2>3. "crash" \in mishaps' \/ (at' \in Undecided => \A q \in Runs : ~answered'[q])
    BY <2>1, Grows DEF Approving
  <2>4. "crash" \in mishaps' \/ (at' \in Asking => phase'[run'] = "risk_policy")
    BY <1>1, <2>1, <2>2, Grows DEF Approving
  <2>5. ASSUME ~({"astray", "crash"} \subseteq mishaps') PROVE Shown'
    <3>1. Shown BY <2>5, Grows DEF Approving
    <3>2. QED BY <1>1, <2>1, <2>2, <3>1, Grows DEF Shown
  <2>6. QED BY <2>3, <2>4, <2>5 DEF Approving
<1>9. ASSUME NEW r \in Runs, Edit(r) PROVE Approving'
  <2>1. UNCHANGED <<phase, answered, reviewed, decisions, at, run, shown>> BY <1>9 DEF Edit
  <2>2. QED BY <2>1, ApprovingQuiet
<1>10. ASSUME NEW c \in alive, Dies(c) PROVE Approving'
  <2>1. /\ Killed(c) /\ UNCHANGED <<at, run, shown>> BY <1>10 DEF Dies
  <2>2. UNCHANGED <<phase, reviewed, decisions>> BY <2>1 DEF Killed
  <2>3. \A r \in Runs : answered'[r] => answered[r] BY <1>0, <2>1, KilledTyped
  <2>4. QED BY <2>1, <2>2, <2>3, ApprovingQuiet
<1>11. CASE UNCHANGED vars
  <2>1. UNCHANGED <<phase, answered, reviewed, decisions, at, run, shown>> BY <1>11 DEF vars
  <2>2. QED BY <2>1, ApprovingQuiet
<1>12. QED BY <1>2, <1>3, <1>4, <1>5, <1>6, <1>7, <1>8, <1>9, <1>10, <1>11 DEF Next

LEMMA InitApproving == Init => Approving
BY DEF Init, Approving, Shown, Asking

\* A decision takes effect for the content that the operator was shown; the exception takes a
\* killed supervisor and a run that raises a further interrupt.
THEOREM AsShown == Spec => ApprovedAsShown
<1>1. TypeInv /\ Approving /\ [Next]_vars => (TypeInv /\ Approving)'
  BY StepTypeInv, StepApproving
<1>2. TypeInv /\ Approving /\ [Next]_vars =>
        [\A r \in Runs : decisions'[r] # decisions[r]
           => <<r, reviewed[r]>> \in asked \/ {"astray", "crash"} \subseteq mishaps]_vars
  <2> SUFFICES ASSUME TypeInv, Approving, [Next]_vars, NEW r \in Runs, decisions'[r] # decisions[r]
               PROVE  <<r, reviewed[r]>> \in asked \/ {"astray", "crash"} \subseteq mishaps
    OBVIOUS
  <2> USE DEF runVars
  <2>1. CASE RunStep
    <3>1. PICK q \in Runs : \/ Merge(q) \/ WaitForMachine(q) \/ RaiseRisk(q)
                            \/ RaiseOther(q) \/ Finish(q) \/ TakeUp(q)
      BY <2>1 DEF RunStep
    <3>2. q = r BY <3>1, RunEffect
    <3>3. TakeUp(r) BY <3>1, <3>2 DEF Merge, WaitForMachine, RaiseRisk, RaiseOther, Finish
    <3>4. answered[r] BY <3>3 DEF TakeUp
    <3>5. QED BY <3>4 DEF Approving, Shown
  <2>2. ~Supervisor BY SupervisorRuns
  <2>3. CASE ~RunStep
    BY <2>2, <2>3 DEF Next, vars, Begin, Operator, Escapes, Crash, Fail, Killed, Recover, Edit, Dies
  <2>4. QED BY <2>1, <2>3
<1>3. QED BY InitTypeInv, InitApproving, <1>1, <1>2, PTL DEF Spec, ApprovedAsShown

-----------------------------------------------------------------------------
(* The scenario as planned. *)

LEMMA FailPlanned ==
  ASSUME NEW why, Fail(why), mishaps' = {} PROVE why = {}
BY DEF Fail

\* What holds as long as nothing has gone otherwise.
Smooth ==
  /\ Planned
  /\ at \in Undecided => \A r \in Runs : ~answered[r]
  /\ at \in Asking => phase[run] = "risk_policy"
  /\ at \in {"operator", "recheck", "post"} => shown = reviewed[run]

LEMMA Smoothly == ASSUME Approving, AsPlanned, mishaps = {} PROVE Smooth
BY DEF Approving, AsPlanned, Shown, Smooth

\* Then the supervisor has no reason to fail.
LEMMA NoFailure ==
  ASSUME TypeInv, Smooth, Supervisor, mishaps' = {} PROVE \A why : ~Fail(why)
<1> USE DEF Smooth, Goes
<1>0. TypeOK /\ Standing BY DEF TypeInv
<1> SUFFICES ASSUME NEW why, Fail(why) PROVE FALSE OBVIOUS
<1>1. why = {} /\ at' = "idle" BY FailPlanned, LeavesTyped DEF Fail
<1>2. \A w : Fail(w) => w = {} BY FailPlanned
<1>3. at \in Opened => run \in Runs BY <1>0 DEF Standing
<1>4. Blames = {} => phase[run] # "reviewer_recovery_wait" /\ ~answered[run] BY DEF Blames
<1>5. CASE ReadFails \/ TimesOut \/ Register \/ Create \/ Post \/ Lost \/ Start \/ Audit \/ Restarted
  <2>1. at # "idle"
    BY <1>5 DEF ReadFails, Waits, TimesOut, Register, Create, Post, Lost, Start, Audit, Restarted
  <2>2. ~Fail({"transport"}) /\ ~Fail({"timeout"}) /\ ~Fail({"death"}) /\ ~Fail({"audit"})
        /\ ~Fail({"same_pid"})
    BY <1>2
  <2>3. QED
    BY <1>1, <1>5, <2>1, <2>2
       DEF ReadFails, TimesOut, Register, Create, Post, Lost, Start, Audit, Restarted, Saves
<1>6. CASE Open
  <2>1. at = "open" /\ journal[run] = None BY <1>6 DEF Open, Planned
  <2>2. QED BY <1>1, <1>6, <2>1 DEF Open
<1>7. CASE AskBeforeMerge
  <2>1. /\ at = "merge_status"
        /\ phase[run] \in {"work"} \cup Machine
    BY <1>7 DEF AskBeforeMerge, Planned, Before, Undecided, Nowhere
  <2>2. QED
    BY <1>1, <1>2, <1>4, <1>7, <2>1 DEF AskBeforeMerge, Finished, Human, Machine
<1>8. CASE AskRecovery
  <2>1. at = "recovery" /\ phase[run] \notin Finished
    BY <1>8 DEF AskRecovery, Planned, Before, Undecided, Nowhere, Restarting, Machine, Finished
  <2>2. QED BY <1>1, <1>8, <2>1 DEF AskRecovery, Moves
<1>9. CASE AskRisk
  <2>1. /\ at = "risk" /\ phase[run] \in {"work", "risk_policy"} \cup Machine
        /\ phase[run] = "risk_policy" => flag \in flags[run]
    BY <1>9 DEF AskRisk, Planned, Before, Undecided, Nowhere
  <2>2. QED
    BY <1>1, <1>2, <1>4, <1>9, <2>1 DEF AskRisk, Finished, Human, Machine
<1>10. CASE Show \/ Recheck
  <2>1. /\ at \in Asking /\ at \in Before /\ at \in {"show", "recheck"}
    BY <1>10 DEF Show, Recheck, Asking, Before, Undecided, Nowhere
  <2>2. content[run] = reviewed[run] /\ reviewed[run] \in Contents BY <2>1 DEF Planned
  <2>3. Fingerprint = reviewed[run] /\ Fingerprint # None BY <2>2, Constants DEF Fingerprint
  <2>4. QED BY <1>1, <1>10, <2>3 DEF Show, Recheck
<1>11. CASE AskConverged
  <2>1. /\ at = "converge"
        /\ \/ phase[run] = "risk_policy" /\ answered[run]
           \/ phase[run] \in {"work", "converged"} \cup Machine
    BY <1>11 DEF AskConverged, Planned, After, RunOk
  <2>2. QED BY <1>1, <1>2, <1>4, <1>11, <2>1 DEF AskConverged, Human, Machine
<1>12. CASE ReadMerges \/ Count \/ Stop \/ Record \/ WriteOutput \/ WriteAudit
  BY <1>1, <1>12 DEF ReadMerges, Count, Stop, Record, WriteOutput, WriteAudit
<1>13. CASE WriteReport
  <2>1. at = "report" /\ UNCHANGED output /\ UNCHANGED mishaps BY <1>13 DEF WriteReport
  <2>2. verdict' # "failed" BY <1>13 DEF WriteReport, Leaves
  <2>3. QED BY <2>2 DEF Fail, Leaves
<1>14. QED
  BY <1>5, <1>6, <1>7, <1>8, <1>9, <1>10, <1>11, <1>12, <1>13 DEF Supervisor

\* Where the supervisor waits for the first merge.
Merging == {"merge_events", "merge_status", "count"}

LEMMA SupervisorPlanned ==
  ASSUME TypeInv, Smooth, Supervisor, mishaps' = {}, TypeInv' PROVE Planned'
<1> USE DEF runVars, diskVars, historyVars, Goes
<1>0. TypeOK /\ Standing /\ Driven /\ Lone /\ Planned BY DEF TypeInv, Smooth
<1>1. \A why : ~Fail(why) BY NoFailure
<1>2. at \in Opened => run \in Runs /\ journal[run] # None /\ journal[run] \in Progress
  BY <1>0 DEF Standing, TypeOK
<1>3. /\ Before = {"show", "operator", "recheck", "post", "stop", "start", "restarted", "recovery",
                   "open", "merge_events", "merge_status", "count", "risk"}
      /\ Auditing = {"audit", "output", "write_audit", "report"}
      /\ "open" \notin Opened /\ Before \ {"open"} \subseteq Opened
      /\ After \subseteq Opened /\ Auditing \subseteq Opened
  BY DEF Before, Undecided, Nowhere, Asking, Restarting, Auditing, Closing, Opened, Places, Waits,
         After
<1> USE DEF Restarting, Asking, After, Closing
\* Only the place changes, and what the place says holds of the run.
<1>4. CASE ReadFails \/ ReadMerges \/ AskBeforeMerge \/ AskRisk \/ Recheck \/ AskConverged \/ Register
  <2>1. UNCHANGED <<phase, merged, flags, reviewed, content, answered, decisions, defects, journal, run,
                    flag, checks, verdict>>
    BY <1>1, <1>4 DEF ReadFails, ReadMerges, AskBeforeMerge, AskRisk, Recheck, AskConverged, Register,
                      Moves
  <2>2. \/ at' = at
        \/ at = "register" /\ at' = "create"
        \/ at \in {"merge_events", "merge_status"} /\ at' \in Merging
        \/ at = "risk" /\ at' = "show"
        \/ at = "recheck" /\ at' = "post"
        \/ at = "converge" /\ at' = "audit" /\ phase[run] = "converged"
    BY <1>1, <1>4 DEF ReadFails, ReadMerges, AskBeforeMerge, AskRisk, Recheck, AskConverged, Register,
                      Moves, Merging
  <2>3. CASE at' = at BY <1>0, <2>1, <2>3 DEF Planned, Over, Decision, RunOk
  <2>4. CASE at = "register" /\ at' = "create"
    BY <1>0, <1>3, <2>1, <2>4 DEF Planned, Over, Decision, RunOk
  <2>5. CASE at \in {"merge_events", "merge_status"} /\ at' \in Merging
    BY <1>0, <1>3, <2>1, <2>5 DEF Planned, Over, Decision, RunOk, Merging
  <2>6. CASE at = "risk" /\ at' = "show"
    BY <1>0, <1>3, <2>1, <2>6 DEF Planned, Over, Decision, RunOk
  <2>7. CASE at = "recheck" /\ at' = "post"
    BY <1>0, <1>3, <2>1, <2>7 DEF Planned, Over, Decision, RunOk
  <2>8. CASE at = "converge" /\ at' = "audit" /\ phase[run] = "converged"
    <3>1. RunOk(run) /\ Decision(run) BY <1>0, <2>8 DEF Planned, Machine
    <3>2. QED BY <1>0, <1>3, <2>1, <2>8, <3>1 DEF Planned, Over, Decision, RunOk
  <2>9. QED BY <2>2, <2>3, <2>4, <2>5, <2>6, <2>7, <2>8
<1>5. CASE TimesOut \/ Lost BY <1>1, <1>5 DEF TimesOut, Lost
<1>6. CASE Create
  <2>1. at = "create" /\ run = None BY <1>0, <1>6 DEF Create, Standing, Nowhere
  <2>2. PICK r \in Runs : /\ Submitted(r) /\ run' = r /\ at' = "open"
                          /\ UNCHANGED <<journal, flag, checks, verdict>>
    BY <1>1, <1>6 DEF Create, Needs
  <2>3. /\ phase'[r] = "work" /\ journal[r] = None /\ decisions[r] = <<>>
        /\ \A q \in Runs \ {r} : phase'[q] = phase[q]
        /\ UNCHANGED <<merged, flags, reviewed, content, answered, decisions, defects>>
    BY <1>0, <2>2 DEF Submitted, Driven, TypeOK
  <2>4. \A q \in Runs : q # r => Over(q)' BY <1>0, <2>1, <2>3, Constants DEF Planned, Over
  <2>5. QED BY <1>0, <1>3, <2>2, <2>3, <2>4 DEF Planned
<1>7. CASE Open
  <2>1. /\ at = "open" /\ journal[run] = None /\ at' = "merge_events"
        /\ journal' = [journal EXCEPT ![run] = NoProgress]
        /\ UNCHANGED <<phase, merged, flags, reviewed, content, answered, decisions, defects, run,
                       flag, checks, verdict>>
    BY <1>0, <1>1, <1>7 DEF Open, Saves, Planned
  <2>2. run \in Runs BY <1>0, <2>1 DEF Standing
  <2>3. ~journal'[run].observed BY <1>0, <2>1, <2>2 DEF TypeOK, NoProgress
  <2>4. QED BY <1>0, <1>3, <2>1, <2>3 DEF Planned, Over
<1>8. CASE Count \/ Stop \/ Start \/ Show
  <2>1. /\ UNCHANGED <<phase, merged, flags, reviewed, content, decisions, defects, journal, run,
                       flag, checks, verdict>>
        /\ \/ at = "count" /\ at' = "stop"
           \/ at = "stop" /\ at' = "start"
           \/ at = "start" /\ at' = "restarted"
           \/ at = "show" /\ at' = "operator"
    BY <1>1, <1>8 DEF Count, Stop, Start, Show, Killed
  <2>2. CASE at = "show" /\ at' = "operator"
    BY <1>0, <1>3, <2>1, <2>2 DEF Planned, Over
  <2>3. CASE at' \in {"stop", "start", "restarted"} /\ at \in {"count", "stop", "start"}
    BY <1>0, <1>3, <2>1, <2>3 DEF Planned, Over
  <2>4. QED BY <2>1, <2>2, <2>3
<1>9. CASE Restarted
  <2> DEFINE p == [journal[run] EXCEPT !.restarted = TRUE, !.before = old, !.after = api]
  <2>1. /\ at = "restarted" /\ at' = "recovery" /\ api # old
        /\ journal' = [journal EXCEPT ![run] = p]
        /\ UNCHANGED <<phase, merged, flags, reviewed, content, answered, decisions, defects, run,
                       flag, checks, verdict>>
    BY <1>1, <1>9 DEF Restarted, Saves
  <2>2. run \in Runs /\ journal[run] \in Progress BY <1>2, <1>3, <2>1
  <2>3. p.before # p.after /\ ~p.observed BY <1>0, <2>1, <2>2 DEF Planned, Progress
  <2> HIDE DEF p
  <2>4. journal'[run].before # journal'[run].after /\ ~journal'[run].observed
    BY <1>0, <2>1, <2>2, <2>3 DEF TypeOK
  <2>5. QED BY <1>0, <1>3, <2>1, <2>4 DEF Planned, Over
<1>10. CASE AskRecovery
  <2> DEFINE p == [journal[run] EXCEPT !.observed = TRUE]
  <2>1. /\ at = "recovery"
        /\ \/ at' = "risk" /\ journal' = [journal EXCEPT ![run] = p]
           \/ at' = at /\ journal' = journal
        /\ UNCHANGED <<phase, merged, flags, reviewed, content, answered, decisions, defects, run,
                       flag, checks, verdict>>
    BY <1>1, <1>10 DEF AskRecovery, Saves, Moves
  <2>2. run \in Runs /\ journal[run] \in Progress BY <1>2, <1>3, <2>1
  <2>3. p.before # p.after /\ p.observed BY <1>0, <2>1, <2>2 DEF Planned, Progress
  <2> HIDE DEF p
  <2>4. CASE at' = "risk" /\ journal' = [journal EXCEPT ![run] = p]
    <3>1. journal'[run].before # journal'[run].after /\ journal'[run].observed
      BY <1>0, <2>2, <2>3, <2>4 DEF TypeOK
    <3>2. QED BY <1>0, <1>3, <2>1, <2>4, <3>1 DEF Planned, Over
  <2>5. CASE at' = at /\ journal' = journal BY <1>0, <2>1, <2>5 DEF Planned, Over, Decision, RunOk
  <2>6. QED BY <2>1, <2>4, <2>5
<1>11. CASE Post
  <2>1. /\ Decided /\ at = "post" /\ at' = "record" /\ phase[run] = "risk_policy"
        /\ UNCHANGED <<phase, merged, flags, reviewed, content, decisions, defects, journal, run,
                       flag, checks, verdict>>
    BY <1>1, <1>11 DEF Post, Decided, Needs
  <2>2. run \in Runs BY <1>2, <1>3, <2>1
  <2>3. answered'[run] BY <1>0, <2>1, <2>2 DEF Decided, TypeOK
  <2>4. QED BY <1>0, <1>3, <2>1, <2>3 DEF Planned, Over
<1>12. CASE Record
  <2> DEFINE p == [journal[run] EXCEPT !.approved = shown]
  <2>1. /\ at = "record" /\ at' = "converge"
        /\ journal' = [journal EXCEPT ![run] = p]
        /\ UNCHANGED <<phase, merged, flags, reviewed, content, answered, decisions, defects, run,
                       flag, checks, verdict>>
    BY <1>12 DEF Record, Saves
  <2>2. run \in Runs /\ journal[run] \in Progress BY <1>2, <1>3, <2>1
  <2>3. shown # None BY <1>0, <2>1, Constants DEF Standing
  <2>4. p.before # p.after /\ p.observed /\ p.approved # None
    BY <1>0, <2>1, <2>2, <2>3 DEF Planned, Progress
  <2> HIDE DEF p
  <2>5. journal'[run].before # journal'[run].after /\ journal'[run].observed
        /\ journal'[run].approved # None
    BY <1>0, <2>1, <2>2, <2>4 DEF TypeOK
  <2>6. QED BY <1>0, <1>3, <2>1, <2>5 DEF Planned, Over, Decision, RunOk
<1>13. CASE Audit
  <2>1. at = "audit" /\ at \in Auditing BY <1>3, <1>13 DEF Audit
  <2>2. RunOk(run) /\ Decision(run) BY <1>0, <2>1 DEF Planned
  <2>3. /\ journal[run].observed /\ journal[run].before # journal[run].after
        /\ journal[run].approved # None
    BY <1>0, <2>1 DEF Planned
  <2>4. RestartOk(run, Emitted) /\ HitlOk(run, Emitted)
    BY <2>2, <2>3 DEF RestartOk, HitlOk, Emitted, Decision
  <2>5. /\ checks' = Lanes \cup {"evidence"} /\ at' = "output"
        /\ UNCHANGED <<phase, merged, flags, reviewed, content, decisions, defects, journal, run,
                       flag, verdict>>
    BY <1>1, <1>13, <2>2, <2>4 DEF Audit, Needs, Killed
  <2>6. QED BY <1>0, <1>3, <2>1, <2>2, <2>3, <2>5 DEF Planned, Over, Decision, RunOk
<1>14. CASE WriteOutput \/ WriteAudit
  <2>1. /\ at \in {"output", "write_audit"} /\ at' \in {"write_audit", "report"}
        /\ UNCHANGED <<phase, merged, flags, reviewed, content, answered, decisions, defects, journal,
                       run, flag, checks, verdict>>
    BY <1>14 DEF WriteOutput, WriteAudit
  <2>2. QED BY <1>0, <1>3, <2>1 DEF Planned, Over, Decision, RunOk
<1>15. CASE WriteReport
  <2>1. at = "report" /\ at \in Auditing /\ at \in Closing BY <1>3, <1>15 DEF WriteReport
  <2>2. RunOk(run) /\ Decision(run) BY <1>0, <2>1 DEF Planned
  <2>3. /\ journal[run].observed /\ journal[run].before # journal[run].after
        /\ journal[run].approved # None /\ checks = Lanes \cup {"evidence"}
    BY <1>0, <2>1 DEF Planned
  <2>4. Ready(run, Emitted)
    BY <2>2, <2>3 DEF Ready, RestartOk, HitlOk, Emitted, Decision
  <2>5. Leaves("ready") /\ phase' = phase BY <1>15, <2>4 DEF WriteReport
  <2>6. at' = "idle" /\ verdict' = "ready" BY <2>5 DEF Leaves
  <2>7. \A r \in Runs : Over(r)'
    BY <1>0, <2>2, <2>5 DEF Planned, Over, RunOk, Finished
  <2>8. QED BY <1>3, <2>6, <2>7 DEF Planned
<1>16. QED
  BY <1>4, <1>5, <1>6, <1>7, <1>8, <1>9, <1>10, <1>11, <1>12, <1>13, <1>14, <1>15 DEF Supervisor

LEMMA RunPlanned ==
  ASSUME TypeInv, Smooth, RunStep, mishaps' = {} PROVE Planned'
<1> USE DEF diskVars
<1>0. TypeOK /\ Standing /\ Driven /\ Planned BY DEF TypeInv, Smooth
<1>1. PICK r \in Runs : \/ Merge(r) \/ WaitForMachine(r) \/ RaiseRisk(r)
                        \/ RaiseOther(r) \/ Finish(r) \/ TakeUp(r)
  BY DEF RunStep
<1>2. UNCHANGED <<at, run, flag, journal, checks, verdict>> BY DEF RunStep
<1>3. /\ \A q \in Runs \ {r} :
           UNCHANGED <<phase[q], merged[q], flags[q], reviewed[q], content[q], answered[q],
                       decisions[q], defects[q]>>
      /\ phase[r] \in {"work", "risk_policy"}
  BY <1>1, RunEffect
<1>4. r = run BY <1>0, <1>3 DEF Planned, Over, Finished
<1>5. run \in Runs BY <1>4
<1>6. \A why : ~Events(r, why \cup {"astray"}) BY DEF Events, Needs
<1>7. /\ Before = {"show", "operator", "recheck", "post", "stop", "start", "restarted", "recovery",
                   "open", "merge_events", "merge_status", "count", "risk"}
      /\ Auditing = {"audit", "output", "write_audit", "report"}
  BY DEF Before, Undecided, Nowhere, Asking, Restarting, Auditing, Closing
<1>8. at \in Before \cup After
  <2>1. at \notin Nowhere BY <1>0, <1>5, Constants DEF Standing
  <2>2. at # "lost" BY <1>0 DEF Planned
  <2>3. at \notin Auditing BY <1>0, <1>3, <1>4 DEF Planned, RunOk
  <2>4. QED BY <1>0, <1>7, <2>1, <2>2, <2>3 DEF TypeOK, Places, Waits, Nowhere, After
<1>9. \A q \in Runs : q # run => Over(q)' BY <1>0, <1>3, <1>4 DEF Planned, Over
<1>10. CASE Merge(r) \/ WaitForMachine(r)
  <2>1. /\ phase[run] = "work" /\ phase'[run] \in {"work"} \cup Machine
        /\ UNCHANGED <<flags, reviewed, content, answered, decisions, defects>>
    BY <1>0, <1>4, <1>10 DEF Merge, WaitForMachine, Works, Interrupted, TypeOK
  <2>2. at \in After => Decision(run) BY <1>0, <2>1 DEF Planned, RunOk
  <2>3. phase'[run] \notin {"risk_policy"} BY <2>1 DEF Machine
  <2>4. QED BY <1>0, <1>2, <1>7, <1>8, <1>9, <2>1, <2>2, <2>3 DEF Planned, Decision, After
<1>11. CASE RaiseRisk(r)
  <2>1. PICK c \in Contents, f \in (SUBSET Flags) \ {{}} :
          /\ flags' = [flags EXCEPT ![r] = f]
          /\ reviewed' = [reviewed EXCEPT ![r] = c]
          /\ content' = [content EXCEPT ![r] = c]
          /\ Events(r, IF Recovered(r) /\ decisions[r] = <<>> /\ flag \in f THEN {} ELSE {"astray"})
    BY <1>11 DEF RaiseRisk
  <2>2. Recovered(r) /\ decisions[r] = <<>> /\ flag \in f BY <2>1 DEF Events, Needs
  <2>3. /\ phase[run] = "work" /\ phase'[run] = "risk_policy" /\ UNCHANGED decisions
    BY <1>0, <1>4, <1>11 DEF RaiseRisk, Works, Interrupted, TypeOK
  <2>4. at \notin After BY <1>0, <1>4, <2>2, <2>3 DEF Planned, RunOk, Decision
  <2>5. at = "risk"
    <3>1. at \notin Asking BY <2>3 DEF Smooth
    <3>2. at \notin {"merge_events", "merge_status", "count"} \cup Restarting
      BY <1>0, <1>4, <2>2 DEF Planned, Recovered
    <3>3. at # "open" BY <1>0, <1>4, <2>2 DEF Planned, Recovered
    <3>4. QED BY <1>7, <1>8, <2>4, <3>1, <3>2, <3>3 DEF Asking, Restarting
  <2>6. flag \in flags'[run] /\ content'[run] = reviewed'[run] /\ reviewed'[run] \in Contents
    BY <1>0, <1>4, <2>1, <2>2 DEF TypeOK
  <2>7. QED
    BY <1>0, <1>2, <1>4, <1>7, <1>9, <2>2, <2>3, <2>5, <2>6
       DEF Planned, After, Closing, Restarting
<1>12. CASE RaiseOther(r)
  <2>1. Events(r, {"astray"}) BY <1>12 DEF RaiseOther
  <2>2. QED BY <2>1 DEF Events, Needs
<1>13. CASE Finish(r)
  <2>1. PICK end \in Finished, d \in {{}} \cup {{c} : c \in TaskChecks \cup RunChecks} :
          /\ Interrupted(r, end)
          /\ defects' = [defects EXCEPT ![r] = d]
          /\ Events(r, IF /\ end = "converged" /\ d = {}
                          /\ Len(decisions[r]) = 1 /\ Cardinality(merged[r]) >= 2
                       THEN {} ELSE {"astray"})
    BY <1>13 DEF Finish
  <2>2. end = "converged" /\ d = {} /\ Len(decisions[r]) = 1 /\ Cardinality(merged[r]) >= 2
    BY <2>1 DEF Events, Needs
  <2>3. /\ phase[run] = "work" /\ phase'[run] = "converged" /\ defects'[run] = {}
        /\ UNCHANGED <<merged, flags, reviewed, content, answered, decisions>>
    BY <1>0, <1>4, <1>13, <2>1, <2>2 DEF Finish, Works, Interrupted, TypeOK
  <2>4. RunOk(run)' BY <1>2, <1>4, <2>2, <2>3 DEF RunOk
  <2>5. at \in After
    <3>1. decisions[run] # <<>> BY <1>4, <2>2
    <3>2. QED BY <1>0, <1>8, <3>1 DEF Planned
  <2>6. Decision(run) BY <1>0, <2>3, <2>5 DEF Planned, RunOk
  <2>7. QED
    BY <1>0, <1>2, <1>7, <1>9, <2>3, <2>4, <2>5, <2>6
       DEF Planned, Decision, After, Closing, Restarting, Asking
<1>14. CASE TakeUp(r)
  <2>1. /\ answered[run] /\ phase[run] = "risk_policy" /\ phase'[run] = "work"
        /\ decisions' = [decisions EXCEPT ![run] = Append(@, flags[run])]
    BY <1>0, <1>4, <1>14 DEF TakeUp, Driven, TypeOK
  <2>2. at \in After
    <3>1. at \notin Undecided BY <1>5, <2>1 DEF Smooth
    <3>2. QED BY <1>8, <3>1 DEF Before
  <2>3. decisions[run] = <<>> /\ flag \in flags[run] BY <1>0, <2>1, <2>2 DEF Planned, RunOk, Machine
  <2>4. decisions'[run] = <<flags[run]>>
    <3>1. decisions'[run] = Append(decisions[run], flags[run]) BY <1>0, <1>5, <2>1 DEF TypeOK
    <3>2. QED BY <2>3, <3>1
  <2>5. Len(decisions'[run]) = 1 /\ flag \in decisions'[run][1] BY <2>3, <2>4
  <2>6. QED
    BY <1>0, <1>2, <1>7, <1>9, <2>1, <2>2, <2>5
       DEF Planned, Decision, After, Closing, Restarting, Asking
<1>15. QED BY <1>1, <1>10, <1>11, <1>12, <1>13, <1>14

LEMMA StepPlanned ==
  ASSUME TypeInv, Approving, AsPlanned, [Next]_vars PROVE AsPlanned'
<1> SUFFICES ASSUME mishaps' = {} PROVE Planned' BY DEF AsPlanned
<1>0. mishaps = {} BY Grows
<1>1. Smooth BY <1>0, Smoothly
<1>2. TypeOK /\ Standing /\ Driven /\ Planned BY <1>1 DEF TypeInv, Smooth
<1>3. TypeInv' BY StepTypeInv
<1> USE DEF runVars, diskVars, procVars, historyVars, Goes
<1>4. \A why : why # {} => ~Needs(why) BY DEF Needs
<1>5. /\ Before = {"show", "operator", "recheck", "post", "stop", "start", "restarted", "recovery",
                   "open", "merge_events", "merge_status", "count", "risk"}
      /\ Auditing = {"audit", "output", "write_audit", "report"}
  BY DEF Before, Undecided, Nowhere, Asking, Restarting, Auditing, Closing
<1>6. CASE RunStep BY <1>1, <1>6, RunPlanned
<1>7. CASE Supervisor BY <1>1, <1>3, <1>7, SupervisorPlanned
<1>8. CASE Begin
  <2>1. at = "idle" /\ run = None BY <1>2, <1>8 DEF Begin, Standing, Nowhere
  <2>2. \A r \in Runs : Over(r) BY <1>2, <2>1, Constants DEF Planned
  <2>3. Unfinisheds = {} BY <2>2 DEF Unfinisheds, Unfinished, Over
  <2>4. at' \in {"create", "register"} /\ verdict' = "none" /\ UNCHANGED phase
    BY <1>8, <2>3 DEF Begin
  <2>5. \A r \in Runs : Over(r)' BY <2>2, <2>4 DEF Over
  <2>6. QED BY <1>5, <2>4, <2>5 DEF Planned, Asking, After, Restarting, Closing
<1>9. CASE Operator
  <2>1. ~Fail({"declined"}) BY FailPlanned
  <2>2. /\ at = "operator" /\ at' = "recheck"
        /\ UNCHANGED <<phase, merged, flags, reviewed, content, answered, decisions, defects, journal,
                       run, flag, checks, verdict>>
    BY <1>9, <2>1 DEF Operator
  <2>3. QED BY <1>2, <1>5, <2>2 DEF Planned, Over, Asking, After, Restarting, Closing
<1>10. CASE Escapes \/ Crash BY <1>4, <1>10 DEF Escapes, Crash
<1>11. ASSUME NEW c \in alive, NEW r \in Runs, Recover(c, r) PROVE Planned'
  <2>1. /\ phase[r] \in {"work"} \cup Machine /\ phase'[r] = "work"
        /\ \A q \in Runs \ {r} : phase'[q] = phase[q]
        /\ UNCHANGED <<merged, flags, reviewed, content, answered, decisions, defects, journal, at,
                       run, flag, checks, verdict>>
    BY <1>2, <1>11 DEF Recover, TypeOK
  <2>2. r = run BY <1>2, <2>1 DEF Planned, Over, Finished, Machine
  <2>3. \A q \in Runs : q # run => Over(q)' BY <1>2, <2>1, <2>2 DEF Planned, Over
  <2>4. at \in After => Decision(run) BY <1>2, <2>1, <2>2 DEF Planned, RunOk, Machine
  <2>5. at \notin Auditing BY <1>2, <2>1, <2>2 DEF Planned, RunOk, Machine
  <2>6. QED
    BY <1>2, <1>5, <2>1, <2>2, <2>3, <2>4, <2>5
       DEF Planned, Decision, Asking, After, Restarting, Closing
<1>12. ~\E r \in Runs : Edit(r) BY <1>4 DEF Edit
<1>13. ~\E c \in alive : Dies(c) BY <1>4 DEF Dies
<1>14. CASE UNCHANGED vars
  <2>1. UNCHANGED <<phase, merged, flags, reviewed, content, answered, decisions, defects, journal, at,
                    run, flag, checks, verdict>>
    BY <1>14 DEF vars
  <2>2. QED BY <1>2, <2>1 DEF Planned, Over, Decision, RunOk
<1>15. QED BY <1>6, <1>7, <1>8, <1>9, <1>10, <1>11, <1>12, <1>13, <1>14 DEF Next

LEMMA InitPlanned == Init => AsPlanned
<1> SUFFICES ASSUME Init PROVE Planned BY DEF AsPlanned
<1>1. at = "idle" /\ verdict = "none" /\ \A r \in Runs : Over(r) BY DEF Init, Over
<1>2. QED
  BY <1>1 DEF Planned, Before, Undecided, Nowhere, Asking, Restarting, After, Auditing, Closing

\* acceptance_supervisor.py: a scenario in which nothing goes otherwise than planned is never
\* refused.
THEOREM NoAlarm == Spec => []NoFalseAlarm
<1>1. Init => IInv
  BY InitTypeInv, InitReported, InitApproving, InitPlanned DEF IInv
<1>2. IInv /\ [Next]_vars => IInv'
  BY StepTypeInv, StepJournalled, StepReported, StepApproving, StepPlanned DEF IInv
<1>3. IInv => NoFalseAlarm
  BY DEF IInv, AsPlanned, Planned, NoFalseAlarm
<1>4. QED BY <1>1, <1>2, <1>3, PTL DEF Spec

=============================================================================
