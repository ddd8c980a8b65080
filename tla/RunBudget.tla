------------------------------ MODULE RunBudget ------------------------------
(***************************************************************************)
(* The resource envelope of one run: its ledger (budget.py), the calls of    *)
(* models that it has to allow, alone or as parallel reviewer lanes with     *)
(* retries and fallback profiles (opencode.py, context.py), the measurement  *)
(* of what they used (model_usage.py), and the controller's part in it       *)
(* (runtime.py).                                                            *)
(*                                                                         *)
(* The lanes of a worker share a lock on the ledger.  What keeps a worker of *)
(* another process away is the lease of RunLease, which may lapse while its  *)
(* worker is alive; Elsewhere is that other process.  Time passes in ticks,  *)
(* Second of them to a second.                                               *)
(***************************************************************************)
EXTENDS Naturals, FiniteSets

CONSTANTS
  Roles,        \* agents that call models
  Reviewers,    \* review_roles, called together
  Parallel,     \* max_parallel_reviews
  Retries,      \* provider_retries: further attempts with the primary profile
  Fallbacks,    \* number of fallback_model_profiles
  Cost,         \* tokens that a request of an agent reserves
  MaxAttempts,  \* run_budget.max_model_attempts
  MaxTokens,    \* run_budget.max_estimated_tokens
  MaxWall,      \* run_budget.max_wall_time_seconds
  RoleTimeout,  \* timeout_seconds of an agent
  Second,       \* ticks in a second
  MaxClock,     \* bound: last tick
  Mishaps,      \* what may go wrong
  MaxMishaps,   \* bound: kinds of it in one behaviour, and profiles that are too small
  None          \* no lane

ASSUME BudgetConstants ==
  /\ None \notin Roles
  /\ Reviewers \subseteq Roles
  /\ Cost \in [Roles -> Nat]
  /\ {Parallel, Retries, Fallbacks, MaxAttempts, MaxTokens, MaxWall, RoleTimeout,
      MaxClock, MaxMishaps} \subseteq Nat
  /\ Second \in Nat \ {0}

VARIABLES
  \* run-budget.json and model-usage/
  file,      \* there, missing or bad
  attempts,  \* model_attempts_reserved
  tokens,    \* estimated_tokens_reserved
  records,   \* reservations with a usage record
  \* the run
  status, verdict,
  \* its worker
  worker,    \* what it does
  called,    \* the agents that it waits for
  lock,      \* the lane that holds _BUDGET_LOCK
  \* its lanes, one per agent
  pc, try, kinds, number, seen, seenTokens, issued, deadline, answer, result,
  \* surroundings
  small,     \* profiles whose context cannot take the prompts of the run
  clock,
  mishaps,   \* what goes wrong: killed processes, lapsed leases, a damaged ledger, failing writes
  \* history
  launched,  \* reservations under which a model was called
  spent,     \* tokens reserved for the calls that were made
  heard      \* what the models answered to a lane

ledgerVars == <<file, attempts, tokens>>
workerVars == <<worker, called>>
grantVars == <<number, seen, seenTokens, issued, deadline, answer>>
laneVars == <<pc, try, kinds, grantVars, result, lock>>
worldVars == <<small, clock, mishaps>>
historyVars == <<launched, spent, heard>>
vars == <<ledgerVars, records, status, verdict, workerVars, laneVars, worldVars, historyVars>>

\* Files whose writes fail now and then, if they are among the mishaps.
Files == {"ledger", "context", "usage", "health"}

Final == {"done", "failed", "budget_exhausted"}
Places == {"off", "queued", "ready", "write", "launch", "call", "record", "ended"}
Kinds == {"provider_error", "process_failure", "context_budget", "execution_exception"}
Errors == {"provider_error", "process_failure"}

\* An answer that is no review counts as a rejection (_normalize_review).
OkAnswers == {"pass", "reject"}

Results == {"none", "budget", "integrity", "escaped", "transport", "process"} \cup OkAnswers

\* The primary profile 1 + Retries times, then every fallback once.
LastTry == 1 + Retries + Fallbacks
Profile(i) == IF i <= 1 + Retries THEN 0 ELSE i - (1 + Retries)

Init ==
  /\ file = "missing" /\ attempts = 0 /\ tokens = 0 /\ records = {}
  /\ status = "queued" /\ verdict = "none"
  /\ worker = "off" /\ called = {} /\ lock = None
  /\ pc = [r \in Roles |-> "off"]
  /\ try = [r \in Roles |-> 1]
  /\ kinds = [r \in Roles |-> {}]
  /\ number = [r \in Roles |-> 0]
  /\ seen = [r \in Roles |-> 0]
  /\ seenTokens = [r \in Roles |-> 0]
  /\ issued = [r \in Roles |-> 0]
  /\ deadline = [r \in Roles |-> 0]
  /\ answer = [r \in Roles |-> "none"]
  /\ result = [r \in Roles |-> "none"]
  /\ clock = 0
  /\ small \in SUBSET (0..Fallbacks)
  /\ mishaps \in SUBSET (Mishaps \cap Files)
  /\ Cardinality(mishaps) + Cardinality(small) <= MaxMishaps
  /\ launched = {} /\ spent = 0 /\ heard = [r \in Roles |-> {}]

Mishap(what) ==
  /\ what \in Mishaps
  /\ mishaps' = mishaps \cup {what}
  /\ Cardinality(mishaps') + Cardinality(small) <= MaxMishaps

-----------------------------------------------------------------------------
\* The controller that has the run's lease.
Idle == worker' = "off" /\ called' = {}

\* A worker that goes on or is over has forgotten its lanes.
NoLanes ==
  /\ pc' = [r \in Roles |-> "off"]
  /\ try' = [r \in Roles |-> 1]
  /\ kinds' = [r \in Roles |-> {}]
  /\ number' = [r \in Roles |-> 0]
  /\ seen' = [r \in Roles |-> 0]
  /\ seenTokens' = [r \in Roles |-> 0]
  /\ issued' = [r \in Roles |-> 0]
  /\ deadline' = [r \in Roles |-> 0]
  /\ answer' = [r \in Roles |-> "none"]
  /\ result' = [r \in Roles |-> "none"]
  /\ heard' = [r \in Roles |-> {}]
  /\ lock' = None

Overdue == clock >= MaxWall * Second

\* Mutant: whatever run it is of.
MayInitializeAgain == file = "missing"

\* A missing ledger is that of a run which has never been submitted, or an error.
MayInitialize == file = "missing" /\ status = "queued"

\* _submit: the ledger must be there or be new, and the wall time not over.
Enforce ==
  /\ worker = "off" /\ status \notin Final
  /\ IF file = "there" \/ MayInitialize
     THEN /\ file' = "there"
          /\ attempts' = (IF MayInitialize THEN 0 ELSE attempts)
          /\ tokens' = (IF MayInitialize THEN 0 ELSE tokens)
          /\ IF Overdue THEN status' = "budget_exhausted" /\ UNCHANGED worker
             ELSE worker' = "claimed" /\ UNCHANGED status
     ELSE status' = "failed" /\ UNCHANGED <<ledgerVars, worker>>
  /\ UNCHANGED <<records, verdict, called, laneVars, worldVars, historyVars>>

Execute ==
  /\ worker = "claimed"
  /\ worker' = "graph" /\ status' = "running"
  /\ UNCHANGED <<ledgerVars, records, verdict, called, laneVars, worldVars, historyVars>>

\* The graph reaches its end, an interrupt, or a node that raises.
Leave ==
  /\ worker = "graph"
  /\ status' \in {"done", "failed", "waiting"}
  /\ Idle
  /\ UNCHANGED <<ledgerVars, records, verdict, laneVars, worldVars, historyVars>>

Crash ==
  /\ worker # "off" /\ Mishap("crash")
  /\ Idle /\ NoLanes
  /\ UNCHANGED <<ledgerVars, records, status, verdict, small, clock, launched, spent>>

Damage ==
  /\ file = "there" /\ Mishap("damage")
  /\ file' \in {"missing", "bad"}
  /\ UNCHANGED <<attempts, tokens, records, status, verdict, workerVars, laneVars, small, clock,
                 historyVars>>

-----------------------------------------------------------------------------
\* invoke: one agent, or every reviewer; at most Parallel lanes at a time.
Invoke ==
  /\ worker = "graph"
  /\ \E agents \in ({{r} : r \in Roles \ Reviewers} \cup {Reviewers}) \ {{}} :
       /\ called' = agents
       /\ pc' = [r \in Roles |-> IF r \in agents THEN "queued" ELSE "off"]
  /\ worker' = "invoke"
  /\ UNCHANGED <<ledgerVars, records, status, verdict, try, kinds, grantVars, result, lock, worldVars,
                 historyVars>>

\* A lane that waits for a place in the pool, or for the next attempt, may go on.
Running == {r \in Roles : pc[r] \notin {"off", "queued", "ended"}}
Ready(r) == pc[r] = "ready" \/ (pc[r] = "queued" /\ Cardinality(Running) < Parallel)

\* The lane is over: with an answer, or with why it has none.
Ends(r, how) ==
  /\ pc' = [pc EXCEPT ![r] = "ended"]
  /\ result' = [result EXCEPT ![r] = how]

\* An attempt that is over leaves nothing behind but its kind and what it gave.
Forgets(r) ==
  /\ number' = [number EXCEPT ![r] = 0]
  /\ seen' = [seen EXCEPT ![r] = 0] /\ seenTokens' = [seenTokens EXCEPT ![r] = 0]
  /\ issued' = [issued EXCEPT ![r] = 0] /\ deadline' = [deadline EXCEPT ![r] = 0]
  /\ answer' = [answer EXCEPT ![r] = "none"]

\* Mutant: any attempt that met a transport failure will do.
FailureClassOfAny(ks) == IF ks \cap {"provider_error", "execution_exception"} # {} THEN "transport"
                         ELSE "process"

\* provider_failure_class of the attempts made.
FailureClass(ks) == IF ks \subseteq {"provider_error", "execution_exception"} THEN "transport"
                    ELSE "process"

\* Mutant: a fallback that does not fit is tried again.
FollowingTryAgain(i, kind) == IF kind = "context_budget" THEN 2 + Retries ELSE i + 1

\* After a failed attempt: the next repetition, or the next profile, at once when the prompt does
\* not fit.
FollowingTry(i, kind) == IF kind = "context_budget" /\ i <= 1 + Retries THEN 2 + Retries ELSE i + 1

\* The attempt cannot be entered in provider-health.jsonl, which ends the lane.
Unentered(r) ==
  /\ "health" \in mishaps /\ Ends(r, "escaped")
  /\ UNCHANGED <<kinds, try>>

Failed(r, kind) ==
  LET ks == kinds[r] \cup {kind}
      next == FollowingTry(try[r], kind)
  IN /\ Forgets(r)
     /\ \/ /\ kinds' = [kinds EXCEPT ![r] = ks]
           /\ IF next <= LastTry
              THEN /\ try' = [try EXCEPT ![r] = next]
                   /\ pc' = [pc EXCEPT ![r] = "ready"]
                   /\ UNCHANGED result
              ELSE Ends(r, FailureClass(ks)) /\ UNCHANGED try
        \/ Unentered(r)

\* prepare_prompt: the authoritative part of the prompt fits the profile, or nothing is sent.
Fits(r) == Profile(try[r]) \notin small

DoesNotFit(r) ==
  /\ Ready(r) /\ ~Fits(r)
  /\ \/ Failed(r, "context_budget")
     \/ "context" \in mishaps /\ Failed(r, "execution_exception")
  /\ UNCHANGED <<ledgerVars, records, status, verdict, workerVars, lock, worldVars, historyVars>>

\* Whole seconds that are left at an instant.
Remaining(t) == IF t >= MaxWall * Second THEN 0 ELSE (MaxWall * Second - t) \div Second

\* Mutant: what is reserved already is within the limits.
AffordableYet(c) == attempts < MaxAttempts /\ tokens < MaxTokens /\ Remaining(clock) >= 1

Affordable(c) ==
  /\ attempts < MaxAttempts /\ tokens < MaxTokens
  /\ Remaining(clock) >= 1
  /\ tokens + c <= MaxTokens

\* Mutant: no lock.
FreeAnyway(r) == TRUE
Free(r) == lock = None

\* reserve_model_attempt, first part, under the lock: read the ledger and decide.
Check(r) ==
  /\ Ready(r) /\ Fits(r) /\ Free(r)
  /\ \/ file # "there" /\ Ends(r, "integrity") /\ UNCHANGED <<seen, seenTokens, issued, lock>>
     \/ /\ file = "there" /\ ~Affordable(Cost[r])
        /\ Ends(r, "budget") /\ UNCHANGED <<seen, seenTokens, issued, lock>>
     \/ /\ file = "there" /\ Affordable(Cost[r])
        /\ pc' = [pc EXCEPT ![r] = "write"]
        /\ lock' = r
        /\ seen' = [seen EXCEPT ![r] = attempts]
        /\ seenTokens' = [seenTokens EXCEPT ![r] = tokens]
        /\ issued' = [issued EXCEPT ![r] = clock]
        /\ UNCHANGED result
  /\ UNCHANGED <<ledgerVars, records, status, verdict, workerVars, try, kinds, number, deadline,
                 answer, worldVars, historyVars>>

\* Second part: the ledger is replaced, and only then may the model be called.
Write(r) ==
  /\ pc[r] = "write"
  /\ lock' = None
  /\ \/ /\ file' = "there"
        /\ attempts' = seen[r] + 1
        /\ tokens' = seenTokens[r] + Cost[r]
        /\ number' = [number EXCEPT ![r] = seen[r] + 1]
        /\ pc' = [pc EXCEPT ![r] = "launch"]
        /\ UNCHANGED <<try, kinds, seen, seenTokens, issued, deadline, answer, result>>
     \/ /\ "ledger" \in mishaps
        /\ Failed(r, "execution_exception")
        /\ UNCHANGED ledgerVars
  /\ UNCHANGED <<records, status, verdict, workerVars, worldVars, historyVars>>

\* The lease lapses unnoticed, and the worker of another process reserves an attempt and calls a
\* model; the locks of two processes do not exclude each other.
Elsewhere ==
  /\ worker # "off" /\ Mishap("lapse")
  /\ file = "there"
  /\ \E r \in Roles : /\ Affordable(Cost[r])
                      /\ attempts' = attempts + 1
                      /\ tokens' = tokens + Cost[r]
                      /\ launched' = launched \cup {attempts + 1}
                      /\ spent' = spent + Cost[r]
  /\ UNCHANGED <<file, records, status, verdict, workerVars, laneVars, small, clock, heard>>

\* The smaller of the agent's timeout and what was left when the reservation was made.
Timeout(t) == IF RoleTimeout < Remaining(t) THEN RoleTimeout ELSE Remaining(t)

Launch(r) ==
  /\ pc[r] = "launch"
  /\ pc' = [pc EXCEPT ![r] = "call"]
  /\ deadline' = [deadline EXCEPT ![r] = clock + Timeout(issued[r]) * Second]
  /\ launched' = launched \cup {number[r]}
  /\ spent' = spent + Cost[r]
  /\ UNCHANGED <<ledgerVars, records, status, verdict, workerVars, try, kinds, number, seen,
                 seenTokens, issued, answer, result, lock, worldVars, heard>>

\* The model answers or reports an error.  If the line for the context ledger cannot be written,
\* the answer is lost.
Answer(r) ==
  /\ pc[r] = "call"
  /\ \E a \in OkAnswers \cup Errors :
       /\ heard' = [heard EXCEPT ![r] = @ \cup ({a} \ {"provider_error"})]
       /\ \/ /\ answer' = [answer EXCEPT ![r] = a]
             /\ pc' = [pc EXCEPT ![r] = "record"]
             /\ UNCHANGED <<try, kinds, number, seen, seenTokens, issued, deadline, result>>
          \/ /\ "context" \in mishaps
             /\ Failed(r, "execution_exception")
  /\ UNCHANGED <<ledgerVars, records, status, verdict, workerVars, lock, worldVars, launched, spent>>

\* The process raises, or is killed at its deadline.
Raise(r) ==
  /\ pc[r] = "call"
  /\ Failed(r, "execution_exception")
  /\ UNCHANGED <<ledgerVars, records, status, verdict, workerVars, lock, worldVars, historyVars>>

TimesOut(r) == (clock >= deadline[r] \/ clock = MaxClock) /\ Raise(r)

\* record_model_usage_attempt, whose failure changes nothing; then the attempt is over.
Recorded(r) ==
  \/ file = "there" /\ number[r] <= attempts /\ records' = records \cup {number[r]}
  \/ (file # "there" \/ number[r] > attempts \/ "usage" \in mishaps) /\ UNCHANGED records

Record(r) ==
  /\ pc[r] = "record"
  /\ Recorded(r)
  /\ IF answer[r] \in Errors
     THEN Failed(r, answer[r])
     ELSE /\ Forgets(r)
          /\ \/ Ends(r, answer[r]) /\ UNCHANGED <<try, kinds>>
             \/ Unentered(r)
  /\ UNCHANGED <<ledgerVars, status, verdict, workerVars, lock, worldVars, historyVars>>

\* summarize_model_usage (coverage_complete): there is a record for every reservation.
CoverageComplete == file = "there" /\ records # {} /\ Cardinality(records) = attempts

-----------------------------------------------------------------------------
\* When every lane has ended: a refused reservation ends the run, whatever the others say; an
\* agent alone gives its result to its node; reviewers are taken together.
Given == {result[r] : r \in called}

\* Mutant: a lane without budget is a failed review.
RefusalsOfLedger == {"integrity"}
Refusals == {"budget", "integrity"}

\* The aggregate, and what review makes of the classes of the rejecting lanes.
Verdict ==
  LET rejecting == {r \in called : result[r] # "pass"}
  IN IF rejecting = {} THEN "pass"
     ELSE IF \A r \in rejecting : result[r] = "transport" THEN "outage" ELSE "reject"

Stops(how) == status' = how /\ Idle /\ UNCHANGED verdict

Gather ==
  /\ worker = "invoke" /\ \A r \in called : pc[r] = "ended"
  /\ \/ "budget" \in Given /\ Stops("budget_exhausted")
     \/ "integrity" \in Given /\ Stops("failed")
     \/ /\ Given \cap Refusals = {}
        /\ IF "escaped" \in Given /\ called # Reviewers
           THEN Stops("failed")
           ELSE /\ verdict' = IF called = Reviewers THEN Verdict ELSE verdict
                /\ worker' = "graph" /\ called' = {}
                /\ UNCHANGED status
  /\ NoLanes
  /\ UNCHANGED <<ledgerVars, records, worldVars, launched, spent>>

\* The clock of the machine; a call is killed before its deadline has passed.
Tick ==
  /\ clock < MaxClock
  /\ \A r \in Roles : pc[r] = "call" => clock < deadline[r]
  /\ clock' = clock + 1
  /\ UNCHANGED <<ledgerVars, records, status, verdict, workerVars, laneVars, small, mishaps,
                 historyVars>>

Advances(r) == DoesNotFit(r) \/ Check(r) \/ Write(r) \/ Launch(r) \/ Record(r)

Next ==
  \/ Enforce \/ Execute \/ Leave \/ Invoke \/ Gather
  \/ \E r \in Roles : Advances(r) \/ Answer(r) \/ Raise(r)
  \/ Crash \/ Damage \/ Elsewhere \/ Tick

Spec == Init /\ [][Next]_vars

\* Threads that can go on do, time passes, and a call ends at its deadline.  A model need not
\* answer before, and nobody need submit the run again.
FairSpec ==
  /\ Spec
  /\ WF_vars(Tick) /\ WF_vars(Gather)
  /\ \A r \in Roles : WF_vars(Advances(r)) /\ WF_vars(TimesOut(r))

-----------------------------------------------------------------------------
TypeOK ==
  /\ file \in {"there", "missing", "bad"}
  /\ attempts \in Nat /\ tokens \in Nat
  /\ status \in {"queued", "running", "waiting"} \cup Final
  /\ verdict \in {"none", "pass", "reject", "outage"}
  /\ worker \in {"off", "claimed", "graph", "invoke"}
  /\ called \subseteq Roles
  /\ lock \in Roles \cup {None}
  /\ pc \in [Roles -> Places]
  /\ try \in [Roles -> 1..LastTry]
  /\ kinds \in [Roles -> SUBSET Kinds]
  /\ number \in [Roles -> Nat] /\ seen \in [Roles -> Nat] /\ seenTokens \in [Roles -> Nat]
  /\ issued \in [Roles -> Nat] /\ deadline \in [Roles -> Nat]
  /\ answer \in [Roles -> {"none"} \cup OkAnswers \cup Errors]
  /\ result \in [Roles -> Results]
  /\ small \subseteq 0..Fallbacks /\ clock \in Nat /\ mishaps \subseteq Mishaps
  /\ launched \subseteq Nat /\ records \subseteq Nat /\ spent \in Nat
  /\ heard \in [Roles -> SUBSET (OkAnswers \cup Errors)]

Lapsed == "lapse" \in mishaps

\* A running call is killed no sooner than a second after its reservation, unless its agent may not
\* take that long, and within the run's wall time, but for the time between reservation and start.
WithinWall ==
  \A r \in Roles : pc[r] = "call" =>
    /\ RoleTimeout >= 1 => deadline[r] >= issued[r] + Second
    /\ deadline[r] + issued[r] <= clock + MaxWall * Second

\* Over lanes, retries, fallbacks and crashes, the calls of models that were ever made keep the
\* limits of the run in number, tokens and time, and complete coverage in model-usage means that
\* every one of them is among the records.  When a lease lapses, only the time is kept.
CallsKept ==
  /\ WithinWall
  /\ Lapsed \/ /\ launched \subseteq 1..MaxAttempts /\ spent <= MaxTokens
               /\ CoverageComplete => launched \subseteq records

\* Unless a lease lapses, a call has a reservation of its own: no other lane has the same, and no
\* call was made under it before.
OwnReservation ==
  ~Lapsed =>
    \A r \in Roles : pc[r] = "launch" =>
      /\ number[r] \in 1..attempts \ launched
      /\ \A q \in Roles \ {r} : pc[q] = "launch" => number[q] # number[r]

\* What was reserved stays reserved, whatever crashes, and a lost ledger is not begun anew.
NeverRefilled == [][~Lapsed' => attempts <= attempts' /\ tokens <= tokens']_vars

\* A refused reservation ends the run: it is never made a verdict or handed to a node, whatever
\* the other lanes have come to.
RefusalEnds ==
  [][worker = "invoke" /\ Given \cap {"budget", "integrity"} # {} /\ worker' # "invoke"
       => /\ worker' = "off" /\ verdict' = verdict
          /\ status' \in Final \/ "crash" \in mishaps']_vars

\* A verdict says what the reviewers said.  They pass when all of them said so; an outage means
\* that one of them said nothing and none rejected; and without a rejection, or an exit that says
\* nothing, a review is only rejected when a profile could not take the prompt.  A context ledger
\* or health file that cannot be written makes an outage or a rejection of an answer.
VerdictIsHeard ==
  [][worker = "invoke" /\ called = Reviewers /\ worker' = "graph" =>
       LET lost == {"context", "health"} \cap mishaps # {}
       IN CASE verdict' = "pass" -> \A r \in Reviewers : "pass" \in heard[r]
            [] verdict' = "outage" -> \/ lost
                                      \/ /\ \E r \in Reviewers : heard[r] = {}
                                         /\ \A r \in Reviewers : "reject" \notin heard[r]
            [] OTHER -> \/ lost \/ small # {}
                        \/ \E r \in Reviewers : heard[r] \cap {"reject", "process_failure"} # {}]_vars

\* An invocation comes to its end: no lane waits for ever for a place, the lock or a model.
InvocationEnds == worker = "invoke" ~> worker # "invoke"

=============================================================================
