-------------------------- MODULE RunBudget_proof --------------------------
(* Reservations of RunBudget, for every set of agents and every limit; what a *)
(* verdict rests on, and what a refusal does.                                *)
EXTENDS RunBudget, FiniteSetTheorems, TLAPS

\* Only a worker that invokes has lanes; a run whose worker got that far is not queued.
Invoking ==
  /\ \A r \in Roles : pc[r] # "off" => worker = "invoke"
  /\ worker \in {"graph", "invoke"} => status # "queued"

\* Between reading the ledger and replacing it, a lane has the lock.
Locked == \A r \in Roles : pc[r] = "write" => lock = r

\* The ledger is what the lane has read, and there was an attempt left.
Current ==
  \A r \in Roles : pc[r] = "write" => /\ seen[r] = attempts /\ seenTokens[r] = tokens
                                      /\ attempts < MaxAttempts

\* A queued run has reserved nothing.
Fresh == status = "queued" => attempts = 0 /\ tokens = 0

\* Calls are made under reservations, of which there are never too many.
Counted == launched \subseteq 1..attempts /\ attempts <= MaxAttempts

Owned ==
  \A r \in Roles : pc[r] = "launch" =>
    /\ number[r] \in 1..attempts \ launched
    /\ \A q \in Roles \ {r} : pc[q] = "launch" => number[q] # number[r]

IInv == /\ TypeOK /\ Invoking /\ Locked
        /\ ~Lapsed => Current /\ Fresh /\ Counted /\ Owned

-----------------------------------------------------------------------------
LEMMA Constants ==
  /\ \A r \in Roles : Cost[r] \in Nat
  /\ Retries \in Nat /\ Fallbacks \in Nat /\ MaxAttempts \in Nat /\ MaxWall \in Nat
  /\ RoleTimeout \in Nat /\ Second \in Nat /\ Second > 0 /\ MaxTokens \in Nat
  /\ LastTry \in Nat /\ LastTry >= 1
BY BudgetConstants DEF LastTry

LEMMA TimeoutNat == ASSUME NEW t \in Nat PROVE Timeout(t) * Second \in Nat
<1>1. MaxWall * Second \in Nat BY Constants
<1>2. Remaining(t) \in Nat
  <2> DEFINE left == MaxWall * Second - t
  <2>1. CASE t >= MaxWall * Second BY <2>1 DEF Remaining
  <2>2. CASE ~(t >= MaxWall * Second)
    <3>1. left \in Nat BY <2>2, <1>1
    <3>2. \A a, b \in Nat : b > 0 => a \div b \in Nat OBVIOUS
    <3>3. left \div Second \in Nat BY <3>1, <3>2, Constants
    <3>4. QED BY <3>3, <2>2 DEF Remaining
  <2>3. QED BY <2>1, <2>2
<1>3. Timeout(t) \in Nat BY <1>2, Constants DEF Timeout
<1>4. QED BY <1>3, Constants

\* An attempt that failed leaves its lane ready or ended.
LEMMA FailedTyped ==
  ASSUME TypeOK, NEW r \in Roles, NEW kind \in Kinds, Failed(r, kind)
  PROVE  /\ pc' \in [Roles -> Places] /\ try' \in [Roles -> 1..LastTry]
         /\ kinds' \in [Roles -> SUBSET Kinds] /\ result' \in [Roles -> Results]
         /\ number' \in [Roles -> Nat] /\ seen' \in [Roles -> Nat]
         /\ seenTokens' \in [Roles -> Nat] /\ issued' \in [Roles -> Nat]
         /\ deadline' \in [Roles -> Nat]
         /\ answer' \in [Roles -> {"none"} \cup OkAnswers \cup Errors]
         /\ \E next \in {"ready", "ended"} : pc' = [pc EXCEPT ![r] = next]
<1> DEFINE next == FollowingTry(try[r], kind)
<1>1. /\ number' \in [Roles -> Nat] /\ seen' \in [Roles -> Nat]
      /\ seenTokens' \in [Roles -> Nat] /\ issued' \in [Roles -> Nat]
      /\ deadline' \in [Roles -> Nat]
      /\ answer' \in [Roles -> {"none"} \cup OkAnswers \cup Errors]
  BY DEF Failed, Forgets, TypeOK
<1>2. next \in Nat /\ next >= 1 BY Constants DEF TypeOK, FollowingTry
<1>3. kinds[r] \cup {kind} \in SUBSET Kinds BY DEF TypeOK
<1>4. CASE Unentered(r) BY <1>1, <1>4 DEF Unentered, Ends, TypeOK, Places, Results
<1>5. CASE /\ kinds' = [kinds EXCEPT ![r] = kinds[r] \cup {kind}]
           /\ next <= LastTry
           /\ try' = [try EXCEPT ![r] = next]
           /\ pc' = [pc EXCEPT ![r] = "ready"]
           /\ UNCHANGED result
  <2>1. next \in 1..LastTry BY <1>2, <1>5, Constants
  <2>2. QED BY <1>1, <1>3, <1>5, <2>1 DEF TypeOK, Places
<1>6. CASE /\ kinds' = [kinds EXCEPT ![r] = kinds[r] \cup {kind}]
           /\ Ends(r, FailureClass(kinds[r] \cup {kind})) /\ UNCHANGED try
  <2>1. FailureClass(kinds[r] \cup {kind}) \in Results BY DEF FailureClass, Results
  <2>2. QED BY <1>1, <1>3, <1>6, <2>1 DEF TypeOK, Places, Ends
<1>7. QED BY <1>4, <1>5, <1>6 DEF Failed

LEMMA InitIInv == Init => IInv
<1> SUFFICES ASSUME Init PROVE IInv OBVIOUS
<1>1. TypeOK BY Constants DEF Init, TypeOK, Places, Results, OkAnswers, Errors, Kinds
<1>2. Invoking /\ Locked /\ Current /\ Fresh /\ Owned BY DEF Init, Invoking, Locked, Current, Fresh, Owned
<1>3. Counted BY Constants DEF Init, Counted
<1>4. QED BY <1>1, <1>2, <1>3 DEF IInv

-----------------------------------------------------------------------------
LEMMA NoLanesTyped ==
  ASSUME NoLanes
  PROVE  /\ pc' \in [Roles -> Places] /\ try' \in [Roles -> 1..LastTry]
         /\ kinds' \in [Roles -> SUBSET Kinds] /\ result' \in [Roles -> Results]
         /\ number' \in [Roles -> Nat] /\ seen' \in [Roles -> Nat]
         /\ seenTokens' \in [Roles -> Nat] /\ issued' \in [Roles -> Nat]
         /\ deadline' \in [Roles -> Nat]
         /\ answer' \in [Roles -> {"none"} \cup OkAnswers \cup Errors]
         /\ heard' \in [Roles -> SUBSET (OkAnswers \cup Errors)]
         /\ lock' = None
         /\ \A r \in Roles : pc'[r] = "off"
BY Constants DEF NoLanes, Places, Results

LEMMA VerdictTyped == Verdict \in {"pass", "reject", "outage"}
BY DEF Verdict

LEMMA TypeStep == ASSUME TypeOK, [Next]_vars PROVE TypeOK'
<1> USE DEF TypeOK
<1>1. CASE Enforce
  BY <1>1 DEF Enforce, Final, laneVars, grantVars, worldVars, historyVars, ledgerVars
<1>2. CASE Execute
  BY <1>2 DEF Execute, laneVars, grantVars, worldVars, historyVars, ledgerVars
<1>3. CASE Leave
  BY <1>3 DEF Leave, Idle, Final, laneVars, grantVars, worldVars, historyVars, ledgerVars
<1>4. CASE Crash
  BY <1>4, NoLanesTyped DEF Crash, Idle, Mishap, ledgerVars
<1>5. CASE Damage
  BY <1>5 DEF Damage, Mishap, workerVars, laneVars, grantVars, historyVars
<1>6. CASE Invoke
  <2>1. PICK agents \in ({{r} : r \in Roles \ Reviewers} \cup {Reviewers}) \ {{}} :
          /\ called' = agents
          /\ pc' = [r \in Roles |-> IF r \in agents THEN "queued" ELSE "off"]
    BY <1>6 DEF Invoke
  <2>2. agents \subseteq Roles BY <2>1, BudgetConstants
  <2>3. pc' \in [Roles -> Places] BY <2>1 DEF Places
  <2>4. QED BY <1>6, <2>1, <2>2, <2>3 DEF Invoke, grantVars, worldVars, historyVars, ledgerVars
<1>7. CASE Gather
  <2>1. status' \in {"queued", "running", "waiting"} \cup Final
    BY <1>7 DEF Gather, Stops, Final
  <2>2. verdict' \in {"none", "pass", "reject", "outage"}
    BY <1>7, VerdictTyped DEF Gather, Stops
  <2>3. worker' \in {"off", "graph"} /\ called' = {}
    BY <1>7 DEF Gather, Stops, Idle
  <2>4. QED BY <1>7, <2>1, <2>2, <2>3, NoLanesTyped DEF Gather, worldVars, ledgerVars
<1>8. ASSUME NEW r \in Roles, DoesNotFit(r) PROVE TypeOK'
  <2>1. PICK kind \in Kinds : Failed(r, kind) BY <1>8 DEF DoesNotFit, Kinds
  <2>2. QED BY <1>8, <2>1, FailedTyped
            DEF DoesNotFit, workerVars, worldVars, historyVars, ledgerVars
<1>9. ASSUME NEW r \in Roles, Check(r) PROVE TypeOK'
  <2>1. \/ \E how \in {"integrity", "budget"} :
             Ends(r, how) /\ UNCHANGED <<seen, seenTokens, issued, lock>>
        \/ /\ pc' = [pc EXCEPT ![r] = "write"] /\ lock' = r
           /\ seen' = [seen EXCEPT ![r] = attempts]
           /\ seenTokens' = [seenTokens EXCEPT ![r] = tokens]
           /\ issued' = [issued EXCEPT ![r] = clock]
           /\ UNCHANGED result
    BY <1>9 DEF Check
  <2>2. pc' \in [Roles -> Places] /\ result' \in [Roles -> Results] /\ lock' \in Roles \cup {None}
    BY <2>1 DEF Ends, Places, Results
  <2>3. seen' \in [Roles -> Nat] /\ seenTokens' \in [Roles -> Nat] /\ issued' \in [Roles -> Nat]
    BY <2>1 DEF Ends
  <2>4. QED BY <1>9, <2>2, <2>3 DEF Check, workerVars, worldVars, historyVars, ledgerVars
<1>10. ASSUME NEW r \in Roles, Write(r) PROVE TypeOK'
  <2>1. CASE Failed(r, "execution_exception") /\ UNCHANGED ledgerVars
    BY <1>10, <2>1, FailedTyped DEF Write, Kinds, workerVars, worldVars, historyVars, ledgerVars
  <2>2. CASE ~(Failed(r, "execution_exception") /\ UNCHANGED ledgerVars)
    BY <1>10, <2>2, Constants DEF Write, Places, workerVars, worldVars, historyVars
  <2>3. QED BY <2>1, <2>2
<1>11. ASSUME NEW r \in Roles, Launch(r) PROVE TypeOK'
  <2>1. clock + Timeout(issued[r]) * Second \in Nat BY TimeoutNat
  <2>2. spent + Cost[r] \in Nat BY Constants
  <2>3. QED BY <1>11, <2>1, <2>2 DEF Launch, Places, workerVars, worldVars, ledgerVars
<1>12. ASSUME NEW r \in Roles, Record(r) PROVE TypeOK'
  <2>1. records' \subseteq Nat
    <3>1. records' = records \/ records' = records \cup {number[r]} BY <1>12 DEF Record, Recorded
    <3>2. records \subseteq Nat /\ number[r] \in Nat OBVIOUS
    <3>3. QED BY <3>1, <3>2
  <2>2. CASE answer[r] \in Errors
    <3>1. answer[r] \in Kinds BY <2>2 DEF Errors, Kinds
    <3>2. QED BY <1>12, <2>1, <2>2, <3>1, FailedTyped
              DEF Record, workerVars, worldVars, historyVars, ledgerVars
  <2>3. CASE answer[r] \notin Errors
    <3>1. Forgets(r) /\ (Ends(r, answer[r]) \/ Ends(r, "escaped")) /\ UNCHANGED <<try, kinds>>
      BY <1>12, <2>3 DEF Record, Unentered
    <3>2. answer[r] \in Results
      BY <2>3 DEF Results, OkAnswers
    <3>3. pc' \in [Roles -> Places] /\ result' \in [Roles -> Results]
      BY <3>1, <3>2 DEF Ends, Places, Results
    <3>4. QED BY <1>12, <2>1, <3>1, <3>3
              DEF Record, Forgets, workerVars, worldVars, historyVars, ledgerVars
  <2>4. QED BY <2>2, <2>3
<1>13. ASSUME NEW r \in Roles, Answer(r) PROVE TypeOK'
  <2>1. PICK a \in OkAnswers \cup Errors :
          /\ heard' = [heard EXCEPT ![r] = @ \cup ({a} \ {"provider_error"})]
          /\ \/ /\ answer' = [answer EXCEPT ![r] = a]
                /\ pc' = [pc EXCEPT ![r] = "record"]
                /\ UNCHANGED <<try, kinds, number, seen, seenTokens, issued, deadline, result>>
             \/ /\ "context" \in mishaps
                /\ Failed(r, "execution_exception")
    BY <1>13 DEF Answer
  <2>2. heard' \in [Roles -> SUBSET (OkAnswers \cup Errors)] BY <2>1
  <2>3. CASE Failed(r, "execution_exception")
    BY <1>13, <2>2, <2>3, FailedTyped DEF Answer, Kinds, workerVars, worldVars, ledgerVars
  <2>4. CASE ~Failed(r, "execution_exception")
    BY <1>13, <2>1, <2>2, <2>4 DEF Answer, Places, workerVars, worldVars, ledgerVars
  <2>5. QED BY <2>3, <2>4
<1>14. ASSUME NEW r \in Roles, Raise(r) PROVE TypeOK'
  BY <1>14, FailedTyped DEF Raise, Kinds, workerVars, worldVars, historyVars, ledgerVars
<1>15. CASE Elsewhere
  <2>1. PICK r \in Roles : /\ attempts' = attempts + 1 /\ tokens' = tokens + Cost[r]
                           /\ launched' = launched \cup {attempts + 1}
                           /\ spent' = spent + Cost[r]
    BY <1>15 DEF Elsewhere
  <2>2. attempts' \in Nat /\ tokens' \in Nat /\ spent' \in Nat /\ launched' \subseteq Nat
    BY <2>1, Constants
  <2>3. mishaps' \subseteq Mishaps BY <1>15 DEF Elsewhere, Mishap
  <2>4. QED BY <1>15, <2>2, <2>3 DEF Elsewhere, workerVars, laneVars, grantVars
<1>16. CASE Tick
  BY <1>16 DEF Tick, workerVars, laneVars, grantVars, historyVars, ledgerVars
<1>17. CASE UNCHANGED vars
  BY <1>17 DEF vars, workerVars, laneVars, grantVars, worldVars, historyVars, ledgerVars
<1>18. QED
  BY <1>1, <1>2, <1>3, <1>4, <1>5, <1>6, <1>7, <1>8, <1>9, <1>10, <1>11, <1>12, <1>13, <1>14,
     <1>15, <1>16, <1>17 DEF Next, Advances

-----------------------------------------------------------------------------
\* A lane goes on and touches nothing that the other lanes or the ledger rest on.
Passes(r) ==
  /\ pc[r] # "off"
  /\ \E x \in {"ready", "ended", "record"} : pc' = [pc EXCEPT ![r] = x]
  /\ \A q \in Roles \ {r} :
       seen'[q] = seen[q] /\ seenTokens'[q] = seenTokens[q] /\ number'[q] = number[q]
  /\ lock' = lock \/ pc[r] = "write"
  /\ UNCHANGED <<attempts, tokens, launched, status, worker, mishaps>>

LEMMA FailedPasses ==
  ASSUME TypeOK, NEW r \in Roles, NEW kind \in Kinds, Failed(r, kind)
  PROVE  /\ \E x \in {"ready", "ended", "record"} : pc' = [pc EXCEPT ![r] = x]
         /\ \A q \in Roles \ {r} :
              seen'[q] = seen[q] /\ seenTokens'[q] = seenTokens[q] /\ number'[q] = number[q]
<1>1. \E x \in {"ready", "ended", "record"} : pc' = [pc EXCEPT ![r] = x] BY FailedTyped
<1>2. QED BY <1>1 DEF Failed, Forgets, TypeOK

LEMMA LanePasses ==
  ASSUME TypeOK, NEW r \in Roles, \/ DoesNotFit(r) \/ Record(r) \/ Answer(r) \/ Raise(r)
                                  \/ Check(r) /\ pc'[r] # "write"
                                  \/ Write(r) /\ pc'[r] # "launch"
  PROVE  Passes(r)
<1> USE DEF workerVars, worldVars, historyVars, ledgerVars
<1>1. CASE DoesNotFit(r)
  <2>1. PICK kind \in Kinds : Failed(r, kind) BY <1>1 DEF DoesNotFit, Kinds
  <2>2. QED BY <1>1, <2>1, FailedPasses DEF DoesNotFit, Ready, Passes
<1>2. CASE Record(r)
  <2>1. CASE answer[r] \in Errors
    <3>1. answer[r] \in Kinds BY <2>1 DEF Errors, Kinds
    <3>2. QED BY <1>2, <2>1, <3>1, FailedPasses DEF Record, Passes
  <2>2. CASE answer[r] \notin Errors
    BY <1>2, <2>2 DEF Record, Forgets, Ends, Unentered, Passes, TypeOK
  <2>3. QED BY <2>1, <2>2
<1>3. CASE Answer(r)
  <2>1. CASE Failed(r, "execution_exception")
    BY <1>3, <2>1, FailedPasses DEF Answer, Passes, Kinds
  <2>2. CASE ~Failed(r, "execution_exception")
    BY <1>3, <2>2 DEF Answer, Passes
  <2>3. QED BY <2>1, <2>2
<1>4. CASE Raise(r)
  BY <1>4, FailedPasses DEF Raise, Passes, Kinds
<1>5. CASE Check(r) /\ pc'[r] # "write"
  <2>1. \E how \in {"integrity", "budget"} :
          Ends(r, how) /\ UNCHANGED <<seen, seenTokens, issued, lock>>
    BY <1>5 DEF Check, TypeOK
  <2>2. QED BY <1>5, <2>1 DEF Check, Ready, Ends, Passes
<1>6. CASE Write(r) /\ pc'[r] # "launch"
  <2>1. Failed(r, "execution_exception") /\ UNCHANGED ledgerVars
    BY <1>6 DEF Write, TypeOK
  <2>2. QED BY <1>6, <2>1, FailedPasses DEF Write, Passes, Kinds
<1>7. QED BY <1>1, <1>2, <1>3, <1>4, <1>5, <1>6

LEMMA PassesIInv ==
  ASSUME IInv, TypeOK', NEW r \in Roles, Passes(r) PROVE IInv'
<1> PICK x \in {"ready", "ended", "record"} : pc' = [pc EXCEPT ![r] = x] BY DEF Passes
<1>1. \A q \in Roles \ {r} : pc'[q] = pc[q] BY DEF IInv, TypeOK
<1>2. pc'[r] = x BY DEF IInv, TypeOK
<1>3. Invoking' BY <1>1, <1>2 DEF IInv, Invoking, Passes
<1>4. Locked' BY <1>1, <1>2 DEF IInv, Locked, Passes
<1>5. ASSUME ~Lapsed' PROVE Current' /\ Fresh' /\ Counted' /\ Owned'
  <2>1. Current /\ Fresh /\ Counted /\ Owned BY <1>5 DEF IInv, Lapsed, Passes
  <2>2. Current' BY <2>1, <1>1, <1>2 DEF Current, Passes
  <2>3. Fresh' /\ Counted' BY <2>1 DEF Fresh, Counted, Passes
  <2>4. Owned' BY <2>1, <1>1, <1>2 DEF Owned, Passes
  <2>5. QED BY <2>2, <2>3, <2>4
<1>6. QED BY <1>3, <1>4, <1>5 DEF IInv

LEMMA StepIInv == ASSUME IInv, [Next]_vars PROVE IInv'
<1> USE DEF worldVars, historyVars, ledgerVars
<1>0. TypeOK /\ TypeOK' BY TypeStep DEF IInv
<1>1. CASE Enforce
  <2>1. UNCHANGED <<pc, lock, launched, mishaps>> BY <1>1 DEF Enforce, laneVars
  <2>2. \A q \in Roles : pc[q] = "off" BY <1>1 DEF Enforce, IInv, Invoking
  <2>3. Invoking' /\ Locked' BY <1>1, <2>1, <2>2 DEF Enforce, Invoking, Locked, IInv
  <2>4. ASSUME ~Lapsed' PROVE Current' /\ Fresh' /\ Counted' /\ Owned'
    <3>1. Fresh /\ Counted BY <2>1, <2>4 DEF IInv, Lapsed
    <3>2. CASE MayInitialize
      <4>1. \/ attempts = 0 /\ attempts' = 0 /\ tokens' = 0
            \/ UNCHANGED <<attempts, tokens>>
        BY <1>1, <3>1, <3>2 DEF Enforce, MayInitialize, Fresh
      <4>2. QED BY <1>1, <2>1, <2>2, <3>1, <3>2, <4>1
                DEF Enforce, MayInitialize, Fresh, Counted, Current, Owned
    <3>3. CASE ~MayInitialize
      BY <1>1, <2>1, <2>2, <3>1, <3>3 DEF Enforce, Fresh, Counted, Current, Owned
    <3>4. QED BY <3>2, <3>3
  <2>5. QED BY <1>0, <2>3, <2>4 DEF IInv
<1>2. CASE Execute \/ Leave \/ Tick \/ UNCHANGED vars
  <2>1. UNCHANGED <<pc, lock, seen, seenTokens, number, attempts, tokens, launched, mishaps>>
    BY <1>2 DEF Execute, Leave, Tick, vars, laneVars, grantVars
  <2>2. Invoking' /\ (status' = "queued" => status = "queued")
    BY <1>2, <2>1 DEF Execute, Leave, Idle, Tick, vars, workerVars, Invoking, IInv
  <2>3. QED BY <1>0, <2>1, <2>2 DEF IInv, Locked, Lapsed, Current, Fresh, Counted, Owned
<1>3. CASE Damage
  BY <1>3, <1>0 DEF Damage, Mishap, workerVars, laneVars, grantVars, IInv, Invoking, Locked,
                    Lapsed, Current, Fresh, Counted, Owned
<1>4. CASE Crash \/ Gather
  <2>1. \A q \in Roles : pc'[q] = "off" BY <1>4, NoLanesTyped DEF Crash, Gather
  <2>2. UNCHANGED <<attempts, tokens, launched>> /\ worker' \in {"off", "graph"}
    BY <1>4 DEF Crash, Gather, Idle, Stops
  <2>3. (Lapsed => Lapsed') /\ (status' = "queued" => status = "queued")
    BY <1>4 DEF Crash, Gather, Mishap, Stops, Lapsed
  <2>4. worker' = "graph" => status' # "queued"
    BY <1>4 DEF Crash, Gather, Idle, Stops, IInv, Invoking
  <2>5. Invoking' /\ Locked' BY <2>1, <2>2, <2>4 DEF Invoking, Locked
  <2>6. QED BY <1>0, <2>1, <2>2, <2>3, <2>5 DEF IInv, Current, Fresh, Counted, Owned
<1>5. CASE Invoke
  <2>1. \A q \in Roles : pc'[q] \in {"off", "queued"} BY <1>5 DEF Invoke
  <2>2. Invoking' /\ Locked' BY <1>5, <2>1 DEF Invoke, IInv, Invoking, Locked
  <2>3. QED BY <1>5, <1>0, <2>1, <2>2 DEF Invoke, IInv, Lapsed, Current, Fresh, Counted, Owned
<1>6. ASSUME NEW r \in Roles, Check(r), pc'[r] = "write" PROVE IInv'
  <2>1. /\ pc' = [pc EXCEPT ![r] = "write"] /\ lock' = r /\ lock = None /\ pc[r] # "off"
        /\ seen' = [seen EXCEPT ![r] = attempts]
        /\ seenTokens' = [seenTokens EXCEPT ![r] = tokens]
        /\ Affordable(Cost[r])
        /\ UNCHANGED <<number, attempts, tokens, launched, status, worker, mishaps>>
    BY <1>0, <1>6 DEF Check, Ends, Free, Ready, workerVars, TypeOK
  <2>2. \A q \in Roles : pc[q] # "write" BY <2>1, BudgetConstants DEF IInv, Locked
  <2>3. Invoking' /\ Locked' BY <1>0, <2>1, <2>2 DEF IInv, Invoking, Locked, TypeOK
  <2>4. ASSUME ~Lapsed' PROVE Current' /\ Fresh' /\ Counted' /\ Owned'
    <3>1. Fresh /\ Counted /\ Owned BY <2>1, <2>4 DEF IInv, Lapsed
    <3>2. Current' BY <1>0, <2>1, <2>2 DEF Current, Affordable, TypeOK
    <3>3. Owned' BY <1>0, <2>1, <3>1 DEF Owned, TypeOK
    <3>4. QED BY <2>1, <3>1, <3>2, <3>3 DEF Fresh, Counted
  <2>5. QED BY <1>0, <2>3, <2>4 DEF IInv
<1>7. ASSUME NEW r \in Roles, Write(r), pc'[r] = "launch" PROVE IInv'
  <2>1. /\ pc' = [pc EXCEPT ![r] = "launch"] /\ pc[r] = "write" /\ lock' = None
        /\ attempts' = seen[r] + 1 /\ number' = [number EXCEPT ![r] = seen[r] + 1]
        /\ UNCHANGED <<seen, seenTokens, launched, status, worker, mishaps>>
    <3>1. ~Failed(r, "execution_exception")
      BY <1>0, <1>7, FailedTyped DEF TypeOK, Kinds
    <3>2. QED BY <1>7, <3>1 DEF Write, workerVars
  <2>2. \A q \in Roles \ {r} : pc[q] # "write" BY <2>1 DEF IInv, Locked
  <2>3. Invoking' /\ Locked' BY <1>0, <2>1, <2>2 DEF IInv, Invoking, Locked, TypeOK
  <2>4. ASSUME ~Lapsed' PROVE Current' /\ Fresh' /\ Counted' /\ Owned'
    <3>1. Current /\ Fresh /\ Counted /\ Owned BY <2>1, <2>4 DEF IInv, Lapsed
    <3>2. attempts' = attempts + 1 /\ attempts < MaxAttempts BY <2>1, <3>1 DEF Current
    <3>3. status # "queued" BY <2>1 DEF IInv, Invoking
    <3>4. Current' /\ Fresh' BY <1>0, <2>1, <2>2, <3>3 DEF Current, Fresh, TypeOK
    <3>5. Counted' BY <1>0, <2>1, <3>1, <3>2, Constants DEF Counted, TypeOK
    <3>6. Owned'
      <4>1. number'[r] = attempts + 1 /\ \A q \in Roles \ {r} : number'[q] = number[q]
        BY <1>0, <2>1, <3>1 DEF Current, TypeOK
      <4>2. \A q \in Roles \ {r} : pc'[q] = pc[q] BY <1>0, <2>1 DEF TypeOK
      <4>3. number'[r] \in 1..attempts' \ launched' BY <1>0, <2>1, <3>1, <3>2, <4>1 DEF Counted, TypeOK
      <4>4. \A q \in Roles \ {r} : pc[q] = "launch" => number[q] \in 1..attempts \ launched
        BY <3>1 DEF Owned
      <4>5. QED BY <1>0, <2>1, <3>1, <3>2, <4>1, <4>2, <4>3, <4>4 DEF Owned, TypeOK
    <3>7. QED BY <3>4, <3>5, <3>6
  <2>5. QED BY <1>0, <2>3, <2>4 DEF IInv
<1>8. ASSUME NEW r \in Roles, Launch(r) PROVE IInv'
  <2>1. /\ pc' = [pc EXCEPT ![r] = "call"] /\ pc[r] = "launch"
        /\ launched' = launched \cup {number[r]}
        /\ UNCHANGED <<lock, seen, seenTokens, number, attempts, tokens, status, worker, mishaps>>
    BY <1>8 DEF Launch, workerVars
  <2>2. Invoking' /\ Locked' BY <1>0, <2>1 DEF IInv, Invoking, Locked, TypeOK
  <2>3. ASSUME ~Lapsed' PROVE Current' /\ Fresh' /\ Counted' /\ Owned'
    <3>1. Current /\ Fresh /\ Counted /\ Owned BY <2>1, <2>3 DEF IInv, Lapsed
    <3>2. Current' /\ Fresh' /\ Counted'
      BY <1>0, <2>1, <3>1 DEF Current, Fresh, Counted, Owned, TypeOK
    <3>3. Owned' BY <1>0, <2>1, <3>1 DEF Owned, TypeOK
    <3>4. QED BY <3>2, <3>3
  <2>4. QED BY <1>0, <2>2, <2>3 DEF IInv
<1>9. CASE Elsewhere
  <2>1. Lapsed' BY <1>9 DEF Elsewhere, Mishap, Lapsed
  <2>2. Invoking' /\ Locked'
    BY <1>9 DEF Elsewhere, workerVars, laneVars, IInv, Invoking, Locked
  <2>3. QED BY <1>0, <2>1, <2>2 DEF IInv
<1>10. ASSUME NEW r \in Roles, Advances(r) \/ Answer(r) \/ Raise(r) PROVE IInv'
  <2>1. CASE DoesNotFit(r) \/ Record(r) \/ Answer(r) \/ Raise(r)
    <3>1. Passes(r) BY <1>0, <2>1, LanePasses
    <3>2. QED BY <1>0, <3>1, PassesIInv
  <2>2. CASE Check(r)
    <3>1. CASE pc'[r] = "write" BY <1>6, <2>2, <3>1
    <3>2. CASE pc'[r] # "write"
      <4>1. Passes(r) BY <1>0, <2>2, <3>2, LanePasses
      <4>2. QED BY <1>0, <4>1, PassesIInv
    <3>3. QED BY <3>1, <3>2
  <2>3. CASE Write(r)
    <3>1. CASE pc'[r] = "launch" BY <1>7, <2>3, <3>1
    <3>2. CASE pc'[r] # "launch"
      <4>1. Passes(r) BY <1>0, <2>3, <3>2, LanePasses
      <4>2. QED BY <1>0, <4>1, PassesIInv
    <3>3. QED BY <3>1, <3>2
  <2>4. CASE Launch(r) BY <1>8, <2>4
  <2>5. QED BY <1>10, <2>1, <2>2, <2>3, <2>4 DEF Advances
<1>11. QED
  BY <1>1, <1>2, <1>3, <1>4, <1>5, <1>9, <1>10 DEF Next

\* The strengthening is an invariant.
THEOREM Inductive == Spec => []IInv
<1>1. IInv /\ [Next]_vars => IInv' BY StepIInv
<1>2. QED BY InitIInv, <1>1, PTL DEF Spec

\* Ledger, lanes and records keep their types.
THEOREM Typed == Spec => []TypeOK
<1>1. IInv => TypeOK BY DEF IInv
<1>2. QED BY Inductive, <1>1, PTL

\* Every call has a reservation of its own unless a lease lapses, for every number of lanes.
THEOREM Unshared == Spec => []OwnReservation
<1>1. IInv => OwnReservation BY DEF IInv, Owned, OwnReservation
<1>2. QED BY Inductive, <1>1, PTL

\* No more models are called than the run may call, over all crashes, unless a lease lapses.
THEOREM CallsCounted == Spec => [](~Lapsed => launched \subseteq 1..MaxAttempts)
<1>1. IInv => (~Lapsed => launched \subseteq 1..MaxAttempts)
  BY Constants DEF IInv, Counted, TypeOK
<1>2. QED BY Inductive, <1>1, PTL

\* No step gives a reservation back.
LEMMA StepKeeps ==
  ASSUME IInv, [Next]_vars, ~Lapsed' PROVE attempts <= attempts' /\ tokens <= tokens'
<1> USE DEF ledgerVars
<1>1. attempts \in Nat /\ tokens \in Nat BY DEF IInv, TypeOK
<1>2. CASE Enforce
  <2>1. ~Lapsed BY <1>2 DEF Enforce, worldVars, Lapsed
  <2>2. Fresh BY <2>1 DEF IInv
  <2>3. QED BY <1>1, <1>2, <2>2 DEF Enforce, MayInitialize, Fresh
<1>3. ASSUME NEW r \in Roles, Write(r) PROVE attempts <= attempts' /\ tokens <= tokens'
  <2>1. ~Lapsed BY <1>3 DEF Write, worldVars, Lapsed
  <2>2. seen[r] = attempts /\ seenTokens[r] = tokens BY <1>3, <2>1 DEF IInv, Current, Write
  <2>3. Cost[r] \in Nat BY Constants
  <2>4. QED BY <1>1, <1>3, <2>2, <2>3 DEF Write
<1>4. CASE Elsewhere BY <1>4 DEF Elsewhere, Mishap, Lapsed
<1>5. CASE \/ Execute \/ Leave \/ Invoke \/ Gather \/ Crash \/ Damage \/ Tick \/ UNCHANGED vars
  BY <1>1, <1>5 DEF Execute, Leave, Invoke, Gather, Crash, Damage, Tick, vars
<1>6. ASSUME NEW r \in Roles,
             \/ DoesNotFit(r) \/ Check(r) \/ Launch(r) \/ Record(r) \/ Answer(r) \/ Raise(r)
      PROVE  attempts <= attempts' /\ tokens <= tokens'
  BY <1>1, <1>6 DEF DoesNotFit, Check, Launch, Record, Answer, Raise
<1>7. QED BY <1>2, <1>3, <1>4, <1>5, <1>6 DEF Next, Advances

\* The ledger of a run is never refilled, whatever crashes and whatever becomes of its file.
THEOREM Kept == Spec => NeverRefilled
<1>1. IInv /\ [Next]_vars => [~Lapsed' => attempts <= attempts' /\ tokens <= tokens']_vars
  BY StepKeeps
<1>2. QED BY Inductive, <1>1, PTL DEF Spec, NeverRefilled

-----------------------------------------------------------------------------
(* The limits: what the calls that were made have cost, and how long they may last. *)

\* From its reservation to the end of its call, a lane has a second at least that the run has, too.
Granted ==
  \A r \in Roles : pc[r] \in {"write", "launch", "call"} =>
    issued[r] <= clock /\ Remaining(issued[r]) >= 1

\* The lane that writes the ledger has found room for its tokens.
Affords == \A r \in Roles : pc[r] = "write" => tokens + Cost[r] <= MaxTokens

\* One pair for each token that is reserved for a call yet to be made.
Unit(r) == {r} \X (1..Cost[r])
Owed == {p \in Roles \X Nat : pc[p[1]] = "launch" /\ p[2] \in 1..Cost[p[1]]}

Paid == IsFiniteSet(Owed) /\ spent + Cardinality(Owed) <= tokens /\ tokens <= MaxTokens

\* Records are of reservations that the ledger has counted.
Numbered == \A r \in Roles : pc[r] \in {"launch", "call", "record"} => number[r] >= 1
Filed == records \subseteq 1..attempts

Limits == /\ Granted /\ WithinWall /\ Numbered
          /\ ~Lapsed => Affords /\ Paid /\ Filed

LEMMA WholeSeconds == ASSUME NEW a \in Nat, NEW s \in Nat \ {0} PROVE (a \div s) * s <= a
<1>1. a = (s * (a \div s)) + (a % s) /\ a % s \in 0..(s - 1) OBVIOUS
<1>2. a \div s \in Nat OBVIOUS
<1>3. QED BY <1>1, <1>2

LEMMA RemainingFits ==
  ASSUME NEW t \in Nat, Remaining(t) >= 1
  PROVE  Remaining(t) \in Nat /\ t + Remaining(t) * Second <= MaxWall * Second
<1> DEFINE all == MaxWall * Second
           left == all - t
<1>1. all \in Nat BY Constants
<1>2. ~(t >= all) BY DEF Remaining
<1>3. left \in Nat /\ Remaining(t) = left \div Second BY <1>1, <1>2 DEF Remaining
<1>4. (left \div Second) * Second <= left BY <1>3, WholeSeconds, Constants
<1>5. \A a, b \in Nat : b > 0 => a \div b \in Nat OBVIOUS
<1>6. Remaining(t) \in Nat BY <1>3, <1>5, Constants
<1> HIDE DEF all
<1>7. QED BY <1>1, <1>3, <1>4, <1>6, Constants DEF all

LEMMA TimeoutFits ==
  ASSUME NEW t \in Nat, Remaining(t) >= 1
  PROVE  /\ Timeout(t) * Second \in Nat
         /\ t + Timeout(t) * Second <= MaxWall * Second
         /\ RoleTimeout >= 1 => Timeout(t) * Second >= Second
<1>1. Remaining(t) \in Nat /\ t + Remaining(t) * Second <= MaxWall * Second BY RemainingFits
<1>2. Timeout(t) \in Nat /\ Timeout(t) <= Remaining(t) /\ (RoleTimeout >= 1 => Timeout(t) >= 1)
  BY <1>1, Constants DEF Timeout
<1>3. \A a, b, s \in Nat : a <= b => a * s <= b * s OBVIOUS
<1>4. Timeout(t) * Second <= Remaining(t) * Second BY <1>1, <1>2, <1>3, Constants
<1>5. RoleTimeout >= 1 => 1 * Second <= Timeout(t) * Second BY <1>2, <1>3, Constants
<1>6. Timeout(t) * Second \in Nat /\ Remaining(t) * Second \in Nat /\ MaxWall * Second \in Nat
  BY <1>1, <1>2, Constants
<1>7. QED BY <1>1, <1>4, <1>5, <1>6, Constants

LEMMA UnitSize ==
  ASSUME NEW r \in Roles PROVE IsFiniteSet(Unit(r)) /\ Cardinality(Unit(r)) = Cost[r]
<1> DEFINE f == [i \in 1..Cost[r] |-> <<r, i>>]
<1>1. Cost[r] \in Nat BY Constants
<1>2. IsFiniteSet(1..Cost[r]) /\ Cardinality(1..Cost[r]) = Cost[r] BY <1>1, FS_Interval
<1>3. f \in Bijection(1..Cost[r], Unit(r))
  BY DEF Unit, Bijection, Injection, Surjection, IsInjective
<1>4. ExistsBijection(1..Cost[r], Unit(r)) BY <1>3 DEF ExistsBijection
<1>5. QED BY <1>2, <1>4, FS_Bijection

\* Reserving and calling move the tokens of one lane.
LEMMA OwedMore ==
  ASSUME NEW S, NEW T, NEW r \in Roles, IsFiniteSet(S), T = S \cup Unit(r), S \cap Unit(r) = {}
  PROVE  IsFiniteSet(T) /\ Cardinality(T) = Cardinality(S) + Cost[r] /\ Cardinality(S) \in Nat
<1>1. IsFiniteSet(Unit(r)) /\ Cardinality(Unit(r)) = Cost[r] BY UnitSize
<1>2. Cardinality(S) \in Nat BY FS_CardinalityType
<1>3. IsFiniteSet(T) /\ Cardinality(T) = Cardinality(S) + Cost[r] - Cardinality({})
  BY <1>1, FS_Union
<1>4. Cardinality({}) = 0 BY FS_EmptySet
<1>5. QED BY <1>2, <1>3, <1>4, Constants

\* A lane goes on, or ends, without reserving and without a call.
LEMMA OwedLess ==
  ASSUME Paid, TypeOK, Owed' \subseteq Owed, UNCHANGED <<tokens, spent>> PROVE Paid'
<1>1. IsFiniteSet(Owed') /\ Cardinality(Owed') <= Cardinality(Owed) BY FS_Subset DEF Paid
<1>2. Cardinality(Owed') \in Nat /\ Cardinality(Owed) \in Nat
  BY <1>1, FS_CardinalityType DEF Paid
<1>3. QED BY <1>1, <1>2 DEF Paid, TypeOK

-----------------------------------------------------------------------------
\* What a step of a lane does that neither reserves nor calls: it goes to another place, or stays,
\* with the reservation it has, and the ledger is left alone.
Quiet ==
  /\ \A q \in Roles : pc'[q] # pc[q] => pc'[q] \in {"off", "queued", "ready", "ended", "record"}
  /\ \A q \in Roles : pc'[q] \in {"write", "launch", "call"} =>
       issued'[q] = issued[q] /\ deadline'[q] = deadline[q]
  /\ \A q \in Roles : pc'[q] \in {"launch", "call", "record"} =>
       number'[q] = number[q] /\ pc[q] \in {"launch", "call", "record"}
  /\ clock <= clock'
  /\ ~Lapsed' => ~Lapsed /\ UNCHANGED <<attempts, tokens, spent>>
  /\ records' \subseteq records \cup {n \in Nat : n >= 1 /\ n <= attempts}

LEMMA QuietKeeps == ASSUME IInv, TypeOK', Limits, Quiet PROVE Limits'
<1>1. \A q \in Roles : pc'[q] \in {"write", "launch", "call"} => pc[q] = pc'[q] BY DEF Quiet
<1>2. Granted' BY <1>1 DEF Limits, Granted, Quiet, Remaining, IInv, TypeOK
<1>3. WithinWall'
  <2>1. MaxWall * Second \in Nat BY Constants
  <2> DEFINE all == MaxWall * Second
  <2> HIDE DEF all
  <2>2. ASSUME NEW q \in Roles, pc'[q] = "call"
        PROVE  /\ RoleTimeout >= 1 => deadline'[q] >= issued'[q] + Second
               /\ deadline'[q] + issued'[q] <= clock' + all
    <3>1. /\ RoleTimeout >= 1 => deadline[q] >= issued[q] + Second
          /\ deadline[q] + issued[q] <= clock + all
      BY <1>1, <2>2 DEF Limits, WithinWall, all
    <3>2. deadline'[q] = deadline[q] /\ issued'[q] = issued[q] /\ clock <= clock'
      BY <2>2 DEF Quiet
    <3>3. all \in Nat BY <2>1 DEF all
    <3>4. QED BY <3>1, <3>2, <3>3 DEF IInv, TypeOK
  <2>3. QED BY <2>2 DEF WithinWall, all
<1>4. Numbered' BY DEF Limits, Numbered, Quiet
<1>5. ASSUME ~Lapsed' PROVE Affords' /\ Paid' /\ Filed'
  <2>1. Affords /\ Paid /\ Filed /\ UNCHANGED <<attempts, tokens, spent>>
    BY <1>5 DEF Limits, Quiet
  <2>2. Affords' BY <1>1, <2>1 DEF Affords
  <2>3. Owed' \subseteq Owed BY <1>1 DEF Owed
  <2>4. Paid' BY <2>1, <2>3, OwedLess DEF IInv
  <2>5. Filed' BY <2>1 DEF Filed, Quiet, IInv, TypeOK
  <2>6. QED BY <2>2, <2>4, <2>5
<1>6. QED BY <1>2, <1>3, <1>4, <1>5 DEF Limits

\* A failed attempt touches no other lane.
LEMMA FailedElsewhere ==
  ASSUME TypeOK, NEW r \in Roles, NEW kind \in Kinds, Failed(r, kind)
  PROVE  /\ pc'[r] \in {"ready", "ended"}
         /\ \A q \in Roles \ {r} : pc'[q] = pc[q] /\ number'[q] = number[q]
                                   /\ issued'[q] = issued[q] /\ deadline'[q] = deadline[q]
<1>1. \E next \in {"ready", "ended"} : pc' = [pc EXCEPT ![r] = next] BY FailedTyped
<1>2. QED BY <1>1 DEF Failed, Forgets, TypeOK

\* Every step but one that reserves or calls is quiet.
LEMMA LaneQuiet ==
  ASSUME IInv, Limits, NEW r \in Roles,
         \/ DoesNotFit(r) \/ Record(r) \/ Answer(r) \/ Raise(r)
         \/ Check(r) /\ pc'[r] # "write"
         \/ Write(r) /\ pc'[r] # "launch"
  PROVE  Quiet
<1> USE DEF workerVars, worldVars, historyVars, ledgerVars
<1>0. TypeOK BY DEF IInv
<1>1. CASE \E kind \in Kinds : /\ Failed(r, kind)
                               /\ UNCHANGED <<attempts, tokens, clock, mishaps, records, spent>>
  <2>1. /\ pc'[r] \in {"ready", "ended"}
        /\ \A q \in Roles \ {r} : pc'[q] = pc[q] /\ number'[q] = number[q]
                                  /\ issued'[q] = issued[q] /\ deadline'[q] = deadline[q]
    BY <1>0, <1>1, FailedElsewhere
  <2>2. QED BY <1>0, <1>1, <2>1 DEF Quiet, Lapsed, TypeOK
<1>2. CASE DoesNotFit(r)
  <2>1. \E kind \in Kinds : Failed(r, kind) BY <1>2 DEF DoesNotFit, Kinds
  <2>2. QED BY <1>1, <1>2, <2>1 DEF DoesNotFit
<1>3. CASE Record(r)
  <2>1. pc[r] = "record" /\ number[r] >= 1 /\ number[r] \in Nat
    BY <1>0, <1>3 DEF Record, Limits, Numbered, TypeOK
  <2>2. records' \subseteq records \cup {n \in Nat : n >= 1 /\ n <= attempts}
    BY <1>3, <2>1 DEF Record, Recorded
  <2>3. /\ pc'[r] \in {"ready", "ended"}
        /\ \A q \in Roles \ {r} : pc'[q] = pc[q] /\ number'[q] = number[q]
                                  /\ issued'[q] = issued[q] /\ deadline'[q] = deadline[q]
    <3>1. CASE answer[r] \in Errors
      <4>1. answer[r] \in Kinds BY <3>1 DEF Errors, Kinds
      <4>2. Failed(r, answer[r]) BY <1>3, <3>1 DEF Record
      <4>3. QED BY <1>0, <4>1, <4>2, FailedElsewhere
    <3>2. CASE answer[r] \notin Errors
      BY <1>0, <1>3, <3>2 DEF Record, Forgets, Ends, Unentered, TypeOK
    <3>3. QED BY <3>1, <3>2
  <2>4. QED BY <1>0, <1>3, <2>2, <2>3 DEF Record, Quiet, Lapsed, TypeOK
<1>4. CASE Answer(r)
  <2>1. CASE Failed(r, "execution_exception")
    BY <1>1, <1>4, <2>1 DEF Answer, Kinds
  <2>2. CASE ~Failed(r, "execution_exception")
    <3>1. /\ pc' = [pc EXCEPT ![r] = "record"] /\ pc[r] = "call"
          /\ UNCHANGED <<number, issued, deadline, attempts, tokens, clock, mishaps, records, spent>>
      BY <1>4, <2>2 DEF Answer
    <3>2. QED BY <1>0, <3>1 DEF Quiet, Lapsed, TypeOK
  <2>3. QED BY <2>1, <2>2
<1>5. CASE Raise(r) BY <1>1, <1>5 DEF Raise, Kinds
<1>6. CASE Check(r) /\ pc'[r] # "write"
  <2>1. \E how \in {"integrity", "budget"} :
          Ends(r, how) /\ UNCHANGED <<seen, seenTokens, issued, lock>>
    BY <1>0, <1>6 DEF Check, TypeOK
  <2>2. /\ pc' = [pc EXCEPT ![r] = "ended"]
        /\ UNCHANGED <<number, issued, deadline, attempts, tokens, clock, mishaps, records, spent>>
    BY <1>6, <2>1 DEF Check, Ends
  <2>3. QED BY <1>0, <2>2 DEF Quiet, Lapsed, TypeOK
<1>7. CASE Write(r) /\ pc'[r] # "launch"
  <2>1. Failed(r, "execution_exception") /\ UNCHANGED ledgerVars
    BY <1>0, <1>7 DEF Write, TypeOK
  <2>2. QED BY <1>1, <1>7, <2>1 DEF Write, Kinds
<1>8. QED BY <1>2, <1>3, <1>4, <1>5, <1>6, <1>7

LEMMA InitLimits == Init => Limits
<1> SUFFICES ASSUME Init PROVE Limits OBVIOUS
<1>1. Granted /\ WithinWall /\ Numbered /\ Affords /\ Filed
  BY DEF Init, Granted, WithinWall, Numbered, Affords, Filed
<1>2. Owed = {} BY DEF Init, Owed
<1>3. Paid BY <1>2, FS_EmptySet, Constants DEF Init, Paid
<1>4. QED BY <1>1, <1>3 DEF Limits

LEMMA StepLimits == ASSUME IInv, Limits, [Next]_vars PROVE Limits'
<1> USE DEF worldVars, historyVars, ledgerVars
<1>0. TypeOK /\ IInv' /\ TypeOK' BY StepIInv DEF IInv
<1>1. CASE Enforce
  <2>1. UNCHANGED <<pc, number, issued, deadline, clock, mishaps, records, spent>>
    BY <1>1 DEF Enforce, laneVars, grantVars
  <2>2. ~Lapsed => UNCHANGED <<attempts, tokens>>
    BY <1>1 DEF Enforce, MayInitialize, IInv, Fresh
  <2>3. \A q \in Roles : pc[q] = "off" BY <1>1 DEF Enforce, IInv, Invoking
  <2>4. Quiet BY <1>0, <2>1, <2>2, <2>3 DEF Quiet, Lapsed, TypeOK
  <2>5. QED BY <1>0, <2>4, QuietKeeps
<1>2. CASE Execute \/ Leave \/ Tick \/ UNCHANGED vars
  <2>1. UNCHANGED <<pc, number, issued, deadline, attempts, tokens, mishaps, records, spent>>
    BY <1>2 DEF Execute, Leave, Tick, vars, laneVars, grantVars
  <2>2. clock' \in {clock, clock + 1} BY <1>2 DEF Execute, Leave, Tick, vars
  <2>3. Quiet BY <1>0, <2>1, <2>2 DEF Quiet, Lapsed, TypeOK
  <2>4. QED BY <1>0, <2>3, QuietKeeps
<1>3. CASE Damage
  <2>1. /\ UNCHANGED <<pc, number, issued, deadline, attempts, tokens, clock, records, spent>>
        /\ mishaps \subseteq mishaps'
    BY <1>3 DEF Damage, Mishap, laneVars, grantVars
  <2>2. Quiet BY <1>0, <2>1 DEF Quiet, Lapsed, TypeOK
  <2>3. QED BY <1>0, <2>2, QuietKeeps
<1>4. CASE Crash \/ Gather
  <2>1. \A q \in Roles : pc'[q] = "off" BY <1>4, NoLanesTyped DEF Crash, Gather
  <2>2. UNCHANGED <<attempts, tokens, clock, records, spent>> /\ mishaps \subseteq mishaps'
    BY <1>4 DEF Crash, Gather, Mishap
  <2>3. Quiet BY <1>0, <2>1, <2>2 DEF Quiet, Lapsed, TypeOK
  <2>4. QED BY <1>0, <2>3, QuietKeeps
<1>5. CASE Invoke
  <2>1. \A q \in Roles : pc'[q] \in {"off", "queued"} BY <1>5 DEF Invoke
  <2>2. Quiet BY <1>0, <1>5, <2>1 DEF Invoke, Quiet, Lapsed, TypeOK
  <2>3. QED BY <1>0, <2>2, QuietKeeps
<1>6. CASE Elsewhere
  <2>1. Lapsed' BY <1>6 DEF Elsewhere, Mishap, Lapsed
  <2>2. UNCHANGED <<pc, number, issued, deadline, clock, records>>
    BY <1>6 DEF Elsewhere, laneVars, grantVars
  <2>3. Quiet BY <1>0, <2>1, <2>2 DEF Quiet, TypeOK
  <2>4. QED BY <1>0, <2>3, QuietKeeps
<1>7. ASSUME NEW r \in Roles, Check(r), pc'[r] = "write" PROVE Limits'
  <2>1. /\ pc' = [pc EXCEPT ![r] = "write"] /\ issued' = [issued EXCEPT ![r] = clock]
        /\ Affordable(Cost[r])
        /\ UNCHANGED <<number, deadline, attempts, tokens, clock, mishaps, records, spent>>
    BY <1>0, <1>7 DEF Check, Ends, TypeOK
  <2>2. Granted' BY <1>0, <2>1 DEF Limits, Granted, Affordable, Remaining, TypeOK
  <2>3. WithinWall' BY <1>0, <2>1 DEF Limits, WithinWall, TypeOK
  <2>4. Numbered' BY <1>0, <2>1 DEF Limits, Numbered, TypeOK
  <2>5. ASSUME ~Lapsed' PROVE Affords' /\ Paid' /\ Filed'
    <3>1. Affords /\ Paid /\ Filed BY <2>1, <2>5 DEF Limits, Lapsed
    <3>2. Affords' BY <1>0, <2>1, <3>1 DEF Affords, Affordable, TypeOK
    <3>3. Owed' \subseteq Owed BY <1>0, <2>1 DEF Owed, TypeOK
    <3>4. QED BY <1>0, <2>1, <3>1, <3>2, <3>3, OwedLess DEF Filed
  <2>6. QED BY <2>2, <2>3, <2>4, <2>5 DEF Limits
<1>8. ASSUME NEW r \in Roles, Write(r), pc'[r] = "launch" PROVE Limits'
  <2>1. /\ pc' = [pc EXCEPT ![r] = "launch"] /\ pc[r] = "write"
        /\ attempts' = seen[r] + 1 /\ tokens' = seenTokens[r] + Cost[r]
        /\ number' = [number EXCEPT ![r] = seen[r] + 1]
        /\ UNCHANGED <<issued, deadline, clock, mishaps, records, spent>>
    <3>1. ~Failed(r, "execution_exception") BY <1>0, <1>8, FailedElsewhere DEF Kinds
    <3>2. QED BY <1>8, <3>1 DEF Write
  <2>2. Granted' BY <1>0, <2>1 DEF Limits, Granted, Remaining, TypeOK
  <2>3. WithinWall' BY <1>0, <2>1 DEF Limits, WithinWall, TypeOK
  <2>4. Numbered' BY <1>0, <2>1 DEF Limits, Numbered, TypeOK
  <2>5. ASSUME ~Lapsed' PROVE Affords' /\ Paid' /\ Filed'
    <3>1. Affords /\ Paid /\ Filed BY <2>1, <2>5 DEF Limits, Lapsed
    <3>2. seen[r] = attempts /\ seenTokens[r] = tokens BY <2>1, <2>5 DEF IInv, Lapsed, Current
    <3>3. Affords'
      <4>1. ASSUME NEW q \in Roles, pc'[q] = "write" PROVE FALSE
        <5>1. q # r /\ pc[q] = "write" BY <1>0, <2>1, <4>1 DEF TypeOK
        <5>2. lock = r /\ lock = q BY <2>1, <5>1 DEF IInv, Locked
        <5>3. QED BY <5>1, <5>2
      <4>2. QED BY <4>1 DEF Affords
    <3>4. Owed' = Owed \cup Unit(r) /\ Owed \cap Unit(r) = {}
      BY <1>0, <2>1, Constants DEF Owed, Unit, TypeOK
    <3>5. IsFiniteSet(Owed') /\ Cardinality(Owed') = Cardinality(Owed) + Cost[r]
          /\ Cardinality(Owed) \in Nat
      BY <3>1, <3>4, OwedMore DEF Paid
    <3>6. tokens' = tokens + Cost[r] /\ tokens + Cost[r] <= MaxTokens
      BY <2>1, <3>1, <3>2 DEF Affords
    <3>7. Paid' BY <1>0, <2>1, <3>1, <3>5, <3>6, Constants DEF Paid, TypeOK
    <3>8. Filed' BY <1>0, <2>1, <3>1, <3>2 DEF Filed, TypeOK
    <3>9. QED BY <3>3, <3>7, <3>8
  <2>6. QED BY <2>2, <2>3, <2>4, <2>5 DEF Limits
<1>9. ASSUME NEW r \in Roles, Launch(r) PROVE Limits'
  <2>1. /\ pc' = [pc EXCEPT ![r] = "call"] /\ pc[r] = "launch"
        /\ deadline' = [deadline EXCEPT ![r] = clock + Timeout(issued[r]) * Second]
        /\ spent' = spent + Cost[r]
        /\ UNCHANGED <<number, issued, attempts, tokens, clock, mishaps, records>>
    BY <1>9 DEF Launch
  <2>2. Granted' BY <1>0, <2>1 DEF Limits, Granted, Remaining, TypeOK
  <2>3. WithinWall'
    <3>1. issued[r] \in Nat /\ issued[r] <= clock /\ Remaining(issued[r]) >= 1
      BY <1>0, <2>1 DEF Limits, Granted, TypeOK
    <3>2. /\ Timeout(issued[r]) * Second \in Nat
          /\ issued[r] + Timeout(issued[r]) * Second <= MaxWall * Second
          /\ RoleTimeout >= 1 => Timeout(issued[r]) * Second >= Second
      BY <3>1, TimeoutFits
    <3>3. MaxWall * Second \in Nat /\ Second \in Nat BY Constants
    <3>4. /\ RoleTimeout >= 1 => deadline'[r] >= issued'[r] + Second
          /\ deadline'[r] + issued'[r] <= clock' + MaxWall * Second
      <4> DEFINE all == MaxWall * Second
                 span == Timeout(issued[r]) * Second
      <4>1. deadline'[r] = clock + span /\ issued'[r] = issued[r] /\ clock' = clock
        BY <1>0, <2>1 DEF TypeOK
      <4>2. span \in Nat /\ all \in Nat /\ issued[r] + span <= all
            /\ (RoleTimeout >= 1 => span >= Second)
        BY <3>2, <3>3
      <4>3. clock \in Nat BY <1>0 DEF TypeOK
      <4> HIDE DEF all, span
      <4>4. /\ RoleTimeout >= 1 => deadline'[r] >= issued'[r] + Second
            /\ deadline'[r] + issued'[r] <= clock' + all
        BY <3>1, <3>3, <4>1, <4>2, <4>3
      <4>5. QED BY <4>4 DEF all
    <3>5. QED BY <1>0, <2>1, <3>4 DEF Limits, WithinWall, TypeOK
  <2>4. Numbered' BY <1>0, <2>1 DEF Limits, Numbered, TypeOK
  <2>5. ASSUME ~Lapsed' PROVE Affords' /\ Paid' /\ Filed'
    <3>1. Affords /\ Paid /\ Filed BY <2>1, <2>5 DEF Limits, Lapsed
    <3>2. Affords' /\ Filed' BY <1>0, <2>1, <3>1 DEF Affords, Filed, TypeOK
    <3>3. Owed = Owed' \cup Unit(r) /\ Owed' \cap Unit(r) = {}
      BY <1>0, <2>1, Constants DEF Owed, Unit, TypeOK
    <3>4. IsFiniteSet(Owed') BY <3>1, <3>3, FS_Subset DEF Paid
    <3>5. Cardinality(Owed) = Cardinality(Owed') + Cost[r] /\ Cardinality(Owed') \in Nat
      BY <3>3, <3>4, OwedMore
    <3>6. QED BY <1>0, <2>1, <3>1, <3>2, <3>4, <3>5, Constants DEF Paid, TypeOK
  <2>6. QED BY <2>2, <2>3, <2>4, <2>5 DEF Limits
<1>10. ASSUME NEW r \in Roles, Advances(r) \/ Answer(r) \/ Raise(r) PROVE Limits'
  <2>1. CASE Launch(r) BY <1>9, <2>1
  <2>2. CASE Check(r) /\ pc'[r] = "write" BY <1>7, <2>2
  <2>3. CASE Write(r) /\ pc'[r] = "launch" BY <1>8, <2>3
  <2>4. CASE \/ DoesNotFit(r) \/ Record(r) \/ Answer(r) \/ Raise(r)
             \/ Check(r) /\ pc'[r] # "write"
             \/ Write(r) /\ pc'[r] # "launch"
    <3>1. Quiet BY <2>4, LaneQuiet
    <3>2. QED BY <1>0, <3>1, QuietKeeps
  <2>5. QED BY <1>10, <2>1, <2>2, <2>3, <2>4 DEF Advances
<1>11. QED BY <1>1, <1>2, <1>3, <1>4, <1>5, <1>6, <1>10 DEF Next

\* The strengthening for the limits is an invariant.
THEOREM Limited == Spec => [](IInv /\ Limits)
<1>1. Init => IInv /\ Limits BY InitIInv, InitLimits
<1>2. IInv /\ Limits /\ [Next]_vars => (IInv /\ Limits)' BY StepIInv, StepLimits
<1>3. QED BY <1>1, <1>2, PTL DEF Spec

\* With as many records as reservations, every reservation has its record.
LEMMA Complete ==
  ASSUME IInv, Filed, CoverageComplete PROVE records = 1..attempts
<1>1. attempts \in Nat BY DEF IInv, TypeOK
<1>2. IsFiniteSet(1..attempts) /\ Cardinality(1..attempts) = attempts BY <1>1, FS_Interval
<1>3. QED BY <1>2, FS_Subset DEF Filed, CoverageComplete

\* For any agents, prices and limits, the calls of models that a run ever made, over all its lanes,
\* retries, fallbacks and crashes, keep its limits in number, in tokens and in time, and complete
\* coverage of the usage records means that none of them is missing.
THEOREM LimitsHold == Spec => []CallsKept
<1>1. IInv /\ Limits => CallsKept
  <2> SUFFICES ASSUME IInv, Limits PROVE CallsKept OBVIOUS
  <2>1. WithinWall BY DEF Limits
  <2>2. ASSUME ~Lapsed
        PROVE  /\ launched \subseteq 1..MaxAttempts /\ spent <= MaxTokens
               /\ CoverageComplete => launched \subseteq records
    <3>1. Counted /\ Paid /\ Filed BY <2>2 DEF IInv, Limits
    <3>2. launched \subseteq 1..MaxAttempts BY <3>1, Constants DEF Counted, IInv, TypeOK
    <3>3. Cardinality(Owed) \in Nat BY <3>1, FS_CardinalityType DEF Paid
    <3>4. spent <= MaxTokens BY <3>1, <3>3, Constants DEF Paid, IInv, TypeOK
    <3>5. CoverageComplete => launched \subseteq records BY <3>1, Complete DEF Counted
    <3>6. QED BY <3>2, <3>4, <3>5
  <2>3. QED BY <2>1, <2>2 DEF CallsKept
<1>2. QED BY Limited, <1>1, PTL

-----------------------------------------------------------------------------
(* What a verdict rests on. *)

Transport == {"provider_error", "execution_exception"}
Lost == {"context", "health"} \cap mishaps # {}

\* What lane r has come to, and what its models have said.
Says(r) ==
  /\ pc[r] = "record" => answer[r] # "none"
  /\ answer[r] # "none" => pc[r] = "record"
  /\ answer[r] \in {"pass", "reject", "process_failure"} => answer[r] \in heard[r]
  /\ pc[r] = "ended" <=> result[r] # "none"
  /\ result[r] \in OkAnswers => result[r] \in heard[r]
  /\ result[r] = "transport" => kinds[r] \subseteq Transport
  /\ result[r] = "process" => ~(kinds[r] \subseteq Transport)
  /\ result[r] = "escaped" => Lost
  /\ "process_failure" \in kinds[r] => "process_failure" \in heard[r]
  /\ "context_budget" \in kinds[r] => small # {}
  /\ "provider_error" \notin heard[r]

\* Nothing that a model said is forgotten, unless its lane could not write it down.
Hears(r) ==
  ~Lost => \A a \in heard[r] :
    IF a = "process_failure" THEN a \in kinds[r] \/ answer[r] = a
                             ELSE result[r] = a \/ answer[r] = a

Hearing == \A r \in Roles : Says(r) /\ Hears(r)

LEMMA FailureNamed ==
  ASSUME NEW ks \in SUBSET Kinds
  PROVE  /\ FailureClass(ks) = "transport" => ks \subseteq Transport
         /\ FailureClass(ks) = "process" => ~(ks \subseteq Transport)
         /\ FailureClass(ks) \in {"transport", "process"}
BY DEF FailureClass, Transport

\* A lane that is left alone.
LEMMA HearsElsewhere ==
  ASSUME NEW q \in Roles, Says(q) /\ Hears(q), UNCHANGED small, mishaps \subseteq mishaps',
         UNCHANGED <<pc[q], answer[q], heard[q], result[q], kinds[q]>>
  PROVE  (Says(q) /\ Hears(q))'
BY DEF Says, Hears, Lost

\* A lane whose attempt has failed.
LEMMA FailedHears ==
  ASSUME TypeOK, TypeOK', Hearing, NEW r \in Roles, NEW kind \in Kinds, Failed(r, kind),
         UNCHANGED <<small, mishaps>>, pc[r] # "ended",
         heard[r] \subseteq heard'[r], "provider_error" \notin heard'[r],
         kind = "process_failure" => kind \in heard'[r],
         kind = "context_budget" => small # {},
         ~Lost => \A a \in heard'[r] : IF a = "process_failure" THEN a \in kinds[r] \cup {kind}
                                                               ELSE FALSE
  PROVE  (Says(r) /\ Hears(r))'
<1> DEFINE ks == kinds[r] \cup {kind}
           next == FollowingTry(try[r], kind)
<1>1. Says(r) /\ Hears(r) /\ result[r] = "none" BY DEF Hearing, Says
<1>2. answer'[r] = "none" BY DEF Failed, Forgets, TypeOK
<1>3. ks \in SUBSET Kinds BY DEF TypeOK
<1>4. CASE Unentered(r)
  <2>1. pc'[r] = "ended" /\ result'[r] = "escaped" /\ kinds'[r] = kinds[r] /\ Lost
    BY <1>4 DEF Unentered, Ends, TypeOK, Lost
  <2>2. QED BY <1>1, <1>2, <2>1 DEF Says, Hears, Lost, OkAnswers
<1>5. CASE /\ kinds' = [kinds EXCEPT ![r] = ks]
           /\ pc' = [pc EXCEPT ![r] = "ready"]
           /\ UNCHANGED result
  <2>1. pc'[r] = "ready" /\ result'[r] = "none" /\ kinds'[r] = ks BY <1>1, <1>5 DEF TypeOK
  <2>2. QED BY <1>1, <1>2, <2>1 DEF Says, Hears, Lost, OkAnswers
<1>6. CASE kinds' = [kinds EXCEPT ![r] = ks] /\ Ends(r, FailureClass(ks))
  <2>1. pc'[r] = "ended" /\ result'[r] = FailureClass(ks) /\ kinds'[r] = ks
    BY <1>6 DEF Ends, TypeOK
  <2>2. /\ result'[r] = "transport" => ks \subseteq Transport
        /\ result'[r] = "process" => ~(ks \subseteq Transport)
        /\ result'[r] \in {"transport", "process"}
    BY <1>3, <2>1, FailureNamed
  <2>3. QED BY <1>1, <1>2, <2>1, <2>2 DEF Says, Hears, Lost, OkAnswers
<1>7. QED BY <1>4, <1>5, <1>6 DEF Failed

LEMMA FailedAlone ==
  ASSUME TypeOK, NEW r \in Roles, NEW kind \in Kinds, Failed(r, kind), NEW q \in Roles \ {r}
  PROVE  UNCHANGED <<pc[q], answer[q], result[q], kinds[q]>>
BY DEF Failed, Forgets, Unentered, Ends, TypeOK

LEMMA StepHearing == ASSUME IInv, Hearing, [Next]_vars PROVE Hearing'
<1> USE DEF worldVars, ledgerVars, workerVars
<1>0. TypeOK /\ TypeOK' BY TypeStep DEF IInv
<1>1. CASE Enforce \/ Execute \/ Leave \/ Tick \/ Damage \/ Elsewhere \/ UNCHANGED vars
  <2>1. UNCHANGED <<small, pc, answer, heard, result, kinds>> /\ mishaps \subseteq mishaps'
    BY <1>1 DEF Enforce, Execute, Leave, Tick, Damage, Elsewhere, Mishap, vars, laneVars,
                grantVars, historyVars
  <2>2. QED BY <2>1, HearsElsewhere DEF Hearing
<1>2. CASE Crash \/ Gather
  <2>1. NoLanes BY <1>2 DEF Crash, Gather
  <2>2. QED BY <2>1 DEF NoLanes, Hearing, Says, Hears, OkAnswers
<1>3. CASE Invoke
  <2>1. UNCHANGED <<small, mishaps, answer, heard, result, kinds>> BY <1>3 DEF Invoke, grantVars,
                                                                           historyVars
  <2>2. \A q \in Roles : pc'[q] \in {"off", "queued"} BY <1>3 DEF Invoke
  <2>3. \A q \in Roles : pc[q] = "off" BY <1>3 DEF Invoke, IInv, Invoking
  <2>4. QED BY <1>0, <2>1, <2>2, <2>3 DEF Hearing, Says, Hears, Lost
<1>4. ASSUME NEW r \in Roles, NEW kind \in Kinds, Failed(r, kind),
             UNCHANGED <<small, mishaps, heard>>, pc[r] \notin {"record", "ended"},
             kind = "process_failure" => kind \in heard[r],
             kind = "context_budget" => small # {}
      PROVE  Hearing'
  <2>1. answer[r] = "none" /\ result[r] = "none" BY <1>4 DEF Hearing, Says
  <2>2. ~Lost => \A a \in heard[r] : a = "process_failure" /\ a \in kinds[r]
    BY <1>0, <2>1 DEF Hearing, Hears, TypeOK, OkAnswers, Errors
  <2>3. "provider_error" \notin heard'[r] BY <1>4 DEF Hearing, Says
  <2>4. (Says(r) /\ Hears(r))' BY <1>0, <1>4, <2>2, <2>3, FailedHears
  <2>5. \A q \in Roles \ {r} : (Says(q) /\ Hears(q))'
    BY <1>0, <1>4, FailedAlone, HearsElsewhere DEF Hearing
  <2>6. QED BY <2>4, <2>5 DEF Hearing
<1>5. ASSUME NEW r \in Roles, DoesNotFit(r) PROVE Hearing'
  <2>1. PICK kind \in {"context_budget", "execution_exception"} : Failed(r, kind)
    BY <1>5 DEF DoesNotFit
  <2>2. small # {} BY <1>5 DEF DoesNotFit, Fits
  <2>3. QED BY <1>4, <1>5, <2>1, <2>2 DEF DoesNotFit, Ready, Kinds, historyVars
<1>6. ASSUME NEW r \in Roles, Check(r) \/ Launch(r) \/ (Write(r) /\ pc'[r] = "launch")
      PROVE  Hearing'
  <2>1. /\ \/ pc' = [pc EXCEPT ![r] = "ended"] /\ \E how \in {"integrity", "budget"} :
                                                    result' = [result EXCEPT ![r] = how]
           \/ \E x \in {"write", "launch", "call"} : pc' = [pc EXCEPT ![r] = x] /\ UNCHANGED result
        /\ UNCHANGED <<small, mishaps, answer, heard, kinds>>
        /\ pc[r] \notin {"record", "ended"}
    <3>1. CASE Check(r) BY <3>1 DEF Check, Ready, Ends, historyVars
    <3>2. CASE Launch(r) BY <3>2 DEF Launch
    <3>3. CASE Write(r) /\ pc'[r] = "launch"
      <4>1. ~Failed(r, "execution_exception") BY <1>0, <3>3, FailedElsewhere DEF Kinds
      <4>2. QED BY <3>3, <4>1 DEF Write, historyVars
    <3>4. QED BY <1>6, <3>1, <3>2, <3>3
  <2>2. answer[r] = "none" /\ result[r] = "none" BY <2>1 DEF Hearing, Says
  <2>3. (Says(r) /\ Hears(r))'
    BY <1>0, <2>1, <2>2 DEF Hearing, Says, Hears, Lost, TypeOK, OkAnswers, Errors
  <2>4. \A q \in Roles \ {r} : (Says(q) /\ Hears(q))'
    BY <1>0, <2>1, HearsElsewhere DEF Hearing, TypeOK
  <2>5. QED BY <2>3, <2>4 DEF Hearing
<1>7. ASSUME NEW r \in Roles, Write(r), pc'[r] # "launch" PROVE Hearing'
  <2>1. Failed(r, "execution_exception") BY <1>0, <1>7 DEF Write, TypeOK
  <2>2. QED BY <1>4, <1>7, <2>1 DEF Write, Kinds, historyVars
<1>8. ASSUME NEW r \in Roles, Raise(r) PROVE Hearing'
  BY <1>4, <1>8 DEF Raise, Kinds, historyVars
<1>9. ASSUME NEW r \in Roles, Answer(r) PROVE Hearing'
  <2>1. PICK a \in OkAnswers \cup Errors :
          /\ heard' = [heard EXCEPT ![r] = @ \cup ({a} \ {"provider_error"})]
          /\ \/ /\ answer' = [answer EXCEPT ![r] = a]
                /\ pc' = [pc EXCEPT ![r] = "record"]
                /\ UNCHANGED <<try, kinds, number, seen, seenTokens, issued, deadline, result>>
             \/ /\ "context" \in mishaps
                /\ Failed(r, "execution_exception")
    BY <1>9 DEF Answer
  <2>2. pc[r] = "call" /\ UNCHANGED <<small, mishaps>> BY <1>9 DEF Answer
  <2>3. answer[r] = "none" /\ result[r] = "none" /\ Says(r) /\ Hears(r)
    BY <2>2 DEF Hearing, Says
  <2>4. /\ heard'[r] = heard[r] \cup ({a} \ {"provider_error"})
        /\ \A q \in Roles \ {r} : heard'[q] = heard[q]
    BY <1>0, <2>1 DEF TypeOK
  <2>5. CASE "context" \in mishaps /\ Failed(r, "execution_exception")
    <3>1. Lost /\ "provider_error" \notin heard'[r] BY <2>3, <2>4, <2>5 DEF Lost, Says
    <3>2. (Says(r) /\ Hears(r))'
      BY <1>0, <2>2, <2>4, <2>5, <3>1, FailedHears DEF Kinds
    <3>3. \A q \in Roles \ {r} : (Says(q) /\ Hears(q))'
      BY <1>0, <2>2, <2>4, <2>5, FailedAlone, HearsElsewhere DEF Hearing, Kinds
    <3>4. QED BY <3>2, <3>3 DEF Hearing
  <2>6. CASE /\ answer' = [answer EXCEPT ![r] = a]
             /\ pc' = [pc EXCEPT ![r] = "record"]
             /\ UNCHANGED <<kinds, result>>
    <3>1. answer'[r] = a /\ pc'[r] = "record" /\ kinds'[r] = kinds[r] /\ result'[r] = "none"
      BY <1>0, <2>3, <2>6 DEF TypeOK
    <3>2. Says(r)' BY <2>2, <2>3, <2>4, <3>1 DEF Says, OkAnswers, Errors, Lost
    <3>3. Hears(r)'
      BY <1>0, <2>2, <2>3, <2>4, <3>1 DEF Hears, Lost, OkAnswers, Errors, TypeOK
    <3>4. \A q \in Roles \ {r} : (Says(q) /\ Hears(q))'
      BY <1>0, <2>2, <2>4, <2>6, HearsElsewhere DEF Hearing, TypeOK
    <3>5. QED BY <3>2, <3>3, <3>4 DEF Hearing
  <2>7. QED BY <2>1, <2>5, <2>6
<1>10. ASSUME NEW r \in Roles, Record(r) PROVE Hearing'
  <2>1. /\ pc[r] = "record" /\ UNCHANGED <<small, mishaps, heard>>
        /\ Says(r) /\ Hears(r) /\ result[r] = "none" /\ answer[r] # "none"
        /\ answer[r] \in OkAnswers \cup Errors
    BY <1>0, <1>10 DEF Record, Hearing, Says, TypeOK, historyVars
  <2>2. CASE answer[r] \in Errors
    <3>1. answer[r] \in Kinds /\ answer[r] # "context_budget" BY <2>2 DEF Errors, Kinds
    <3>2. Failed(r, answer[r]) BY <1>10, <2>2 DEF Record
    <3>3. /\ answer[r] = "process_failure" => answer[r] \in heard[r]
          /\ "provider_error" \notin heard'[r]
      BY <2>1 DEF Says
    <3>4. ~Lost => \A a \in heard[r] : IF a = "process_failure" THEN a \in kinds[r] \cup {answer[r]}
                                                               ELSE FALSE
      BY <1>0, <2>1, <2>2 DEF Says, Hears, TypeOK, OkAnswers, Errors
    <3>5. (Says(r) /\ Hears(r))' BY <1>0, <2>1, <3>1, <3>2, <3>3, <3>4, FailedHears
    <3>6. \A q \in Roles \ {r} : (Says(q) /\ Hears(q))'
      BY <1>0, <2>1, <3>1, <3>2, FailedAlone, HearsElsewhere DEF Hearing
    <3>7. QED BY <3>5, <3>6 DEF Hearing
  <2>3. CASE answer[r] \in OkAnswers
    <3>1. answer[r] \notin Errors BY <2>3 DEF OkAnswers, Errors
    <3>2. /\ answer' = [answer EXCEPT ![r] = "none"] /\ pc' = [pc EXCEPT ![r] = "ended"]
          /\ UNCHANGED kinds
          /\ \/ result' = [result EXCEPT ![r] = answer[r]]
             \/ "health" \in mishaps /\ result' = [result EXCEPT ![r] = "escaped"]
      BY <1>10, <3>1 DEF Record, Forgets, Ends, Unentered
    <3>3. answer'[r] = "none" /\ pc'[r] = "ended" /\ kinds'[r] = kinds[r]
      BY <1>0, <3>2 DEF TypeOK
    <3>4. result'[r] = answer[r] \/ (Lost /\ result'[r] = "escaped") BY <1>0, <3>2 DEF TypeOK, Lost
    <3>5. Says(r)' BY <2>1, <2>3, <3>3, <3>4 DEF Says, OkAnswers, Lost
    <3>6. Hears(r)' BY <2>1, <2>3, <3>3, <3>4 DEF Hears, OkAnswers, Lost
    <3>7. \A q \in Roles \ {r} : (Says(q) /\ Hears(q))'
      BY <1>0, <2>1, <3>2, HearsElsewhere DEF Hearing, TypeOK
    <3>8. QED BY <3>5, <3>6, <3>7 DEF Hearing
  <2>4. QED BY <2>1, <2>2, <2>3
<1>11. ASSUME NEW r \in Roles, Advances(r) \/ Answer(r) \/ Raise(r) PROVE Hearing'
  <2>1. CASE Write(r) BY <1>6, <1>7, <2>1
  <2>2. CASE Check(r) \/ Launch(r) BY <1>6, <2>2
  <2>3. QED BY <1>5, <1>8, <1>9, <1>10, <1>11, <2>1, <2>2 DEF Advances
<1>12. QED BY <1>1, <1>2, <1>3, <1>11 DEF Next

LEMMA InitHearing == Init => Hearing
BY DEF Init, Hearing, Says, Hears, OkAnswers

\* What lanes remember of the answers of their models is an invariant.
THEOREM Heard == Spec => [](IInv /\ Hearing)
<1>1. Init => IInv /\ Hearing BY InitIInv, InitHearing
<1>2. IInv /\ Hearing /\ [Next]_vars => (IInv /\ Hearing)' BY StepIInv, StepHearing
<1>3. QED BY <1>1, <1>2, PTL DEF Spec

LEMMA VerdictsAreHeard ==
  ASSUME IInv, Hearing, [Next]_vars, worker = "invoke", called = Reviewers, worker' = "graph"
  PROVE  CASE verdict' = "pass" -> \A r \in Reviewers : "pass" \in heard[r]
           [] verdict' = "outage" -> \/ Lost
                                     \/ /\ \E r \in Reviewers : heard[r] = {}
                                        /\ \A r \in Reviewers : "reject" \notin heard[r]
           [] OTHER -> \/ Lost \/ small # {}
                       \/ \E r \in Reviewers : heard[r] \cap {"reject", "process_failure"} # {}
<1> DEFINE rejecting == {r \in Reviewers : result[r] # "pass"}
<1>0. TypeOK BY DEF IInv
<1>1. Gather
  BY DEF Next, vars, Enforce, Execute, Leave, Invoke, Advances, DoesNotFit, Check, Write, Launch,
         Record, Answer, Raise, Crash, Idle, Damage, Elsewhere, Tick, workerVars
<1>2. /\ \A r \in Reviewers : pc[r] = "ended" /\ result[r] \notin Refusals
      /\ verdict' = Verdict /\ UNCHANGED mishaps
  BY <1>1 DEF Gather, Stops, Idle, Given, worldVars
<1>3. \A r \in Reviewers : r \in Roles /\ Says(r) /\ Hears(r) /\ result[r] # "none"
  BY <1>2, BudgetConstants DEF Hearing, Says
<1>4. \A r \in Reviewers : answer[r] = "none" BY <1>2, <1>3 DEF Says
<1>5. CASE rejecting = {}
  <2>1. verdict' = "pass" BY <1>2, <1>5 DEF Verdict
  <2>2. \A r \in Reviewers : "pass" \in heard[r] BY <1>3, <1>5 DEF Says, OkAnswers
  <2>3. QED BY <2>1, <2>2
<1>6. CASE rejecting # {} /\ \A r \in rejecting : result[r] = "transport"
  <2>1. verdict' = "outage" BY <1>2, <1>6 DEF Verdict
  <2>2. ASSUME ~Lost PROVE \E r \in Reviewers : heard[r] = {}
    <3>1. PICK r \in Reviewers : result[r] = "transport" BY <1>6
    <3>2. kinds[r] \subseteq Transport BY <1>3, <3>1 DEF Says
    <3>3. \A a \in heard[r] : FALSE
      BY <1>0, <1>2, <1>3, <1>4, <2>2, <3>1, <3>2
         DEF Hears, Lost, Transport, TypeOK, OkAnswers, Errors
    <3>4. QED BY <3>3
  <2>3. ASSUME ~Lost, NEW r \in Reviewers PROVE "reject" \notin heard[r]
    <3>1. result[r] \in {"pass", "transport"} BY <1>6
    <3>2. QED BY <1>2, <1>3, <1>4, <2>3, <3>1 DEF Hears, Lost
  <2>4. QED BY <2>1, <2>2, <2>3
<1>7. CASE \E r \in rejecting : result[r] # "transport"
  <2>1. verdict' = "reject" BY <1>2, <1>7 DEF Verdict
  <2>2. PICK r \in Reviewers : result[r] \notin {"pass", "transport"} BY <1>7
  <2>3. result[r] \in {"escaped", "process", "reject"}
    BY <1>0, <1>2, <1>3, <2>2 DEF TypeOK, Results, Refusals, OkAnswers
  <2>4. CASE result[r] = "escaped" BY <1>2, <1>3, <2>1, <2>4 DEF Says, Lost
  <2>5. CASE result[r] = "reject"
    <3>1. "reject" \in heard[r] BY <1>3, <2>5 DEF Says, OkAnswers
    <3>2. QED BY <2>1, <3>1
  <2>6. CASE result[r] = "process"
    <3>1. "process_failure" \in kinds[r] \/ "context_budget" \in kinds[r]
      BY <1>0, <1>3, <2>6 DEF Says, Transport, TypeOK, Kinds
    <3>2. "process_failure" \in heard[r] \/ small # {} BY <1>3, <3>1 DEF Says
    <3>3. QED BY <2>1, <3>2
  <2>7. QED BY <2>3, <2>4, <2>5, <2>6
<1>8. QED BY <1>5, <1>6, <1>7

\* For any reviewers, retries and fallbacks, a verdict says what the reviewers said: they pass when
\* all of them said so, an outage means that one said nothing and none rejected, and a rejection
\* that nobody uttered has one of the named causes.
THEOREM VerdictsHeard == Spec => VerdictIsHeard
<1>1. IInv /\ Hearing /\ [Next]_vars =>
        [worker = "invoke" /\ called = Reviewers /\ worker' = "graph" =>
           LET lost == {"context", "health"} \cap mishaps # {}
           IN CASE verdict' = "pass" -> \A r \in Reviewers : "pass" \in heard[r]
                [] verdict' = "outage" -> \/ lost
                                          \/ /\ \E r \in Reviewers : heard[r] = {}
                                             /\ \A r \in Reviewers : "reject" \notin heard[r]
                [] OTHER -> \/ lost \/ small # {}
                            \/ \E r \in Reviewers :
                                 heard[r] \cap {"reject", "process_failure"} # {}]_vars
  BY VerdictsAreHeard DEF Lost
<1>2. QED BY Heard, <1>1, PTL DEF Spec, VerdictIsHeard

\* A refused reservation ends the run, whatever the other lanes have come to.
THEOREM RefusalsEnd == Spec => RefusalEnds
<1>1. [Next]_vars =>
        [worker = "invoke" /\ Given \cap {"budget", "integrity"} # {} /\ worker' # "invoke"
           => /\ worker' = "off" /\ verdict' = verdict
              /\ status' \in Final \/ "crash" \in mishaps']_vars
  <2> SUFFICES ASSUME [Next]_vars, worker = "invoke", Given \cap {"budget", "integrity"} # {},
                      worker' # "invoke"
               PROVE  /\ worker' = "off" /\ verdict' = verdict
                      /\ status' \in Final \/ "crash" \in mishaps'
    OBVIOUS
  <2>1. Gather \/ Crash
    BY DEF Next, vars, Enforce, Execute, Leave, Invoke, Advances, DoesNotFit, Check, Write, Launch,
           Record, Answer, Raise, Damage, Elsewhere, Tick, workerVars
  <2>2. CASE Gather BY <2>2 DEF Gather, Stops, Idle, Final, Refusals
  <2>3. CASE Crash BY <2>3 DEF Crash, Idle, Mishap
  <2>4. QED BY <2>1, <2>2, <2>3
<1>2. QED BY <1>1, PTL DEF Spec, RefusalEnds

=============================================================================
