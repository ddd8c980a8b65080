----------------------------- MODULE MCWorkflow -----------------------------
(* Small instances of Workflow for TLC. *)
EXTENDS Workflow

CONSTANTS plain, better, risky, secret, t1

OneRequirement == <<"R1">>

TwoRequirements == <<"R1", "R2">>

PlainTasks == {[tdd |-> FALSE, risky |-> FALSE]}

RiskyOrTdd == {[tdd |-> FALSE, risky |-> TRUE], [tdd |-> TRUE, risky |-> FALSE]}

\* How often each event may happen.
Times(crash, fail, spec, base, pause, ans, late) ==
  [e \in Events |-> CASE e = "crash" -> crash [] e = "fail" -> fail [] e = "spec" -> spec
                      [] e = "base" -> base [] e = "pause" -> pause
                      [] e = "answer" -> ans [] e = "late" -> late]

\* Two crashes, a failing call, a foreign commit and the timeout of CI.
Unattended == {Times(2, 1, 0, 1, 0, 0, 1)}

\* Operators take part.
Attended == {
  Times(1, 1, 0, 0, 0, 1, 1),  \* a crash, a failing call, the timeout of CI, an answer
  Times(1, 0, 0, 1, 0, 1, 0),  \* a crash, a foreign commit and an answer
  Times(0, 0, 1, 0, 1, 1, 0),  \* a requirements edit, a pause and an answer
  Times(0, 0, 0, 0, 0, 2, 0)}  \* two answers

\* Nothing but the timeout of CI.
Late == {Times(0, 0, 0, 0, 0, 0, 1)}

=============================================================================
