------------------------------ MODULE Restore ------------------------------
(***************************************************************************)
(* restore-apply (restore_apply.py, restore_postgres.py): a lost deployment *)
(* is rebuilt from a backup, target by target and the database last, with a *)
(* journal that lets the operator repeat the command after a kill.          *)
(***************************************************************************)
EXTENDS Naturals

CONSTANTS
  Count,      \* the number of targets in the file system, over all projects
  Order,      \* those targets, in the order in which they are restored
  States,     \* the ones that are state directories
  Layouts,    \* the deployments looked at, see Layout
  None,       \* no journal, no target
  Torn,       \* a journal whose first writing was cut off
  MaxKills,   \* kills and failing calls
  MaxChanges  \* changes of the targets by anyone else

Database == "database"

Targets == {Order[i] : i \in 1 .. Count}

Keys == Targets \cup {Database}

\* postgres: the backend; wal: the checkpoint database in the backup is in WAL
\* mode; within: the state directory in which the control database lies, if any.
Layout == [postgres : BOOLEAN, wal : BOOLEAN, within : States \cup {None}]

ASSUME RestoreConstants ==
  /\ Count \in Nat /\ Order \in [1 .. Count -> Targets]
  /\ States \subseteq Targets
  /\ Database \notin Targets /\ None \notin Keys
  /\ None # Torn /\ \A keys \in SUBSET Keys : keys \notin {None, Torn}
  /\ \A l \in Layouts : l \in Layout /\ (l.postgres => ~l.wal /\ l.within = None)
  /\ MaxKills \in Nat /\ MaxChanges \in Nat

VARIABLES
  layout,     \* the deployment
  target,     \* what is at each target
  stage,      \* what is at the stage path of each target
  journal,    \* the journal on disk: None, Torn, or the keys it calls published
  tmp,        \* the temporary file of the journal exists
  pc,         \* the step of the running command, or "idle"
  at,         \* the position of the target it is at; 0 while it resets the journal
  published,  \* the journal in its memory
  orphans,    \* database transactions whose client is gone
  outcome,    \* "restored" when a command has said so
  kills,      \* how many kills and failing calls there were
  changes,    \* how many changes by others
  changed     \* one of them was to a restore that had begun

vars == <<layout, target, stage, journal, tmp, pc, at, published, orphans, outcome,
          kills, changes, changed>>

disk == <<target, stage>>

paper == <<journal, tmp>>

world == <<layout, kills, changes, changed>>

\* "touched": exact, but with the side files that SQLite leaves beside a database
\* it has checked; "live": restored, and changed since by the running service.
Contents == {"absent", "exact", "touched", "live", "foreign"}

Init ==
  /\ layout \in Layouts
  /\ target = [k \in Keys |-> "absent"]
  /\ stage = [k \in Keys |-> "absent"]
  /\ journal = None /\ tmp = FALSE
  /\ pc = "idle" /\ at = 0 /\ published = {}
  /\ orphans = 0 /\ outcome = "none"
  /\ kills = 0 /\ changes = 0 /\ changed = FALSE

KeyAtDatabaseFirst(i) == IF i = 1 THEN Database ELSE Order[i - 1]

KeyAt(i) == IF i \in 1 .. Count THEN Order[i] ELSE Database

Last(i) == i = Count + 1

\* plan_deployment_restore is ready, and so reproduces the operator's token.
Ready == \A k \in Keys : target[k] = "absent"

\* _validate_state meets the stage of a database that lies in the state directory.
Littered(k) == k = layout.within /\ stage[Database] # "absent"

\* _validate_repo, _validate_state, the hash of a file, or the receipt of the server.
Acceptable(k) ==
  \/ target[k] = "exact" /\ ~Littered(k)
  \/ k = Database /\ layout.postgres /\ target[k] = "live"

\* _sqlite_quick_check of a checkpoint database in WAL mode leaves side files.
Validated(k, content) ==
  IF k \in States /\ layout.wal /\ content = "exact" THEN "touched" ELSE content

Goes(to) == pc' = to /\ UNCHANGED at

Stop ==
  /\ Goes("idle")
  /\ UNCHANGED <<paper, published, orphans, outcome, world>>

\* On to the next target, or the command returns.
Advance ==
  /\ IF Last(at) THEN pc' = "idle" /\ outcome' = "restored" /\ UNCHANGED at
     ELSE pc' = "check" /\ at' = at + 1 /\ UNCHANGED outcome

-----------------------------------------------------------------------------
\* A restore begins when the preflight is ready; its journal is created, ...
Begin ==
  /\ pc = "idle" /\ journal = None /\ Ready
  /\ journal' = Torn
  /\ Goes("create")
  /\ UNCHANGED <<disk, tmp, published, orphans, outcome, world>>

\* ... and written.
Create ==
  /\ pc = "create"
  /\ journal' = {} /\ published' = {}
  /\ pc' = "check" /\ at' = 1
  /\ UNCHANGED <<disk, tmp, orphans, outcome, world>>

\* The same command again.  A complete journal starts over if everything is lost.
Resume ==
  /\ pc = "idle" /\ journal \notin {None, Torn}
  /\ IF journal = Keys /\ Ready
     THEN pc' = "mark" /\ at' = 0 /\ published' = {}
     ELSE pc' = "check" /\ at' = 1 /\ published' = journal
  /\ UNCHANGED <<disk, paper, orphans, outcome, world>>

AdoptPublished(k) ==
  /\ pc = "check" /\ (k \in published \/ Acceptable(k))
  /\ target' = [target EXCEPT ![k] = Validated(k, @)]
  /\ IF k \in published THEN Advance ELSE Goes("mark") /\ UNCHANGED outcome
  /\ UNCHANGED <<stage, paper, published, orphans, world>>

\* A target that is there is validated and adopted, ...
Adopt(k) ==
  /\ pc = "check" /\ Acceptable(k)
  /\ target' = [target EXCEPT ![k] = Validated(k, @)]
  /\ IF k \in published THEN Advance ELSE Goes("mark") /\ UNCHANGED outcome
  /\ UNCHANGED <<stage, paper, published, orphans, world>>

\* ... or refused, as is one that was published and has disappeared.
Refuse(k) ==
  /\ pc = "check" /\ ~Acceptable(k)
  /\ target[k] = "absent" => k \in published
  /\ Stop /\ UNCHANGED disk

StageUnlessLeft(k) ==
  /\ pc = "check" /\ target[k] = "absent" /\ k \notin published /\ stage[k] = "absent"
  /\ stage' = [stage EXCEPT ![k] = "partial"]
  /\ Goes("copy")
  /\ UNCHANGED <<target, paper, published, orphans, outcome, world>>

StageAnyway(k) ==
  /\ pc = "check" /\ k \notin published
  /\ stage' = [stage EXCEPT ![k] = "partial"]
  /\ Goes("copy")
  /\ UNCHANGED <<target, paper, published, orphans, outcome, world>>

\* An absent one is copied (cloned, made) beside its place, over any earlier stage, ...
Stage(k) ==
  /\ pc = "check" /\ target[k] = "absent" /\ k \notin published
  /\ stage' = [stage EXCEPT ![k] = "partial"]
  /\ Goes("copy")
  /\ UNCHANGED <<target, paper, published, orphans, outcome, world>>

\* ... validated there, ...
Copy(k) ==
  /\ pc = "copy"
  /\ stage' = [stage EXCEPT ![k] = Validated(k, "exact")]
  /\ Goes("publish")
  /\ UNCHANGED <<target, paper, published, orphans, outcome, world>>

\* ... renamed to its place (for PostgreSQL: the script is run by psql), ...
Publish(k) ==
  /\ pc = "publish"
  /\ IF k = Database /\ layout.postgres THEN Goes("await") /\ UNCHANGED disk
     ELSE /\ target' = [target EXCEPT ![k] = stage[k]]
          /\ stage' = [stage EXCEPT ![k] = "absent"]
          /\ Goes("confirm")
  /\ UNCHANGED <<paper, published, orphans, outcome, world>>

\* ... where the transaction commits with its receipt, or fails in a database that
\* is not empty any more, ...
Commit(k) ==
  /\ pc = "await"
  /\ stage' = [stage EXCEPT ![k] = "absent"]
  /\ \/ /\ target[k] = "absent"
        /\ target' = [target EXCEPT ![k] = "exact"]
        /\ Goes("confirm")
        /\ UNCHANGED <<paper, published, orphans, outcome, world>>
     \/ target[k] # "absent" /\ Stop /\ UNCHANGED target

\* ... validated again, ...
Confirm(k) ==
  /\ pc = "confirm"
  /\ IF Acceptable(k)
     THEN /\ target' = [target EXCEPT ![k] = Validated(k, @)]
          /\ Goes("mark")
          /\ UNCHANGED <<stage, paper, published, orphans, outcome, world>>
     ELSE Stop /\ UNCHANGED disk

\* ... and marked: the temporary file must not exist, ...
Mark ==
  /\ pc = "mark"
  /\ IF tmp THEN Stop /\ UNCHANGED disk
     ELSE /\ tmp' = TRUE
          /\ published' = IF at = 0 THEN {} ELSE published \cup {KeyAt(at)}
          /\ Goes("write")
          /\ UNCHANGED <<disk, journal, orphans, outcome, world>>

\* ... and replaces the journal once it is written.
Write ==
  /\ pc = "write"
  /\ journal' = published /\ tmp' = FALSE
  /\ Advance
  /\ UNCHANGED <<disk, published, orphans, world>>

Ensure(k) == \/ Adopt(k) \/ Refuse(k) \/ Stage(k) \/ Copy(k) \/ Publish(k)
             \/ Commit(k) \/ Confirm(k)

Command == Create \/ Ensure(KeyAt(at)) \/ Mark \/ Write

-----------------------------------------------------------------------------
\* The command is killed; psql and its transaction are not.
Kill ==
  /\ pc # "idle" /\ kills < MaxKills
  /\ kills' = kills + 1
  /\ Goes("idle")
  /\ orphans' = IF pc = "await" THEN orphans + 1 ELSE orphans
  /\ UNCHANGED <<disk, paper, published, outcome, layout, changes, changed>>

\* A call fails and the command cleans up after itself: the journal's files, and the
\* script of psql, whose transaction may yet commit when psql has timed out.
CallFails ==
  /\ pc # "idle" /\ kills < MaxKills
  /\ kills' = kills + 1
  /\ Goes("idle")
  /\ journal' = IF pc = "create" THEN None ELSE journal
  /\ tmp' = (tmp /\ pc # "write")
  /\ stage' = IF layout.postgres /\ Last(at) /\ pc \in {"copy", "publish", "await"}
              THEN [stage EXCEPT ![Database] = "absent"] ELSE stage
  /\ orphans' \in IF pc = "await" THEN {orphans, orphans + 1} ELSE {orphans}
  /\ UNCHANGED <<target, published, outcome, layout, changes, changed>>

\* A transaction without a client commits, if the database is still empty, or not.
Orphan ==
  /\ orphans > 0
  /\ orphans' = orphans - 1
  /\ target' \in {target, [target EXCEPT ![Database] = IF @ = "absent" THEN "exact" ELSE @]}
  /\ UNCHANGED <<stage, paper, pc, at, published, outcome, world>>

-----------------------------------------------------------------------------
\* Others touch the targets of a restore only between two commands, except the
\* service, which may run as soon as there is a database.
Homeless(new) == \E k \in States : k = layout.within /\ new[k] = "absent"

Change(new) ==
  /\ changes < MaxChanges
  /\ changes' = changes + 1
  /\ target' = new
  /\ stage' = [stage EXCEPT ![Database] = IF Homeless(new) THEN "absent" ELSE @]
  /\ changed' = (journal # None /\ ~(journal = Keys /\ \A k \in Keys : new[k] = "absent"))
  /\ outcome' = "none"
  /\ UNCHANGED <<layout, paper, pc, at, published, orphans, kills>>

Quiet == pc = "idle" /\ orphans = 0

\* A database within a state directory is lost with it.
Lose ==
  /\ Quiet
  /\ \E lost \in (SUBSET Keys) \ {{}} :
       /\ layout.within \in lost => Database \in lost
       /\ Change([k \in Keys |-> IF k \in lost THEN "absent" ELSE target[k]])

\* Something else turns up at a target.
Intrude ==
  /\ Quiet
  /\ \E k \in Keys :
       /\ target[k] = "absent"
       /\ Change([j \in Keys |->
                      IF j = k \/ (k = Database /\ j = layout.within /\ target[j] = "absent")
                      THEN "foreign" ELSE target[j]])

Use ==
  /\ target[Database] # "absent"
  /\ \E k \in Keys : target[k] \in {"exact", "touched"}
                     /\ Change([target EXCEPT ![k] = "live"])

Next == Begin \/ Resume \/ Command \/ Kill \/ CallFails \/ Orphan \/ Lose \/ Intrude \/ Use

Spec == Init /\ [][Next]_vars

\* The operator repeats the command, the command goes on, a transaction ends.
FairSpec == Spec /\ WF_vars(Begin \/ Resume) /\ WF_vars(Command) /\ WF_vars(Orphan)

-----------------------------------------------------------------------------
\* No half-copied artifact is ever at its place.
TypeOK ==
  /\ layout \in Layouts
  /\ target \in [Keys -> Contents]
  /\ stage \in [Keys -> {"absent", "partial", "exact", "touched"}]
  /\ journal \in {None, Torn} \cup SUBSET Keys
  /\ tmp \in BOOLEAN
  /\ pc \in {"idle", "create", "check", "copy", "publish", "await", "confirm", "mark", "write"}
  /\ at \in 0 .. Count + 1
  /\ published \subseteq Keys
  /\ orphans \in Nat
  /\ outcome \in {"none", "restored"}
  /\ kills \in 0 .. MaxKills /\ changes \in 0 .. MaxChanges
  /\ changed \in BOOLEAN

\* The database becomes visible last: at that moment everything else is restored,
\* also when the transaction outlives the command that started it
\* (apply_sqlite_restore, apply_postgres_restore).
DatabaseLast ==
  [][target[Database] = "absent" /\ target'[Database] = "exact"
       => \A k \in Targets : target[k] \in {"exact", "touched"}]_vars

\* restore-apply never replaces what is at a target: it is adopted as it is, or the
\* command fails (_ensure_file, _ensure_repo, _ensure_state).
NeverOverwritten ==
  [][changes' = changes =>
       \A k \in Keys : target[k] # "absent" => target'[k] \in {target[k], "touched"}]_vars

\* A command that says "restored" leaves every target in place and a complete
\* journal, whatever was lost, killed or found before.
ReceiptHonest ==
  [][outcome = "none" /\ outcome' = "restored" =>
       /\ journal' = Keys
       /\ \A k \in Keys : target'[k] \in {"exact", "touched", "live"}]_vars

Restored == outcome = "restored"

\* What the code leaves behind that no repetition of the command gets past.
Stuck ==
  \/ pc = "idle" /\ (tmp \/ journal = Torn)
  \/ \E k \in States : Littered(k) \/ target[k] = "touched"

\* Otherwise a restore that has begun is completed by repeating the command, after
\* any kills and failing calls, and so is one after a total loss.
Completes == (journal \notin {None, Torn} /\ ~changed) ~> (Restored \/ changed \/ Stuck)

=============================================================================
