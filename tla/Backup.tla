------------------------------- MODULE Backup -------------------------------
(***************************************************************************)
(* converge-backup create (backup.py): a deployment is copied part by part  *)
(* while others may use it.  Nothing is locked: what the command has read   *)
(* before the copies is read again after them, and a backup is published    *)
(* only if both readings agree.                                             *)
(***************************************************************************)
EXTENDS Naturals, FiniteSets

CONSTANTS
  Projects,  \* the projects that are or can be registered
  Runs,      \* the ids of their runs
  ProjectOf, \* the project of each
  None,      \* no copy yet
  MaxEvents  \* what others do while the command runs

Sources == {"config", "requirements", "head"}

Parts == Sources \cup {"state", "checkpoint"}

Versions == 0 .. MaxEvents

ASSUME BackupConstants ==
  /\ IsFiniteSet(Projects) /\ IsFiniteSet(Runs)
  /\ ProjectOf \in [Runs -> Projects]
  /\ MaxEvents \in Nat
  /\ None \notin Versions

VARIABLES
  registered, \* the projects in the registry
  row,        \* the runs in the registry: "none", "active" or "finished"
  part,       \* the version of each part of each project's files
  owned,      \* the projects whose ledger has a worktree that is not released
  step,       \* where the command is
  round,      \* 1 before the copies, 2 after them
  todo,       \* the projects that the current loop has not come to yet
  listed,     \* the projects that the command backs up
  loaded,     \* the version of the configuration it goes by
  rows,       \* the registry fingerprint it is taking
  before,     \* the one it has taken before the copies
  sources,    \* the source fingerprints it has taken before the copies
  database,   \* the copy of the control database
  copied,     \* the copies of the parts
  staging,    \* the staging directory exists
  moments,    \* every state the deployment has been in since the command began
  missed,     \* the kinds of change that its two readings cannot tell
  events      \* how many events there were

deployment == <<registered, row, part, owned, events>>

command == <<step, round, todo, listed, loaded, rows, before, sources, database, copied, staging>>

ghost == <<moments, missed>>

vars == <<deployment, command, ghost>>

Moment == [registered |-> registered, row |-> row, part |-> part, owned |-> owned]

NoParts == [p \in Projects |-> [q \in Parts |-> None]]

Init ==
  /\ registered \in SUBSET Projects
  /\ row \in [Runs -> {"none", "active", "finished"}]
  /\ \A r \in Runs : row[r] # "none" => ProjectOf[r] \in registered
  /\ part = [p \in Projects |-> [q \in Parts |-> 0]]
  /\ owned \in SUBSET registered
  /\ step = "list" /\ round = 1 /\ todo = {} /\ listed = {}
  /\ loaded = [p \in Projects |-> None]
  /\ rows = {} /\ before = {}
  /\ sources = [p \in Projects |-> None]
  /\ database = None /\ copied = NoParts /\ staging = FALSE
  /\ moments = {Moment} /\ missed = {} /\ events = 0

Over == step \in {"refused", "failed", "killed", "published"}

\* An exception removes what has been staged.
Refused == step' = "refused" /\ staging' = FALSE

-----------------------------------------------------------------------------
\* A loop over projects takes them in the order of the registry.
Turn == CHOOSE p \in todo : TRUE

Visited == todo' = todo \ {Turn}

\* The command reads the list of the projects ...
List ==
  /\ step = "list"
  /\ listed' = registered
  /\ IF registered = {} THEN Refused ELSE step' = "quiescence" /\ UNCHANGED staging
  /\ UNCHANGED <<round, todo, loaded, rows, before, sources, database, copied>>

\* ... and looks, with a list of its own each time, for runs that are not finished ...
Quiescence ==
  /\ step = "quiescence"
  /\ step' = "runs" /\ todo' = registered
  /\ UNCHANGED <<round, listed, loaded, rows, before, sources, database, copied, staging>>

Active(p) == \E r \in Runs : ProjectOf[r] = p /\ row[r] = "active"

QuietRuns ==
  /\ step = "runs" /\ todo # {}
  /\ IF Active(Turn) THEN Refused ELSE step' = "records" /\ UNCHANGED staging
  /\ UNCHANGED <<round, todo, listed, loaded, rows, before, sources, database, copied>>

\* ... and for worktrees that are not released.
QuietRecords ==
  /\ step = "records"
  /\ IF Turn \in owned THEN Refused ELSE step' = "runs" /\ UNCHANGED staging
  /\ Visited
  /\ UNCHANGED <<round, listed, loaded, rows, before, sources, database, copied>>

\* The registry fingerprint: a third list, and the runs of one project after the other.
Fingerprint ==
  /\ step = "runs" /\ todo = {}
  /\ step' = "rows" /\ todo' = registered /\ rows' = {}
  /\ UNCHANGED <<round, listed, loaded, before, sources, database, copied, staging>>

RowsOf(p) == {<<r, row[r]>> : r \in {x \in Runs : ProjectOf[x] = p}}

ReadRows ==
  /\ step = "rows" /\ todo # {}
  /\ rows' = rows \cup {<<Turn, RowsOf(Turn)>>}
  /\ Visited
  /\ UNCHANGED <<step, round, listed, loaded, before, sources, database, copied, staging>>

Changed == rows # before

\* After the copies it must be what it was before them.
Fingerprinted ==
  /\ step = "rows" /\ todo = {}
  /\ before' = rows
  /\ IF round = 2 /\ Changed THEN Refused /\ UNCHANGED todo
     ELSE /\ step' = IF round = 1 THEN "load" ELSE "compare"
          /\ todo' = listed
          /\ UNCHANGED staging
  /\ UNCHANGED <<round, listed, loaded, rows, sources, database, copied>>

\* The configuration says where the other parts are; then the sources are read.
Load ==
  /\ step = "load" /\ todo # {}
  /\ loaded' = [loaded EXCEPT ![Turn] = part[Turn].config]
  /\ step' = "sources"
  /\ UNCHANGED <<round, todo, listed, rows, before, sources, database, copied, staging>>

SourcesOf(p) == [q \in Sources |-> part[p][q]]

PrintSources ==
  /\ step = "sources"
  /\ sources' = [sources EXCEPT ![Turn] = SourcesOf(Turn)]
  /\ step' = "load" /\ Visited
  /\ UNCHANGED <<round, listed, loaded, rows, before, database, copied, staging>>

Stage ==
  /\ step = "load" /\ todo = {}
  /\ staging' = TRUE /\ step' = "database"
  /\ UNCHANGED <<round, todo, listed, loaded, rows, before, sources, database, copied>>

\* SQLite's backup and pg_dump copy one state of the database, ...
CopyDatabase ==
  /\ step = "database"
  /\ database' = [registered |-> registered, row |-> row]
  /\ step' = "copy" /\ todo' = listed
  /\ UNCHANGED <<round, listed, loaded, rows, before, sources, copied, staging>>

\* ... and the parts of each project follow one after the other.
InOrder == <<"config", "requirements", "head", "state", "checkpoint">>

Copied(p, i) == \A j \in 1 .. i : copied[p][InOrder[j]] # None

Copy ==
  /\ step = "copy" /\ todo # {}
  /\ \E i \in 1 .. 5 :
       /\ Copied(Turn, i - 1) /\ ~Copied(Turn, i)
       /\ copied' = [copied EXCEPT ![Turn][InOrder[i]] = part[Turn][InOrder[i]]]
       /\ IF i = 5 THEN Visited ELSE UNCHANGED todo
  /\ UNCHANGED <<step, round, listed, loaded, rows, before, sources, database, staging>>

\* Then everything is checked again, ...
Again ==
  /\ step = "copy" /\ todo = {}
  /\ step' = "quiescence" /\ round' = 2
  /\ UNCHANGED <<todo, listed, loaded, rows, before, sources, database, copied, staging>>

\* (A variant named in PROJECT.json as a mutant, such as this one, is never used by the
\* specification.)
SameRequirements(p) == sources[p].requirements = part[p].requirements

SameSources(p) == sources[p] = SourcesOf(p)

Compare ==
  /\ step = "compare" /\ todo # {}
  /\ IF SameSources(Turn) THEN Visited /\ UNCHANGED <<step, staging>>
     ELSE Refused /\ UNCHANGED todo
  /\ UNCHANGED <<round, listed, loaded, rows, before, sources, database, copied>>

\* ... and the manifest of what is listed is written and the whole renamed to its place.
Publish ==
  /\ step = "compare" /\ todo = {}
  /\ step' = "published" /\ staging' = FALSE
  /\ UNCHANGED <<round, todo, listed, loaded, rows, before, sources, database, copied>>

\* A call of the file system, git or the database fails; or the command is killed.
CallFails ==
  /\ ~Over
  /\ step' = "failed" /\ staging' = FALSE
  /\ UNCHANGED <<round, todo, listed, loaded, rows, before, sources, database, copied>>

Kill ==
  /\ ~Over
  /\ step' = "killed"
  /\ UNCHANGED <<round, todo, listed, loaded, rows, before, sources, database, copied, staging>>

Command ==
  \/ List \/ Quiescence \/ QuietRuns \/ QuietRecords \/ Fingerprint \/ ReadRows
  \/ Fingerprinted \/ Load \/ PrintSources \/ Stage \/ CopyDatabase \/ Copy \/ Again
  \/ Compare \/ Publish \/ CallFails \/ Kill

-----------------------------------------------------------------------------
\* Others, while the command runs.  kinds: what its two readings cannot tell.
Event(kinds) ==
  /\ ~Over /\ events < MaxEvents
  /\ events' = events + 1
  /\ missed' = missed \cup kinds
  /\ moments' = moments \cup {Moment'}
  /\ UNCHANGED command

\* start_run saves the configuration in the state directory and then creates the run.
Prepare(p) ==
  /\ p \in registered /\ ~Active(p)
  /\ part' = [part EXCEPT ![p].state = events + 1]
  /\ UNCHANGED <<registered, row, owned>>
  /\ Event({"unannounced"})

Create(r) ==
  /\ row[r] = "none" /\ ProjectOf[r] \in registered /\ ~Active(ProjectOf[r])
  /\ row' = [row EXCEPT ![r] = "active"]
  /\ UNCHANGED <<registered, part, owned>>
  /\ Event({})

Work(r) ==
  /\ row[r] = "active"
  /\ \E q \in {"head", "state", "checkpoint"} :
       part' = [part EXCEPT ![ProjectOf[r]][q] = events + 1]
  /\ UNCHANGED <<registered, row, owned>>
  /\ Event({})

\* A run acquires its worktree or releases it, or finishes in either state.
Own(r) ==
  /\ row[r] = "active"
  /\ owned' = IF ProjectOf[r] \in owned THEN owned \ {ProjectOf[r]}
              ELSE owned \cup {ProjectOf[r]}
  /\ UNCHANGED <<registered, row, part>>
  /\ Event({})

Finish(r) ==
  /\ row[r] = "active"
  /\ row' = [row EXCEPT ![r] = "finished"]
  /\ UNCHANGED <<registered, part, owned>>
  /\ Event({})

\* An operator edits the configuration or the requirements or moves the repository,
\* perhaps back to where it was.
Edit(p) ==
  /\ UNCHANGED <<registered, row, owned>>
  /\ \E q \in Sources : \E version \in {0, events + 1} \ {part[p][q]} :
       /\ part' = [part EXCEPT ![p][q] = version]
       /\ Event((IF version = 0 THEN {"reverted"} ELSE {})
                \cup IF q = "config" /\ loaded[p] # None /\ sources[p] = None
                     THEN {"reread"} ELSE {})

\* POST /projects.  The command's own list is older than the fingerprint's.
Listed == step \in {"quiescence", "runs", "records"} /\ round = 1

Register(p) ==
  /\ p \notin registered
  /\ registered' = registered \cup {p}
  /\ UNCHANGED <<row, part, owned>>
  /\ Event(IF Listed THEN {"late"} ELSE {})

Others ==
  \/ \E p \in Projects : Prepare(p) \/ Edit(p) \/ Register(p)
  \/ \E r \in Runs : Create(r) \/ Work(r) \/ Own(r) \/ Finish(r)

Next == (Command /\ UNCHANGED <<deployment, ghost>>) \/ Others

Spec == Init /\ [][Next]_vars

-----------------------------------------------------------------------------
\* A command that ends removes its staging directory; only a kill leaves it.
TypeOK ==
  /\ registered \subseteq Projects
  /\ row \in [Runs -> {"none", "active", "finished"}]
  /\ part \in [Projects -> [Parts -> Versions]]
  /\ owned \subseteq registered
  /\ step \in {"list", "quiescence", "runs", "records", "rows", "load", "sources", "database",
               "copy", "compare", "published", "refused", "failed", "killed"}
  /\ round \in {1, 2} /\ todo \subseteq registered
  /\ listed \subseteq registered
  /\ loaded \in [Projects -> Versions \cup {None}]
  /\ sources \in [Projects -> {None} \cup [Sources -> Versions]]
  /\ copied \in [Projects -> [Parts -> Versions \cup {None}]]
  /\ staging \in BOOLEAN /\ (staging => ~Over \/ step = "killed")
  /\ events \in 0 .. MaxEvents
  /\ missed \subseteq {"reverted", "reread", "unannounced", "late"}

Exempt == (IF "reverted" \in missed THEN Sources ELSE {})
          \cup IF "unannounced" \in missed THEN {"state"} ELSE {}

CopyOf(m) ==
  /\ database = [registered |-> m.registered, row |-> m.row]
  /\ \A p \in listed :
       /\ \A q \in Parts \ Exempt : copied[p][q] = m.part[p][q]
       /\ missed \cap {"reverted", "reread"} = {} => loaded[p] = m.part[p].config

Idle(m) == m.owned = {} /\ \A r \in Runs : m.row[r] # "active"

\* What is published is one state that the deployment was in, and an idle one, however
\* runs, operators and registrations fell between the copies; not so for what the two
\* readings cannot tell, a source that is changed back and a file in a state directory
\* that is written before the registry is (create_deployment_backup).  And every project in
\* the copy of the database is in the manifest, unless it was registered between the first
\* list and the fingerprint (projects_raw).
Consistent ==
  step = "published" =>
    /\ \E m \in moments : Idle(m) /\ CopyOf(m)
    /\ "late" \notin missed => database.registered = listed

\* A backup is refused only if somebody used the deployment or something is unfinished.
RefusedForCause ==
  step = "refused" => events > 0 \/ registered = {} \/ ~Idle(Moment)

=============================================================================
