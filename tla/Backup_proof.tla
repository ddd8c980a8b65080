---------------------------- MODULE Backup_proof ----------------------------
(***************************************************************************)
(* What Backup publishes, for every set of projects and runs and every      *)
(* number of events.  The moment at which the database was copied is the    *)
(* witness: before it everything that was read is no newer, after it        *)
(* everything that is copied is no older, and the second round shows that   *)
(* nothing came between.                                                    *)
(***************************************************************************)
EXTENDS Backup, TLAPS

States == {"none", "active", "finished"}

Rows == [Runs -> States]

Moments == [registered : SUBSET Projects, row : Rows, part : [Projects -> [Parts -> Versions]],
            owned : SUBSET Projects]

RunsOf(p) == {x \in Runs : ProjectOf[x] = p}

RowsAs(h, p) == {<<r, h[r]>> : r \in RunsOf(p)}

\* A run is created, then active, then finished.
Later(h, g) == \A r \in Runs : h[r] = g[r] \/ h[r] = "none" \/ g[r] = "finished"

\* No exception and no kill has ended the command.
Going == step \notin {"refused", "failed", "killed"}

Has(kind) == kind \in missed

-----------------------------------------------------------------------------
\* The loops, and the rounds that they belong to.
Loops ==
  /\ step \in {"records", "sources"} => todo # {}
  /\ step \in {"load", "sources", "copy", "compare"} => todo \subseteq listed
  /\ step \in {"list", "load", "sources", "database", "copy"} => round = 1
  /\ step \in {"compare", "published"} => round = 2
  /\ step = "published" => todo = {}
  /\ \A r \in Runs : row[r] # "none" => ProjectOf[r] \in registered
  /\ moments \subseteq Moments /\ Moment \in moments
  /\ \A p \in Projects, q \in Parts : part[p][q] <= events

\* A fingerprint says of each project how its runs were at some time before h.
Reading(s, h) ==
  \A x \in s : \E f \in Rows : x = <<x[1], RowsAs(f, x[1])>> /\ Later(f, h)

\* No project that is listed late is among those of s.
Known(s) == ~Has("late") => \A x \in s : x[1] \in listed

First ==
  /\ round = 1 /\ step \in {"quiescence", "runs", "records"} =>
       Has("late") \/ registered = listed
  /\ round = 1 /\ step = "rows" =>
       /\ Reading(rows, row) /\ Known(rows)
       /\ ~Has("late") => todo \subseteq listed
  /\ step \in {"load", "sources", "database"} => Reading(before, row) /\ Known(before)

\* The sources of p were read before they were as in h.
Printed(p, h) ==
  /\ sources[p] \in [Sources -> Versions]
  /\ \A q \in Sources : sources[p][q] <= h[p][q] \/ Has("reverted")
  /\ Has("reverted") \/ Has("reread") \/ loaded[p] = sources[p].config

Printing ==
  /\ Going /\ round = 1 /\ step # "copy" => copied = NoParts
  /\ round = 1 /\ step \in {"list", "quiescence", "runs", "records", "rows"} =>
       \A p \in Projects : sources[p] = None
  /\ step \in {"load", "sources"} =>
       /\ \A p \in todo : sources[p] = None
       /\ \A p \in listed \ todo : Printed(p, part)
  /\ step = "sources" =>
       /\ loaded[Turn] \in Versions
       /\ Has("reverted") \/ Has("reread") \/ loaded[Turn] = part[Turn].config
  /\ step = "database" => \A p \in listed : Printed(p, part)

-----------------------------------------------------------------------------
\* A run of p may have worked after m, as far as h shows.
Worked(m, p, h) == \E r \in RunsOf(p) : m.row[r] # "finished" /\ h[r] # "none"

\* m is when the database was copied.
Pin(m) ==
  /\ database = [registered |-> m.registered, row |-> m.row]
  /\ listed \subseteq m.registered /\ m.registered \subseteq registered
  /\ m.owned \subseteq m.registered
  /\ \A r \in Runs : m.row[r] # "none" => ProjectOf[r] \in m.registered
  /\ Later(m.row, row)
  /\ Reading(before, m.row) /\ Known(before)
  /\ \A p \in listed : Printed(p, m.part)
  /\ \A p \in m.owned : p \in owned \/ Worked(m, p, row)

\* Versions of sources grow, state and checkpoint change only while a run works.
Ordered(m, p) ==
  /\ \A q \in Sources :
       /\ m.part[p][q] <= part[p][q] \/ Has("reverted")
       /\ copied[p][q] # None =>
            Has("reverted") \/ (m.part[p][q] <= copied[p][q] /\ copied[p][q] <= part[p][q])
  /\ part[p].state = m.part[p].state \/ Has("unannounced") \/ Worked(m, p, row)
  /\ part[p].checkpoint = m.part[p].checkpoint \/ Worked(m, p, row)
  /\ \/ copied[p].state \in {None, m.part[p].state}
     \/ Has("unannounced") \/ Worked(m, p, row)
  /\ copied[p].checkpoint \in {None, m.part[p].checkpoint} \/ Worked(m, p, row)

Copies(m) ==
  /\ \A p \in Projects : Ordered(m, p)
  /\ \A p \in listed : (step = "copy" /\ p \in todo) \/ \A q \in Parts : copied[p][q] # None

\* The copies of p differ from m by what a run did.
Stale(m, p) ==
  \/ copied[p].state # m.part[p].state /\ ~Has("unannounced")
  \/ copied[p].checkpoint # m.part[p].checkpoint

\* In h the runs that m knows are finished, and a run shows if p was used after m.
Settled(m, p, h) == \A r \in RunsOf(p) : m.row[r] # "none" => h[r] = "finished"

Shown(m, p, h) == p \in m.owned \/ (p \in listed /\ Stale(m, p)) => Worked(m, p, h)

Second(m) ==
  /\ round = 2 /\ step \in {"runs", "records"} =>
       \A p \in m.registered : p \in todo \/ (Settled(m, p, row) /\ Shown(m, p, row))
  /\ round = 2 /\ step = "records" => Settled(m, Turn, row)
  /\ round = 2 /\ step = "rows" => \A p \in m.registered :
       /\ Settled(m, p, row) /\ Shown(m, p, row)
       /\ p \in todo \/ \E g \in Rows :
            <<p, RowsAs(g, p)>> \in rows /\ Settled(m, p, g) /\ Shown(m, p, g)

Same(m, p) ==
  /\ Has("reverted") \/ \A q \in Sources : copied[p][q] = m.part[p][q]
  /\ Has("reverted") \/ Has("reread") \/ loaded[p] = m.part[p].config

Agreed(m) ==
  step \in {"compare", "published"} =>
    /\ \A p \in m.registered :
         /\ p \notin m.owned /\ \A r \in RunsOf(p) : m.row[r] # "active"
         /\ p \in listed => ~Stale(m, p)
         /\ Has("late") \/ p \in listed
    /\ \A p \in listed \ todo : Same(m, p)

After == Going /\ (round = 2 \/ step = "copy")

Pinned == After => \E m \in moments : Pin(m) /\ Copies(m) /\ Second(m) /\ Agreed(m)

\* As long as nobody uses the deployment, it is as it was read.
Quiet ==
  events = 0 /\ Going =>
    /\ step = "rows" => rows = {<<p, RowsOf(p)>> : p \in registered \ todo}
    /\ round = 2 \/ step \in {"load", "sources", "database", "copy"} =>
         before = {<<p, RowsOf(p)>> : p \in registered}
    /\ step \in {"load", "sources"} => \A p \in listed \ todo : sources[p] = SourcesOf(p)
    /\ round = 2 \/ step \in {"database", "copy"} => \A p \in listed : sources[p] = SourcesOf(p)

IInv == TypeOK /\ Loops /\ First /\ Printing /\ Pinned /\ Quiet /\ RefusedForCause

-----------------------------------------------------------------------------
LEMMA Turns == todo # {} => Turn \in todo
BY DEF Turn

LEMMA Constants ==
  /\ \A r \in Runs : ProjectOf[r] \in Projects
  /\ MaxEvents \in Nat /\ None \notin Versions
  /\ \A v \in Versions : v \in Nat
BY BackupConstants DEF Versions

LEMMA Transitive == ASSUME NEW f, NEW g, NEW h, Later(f, g), Later(g, h) PROVE Later(f, h)
BY DEF Later

LEMMA PartsOf == /\ Sources \subseteq Parts /\ "config" \in Sources
                 /\ "state" \in Parts \ Sources /\ "checkpoint" \in Parts \ Sources
                 /\ \A q \in Parts : q \in Sources \/ q \in {"state", "checkpoint"}
                 /\ "head" \in Sources /\ "state" # "checkpoint"
BY DEF Sources, Parts

\* A run of p is active.
Busy(p) == \E r \in RunsOf(p) : row[r] = "active"

\* What a step of others leaves behind: the command goes on, and the moment is recorded; ...
Happened ==
  /\ UNCHANGED command /\ ~Over
  /\ events' = events + 1 /\ events' \in Versions
  /\ missed \subseteq missed' /\ missed' \subseteq {"reverted", "reread", "unannounced", "late"}
  /\ moments' = moments \cup {Moment'}

\* ... registrations, runs and ownership; ...
Registry ==
  /\ registered \subseteq registered' /\ registered' \subseteq Projects
  /\ Listed => registered' = registered \/ Has("late")'
  /\ row' \in Rows /\ Later(row, row')
  /\ \A r \in Runs : row'[r] # "none" => ProjectOf[r] \in registered'
  /\ owned' \subseteq registered'
  /\ \A p \in owned : p \in owned' \/ Busy(p)

\* ... and the files.
Files ==
  /\ part' \in [Projects -> [Parts -> Versions]]
  /\ \A p \in Projects, q \in Parts : part'[p][q] <= events'
  /\ \A p \in Projects, q \in Sources : part[p][q] <= part'[p][q] \/ Has("reverted")'
  /\ \A p \in Projects : /\ loaded[p] # None /\ sources[p] = None
                         => part'[p].config = part[p].config \/ Has("reread")'
  /\ \A p \in Projects :
       /\ part'[p].state = part[p].state \/ Has("unannounced")' \/ Busy(p)
       /\ part'[p].checkpoint = part[p].checkpoint \/ Busy(p)

LEMMA Counts ==
  ASSUME TypeOK, Loops
  PROVE  /\ events \in Nat /\ 0 \in Versions
         /\ events < MaxEvents => events + 1 \in Versions
         /\ \A p \in Projects, q \in Parts : part[p][q] \in Nat /\ part[p][q] <= events
BY Constants DEF TypeOK, Loops, Versions

LEMMA EventHappens ==
  ASSUME TypeOK, Loops, NEW K, Event(K), K \subseteq {"reverted", "reread", "unannounced", "late"}
  PROVE  /\ Happened
         /\ \A kind \in K : Has(kind)'
BY Counts DEF Event, TypeOK, Happened, Has

\* One part gets a new version.
Write(p, q, v) == part' = [part EXCEPT ![p][q] = v]

LEMMA Written ==
  ASSUME TypeOK, Loops, NEW p \in Projects, NEW q \in Parts, NEW v \in {0, events + 1},
         Happened, Write(p, q, v)
  PROVE  /\ part' \in [Projects -> [Parts -> Versions]]
         /\ \A x \in Projects, y \in Parts : part'[x][y] <= events'
         /\ \A x \in Projects, y \in Parts : (x # p \/ y # q) => part'[x][y] = part[x][y]
         /\ part'[p][q] = v
<1>1. v \in Versions /\ v <= events + 1 /\ events' = events + 1 BY Counts DEF Happened
<1>2. part[p] \in [Parts -> Versions] /\ part \in [Projects -> [Parts -> Versions]]
  BY DEF TypeOK
<1>3. part' = [part EXCEPT ![p] = [part[p] EXCEPT ![q] = v]] BY DEF Write
<1>4. [part[p] EXCEPT ![q] = v] \in [Parts -> Versions] BY <1>1, <1>2
<1>5. part' \in [Projects -> [Parts -> Versions]] BY <1>2, <1>3, <1>4
<1>6. \A x \in Projects, y \in Parts : (x # p \/ y # q) => part'[x][y] = part[x][y]
  BY <1>2, <1>3
<1>7. part'[p][q] = v BY <1>2, <1>3
<1>8. ASSUME NEW x \in Projects, NEW y \in Parts PROVE part'[x][y] <= events'
  <2>1. CASE x = p /\ y = q BY <2>1, <1>1, <1>7
  <2>2. CASE x # p \/ y # q BY <2>2, <1>1, <1>6, Counts
  <2>3. QED BY <2>1, <2>2
<1>9. QED BY <1>5, <1>6, <1>7, <1>8

LEMMA Unwritten ==
  ASSUME TypeOK, Loops, Happened, UNCHANGED part
  PROVE  Files
<1>1. \A p \in Projects, q \in Parts : part[p][q] <= events' /\ part[p][q] <= part[p][q]
  BY Counts DEF Happened
<1>2. QED BY <1>1, PartsOf DEF Files, TypeOK

LEMMA Untouched ==
  ASSUME TypeOK, Loops, UNCHANGED <<registered, row, owned>>
  PROVE  Registry
BY DEF Registry, TypeOK, Loops, Rows, States, Later

LEMMA Evolution == ASSUME TypeOK, Loops, Others PROVE Happened /\ Registry /\ Files
<1>1. ASSUME NEW p \in Projects, Prepare(p) PROVE Happened /\ Registry /\ Files
  <2>1. part' = [part EXCEPT ![p]["state"] = events + 1] /\ Event({"unannounced"})
        /\ UNCHANGED <<registered, row, owned>>
    BY <1>1 DEF Prepare
  <2>2. Happened /\ Has("unannounced")' BY <2>1, EventHappens
  <2>3. /\ part' \in [Projects -> [Parts -> Versions]]
        /\ \A x \in Projects, y \in Parts : part'[x][y] <= events'
        /\ \A x \in Projects, y \in Parts : (x # p \/ y # "state") => part'[x][y] = part[x][y]
    <3>1. "state" \in Parts /\ events + 1 \in {0, events + 1} BY PartsOf
    <3>2. Write(p, "state", events + 1) BY <2>1 DEF Write
    <3>3. QED BY <2>2, <3>1, <3>2, Written
  <2>4. \A x \in Projects, y \in Sources : part[x][y] <= part'[x][y] BY <2>3, Counts, PartsOf
  <2>5. QED BY <2>1, <2>2, <2>3, <2>4, Untouched, PartsOf DEF Files
<1>2. ASSUME NEW p \in Projects, Edit(p) PROVE Happened /\ Registry /\ Files
  <2>1. UNCHANGED <<registered, row, owned>> BY <1>2 DEF Edit
  <2>2. PICK q \in Sources, version \in {0, events + 1} :
          /\ part' = [part EXCEPT ![p][q] = version]
          /\ Event((IF version = 0 THEN {"reverted"} ELSE {})
                   \cup IF q = "config" /\ loaded[p] # None /\ sources[p] = None
                        THEN {"reread"} ELSE {})
    BY <1>2 DEF Edit
  <2>3. /\ Happened
        /\ version = 0 => Has("reverted")'
        /\ q = "config" /\ loaded[p] # None /\ sources[p] = None => Has("reread")'
    BY <2>2, EventHappens
  <2>4. /\ part' \in [Projects -> [Parts -> Versions]]
        /\ \A x \in Projects, y \in Parts : part'[x][y] <= events'
        /\ \A x \in Projects, y \in Parts : (x # p \/ y # q) => part'[x][y] = part[x][y]
        /\ part'[p][q] = version
    <3>1. q \in Parts BY PartsOf
    <3>2. Write(p, q, version) BY <2>2 DEF Write
    <3>3. QED BY <2>3, <3>1, <3>2, Written
  <2>5. ASSUME NEW x \in Projects, NEW y \in Sources
        PROVE  part[x][y] <= part'[x][y] \/ Has("reverted")'
    BY <2>3, <2>4, Counts, PartsOf
  <2>6. QED BY <2>1, <2>3, <2>4, <2>5, Untouched, PartsOf DEF Files
<1>3. ASSUME NEW p \in Projects, Register(p) PROVE Happened /\ Registry /\ Files
  <2>1. registered' = registered \cup {p} /\ Event(IF Listed THEN {"late"} ELSE {})
        /\ UNCHANGED <<row, part, owned>>
    BY <1>3 DEF Register
  <2>2. Happened /\ (Listed => Has("late")') BY <2>1, EventHappens
  <2>3. QED BY <2>1, <2>2, Unwritten DEF Registry, TypeOK, Loops, Rows, States, Later
<1>4. ASSUME NEW r \in Runs, Create(r) PROVE Happened /\ Registry /\ Files
  <2>1. row[r] = "none" /\ ProjectOf[r] \in registered /\ row' = [row EXCEPT ![r] = "active"]
        /\ UNCHANGED <<registered, part, owned>> /\ Event({})
    BY <1>4 DEF Create
  <2>2. Happened BY <2>1, EventHappens
  <2>3. QED BY <2>1, <2>2, Unwritten DEF Registry, TypeOK, Loops, Rows, States, Later
<1>5. ASSUME NEW r \in Runs, Finish(r) PROVE Happened /\ Registry /\ Files
  <2>1. row[r] = "active" /\ row' = [row EXCEPT ![r] = "finished"]
        /\ UNCHANGED <<registered, part, owned>> /\ Event({})
    BY <1>5 DEF Finish
  <2>2. Happened BY <2>1, EventHappens
  <2>3. QED BY <2>1, <2>2, Unwritten DEF Registry, TypeOK, Loops, Rows, States, Later
<1>6. ASSUME NEW r \in Runs, Own(r) PROVE Happened /\ Registry /\ Files
  <2>1. row[r] = "active" /\ UNCHANGED <<registered, row, part>> /\ Event({})
        /\ owned' \subseteq owned \cup {ProjectOf[r]}
        /\ \A p \in owned : p \in owned' \/ p = ProjectOf[r]
    BY <1>6 DEF Own
  <2>2. Happened BY <2>1, EventHappens
  <2>3. Busy(ProjectOf[r]) /\ ProjectOf[r] \in registered BY <2>1 DEF Busy, RunsOf, Loops
  <2>4. QED BY <2>1, <2>2, <2>3, Unwritten DEF Registry, TypeOK, Loops, Rows, States, Later
<1>7. ASSUME NEW r \in Runs, Work(r) PROVE Happened /\ Registry /\ Files
  <2>1. row[r] = "active" /\ UNCHANGED <<registered, row, owned>> /\ Event({})
    BY <1>7 DEF Work
  <2>2. PICK q \in {"head", "state", "checkpoint"} :
          part' = [part EXCEPT ![ProjectOf[r]][q] = events + 1]
    BY <1>7 DEF Work
  <2>3. Happened BY <2>1, EventHappens
  <2>4. q \in Parts /\ q # "config" /\ ProjectOf[r] \in Projects /\ Busy(ProjectOf[r])
    BY <2>1, <2>2, Constants DEF Parts, Sources, RunsOf, Busy
  <2>5. /\ part' \in [Projects -> [Parts -> Versions]]
        /\ \A x \in Projects, y \in Parts : part'[x][y] <= events'
        /\ \A x \in Projects, y \in Parts :
             (x # ProjectOf[r] \/ y # q) => part'[x][y] = part[x][y]
        /\ part'[ProjectOf[r]][q] = events + 1
    <3>1. Write(ProjectOf[r], q, events + 1) BY <2>2 DEF Write
    <3>2. QED BY <2>3, <2>4, <3>1, Written
  <2>6. ASSUME NEW x \in Projects, NEW y \in Sources PROVE part[x][y] <= part'[x][y]
    BY <2>5, Counts, PartsOf
  <2>7. QED BY <2>1, <2>3, <2>4, <2>5, <2>6, Untouched, PartsOf DEF Files
<1>8. QED BY <1>1, <1>2, <1>3, <1>4, <1>5, <1>6, <1>7 DEF Others

-----------------------------------------------------------------------------
(* Steps of others.                                                            *)
LEMMA Still ==
  ASSUME Happened
  PROVE  /\ UNCHANGED <<step, round, todo, listed, loaded, rows, before, sources, database,
                        copied, staging>>
         /\ Turn' = Turn /\ Going' = Going /\ Over' = Over /\ After' = After
         /\ \A kind : Has(kind) => Has(kind)'
BY DEF Happened, command, Turn, Going, Over, After, Has

LEMMA OthersTyped == ASSUME TypeOK, Loops, Others PROVE TypeOK' /\ Loops'
<1>1. Happened /\ Registry /\ Files BY Evolution
<1>2. TypeOK'
  BY <1>1, Still, Constants DEF TypeOK, Happened, Registry, Files, Rows, States, Versions
<1>3. Moment' \in Moments BY <1>1, <1>2 DEF Moment, Moments, TypeOK, Rows, States, Registry
<1>4. QED BY <1>1, <1>2, <1>3, Still DEF Loops, Happened, Registry, Files

LEMMA ReadingLater ==
  ASSUME NEW s, NEW h, NEW g, Reading(s, h), Later(h, g)
  PROVE  Reading(s, g)
BY Transitive DEF Reading

LEMMA OthersFirst == ASSUME TypeOK, Loops, First, Others PROVE First'
<1>1. Happened /\ Registry BY Evolution
<1>2. UNCHANGED <<step, round, todo, listed, rows, before>> /\ (Has("late") => Has("late")')
  BY <1>1, Still
<1>3. \A s : /\ Reading(s, row) => Reading(s, row')
             /\ Known(s) => (~Has("late")' => \A x \in s : x[1] \in listed')
  BY <1>1, <1>2, ReadingLater DEF Known, Registry
<1>4. round' = 1 /\ step' \in {"quiescence", "runs", "records"} /\ ~Has("late")'
        => registered' = listed'
  BY <1>1, <1>2 DEF First, Registry, Listed
<1>5. round' = 1 /\ step' = "rows" =>
        /\ Reading(rows', row') /\ Known(rows)'
        /\ ~Has("late")' => todo' \subseteq listed'
  BY <1>2, <1>3 DEF First, Known
<1>6. step' \in {"load", "sources", "database"} => Reading(before', row') /\ Known(before)'
  BY <1>2, <1>3 DEF First, Known
<1>7. QED BY <1>4, <1>5, <1>6 DEF First, Reading

LEMMA PrintedLater ==
  ASSUME TypeOK, Loops, Others, NEW p \in Projects, Printed(p, part)
  PROVE  Printed(p, part)'
<1>1. Happened /\ Files BY Evolution
<1>2. sources' = sources /\ loaded' = loaded /\ \A kind : Has(kind) => Has(kind)' BY <1>1, Still
<1>3. ASSUME NEW q \in Sources PROVE sources[p][q] <= part'[p][q] \/ Has("reverted")'
  <2>1. sources[p][q] \in Nat BY Constants DEF Printed
  <2>2. part[p][q] \in Nat /\ part'[p][q] \in Nat BY <1>1, PartsOf, Constants DEF Files, TypeOK
  <2>3. QED BY <1>1, <1>2, <2>1, <2>2 DEF Printed, Files
<1>4. QED BY <1>2, <1>3 DEF Printed

LEMMA OthersPrinting == ASSUME TypeOK, Loops, Printing, Others PROVE Printing'
<1>1. Happened /\ Files BY Evolution
<1>2. /\ UNCHANGED <<step, todo, listed, loaded, sources, copied>> /\ Turn' = Turn
      /\ \A kind : Has(kind) => Has(kind)'
  BY <1>1, Still
<1>3. \A p \in Projects : Printed(p, part) => Printed(p, part)' BY PrintedLater
<1>4. listed \subseteq Projects BY DEF TypeOK
<1>5. step' \in {"load", "sources"} =>
        /\ \A p \in todo' : sources'[p] = None
        /\ \A p \in listed' \ todo' : Printed(p, part)'
  BY <1>2, <1>3, <1>4 DEF Printing
<1>6. step' = "sources" =>
        /\ loaded'[Turn'] \in Versions
        /\ Has("reverted")' \/ Has("reread")' \/ loaded'[Turn'] = part'[Turn'].config
  <2> SUFFICES ASSUME step' = "sources"
               PROVE  /\ loaded[Turn] \in Versions
                      /\ Has("reverted")' \/ Has("reread")' \/ loaded[Turn] = part'[Turn].config
    BY <1>2
  <2>1. Turn \in todo /\ Turn \in Projects BY <1>2, Turns, <1>4 DEF Loops
  <2>2. loaded[Turn] \in Versions /\ loaded[Turn] # None /\ sources[Turn] = None
    BY <1>2, <2>1, Constants DEF Printing
  <2>3. QED BY <1>1, <1>2, <2>1, <2>2 DEF Printing, Files
<1>7. step' = "database" => \A p \in listed' : Printed(p, part)'
  BY <1>2, <1>3, <1>4 DEF Printing
<1>8. /\ Going' /\ round' = 1 /\ step' # "copy" => copied' = NoParts'
      /\ round' = 1 /\ step' \in {"list", "quiescence", "runs", "records", "rows"} =>
           \A p \in Projects : sources'[p] = None
  BY <1>1, <1>2, Still DEF Printing, NoParts
<1>9. QED BY <1>5, <1>6, <1>7, <1>8 DEF Printing

LEMMA WorkedLater ==
  ASSUME NEW m \in Moments, NEW p, NEW f \in Rows, NEW g \in Rows, Later(f, g), Worked(m, p, f)
  PROVE  Worked(m, p, g)
BY DEF Worked, Later, RunsOf, Rows, States

\* Whoever is active after m may have worked.
LEMMA BusyWorks ==
  ASSUME TypeOK, NEW m \in Moments, NEW p, Later(m.row, row), Busy(p)
  PROVE  Worked(m, p, row)
BY DEF Busy, Worked, RunsOf, Later, Moments, Rows, States

LEMMA RowsTyped == TypeOK => row \in Rows
BY DEF TypeOK, Rows, States

LEMMA OthersPin ==
  ASSUME TypeOK, Loops, Others, NEW m \in Moments, Pin(m)
  PROVE  Pin(m)' /\ \A p : Worked(m, p, row) => Worked(m, p, row')
<1>1. Happened /\ Registry BY Evolution
<1>2. /\ UNCHANGED <<listed, before, database, sources, loaded>>
      /\ \A kind : Has(kind) => Has(kind)'
  BY <1>1, Still
<1>3. Later(m.row, row') BY <1>1, Transitive DEF Pin, Registry
<1>4. \A p : Worked(m, p, row) => Worked(m, p, row')
  BY <1>1, WorkedLater, RowsTyped DEF Registry
<1>5. ASSUME NEW p \in m.owned PROVE p \in owned' \/ Worked(m, p, row')
  BY <1>1, <1>4, BusyWorks DEF Pin, Registry
<1>6. Reading(before', m.row) /\ Known(before)' BY <1>2 DEF Pin, Known
<1>7. \A p \in listed' : Printed(p, m.part)' BY <1>2 DEF Pin, Printed
<1>8. /\ database' = [registered |-> m.registered, row |-> m.row]
      /\ listed' \subseteq m.registered /\ m.registered \subseteq registered'
      /\ m.owned \subseteq m.registered
      /\ \A r \in Runs : m.row[r] # "none" => ProjectOf[r] \in m.registered
  BY <1>1, <1>2 DEF Pin, Registry
<1>9. QED BY <1>3, <1>4, <1>5, <1>6, <1>7, <1>8 DEF Pin, Reading

LEMMA OthersOrdered ==
  ASSUME TypeOK, Loops, Others, NEW m \in Moments, Pin(m), NEW p \in Projects, Ordered(m, p)
  PROVE  Ordered(m, p)'
<1>1. Happened /\ Registry /\ Files BY Evolution
<1>2. copied' = copied /\ \A kind : Has(kind) => Has(kind)' BY <1>1, Still
<1>3. Worked(m, p, row) => Worked(m, p, row') BY OthersPin
<1>4. Busy(p) => Worked(m, p, row) BY BusyWorks DEF Pin
<1>5. ASSUME NEW q \in Sources
      PROVE  /\ m.part[p][q] <= part'[p][q] \/ Has("reverted")'
             /\ copied[p][q] # None =>
                  Has("reverted")' \/ (m.part[p][q] <= copied[p][q] /\ copied[p][q] <= part'[p][q])
  <2>1. part[p][q] \in Nat /\ part'[p][q] \in Nat /\ m.part[p][q] \in Nat
    BY <1>1, PartsOf, Constants DEF Files, TypeOK, Moments
  <2>2. copied[p][q] # None => copied[p][q] \in Nat BY PartsOf, Constants DEF TypeOK
  <2>3. part[p][q] <= part'[p][q] \/ Has("reverted")' BY <1>1 DEF Files
  <2>4. QED BY <1>2, <2>1, <2>2, <2>3 DEF Ordered
<1>6. /\ part'[p].state = m.part[p].state \/ Has("unannounced")' \/ Worked(m, p, row')
      /\ part'[p].checkpoint = m.part[p].checkpoint \/ Worked(m, p, row')
  BY <1>1, <1>2, <1>3, <1>4 DEF Ordered, Files
<1>7. /\ \/ copied[p].state \in {None, m.part[p].state}
         \/ Has("unannounced")' \/ Worked(m, p, row')
      /\ copied[p].checkpoint \in {None, m.part[p].checkpoint} \/ Worked(m, p, row')
  BY <1>2, <1>3 DEF Ordered
<1>8. QED BY <1>2, <1>5, <1>6, <1>7 DEF Ordered, Worked

LEMMA OthersPinned == ASSUME TypeOK, Loops, Pinned, Others PROVE Pinned'
<1> SUFFICES ASSUME After
             PROVE  \E m \in moments' : (Pin(m) /\ Copies(m) /\ Second(m) /\ Agreed(m))'
  BY Evolution, Still DEF Pinned
<1>1. PICK m \in moments : Pin(m) /\ Copies(m) /\ Second(m) /\ Agreed(m) BY DEF Pinned
<1>2. m \in Moments /\ m \in moments' BY Evolution DEF Loops, Happened
<1>3. Happened /\ Registry BY Evolution
<1>4. /\ UNCHANGED <<step, round, todo, listed, copied, loaded, rows>>
      /\ Turn' = Turn /\ \A kind : Has(kind) => Has(kind)'
  BY <1>3, Still
<1>5. Pin(m)' /\ \A p : Worked(m, p, row) => Worked(m, p, row')
  BY <1>1, <1>2, OthersPin
<1>6. Copies(m)' BY <1>1, <1>2, <1>4, OthersOrdered DEF Copies
<1>7. \A p : Settled(m, p, row) => Settled(m, p, row')
  BY <1>3 DEF Settled, Registry, Later, RunsOf
<1>8. \A p : /\ Stale(m, p)' => Stale(m, p)
             /\ Shown(m, p, row) => Shown(m, p, row)'
             /\ \A g \in Rows : Shown(m, p, g) => Shown(m, p, g)'
  BY <1>4, <1>5 DEF Shown, Stale, Worked
<1>9. Second(m)'
  <2>1. round' = 2 /\ step' \in {"runs", "records"} =>
          \A p \in m.registered : p \in todo' \/ (Settled(m, p, row') /\ Shown(m, p, row)')
    BY <1>1, <1>4, <1>7, <1>8 DEF Second
  <2>2. round' = 2 /\ step' = "records" => Settled(m, Turn', row')
    BY <1>1, <1>4, <1>7 DEF Second
  <2>3. round' = 2 /\ step' = "rows" => \A p \in m.registered :
          /\ Settled(m, p, row') /\ Shown(m, p, row)'
          /\ p \in todo' \/ \E g \in Rows :
               <<p, RowsAs(g, p)>> \in rows' /\ Settled(m, p, g) /\ Shown(m, p, g)'
    BY <1>1, <1>4, <1>7, <1>8 DEF Second
  <2>4. QED BY <2>1, <2>2, <2>3 DEF Second, Settled, RowsAs, RunsOf
<1>10. Agreed(m)' BY <1>1, <1>4, <1>8 DEF Agreed, Same
<1>11. QED BY <1>2, <1>5, <1>6, <1>9, <1>10

LEMMA OthersQuiet == ASSUME TypeOK, Loops, Others PROVE Quiet' /\ RefusedForCause'
<1>1. events' > 0 BY Evolution, Counts DEF Happened
<1>2. QED BY <1>1 DEF Quiet, RefusedForCause

-----------------------------------------------------------------------------
(* Steps of the command.                                                       *)
\* One part of the project whose turn it is is copied.
LEMMA CopyWrites ==
  ASSUME TypeOK, Loops, Copy
  PROVE  /\ Turn \in todo /\ Turn \in listed /\ Turn \in Projects
         /\ copied' \in [Projects -> [Parts -> Versions \cup {None}]]
         /\ \A p \in Projects, q \in Parts :
              copied'[p][q] \in {copied[p][q], part[p][q]}
         /\ \A p \in Projects, q \in Parts : copied[p][q] # None => copied'[p][q] # None
         /\ todo' = todo \/ (Visited /\ \A q \in Parts : copied'[Turn][q] # None)
<1>1. Turn \in todo /\ Turn \in listed /\ Turn \in Projects
  BY Turns DEF Copy, Loops, TypeOK
<1>2. PICK i \in 1..5 :
        /\ Copied(Turn, i - 1)
        /\ copied' = [copied EXCEPT ![Turn][InOrder[i]] = part[Turn][InOrder[i]]]
        /\ IF i = 5 THEN Visited ELSE UNCHANGED todo
  BY DEF Copy
<1>3. /\ InOrder[1] = "config" /\ InOrder[2] = "requirements" /\ InOrder[3] = "head"
      /\ InOrder[4] = "state" /\ InOrder[5] = "checkpoint"
  BY DEF InOrder
<1>4. i \in {1, 2, 3, 4, 5} BY <1>2
<1>5. PICK q \in Parts : q = InOrder[i] BY <1>3, <1>4 DEF Parts, Sources
<1>6. copied[Turn] \in [Parts -> Versions \cup {None}] /\ part[Turn][q] \in Versions
  BY <1>1 DEF TypeOK
<1>7. copied' = [copied EXCEPT ![Turn] = [copied[Turn] EXCEPT ![q] = part[Turn][q]]]
  BY <1>2, <1>5
<1>8. [copied[Turn] EXCEPT ![q] = part[Turn][q]] \in [Parts -> Versions \cup {None}]
  BY <1>6
<1>9. copied' \in [Projects -> [Parts -> Versions \cup {None}]] BY <1>7, <1>8 DEF TypeOK
<1>10. \A p \in Projects, y \in Parts : copied'[p][y] \in {copied[p][y], part[p][y]}
  BY <1>1, <1>6, <1>7 DEF TypeOK
<1>11. \A p \in Projects, y \in Parts : part[p][y] # None BY Constants DEF TypeOK
<1>12. ASSUME i = 5 PROVE \A y \in Parts : copied'[Turn][y] # None
  <2>1. \A j \in 1..4 : copied[Turn][InOrder[j]] # None BY <1>2, <1>12 DEF Copied
  <2>2. q = "checkpoint" /\ copied'[Turn][q] = part[Turn][q]
    BY <1>1, <1>3, <1>5, <1>6, <1>7, <1>12 DEF TypeOK
  <2>3. \A y \in {"config", "requirements", "head", "state"} : copied[Turn][y] # None
    BY <2>1, <1>3
  <2>4. QED BY <1>1, <1>10, <1>11, <2>2, <2>3 DEF Parts, Sources
<1>13. todo' = todo \/ (Visited /\ i = 5) BY <1>2
<1>14. QED BY <1>1, <1>9, <1>10, <1>11, <1>12, <1>13

LEMMA CommandTyped ==
  ASSUME TypeOK, Loops, Command, UNCHANGED <<deployment, ghost>>
  PROVE  TypeOK' /\ Loops'
<1>1. /\ UNCHANGED <<registered, row, part, owned, events, moments, missed>> /\ Moment' = Moment
  BY DEF deployment, ghost, Moment
<1>2. todo # {} => Turn \in todo BY Turns
<1> USE <1>1, <1>2 DEF TypeOK, Loops, Over
<1>3. CASE List BY <1>3 DEF List, Refused
<1>4. CASE Quiescence BY <1>4 DEF Quiescence
<1>5. CASE QuietRuns BY <1>5 DEF QuietRuns, Refused
<1>6. CASE QuietRecords BY <1>6 DEF QuietRecords, Refused, Visited
<1>7. CASE Fingerprint BY <1>7 DEF Fingerprint
<1>8. CASE ReadRows BY <1>8 DEF ReadRows, Visited
<1>9. CASE Fingerprinted BY <1>9 DEF Fingerprinted, Refused
<1>10. CASE Load
  <2>1. Turn \in Projects /\ part[Turn].config \in Versions BY <1>10, PartsOf DEF Load
  <2>2. loaded' \in [Projects -> Versions \cup {None}] BY <1>10, <2>1 DEF Load
  <2>3. QED BY <1>10, <2>2 DEF Load
<1>11. CASE PrintSources
  <2>1. Turn \in Projects /\ SourcesOf(Turn) \in [Sources -> Versions]
    BY <1>11, PartsOf DEF PrintSources, SourcesOf
  <2>2. sources' \in [Projects -> {None} \cup [Sources -> Versions]]
    BY <1>11, <2>1 DEF PrintSources
  <2>3. QED BY <1>11, <2>2 DEF PrintSources, Visited
<1>12. CASE Stage BY <1>12 DEF Stage
<1>13. CASE CopyDatabase BY <1>13 DEF CopyDatabase
<1>14. CASE Copy
  <2>1. copied' \in [Projects -> [Parts -> Versions \cup {None}]] /\ todo' \subseteq todo
    BY <1>14, CopyWrites DEF Visited
  <2>2. QED BY <1>14, <2>1 DEF Copy
<1>15. CASE Again BY <1>15 DEF Again
<1>16. CASE Compare BY <1>16 DEF Compare, Refused, Visited
<1>17. CASE Publish BY <1>17 DEF Publish
<1>18. CASE CallFails BY <1>18 DEF CallFails
<1>19. CASE Kill BY <1>19 DEF Kill
<1>20. QED
  BY <1>3, <1>4, <1>5, <1>6, <1>7, <1>8, <1>9, <1>10, <1>11, <1>12, <1>13, <1>14, <1>15, <1>16,
     <1>17, <1>18, <1>19 DEF Command

LEMMA RowsRead == \A p : RowsOf(p) = RowsAs(row, p)
BY DEF RowsOf, RowsAs, RunsOf

LEMMA CommandFirst ==
  ASSUME TypeOK, Loops, First, Command, UNCHANGED <<deployment, ghost>>
  PROVE  First'
<1>1. UNCHANGED <<registered, row, missed>> /\ \A kind : Has(kind)' <=> Has(kind)
  BY DEF deployment, ghost, Has
<1>2. todo # {} => Turn \in todo BY Turns
<1> USE <1>1 DEF Loops
<1>3. CASE List BY <1>3 DEF List, Refused, First
<1>4. CASE Quiescence BY <1>4 DEF Quiescence, First
<1>5. CASE QuietRuns BY <1>5 DEF QuietRuns, Refused, First
<1>6. CASE QuietRecords BY <1>6 DEF QuietRecords, Refused, First
<1>7. CASE Fingerprint
  <2>1. step' = "rows" /\ todo' = registered /\ rows' = {} /\ UNCHANGED <<round, listed>>
    BY <1>7 DEF Fingerprint
  <2>2. round = 1 /\ ~Has("late") => registered = listed BY <1>7 DEF Fingerprint, First
  <2>3. QED BY <2>1, <2>2 DEF First, Reading, Known
<1>8. CASE ReadRows
  <2>1. rows' = rows \cup {<<Turn, RowsAs(row, Turn)>>} /\ todo' = todo \ {Turn} /\ Turn \in todo
        /\ UNCHANGED <<step, round, listed>> /\ step = "rows"
    BY <1>2, <1>8, RowsRead DEF ReadRows, Visited
  <2>2. row \in Rows /\ Later(row, row) BY RowsTyped DEF Later
  <2>3. Reading(rows, row) => Reading(rows', row) BY <2>1, <2>2 DEF Reading
  <2>4. Known(rows) /\ (~Has("late") => todo \subseteq listed) => Known(rows)' BY <2>1 DEF Known
  <2>5. QED BY <2>1, <2>3, <2>4 DEF First, Reading
<1>9. CASE Fingerprinted
  <2>1. before' = rows /\ step = "rows" /\ UNCHANGED <<round, listed>>
        /\ (step' = "load" => round = 1) /\ step' \in {"load", "compare", "refused"}
    BY <1>9 DEF Fingerprinted, Refused, TypeOK
  <2>2. QED BY <2>1 DEF First, Known, Reading
<1>10. CASE Load BY <1>10 DEF Load, First, Known, Reading
<1>11. CASE PrintSources BY <1>11 DEF PrintSources, First, Known, Reading
<1>12. CASE Stage BY <1>12 DEF Stage, First, Known, Reading
<1>13. CASE CopyDatabase BY <1>13 DEF CopyDatabase, First
<1>14. CASE Copy BY <1>14 DEF Copy, First
<1>15. CASE Again BY <1>15 DEF Again, First
<1>16. CASE Compare BY <1>16 DEF Compare, Refused, First
<1>17. CASE Publish BY <1>17 DEF Publish, First
<1>18. CASE CallFails BY <1>18 DEF CallFails, First
<1>19. CASE Kill BY <1>19 DEF Kill, First
<1>20. QED
  BY <1>3, <1>4, <1>5, <1>6, <1>7, <1>8, <1>9, <1>10, <1>11, <1>12, <1>13, <1>14, <1>15, <1>16,
     <1>17, <1>18, <1>19 DEF Command

LEMMA PrintedKept ==
  ASSUME NEW p, UNCHANGED <<part, missed>>, sources'[p] = sources[p], loaded'[p] = loaded[p],
         Printed(p, part)
  PROVE  Printed(p, part)'
BY DEF Printed, Has

LEMMA CommandPrinting ==
  ASSUME TypeOK, Loops, Printing, Command, UNCHANGED <<deployment, ghost>>
  PROVE  Printing'
<1>1. UNCHANGED <<part, missed>> /\ (\A kind : Has(kind)' <=> Has(kind)) /\ NoParts' = NoParts
  BY DEF deployment, ghost, Has, NoParts
<1>2. todo # {} => Turn \in todo BY Turns
<1>3. listed \subseteq Projects BY DEF TypeOK
<1>0. \A p : sources' = sources /\ loaded' = loaded /\ Printed(p, part) => Printed(p, part)'
  BY <1>1, PrintedKept
<1> USE <1>1, <1>2, <1>3 DEF Loops, Going
<1>4. CASE List BY <1>4 DEF List, Refused, Printing
<1>5. CASE Quiescence BY <1>5 DEF Quiescence, Printing
<1>6. CASE QuietRuns BY <1>6 DEF QuietRuns, Refused, Printing
<1>7. CASE QuietRecords BY <1>7 DEF QuietRecords, Refused, Printing
<1>8. CASE Fingerprint BY <1>8 DEF Fingerprint, Printing
<1>9. CASE ReadRows BY <1>9 DEF ReadRows, Printing
<1>10. CASE Fingerprinted
  <2>1. /\ step = "rows" /\ UNCHANGED <<round, listed, loaded, sources, copied>>
        /\ \/ step' = "refused"
           \/ round = 1 /\ step' = "load" /\ todo' = listed
           \/ round = 2 /\ step' = "compare"
    BY <1>10 DEF Fingerprinted, Refused, TypeOK
  <2>2. QED BY <2>1 DEF Printing
<1>11. CASE Load
  <2>1. /\ step = "load" /\ step' = "sources" /\ Turn \in todo
        /\ UNCHANGED <<round, todo, listed, sources, copied>>
        /\ loaded' = [loaded EXCEPT ![Turn] = part[Turn].config] /\ Turn' = Turn
    BY <1>11 DEF Load, Turn
  <2>2. loaded'[Turn] = part[Turn].config /\ loaded'[Turn] \in Versions
    BY <2>1, PartsOf DEF TypeOK
  <2>3. ASSUME NEW p \in listed \ todo PROVE Printed(p, part)'
    <3>1. loaded'[p] = loaded[p] /\ Printed(p, part) BY <2>1 DEF Printing, TypeOK
    <3>2. QED BY <2>1, <3>1, PrintedKept
  <2>4. QED BY <2>1, <2>2, <2>3 DEF Printing
<1>12. CASE PrintSources
  <2>1. /\ step = "sources" /\ step' = "load" /\ Turn \in todo /\ Turn \in Projects
        /\ todo' = todo \ {Turn} /\ UNCHANGED <<round, listed, loaded, copied>>
        /\ sources' = [sources EXCEPT ![Turn] = SourcesOf(Turn)]
    BY <1>12 DEF PrintSources, Visited
  <2>2. SourcesOf(Turn) \in [Sources -> Versions] /\ sources'[Turn] = SourcesOf(Turn)
        /\ \A q \in Sources : SourcesOf(Turn)[q] = part[Turn][q]
        /\ \A p \in Projects : p # Turn => sources'[p] = sources[p]
    BY <2>1, PartsOf DEF SourcesOf, TypeOK
  <2>3. \A q \in Sources : part[Turn][q] <= part[Turn][q]
    BY <2>1, Counts, PartsOf
  <2>4. Has("reverted") \/ Has("reread") \/ loaded[Turn] = part[Turn].config
    BY <2>1 DEF Printing
  <2>5. PICK t \in Projects : t = Turn BY <2>1
  <2>6. Printed(t, part)'
    <3>1. sources'[t] = SourcesOf(Turn) /\ loaded'[t] = loaded[Turn] BY <2>1, <2>2, <2>5
    <3>2. /\ sources'[t] \in [Sources -> Versions] /\ sources'[t].config = part[Turn].config
          /\ \A q \in Sources : sources'[t][q] = part[t][q]
      BY <2>2, <2>5, <3>1, PartsOf
    <3>3. QED BY <1>1, <2>3, <2>4, <2>5, <3>1, <3>2 DEF Printed, Has
  <2>7. ASSUME NEW p \in (listed \ todo) PROVE Printed(p, part)'
    <3>1. sources'[p] = sources[p] /\ Printed(p, part) BY <2>1, <2>2 DEF Printing
    <3>2. QED BY <2>1, <3>1, PrintedKept
  <2>8. \A p \in todo' : sources'[p] = None BY <2>1, <2>2 DEF Printing
  <2>9. QED BY <2>1, <2>5, <2>6, <2>7, <2>8 DEF Printing
<1>13. CASE Stage BY <1>13, <1>0 DEF Stage, Printing
<1>14. CASE CopyDatabase BY <1>14 DEF CopyDatabase, Printing
<1>15. CASE Copy BY <1>15 DEF Copy, Printing
<1>16. CASE Again BY <1>16 DEF Again, Printing
<1>17. CASE Compare BY <1>17 DEF Compare, Refused, Printing
<1>18. CASE Publish BY <1>18 DEF Publish, Printing
<1>19. CASE CallFails BY <1>19 DEF CallFails, Printing
<1>20. CASE Kill BY <1>20 DEF Kill, Printing
<1>21. QED
  BY <1>4, <1>5, <1>6, <1>7, <1>8, <1>9, <1>10, <1>11, <1>12, <1>13, <1>14, <1>15, <1>16,
     <1>17, <1>18, <1>19, <1>20 DEF Command

LEMMA PinKept ==
  ASSUME UNCHANGED <<deployment, ghost, database, listed, before, sources, loaded>>, NEW m, Pin(m)
  PROVE  Pin(m)'
BY DEF deployment, ghost, Pin, Later, Reading, Known, Printed, Worked, Has

LEMMA CopiesKept ==
  ASSUME UNCHANGED <<deployment, ghost, listed, copied>>, NEW m, Copies(m),
         step = "copy" => todo = {}
  PROVE  Copies(m)'
BY DEF deployment, ghost, Copies, Ordered, Worked, Has

\* A moment stays pinned if the step pins nothing and copies nothing.
Kept(m) ==
  /\ Pin(m)' /\ Copies(m)'
  /\ \A p : /\ Settled(m, p, row) <=> Settled(m, p, row')
            /\ Stale(m, p)' <=> Stale(m, p)
            /\ Shown(m, p, row) <=> Shown(m, p, row)'
            /\ \A g : Shown(m, p, g) <=> Shown(m, p, g)'

LEMMA Keeping ==
  ASSUME UNCHANGED <<deployment, ghost, database, listed, before, sources, loaded, copied>>,
         NEW m, Pin(m), Copies(m), step = "copy" => todo = {}
  PROVE  Kept(m)
<1>1. Pin(m)' /\ Copies(m)' BY PinKept, CopiesKept
<1>2. UNCHANGED <<row, copied, missed, listed>> BY DEF deployment, ghost
<1>3. QED BY <1>1, <1>2 DEF Kept, Settled, Stale, Shown, Worked, Has

LEMMA SameRows ==
  ASSUME NEW p, NEW f \in Rows, NEW g \in Rows, RowsAs(f, p) = RowsAs(g, p), NEW r \in RunsOf(p)
  PROVE  f[r] = g[r]
<1>1. <<r, f[r]>> \in RowsAs(g, p) BY DEF RowsAs
<1>2. PICK x \in RunsOf(p) : <<r, f[r]>> = <<x, g[x]>> BY <1>1 DEF RowsAs
<1>3. QED BY <1>2

\* If both fingerprints agree, then no run that m knows was active at m, and nothing of p
\* was used after m.
LEMMA Agreement ==
  ASSUME NEW m \in Moments, NEW p, NEW f \in Rows, NEW g \in Rows, RowsAs(f, p) = RowsAs(g, p),
         Later(f, m.row), Settled(m, p, g)
  PROVE  (\A r \in RunsOf(p) : m.row[r] # "active") /\ ~Worked(m, p, g)
<1>1. \A r \in RunsOf(p) : f[r] = g[r] /\ r \in Runs /\ m.row[r] \in States
  BY SameRows DEF RunsOf, Moments, Rows
<1>2. QED BY <1>1 DEF Later, Settled, Worked, States

\* Whatever of the copies differs from m has been used.
LEMMA Stales ==
  ASSUME TypeOK, NEW m, Copies(m), NEW p \in listed, step # "copy", Stale(m, p)
  PROVE  Worked(m, p, row)
<1>1. p \in Projects /\ Ordered(m, p) /\ \A q \in Parts : copied[p][q] # None
  BY DEF Copies, TypeOK
<1>2. QED BY <1>1, PartsOf DEF Ordered, Stale

LEMMA PinnedHere ==
  ASSUME TypeOK, Loops, First, Printing, CopyDatabase, UNCHANGED <<deployment, ghost>>
  PROVE  \E m \in moments' : (Pin(m) /\ Copies(m) /\ Second(m) /\ Agreed(m))'
<1>1. PICK m \in Moments : m = Moment /\ m \in moments' BY DEF Loops, deployment, ghost
<1>2. /\ m.registered = registered /\ m.row = row /\ m.part = part /\ m.owned = owned
  BY <1>1 DEF Moment
<1>3. /\ UNCHANGED <<registered, row, part, owned, missed>>
      /\ step = "database" /\ step' = "copy" /\ todo' = listed /\ round = 1
      /\ UNCHANGED <<round, listed, loaded, before, sources, copied>>
      /\ database' = [registered |-> registered, row |-> row] /\ copied = NoParts
  BY DEF CopyDatabase, deployment, ghost, Loops, Printing, Going
<1>4. Pin(m)'
  <2>1. Later(m.row, row) /\ Reading(before, m.row) /\ Known(before)
    BY <1>2, <1>3 DEF First, Later
  <2>2. \A p \in listed : Printed(p, m.part) BY <1>2, <1>3 DEF Printing, Printed
  <2>3. QED BY <1>2, <1>3, <2>1, <2>2
            DEF Pin, TypeOK, Loops, Reading, Known, Printed, Has, Later
<1>5. Copies(m)'
  <2>1. ASSUME NEW p \in Projects PROVE Ordered(m, p)'
    <3>1. \A q \in Parts : copied'[p][q] = None BY <1>3 DEF NoParts
    <3>2. \A q \in Sources : part[p][q] <= part[p][q] BY Counts, PartsOf
    <3>3. QED BY <1>2, <1>3, <3>1, <3>2, PartsOf DEF Ordered
  <2>2. QED BY <1>3, <2>1 DEF Copies
<1>6. Second(m)' /\ Agreed(m)' BY <1>3 DEF Second, Agreed
<1>7. QED BY <1>1, <1>4, <1>5, <1>6

LEMMA CopyPinned ==
  ASSUME TypeOK, Loops, NEW m \in Moments, Pin(m), Copies(m), Copy, UNCHANGED <<deployment, ghost>>
  PROVE  (Pin(m) /\ Copies(m) /\ Second(m) /\ Agreed(m))'
<1>1. /\ UNCHANGED <<registered, row, part, owned, missed>> /\ step = "copy" /\ todo # {}
      /\ UNCHANGED <<step, round, listed, loaded, rows, before, sources, database>> /\ round = 1
  BY DEF Copy, deployment, ghost, Loops
<1>2. Pin(m)' BY <1>1, PinKept
<1>3. ASSUME NEW p \in Projects PROVE Ordered(m, p)'
  <2>1. \A q \in Parts : copied'[p][q] \in {copied[p][q], part[p][q]} BY CopyWrites
  <2>2. Ordered(m, p) BY DEF Copies
  <2>3. \A q \in Sources : part[p][q] <= part[p][q] BY Counts, PartsOf
  <2>4. \A kind : Has(kind)' <=> Has(kind) BY <1>1 DEF Has
  <2>5. Worked(m, p, row)' <=> Worked(m, p, row) BY <1>1 DEF Worked
  <2>6. QED BY <1>1, <2>1, <2>2, <2>3, <2>4, <2>5, PartsOf DEF Ordered
<1>4. ASSUME NEW p \in listed PROVE p \in todo' \/ \A q \in Parts : copied'[p][q] # None
  <2>1. CASE p \in todo BY <2>1, CopyWrites DEF Visited
  <2>2. CASE p \notin todo
    <3>1. p \in Projects /\ \A q \in Parts : copied[p][q] # None BY <2>2 DEF Copies, TypeOK
    <3>2. QED BY <3>1, CopyWrites
  <2>3. QED BY <2>1, <2>2
<1>5. QED BY <1>1, <1>2, <1>3, <1>4 DEF Copies, Second, Agreed

LEMMA FingerprintedPinned ==
  ASSUME TypeOK, Loops, NEW m \in Moments, Pin(m), Copies(m), Second(m), After, After',
         Fingerprinted, UNCHANGED <<deployment, ghost>>
  PROVE  (Pin(m) /\ Copies(m) /\ Second(m) /\ Agreed(m))'
<1>1. /\ step = "rows" /\ todo = {} /\ round = 2 /\ rows = before /\ before' = rows
      /\ step' = "compare" /\ todo' = listed
      /\ UNCHANGED <<round, listed, loaded, rows, before, sources, database, copied>>
  BY DEF Fingerprinted, After, Going, Refused, Changed, TypeOK
<1>2. Kept(m) BY <1>1, Keeping
<1>3. UNCHANGED <<row, missed, copied, listed>> BY <1>1 DEF deployment, ghost
<1>4. ASSUME NEW p \in m.registered
      PROVE  /\ p \notin m.owned /\ \A r \in RunsOf(p) : m.row[r] # "active"
             /\ p \in listed => ~Stale(m, p)
             /\ Has("late") \/ p \in listed
  <2>1. PICK g \in Rows : <<p, RowsAs(g, p)>> \in before /\ Settled(m, p, g) /\ Shown(m, p, g)
    BY <1>1 DEF Second
  <2>2. PICK x \in before : x = <<p, RowsAs(g, p)>> BY <2>1
  <2>3. PICK f \in Rows : x = <<x[1], RowsAs(f, x[1])>> /\ Later(f, m.row) BY DEF Pin, Reading
  <2>4. x[1] = p /\ RowsAs(f, p) = RowsAs(g, p) BY <2>2, <2>3
  <2>5. (\A r \in RunsOf(p) : m.row[r] # "active") /\ ~Worked(m, p, g)
    BY <2>1, <2>3, <2>4, Agreement
  <2>6. Has("late") \/ p \in listed BY <2>2, <2>4 DEF Pin, Known
  <2>7. QED BY <2>1, <2>5, <2>6 DEF Shown
<1>5. Agreed(m)' BY <1>1, <1>2, <1>3, <1>4 DEF Agreed, Kept, Has
<1>6. QED BY <1>1, <1>2, <1>5 DEF Kept, Second

LEMMA ComparePinned ==
  ASSUME TypeOK, Loops, NEW m \in Moments, Pin(m), Copies(m), Agreed(m), Compare, After',
         UNCHANGED <<deployment, ghost>>
  PROVE  (Pin(m) /\ Copies(m) /\ Second(m) /\ Agreed(m))'
<1>1. /\ step = "compare" /\ step' = "compare" /\ Turn \in todo /\ todo' = todo \ {Turn}
      /\ SameSources(Turn)
      /\ UNCHANGED <<round, listed, loaded, rows, before, sources, database, copied>>
  BY Turns DEF Compare, Refused, After, Going, Visited
<1>2. Kept(m) BY <1>1, Keeping
<1>3. UNCHANGED <<row, missed, copied, listed, part>> BY <1>1 DEF deployment, ghost
<1>4. Same(m, Turn)
  <2> DEFINE p == Turn
  <2>1. p \in listed /\ p \in Projects /\ Printed(p, m.part) /\ Ordered(m, p)
        /\ \A q \in Parts : copied[p][q] # None
    BY <1>1 DEF Loops, TypeOK, Pin, Copies
  <2>2. \A q \in Sources : sources[p][q] = part[p][q]
    BY <1>1 DEF SameSources, SourcesOf
  <2>3. ASSUME NEW q \in Sources
        PROVE  Has("reverted") \/ (copied[p][q] = m.part[p][q] /\ sources[p][q] = m.part[p][q])
    <3>1. /\ sources[p][q] \in Nat /\ part[p][q] \in Nat /\ m.part[p][q] \in Nat
          /\ copied[p][q] \in Nat
      BY <2>1, PartsOf, Constants DEF Printed, TypeOK, Moments
    <3>2. Has("reverted") \/ (/\ sources[p][q] <= m.part[p][q] /\ m.part[p][q] <= copied[p][q]
                              /\ copied[p][q] <= part[p][q])
      BY <2>1, PartsOf DEF Printed, Ordered
    <3>3. QED BY <2>2, <3>1, <3>2
  <2>4. QED BY <2>1, <2>3, PartsOf DEF Same, Printed
<1>5. ASSUME NEW p \in (listed' \ todo') PROVE Same(m, p)'
  <2>1. Same(m, p) BY <1>1, <1>4 DEF Agreed
  <2>2. QED BY <1>1, <1>3, <2>1 DEF Same, Has
<1>6. Agreed(m)' BY <1>1, <1>2, <1>3, <1>5 DEF Agreed, Kept, Has
<1>7. QED BY <1>1, <1>2, <1>6 DEF Kept, Second

\* The loop of the second round over the projects.
LEMMA QuietPinned ==
  ASSUME TypeOK, Loops, NEW m \in Moments, Pin(m), Copies(m), Second(m), After, After',
         QuietRuns \/ QuietRecords, UNCHANGED <<deployment, ghost>>
  PROVE  (Pin(m) /\ Copies(m) /\ Second(m) /\ Agreed(m))'
<1>1. /\ round = 2 /\ Turn \in todo /\ UNCHANGED row
      /\ UNCHANGED <<round, listed, loaded, rows, before, sources, database, copied>>
      /\ step' \in {"runs", "records"} /\ step \in {"runs", "records"}
  BY Turns DEF QuietRuns, QuietRecords, After, Going, Refused, Loops, deployment
<1>2. Kept(m) BY <1>1, Keeping
<1>3. PICK t \in Projects : t = Turn BY <1>1 DEF TypeOK
<1>4. CASE QuietRuns
  <2>1. step = "runs" /\ step' = "records" /\ UNCHANGED todo /\ ~Active(Turn) /\ Turn' = Turn
    BY <1>4 DEF QuietRuns, After, Going, Refused, Turn
  <2>2. Settled(m, t, row)
    <3>1. \A r \in RunsOf(t) : row[r] # "active" BY <2>1, <1>3 DEF Active, RunsOf
    <3>2. Later(m.row, row) /\ \A r \in Runs : m.row[r] \in States /\ row[r] \in States
      BY RowsTyped DEF Pin, Moments, Rows
    <3>3. QED BY <3>1, <3>2 DEF Settled, Later, RunsOf, States
  <2>3. QED BY <1>1, <1>2, <1>3, <2>1, <2>2 DEF Second, Kept, Agreed
<1>5. CASE QuietRecords
  <2>1. step = "records" /\ step' = "runs" /\ todo' = todo \ {t} /\ t \notin owned
    BY <1>3, <1>5 DEF QuietRecords, After, Going, Refused, Visited
  <2>2. Settled(m, t, row) BY <1>1, <1>3, <2>1 DEF Second
  <2>3. Shown(m, t, row) BY <2>1, Stales DEF Shown, Pin
  <2>4. QED BY <1>1, <1>2, <2>1, <2>2, <2>3 DEF Second, Kept, Agreed
<1>6. QED BY <1>4, <1>5

LEMMA ReadPinned ==
  ASSUME TypeOK, Loops, NEW m \in Moments, Pin(m), Copies(m), Second(m), After,
         Fingerprint \/ ReadRows, UNCHANGED <<deployment, ghost>>
  PROVE  (Pin(m) /\ Copies(m) /\ Second(m) /\ Agreed(m))'
<1>1. /\ round = 2 /\ UNCHANGED row
      /\ UNCHANGED <<round, listed, loaded, before, sources, database, copied>>
      /\ step' = "rows" /\ step \in {"runs", "rows"}
  BY DEF Fingerprint, ReadRows, After, Going, Loops, deployment
<1>2. Kept(m) BY <1>1, Keeping
<1>3. m.registered \subseteq registered BY DEF Pin
<1>4. CASE Fingerprint
  <2>1. step = "runs" /\ todo = {} /\ todo' = registered BY <1>4 DEF Fingerprint
  <2>2. QED BY <1>1, <1>2, <1>3, <2>1 DEF Second, Kept, Agreed
<1>5. CASE ReadRows
  <2>1. PICK t \in Projects : t = Turn BY <1>5, Turns DEF ReadRows, TypeOK
  <2>2. /\ rows' = rows \cup {<<t, RowsAs(row, t)>>} /\ todo' = todo \ {t} /\ step = "rows"
    BY <1>5, <2>1, RowsRead DEF ReadRows, Visited
  <2>3. PICK g \in Rows : g = row BY RowsTyped
  <2>4. ASSUME NEW p \in m.registered
        PROVE  /\ Settled(m, p, row') /\ Shown(m, p, row)'
               /\ p \in todo' \/ \E h \in Rows :
                    <<p, RowsAs(h, p)>> \in rows' /\ Settled(m, p, h) /\ Shown(m, p, h)'
    <3>1. Settled(m, p, row) /\ Shown(m, p, row) BY <1>1, <2>2 DEF Second
    <3>2. Settled(m, p, row') /\ Shown(m, p, row)' BY <1>2, <3>1 DEF Kept
    <3>3. CASE p = t
      <4>1. <<p, RowsAs(g, p)>> \in rows' BY <2>2, <2>3, <3>3
      <4>2. Settled(m, p, g) /\ Shown(m, p, g)' BY <1>2, <2>3, <3>1 DEF Kept
      <4>3. QED BY <3>2, <4>1, <4>2
    <3>4. CASE p # t
      <4>1. p \in todo \/ \E h \in Rows :
              <<p, RowsAs(h, p)>> \in rows /\ Settled(m, p, h) /\ Shown(m, p, h)
        BY <1>1, <2>2 DEF Second
      <4>2. QED BY <1>2, <2>2, <3>2, <3>4, <4>1 DEF Kept
    <3>5. QED BY <3>3, <3>4
  <2>5. QED BY <1>1, <1>2, <2>4 DEF Second, Kept, Agreed, Settled, RowsAs, RunsOf
<1>6. QED BY <1>4, <1>5

LEMMA OtherPinned ==
  ASSUME TypeOK, Loops, NEW m \in Moments, Pin(m), Copies(m), Agreed(m), After,
         Again \/ Quiescence \/ Publish, UNCHANGED <<deployment, ghost>>
  PROVE  (Pin(m) /\ Copies(m) /\ Second(m) /\ Agreed(m))'
<1>1. UNCHANGED <<listed, loaded, rows, before, sources, database, copied, row>>
      /\ (step = "copy" => todo = {})
  BY DEF Again, Quiescence, Publish, deployment
<1>2. Kept(m) BY <1>1, Keeping
<1>3. CASE Again BY <1>2, <1>3 DEF Again, Kept, Second, Agreed
<1>4. CASE Quiescence
  <2>1. step' = "runs" /\ todo' = registered /\ m.registered \subseteq registered
    BY <1>4 DEF Quiescence, Pin
  <2>2. QED BY <1>2, <2>1 DEF Kept, Second, Agreed
<1>5. CASE Publish
  <2>1. step = "compare" /\ step' = "published" /\ UNCHANGED <<todo, missed>>
    BY <1>5 DEF Publish, ghost
  <2>2. QED BY <1>1, <1>2, <2>1 DEF Kept, Second, Agreed, Same, Has
<1>6. QED BY <1>3, <1>4, <1>5

LEMMA CommandPinned ==
  ASSUME TypeOK, Loops, First, Printing, Pinned, Command, UNCHANGED <<deployment, ghost>>
  PROVE  Pinned'
<1> SUFFICES ASSUME After'
             PROVE  \E m \in moments' : (Pin(m) /\ Copies(m) /\ Second(m) /\ Agreed(m))'
  BY DEF Pinned
<1>1. CASE CopyDatabase BY <1>1, PinnedHere
<1>2. CASE ~CopyDatabase
  <2>1. After /\ (Copy \/ Again \/ Quiescence \/ QuietRuns \/ QuietRecords \/ Fingerprint
                  \/ ReadRows \/ Fingerprinted \/ Compare \/ Publish)
    BY <1>2 DEF Command, After, Going, Loops, List, Quiescence, QuietRuns, QuietRecords,
                Fingerprint, ReadRows, Fingerprinted, Load, PrintSources, Stage, Copy, Again,
                Compare, Publish, CallFails, Kill, Refused
  <2>2. PICK m \in moments : Pin(m) /\ Copies(m) /\ Second(m) /\ Agreed(m) BY <2>1 DEF Pinned
  <2>3. m \in Moments /\ m \in moments' BY <2>2 DEF Loops, ghost
  <2>4. (Pin(m) /\ Copies(m) /\ Second(m) /\ Agreed(m))'
    BY <2>1, <2>2, <2>3, CopyPinned, FingerprintedPinned, ComparePinned, QuietPinned, ReadPinned,
       OtherPinned
  <2>5. QED BY <2>3, <2>4
<1>3. QED BY <1>1, <1>2

LEMMA CommandQuiet ==
  ASSUME TypeOK, Loops, Quiet, RefusedForCause, Command, UNCHANGED <<deployment, ghost>>
  PROVE  Quiet' /\ RefusedForCause'
<1>1. /\ UNCHANGED <<registered, row, part, owned, events>>
      /\ \A p : RowsOf(p)' = RowsOf(p) /\ SourcesOf(p)' = SourcesOf(p)
      /\ Moment' = Moment /\ (Idle(Moment)' <=> Idle(Moment))
  BY DEF deployment, RowsOf, SourcesOf, Moment, Idle
<1>2. todo # {} => Turn \in todo BY Turns
<1>3. Moment.row = row /\ Moment.owned = owned BY DEF Moment
<1>4. events = 0 \/ events > 0 BY Counts
<1> SUFFICES ASSUME events = 0 PROVE Quiet' /\ RefusedForCause'
  BY <1>1, <1>4 DEF Quiet, RefusedForCause
<1> USE <1>1, <1>2 DEF Loops, Going, Quiet, RefusedForCause
<1>5. CASE List BY <1>5 DEF List, Refused
<1>6. CASE Quiescence BY <1>6 DEF Quiescence
<1>7. CASE QuietRuns BY <1>3, <1>7 DEF QuietRuns, Refused, Active, Idle
<1>8. CASE QuietRecords BY <1>3, <1>8 DEF QuietRecords, Refused, Idle
<1>9. CASE Fingerprint BY <1>9 DEF Fingerprint
<1>10. CASE ReadRows
  <2>1. PICK t \in registered : t = Turn BY <1>10 DEF ReadRows, TypeOK
  <2>2. /\ step = "rows" /\ todo' = todo \ {t} /\ rows' = rows \cup {<<t, RowsOf(t)>>}
        /\ t \in todo /\ UNCHANGED <<step, round, listed, before, sources>>
    BY <1>10, <2>1 DEF ReadRows, Visited
  <2>3. rows = {<<p, RowsOf(p)>> : p \in registered \ todo} BY <2>2
  <2>4. rows' = {<<p, RowsOf(p)>> : p \in registered \ todo'} BY <2>2, <2>3
  <2>5. QED BY <2>2, <2>4
<1>11. CASE Fingerprinted
  <2>1. step = "rows" /\ todo = {} /\ before' = rows /\ UNCHANGED <<round, listed, sources>>
    BY <1>11 DEF Fingerprinted
  <2>2. registered \ todo = registered BY <2>1
  <2>3. before' = {<<p, RowsOf(p)>> : p \in registered} BY <2>1, <2>2
  <2>4. round = 2 => ~Changed BY <2>1, <2>2, <2>3 DEF Changed
  <2>5. \/ round = 1 /\ step' = "load" /\ todo' = listed
        \/ round = 2 /\ step' = "compare"
    BY <1>11, <2>4 DEF Fingerprinted, TypeOK
  <2>6. QED BY <2>1, <2>3, <2>5
<1>12. CASE Load BY <1>12 DEF Load
<1>13. CASE PrintSources BY <1>13 DEF PrintSources, Visited, TypeOK
<1>14. CASE Stage BY <1>14 DEF Stage
<1>15. CASE CopyDatabase BY <1>15 DEF CopyDatabase
<1>16. CASE Copy BY <1>16 DEF Copy
<1>17. CASE Again BY <1>17 DEF Again
<1>18. CASE Compare BY <1>18 DEF Compare, Refused, SameSources, Visited
<1>19. CASE Publish BY <1>19 DEF Publish
<1>20. CASE CallFails BY <1>20 DEF CallFails
<1>21. CASE Kill BY <1>21 DEF Kill
<1>22. QED
  BY <1>5, <1>6, <1>7, <1>8, <1>9, <1>10, <1>11, <1>12, <1>13, <1>14, <1>15, <1>16, <1>17, <1>18,
     <1>19, <1>20, <1>21 DEF Command

-----------------------------------------------------------------------------
LEMMA Initial == Init => IInv
<1> SUFFICES ASSUME Init PROVE IInv OBVIOUS
<1>1. /\ row \in [Runs -> {"none", "active", "finished"}]
      /\ part = [p \in Projects |-> [q \in Parts |-> 0]] /\ 0 \in Versions
  BY Constants DEF Init, Versions
<1>2. part \in [Projects -> [Parts -> Versions]] /\ \A p \in Projects, q \in Parts : part[p][q] = 0
  BY <1>1
<1>3. copied \in [Projects -> [Parts -> Versions \cup {None}]] BY DEF Init, NoParts
<1>4. TypeOK
  <2>1. sources \in [Projects -> {None} \cup [Sources -> Versions]]
        /\ loaded \in [Projects -> Versions \cup {None}]
    BY DEF Init
  <2>2. events \in 0..MaxEvents /\ row \in [Runs -> {"none", "active", "finished"}]
    BY <1>1, Constants DEF Init
  <2>3. QED BY <1>2, <1>3, <2>1, <2>2 DEF Init, TypeOK, Over
<1>5. Loops BY <1>1, <1>2, <1>4 DEF Init, Loops, Moment, Moments, TypeOK, Rows, States
<1>6. First /\ Printing /\ Pinned /\ Quiet /\ RefusedForCause
  BY DEF Init, First, Printing, Pinned, After, Quiet, RefusedForCause
<1>7. QED BY <1>4, <1>5, <1>6 DEF IInv

LEMMA Inductive == IInv /\ [Next]_vars => IInv'
<1> SUFFICES ASSUME IInv, [Next]_vars PROVE IInv' OBVIOUS
<1> USE DEF IInv
<1>1. CASE Command /\ UNCHANGED <<deployment, ghost>>
  BY <1>1, CommandTyped, CommandFirst, CommandPrinting, CommandPinned, CommandQuiet
<1>2. CASE Others
  BY <1>2, OthersTyped, OthersFirst, OthersPrinting, OthersPinned, OthersQuiet
<1>3. CASE UNCHANGED vars
  <2>1. UNCHANGED <<registered, row, part, owned, events, step, round, todo, listed, loaded, rows,
                    before, sources, database, copied, staging, moments, missed>>
    BY <1>3 DEF vars, deployment, command, ghost
  <2>2. TypeOK' BY <2>1 DEF TypeOK, Over
  <2>3. Loops' BY <2>1 DEF Loops, Moment
  <2>4. First' BY <2>1 DEF First, Reading, Known, Has
  <2>5. Printing' BY <2>1 DEF Printing, Printed, Has, Going, Turn, NoParts
  <2>6. ASSUME NEW m, Pin(m), Copies(m), Second(m), Agreed(m)
        PROVE  (Pin(m) /\ Copies(m) /\ Second(m) /\ Agreed(m))'
    <3>1. Pin(m)' /\ Copies(m)'
      BY <2>1, <2>6 DEF Pin, Copies, Later, Reading, Known, Printed, Ordered, Worked, Has
    <3>2. Second(m)' BY <2>1, <2>6 DEF Second, Turn, Settled, Shown, Stale, Worked, Has
    <3>3. Agreed(m)' BY <2>1, <2>6 DEF Agreed, Same, Stale, Has
    <3>4. QED BY <3>1, <3>2, <3>3
  <2>7. Pinned' BY <2>1, <2>6 DEF Pinned, After, Going
  <2>8. Quiet' /\ RefusedForCause'
    BY <2>1 DEF Quiet, Going, RowsOf, SourcesOf, RefusedForCause, Idle, Moment
  <2>9. QED BY <2>2, <2>3, <2>4, <2>5, <2>7, <2>8
<1>4. QED BY <1>1, <1>2, <1>3 DEF Next

LEMMA Earned == IInv => Consistent
<1> SUFFICES ASSUME IInv, step = "published"
             PROVE  /\ \E m \in moments : Idle(m) /\ CopyOf(m)
                    /\ "late" \notin missed => database.registered = listed
  BY DEF Consistent
<1>1. /\ TypeOK /\ Loops /\ round = 2 /\ todo = {} BY DEF IInv, Loops
<1>2. PICK m \in moments : Pin(m) /\ Copies(m) /\ Agreed(m)
  BY <1>1 DEF IInv, Pinned, After, Going
<1>3. m \in Moments BY <1>1 DEF Loops
<1>4. Idle(m)
  <2>1. ASSUME NEW r \in Runs PROVE m.row[r] # "active"
    <3>1. CASE m.row[r] = "none" BY <3>1
    <3>2. CASE m.row[r] # "none"
      <4>1. ProjectOf[r] \in m.registered /\ r \in RunsOf(ProjectOf[r])
        BY <1>2, <3>2 DEF Pin, RunsOf
      <4>2. QED BY <1>2, <4>1 DEF Agreed
    <3>3. QED BY <3>1, <3>2
  <2>2. m.owned = {} BY <1>2 DEF Pin, Agreed
  <2>3. QED BY <2>1, <2>2 DEF Idle
<1>5. CopyOf(m)
  <2>1. ASSUME NEW p \in listed
        PROVE  /\ \A q \in Parts \ Exempt : copied[p][q] = m.part[p][q]
               /\ missed \cap {"reverted", "reread"} = {} => loaded[p] = m.part[p].config
    <3>1. Same(m, p) /\ ~Stale(m, p) BY <1>1, <1>2 DEF Agreed, Pin
    <3>2. QED BY <3>1, PartsOf DEF Same, Stale, Exempt, Has
  <2>2. QED BY <1>2, <2>1 DEF CopyOf, Pin
<1>6. "late" \notin missed => m.registered = listed BY <1>2 DEF Pin, Agreed, Has
<1>7. QED BY <1>2, <1>4, <1>5, <1>6 DEF Pin

\* The command keeps its places, its copies and its staging directory as TypeOK says: only a
\* kill leaves staged files behind (the finally of create_deployment_backup).
THEOREM BackupTyped == Spec => []TypeOK
<1>1. IInv => TypeOK BY DEF IInv
<1>2. QED BY <1>1, Initial, Inductive, PTL DEF Spec

\* What is published is one idle state of the deployment, but for what the two readings of
\* create_deployment_backup cannot tell, for any number of projects, runs and events.
THEOREM BackupConsistent == Spec => []Consistent
BY Initial, Inductive, Earned, PTL DEF Spec

\* A deployment that nobody uses and where nothing is unfinished is never refused: the two
\* fingerprints and the two readings of the sources differ only if somebody came between.
THEOREM BackupRefused == Spec => []RefusedForCause
<1>1. IInv => RefusedForCause BY DEF IInv
<1>2. QED BY <1>1, Initial, Inductive, PTL DEF Spec

=============================================================================
