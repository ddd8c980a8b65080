--------------------------- MODULE Restore_proof ---------------------------
(* The safety properties of Restore, for every number of targets, every layout *)
(* and any number of kills and changes.                                        *)
EXTENDS Restore, TLAPS

Visiting == {"check", "copy", "publish", "await", "confirm"}

Running == Visiting \cup {"mark", "write"}

\* A target that may be counted as restored: in use only beside a database.
Fine(k) == \/ target[k] \in {"exact", "touched"}
           \/ target[k] = "live" /\ target[Database] # "absent"

\* The command is where its step says; transactions are those of PostgreSQL.
Placed ==
  /\ pc \in Visiting => at \in 1 .. Count + 1
  /\ pc = "await" => Last(at) /\ layout.postgres
  /\ orphans > 0 => layout.postgres

\* What the command has passed is restored; a transaction was only begun when all is.
Behind ==
  /\ pc \in Running => \A i \in 1 .. Count + 1 : i < at => Fine(KeyAt(i))
  /\ pc \in {"mark", "write"} /\ at # 0 => Fine(KeyAt(at))
  /\ orphans > 0 => \A k \in Targets : Fine(k)

\* The journal says so, and is what the command has in memory.
Marked ==
  /\ (pc \in Visiting \/ (pc = "mark" /\ at # 0)) => journal = published
  /\ pc \in Running => \A i \in 1 .. Count + 1 : i < at => KeyAt(i) \in published
  /\ pc = "write" /\ at # 0 => KeyAt(at) \in published

Served == Last(at) /\ layout.postgres

\* What is about to be published is complete, and its place is free.
Ahead ==
  /\ pc \in {"copy", "publish"} /\ ~Served => target[KeyAt(at)] = "absent"
  /\ pc = "publish" /\ ~Served => stage[KeyAt(at)] \in {"exact", "touched"}

IInv == TypeOK /\ Placed /\ Behind /\ Marked /\ Ahead

-----------------------------------------------------------------------------
LEMMA Constants ==
  /\ Count \in Nat
  /\ Targets \subseteq Keys /\ Database \in Keys /\ Database \notin Targets
  /\ \A i \in 1 .. Count : Order[i] \in Targets
  /\ States \subseteq Keys
  /\ \A l \in Layouts : l.postgres \in BOOLEAN /\ l.wal \in BOOLEAN
BY RestoreConstants DEF Targets, Keys, Layout

\* The targets, in the order in which KeyAt enumerates them.
LEMMA Enumerated ==
  /\ \A i \in Nat : KeyAt(i) \in Keys
  /\ \A i \in 1 .. Count : KeyAt(i) = Order[i] /\ KeyAt(i) \in Targets /\ KeyAt(i) # Database
  /\ KeyAt(Count + 1) = Database
  /\ \A k \in Keys : \E i \in 1 .. Count + 1 : KeyAt(i) = k
<1>1. \A i \in 1 .. Count : KeyAt(i) = Order[i] /\ KeyAt(i) \in Targets /\ KeyAt(i) # Database
  BY Constants DEF KeyAt
<1>2. \A i \in Nat : i \notin 1 .. Count => KeyAt(i) = Database
  BY DEF KeyAt
<1>3. KeyAt(Count + 1) = Database
  BY Constants, <1>2
<1>4. ASSUME NEW k \in Keys PROVE \E i \in 1 .. Count + 1 : KeyAt(i) = k
  <2>1. CASE k = Database BY <2>1, <1>3, Constants
  <2>2. CASE k \in Targets
    <3>1. PICK i \in 1 .. Count : Order[i] = k BY <2>2 DEF Targets
    <3>2. QED BY <3>1, <1>1, Constants
  <2>3. QED BY <2>1, <2>2 DEF Keys
<1>5. QED BY <1>1, <1>2, <1>3, <1>4, Constants

\* Validation changes nothing but the side files.
LEMMA ValidatedSame ==
  ASSUME NEW k, NEW content
  PROVE  /\ Validated(k, content) \in {content, "touched"}
         /\ content # "exact" => Validated(k, content) = content
BY DEF Validated

\* At the last position, every target has been passed.
LEMMA AllBehind ==
  ASSUME Behind, pc \in Running, Last(at)
  PROVE  \A k \in Targets : Fine(k)
<1> SUFFICES ASSUME NEW k \in Targets PROVE Fine(k) OBVIOUS
<1>1. PICK i \in 1 .. Count + 1 : KeyAt(i) = k BY Enumerated, Constants
<1>2. i < at BY <1>1, Enumerated, Constants DEF Last
<1>3. Fine(KeyAt(i)) BY <1>2 DEF Behind
<1>4. QED BY <1>1, <1>3

LEMMA InitIInv == Init => IInv
<1> SUFFICES ASSUME Init PROVE IInv OBVIOUS
<1>1. target \in [Keys -> Contents] /\ stage \in [Keys -> {"absent", "partial", "exact", "touched"}]
  BY DEF Init, Contents
<1>2. TypeOK
  <2>1. at \in 0 .. Count + 1 /\ kills \in 0 .. MaxKills /\ changes \in 0 .. MaxChanges /\ orphans \in Nat
    BY Constants, RestoreConstants DEF Init
  <2>2. QED BY <1>1, <2>1 DEF Init, TypeOK
<1>3. QED BY <1>2 DEF Init, IInv, Placed, Behind, Marked, Ahead, Visiting, Running

-----------------------------------------------------------------------------
\* Steps of the command, each with the next value of the parts it disturbs.
LEMMA StepBegin == IInv /\ Begin => IInv'
<1> SUFFICES ASSUME IInv, Begin PROVE IInv' OBVIOUS
<1>1. TypeOK' BY Constants DEF IInv, TypeOK, Begin, Goes, disk, world
<1>2. QED BY <1>1 DEF IInv, Begin, Goes, disk, world, Placed, Behind, Marked, Ahead,
                     Visiting, Running, Fine

LEMMA StepCreate == IInv /\ Create => IInv'
<1> SUFFICES ASSUME IInv, Create PROVE IInv' OBVIOUS
<1>1. TypeOK' BY Constants DEF IInv, TypeOK, Create, disk, world
<1>2. QED BY <1>1, Constants DEF IInv, Create, disk, world, Placed, Behind, Marked, Ahead,
                     Visiting, Running, Fine, TypeOK

LEMMA StepResume == IInv /\ Resume => IInv'
<1> SUFFICES ASSUME IInv, Resume PROVE IInv' OBVIOUS
<1>1. TypeOK' BY Constants DEF IInv, TypeOK, Resume, disk, paper, world
<1>2. QED BY <1>1, Constants DEF IInv, Resume, disk, paper, world, Placed, Behind, Marked, Ahead,
                     Visiting, Running, Fine, TypeOK

LEMMA StepMark == IInv /\ Mark => IInv'
<1> SUFFICES ASSUME IInv, Mark PROVE IInv' OBVIOUS
<1> USE DEF IInv, Mark, Stop, Goes, disk, paper, world
<1>1. published' \subseteq Keys /\ tmp' \in BOOLEAN
  <2>1. KeyAt(at) \in Keys BY Enumerated, Constants DEF TypeOK
  <2>2. QED BY <2>1 DEF TypeOK
<1>2. TypeOK' BY <1>1 DEF TypeOK
<1>3. (Placed /\ Ahead)' BY DEF Placed, Ahead, Visiting
<1>4. Behind' BY DEF Behind, Running, Fine
<1>5. Marked' BY DEF Marked, Running, Visiting, TypeOK
<1>6. QED BY <1>2, <1>3, <1>4, <1>5

LEMMA StepWrite == IInv /\ Write => IInv'
<1> SUFFICES ASSUME IInv, Write PROVE IInv' OBVIOUS
<1> USE DEF IInv, Write, Advance, Last, disk, world
<1>1. TypeOK'
  <2>1. at' \in 0 .. Count + 1 BY Constants DEF TypeOK
  <2>2. journal' \in {None, Torn} \cup SUBSET Keys BY DEF TypeOK
  <2>3. QED BY <2>1, <2>2 DEF TypeOK
<1>2. (Placed /\ Ahead)' BY Constants DEF Placed, Ahead, Visiting, TypeOK, Served
<1>3. Behind'
  <2> SUFFICES ASSUME NEW i \in 1 .. Count + 1, i < at', pc' \in Running PROVE Fine(KeyAt(i))'
    BY DEF Behind, Fine
  <2>1. i < at \/ (i = at /\ at # 0) BY Constants DEF TypeOK, Running
  <2>2. QED BY <2>1 DEF Behind, Fine, Running
<1>4. Marked'
  <2> SUFFICES ASSUME NEW i \in 1 .. Count + 1, i < at', pc' \in Running
               PROVE KeyAt(i) \in published
    BY DEF Marked, Visiting, Running
  <2>1. i < at \/ (i = at /\ at # 0) BY Constants DEF TypeOK, Running
  <2>2. QED BY <2>1 DEF Marked, Running
<1>5. QED BY <1>1, <1>2, <1>3, <1>4

-----------------------------------------------------------------------------
\* Someone else's steps.
LEMMA StepKill == IInv /\ Kill => IInv'
<1> SUFFICES ASSUME IInv, Kill PROVE IInv' OBVIOUS
<1> USE DEF IInv, Kill, Goes, disk, paper
<1>1. TypeOK' BY RestoreConstants DEF TypeOK
<1>2. (Placed /\ Marked /\ Ahead)'
  BY DEF Placed, Marked, Ahead, Visiting, Running, Last, TypeOK
<1>3. pc = "await" => \A k \in Targets : Fine(k)
  BY AllBehind DEF Placed, Visiting, Running
<1>4. Behind' BY <1>3 DEF Behind, Visiting, Running, Fine, TypeOK
<1>5. QED BY <1>1, <1>2, <1>4

LEMMA StepCallFails == IInv /\ CallFails => IInv'
<1> SUFFICES ASSUME IInv, CallFails PROVE IInv' OBVIOUS
<1> USE DEF IInv, CallFails, Goes
<1>1. TypeOK' BY RestoreConstants, Constants DEF TypeOK
<1>2. (Placed /\ Marked /\ Ahead)'
  BY DEF Placed, Marked, Ahead, Visiting, Running, Last, TypeOK
<1>3. pc = "await" => \A k \in Targets : Fine(k)
  BY AllBehind DEF Placed, Visiting, Running
<1>4. Behind' BY <1>3 DEF Behind, Visiting, Running, Fine, TypeOK
<1>5. QED BY <1>1, <1>2, <1>4

\* A transaction fills the database, and makes nothing worse.
LEMMA StepOrphan == IInv /\ Orphan => IInv'
<1> SUFFICES ASSUME IInv, Orphan PROVE IInv' OBVIOUS
<1> USE DEF IInv, Orphan, paper, world
<1>1. /\ \A k \in Keys : k # Database => target'[k] = target[k]
      /\ target'[Database] \in {target[Database], "exact"}
      /\ target[Database] # "absent" => target' = target
  BY Constants DEF TypeOK
<1>2. TypeOK' BY Constants DEF TypeOK, Contents
<1>3. \A k \in Keys : Fine(k) => Fine(k)' BY <1>1, Constants DEF Fine
<1>4. Behind' BY <1>3, Enumerated, Constants DEF Behind, TypeOK
<1>5. Placed' BY DEF Placed, Last, TypeOK
<1>6. Marked' BY DEF Marked
<1>7. Ahead'
  <2>1. layout.postgres BY DEF Placed
  <2>2. CASE pc \in {"copy", "publish"} /\ ~Served
    <3>1. at \in 1 .. Count BY <2>1, <2>2, Constants DEF Placed, Visiting, Served, Last
    <3>2. QED BY <3>1, <1>1, Enumerated, Constants DEF Ahead, Served, Last
  <2>3. CASE ~(pc \in {"copy", "publish"} /\ ~Served) BY <2>3 DEF Ahead, Served, Last
  <2>4. QED BY <2>2, <2>3
<1>8. QED BY <1>2, <1>4, <1>5, <1>6, <1>7

\* Between two commands the targets are not looked at by anyone.
LEMMA StepQuietChange ==
  ASSUME NEW new \in [Keys -> Contents]
  PROVE  IInv /\ Quiet /\ Change(new) => IInv'
<1> SUFFICES ASSUME IInv, Quiet, Change(new) PROVE IInv' OBVIOUS
<1>1. TypeOK' BY RestoreConstants, Constants DEF IInv, TypeOK, Change, paper
<1>2. QED BY <1>1 DEF IInv, Change, Quiet, paper, Placed, Behind, Marked, Ahead, Visiting, Running

LEMMA StepLose == IInv /\ Lose => IInv'
<1> SUFFICES ASSUME IInv, Lose PROVE IInv' OBVIOUS
<1>1. PICK lost \in (SUBSET Keys) \ {{}} :
        Change([k \in Keys |-> IF k \in lost THEN "absent" ELSE target[k]])
  BY DEF Lose
<1>2. [k \in Keys |-> IF k \in lost THEN "absent" ELSE target[k]] \in [Keys -> Contents]
  BY DEF IInv, TypeOK, Contents
<1>3. QED BY <1>1, <1>2, StepQuietChange DEF Lose

LEMMA StepIntrude == IInv /\ Intrude => IInv'
<1> SUFFICES ASSUME IInv, Intrude PROVE IInv' OBVIOUS
<1>1. PICK k \in Keys :
        Change([j \in Keys |->
                 IF j = k \/ (k = Database /\ j = layout.within /\ target[j] = "absent")
                 THEN "foreign" ELSE target[j]])
  BY DEF Intrude
<1>2. [j \in Keys |-> IF j = k \/ (k = Database /\ j = layout.within /\ target[j] = "absent")
                      THEN "foreign" ELSE target[j]] \in [Keys -> Contents]
  BY DEF IInv, TypeOK, Contents
<1>3. QED BY <1>1, <1>2, StepQuietChange DEF Intrude

\* The service runs beside the command only once there is a database.
LEMMA StepUse == IInv /\ Use => IInv'
<1> SUFFICES ASSUME IInv, Use PROVE IInv' OBVIOUS
<1>1. PICK k \in Keys : target[k] \in {"exact", "touched"} /\ Change([target EXCEPT ![k] = "live"])
  BY DEF Use
<1> USE <1>1 DEF IInv, Use, Change, paper
<1>2. TypeOK' BY RestoreConstants, Constants DEF TypeOK, Contents
<1>3. \A j \in Keys : Fine(j) => Fine(j)' BY Constants DEF Fine, TypeOK
<1>4. Behind' BY <1>3, Enumerated, Constants DEF Behind, TypeOK
<1>5. Placed' BY DEF Placed, Last
<1>6. Marked' BY DEF Marked
<1>7. Ahead'
  <2>1. CASE pc \in {"copy", "publish"} /\ ~Served
    <3>1. target[KeyAt(at)] = "absent" BY <2>1 DEF Ahead
    <3>2. KeyAt(at) \in Keys /\ KeyAt(at) # k /\ KeyAt(at) # Database
      BY <3>1, Enumerated, Constants DEF TypeOK
    <3>3. target'[KeyAt(at)] = "absent" /\ stage'[KeyAt(at)] = stage[KeyAt(at)]
      BY <3>1, <3>2, Constants DEF TypeOK
    <3>4. QED BY <2>1, <3>3 DEF Ahead, Served, Last
  <2>2. CASE ~(pc \in {"copy", "publish"} /\ ~Served) BY <2>2 DEF Ahead, Served, Last
  <2>3. QED BY <2>1, <2>2
<1>8. QED BY <1>2, <1>4, <1>5, <1>6, <1>7

-----------------------------------------------------------------------------
\* The steps at one target.
LEMMA Visited ==
  ASSUME IInv, pc \in Visiting
  PROVE  /\ at \in 1 .. Count + 1 /\ KeyAt(at) \in Keys
         /\ KeyAt(at) = Database => Last(at)
         /\ \A i \in 1 .. Count + 1 : i < at => Fine(KeyAt(i)) /\ KeyAt(i) \in published
         /\ journal = published
BY Enumerated, Constants DEF IInv, Placed, Behind, Marked, Visiting, Running, Last

\* Validation in place leaves a restored target restored.
LEMMA ValidatedInPlace ==
  ASSUME IInv, NEW k \in Keys, Acceptable(k),
         target' = [target EXCEPT ![k] = Validated(k, target[k])]
  PROVE  /\ target' \in [Keys -> Contents]
         /\ Fine(k)'
         /\ \A j \in Keys : target'[j] \in {target[j], "touched"}
         /\ \A j \in Keys : target[j] = "absent" <=> target'[j] = "absent"
         /\ \A j \in Keys : Fine(j) => Fine(j)'
<1>1. target \in [Keys -> Contents] BY DEF IInv, TypeOK
<1>2. target[k] = "exact" \/ (k = Database /\ target[k] = "live") BY DEF Acceptable
<1>3. target'[k] \in {target[k], "touched"} /\ (target[k] = "live" => target'[k] = "live")
  BY <1>1, <1>2, ValidatedSame
<1>4. \A j \in Keys : j # k => target'[j] = target[j] BY <1>1
<1>5. \A j \in Keys : target'[j] \in {target[j], "touched"}
  BY <1>3, <1>4
<1>6. \A j \in Keys : target[j] = "absent" <=> target'[j] = "absent"
  BY <1>2, <1>3, <1>4
<1>7. target' \in [Keys -> Contents] BY <1>1, <1>5 DEF Contents
<1>8. \A j \in Keys : Fine(j) => Fine(j)'
  BY <1>5, <1>6, Constants DEF Fine
<1>9. Fine(k) BY <1>2 DEF Fine
<1>10. QED BY <1>5, <1>6, <1>7, <1>8, <1>9

LEMMA StepAdopt == IInv /\ Adopt(KeyAt(at)) => IInv'
<1> SUFFICES ASSUME IInv, Adopt(KeyAt(at)) PROVE IInv' OBVIOUS
<1>1. /\ at \in 1 .. Count + 1 /\ KeyAt(at) \in Keys
      /\ \A i \in 1 .. Count + 1 : i < at => Fine(KeyAt(i)) /\ KeyAt(i) \in published
      /\ journal = published
  BY Visited DEF Adopt, Visiting
<1> PICK k \in Keys : k = KeyAt(at) BY <1>1
<1>2. /\ target' \in [Keys -> Contents] /\ Fine(k)'
      /\ \A j \in Keys : Fine(j) => Fine(j)'
  <2>1. Acceptable(k) /\ target' = [target EXCEPT ![k] = Validated(k, target[k])] BY DEF Adopt
  <2>2. QED BY <1>1, <2>1, ValidatedInPlace
<1>3. \A i \in 1 .. Count + 1 : i < at => Fine(KeyAt(i))'
  BY <1>1, <1>2, Enumerated, Constants
<1>4. orphans > 0 => \A j \in Targets : Fine(j)'
  BY <1>2, Constants DEF IInv, Behind
<1>5. UNCHANGED <<layout, stage, journal, tmp, published, orphans, kills, changes, changed>>
  BY DEF Adopt, paper, world
<1>6. CASE k \in published
  <2>1. \/ pc' = "idle" /\ outcome' = "restored" /\ at' = at
        \/ pc' = "check" /\ at' = at + 1 /\ outcome' = outcome /\ ~Last(at)
    BY <1>6 DEF Adopt, Advance
  <2>2. TypeOK'
    <3>1. at' \in 0 .. Count + 1 BY <1>1, <2>1, Constants DEF Last
    <3>2. QED BY <1>2, <1>5, <2>1, <3>1 DEF IInv, TypeOK
  <2>3. (Placed /\ Ahead)'
    <3>1. at' \in 1 .. Count + 1 BY <1>1, <2>1, Constants DEF Last
    <3>2. QED BY <1>5, <2>1, <3>1 DEF IInv, Placed, Ahead, Visiting
  <2>4. \A i \in 1 .. Count + 1 : pc' # "idle" /\ i < at' => i < at \/ i = at
    BY <1>1, <2>1, Constants
  <2>5. Behind'
    <3>1. pc' # "idle" => \A i \in 1 .. Count + 1 : i < at' => Fine(KeyAt(i))'
      BY <1>2, <1>3, <2>4
    <3>2. pc' \in Running => \A i \in 1 .. Count + 1 : i < at' => Fine(KeyAt(i))'
      BY <3>1 DEF Running, Visiting
    <3>3. QED BY <1>4, <1>5, <2>1, <3>2 DEF Behind
  <2>6. Marked' BY <1>1, <1>5, <1>6, <2>1, <2>4 DEF Marked, Running, Visiting
  <2>7. QED BY <2>2, <2>3, <2>5, <2>6 DEF IInv
<1>7. CASE k \notin published
  <2>1. pc' = "mark" /\ at' = at /\ outcome' = outcome BY <1>7 DEF Adopt, Goes
  <2>2. TypeOK' BY <1>2, <1>5, <2>1 DEF IInv, TypeOK
  <2>3. (Placed /\ Ahead)' BY <1>5, <2>1 DEF IInv, Placed, Ahead, Visiting
  <2>4. Behind' BY <1>2, <1>3, <1>4, <1>5, <2>1 DEF Behind
  <2>5. Marked' BY <1>1, <1>5, <2>1 DEF Marked
  <2>6. QED BY <2>2, <2>3, <2>4, <2>5 DEF IInv
<1>8. QED BY <1>6, <1>7

\* Nothing is touched by a command that gives up.
LEMMA StepRefuse == IInv /\ Refuse(KeyAt(at)) => IInv'
BY DEF IInv, Refuse, Stop, Goes, disk, paper, world, TypeOK, Placed, Behind, Marked, Ahead,
       Visiting, Running, Fine

LEMMA StepStage == IInv /\ Stage(KeyAt(at)) => IInv'
<1> SUFFICES ASSUME IInv, Stage(KeyAt(at)) PROVE IInv' OBVIOUS
<1> USE DEF IInv, Stage, Goes, paper, world
<1>1. TypeOK' BY DEF TypeOK
<1>2. (Placed /\ Behind /\ Marked)' BY DEF Placed, Behind, Marked, Visiting, Running, Fine
<1>3. Ahead' BY DEF Ahead, Served, Last
<1>4. QED BY <1>1, <1>2, <1>3

LEMMA StepCopy == IInv /\ Copy(KeyAt(at)) => IInv'
<1> SUFFICES ASSUME IInv, Copy(KeyAt(at)) PROVE IInv' OBVIOUS
<1> USE DEF IInv, Copy, Goes, paper, world
<1>1. Validated(KeyAt(at), "exact") \in {"exact", "touched"} BY ValidatedSame
<1>2. TypeOK' BY <1>1 DEF TypeOK
<1>3. (Placed /\ Behind /\ Marked)' BY DEF Placed, Behind, Marked, Visiting, Running, Fine
<1>4. KeyAt(at) \in Keys BY Visited DEF Visiting
<1>5. Ahead' BY <1>1, <1>4 DEF Ahead, Served, Last, TypeOK
<1>6. QED BY <1>2, <1>3, <1>5

\* What is renamed or committed was absent, so that nothing behind it changes.
LEMMA Filled ==
  ASSUME IInv, NEW k \in Keys, target[k] = "absent", NEW content \in {"exact", "touched"},
         target' = [target EXCEPT ![k] = content]
  PROVE  /\ target' \in [Keys -> Contents]
         /\ \A j \in Keys : Fine(j) => Fine(j)'
BY Constants DEF IInv, TypeOK, Contents, Fine

LEMMA StepPublish == IInv /\ Publish(KeyAt(at)) => IInv'
<1> SUFFICES ASSUME IInv, Publish(KeyAt(at)) PROVE IInv' OBVIOUS
<1> DEFINE k == KeyAt(at)
<1>1. /\ at \in 1 .. Count + 1 /\ k \in Keys
      /\ (k = Database => Last(at))
  BY Visited DEF Publish, Visiting
<1>2. Last(at) => k = Database BY Enumerated DEF Last
<1>3. CASE k = Database /\ layout.postgres
  <2> USE <1>3 DEF IInv, Publish, Goes, disk, paper, world
  <2>1. TypeOK' BY DEF TypeOK
  <2>2. (Placed /\ Ahead)' BY <1>1 DEF Placed, Ahead, Visiting, Last
  <2>3. (Behind /\ Marked)' BY DEF Behind, Marked, Visiting, Running, Fine
  <2>4. QED BY <2>1, <2>2, <2>3
<1>4. CASE ~(k = Database /\ layout.postgres)
  <2> USE DEF IInv
  <2>1. ~Served BY <1>2, <1>4 DEF Served
  <2>2. target[k] = "absent" /\ stage[k] \in {"exact", "touched"}
    BY <2>1 DEF Ahead, Publish
  <2>3. target' = [target EXCEPT ![k] = stage[k]] BY <1>4 DEF Publish
  <2>4. target' \in [Keys -> Contents] /\ \A j \in Keys : Fine(j) => Fine(j)'
    BY <1>1, <2>2, <2>3, Filled
  <2>5. /\ UNCHANGED <<layout, journal, tmp, at, published, orphans, outcome, kills, changes, changed>>
        /\ stage' = [stage EXCEPT ![k] = "absent"] /\ pc = "publish" /\ pc' = "confirm"
    BY <1>4 DEF Publish, Goes, paper, world
  <2>6. TypeOK' BY <2>4, <2>5 DEF TypeOK
  <2>7. (Placed /\ Ahead)' BY <2>5 DEF Placed, Ahead, Visiting, Last
  <2>8. Behind' BY <2>4, <2>5, Enumerated, Constants DEF Behind, Running, Visiting
  <2>9. Marked' BY <2>5 DEF Marked, Visiting, Running
  <2>10. QED BY <2>6, <2>7, <2>8, <2>9
<1>5. QED BY <1>3, <1>4

LEMMA StepCommit == IInv /\ Commit(KeyAt(at)) => IInv'
<1> SUFFICES ASSUME IInv, Commit(KeyAt(at)) PROVE IInv' OBVIOUS
<1> DEFINE k == KeyAt(at)
<1> USE DEF IInv
<1>1. k \in Keys BY Visited DEF Commit, Visiting
<1>2. CASE target[k] # "absent" /\ Stop /\ UNCHANGED target
  <2> USE <1>2 DEF Commit, Stop, Goes, paper, world
  <2>1. TypeOK' BY DEF TypeOK
  <2>2. QED BY <2>1 DEF Placed, Behind, Marked, Ahead, Visiting, Running, Fine
<1>3. CASE /\ target[k] = "absent"
           /\ target' = [target EXCEPT ![k] = "exact"]
           /\ Goes("confirm")
           /\ UNCHANGED <<paper, published, orphans, outcome, world>>
  <2>1. target' \in [Keys -> Contents] /\ \A j \in Keys : Fine(j) => Fine(j)'
    BY <1>1, <1>3, Filled
  <2>2. /\ UNCHANGED <<layout, journal, tmp, at, published, orphans, outcome, kills, changes, changed>>
        /\ stage' = [stage EXCEPT ![k] = "absent"] /\ pc = "await" /\ pc' = "confirm"
    BY <1>3 DEF Commit, Goes, paper, world
  <2>3. TypeOK' BY <2>1, <2>2 DEF TypeOK
  <2>4. (Placed /\ Ahead)' BY <2>2 DEF Placed, Ahead, Visiting, Last
  <2>5. Behind' BY <2>1, <2>2, Enumerated, Constants DEF Behind, Running, Visiting
  <2>6. Marked' BY <2>2 DEF Marked, Visiting, Running
  <2>7. QED BY <2>3, <2>4, <2>5, <2>6
<1>4. QED BY <1>2, <1>3 DEF Commit

LEMMA StepConfirm == IInv /\ Confirm(KeyAt(at)) => IInv'
<1> SUFFICES ASSUME IInv, Confirm(KeyAt(at)) PROVE IInv' OBVIOUS
<1>1. PICK k \in Keys : k = KeyAt(at) BY Visited DEF Confirm, Visiting
<1> USE <1>1 DEF IInv
<1>2. CASE ~Acceptable(k)
  <2> USE <1>2 DEF Confirm, Stop, Goes, disk, paper, world
  <2>1. TypeOK' BY DEF TypeOK
  <2>2. QED BY <2>1 DEF Placed, Behind, Marked, Ahead, Visiting, Running, Fine
<1>3. CASE Acceptable(k)
  <2> HIDE DEF IInv
  <2>1. /\ target' \in [Keys -> Contents] /\ Fine(k)'
        /\ \A j \in Keys : Fine(j) => Fine(j)'
    <3>1. target' = [target EXCEPT ![k] = Validated(k, target[k])] BY <1>3 DEF Confirm
    <3>2. QED BY <1>1, <1>3, <3>1, ValidatedInPlace
  <2>2. /\ UNCHANGED <<layout, stage, journal, tmp, at, published, orphans, outcome, kills, changes, changed>>
        /\ pc = "confirm" /\ pc' = "mark"
    BY <1>3 DEF Confirm, Goes, paper, world
  <2> USE DEF IInv
  <2>3. TypeOK' BY <2>1, <2>2 DEF TypeOK
  <2>4. (Placed /\ Ahead)' BY <2>2 DEF Placed, Ahead, Visiting
  <2>5. Behind' BY <2>1, <2>2, Enumerated, Constants DEF Behind, Running, Visiting
  <2>6. Marked' BY <2>2 DEF Marked, Visiting, Running
  <2>7. QED BY <2>3, <2>4, <2>5, <2>6
<1>4. QED BY <1>2, <1>3

LEMMA StepEnsure == IInv /\ Ensure(KeyAt(at)) => IInv'
BY StepAdopt, StepRefuse, StepStage, StepCopy, StepPublish, StepCommit, StepConfirm DEF Ensure

LEMMA StepIInv == IInv /\ [Next]_vars => IInv'
<1>1. IInv /\ UNCHANGED vars => IInv'
  BY DEF vars, IInv, TypeOK, Placed, Behind, Marked, Ahead, Fine, Last, Served
<1>2. QED BY <1>1, StepBegin, StepCreate, StepResume, StepMark, StepWrite, StepEnsure, StepKill,
             StepCallFails, StepOrphan, StepLose, StepIntrude, StepUse DEF Next, Command

-----------------------------------------------------------------------------
\* Journal, stages and targets keep their types: in particular no
\* half-copied artifact is ever in its place.
THEOREM Typed == Spec => []TypeOK
<1>1. IInv => TypeOK BY DEF IInv
<1>2. QED BY InitIInv, StepIInv, <1>1, PTL DEF Spec

\* What a step does to the targets, other than a change by others: one that was absent
\* is filled, and is the database only when all others are restored; or the one that
\* was validated gets side files.
LEMMA Effects ==
  ASSUME IInv, [Next]_vars, changes' = changes
  PROVE  \/ UNCHANGED target
         \/ \A j \in Keys : /\ target'[j] \in {target[j], "touched"}
                            /\ target[j] = "absent" <=> target'[j] = "absent"
         \/ \E k \in Keys :
              /\ target[k] = "absent" /\ \A j \in Keys : j # k => target'[j] = target[j]
              /\ k = Database => \A j \in Targets : target[j] \in {"exact", "touched"}
<1> USE DEF IInv
<1>1. CASE \/ UNCHANGED vars \/ Begin \/ Create \/ Resume \/ Mark \/ Write \/ Kill \/ CallFails
           \/ Refuse(KeyAt(at)) \/ Stage(KeyAt(at)) \/ Copy(KeyAt(at))
  BY <1>1 DEF vars, Begin, Create, Resume, Mark, Write, Kill, CallFails, Refuse, Stage, Copy,
              Stop, disk
<1>2. CASE Adopt(KeyAt(at)) \/ Confirm(KeyAt(at))
  <2>1. PICK k \in Keys : k = KeyAt(at) BY <1>2, Visited DEF Adopt, Confirm, Visiting
  <2>2. CASE Acceptable(k)
    <3>1. target' = [target EXCEPT ![k] = Validated(k, target[k])]
      BY <1>2, <2>1, <2>2 DEF Adopt, Confirm
    <3>2. QED BY <2>2, <3>1, ValidatedInPlace
  <2>3. CASE ~Acceptable(k) BY <1>2, <2>1, <2>3 DEF Adopt, Confirm, disk
  <2>4. QED BY <2>2, <2>3
<1>3. CASE Publish(KeyAt(at)) \/ Commit(KeyAt(at))
  <2>1. PICK k \in Keys : k = KeyAt(at) BY <1>3, Visited DEF Publish, Commit, Visiting
  <2>2. pc \in {"publish", "await"} BY <1>3 DEF Publish, Commit
  <2>3. CASE UNCHANGED target BY <2>3
  <2>4. CASE target' # target
    <3>1. pc = "publish" => ~Served
      BY <1>3, <2>1, <2>4, Enumerated DEF Publish, Commit, Served, Last, disk
    <3>2. target[k] = "absent"
      BY <1>3, <2>1, <2>2, <2>4, <3>1 DEF Publish, Commit, Ahead
    <3>3. \A j \in Keys : j # k => target'[j] = target[j]
      BY <1>3, <2>1, <2>4 DEF Publish, Commit, TypeOK, disk
    <3>4. ASSUME k = Database PROVE \A j \in Targets : target[j] \in {"exact", "touched"}
      <4>1. Last(at) BY <2>1, <2>2, <3>4, Visited DEF Visiting
      <4>2. \A j \in Targets : Fine(j) BY <2>2, <4>1, AllBehind DEF Running, Visiting
      <4>3. QED BY <3>2, <3>4, <4>2 DEF Fine
    <3>5. QED BY <3>2, <3>3, <3>4
  <2>5. QED BY <2>3, <2>4
<1>4. CASE Orphan
  <2>1. CASE UNCHANGED target BY <2>1
  <2>2. CASE target' # target
    <3>1. target[Database] = "absent" /\ \A j \in Keys : j # Database => target'[j] = target[j]
      BY <1>4, <2>2, Constants DEF Orphan, TypeOK
    <3>2. \A j \in Targets : target[j] \in {"exact", "touched"}
      BY <1>4, <3>1 DEF Orphan, Behind, Fine
    <3>3. QED BY <3>1, <3>2, Constants
  <2>3. QED BY <2>1, <2>2
<1>5. CASE Lose \/ Intrude \/ Use
  <2>1. changes' = changes + 1 BY <1>5 DEF Lose, Intrude, Use, Change
  <2>2. QED BY <2>1, RestoreConstants DEF TypeOK
<1>6. QED BY <1>1, <1>2, <1>3, <1>4, <1>5 DEF Next, Command, Ensure

\* A change by others makes nothing exact that was absent.
LEMMA ChangesByOthers ==
  ASSUME IInv, Lose \/ Intrude \/ Use, target[Database] = "absent"
  PROVE  target'[Database] # "exact"
<1> USE Constants DEF IInv, TypeOK, Change
<1>1. CASE Lose BY <1>1 DEF Lose
<1>2. CASE Intrude BY <1>2 DEF Intrude
<1>3. CASE Use BY <1>3 DEF Use
<1>4. QED BY <1>1, <1>2, <1>3

\* The database appears only when everything else is restored, for every number of
\* targets, kill, failing call and transaction that outlives its client.
THEOREM Ordered == Spec => DatabaseLast
<1>1. ASSUME IInv, [Next]_vars, target[Database] = "absent", target'[Database] = "exact"
      PROVE  \A k \in Targets : target[k] \in {"exact", "touched"}
  <2>1. CASE changes' = changes
    BY <1>1, <2>1, Effects, Constants
  <2>2. CASE changes' # changes
    <3>1. Lose \/ Intrude \/ Use
      BY <1>1, <2>2 DEF Next, Command, Ensure, vars, world, Begin, Create, Resume, Mark, Write,
             Kill, CallFails, Orphan, Stop, Adopt, Refuse, Stage, Copy, Publish, Commit, Confirm
    <3>2. QED BY <1>1, <3>1, ChangesByOthers
  <2>3. QED BY <2>1, <2>2
<1>2. QED BY <1>1, InitIInv, StepIInv, PTL DEF Spec, DatabaseLast

\* What is at a target is adopted or refused, never replaced.
THEOREM Preserved == Spec => NeverOverwritten
<1>1. ASSUME IInv, [Next]_vars, changes' = changes
      PROVE  \A k \in Keys : target[k] # "absent" => target'[k] \in {target[k], "touched"}
  BY <1>1, Effects
<1>2. QED BY <1>1, InitIInv, StepIInv, PTL DEF Spec, NeverOverwritten

\* "Restored" is only said with a complete journal and every target in place.
THEOREM Honest == Spec => ReceiptHonest
<1>1. ASSUME IInv, [Next]_vars, outcome = "none", outcome' = "restored"
      PROVE  /\ journal' = Keys
             /\ \A k \in Keys : target'[k] \in {"exact", "touched", "live"}
  <2>1. Adopt(KeyAt(at)) \/ Write
    BY <1>1 DEF Next, Command, Ensure, vars, Begin, Create, Resume, Mark, Kill, CallFails, Orphan,
                Stop, Refuse, Stage, Copy, Publish, Commit, Confirm, Lose, Intrude, Use, Change
  <2>2. Last(at) /\ UNCHANGED at /\ journal' = published
    BY <1>1, <2>1 DEF Adopt, Write, Advance, paper, IInv, Marked, Visiting
  <2>3. IInv' BY <1>1, StepIInv
  <2>4. \A i \in 1 .. Count + 1 : Fine(KeyAt(i))' /\ KeyAt(i) \in published
    <3>1. CASE Write
      <4>1. /\ \A i \in 1 .. Count + 1 : i < at => Fine(KeyAt(i)) /\ KeyAt(i) \in published
            /\ Fine(KeyAt(at)) /\ KeyAt(at) \in published
        BY <1>1, <3>1, <2>2, Constants DEF Write, IInv, Behind, Marked, Running, Last
      <4>2. \A i \in 1 .. Count + 1 : i < at \/ i = at
        BY <2>2, Constants DEF Last
      <4>3. \A i \in 1 .. Count + 1 : Fine(KeyAt(i)) /\ KeyAt(i) \in published
        BY <4>1, <4>2
      <4>4. QED BY <3>1, <4>3 DEF Write, disk, Fine
    <3>2. CASE Adopt(KeyAt(at))
      <4>1. PICK k \in Keys : k = KeyAt(at) BY <1>1, <3>2, Visited DEF Adopt, Visiting
      <4>2. k \in published BY <1>1, <3>2, <4>1 DEF Adopt
      <4>3. Acceptable(k) /\ target' = [target EXCEPT ![k] = Validated(k, target[k])]
        BY <3>2, <4>1 DEF Adopt
      <4>4. Fine(k)' /\ \A j \in Keys : Fine(j) => Fine(j)'
        BY <1>1, <4>3, ValidatedInPlace
      <4>5. \A i \in 1 .. Count + 1 : i < at => Fine(KeyAt(i)) /\ KeyAt(i) \in published
        BY <1>1, <3>2, Visited DEF Adopt, Visiting
      <4>6. \A i \in 1 .. Count + 1 : i < at \/ i = at
        BY <2>2, Constants DEF Last
      <4>7. QED BY <4>1, <4>2, <4>4, <4>5, <4>6, Enumerated, Constants
    <3>3. QED BY <2>1, <3>1, <3>2
  <2>5. \A k \in Keys : Fine(k)' /\ k \in published
    BY <2>4, Enumerated
  <2>6. journal' = Keys BY <1>1, <2>2, <2>5 DEF IInv, TypeOK
  <2>7. QED BY <2>5, <2>6 DEF Fine
<1>2. QED BY <1>1, InitIInv, StepIInv, PTL DEF Spec, ReceiptHonest

=============================================================================
