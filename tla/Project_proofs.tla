--------------------------- MODULE Project_proofs ---------------------------
(***************************************************************************)
(* No temporary database is left behind by a refresh that ended, whatever  *)
(* the files, the edits, the crashes and the faults; provided the old      *)
(* database file can be removed when the new one takes its place. An index *)
(* that is there is lost by no step of a refresh and by no kill, but for   *)
(* the answer to keep a temporary database that was not set up. If files   *)
(* keep still while they are indexed and get no old text back, a refresh   *)
(* of the updated files that finds nothing to do has missed none, and a    *)
(* refresh that was not disturbed gives what indexing every file from      *)
(* nothing gives.                                                          *)
(***************************************************************************)
EXTENDS Project, FiniteSetTheorems, WellFoundedInduction, TLAPS

(* Between the two steps of the swap there is no database of the final     *)
(* name, and the stage tells which steps of the task are to come.          *)
SwapInv ==
    /\ task = "rename" => db = NoFile
    /\ task \in {"swapped", "discarded"} => temp = NoFile
    /\ task \notin {"none", "dialog"} => stage # "NONE"

StageInv ==
    /\ task = "dialog" => stage = "REFRESHING" /\ temp = NoFile
    /\ running /\ stage = "NONE" => task = "none" /\ temp = NoFile
    /\ ~running => task = "none"

LeftoverInv == SwapInv /\ StageInv

LEMMA LeftoverInit == Init => LeftoverInv
  BY DEF Init, LeftoverInv, SwapInv, StageInv

(* Each step of the lifecycle keeps the invariant.                         *)
LEMMA LeftoverStep ==
  ASSUME SwapMayFail = FALSE, LeftoverInv, [Next]_vars
  PROVE  LeftoverInv'
<1>. USE DEF LeftoverInv, SwapInv, StageInv, files, outside, work, counters
<1>1. ASSUME NEW f \in Files, Edit(f) \/ Touch(f) \/ Delete(f)
      PROVE  LeftoverInv'
  <2>1. PICK entry : Write(f, entry)
    BY <1>1 DEF Edit, Touch, Delete
  <2>. QED
    BY <2>1 DEF Write
<1>2. CASE Refresh
  BY <1>2 DEF Refresh
<1>3. ASSUME NEW mode, GetRefreshInfo(mode)
      PROVE  LeftoverInv'
  BY <1>3 DEF GetRefreshInfo
<1>4. CASE Cancel
  BY <1>4 DEF Cancel
<1>5. CASE BuildIndex
  <2>1. CASE NothingToRefresh
    BY <1>5, <2>1 DEF BuildIndex
  <2>2. CASE ~NothingToRefresh
    BY <1>5, <2>2 DEF BuildIndex
  <2>. QED
    BY <2>1, <2>2
<1>6. CASE SetUp
  BY <1>6 DEF SetUp
<1>7. CASE CleanStorage
  BY <1>7 DEF CleanStorage
<1>8. ASSUME NEW s \in Sources, IndexFile(s) \/ IndexerDies(s)
      PROVE  LeftoverInv'
  BY <1>8 DEF IndexFile, IndexerDies, Fault
<1>9. CASE Stop
  BY <1>9 DEF Stop, Fault
<1>10. CASE Inject
  BY <1>10 DEF Inject
<1>11. CASE FinishParsing
  BY <1>11 DEF FinishParsing
<1>12. CASE RemoveOld
  BY <1>12 DEF RemoveOld
<1>13. CASE Rename
  BY <1>13 DEF Rename
<1>14. CASE DiscardTempStorage
  BY <1>14 DEF DiscardTempStorage
<1>15. CASE EndRefresh
  BY <1>15 DEF EndRefresh
<1>16. CASE Throw
  BY <1>16 DEF Throw, Fault
<1>17. CASE Crash
  BY <1>17 DEF Crash
<1>18. CASE Load
  BY <1>18 DEF Load
<1>19. CASE UNCHANGED vars
  BY <1>19 DEF vars
<1>. QED
  BY <1>1, <1>2, <1>3, <1>4, <1>5, <1>6, <1>7, <1>8, <1>9, <1>10, <1>11, <1>12,
     <1>13, <1>14, <1>15, <1>16, <1>17, <1>18, <1>19 DEF Next

(* NoLeftover holds of every behaviour: a refresh that starts finds no     *)
(* temporary database (Project::buildIndex copies onto none).              *)
THEOREM NoLeftoverHolds ==
  ASSUME SwapMayFail = FALSE
  PROVE  Spec => []NoLeftover
<1>1. LeftoverInv /\ [Next]_vars => LeftoverInv'
  BY LeftoverStep
<1>2. LeftoverInv => NoLeftover
  BY DEF LeftoverInv, StageInv, NoLeftover
<1>. QED
  BY LeftoverInit, <1>1, <1>2, PTL DEF Spec

-----------------------------------------------------------------------------
(* What the two files may hold at each step.                               *)

States == {"EMPTY", "LOADED", "DB_CORRUPTED", "NOT_LOADED"}

Known(file) == file \in {NoFile, HalfCopied, Unversioned} \/ Usable(file)

TempInv ==
    /\ Known(temp)
    /\ task \in {"clean", "index", "swap", "rename"} => Usable(temp)
    /\ task = "setup" => temp = Unversioned \/ (temp = HalfCopied /\ Usable(db))

DbInv ==
    /\ Known(db)
    /\ running /\ task # "rename" => db # NoFile
    /\ running /\ task # "rename" /\ state = "LOADED" => Usable(db)

PlanInv ==
    /\ state \in States
    /\ task = "dialog" => state # "NOT_LOADED"
    /\ task = "dialog" /\ plan # NoPlan /\ plan.mode # "all" => state = "LOADED"

SurvivalInv == TempInv /\ DbInv /\ PlanInv

(* A database is no missing file, no cut copy and no empty file.           *)
LEMMA Kinds ==
  /\ ~Usable(NoFile) /\ ~Usable(HalfCopied) /\ ~Usable(Unversioned)
  /\ NoFile # HalfCopied /\ NoFile # Unversioned /\ HalfCopied # Unversioned
  /\ \A index : Usable(Database(index))
  BY DEF Usable, NoFile, HalfCopied, Unversioned, Database

(* When every file is to be indexed, the plan says so.                     *)
LEMMA FullMode == \A index, d : PlanFor("all", index, d).mode = "all"
  <1>. SUFFICES ASSUME NEW index, NEW d
                PROVE  PlanFor("all", index, d).mode = "all"
    OBVIOUS
  <1>1. PlanFor("all", index, d) = ForAllFiles(d)
    BY DEF PlanFor
  <1>. QED
    BY <1>1 DEF ForAllFiles

(* Setting up the temporary database makes an index of it.                 *)
LEMMA SetUpUsable ==
  ASSUME running, task = "setup", TempInv, SetUp
  PROVE  Usable(temp')
<1>1. CASE temp = HalfCopied
  <2>1. temp' = db
    BY <1>1, Kinds DEF SetUp
  <2>. QED
    BY <1>1, <2>1, Kinds DEF TempInv
<1>2. CASE temp = Unversioned
  <2>1. temp' = Database(EmptyIndex)
    BY <1>2, Kinds DEF SetUp
  <2>. QED
    BY <2>1, Kinds
<1>. QED
  BY <1>1, <1>2 DEF TempInv

(* What load makes of a database file that is there.                       *)
LEMMA LoadedState ==
  ASSUME NEW file, Known(file), file # NoFile, NEW s \in StateOf(file)
  PROVE  s \in States /\ (s = "LOADED" => Usable(file))
<1>1. CASE file = HalfCopied
  BY <1>1 DEF StateOf, States
<1>2. CASE file = Unversioned
  BY <1>2, Kinds DEF StateOf, States
<1>3. CASE Usable(file)
  <2>1. file # HalfCopied /\ file # Unversioned
    BY <1>3, Kinds
  <2>. QED
    BY <1>3, <2>1 DEF StateOf, States
<1>. QED
  BY <1>1, <1>2, <1>3 DEF Known

LEMMA SurvivalInit == Init => SurvivalInv
  BY Kinds DEF Init, SurvivalInv, TempInv, DbInv, PlanInv, States, Known

(* Each step of the lifecycle keeps what the files may hold.               *)
LEMMA SurvivalStep ==
  ASSUME SwapMayFail = FALSE, LeftoverInv, SurvivalInv, [Next]_vars
  PROVE  SurvivalInv'
<1>. USE DEF SurvivalInv, TempInv, DbInv, PlanInv, States, Known, files, outside, work,
             counters
<1>. USE Kinds
<1>1. ASSUME NEW f \in Files, Edit(f) \/ Touch(f) \/ Delete(f)
      PROVE  SurvivalInv'
  <2>1. PICK entry : Write(f, entry)
    BY <1>1 DEF Edit, Touch, Delete
  <2>. QED
    BY <2>1 DEF Write, Usable
<1>2. ASSUME NEW mode, GetRefreshInfo(mode)
      PROVE  SurvivalInv'
  <2>1. UNCHANGED <<files, running, state, task>>
    BY <1>2 DEF GetRefreshInfo
  <2>2. mode = "all" \/ state = "LOADED"
    BY <1>2 DEF GetRefreshInfo, NeedsFullRefresh
  <2>3. mode = "all" => plan'.mode = "all"
    BY <1>2, FullMode DEF GetRefreshInfo
  <2>. QED
    BY <2>1, <2>2, <2>3 DEF Usable
<1>3. ASSUME NEW s \in Sources, IndexFile(s) \/ IndexerDies(s)
      PROVE  SurvivalInv'
  BY <1>3 DEF IndexFile, IndexerDies, Fault, Usable
<1>4. CASE Refresh
  BY <1>4 DEF Refresh, LeftoverInv, StageInv, SwapInv, Usable
<1>5. CASE Cancel
  BY <1>5 DEF Cancel, Usable
<1>6. CASE BuildIndex
  <2>1. temp = NoFile
    BY <1>6 DEF BuildIndex, LeftoverInv, StageInv
  <2>2. CASE NothingToRefresh
    BY <1>6, <2>2 DEF BuildIndex, Usable
  <2>3. CASE ~NothingToRefresh
    <3>1. temp' = IF plan.mode = "all" THEN Unversioned ELSE HalfCopied
      BY <1>6, <2>1, <2>3 DEF BuildIndex
    <3>2. UNCHANGED <<db, running, state, plan>> /\ task = "dialog" /\ task' = "setup"
          /\ running /\ plan # NoPlan
      BY <1>6, <2>3 DEF BuildIndex
    <3>3. plan.mode # "all" => Usable(db)
      BY <3>2
    <3>. QED
      BY <2>1, <3>1, <3>2, <3>3 DEF Usable
  <2>. QED
    BY <2>2, <2>3
<1>7. CASE SetUp
  <2>1. Usable(temp')
    BY <1>7, SetUpUsable DEF SetUp
  <2>2. UNCHANGED <<db, running, state, plan>> /\ task = "setup" /\ task' = "clean" /\ running
    BY <1>7 DEF SetUp
  <2>. QED
    BY <2>1, <2>2 DEF Usable
<1>8. CASE CleanStorage
  <2>1. Usable(temp')
    BY <1>8 DEF CleanStorage
  <2>2. UNCHANGED <<db, running, state, plan>> /\ task = "clean" /\ task' = "index"
    BY <1>8 DEF CleanStorage
  <2>. QED
    BY <2>1, <2>2 DEF Usable
<1>9. CASE Stop
  BY <1>9 DEF Stop, Fault, Usable
<1>10. CASE Inject
  <2>1. Usable(temp')
    BY <1>10 DEF Inject
  <2>2. UNCHANGED <<db, running, state, plan, task>> /\ task = "index"
    BY <1>10 DEF Inject
  <2>. QED
    BY <2>1, <2>2 DEF Usable
<1>11. CASE FinishParsing
  BY <1>11 DEF FinishParsing, Usable
<1>12. CASE RemoveOld
  BY <1>12 DEF RemoveOld, LeftoverInv, SwapInv, Usable
<1>13. CASE Rename
  BY <1>13 DEF Rename, LeftoverInv, SwapInv, Usable
<1>14. CASE DiscardTempStorage
  BY <1>14 DEF DiscardTempStorage, Usable
<1>15. CASE EndRefresh
  BY <1>15 DEF EndRefresh, Usable
<1>16. CASE Throw
  BY <1>16 DEF Throw, Fault, Usable
<1>17. CASE Crash
  BY <1>17 DEF Crash, Usable
<1>18. CASE Load
  <2>1. task = "none" /\ task' = task /\ running'
    BY <1>18 DEF Load, LeftoverInv, StageInv
  <2>2. temp' = NoFile /\ state' \in StateOf(db')
    BY <1>18 DEF Load
  <2>3. db' \in {db, temp, Unversioned} /\ db' # NoFile
    BY <1>18 DEF Load
  <2>4. Known(db')
    BY <2>3
  <2>5. state' \in States /\ (state' = "LOADED" => Usable(db'))
    BY <2>2, <2>3, <2>4, LoadedState
  <2>. QED
    BY <2>1, <2>2, <2>3, <2>4, <2>5
<1>19. CASE UNCHANGED vars
  BY <1>19 DEF vars, Usable
<1>. QED
  BY <1>1, <1>2, <1>3, <1>4, <1>5, <1>6, <1>7, <1>8, <1>9, <1>10, <1>11, <1>12, <1>13, <1>14, <1>15, <1>16, <1>17, <1>18, <1>19 DEF Next

(* The only step that loses an index is the start at which the user keeps  *)
(* a temporary database that was not set up.                               *)
LEMMA SafeStep ==
  ASSUME LeftoverInv, SurvivalInv, [Next]_vars, Safe
  PROVE  Safe' \/ (~running /\ temp # NoFile /\ ~Usable(temp) /\ db' = temp)
<1>. USE DEF SurvivalInv, TempInv, DbInv, files, Safe, Usable
<1>1. ASSUME NEW f \in Files, Edit(f) \/ Touch(f) \/ Delete(f)
      PROVE  Safe'
  <2>1. PICK entry : Write(f, entry)
    BY <1>1 DEF Edit, Touch, Delete
  <2>. QED
    BY <2>1 DEF Write
<1>2. ASSUME NEW mode, GetRefreshInfo(mode)
      PROVE  Safe'
  BY <1>2 DEF GetRefreshInfo
<1>3. ASSUME NEW s \in Sources, IndexFile(s) \/ IndexerDies(s)
      PROVE  Safe'
  BY <1>3 DEF IndexFile, IndexerDies
<1>4. CASE BuildIndex \/ SetUp \/ CleanStorage \/ Inject \/ DiscardTempStorage
  <2>1. db' = db /\ running /\ task # "rename"
    BY <1>4 DEF BuildIndex, SetUp, CleanStorage, Inject, DiscardTempStorage
  <2>. QED
    BY <2>1
<1>5. CASE Refresh \/ Cancel \/ Stop \/ FinishParsing \/ EndRefresh \/ Throw \/ Crash
  BY <1>5 DEF Refresh, Cancel, Stop, FinishParsing, EndRefresh, Throw, Crash
<1>6. CASE RemoveOld
  <2>1. db' \in {NoFile, db} /\ temp' = temp /\ Usable(temp)
    BY <1>6 DEF RemoveOld
  <2>. QED
    BY <2>1
<1>7. CASE Rename
  BY <1>7 DEF Rename, LeftoverInv, SwapInv
<1>8. CASE Load
  <2>1. ~running /\ db' \in IF temp = NoFile THEN {IF db = NoFile THEN Unversioned ELSE db}
                            ELSE IF db = NoFile THEN {temp} ELSE {temp, db}
    BY <1>8 DEF Load
  <2>2. ~Usable(NoFile)
    BY Kinds
  <2>. QED
    BY <2>1, <2>2
<1>9. CASE UNCHANGED vars
  BY <1>9 DEF vars
<1>. QED
  BY <1>1, <1>2, <1>3, <1>4, <1>5, <1>6, <1>7, <1>8, <1>9 DEF Next

(* IndexSurvives holds of every behaviour: no step of a refresh, and no    *)
(* kill in whatever step, the set-up and the swap included, loses an index *)
(* (Project::buildIndex, swapToTempStorageFile, load), but for the answer  *)
(* "Keep and Continue" about a temporary database that was not set up.     *)
THEOREM IndexSurvivesHolds ==
  ASSUME SwapMayFail = FALSE
  PROVE  Spec => IndexSurvives
<1>. DEFINE Inv == LeftoverInv /\ SurvivalInv
            Step == Safe => \/ Safe'
                            \/ ~running /\ temp # NoFile /\ ~Usable(temp) /\ db' = temp
<1>1. Init => Inv
  BY LeftoverInit, SurvivalInit
<1>2. Inv /\ [Next]_vars => Inv'
  BY LeftoverStep, SurvivalStep
<1>3. Inv /\ [Next]_vars => [Step]_vars
  BY SafeStep
<1>4. IndexSurvives <=> [][Step]_vars
  BY DEF IndexSurvives
<1>. HIDE DEF Inv, Step
<1>. QED
  BY <1>1, <1>2, <1>3, <1>4, PTL DEF Spec

-----------------------------------------------------------------------------
(* What a refresh of the updated files relies on: the time and the text of *)
(* a row are older than the next change of its file, and as long as a file *)
(* does not differ from its row, what was found in it is still in it.      *)

Contents == {Absent} \cup [id : Nat, includes : SUBSET Files]

Before(content, time) == content = Absent \/ content.id < time

GoodDisk(d, time) ==
    /\ time \in Nat
    /\ d \in [Files -> [stamp : Int, content : Contents]]
    /\ \A f \in Files : d[f].stamp < time /\ Before(d[f].content, time)

GoodRow(row, time) ==
    /\ row \in [stamp : Int, content : Contents, indexed : BOOLEAN, complete : BOOLEAN]
    /\ row.stamp < time /\ Before(row.content, time)

GoodFact(index, d, a) ==
    /\ a.file \in Rows(index) /\ index.rows[a.file].indexed
    /\ \/ index.rows[a.file].stamp = NotADateTime
       \/ a.file \in Unchanged(index, d) => d[a.file].content = a.content

IsIndex(index) ==
    index = [rows |-> index.rows, edges |-> index.edges, facts |-> index.facts,
             errors |-> index.errors]

GoodIndex(index, d, time) ==
    /\ IsIndex(index)
    /\ Rows(index) \subseteq Files
    /\ \A f \in Rows(index) : GoodRow(index.rows[f], time)
    /\ \A a \in index.facts : GoodFact(index, d, a)

GoodStorage(d, p) ==
    /\ p.crashed \in BOOLEAN
    /\ p.crashed => p.source \in Files
    /\ ~p.crashed => /\ p.storage.files \subseteq Files
                     /\ \A a \in p.storage.facts : /\ a.file \in p.storage.files
                                                   /\ a.content = d[a.file].content

FilesInv ==
    /\ GoodDisk(disk, clock)
    /\ Usable(db) => GoodIndex(db.index, disk, clock)
    /\ Usable(temp) => GoodIndex(temp.index, disk, clock)

ParsedInv ==
    /\ parsed # {} => task = "index"
    /\ \A p \in parsed : GoodStorage(disk, p)

PlannedInv ==
    task = "dialog" /\ plan # NoPlan /\ quiet /\ plan.mode = "updated"
        => plan = ForUpdatedFiles(db.index, disk)

MissedInv == FilesInv /\ ParsedInv /\ PlannedInv

-----------------------------------------------------------------------------
(* A text that is written now is none of the texts from before.            *)
LEMMA NewContent ==
  ASSUME NEW time \in Nat, NEW content, Before(content, time),
         NEW new \in [id : Nat, includes : SUBSET Files], new.id = time
  PROVE  new # content
<1>1. new # Absent
  BY RefreshAssumption
<1>2. content # Absent => new # content
  BY DEF Before
<1>. QED
  BY <1>1, <1>2

(* What a change leaves on disk: a new text with a new time, the same text *)
(* with a new time, or nothing.                                            *)
NewEntry(d, time, f, entry) ==
    /\ entry \in [stamp : Int, content : Contents]
    /\ \/ /\ entry.stamp = time /\ entry.content.id = time
          /\ entry.content \in [id : Nat, includes : SUBSET Files]
       \/ entry.stamp = time /\ entry.content = d[f].content
       \/ entry.stamp = NotADateTime /\ entry.content = Absent

LEMMA WriteKeepsDisk ==
  ASSUME NEW d, NEW time, GoodDisk(d, time), NEW f \in Files, NEW entry,
         NewEntry(d, time, f, entry)
  PROVE  GoodDisk([d EXCEPT ![f] = entry], time + 1)
<1>. DEFINE e == [d EXCEPT ![f] = entry]
<1>1. time \in Nat /\ d \in [Files -> [stamp : Int, content : Contents]]
      /\ entry \in [stamp : Int, content : Contents]
  BY DEF GoodDisk, NewEntry
<1>2. e \in [Files -> [stamp : Int, content : Contents]]
  BY <1>1
<1>3. \A content \in Contents : Before(content, time) => Before(content, time + 1)
  BY <1>1 DEF Before, Contents
<1>4. entry.stamp < time + 1
  BY <1>1 DEF NewEntry, NotADateTime
<1>5. Before(entry.content, time + 1)
  <2>1. CASE entry.content.id = time /\ entry.content \in [id : Nat, includes : SUBSET Files]
    BY <1>1, <2>1 DEF Before
  <2>2. CASE entry.content = d[f].content
    BY <1>1, <1>3, <2>2 DEF GoodDisk
  <2>3. CASE entry.content = Absent
    BY <2>3 DEF Before
  <2>. QED
    BY <2>1, <2>2, <2>3 DEF NewEntry
<1>6. ASSUME NEW g \in Files
      PROVE  e[g].stamp < time + 1 /\ Before(e[g].content, time + 1)
  <2>1. CASE g = f
    BY <1>1, <1>4, <1>5, <2>1
  <2>2. CASE g # f
    <3>1. e[g] = d[g]
      BY <1>1, <2>2
    <3>. QED
      BY <1>1, <1>3, <3>1 DEF GoodDisk
  <2>. QED
    BY <2>1, <2>2
<1>7. time + 1 \in Nat
  BY <1>1
<1>. QED
  BY <1>2, <1>6, <1>7 DEF GoodDisk

(* After a change on disk, a file that does not differ from its row is one *)
(* that did not before, and its text is the same.                          *)
LEMMA WriteKeepsUnchanged ==
  ASSUME NEW d, NEW time, GoodDisk(d, time), NEW f \in Files, NEW entry,
         NewEntry(d, time, f, entry), NEW index, NEW g \in Rows(index), g \in Files,
         GoodRow(index.rows[g], time), index.rows[g].stamp # NotADateTime,
         g \in Unchanged(index, [d EXCEPT ![f] = entry])
  PROVE  g \in Unchanged(index, d) /\ [d EXCEPT ![f] = entry][g].content = d[g].content
<1>. DEFINE e == [d EXCEPT ![f] = entry]
            row == index.rows[g]
<1>1. time \in Nat /\ d \in [Files -> [stamp : Int, content : Contents]]
  BY DEF GoodDisk
<1>2. Exists(e, g) /\ row.indexed /\ ~DidFileChange(index, e, g)
  BY DEF Unchanged
<1>3. CASE g # f
  <2>1. e[g] = d[g]
    BY <1>1, <1>3
  <2>. QED
    BY <1>2, <2>1 DEF Unchanged, Exists, DidFileChange
<1>4. CASE g = f
  <2>1. e[g] = entry
    BY <1>1, <1>4
  <2>2. entry.content # Absent
    BY <1>2, <2>1 DEF Exists
  <2>3. entry.stamp = time
    BY <2>2 DEF NewEntry
  <2>4. Later(entry.stamp, row.stamp)
    BY <1>1, <2>3 DEF Later, GoodRow, NotADateTime
  <2>5. entry.content = row.content
    BY <1>2, <2>1, <2>4 DEF DidFileChange
  <2>6. entry.content = d[f].content
    <3>1. ~ (entry.content.id = time /\ entry.content \in [id : Nat, includes : SUBSET Files])
      BY <1>1, <2>5, NewContent DEF GoodRow
    <3>. QED
      BY <2>2, <3>1 DEF NewEntry
  <2>. QED
    BY <1>2, <1>4, <2>1, <2>2, <2>5, <2>6 DEF Unchanged, Exists, DidFileChange
<1>. QED
  BY <1>3, <1>4

LEMMA WriteKeepsIndex ==
  ASSUME NEW d, NEW time, GoodDisk(d, time), NEW f \in Files, NEW entry,
         NewEntry(d, time, f, entry), NEW index, GoodIndex(index, d, time)
  PROVE  GoodIndex(index, [d EXCEPT ![f] = entry], time + 1)
<1>. DEFINE e == [d EXCEPT ![f] = entry]
<1>1. time \in Nat
  BY DEF GoodDisk
<1>2. ASSUME NEW g \in Rows(index)
      PROVE  GoodRow(index.rows[g], time + 1)
  <2>1. GoodRow(index.rows[g], time)
    BY DEF GoodIndex
  <2>. QED
    BY <1>1, <2>1 DEF GoodRow, Before, Contents
<1>3. ASSUME NEW a \in index.facts
      PROVE  GoodFact(index, e, a)
  <2>1. GoodFact(index, d, a) /\ a.file \in Rows(index) /\ a.file \in Files
        /\ GoodRow(index.rows[a.file], time)
    BY DEF GoodIndex, GoodFact
  <2>2. ASSUME index.rows[a.file].stamp # NotADateTime, a.file \in Unchanged(index, e)
        PROVE  e[a.file].content = a.content
    <3>1. a.file \in Unchanged(index, d) /\ e[a.file].content = d[a.file].content
      BY <2>1, <2>2, WriteKeepsUnchanged
    <3>. QED
      BY <2>1, <2>2, <3>1 DEF GoodFact
  <2>. QED
    BY <2>1, <2>2 DEF GoodFact
<1>. QED
  BY <1>2, <1>3 DEF GoodIndex

-----------------------------------------------------------------------------
(* What a refresh does to the temporary index.                             *)

LEMMA EmptyGood ==
  ASSUME NEW d, NEW time
  PROVE  GoodIndex(EmptyIndex, d, time)
<1>1. IsIndex(EmptyIndex)
  BY DEF IsIndex, EmptyIndex
<1>2. Rows(EmptyIndex) = {} /\ EmptyIndex.facts = {}
  BY DEF EmptyIndex, Rows
<1>. QED
  BY <1>1, <1>2 DEF GoodIndex

(* Clearing leaves facts only of rows that it leaves.                      *)
LEMMA ClearKeepsIndex ==
  ASSUME NEW index, NEW d, NEW time, NEW X, GoodIndex(index, d, time)
  PROVE  GoodIndex(Clear(index, X), d, time)
<1>. DEFINE new == Clear(index, X)
<1>1. Rows(new) = Rows(index) \ X /\ \A f \in Rows(new) : new.rows[f] = index.rows[f]
  BY DEF Clear, Rows
<1>2. new.facts \subseteq index.facts /\ \A a \in new.facts : a.file \notin X
  BY DEF Clear
<1>3. ASSUME NEW a \in new.facts
      PROVE  GoodFact(new, d, a)
  <2>1. GoodFact(index, d, a)
    BY <1>2 DEF GoodIndex
  <2>2. a.file \in Rows(new)
    BY <1>1, <1>2, <2>1 DEF GoodFact
  <2>3. a.file \in Unchanged(new, d) => a.file \in Unchanged(index, d)
    BY <1>1, <2>2 DEF Unchanged, DidFileChange
  <2>. QED
    BY <1>1, <2>1, <2>2, <2>3 DEF GoodFact
<1>4. IsIndex(new)
  BY DEF IsIndex, Clear
<1>. QED
  BY <1>1, <1>3, <1>4 DEF GoodIndex

(* The storage of a source file says of its files what they now hold.      *)
LEMMA ParseGood ==
  ASSUME NEW d, NEW s \in Sources
  PROVE  GoodStorage(d, [crashed |-> FALSE, storage |-> Parse(d, s)])
<1>1. Parse(d, s).files \subseteq Files
  BY DEF Parse
<1>2. \A a \in Parse(d, s).facts : a.file \in Parse(d, s).files /\ a.content = d[a.file].content
  BY DEF Parse
<1>. QED
  BY <1>1, <1>2 DEF GoodStorage

(* A row that an injection writes has the time and text it had, or those   *)
(* of the file.                                                            *)
LEMMA RowGood ==
  ASSUME NEW index, NEW d, NEW time, NEW storage, NEW f \in Files,
         GoodDisk(d, time), f \in Rows(index) => GoodRow(index.rows[f], time)
  PROVE  /\ GoodRow(Row(index, d, storage, f), time)
         /\ Row(index, d, storage, f).indexed
         /\ f \in Rows(index) => /\ Row(index, d, storage, f).stamp = index.rows[f].stamp
                                 /\ Row(index, d, storage, f).content = index.rows[f].content
<1>1. CASE f \notin Rows(index)
  <2>1. time \in Nat /\ d[f].stamp \in Int /\ d[f].content \in Contents
        /\ d[f].stamp < time /\ Before(d[f].content, time)
    BY DEF GoodDisk
  <2>. QED
    BY <1>1, <2>1 DEF Row, GoodRow, NotADateTime
<1>2. CASE f \in Rows(index)
  <2>1. GoodRow(index.rows[f], time)
    BY <1>2
  <2>. DEFINE complete == storage.errors = {}
              done == IF (f \in index.errors) = complete THEN index.rows[f].complete ELSE complete
  <2>2. done \in BOOLEAN
    BY <2>1 DEF GoodRow
  <2>3. Row(index, d, storage, f)
            = [index.rows[f] EXCEPT !.indexed = TRUE, !.complete = done]
    BY <1>2 DEF Row
  <2>. QED
    BY <1>2, <2>1, <2>2, <2>3 DEF GoodRow
<1>. QED
  BY <1>1, <1>2

(* Injecting what was just read keeps the index good.                      *)
LEMMA InjectKeepsIndex ==
  ASSUME NEW index, NEW d, NEW time, NEW p, GoodDisk(d, time), GoodIndex(index, d, time),
         GoodStorage(d, p), ~p.crashed
  PROVE  GoodIndex(InjectInto(index, d, p.storage), d, time)
<1>. DEFINE storage == p.storage
            new == InjectInto(index, d, storage)
<1>1. Rows(new) = Rows(index) \cup storage.files
  BY DEF InjectInto, Rows
<1>2. \A f \in Rows(new) : new.rows[f] = IF f \in storage.files THEN Row(index, d, storage, f)
                                         ELSE index.rows[f]
  BY <1>1 DEF InjectInto, Rows
<1>3. new.facts = index.facts \cup storage.facts
  BY DEF InjectInto
<1>4. Rows(new) \subseteq Files
  BY <1>1 DEF GoodIndex, GoodStorage
<1>5. ASSUME NEW f \in Rows(new)
      PROVE  /\ GoodRow(new.rows[f], time)
             /\ f \in storage.files => new.rows[f].indexed
             /\ f \in Rows(index) => /\ new.rows[f].stamp = index.rows[f].stamp
                                     /\ new.rows[f].content = index.rows[f].content
                                     /\ index.rows[f].indexed => new.rows[f].indexed
  <2>1. f \in Files /\ (f \in Rows(index) => GoodRow(index.rows[f], time))
    BY <1>4 DEF GoodIndex
  <2>2. CASE f \in storage.files
    BY <1>2, <2>1, <2>2, RowGood
  <2>3. CASE f \notin storage.files
    BY <1>1, <1>2, <2>1, <2>3
  <2>. QED
    BY <2>2, <2>3
<1>6. ASSUME NEW a \in index.facts
      PROVE  GoodFact(new, d, a)
  <2>1. GoodFact(index, d, a)
    BY DEF GoodIndex
  <2>2. a.file \in Rows(index) /\ a.file \in Rows(new) /\ index.rows[a.file].indexed
    BY <1>1, <2>1 DEF GoodFact
  <2>3. a.file \in Unchanged(new, d) => a.file \in Unchanged(index, d)
    BY <1>5, <2>2 DEF Unchanged, DidFileChange
  <2>. QED
    BY <1>5, <2>1, <2>2, <2>3 DEF GoodFact
<1>7. ASSUME NEW a \in storage.facts
      PROVE  GoodFact(new, d, a)
  BY <1>1, <1>5 DEF GoodStorage, GoodFact
<1>8. IsIndex(new)
  BY DEF IsIndex, InjectInto
<1>. QED
  BY <1>3, <1>4, <1>5, <1>6, <1>7, <1>8 DEF GoodIndex

(* The row of a process that died: of a row that was there only the        *)
(* completeness changes.                                                   *)
LEMMA CrashRows ==
  ASSUME NEW index, NEW d, NEW time, NEW s \in Files, GoodDisk(d, time),
         GoodIndex(index, d, time)
  PROVE  LET new == InjectCrash(index, d, s)
         IN  /\ IsIndex(new)
             /\ Rows(new) = Rows(index) \cup {s}
             /\ new.edges = index.edges /\ new.facts = index.facts
             /\ new.errors = index.errors \cup {s}
             /\ \A f \in Rows(new) : GoodRow(new.rows[f], time)
             /\ \A f \in Rows(index) :
                    /\ new.rows[f].stamp = index.rows[f].stamp
                    /\ new.rows[f].content = index.rows[f].content
                    /\ new.rows[f].indexed = index.rows[f].indexed
                    /\ index.rows[f].complete => new.rows[f].complete
             /\ s \notin Rows(index) => ~new.rows[s].indexed /\ new.rows[s].stamp = d[s].stamp
<1>. DEFINE kept == [index.rows[s] EXCEPT !.complete = @ \/ s \notin index.errors]
            made == [stamp |-> d[s].stamp, content |-> Absent, indexed |-> FALSE,
                     complete |-> TRUE]
            row == IF s \in Rows(index) THEN kept ELSE made
            rows == [f \in Rows(index) \cup {s} |-> IF f = s THEN row ELSE index.rows[f]]
            new == InjectCrash(index, d, s)
<1>1. new = [index EXCEPT !.rows = rows, !.errors = @ \cup {s}]
  BY DEF InjectCrash
<1>2. /\ new.rows = rows /\ new.facts = index.facts /\ new.edges = index.edges
      /\ new.errors = index.errors \cup {s} /\ IsIndex(new)
  BY <1>1 DEF GoodIndex, IsIndex
<1>. HIDE DEF new
<1>3. /\ Rows(new) = Rows(index) \cup {s} /\ new.rows[s] = row
      /\ \A f \in Rows(index) : f # s => new.rows[f] = index.rows[f]
  BY <1>2 DEF Rows
<1>4. CASE s \in Rows(index)
  <2>1. row = kept /\ GoodRow(index.rows[s], time)
    BY <1>4 DEF GoodIndex
  <2>2. /\ kept.stamp = index.rows[s].stamp /\ kept.content = index.rows[s].content
        /\ kept.indexed = index.rows[s].indexed
        /\ index.rows[s].complete => kept.complete
        /\ GoodRow(kept, time)
    BY <2>1 DEF GoodRow
  <2>. HIDE DEF kept, row
  <2>3. \A f \in Rows(new) : GoodRow(new.rows[f], time)
    BY <1>3, <1>4, <2>1, <2>2 DEF GoodIndex
  <2>. QED
    BY <1>2, <1>3, <1>4, <2>1, <2>2, <2>3 DEF new
<1>5. CASE s \notin Rows(index)
  <2>1. row = made
    BY <1>5
  <2>2. GoodRow(made, time) /\ ~made.indexed /\ made.stamp = d[s].stamp
    BY DEF GoodDisk, GoodRow, Contents, Before
  <2>. HIDE DEF made, row
  <2>3. \A f \in Rows(new) : GoodRow(new.rows[f], time)
    BY <1>3, <1>5, <2>1, <2>2 DEF GoodIndex
  <2>. QED
    BY <1>2, <1>3, <1>5, <2>1, <2>2, <2>3 DEF new
<1>. QED
  BY <1>4, <1>5

(* It has no facts, and takes none away.                                   *)
LEMMA CrashKeepsIndex ==
  ASSUME NEW index, NEW d, NEW time, NEW s \in Files, GoodDisk(d, time),
         GoodIndex(index, d, time)
  PROVE  GoodIndex(InjectCrash(index, d, s), d, time)
<1>. DEFINE new == InjectCrash(index, d, s)
<1>1. /\ IsIndex(new) /\ Rows(new) = Rows(index) \cup {s} /\ new.facts = index.facts
      /\ \A f \in Rows(new) : GoodRow(new.rows[f], time)
      /\ \A f \in Rows(index) : /\ new.rows[f].stamp = index.rows[f].stamp
                                /\ new.rows[f].content = index.rows[f].content
                                /\ new.rows[f].indexed = index.rows[f].indexed
  BY CrashRows
<1>. HIDE DEF new
<1>2. ASSUME NEW a \in index.facts
      PROVE  GoodFact(new, d, a)
  <2>1. GoodFact(index, d, a)
    BY DEF GoodIndex
  <2>2. a.file \in Rows(index) /\ a.file \in Rows(new)
    BY <1>1, <2>1 DEF GoodFact
  <2>3. a.file \in Unchanged(new, d) => a.file \in Unchanged(index, d)
    BY <1>1, <2>2 DEF Unchanged, DidFileChange
  <2>. QED
    BY <1>1, <2>1, <2>2, <2>3 DEF GoodFact
<1>3. GoodIndex(new, d, time)
  BY <1>1, <1>2 DEF GoodIndex
<1>. QED
  BY <1>3 DEF new

-----------------------------------------------------------------------------
(* The invariant, step by step.                                            *)

LEMMA MissedInit == Init => MissedInv
<1>. SUFFICES ASSUME Init
              PROVE  MissedInv
  OBVIOUS
<1>1. GoodDisk(disk, clock)
  <2>1. disk \in [Files -> [stamp : {0}, content : [id : {0}, includes : SUBSET Files]]]
        /\ clock = 1
    BY DEF Init
  <2>2. ASSUME NEW f \in Files
        PROVE  /\ disk[f] \in [stamp : Int, content : Contents]
               /\ disk[f].stamp < clock /\ Before(disk[f].content, clock)
    <3>1. disk[f] \in [stamp : {0}, content : [id : {0}, includes : SUBSET Files]]
      BY <2>1
    <3>. QED
      BY <2>1, <3>1 DEF Contents, Before
  <2>. QED
    BY <2>1, <2>2 DEF GoodDisk
<1>2. db = Unversioned /\ temp = NoFile /\ parsed = {} /\ task = "none"
  BY DEF Init
<1>. QED
  BY <1>1, <1>2, Kinds DEF MissedInv, FilesInv, ParsedInv, PlannedInv

(* What changes on disk is one of the entries of WriteKeepsDisk.           *)
LEMMA ChangeIsWrite ==
  ASSUME Restores = FALSE, GoodDisk(disk, clock), NEW f \in Files,
         Edit(f) \/ Touch(f) \/ Delete(f)
  PROVE  \E entry : Write(f, entry) /\ NewEntry(disk, clock, f, entry)
<1>0. clock \in Nat /\ disk[f] \in [stamp : Int, content : Contents]
  BY DEF GoodDisk
<1>1. CASE Edit(f)
  <2>1. PICK includes \in MayInclude[f], id \in {clock} :
            Write(f, [stamp |-> clock, content |-> [id |-> id, includes |-> includes]])
    BY <1>1 DEF Edit
  <2>2. includes \in SUBSET Files
    BY RefreshAssumption
  <2>. QED
    BY <1>0, <2>1, <2>2 DEF NewEntry, Contents
<1>2. CASE Touch(f)
  <2>1. Write(f, [stamp |-> clock, content |-> disk[f].content])
    BY <1>2 DEF Touch
  <2>2. NewEntry(disk, clock, f, [stamp |-> clock, content |-> disk[f].content])
    BY <1>0 DEF NewEntry
  <2>. QED
    BY <2>1, <2>2
<1>3. CASE Delete(f)
  <2>1. Write(f, [stamp |-> NotADateTime, content |-> Absent])
    BY <1>3 DEF Delete
  <2>2. NewEntry(disk, clock, f, [stamp |-> NotADateTime, content |-> Absent])
    BY DEF NewEntry, Contents, NotADateTime
  <2>. QED
    BY <2>1, <2>2
<1>. QED
  BY <1>1, <1>2, <1>3

(* A plan says what it was made for.                                       *)
LEMMA PlanMode ==
  ASSUME NEW mode \in {"all", "updated", "incomplete"}, NEW index, NEW d,
         PlanFor(mode, index, d).mode = "updated"
  PROVE  PlanFor(mode, index, d) = ForUpdatedFiles(index, d)
<1>1. CASE mode = "all"
  <2>1. PlanFor(mode, index, d) = ForAllFiles(d)
    BY <1>1 DEF PlanFor
  <2>. QED
    BY <2>1 DEF ForAllFiles
<1>2. CASE mode = "updated"
  BY <1>2 DEF PlanFor
<1>3. CASE mode = "incomplete"
  <2>1. PlanFor(mode, index, d) = ForIncompleteFiles(index, d)
    BY <1>3 DEF PlanFor
  <2>. QED
    BY <2>1 DEF ForIncompleteFiles
<1>. QED
  BY <1>1, <1>2, <1>3

(* The steps that leave the disk and the two files alone.                  *)
LEMMA FilesKept ==
  ASSUME FilesInv, UNCHANGED <<disk, clock, db, temp>>
  PROVE  FilesInv'
  BY DEF FilesInv, Usable, GoodIndex, GoodFact, GoodDisk, Unchanged, DidFileChange, Exists

LEMMA MissedStep ==
  ASSUME Restores = FALSE, EditsWhileIndexing = FALSE, LeftoverInv, SurvivalInv, MissedInv,
         [Next]_vars
  PROVE  MissedInv'
<1>. USE DEF MissedInv, files, outside, work, counters
<1>1. ASSUME NEW f \in Files, Edit(f) \/ Touch(f) \/ Delete(f)
      PROVE  MissedInv'
  <2>1. PICK entry : Write(f, entry) /\ NewEntry(disk, clock, f, entry)
    BY <1>1, ChangeIsWrite DEF FilesInv
  <2>2. /\ disk' = [disk EXCEPT ![f] = entry] /\ clock' = clock + 1
        /\ UNCHANGED <<db, temp, task, plan, parsed>> /\ quiet' = FALSE /\ task # "index"
    BY <2>1 DEF Write, MayEdit
  <2>3. GoodDisk(disk', clock')
    BY <2>1, <2>2, WriteKeepsDisk DEF FilesInv
  <2>4. Usable(db) => GoodIndex(db.index, disk', clock')
    BY <2>1, <2>2, WriteKeepsIndex DEF FilesInv
  <2>5. Usable(temp) => GoodIndex(temp.index, disk', clock')
    BY <2>1, <2>2, WriteKeepsIndex DEF FilesInv
  <2>6. FilesInv'
    BY <2>2, <2>3, <2>4, <2>5 DEF FilesInv, Usable
  <2>. QED
    BY <2>2, <2>6 DEF ParsedInv, PlannedInv
<1>2. ASSUME NEW mode \in {"all", "updated", "incomplete"}, GetRefreshInfo(mode)
      PROVE  MissedInv'
  <2>1. UNCHANGED <<disk, clock, db, temp, task, parsed>>
        /\ plan' = PlanFor(mode, db.index, disk)
    BY <1>2 DEF GetRefreshInfo
  <2>2. PlannedInv'
    BY <2>1, PlanMode DEF PlannedInv
  <2>. QED
    BY <2>1, <2>2, FilesKept DEF ParsedInv
<1>3. ASSUME NEW s \in Sources, IndexFile(s)
      PROVE  MissedInv'
  <2>1. UNCHANGED <<disk, clock, db, temp, task>> /\ task = "index"
    BY <1>3 DEF IndexFile
  <2>2. \A p \in parsed' : GoodStorage(disk, p)
    BY <1>3, ParseGood DEF IndexFile, ParsedInv
  <2>. QED
    BY <2>1, <2>2, FilesKept DEF ParsedInv, PlannedInv
<1>4. ASSUME NEW s \in Sources, IndexerDies(s)
      PROVE  MissedInv'
  <2>1. UNCHANGED <<disk, clock, db, temp, task>> /\ task = "index"
    BY <1>4 DEF IndexerDies
  <2>2. GoodStorage(disk, [crashed |-> TRUE, source |-> s])
    BY RefreshAssumption DEF GoodStorage
  <2>3. \A p \in parsed' : GoodStorage(disk, p)
    BY <1>4, <2>2 DEF IndexerDies, ParsedInv
  <2>. QED
    BY <2>1, <2>3, FilesKept DEF ParsedInv, PlannedInv
<1>5. CASE Refresh
  <2>1. UNCHANGED <<disk, clock, db, temp, parsed>> /\ parsed = {} /\ plan' = NoPlan
    BY <1>5 DEF Refresh, LeftoverInv, SwapInv, ParsedInv
  <2>. QED
    BY <2>1, FilesKept DEF ParsedInv, PlannedInv
<1>6. CASE Cancel
  <2>1. UNCHANGED <<disk, clock, db, temp, parsed>> /\ parsed = {} /\ task' = "none"
    BY <1>6 DEF Cancel, ParsedInv
  <2>. QED
    BY <2>1, FilesKept DEF ParsedInv, PlannedInv
<1>7. CASE BuildIndex
  <2>1. UNCHANGED <<disk, clock, db>> /\ task' \in {"none", "setup"} /\ temp = NoFile
    BY <1>7 DEF BuildIndex, LeftoverInv, StageInv
  <2>2. parsed' = {}
    BY <1>7 DEF BuildIndex, ParsedInv
  <2>3. temp' \in {NoFile, Unversioned, HalfCopied}
    BY <1>7, <2>1 DEF BuildIndex
  <2>4. FilesInv'
    BY <2>1, <2>3, Kinds DEF FilesInv, Usable
  <2>. QED
    BY <2>1, <2>2, <2>4 DEF ParsedInv, PlannedInv
<1>8. CASE SetUp
  <2>1. UNCHANGED <<disk, clock, db, parsed>> /\ parsed = {} /\ task' = "clean"
    BY <1>8 DEF SetUp, ParsedInv
  <2>2. Usable(temp') => GoodIndex(temp'.index, disk, clock)
    <3>1. CASE temp = HalfCopied
      <4>1. temp' = db
        BY <1>8, <3>1, Kinds DEF SetUp
      <4>. QED
        BY <4>1 DEF FilesInv, Usable
    <3>2. CASE temp # HalfCopied /\ temp = Unversioned
      <4>1. temp' = Database(EmptyIndex)
        BY <1>8, <3>2 DEF SetUp
      <4>. QED
        BY <4>1, EmptyGood DEF Database
    <3>3. CASE temp # HalfCopied /\ temp # Unversioned
      <4>1. temp' = temp
        BY <1>8, <3>3 DEF SetUp
      <4>. QED
        BY <4>1 DEF FilesInv, Usable
    <3>. QED
      BY <3>1, <3>2, <3>3
  <2>3. FilesInv'
    BY <2>1, <2>2 DEF FilesInv, Usable
  <2>. QED
    BY <2>1, <2>3 DEF ParsedInv, PlannedInv
<1>9. CASE CleanStorage
  <2>1. UNCHANGED <<disk, clock, db, parsed>> /\ parsed = {} /\ task' = "index" /\ Usable(temp)
    BY <1>9 DEF CleanStorage, ParsedInv, SurvivalInv, TempInv
  <2>2. GoodIndex(temp'.index, disk, clock)
    <3>1. GoodIndex(temp.index, disk, clock)
      BY <2>1 DEF FilesInv
    <3>2. temp' = IF plan.toClear = {} THEN temp ELSE Database(Clear(temp.index, plan.toClear))
      BY <1>9 DEF CleanStorage
    <3>3. Database(Clear(temp.index, plan.toClear)).index = Clear(temp.index, plan.toClear)
      BY DEF Database
    <3>4. GoodIndex(Clear(temp.index, plan.toClear), disk, clock)
      BY <3>1, ClearKeepsIndex
    <3>. QED
      BY <3>1, <3>2, <3>3, <3>4
  <2>3. FilesInv'
    BY <2>1, <2>2 DEF FilesInv, Usable
  <2>. QED
    BY <2>1, <2>3 DEF ParsedInv, PlannedInv
<1>10. CASE Stop
  <2>1. UNCHANGED <<disk, clock, db, temp, task>> /\ task = "index" /\ parsed' \subseteq parsed
    BY <1>10 DEF Stop
  <2>. QED
    BY <2>1, FilesKept DEF ParsedInv, PlannedInv
<1>11. CASE Inject
  <2>1. PICK p \in parsed :
            /\ parsed' = parsed \ {p}
            /\ temp' = Database(IF p.crashed THEN InjectCrash(temp.index, disk, p.source)
                                ELSE InjectInto(temp.index, disk, p.storage))
    BY <1>11 DEF Inject
  <2>2. UNCHANGED <<disk, clock, db, task>> /\ task = "index"
    BY <1>11 DEF Inject
  <2>3. GoodIndex(temp.index, disk, clock) /\ GoodStorage(disk, p) /\ GoodDisk(disk, clock)
    BY <2>2 DEF SurvivalInv, TempInv, FilesInv, ParsedInv
  <2>4. GoodIndex(temp'.index, disk, clock)
    <3>1. CASE p.crashed
      <4>1. GoodIndex(InjectCrash(temp.index, disk, p.source), disk, clock)
        BY <2>3, <3>1, CrashKeepsIndex DEF GoodStorage
      <4>. QED
        BY <2>1, <3>1, <4>1 DEF Database
    <3>2. CASE ~p.crashed
      <4>1. GoodIndex(InjectInto(temp.index, disk, p.storage), disk, clock)
        BY <2>3, <3>2, InjectKeepsIndex
      <4>. QED
        BY <2>1, <3>2, <4>1 DEF Database
    <3>. QED
      BY <3>1, <3>2
  <2>5. FilesInv'
    BY <2>2, <2>4 DEF FilesInv, Usable
  <2>. QED
    BY <2>1, <2>2, <2>5 DEF ParsedInv, PlannedInv
<1>12. CASE FinishParsing
  <2>1. UNCHANGED <<disk, clock, db, temp, parsed>> /\ parsed = {} /\ task' # "dialog"
    BY <1>12 DEF FinishParsing
  <2>. QED
    BY <2>1, FilesKept DEF ParsedInv, PlannedInv
<1>13. CASE RemoveOld \/ Rename \/ DiscardTempStorage
  <2>1. UNCHANGED <<disk, clock, parsed>> /\ parsed = {} /\ task' # "dialog"
    BY <1>13 DEF RemoveOld, Rename, DiscardTempStorage, ParsedInv
  <2>2. db' \in {db, NoFile, temp} /\ temp' \in {temp, NoFile}
    BY <1>13 DEF RemoveOld, Rename, DiscardTempStorage
  <2>3. FilesInv'
    BY <2>1, <2>2, Kinds DEF FilesInv, Usable
  <2>. QED
    BY <2>1, <2>3 DEF ParsedInv, PlannedInv
<1>14. CASE EndRefresh
  <2>1. UNCHANGED <<disk, clock, db, temp, parsed>> /\ parsed = {} /\ task' = "none"
    BY <1>14 DEF EndRefresh, ParsedInv
  <2>. QED
    BY <2>1, FilesKept DEF ParsedInv, PlannedInv
<1>15. CASE Throw \/ Crash
  <2>1. UNCHANGED <<disk, clock, db, temp>> /\ parsed' = {} /\ task' = "none"
    BY <1>15 DEF Throw, Crash
  <2>. QED
    BY <2>1, FilesKept DEF ParsedInv, PlannedInv
<1>16. CASE Load
  <2>1. UNCHANGED <<disk, clock, parsed, task>> /\ task = "none"
    BY <1>16 DEF Load, LeftoverInv, StageInv
  <2>2. db' \in {db, Unversioned, temp} /\ temp' = NoFile
    BY <1>16 DEF Load
  <2>3. FilesInv'
    BY <2>1, <2>2, Kinds DEF FilesInv, Usable
  <2>. QED
    BY <2>1, <2>3 DEF ParsedInv, PlannedInv
<1>17. CASE UNCHANGED vars
  <2>1. UNCHANGED <<disk, clock, db, temp, task, plan, quiet, parsed>>
    BY <1>17 DEF vars
  <2>. QED
    BY <2>1, FilesKept DEF ParsedInv, PlannedInv
<1>. QED
  BY <1>1, <1>2, <1>3, <1>4, <1>5, <1>6, <1>7, <1>8, <1>9, <1>10, <1>11, <1>12, <1>13, <1>14,
     <1>15, <1>16, <1>17 DEF Next

(* When the dialog has nothing to refresh, no file that the index shows    *)
(* differs from its row: it would be among those to clear.                 *)
LEMMA NothingToRefreshKeeps ==
  ASSUME LeftoverInv, SurvivalInv, MissedInv, UpToDate, NEW a \in db.index.facts
  PROVE  db.index.rows[a.file].stamp = NotADateTime \/ disk[a.file].content = a.content
<1>1. Usable(db)
  <2>1. running /\ state = "LOADED" /\ task = "dialog"
    BY DEF UpToDate, LeftoverInv, StageInv, SurvivalInv, PlanInv
  <2>. QED
    BY <2>1 DEF SurvivalInv, DbInv
<1>2. plan = ForUpdatedFiles(db.index, disk)
  BY DEF UpToDate, MissedInv, PlannedInv
<1>3. Changed(db.index, disk) \subseteq plan.toClear
  BY <1>2 DEF ForUpdatedFiles
<1>4. GoodFact(db.index, disk, a)
  BY <1>1 DEF MissedInv, FilesInv, GoodIndex
<1>5. a.file \notin plan.toClear
  BY <1>4 DEF UpToDate, NothingToRefresh, GoodFact
<1>6. a.file \in Unchanged(db.index, disk)
  BY <1>3, <1>4, <1>5 DEF Changed, GoodFact
<1>. QED
  BY <1>4, <1>6 DEF GoodFact

(* NothingMissed holds of every behaviour in which files keep still while  *)
(* they are indexed and never get an old text back: what a refresh of the  *)
(* updated files finds up to date (RefreshInfoGenerator) is up to date.    *)
THEOREM NothingMissedHolds ==
  ASSUME SwapMayFail = FALSE, Restores = FALSE, EditsWhileIndexing = FALSE
  PROVE  Spec => []NothingMissed
<1>1. Init => LeftoverInv /\ SurvivalInv /\ MissedInv
  BY LeftoverInit, SurvivalInit, MissedInit
<1>2. LeftoverInv /\ SurvivalInv /\ MissedInv /\ [Next]_vars
          => LeftoverInv' /\ SurvivalInv' /\ MissedInv'
  BY LeftoverStep, SurvivalStep, MissedStep
<1>3. LeftoverInv /\ SurvivalInv /\ MissedInv => NothingMissed
  BY NothingToRefreshKeeps DEF NothingMissed
<1>. QED
  BY <1>1, <1>2, <1>3, PTL DEF Spec

-----------------------------------------------------------------------------
(* What following the edges reaches. Reached counts its steps: what holds  *)
(* of it is proved by induction over them, from a least counterexample.    *)

LEMMA StepInduction ==
  ASSUME NEW S, 0 \in S, \A n \in Nat : n \in S => n + 1 \in S
  PROVE  Nat \subseteq S
<1>. DEFINE T == Nat \ S
<1>1. SUFFICES ASSUME T # {} PROVE FALSE
  OBVIOUS
<1>2. IsWellFoundedOn(OpToRel(<, Nat), Nat) /\ T \in SUBSET Nat
  BY NatLessThanWellFounded
<1>3. PICK m \in T : \A y \in T : ~ (<<y, m>> \in OpToRel(<, Nat))
  <2>. HIDE DEF T
  <2>. QED
    BY <1>1, <1>2, WFMin
<1>4. m \in Nat /\ m \notin S /\ m # 0
  OBVIOUS
<1>5. m - 1 \in Nat /\ (m - 1) + 1 = m /\ m - 1 < m
  BY <1>4
<1>6. <<m - 1, m>> \in OpToRel(<, Nat)
  BY <1>4, <1>5 DEF OpToRel
<1>7. m - 1 \in T
  BY <1>4, <1>5
<1>. QED
  BY <1>3, <1>6, <1>7, Zenon

(* The steps of Reached, up to the n-th.                                   *)
Advanced(relation, set) == set \cup Follow(relation, set)

Steps(relation, X, n, f) ==
  f = [k \in 0 .. n |-> IF k = 0 THEN Follow(relation, X) ELSE Advanced(relation, f[k - 1])]

LEMMA StepsAre ==
  ASSUME NEW relation, NEW X, NEW n \in Nat, NEW f, Steps(relation, X, n, f)
  PROVE  /\ f[0] = Follow(relation, X)
         /\ \A k \in 1 .. n : f[k] = Advanced(relation, f[k - 1])
<1>1. f[0] = Follow(relation, X)
  BY 0 \in 0 .. n DEF Steps
<1>2. ASSUME NEW k \in 1 .. n PROVE f[k] = Advanced(relation, f[k - 1])
  BY k \in 0 .. n, k # 0 DEF Steps
<1>. QED
  BY <1>1, <1>2

LEMMA StepsExist ==
  ASSUME NEW relation, NEW X, NEW n \in Nat
  PROVE  \E f : Steps(relation, X, n, f)
<1>. DEFINE S == {m \in Nat : \E f : Steps(relation, X, m, f)}
<1>1. 0 \in S
  <2>1. Steps(relation, X, 0, [k \in 0 .. 0 |-> Follow(relation, X)])
    BY DEF Steps
  <2>. QED
    BY <2>1
<1>2. ASSUME NEW m \in Nat, m \in S PROVE m + 1 \in S
  <2>1. PICK f : Steps(relation, X, m, f)
    BY <1>2
  <2>. DEFINE Body(h, k) == IF k = 0 THEN Follow(relation, X) ELSE Advanced(relation, h[k - 1])
              g == [k \in 0 .. (m + 1) |-> Body(f, k)]
  <2>2. ASSUME NEW k \in 0 .. m PROVE g[k] = f[k]
    BY <2>1, k \in 0 .. (m + 1) DEF Steps
  <2>3. ASSUME NEW k \in 0 .. (m + 1), k # 0 PROVE g[k - 1] = f[k - 1]
    BY <2>2, <2>3, k - 1 \in 0 .. m
  <2>4. Steps(relation, X, m + 1, g)
    <3>1. \A k \in 0 .. (m + 1) : Body(f, k) = Body(g, k)
      <4>. HIDE DEF g
      <4>. QED
        BY <2>3
    <3>. DEFINE h == [k \in 0 .. (m + 1) |-> Body(g, k)]
    <3>2. g = h
      BY <3>1
    <3>. HIDE DEF g
    <3>. QED
      BY <3>2 DEF Steps
  <2>. QED
    BY <2>4
<1>. HIDE DEF S
<1>3. Nat \subseteq S
  BY <1>1, <1>2, StepInduction
<1>. QED
  BY <1>3 DEF S

LEMMA StepsAgree ==
  ASSUME NEW relation, NEW X, NEW m \in Nat, NEW n \in Nat, m <= n, NEW f, NEW g,
         Steps(relation, X, m, f), Steps(relation, X, n, g)
  PROVE  \A k \in 0 .. m : f[k] = g[k]
<1>. DEFINE S == {k \in Nat : k <= m => f[k] = g[k]}
<1>1. /\ f[0] = Follow(relation, X) /\ g[0] = Follow(relation, X)
      /\ \A k \in 1 .. m : f[k] = Advanced(relation, f[k - 1])
      /\ \A k \in 1 .. n : g[k] = Advanced(relation, g[k - 1])
  BY StepsAre
<1>2. 0 \in S
  BY <1>1
<1>3. ASSUME NEW k \in Nat, k \in S PROVE k + 1 \in S
  <2>1. SUFFICES ASSUME k + 1 <= m PROVE f[k + 1] = g[k + 1]
    BY <1>3
  <2>2. f[k] = g[k] /\ k + 1 \in 1 .. m /\ k + 1 \in 1 .. n /\ (k + 1) - 1 = k
    BY <1>3, <2>1
  <2>. QED
    BY <1>1, <2>2
<1>. HIDE DEF S
<1>4. Nat \subseteq S
  BY <1>2, <1>3, StepInduction
<1>. QED
  BY <1>4 DEF S

(* The function that Reached is defined by.                                *)
LEMMA ReachedSteps ==
  ASSUME NEW relation, NEW X
  PROVE  \E f : /\ f[0] = Follow(relation, X)
                /\ \A k \in Nat : f[k + 1] = Advanced(relation, f[k])
                /\ Reached(relation, X) = f[Cardinality(Files)]
<1>. DEFINE Body(h, k) == IF k = 0 THEN Follow(relation, X) ELSE Advanced(relation, h[k - 1])
            within == CHOOSE h : h = [k \in Nat |-> Body(h, k)]
            part(n) == CHOOSE f : Steps(relation, X, n, f)
            F == [n \in Nat |-> part(n)[n]]
<1>1. ASSUME NEW n \in Nat PROVE Steps(relation, X, n, part(n))
  BY StepsExist, Zenon
<1>2. ASSUME NEW n \in Nat PROVE F[n] = Body(F, n)
  <2>1. CASE n = 0
    <3>. HIDE DEF part
    <3>1. part(0)[0] = Follow(relation, X)
      BY <1>1, StepsAre
    <3>. QED
      BY <2>1, <3>1
  <2>2. CASE n # 0
    <3>1. n - 1 \in Nat /\ n - 1 <= n /\ n - 1 \in 0 .. (n - 1) /\ n \in 1 .. n
      BY <2>2
    <3>. HIDE DEF part
    <3>2. part(n - 1)[n - 1] = part(n)[n - 1]
      BY <1>1, <3>1, StepsAgree
    <3>3. part(n)[n] = Advanced(relation, part(n)[n - 1])
      BY <1>1, <3>1, StepsAre
    <3>. QED
      BY <2>2, <3>1, <3>2, <3>3
  <2>. QED
    BY <2>1, <2>2
<1>3. F = [n \in Nat |-> Body(F, n)]
  <2>1. F = [n \in Nat |-> F[n]]
    OBVIOUS
  <2>2. \A n \in Nat : F[n] = Body(F, n)
    BY <1>2
  <2>. HIDE DEF F
  <2>. QED
    BY <2>1, <2>2
<1>4. within = [k \in Nat |-> Body(within, k)]
  <2>. HIDE DEF F
  <2>1. \E h : h = [k \in Nat |-> Body(h, k)]
    BY <1>3
  <2>. QED
    BY <2>1
<1>5. Reached(relation, X) = within[Cardinality(Files)]
  BY DEF Reached, Advanced
<1>. HIDE DEF within
<1>6. within[0] = Follow(relation, X)
  BY <1>4
<1>7. \A k \in Nat : within[k + 1] = Advanced(relation, within[k])
  <2>. TAKE k \in Nat
  <2>1. k + 1 \in Nat /\ k + 1 # 0 /\ (k + 1) - 1 = k
    OBVIOUS
  <2>. QED
    BY <1>4, <2>1
<1>. QED
  BY <1>5, <1>6, <1>7

(* Reached is the least set that has the next of X and is closed.          *)
LEMMA ReachedLeast ==
  ASSUME NEW relation, NEW X, NEW T, Follow(relation, X) \subseteq T,
         \A e \in relation : e[1] \in T => e[2] \in T
  PROVE  Reached(relation, X) \subseteq T
<1>1. PICK f : /\ f[0] = Follow(relation, X)
               /\ \A k \in Nat : f[k + 1] = Advanced(relation, f[k])
               /\ Reached(relation, X) = f[Cardinality(Files)]
  BY ReachedSteps
<1>. DEFINE S == {k \in Nat : f[k] \subseteq T}
<1>2. 0 \in S
  BY <1>1
<1>3. ASSUME NEW k \in Nat, k \in S PROVE k + 1 \in S
  BY <1>1, <1>3 DEF Advanced, Follow
<1>. HIDE DEF S
<1>4. Nat \subseteq S
  BY <1>2, <1>3, StepInduction
<1>5. Cardinality(Files) \in Nat
  BY RefreshAssumption, FS_CardinalityType
<1>. QED
  BY <1>1, <1>4, <1>5 DEF S

(* As long as a step is not the last it adds a file: there are no more     *)
(* steps than files.                                                       *)
LEMMA ReachedClosed ==
  ASSUME NEW relation, NEW X, relation \subseteq Files \X Files
  PROVE  /\ Follow(relation, X) \subseteq Reached(relation, X)
         /\ \A e \in relation : e[1] \in Reached(relation, X) => e[2] \in Reached(relation, X)
<1>. DEFINE n == Cardinality(Files)
<1>1. IsFiniteSet(Files) /\ n \in Nat
  BY RefreshAssumption, FS_CardinalityType
<1>2. PICK f : /\ f[0] = Follow(relation, X)
               /\ \A k \in Nat : f[k + 1] = Advanced(relation, f[k])
               /\ Reached(relation, X) = f[n]
  BY ReachedSteps
<1>. HIDE DEF n
<1>. DEFINE Closed(k) == Follow(relation, f[k]) \subseteq f[k]
            S == {k \in Nat : /\ Follow(relation, X) \subseteq f[k] /\ f[k] \subseteq Files
                              /\ Closed(k) \/ Cardinality(f[k]) >= k + 1}
<1>3. \A set : Follow(relation, set) \subseteq Files
  BY DEF Follow
<1>4. ASSUME NEW k \in Nat, f[k] \subseteq Files
      PROVE  IsFiniteSet(f[k]) /\ Cardinality(f[k]) \in Nat /\ Cardinality(f[k]) <= n
  <2>1. f[k] \in SUBSET Files
    BY <1>4
  <2>. QED
    BY <1>1, <2>1, FS_Subset, FS_CardinalityType DEF n
<1>5. 0 \in S
  <2>1. Follow(relation, X) \subseteq f[0] /\ f[0] \subseteq Files
    BY <1>2, <1>3
  <2>2. f[0] = {} => Closed(0)
    BY DEF Follow
  <2>3. f[0] # {} => Cardinality(f[0]) >= 0 + 1
    <3>1. f[0] # {} => Cardinality(f[0]) # 0
      BY <1>4, <2>1, FS_EmptySet
    <3>. QED
      BY <1>4, <2>1, <3>1
  <2>. QED
    BY <2>1, <2>2, <2>3
<1>6. ASSUME NEW k \in Nat, k \in S PROVE k + 1 \in S
  <2>1. /\ f[k + 1] = Advanced(relation, f[k]) /\ Follow(relation, X) \subseteq f[k]
        /\ f[k] \subseteq Files /\ (Closed(k) \/ Cardinality(f[k]) >= k + 1)
    BY <1>2, <1>6
  <2>2. f[k] \subseteq f[k + 1] /\ f[k + 1] \subseteq Files
    BY <1>3, <2>1 DEF Advanced
  <2>3. CASE Closed(k)
    <3>1. f[k + 1] = f[k]
      BY <2>1, <2>3 DEF Advanced
    <3>. QED
      BY <2>1, <2>2, <2>3, <3>1
  <2>4. CASE ~Closed(k)
    <3>1. PICK g \in f[k + 1] : g \notin f[k]
      BY <2>1, <2>4 DEF Advanced
    <3>2. Cardinality(f[k] \cup {g}) = Cardinality(f[k]) + 1
      BY <1>4, <2>1, <3>1, FS_AddElement
    <3>3. f[k] \cup {g} \in SUBSET f[k + 1]
      BY <2>2, <3>1
    <3>4. Cardinality(f[k] \cup {g}) <= Cardinality(f[k + 1])
      BY <1>4, <2>2, <3>3, FS_Subset
    <3>5. Cardinality(f[k + 1]) \in Nat /\ Cardinality(f[k]) \in Nat
      BY <1>4, <2>1, <2>2
    <3>6. Cardinality(f[k + 1]) >= (k + 1) + 1
      <4>. HIDE DEF Closed
      <4>. QED
        BY <2>1, <2>4, <3>2, <3>4, <3>5
    <3>. QED
      BY <2>1, <2>2, <3>6
  <2>. QED
    BY <2>3, <2>4
<1>7. n \in S
  <2>. HIDE DEF S
  <2>. QED
    BY <1>1, <1>5, <1>6, StepInduction
<1>8. Follow(relation, X) \subseteq f[n] /\ Closed(n)
  <2>1. f[n] \subseteq Files /\ (Closed(n) \/ Cardinality(f[n]) >= n + 1)
    BY <1>7
  <2>2. Cardinality(f[n]) \in Nat /\ Cardinality(f[n]) <= n
    BY <1>1, <1>4, <2>1
  <2>3. Closed(n)
    <3>. HIDE DEF Closed
    <3>. QED
      BY <1>1, <2>1, <2>2
  <2>. QED
    BY <1>7, <2>3
<1>. QED
  BY <1>2, <1>8 DEF Follow

(* What is in X, or reached from it: the least set that has X and is       *)
(* closed.                                                                 *)
Within(relation, X) == X \cup Reached(relation, X)

LEMMA WithinLeast ==
  ASSUME NEW relation, NEW X, NEW T, X \subseteq T,
         \A e \in relation : e[1] \in T => e[2] \in T
  PROVE  Within(relation, X) \subseteq T
<1>1. Follow(relation, X) \subseteq T
  BY DEF Follow
<1>. QED
  BY <1>1, ReachedLeast DEF Within

LEMMA WithinClosed ==
  ASSUME NEW relation, NEW X, relation \subseteq Files \X Files
  PROVE  /\ X \subseteq Within(relation, X)
         /\ \A e \in relation : e[1] \in Within(relation, X) => e[2] \in Within(relation, X)
<1>1. /\ Follow(relation, X) \subseteq Reached(relation, X)
      /\ \A e \in relation : e[1] \in Reached(relation, X) => e[2] \in Reached(relation, X)
  BY ReachedClosed
<1>2. \A e \in relation : e[1] \in X => e[2] \in Follow(relation, X)
  BY DEF Follow
<1>. QED
  BY <1>1, <1>2 DEF Within

-----------------------------------------------------------------------------
(* What a refresh relies on, in any mode. Of a file that has a time and    *)
(* does not differ from its row, the index shows nothing that is not in    *)
(* it; and all its includes, or an error, if it is reached from a source   *)
(* file over files of this kind. Files that no source file reaches may     *)
(* have lost an include: a refresh that clears what no other needs does    *)
(* not see them, and a refresh of the incomplete files leaves such files.  *)

Firm(index, d) == {f \in Unchanged(index, d) : index.rows[f].stamp # NotADateTime}

Sure(index, d) ==
    Within({e \in index.edges : e[1] \in Firm(index, d)}, Sources \cap Firm(index, d))

HasFact(index, f) == \E a \in index.facts : a.file = f

Faithful(index, d, f) ==
    /\ \A a \in index.facts : a.file = f => a.content = d[f].content
    /\ \A e \in index.edges : e[1] = f => e[2] \in Includes(d, f)

Entire(index, d, f) ==
    \A g \in Includes(d, f) : <<f, g>> \in index.edges \/ f \in index.errors

Shaped(index) ==
    /\ Rows(index) \subseteq Files
    /\ index.edges \subseteq Files \X Files
    /\ \A e \in index.edges : e[1] \in IndexedFiles(index) /\ e[2] \in IndexedFiles(index)
    /\ \A a \in index.facts : /\ a = [file |-> a.file, content |-> a.content]
                              /\ a.file \in IndexedFiles(index)

Sound(index, d) ==
    /\ Shaped(index)
    /\ \A f \in IndexedFiles(index) : HasFact(index, f) \/ Robbed(index, f)
    /\ \A f \in Firm(index, d) : Faithful(index, d, f)
    /\ \A f \in Firm(index, d) \cap Sure(index, d) : Entire(index, d, f)

(* Fewer files that stay as they are, and fewer edges, reach fewer files.  *)
LEMMA SureMonotone ==
  ASSUME NEW index, NEW d, NEW new, NEW e, Firm(new, e) \subseteq Firm(index, d),
         new.edges \subseteq index.edges, index.edges \subseteq Files \X Files
  PROVE  Sure(new, e) \subseteq Sure(index, d)
<1>. DEFINE r1 == {x \in new.edges : x[1] \in Firm(new, e)}
            r2 == {x \in index.edges : x[1] \in Firm(index, d)}
<1>1. r1 \subseteq r2 /\ r2 \subseteq Files \X Files
  OBVIOUS
<1>2. /\ Sources \cap Firm(index, d) \subseteq Sure(index, d)
      /\ \A x \in r2 : x[1] \in Sure(index, d) => x[2] \in Sure(index, d)
  BY <1>1, WithinClosed DEF Sure
<1>3. Sources \cap Firm(new, e) \subseteq Sure(index, d)
  BY <1>2
<1>4. \A x \in r1 : x[1] \in Sure(index, d) => x[2] \in Sure(index, d)
  BY <1>1, <1>2
<1>5. Sure(new, e) = Within(r1, Sources \cap Firm(new, e))
  BY DEF Sure
<1>. HIDE DEF r1
<1>. QED
  BY <1>3, <1>4, <1>5, WithinLeast

LEMMA ReferencingFacts ==
  ASSUME NEW index, Shaped(index), NEW X
  PROVE  \A e \in index.edges :
             e[2] \in X \cup GetReferencing(index, X) => e[1] \in GetReferencing(index, X)
<1>. DEFINE back == {<<e[2], e[1]>> : e \in index.edges}
<1>1. back \subseteq Files \X Files
  BY DEF Shaped
<1>2. GetReferencing(index, X) = Reached(back, X)
  BY DEF GetReferencing
<1>. HIDE DEF back
<1>3. /\ Follow(back, X) \subseteq Reached(back, X)
      /\ \A e \in back : e[1] \in Reached(back, X) => e[2] \in Reached(back, X)
  BY <1>1, ReachedClosed
<1>4. ASSUME NEW e \in index.edges
      PROVE  <<e[2], e[1]>> \in back
  BY DEF back
<1>5. ASSUME NEW e \in index.edges, e[2] \in X
      PROVE  e[1] \in Reached(back, X)
  <2>. DEFINE r == <<e[2], e[1]>>
  <2>0. r \in back /\ r[1] \in X /\ r[2] = e[1]
    BY <1>4, <1>5
  <2>1. e[1] \in Follow(back, X)
    BY <2>0 DEF Follow
  <2>. QED
    BY <1>3, <2>1
<1>6. ASSUME NEW e \in index.edges, e[2] \in Reached(back, X)
      PROVE  e[1] \in Reached(back, X)
  <2>. DEFINE r == <<e[2], e[1]>>
  <2>1. r \in back /\ r[1] \in Reached(back, X) /\ r[2] = e[1]
    BY <1>4, <1>6
  <2>. QED
    BY <1>3, <2>1
<1>. QED
  BY <1>2, <1>5, <1>6

(* The parts of a plan for the updated files.                              *)
Affected(index, d) == Changed(index, d) \cup GetReferencing(index, Changed(index, d))
Static(index, d) == AllSources(d) \ Affected(index, d)
Orphaned(index, d) ==
    GetReferenced(index, Affected(index, d))
        \ (GetReferenced(index, Static(index, d)) \cup Static(index, d))

LEMMA UpdatedPlan ==
  ASSUME NEW index, NEW d
  PROVE  /\ ForUpdatedFiles(index, d).mode = "updated"
         /\ ForUpdatedFiles(index, d).toClear = Affected(index, d) \cup Orphaned(index, d)
         /\ ForUpdatedFiles(index, d).toIndex =
                AllSources(d) \ (Unchanged(index, d) \ (Affected(index, d) \cup Orphaned(index, d)))
BY DEF ForUpdatedFiles, Affected, Orphaned, Static

(* What a refresh of the incomplete files adds.                            *)
Bad(index, d) ==
    {f \in Rows(index) : ~index.rows[f].complete} \ ForUpdatedFiles(index, d).toClear
Incomplete(index, d) == Bad(index, d) \cup GetReferencing(index, Bad(index, d))

LEMMA IncompletePlan ==
  ASSUME NEW index, NEW d
  PROVE  LET updated == ForUpdatedFiles(index, d)
             info == ForIncompleteFiles(index, d)
         IN  /\ info.mode = "incomplete"
             /\ info.toClear = updated.toClear \cup Incomplete(index, d)
             /\ info.toIndex = updated.toIndex \cup (AllSources(d) \cap Incomplete(index, d))
BY DEF ForIncompleteFiles, Incomplete, Bad

(* A refresh of either kind made for the index and the disk.               *)
Partial(index, d) == {ForUpdatedFiles(index, d), ForIncompleteFiles(index, d)}

(* Where what is cleared is included by a file that stays, it is reached   *)
(* from no source file that stays as it is.                                *)
LEMMA ClearedEdges ==
  ASSUME NEW index, NEW d, Shaped(index), NEW p \in Partial(index, d)
  PROVE  /\ Affected(index, d) \subseteq p.toClear
         /\ p.mode = "incomplete" => \A f \in Rows(index) : ~index.rows[f].complete => f \in p.toClear
         /\ \A e \in index.edges : e[1] \notin p.toClear /\ e[2] \in p.toClear
                => e[2] \notin Within(index.edges, Static(index, d))
<1>. DEFINE A == Affected(index, d)
            O == Orphaned(index, d)
            I == Incomplete(index, d)
            X == p.toClear
<1>1. \A e \in index.edges : e[2] \in A => e[1] \in A
  BY ReferencingFacts DEF Affected
<1>2. \A e \in index.edges : e[2] \in I => e[1] \in I
  BY ReferencingFacts DEF Incomplete
<1>3. \/ p.mode = "updated" /\ X = A \cup O
      \/ p.mode = "incomplete" /\ X = A \cup O \cup I
  <2>1. CASE p = ForUpdatedFiles(index, d)
    BY <2>1, UpdatedPlan
  <2>2. CASE p = ForIncompleteFiles(index, d)
    BY <2>2, UpdatedPlan, IncompletePlan
  <2>. QED
    BY <2>1, <2>2 DEF Partial
<1>4. \A f \in Rows(index) : ~index.rows[f].complete => f \in A \cup O \cup I
  BY UpdatedPlan DEF Incomplete, Bad
<1>5. \A f \in O : f \notin Within(index.edges, Static(index, d))
  BY DEF Orphaned, Within, GetReferenced
<1>. HIDE DEF A, O, I, X
<1>6. A \subseteq X
  BY <1>3
<1>7. p.mode = "incomplete" => \A f \in Rows(index) : ~index.rows[f].complete => f \in X
  BY <1>3, <1>4
<1>8. \A e \in index.edges : e[1] \notin X /\ e[2] \in X => e[2] \in O
  BY <1>1, <1>2, <1>3
<1>. QED
  BY <1>5, <1>6, <1>7, <1>8 DEF A, X

(* A source file that stays is one that has not changed.                   *)
LEMMA StaysStatic ==
  ASSUME NEW index, NEW d, NEW s \in Sources \cap IndexedFiles(index), s \notin Affected(index, d)
  PROVE  s \in Static(index, d)
<1>1. s \in Unchanged(index, d)
  BY DEF Affected, Changed, IndexedFiles
<1>. QED
  BY <1>1 DEF Unchanged, Static, AllSources

-----------------------------------------------------------------------------
LEMMA IncludesAreFiles ==
  ASSUME NEW d, NEW time, GoodDisk(d, time), NEW f \in Files
  PROVE  Includes(d, f) \subseteq Files
<1>1. d[f].content \in Contents
  BY DEF GoodDisk
<1>. QED
  BY <1>1 DEF Includes, Contents

(* The storage of a source file: the files it reads, with what is in them. *)
LEMMA ParseFacts ==
  ASSUME NEW d, NEW time, GoodDisk(d, time), NEW s \in Sources, Exists(d, s)
  PROVE  LET p == Parse(d, s)
         IN  /\ s \in p.files /\ p.files \subseteq Files
             /\ \A f \in p.files : Exists(d, f)
             /\ p.edges \subseteq Files \X Files
             /\ \A e \in p.edges : /\ e[1] \in p.files /\ e[2] \in p.files
                                   /\ e[2] \in Includes(d, e[1]) /\ Exists(d, e[2])
             /\ \A f \in p.files : \A g \in Includes(d, f) :
                    IF Exists(d, g) THEN <<f, g>> \in p.edges ELSE f \in p.errors
             /\ p.facts = {[file |-> f, content |-> d[f].content] : f \in p.files}
             /\ p.files \subseteq Within(p.edges, {s})
<1>. DEFINE all == {e \in Files \X Files : e[2] \in Includes(d, e[1])}
            found == {e \in all : Exists(d, e[2])}
            unit == {f \in Files : f = s \/ f \in Reached(found, {s})}
            errors == {f \in unit : ~Exists(d, f) \/ \E g \in Includes(d, f) : ~Exists(d, g)}
            edges == {e \in found : e[1] \in unit}
            p == Parse(d, s)
<1>1. /\ p.files = unit /\ p.edges = edges /\ p.errors = errors
      /\ p.facts = {[file |-> f, content |-> d[f].content] : f \in {g \in unit : Exists(d, g)}}
  BY DEF Parse
<1>. HIDE DEF p
<1>2. found \subseteq Files \X Files /\ \A e \in found : Exists(d, e[2])
  OBVIOUS
<1>3. \A f \in Files : \A g \in Includes(d, f) : Exists(d, g) => <<f, g>> \in found
  BY IncludesAreFiles
<1>4. \A e \in found : e[2] \in Includes(d, e[1])
  OBVIOUS
<1>. HIDE DEF found
<1>5. s \in Files
  BY RefreshAssumption
<1>6. Within(found, {s}) \subseteq {f \in Files : Exists(d, f)}
  <2>. DEFINE T == {f \in Files : Exists(d, f)}
  <2>1. {s} \subseteq T /\ \A e \in found : e[1] \in T => e[2] \in T
    BY <1>2, <1>5
  <2>. HIDE DEF T
  <2>2. Within(found, {s}) \subseteq T
    BY <2>1, WithinLeast
  <2>. QED
    BY <2>2 DEF T
<1>7. unit = Within(found, {s})
  BY <1>5, <1>6 DEF Within
<1>8. s \in unit /\ \A e \in found : e[1] \in unit => e[2] \in unit
  BY <1>2, <1>7, WithinClosed
<1>. HIDE DEF unit
<1>9. \A e \in edges : e[1] \in unit /\ e[2] \in unit /\ e[2] \in Includes(d, e[1]) /\ Exists(d, e[2])
  BY <1>2, <1>4, <1>8
<1>10. \A f \in unit : f \in Files /\ Exists(d, f)
  BY <1>6, <1>7
<1>11. \A f \in unit : \A g \in Includes(d, f) :
           IF Exists(d, g) THEN <<f, g>> \in edges ELSE f \in errors
  BY <1>3, <1>10
<1>12. edges \subseteq Files \X Files
  BY <1>2
<1>13. unit \subseteq Within(edges, {s})
  <2>. DEFINE T == {f \in unit : f \in Within(edges, {s})}
  <2>1. /\ {s} \subseteq Within(edges, {s})
        /\ \A e \in edges : e[1] \in Within(edges, {s}) => e[2] \in Within(edges, {s})
    BY <1>12, WithinClosed
  <2>2. {s} \subseteq T
    BY <1>8, <2>1
  <2>3. \A e \in found : e[1] \in T => e[2] \in T
    BY <1>8, <2>1
  <2>. HIDE DEF T
  <2>4. Within(found, {s}) \subseteq T
    BY <2>2, <2>3, WithinLeast
  <2>. QED
    BY <1>7, <2>4 DEF T
<1>14. {g \in unit : Exists(d, g)} = unit
  BY <1>10
<1>15. p.facts = {[file |-> f, content |-> d[f].content] : f \in unit}
  BY <1>1, <1>14
<1>. HIDE DEF edges, errors
<1>16. /\ s \in p.files /\ p.files \subseteq Files
       /\ \A f \in p.files : Exists(d, f)
       /\ p.edges \subseteq Files \X Files
  BY <1>1, <1>8, <1>10, <1>12
<1>17. /\ \A e \in p.edges : /\ e[1] \in p.files /\ e[2] \in p.files
                             /\ e[2] \in Includes(d, e[1]) /\ Exists(d, e[2])
       /\ \A f \in p.files : \A g \in Includes(d, f) :
              IF Exists(d, g) THEN <<f, g>> \in p.edges ELSE f \in p.errors
  BY <1>1, <1>9, <1>11
<1>18. p.facts = {[file |-> f, content |-> d[f].content] : f \in p.files}
  BY <1>1, <1>15
<1>19. p.files \subseteq Within(p.edges, {s})
  BY <1>1, <1>13
<1>. QED
  BY <1>16, <1>17, <1>18, <1>19 DEF p

(* Fewer edges, and fewer files to start from, reach fewer files.          *)
LEMMA WithinMonotone ==
  ASSUME NEW r1, NEW r2, NEW X, NEW Y, r1 \subseteq r2, X \subseteq Y,
         r2 \subseteq Files \X Files
  PROVE  Within(r1, X) \subseteq Within(r2, Y)
<1>1. /\ Y \subseteq Within(r2, Y)
      /\ \A e \in r2 : e[1] \in Within(r2, Y) => e[2] \in Within(r2, Y)
  BY WithinClosed
<1>2. X \subseteq Within(r2, Y)
  BY <1>1
<1>3. \A e \in r1 : e[1] \in Within(r2, Y) => e[2] \in Within(r2, Y)
  BY <1>1
<1>. QED
  BY <1>2, <1>3, WithinLeast

-----------------------------------------------------------------------------
(* The steps that change an index, or the files on disk.                   *)

LEMMA ClearRows ==
  ASSUME NEW index, NEW X, NEW new, new = Clear(index, X)
  PROVE  /\ Rows(new) = Rows(index) \ X
         /\ \A f \in Rows(new) : new.rows[f] = index.rows[f]
         /\ IndexedFiles(new) = IndexedFiles(index) \ X
         /\ new.edges = {e \in index.edges : e[1] \notin X /\ e[2] \notin X}
         /\ new.errors = index.errors \ X
<1>1. /\ Rows(new) = Rows(index) \ X
      /\ \A f \in Rows(new) : new.rows[f] = index.rows[f]
      /\ new.edges = {e \in index.edges : e[1] \notin X /\ e[2] \notin X}
      /\ new.errors = index.errors \ X
  BY DEF Clear, Rows
<1>2. IndexedFiles(new) = IndexedFiles(index) \ X
  BY <1>1 DEF IndexedFiles
<1>. QED
  BY <1>1, <1>2

(* The rows that stay tell the same.                                       *)
LEMMA ClearKeepsUnchanged ==
  ASSUME NEW index, NEW d, NEW X, NEW new, new = Clear(index, X)
  PROVE  /\ \A f \in Rows(new) : f \in Unchanged(new, d) <=> f \in Unchanged(index, d)
         /\ Firm(new, d) = Firm(index, d) \ X
<1>1. Rows(new) = Rows(index) \ X /\ \A f \in Rows(new) : new.rows[f] = index.rows[f]
  BY ClearRows
<1>2. \A f \in Rows(new) : f \in Unchanged(new, d) <=> f \in Unchanged(index, d)
  BY <1>1 DEF Unchanged, DidFileChange
<1>3. Unchanged(new, d) \subseteq Rows(new) /\ Unchanged(index, d) \subseteq Rows(index)
  BY DEF Unchanged
<1>. QED
  BY <1>1, <1>2, <1>3 DEF Firm

(* Clearing what a refresh of either kind clears.                          *)
LEMMA ClearSound ==
  ASSUME NEW index, NEW d, NEW old, Sound(index, d), NEW p \in Partial(index, old)
  PROVE  Sound(Clear(index, p.toClear), d)
<1>. DEFINE X == p.toClear
            new == Clear(index, X)
            W == Within(index.edges, Static(index, old))
<1>0. Shaped(index)
  BY DEF Sound
<1>1. /\ Affected(index, old) \subseteq X
      /\ \A e \in index.edges : e[1] \notin X /\ e[2] \in X => e[2] \notin W
  BY <1>0, ClearedEdges
<1>. HIDE DEF X
<1>2. /\ Rows(new) = Rows(index) \ X
      /\ IndexedFiles(new) = IndexedFiles(index) \ X
      /\ Firm(new, d) = Firm(index, d) \ X
      /\ new.edges = {e \in index.edges : e[1] \notin X /\ e[2] \notin X}
      /\ new.errors = index.errors \ X
  BY ClearRows, ClearKeepsUnchanged
<1>3. new.facts = {a \in index.facts :
                      a.file \notin X
                      /\ \A x \in X : <<x, a.file>> \notin index.edges \cap Mentions}
  BY DEF Clear
<1>. HIDE DEF new, W
<1>4. Shaped(new)
  BY <1>0, <1>2, <1>3 DEF Shaped
<1>5. ASSUME NEW f \in IndexedFiles(new)
      PROVE  HasFact(new, f) \/ Robbed(new, f)
  <2>1. f \in IndexedFiles(index) /\ f \notin X
    BY <1>2
  <2>2. CASE Robbed(index, f)
    BY <1>2, <2>2 DEF Robbed
  <2>3. CASE HasFact(index, f)
    <3>1. PICK a \in index.facts : a.file = f
      BY <2>3 DEF HasFact
    <3>2. CASE a \in new.facts
      BY <3>1, <3>2 DEF HasFact
    <3>3. CASE a \notin new.facts
      <4>1. PICK x \in X : <<x, f>> \in index.edges \cap Mentions
        BY <1>3, <2>1, <3>1, <3>3
      <4>2. x \in Files
        BY <1>0, <4>1 DEF Shaped
      <4>3. <<x, f>> \notin new.edges
        <5>. DEFINE e == <<x, f>>
        <5>1. e[1] = x
          OBVIOUS
        <5>. HIDE DEF e
        <5>2. e \notin new.edges
          BY <1>2, <4>1, <5>1
        <5>. QED
          BY <5>2 DEF e
      <4>. QED
        BY <4>1, <4>2, <4>3 DEF Robbed
    <3>. QED
      BY <3>2, <3>3
  <2>. QED
    BY <2>1, <2>2, <2>3 DEF Sound
<1>6. ASSUME NEW f \in Firm(new, d)
      PROVE  Faithful(new, d, f)
  BY <1>2, <1>3 DEF Sound, Faithful
<1>7. ASSUME NEW f \in Firm(new, d) \cap Sure(new, d)
      PROVE  Entire(new, d, f)
  <2>1. /\ Static(index, old) \subseteq W
        /\ \A e \in index.edges : e[1] \in W => e[2] \in W
    BY <1>0, WithinClosed DEF W, Shaped
  <2>2. Sources \cap Firm(new, d) \subseteq W
    <3>1. Firm(new, d) \subseteq IndexedFiles(index) \ Affected(index, old)
      BY <1>1, <1>2 DEF Firm, Unchanged, IndexedFiles
    <3>2. \A s \in Sources \cap Firm(new, d) : s \in Static(index, old)
      BY <3>1, StaysStatic
    <3>. QED
      BY <2>1, <3>2
  <2>3. Sure(new, d) \subseteq W
    <3>. DEFINE r == {e \in new.edges : e[1] \in Firm(new, d)}
    <3>1. \A e \in r : e[1] \in W => e[2] \in W
      BY <1>2, <2>1
    <3>2. Sure(new, d) = Within(r, Sources \cap Firm(new, d))
      BY DEF Sure
    <3>. HIDE DEF r
    <3>. QED
      BY <2>2, <3>1, <3>2, WithinLeast
  <2>4. f \in Firm(index, d) /\ f \in Sure(index, d) /\ f \notin X /\ f \in W
    <3>1. Sure(new, d) \subseteq Sure(index, d)
      BY <1>0, <1>2, SureMonotone DEF Shaped
    <3>. QED
      BY <1>2, <2>3, <3>1
  <2>5. Entire(index, d, f)
    BY <2>4 DEF Sound
  <2>6. ASSUME NEW g, <<f, g>> \in index.edges PROVE <<f, g>> \in new.edges
    <3>. DEFINE e == <<f, g>>
    <3>1. e \in index.edges /\ e[1] = f /\ e[2] = g
      BY <2>6
    <3>. HIDE DEF e
    <3>2. e[2] \in W
      BY <2>1, <2>4, <3>1
    <3>3. e[2] \notin X
      BY <1>1, <2>4, <3>1, <3>2
    <3>4. e \in new.edges
      BY <1>2, <2>4, <3>1, <3>3
    <3>. QED
      BY <3>4 DEF e
  <2>. QED
    BY <1>2, <2>4, <2>5, <2>6 DEF Entire
<1>. QED
  BY <1>4, <1>5, <1>6, <1>7 DEF Sound, new, X

(* Clearing for the updated files leaves no file that was read for none.   *)
LEMMA ClearRooted ==
  ASSUME NEW index, NEW old, Shaped(index), Rooted(index)
  PROVE  Rooted(Clear(index, ForUpdatedFiles(index, old).toClear))
<1>. DEFINE X == ForUpdatedFiles(index, old).toClear
            new == Clear(index, X)
            A == Affected(index, old)
            S == Static(index, old)
            R == S \cap IndexedFiles(index)
            V == Within(new.edges, Roots(new))
            W == Within(index.edges, S)
<1>1. X = A \cup Orphaned(index, old)
  BY UpdatedPlan
<1>2. \A e \in index.edges : e[1] \notin X /\ e[2] \in X => e[2] \notin W
  BY ClearedEdges DEF Partial
<1>3. /\ IndexedFiles(new) = IndexedFiles(index) \ X
      /\ new.edges = {e \in index.edges : e[1] \notin X /\ e[2] \notin X}
  BY ClearRows
<1>4. /\ S \subseteq W /\ \A e \in index.edges : e[1] \in W => e[2] \in W
      /\ Roots(new) \subseteq V /\ \A e \in new.edges : e[1] \in V => e[2] \in V
  <2>1. index.edges \subseteq Files \X Files /\ new.edges \subseteq Files \X Files
    BY <1>3 DEF Shaped
  <2>. QED
    BY <2>1, WithinClosed
<1>5. S \cap X = {} /\ S \subseteq Sources
  BY <1>1 DEF Static, AllSources, Orphaned
<1>6. R \subseteq Roots(new)
  BY <1>3, <1>5 DEF Roots
<1>7. Orphaned(index, old) = GetReferenced(index, A) \ W
  BY DEF Orphaned, Within, GetReferenced
<1>8. Roots(index) \subseteq A \cup R
  <2>1. \A s \in Roots(index) : s \notin A => s \in S
    BY StaysStatic DEF Roots
  <2>. QED
    BY <2>1 DEF Roots
<1>9. IndexedFiles(index) \subseteq Within(index.edges, A) \cup Within(index.edges, R)
  <2>. DEFINE T == Within(index.edges, A) \cup Within(index.edges, R)
  <2>1. /\ A \subseteq Within(index.edges, A) /\ R \subseteq Within(index.edges, R)
        /\ \A e \in index.edges : /\ e[1] \in Within(index.edges, A) => e[2] \in Within(index.edges, A)
                                  /\ e[1] \in Within(index.edges, R) => e[2] \in Within(index.edges, R)
    BY WithinClosed DEF Shaped
  <2>2. Roots(index) \subseteq T /\ \A e \in index.edges : e[1] \in T => e[2] \in T
    BY <1>8, <2>1
  <2>. HIDE DEF T
  <2>3. Within(index.edges, Roots(index)) \subseteq T
    BY <2>2, WithinLeast
  <2>. QED
    BY <2>3 DEF Rooted, GetReferenced, Within, T
<1>10. W \cap IndexedFiles(index) \subseteq Within(index.edges, R)
  <2>. DEFINE T == (S \ IndexedFiles(index)) \cup Within(index.edges, R)
  <2>1. /\ R \subseteq Within(index.edges, R)
        /\ \A e \in index.edges : e[1] \in Within(index.edges, R) => e[2] \in Within(index.edges, R)
    BY WithinClosed DEF Shaped
  <2>2. S \subseteq T /\ \A e \in index.edges : e[1] \in T => e[2] \in T
    BY <2>1 DEF Shaped
  <2>. HIDE DEF T
  <2>3. W \subseteq T
    BY <2>2, WithinLeast
  <2>. QED
    BY <2>3 DEF T
<1>11. Within(index.edges, R) \subseteq V
  <2>. DEFINE T == (V \cap W) \ X
  <2>1. R \subseteq T
    BY <1>4, <1>5, <1>6
  <2>. HIDE DEF R
  <2>2. ASSUME NEW e \in index.edges, e[1] \in T PROVE e[2] \in T
    <3>1. e[2] \in W /\ e[2] \notin X
      BY <1>2, <1>4, <2>2
    <3>2. e \in new.edges
      BY <1>3, <2>2, <3>1
    <3>. QED
      BY <1>4, <2>2, <3>1, <3>2
  <2>. HIDE DEF T
  <2>3. Within(index.edges, R) \subseteq T
    BY <2>1, <2>2, WithinLeast
  <2>. QED
    BY <2>3 DEF T
<1>12. ASSUME NEW f \in IndexedFiles(new)
       PROVE  f \in V
  <2>1. f \in IndexedFiles(index) /\ f \notin A /\ f \notin GetReferenced(index, A) \ W
    BY <1>1, <1>3, <1>7
  <2>2. Within(index.edges, A) = A \cup GetReferenced(index, A)
    BY DEF Within, GetReferenced
  <2>. HIDE DEF A, W, V, R
  <2>. QED
    BY <1>9, <1>10, <1>11, <2>1, <2>2
<1>. QED
  BY <1>12 DEF Rooted, Within, GetReferenced

(* What injecting the storage of a source file makes of the rows.          *)
LEMMA InjectRows ==
  ASSUME NEW index, NEW d, NEW time, NEW s \in Sources, GoodDisk(d, time), Exists(d, s),
         GoodIndex(index, d, time), NEW p, p = Parse(d, s), NEW new, new = InjectInto(index, d, p)
  PROVE  /\ Rows(new) = Rows(index) \cup p.files
         /\ IndexedFiles(new) = IndexedFiles(index) \cup p.files
         /\ new.edges = index.edges \cup p.edges
         /\ new.facts = index.facts \cup p.facts
         /\ new.errors = index.errors \cup p.errors
         /\ \A f \in Rows(index) : /\ new.rows[f].stamp = index.rows[f].stamp
                                   /\ new.rows[f].content = index.rows[f].content
                                   /\ f \notin p.files => new.rows[f] = index.rows[f]
         /\ \A f \in p.files \ Rows(index) : /\ new.rows[f].stamp = d[f].stamp
                                             /\ new.rows[f].content = d[f].content
<1>1. /\ Rows(new) = Rows(index) \cup p.files
      /\ \A f \in Rows(new) : new.rows[f] = IF f \in p.files THEN Row(index, d, p, f)
                                            ELSE index.rows[f]
      /\ new.edges = index.edges \cup p.edges
      /\ new.facts = index.facts \cup p.facts
      /\ new.errors = index.errors \cup p.errors
  BY DEF InjectInto, Rows
<1>2. p.files \subseteq Files /\ \A f \in p.files : Exists(d, f)
  BY ParseFacts
<1>3. ASSUME NEW f \in Rows(index)
      PROVE  /\ new.rows[f].stamp = index.rows[f].stamp
             /\ new.rows[f].content = index.rows[f].content
             /\ f \notin p.files => new.rows[f] = index.rows[f]
             /\ f \in p.files => new.rows[f].indexed
  <2>1. f \in Rows(new) /\ f \in Files /\ GoodRow(index.rows[f], time)
    BY <1>1 DEF GoodIndex
  <2>2. CASE f \in p.files
    <3>1. new.rows[f] = Row(index, d, p, f)
      BY <1>1, <2>1, <2>2
    <3>2. /\ Row(index, d, p, f).indexed
          /\ Row(index, d, p, f).stamp = index.rows[f].stamp
          /\ Row(index, d, p, f).content = index.rows[f].content
      BY <2>1, RowGood
    <3>. QED
      BY <2>2, <3>1, <3>2
  <2>3. CASE f \notin p.files
    BY <1>1, <2>1, <2>3
  <2>. QED
    BY <2>2, <2>3
<1>4. ASSUME NEW f \in p.files \ Rows(index)
      PROVE  /\ new.rows[f].stamp = d[f].stamp /\ new.rows[f].content = d[f].content
             /\ new.rows[f].indexed
  <2>1. new.rows[f] = Row(index, d, p, f) /\ Exists(d, f) /\ f \notin Rows(index)
    BY <1>1, <1>2
  <2>. QED
    BY <2>1 DEF Row
<1>5. IndexedFiles(new) = IndexedFiles(index) \cup p.files
  <2>1. \A f \in IndexedFiles(new) : f \in p.files \/ f \in IndexedFiles(index)
    BY <1>1, <1>3 DEF IndexedFiles
  <2>2. \A f \in p.files : f \in IndexedFiles(new)
    BY <1>1, <1>3, <1>4 DEF IndexedFiles
  <2>3. \A f \in IndexedFiles(index) : f \in IndexedFiles(new)
    <3>1. \A f \in IndexedFiles(index) : f \in Rows(new) /\ f \in Rows(index) /\ index.rows[f].indexed
      BY <1>1 DEF IndexedFiles
    <3>. QED
      BY <1>3, <2>2, <3>1 DEF IndexedFiles
  <2>. QED
    BY <2>1, <2>2, <2>3
<1>. QED
  BY <1>1, <1>3, <1>4, <1>5

(* A file that was read before tells the same as it did.                   *)
LEMMA InjectKeepsUnchanged ==
  ASSUME NEW index, NEW d, NEW time, NEW s \in Sources, GoodDisk(d, time), Exists(d, s),
         GoodIndex(index, d, time), NEW p, p = Parse(d, s), NEW new, new = InjectInto(index, d, p)
  PROVE  /\ \A f \in IndexedFiles(index) :
                /\ f \in Unchanged(new, d) <=> f \in Unchanged(index, d)
                /\ f \in Firm(new, d) <=> f \in Firm(index, d)
         /\ Firm(new, d) \subseteq IndexedFiles(new)
         /\ Firm(index, d) \subseteq IndexedFiles(index)
<1>1. ASSUME NEW f \in IndexedFiles(index)
      PROVE  /\ f \in Unchanged(new, d) <=> f \in Unchanged(index, d)
             /\ f \in Firm(new, d) <=> f \in Firm(index, d)
  <2>1. f \in Rows(index) /\ index.rows[f].indexed /\ f \in IndexedFiles(new)
    BY InjectRows DEF IndexedFiles
  <2>2. f \in Rows(new) /\ new.rows[f].indexed
    BY <2>1 DEF IndexedFiles
  <2>3. new.rows[f].stamp = index.rows[f].stamp /\ new.rows[f].content = index.rows[f].content
    BY <2>1, InjectRows
  <2>4. f \in Unchanged(new, d) <=> f \in Unchanged(index, d)
    BY <2>1, <2>2, <2>3 DEF Unchanged, DidFileChange
  <2>. QED
    BY <2>3, <2>4 DEF Firm
<1>2. Firm(new, d) \subseteq IndexedFiles(new) /\ Firm(index, d) \subseteq IndexedFiles(index)
  BY DEF Firm, Unchanged, IndexedFiles
<1>. QED
  BY <1>1, <1>2

(* What is reached from a source file over files that have not changed was *)
(* read just now, or was so reached before.                                *)
LEMMA InjectSure ==
  ASSUME NEW index, NEW d, NEW time, NEW s \in Sources, GoodDisk(d, time), Exists(d, s),
         GoodIndex(index, d, time), Sound(index, d),
         NEW p, p = Parse(d, s), NEW new, new = InjectInto(index, d, p)
  PROVE  \A f \in Firm(new, d) \cap Sure(new, d) :
             f \in p.files \/ f \in Firm(index, d) \cap Sure(index, d)
<1>. DEFINE r == {e \in index.edges : e[1] \in Firm(index, d)}
            q == {e \in new.edges : e[1] \in Firm(new, d)}
            T == p.files \cup Sure(index, d) \cup {g \in Files : ~Exists(d, g)}
<1>1. /\ IndexedFiles(new) = IndexedFiles(index) \cup p.files
      /\ new.edges = index.edges \cup p.edges
  BY InjectRows
<1>2. /\ \A f \in IndexedFiles(index) : f \in Firm(new, d) <=> f \in Firm(index, d)
      /\ Firm(new, d) \subseteq IndexedFiles(new)
  BY InjectKeepsUnchanged
<1>3. /\ \A e \in p.edges : e[2] \in p.files
      /\ \A f \in p.files : \A g \in Includes(d, f) : Exists(d, g) => <<f, g>> \in p.edges
  BY ParseFacts
<1>4. /\ index.edges \subseteq Files \X Files
      /\ \A e \in index.edges : e[1] \in IndexedFiles(index)
      /\ \A f \in Firm(index, d) : Faithful(index, d, f)
  BY DEF Sound, Shaped
<1>5. /\ Sources \cap Firm(index, d) \subseteq Sure(index, d)
      /\ \A e \in r : e[1] \in Sure(index, d) => e[2] \in Sure(index, d)
  <2>1. r \subseteq Files \X Files
    BY <1>4
  <2>. QED
    BY <2>1, WithinClosed DEF Sure
<1>6. Sources \cap Firm(new, d) \subseteq T
  BY <1>1, <1>2, <1>5
<1>7. \A f \in Firm(new, d) : Exists(d, f)
  BY DEF Firm, Unchanged
<1>8. ASSUME NEW e \in q, e[1] \in T PROVE e[2] \in T
  <2>1. CASE e \in p.edges
    BY <1>3, <2>1
  <2>2. CASE e \in index.edges
    <3>1. e[1] \in Firm(index, d) /\ e[2] \in Files /\ e[1] \in p.files \cup Sure(index, d)
      BY <1>2, <1>4, <1>7, <1>8, <2>2
    <3>2. CASE e[1] \in Sure(index, d)
      BY <1>5, <2>2, <3>1, <3>2
    <3>3. CASE e[1] \in p.files
      <4>1. e[2] \in Includes(d, e[1])
        BY <1>4, <2>2, <3>1 DEF Faithful
      <4>2. Exists(d, e[2]) => <<e[1], e[2]>> \in p.edges
        BY <1>3, <3>3, <4>1
      <4>3. Exists(d, e[2]) => e[2] \in p.files
        <5>. DEFINE x == <<e[1], e[2]>>
        <5>1. x[2] = e[2]
          OBVIOUS
        <5>. HIDE DEF x
        <5>2. x \in p.edges => x[2] \in p.files
          BY <1>3
        <5>. QED
          BY <4>2, <5>1, <5>2 DEF x
      <4>. QED
        BY <3>1, <4>3
    <3>. QED
      BY <3>1, <3>2, <3>3
  <2>. QED
    BY <1>1, <2>1, <2>2
<1>9. Sure(new, d) \subseteq T
  <2>1. Sure(new, d) = Within(q, Sources \cap Firm(new, d))
    BY DEF Sure
  <2>. HIDE DEF q, T
  <2>. QED
    BY <1>6, <1>8, <2>1, WithinLeast
<1>. QED
  BY <1>1, <1>2, <1>7, <1>9

(* Injecting the storage of a source file that is on disk.                 *)
LEMMA InjectSound ==
  ASSUME NEW index, NEW d, NEW time, NEW s \in Sources, GoodDisk(d, time), Exists(d, s),
         GoodIndex(index, d, time), Sound(index, d),
         NEW p, p = Parse(d, s), NEW new, new = InjectInto(index, d, p)
  PROVE  Sound(new, d)
<1>1. /\ Rows(new) = Rows(index) \cup p.files
      /\ IndexedFiles(new) = IndexedFiles(index) \cup p.files
      /\ new.edges = index.edges \cup p.edges
      /\ new.facts = index.facts \cup p.facts
      /\ new.errors = index.errors \cup p.errors
  BY InjectRows
<1>2. /\ \A f \in IndexedFiles(index) : f \in Firm(new, d) <=> f \in Firm(index, d)
      /\ Firm(new, d) \subseteq IndexedFiles(new)
  BY InjectKeepsUnchanged
<1>3. /\ p.files \subseteq Files
      /\ p.edges \subseteq Files \X Files
      /\ \A e \in p.edges : /\ e[1] \in p.files /\ e[2] \in p.files
                            /\ e[2] \in Includes(d, e[1])
      /\ \A f \in p.files : \A g \in Includes(d, f) :
             <<f, g>> \in p.edges \/ f \in p.errors
      /\ p.facts = {[file |-> f, content |-> d[f].content] : f \in p.files}
  <2>1. \A f \in p.files : \A g \in Includes(d, f) :
            IF Exists(d, g) THEN <<f, g>> \in p.edges ELSE f \in p.errors
    BY ParseFacts
  <2>2. \A f \in p.files : \A g \in Includes(d, f) : <<f, g>> \in p.edges \/ f \in p.errors
    BY <2>1
  <2>. QED
    BY <2>2, ParseFacts
<1>4. Shaped(new)
  <2>1. Rows(new) \subseteq Files /\ new.edges \subseteq Files \X Files
    BY <1>1, <1>3 DEF Sound, Shaped
  <2>2. \A e \in new.edges : e[1] \in IndexedFiles(new) /\ e[2] \in IndexedFiles(new)
    BY <1>1, <1>3 DEF Sound, Shaped
  <2>3. \A a \in index.facts : /\ a = [file |-> a.file, content |-> a.content]
                               /\ a.file \in IndexedFiles(new)
    BY <1>1 DEF Sound, Shaped
  <2>4. \A a \in p.facts : /\ a = [file |-> a.file, content |-> a.content]
                           /\ a.file \in IndexedFiles(new)
    BY <1>1, <1>3
  <2>. QED
    BY <1>1, <2>1, <2>2, <2>3, <2>4 DEF Shaped
<1>5. ASSUME NEW f \in IndexedFiles(new)
      PROVE  HasFact(new, f) \/ Robbed(new, f)
  <2>1. CASE f \in p.files
    <3>. DEFINE a == [file |-> f, content |-> d[f].content]
    <3>1. a \in new.facts /\ a.file = f
      BY <1>1, <1>3, <2>1
    <3>. QED
      BY <3>1 DEF HasFact
  <2>2. CASE f \notin p.files
    <3>1. HasFact(index, f) \/ Robbed(index, f)
      BY <1>1, <2>2 DEF Sound
    <3>2. CASE HasFact(index, f)
      BY <1>1, <3>2 DEF HasFact
    <3>3. CASE Robbed(index, f)
      <4>1. PICK x \in Files : <<x, f>> \in Mentions \ index.edges
        BY <3>3 DEF Robbed
      <4>2. <<x, f>> \notin p.edges
        <5>. DEFINE e == <<x, f>>
        <5>1. e[2] = f
          OBVIOUS
        <5>. HIDE DEF e
        <5>2. e \notin p.edges
          BY <1>3, <2>2, <5>1
        <5>. QED
          BY <5>2 DEF e
      <4>. QED
        BY <1>1, <4>1, <4>2 DEF Robbed
    <3>. QED
      BY <3>1, <3>2, <3>3
  <2>. QED
    BY <2>1, <2>2
<1>6. ASSUME NEW f \in Firm(new, d)
      PROVE  Faithful(new, d, f)
  <2>1. ASSUME NEW a \in new.facts, a.file = f
        PROVE  a.content = d[f].content
    <3>1. CASE a \in p.facts
      BY <1>3, <2>1, <3>1
    <3>2. CASE a \in index.facts
      <4>1. f \in Firm(index, d)
        BY <1>2, <2>1, <3>2 DEF Sound, Shaped
      <4>. QED
        BY <2>1, <3>2, <4>1 DEF Sound, Faithful
    <3>. QED
      BY <1>1, <3>1, <3>2
  <2>2. ASSUME NEW e \in new.edges, e[1] = f
        PROVE  e[2] \in Includes(d, f)
    <3>1. CASE e \in p.edges
      BY <1>3, <2>2, <3>1
    <3>2. CASE e \in index.edges
      <4>1. f \in Firm(index, d)
        BY <1>2, <2>2, <3>2 DEF Sound, Shaped
      <4>. QED
        BY <2>2, <3>2, <4>1 DEF Sound, Faithful
    <3>. QED
      BY <1>1, <3>1, <3>2
  <2>. QED
    BY <2>1, <2>2 DEF Faithful
<1>7. ASSUME NEW f \in Firm(new, d) \cap Sure(new, d)
      PROVE  Entire(new, d, f)
  <2>1. CASE f \in p.files
    BY <1>1, <1>3, <2>1 DEF Entire
  <2>2. CASE f \in Firm(index, d) \cap Sure(index, d)
    BY <1>1, <2>2 DEF Entire, Sound
  <2>. QED
    BY <2>1, <2>2, InjectSure
<1>. QED
  BY <1>4, <1>5, <1>6, <1>7 DEF Sound

LEMMA InjectRooted ==
  ASSUME NEW index, NEW d, NEW time, NEW s \in Sources, GoodDisk(d, time), Exists(d, s),
         GoodIndex(index, d, time), Shaped(index), Rooted(index),
         NEW p, p = Parse(d, s), NEW new, new = InjectInto(index, d, p)
  PROVE  Rooted(new)
<1>1. /\ IndexedFiles(new) = IndexedFiles(index) \cup p.files
      /\ new.edges = index.edges \cup p.edges
  BY InjectRows
<1>2. /\ s \in p.files /\ p.edges \subseteq Files \X Files
      /\ p.files \subseteq Within(p.edges, {s})
  BY ParseFacts
<1>3. new.edges \subseteq Files \X Files
  BY <1>1, <1>2 DEF Shaped
<1>4. Roots(index) \subseteq Roots(new) /\ {s} \subseteq Roots(new)
  BY <1>1, <1>2 DEF Roots
<1>5. Within(index.edges, Roots(index)) \subseteq Within(new.edges, Roots(new))
  BY <1>1, <1>3, <1>4, WithinMonotone
<1>6. Within(p.edges, {s}) \subseteq Within(new.edges, Roots(new))
  BY <1>1, <1>3, <1>4, WithinMonotone
<1>7. IndexedFiles(index) \subseteq Within(index.edges, Roots(index))
  BY DEF Rooted, Within, GetReferenced
<1>8. IndexedFiles(new) \subseteq Within(new.edges, Roots(new))
  BY <1>1, <1>2, <1>5, <1>6, <1>7
<1>. QED
  BY <1>8 DEF Rooted, Within, GetReferenced

(* Nothing in the index is older than its file; and what a file that was   *)
(* reached includes was found, but for an error that its row does not tell.*)
Fresh(index, d) ==
    \A f \in Rows(index) :
        IF index.rows[f].indexed THEN f \in Unchanged(index, d)
        ELSE Exists(d, f) => ~Later(d[f].stamp, index.rows[f].stamp)

Found(index, d) ==
    \A f \in Firm(index, d) \cap Sure(index, d) : \A g \in Includes(d, f) :
        Exists(d, g) => \/ <<f, g>> \in index.edges
                        \/ f \in index.errors /\ index.rows[f].complete

LEMMA InjectFresh ==
  ASSUME NEW index, NEW d, NEW time, NEW s \in Sources, GoodDisk(d, time), Exists(d, s),
         GoodIndex(index, d, time), Sound(index, d),
         NEW p, p = Parse(d, s), NEW new, new = InjectInto(index, d, p)
  PROVE  /\ Fresh(index, d) => Fresh(new, d)
         /\ Found(index, d) => Found(new, d)
<1>1. /\ Rows(new) = Rows(index) \cup p.files
      /\ IndexedFiles(new) = IndexedFiles(index) \cup p.files
      /\ new.edges = index.edges \cup p.edges
      /\ new.errors = index.errors \cup p.errors
      /\ \A f \in Rows(index) : /\ new.rows[f].stamp = index.rows[f].stamp
                                /\ new.rows[f].content = index.rows[f].content
                                /\ f \notin p.files => new.rows[f] = index.rows[f]
      /\ \A f \in p.files \ Rows(index) : /\ new.rows[f].stamp = d[f].stamp
                                          /\ new.rows[f].content = d[f].content
  BY InjectRows
<1>2. /\ p.files \subseteq Files /\ \A f \in p.files : Exists(d, f)
      /\ \A f \in p.files : \A g \in Includes(d, f) : Exists(d, g) => <<f, g>> \in p.edges
  BY ParseFacts
<1>3. ASSUME Fresh(index, d), NEW f \in Rows(new)
      PROVE  IF new.rows[f].indexed THEN f \in Unchanged(new, d)
             ELSE Exists(d, f) => ~Later(d[f].stamp, new.rows[f].stamp)
  <2>1. CASE f \in IndexedFiles(index)
    <3>1. f \in Unchanged(index, d)
      BY <1>3, <2>1 DEF Fresh, IndexedFiles
    <3>2. f \in Unchanged(new, d)
      BY <2>1, <3>1, InjectKeepsUnchanged
    <3>. QED
      BY <3>2 DEF Unchanged
  <2>2. CASE f \notin IndexedFiles(index) /\ f \in p.files
    <3>1. Exists(d, f) /\ f \in IndexedFiles(new)
      BY <1>1, <1>2, <2>2
    <3>2. ~Later(d[f].stamp, new.rows[f].stamp)
      <4>1. CASE f \in Rows(index)
        <5>1. ~index.rows[f].indexed /\ new.rows[f].stamp = index.rows[f].stamp
          BY <1>1, <2>2, <4>1 DEF IndexedFiles
        <5>. QED
          BY <1>3, <3>1, <4>1, <5>1 DEF Fresh
      <4>2. CASE f \notin Rows(index)
        <5>1. new.rows[f].stamp = d[f].stamp /\ d[f].stamp \in Int
          BY <1>1, <1>2, <2>2, <4>2 DEF GoodDisk
        <5>. QED
          BY <5>1 DEF Later
      <4>. QED
        BY <4>1, <4>2
    <3>3. f \in Unchanged(new, d)
      BY <3>1, <3>2 DEF Unchanged, DidFileChange, IndexedFiles
    <3>. QED
      BY <3>3 DEF Unchanged
  <2>3. CASE f \notin IndexedFiles(index) /\ f \notin p.files
    <3>1. f \in Rows(index) /\ new.rows[f] = index.rows[f] /\ ~index.rows[f].indexed
      BY <1>1, <2>3 DEF IndexedFiles
    <3>. QED
      BY <1>3, <3>1 DEF Fresh
  <2>. QED
    BY <2>1, <2>2, <2>3
<1>4. ASSUME Found(index, d), NEW f \in Firm(new, d) \cap Sure(new, d), NEW g \in Includes(d, f),
             Exists(d, g)
      PROVE  <<f, g>> \in new.edges \/ (f \in new.errors /\ new.rows[f].complete)
  <2>1. CASE f \in p.files
    BY <1>1, <1>2, <1>4, <2>1
  <2>2. CASE f \notin p.files
    <3>1. f \in Firm(index, d) \cap Sure(index, d)
      BY <2>2, InjectSure
    <3>2. f \in Rows(index)
      BY <3>1 DEF Firm, Unchanged
    <3>3. new.rows[f] = index.rows[f]
      BY <1>1, <2>2, <3>2
    <3>. QED
      BY <1>1, <1>4, <3>1, <3>3 DEF Found
  <2>. QED
    BY <2>1, <2>2
<1>. QED
  BY <1>3, <1>4 DEF Fresh, Found

(* The row of a process that died.                                         *)
LEMMA CrashSound ==
  ASSUME NEW index, NEW d, NEW time, NEW s \in Files, GoodDisk(d, time),
         GoodIndex(index, d, time), Sound(index, d),
         NEW new, new = InjectCrash(index, d, s)
  PROVE  /\ Sound(new, d)
         /\ IndexedFiles(new) = IndexedFiles(index)
         /\ Rooted(index) => Rooted(new)
         /\ Fresh(index, d) => Fresh(new, d)
         /\ Found(index, d) => Found(new, d)
<1>1. /\ Rows(new) = Rows(index) \cup {s}
      /\ new.edges = index.edges /\ new.facts = index.facts
      /\ new.errors = index.errors \cup {s}
      /\ \A f \in Rows(index) :
             /\ new.rows[f].stamp = index.rows[f].stamp
             /\ new.rows[f].content = index.rows[f].content
             /\ new.rows[f].indexed = index.rows[f].indexed
             /\ index.rows[f].complete => new.rows[f].complete
      /\ s \notin Rows(index) => ~new.rows[s].indexed /\ new.rows[s].stamp = d[s].stamp
  BY CrashRows
<1>2. IndexedFiles(new) = IndexedFiles(index)
  BY <1>1 DEF IndexedFiles
<1>3. Unchanged(new, d) = Unchanged(index, d)
  <2>1. \A f \in Rows(index) : f \in Unchanged(new, d) <=> f \in Unchanged(index, d)
    BY <1>1 DEF Unchanged, DidFileChange
  <2>2. Unchanged(new, d) \subseteq Rows(index) /\ Unchanged(index, d) \subseteq Rows(index)
    BY <1>1 DEF Unchanged
  <2>. QED
    BY <2>1, <2>2
<1>4. Firm(new, d) = Firm(index, d)
  <2>1. Unchanged(index, d) \subseteq Rows(index)
    BY DEF Unchanged
  <2>. QED
    BY <1>1, <1>3, <2>1 DEF Firm
<1>5. Sure(new, d) = Sure(index, d)
  BY <1>1, <1>4 DEF Sure
<1>6. Shaped(new)
  BY <1>1, <1>2 DEF Sound, Shaped
<1>7. Sound(new, d)
  BY <1>1, <1>2, <1>4, <1>5, <1>6 DEF Sound, HasFact, Robbed, Faithful, Entire
<1>8. Rooted(index) => Rooted(new)
  BY <1>1, <1>2 DEF Rooted, Roots, GetReferenced
<1>9. ASSUME Fresh(index, d)
      PROVE  Fresh(new, d)
  <2>1. s \notin Rows(index) => ~Later(d[s].stamp, new.rows[s].stamp)
    <3>1. d[s].stamp \in Int
      BY DEF GoodDisk
    <3>. QED
      BY <1>1, <3>1 DEF Later
  <2>. QED
    BY <1>1, <1>3, <1>9, <2>1 DEF Fresh
<1>10. ASSUME Found(index, d)
       PROVE  Found(new, d)
  <2>1. Firm(index, d) \subseteq Rows(index)
    BY DEF Firm, Unchanged
  <2>. QED
    BY <1>1, <1>4, <1>5, <1>10, <2>1 DEF Found
<1>. QED
  BY <1>2, <1>7, <1>8, <1>9, <1>10

LEMMA EmptySound ==
  ASSUME NEW d
  PROVE  /\ Sound(EmptyIndex, d) /\ Rooted(EmptyIndex)
         /\ Fresh(EmptyIndex, d) /\ Found(EmptyIndex, d)
         /\ Rows(EmptyIndex) = {}
<1>1. Rows(EmptyIndex) = {} /\ EmptyIndex.facts = {} /\ EmptyIndex.edges = {}
  BY DEF EmptyIndex, Rows
<1>2. IndexedFiles(EmptyIndex) = {} /\ Firm(EmptyIndex, d) = {}
  BY <1>1 DEF IndexedFiles, Firm, Unchanged
<1>. QED
  BY <1>1, <1>2 DEF Sound, Shaped, Rooted, Fresh, Found

(* A change on disk.                                                       *)
LEMMA WriteSound ==
  ASSUME NEW d, NEW time, GoodDisk(d, time), NEW f \in Files, NEW entry,
         NewEntry(d, time, f, entry), NEW index, GoodIndex(index, d, time), Sound(index, d)
  PROVE  Sound(index, [d EXCEPT ![f] = entry])
<1>. DEFINE e == [d EXCEPT ![f] = entry]
<1>1. ASSUME NEW g \in Firm(index, e)
      PROVE  g \in Firm(index, d) /\ e[g].content = d[g].content
  <2>1. g \in Unchanged(index, e) /\ g \in Rows(index) /\ index.rows[g].stamp # NotADateTime
    BY DEF Firm, Unchanged
  <2>2. g \in Files /\ GoodRow(index.rows[g], time)
    BY <2>1 DEF GoodIndex
  <2>3. g \in Unchanged(index, d) /\ e[g].content = d[g].content
    BY <2>1, <2>2, WriteKeepsUnchanged
  <2>. QED
    BY <2>1, <2>3 DEF Firm
<1>2. \A g \in Firm(index, e) : Includes(e, g) = Includes(d, g)
  BY <1>1 DEF Includes
<1>3. Sure(index, e) \subseteq Sure(index, d)
  BY <1>1, SureMonotone DEF Sound, Shaped
<1>4. \A g \in Firm(index, e) : Faithful(index, e, g)
  BY <1>1, <1>2 DEF Sound, Faithful
<1>5. \A g \in Firm(index, e) \cap Sure(index, e) : Entire(index, e, g)
  BY <1>1, <1>2, <1>3 DEF Sound, Entire
<1>. QED
  BY <1>4, <1>5 DEF Sound

(* What a refresh that cleared its files has kept is fresh.                *)
LEMMA ClearFresh ==
  ASSUME NEW index, NEW d, Sound(index, d), NEW p \in Partial(index, d),
         NEW new, new = Clear(index, p.toClear)
  PROVE  /\ Fresh(new, d)
         /\ p.mode = "incomplete" => Found(new, d)
         /\ \A s \in AllSources(d) \ p.toIndex : s \in IndexedFiles(new)
<1>. DEFINE X == p.toClear
<1>0. Shaped(index)
  BY DEF Sound
<1>1. /\ Affected(index, d) \subseteq X
      /\ p.mode = "incomplete" => \A f \in Rows(index) : ~index.rows[f].complete => f \in X
  BY <1>0, ClearedEdges
<1>2. /\ Rows(new) = Rows(index) \ X
      /\ \A f \in Rows(new) : new.rows[f] = index.rows[f]
      /\ IndexedFiles(new) = IndexedFiles(index) \ X
  BY ClearRows
<1>3. \A f \in Rows(new) : f \in Unchanged(new, d) <=> f \in Unchanged(index, d)
  BY ClearKeepsUnchanged
<1>4. \A s \in AllSources(d) \ p.toIndex : s \in Unchanged(index, d) \ X
  <2>1. CASE p = ForUpdatedFiles(index, d)
    BY <2>1, UpdatedPlan
  <2>2. CASE p = ForIncompleteFiles(index, d)
    BY <2>2, UpdatedPlan, IncompletePlan
  <2>. QED
    BY <2>1, <2>2 DEF Partial
<1>5. ASSUME NEW f \in Rows(new)
      PROVE  IF new.rows[f].indexed THEN f \in Unchanged(new, d)
             ELSE Exists(d, f) => ~Later(d[f].stamp, new.rows[f].stamp)
  <2>1. f \in Rows(index) /\ f \notin Changed(index, d) /\ new.rows[f] = index.rows[f]
    BY <1>1, <1>2 DEF Affected
  <2>2. f \in Unchanged(index, d) \/ (~Exists(d, f) /\ ~index.rows[f].indexed)
    BY <2>1 DEF Changed
  <2>3. f \in Unchanged(index, d) => index.rows[f].indexed
    BY DEF Unchanged
  <2>. QED
    BY <1>3, <2>1, <2>2, <2>3
<1>6. ASSUME p.mode = "incomplete", NEW f \in Firm(new, d) \cap Sure(new, d), NEW g \in Includes(d, f)
      PROVE  <<f, g>> \in new.edges \/ (f \in new.errors /\ new.rows[f].complete)
  <2>1. Entire(new, d, f)
    BY ClearSound DEF Sound
  <2>2. f \in Rows(new)
    BY DEF Firm, Unchanged
  <2>3. new.rows[f].complete
    BY <1>1, <1>2, <1>6, <2>2
  <2>. QED
    BY <2>1, <2>3 DEF Entire
<1>. HIDE DEF X
<1>7. \A s \in AllSources(d) \ p.toIndex : s \in IndexedFiles(new)
  BY <1>2, <1>4 DEF Unchanged, IndexedFiles
<1>. QED
  BY <1>5, <1>6, <1>7 DEF Fresh, Found

(* An index that is fresh and has every source file has all that indexing  *)
(* every source file would give, if its rows tell of the errors.           *)
LEMMA MatchesFull ==
  ASSUME NEW index, NEW d, NEW time, GoodDisk(d, time), Sound(index, d), Fresh(index, d),
         Marked(index), ~Timeless(index), AllSources(d) \subseteq IndexedFiles(index),
         Found(index, d) \/ \A f \in Rows(index) : index.rows[f].complete
  PROVE  Covers(index, d) /\ Current(index, d)
<1>. DEFINE T == IndexedFiles(index) \cap Sure(index, d)
            r == {e \in index.edges : e[1] \in Firm(index, d)}
<1>1. Firm(index, d) = IndexedFiles(index)
  BY DEF Fresh, Timeless, Firm, IndexedFiles, Unchanged
<1>2. /\ Shaped(index)
      /\ \A f \in IndexedFiles(index) : HasFact(index, f) \/ Robbed(index, f)
      /\ \A f \in IndexedFiles(index) : Faithful(index, d, f)
  BY <1>1 DEF Sound
<1>3. \A f \in T : \A g \in Includes(d, f) : Exists(d, g) => <<f, g>> \in index.edges
  <2>1. \A f \in T : f \in Rows(index) /\ Entire(index, d, f)
    BY <1>1 DEF Sound, IndexedFiles
  <2>. QED
    BY <1>1, <2>1 DEF Found, Entire, Marked
<1>4. /\ Sources \cap IndexedFiles(index) \subseteq Sure(index, d)
      /\ \A e \in r : e[1] \in Sure(index, d) => e[2] \in Sure(index, d)
  <2>1. r \subseteq Files \X Files
    BY <1>2 DEF Shaped
  <2>. QED
    BY <1>1, <2>1, WithinClosed DEF Sure
<1>5. ASSUME NEW s \in AllSources(d)
      PROVE  LET p == Parse(d, s)
             IN  /\ p.files \subseteq IndexedFiles(index)
                 /\ p.edges \subseteq index.edges
                 /\ \A a \in p.facts : a \in index.facts \/ Robbed(index, a.file)
  <2>. DEFINE p == Parse(d, s)
  <2>1. s \in Sources /\ Exists(d, s)
    BY DEF AllSources
  <2>2. /\ s \in p.files /\ p.edges \subseteq Files \X Files
        /\ \A e \in p.edges : e[1] \in p.files /\ e[2] \in Includes(d, e[1]) /\ Exists(d, e[2])
        /\ p.facts = {[file |-> f, content |-> d[f].content] : f \in p.files}
        /\ p.files \subseteq Within(p.edges, {s})
    BY <2>1, ParseFacts
  <2>. HIDE DEF p
  <2>3. {s} \subseteq T
    BY <1>4, <2>1
  <2>4. ASSUME NEW e \in p.edges, e[1] \in T
        PROVE  e \in index.edges /\ e[2] \in T
    <3>1. e = <<e[1], e[2]>>
      BY <2>2
    <3>2. e \in index.edges
      BY <1>3, <2>2, <2>4, <3>1
    <3>3. e[2] \in IndexedFiles(index) /\ e \in r
      BY <1>1, <1>2, <2>4, <3>2 DEF Shaped
    <3>. QED
      BY <1>4, <2>4, <3>2, <3>3
  <2>. HIDE DEF T
  <2>5. p.files \subseteq T
    <3>1. Within(p.edges, {s}) \subseteq T
      BY <2>3, <2>4, WithinLeast
    <3>. QED
      BY <2>2, <3>1
  <2>6. p.files \subseteq IndexedFiles(index) /\ p.edges \subseteq index.edges
    BY <2>2, <2>4, <2>5 DEF T
  <2>7. ASSUME NEW f \in p.files, ~Robbed(index, f)
        PROVE  [file |-> f, content |-> d[f].content] \in index.facts
    <3>1. HasFact(index, f) /\ Faithful(index, d, f)
      BY <1>2, <2>6, <2>7
    <3>2. PICK b \in index.facts : b.file = f
      BY <3>1 DEF HasFact
    <3>3. b = [file |-> b.file, content |-> b.content] /\ b.content = d[f].content
      BY <1>2, <3>1, <3>2 DEF Shaped, Faithful
    <3>. QED
      BY <3>2, <3>3
  <2>8. \A a \in p.facts : a \in index.facts \/ Robbed(index, a.file)
    BY <2>2, <2>7
  <2>. QED
    BY <2>6, <2>8 DEF p
<1>6. Covers(index, d)
  <2>. DEFINE units == {Parse(d, s) : s \in AllSources(d)}
  <2>1. \A u \in units : /\ u.files \subseteq IndexedFiles(index)
                         /\ u.edges \subseteq index.edges
                         /\ \A a \in u.facts : a \in index.facts \/ Robbed(index, a.file)
    BY <1>5
  <2>2. FullIndex(d) = [files |-> UNION {u.files : u \in units},
                        edges |-> UNION {u.edges : u \in units},
                        facts |-> UNION {u.facts : u \in units}]
    BY DEF FullIndex
  <2>. HIDE DEF units
  <2>. QED
    BY <2>1, <2>2 DEF Covers
<1>7. Current(index, d)
  BY <1>2 DEF Shaped, Faithful, Current
<1>. QED
  BY <1>6, <1>7

-----------------------------------------------------------------------------
(* The life of the two files.                                              *)

Holds(file, d) == Usable(file) => Sound(file.index, d)

HoldInv == Holds(db, disk) /\ Holds(temp, disk)

(* The plan of the refresh was made for the database, and for the disk if  *)
(* no file has changed since.                                              *)
Planned ==
    \E d : /\ quiet => d = disk
           /\ plan \in {ForAllFiles(d)} \cup Partial(db.index, d)

PlanKept ==
    /\ task = "dialog" /\ plan # NoPlan => Planned
    /\ task \in {"setup", "clean"} => Planned /\ todo = plan.toIndex
    /\ task = "setup" => temp = IF plan.mode = "all" THEN Unversioned ELSE HalfCopied
    /\ task = "clean" => temp = IF plan.mode = "all" THEN Database(EmptyIndex) ELSE db

(* What was parsed is of the disk.                                         *)
UnitsInv ==
    /\ todo \subseteq Sources
    /\ \A p \in parsed :
           IF p.crashed THEN p.source \in Sources
           ELSE \E s \in Sources : Exists(disk, s) /\ p.storage = Parse(disk, s)

(* The index that is being made: nothing in it is out of date, nothing     *)
(* that can be found is missing, and the source files that are not in it   *)
(* yet are on their way.                                                   *)
Covered(index, d, coming) == AllSources(d) \subseteq IndexedFiles(index) \cup coming

Pending == {f \in Files : \E p \in parsed : ~p.crashed /\ f \in p.storage.files}

FreshInv ==
    /\ task = "swap" => todo = {}
    /\ task \in {"index", "swap"} /\ quiet =>
           /\ Fresh(temp.index, disk)
           /\ plan.mode # "updated" => Found(temp.index, disk)
           /\ whole => Covered(temp.index, disk, todo \cup Pending)

RootedInv ==
    /\ task \in {"clean", "index", "swap"} /\ plan.mode # "incomplete"
    /\ Usable(db) => Rooted(db.index)
    => Rooted(temp.index)

FullInv == HoldInv /\ PlanKept /\ UnitsInv /\ FreshInv /\ RootedInv

LEMMA FullInit == Init => FullInv
<1>. SUFFICES ASSUME Init PROVE FullInv
  OBVIOUS
<1>1. db = Unversioned /\ temp = NoFile /\ task = "none" /\ todo = {} /\ parsed = {}
  BY DEF Init
<1>. QED
  BY <1>1, Kinds DEF FullInv, HoldInv, Holds, PlanKept, UnitsInv, FreshInv, RootedInv

(* The plans and what they are for.                                        *)
LEMMA PlanKinds ==
  ASSUME NEW d, NEW index, NEW p \in {ForAllFiles(d)} \cup Partial(index, d)
  PROVE  /\ p.toIndex \subseteq AllSources(d)
         /\ \/ p = ForAllFiles(d) /\ p.mode = "all" /\ p.toClear = {} /\ p.toIndex = AllSources(d)
            \/ p = ForUpdatedFiles(index, d) /\ p.mode = "updated" /\ p \in Partial(index, d)
            \/ p = ForIncompleteFiles(index, d) /\ p.mode = "incomplete" /\ p \in Partial(index, d)
<1>1. CASE p = ForAllFiles(d)
  BY <1>1 DEF ForAllFiles
<1>2. CASE p = ForUpdatedFiles(index, d)
  BY <1>2, UpdatedPlan DEF Partial
<1>3. CASE p = ForIncompleteFiles(index, d)
  <2>1. p.mode = "incomplete" /\ p.toIndex \subseteq AllSources(d)
    BY <1>3, UpdatedPlan, IncompletePlan
  <2>. QED
    BY <1>3, <2>1 DEF Partial
<1>. QED
  BY <1>1, <1>2, <1>3 DEF Partial

(* A change on disk.                                                       *)
LEMMA FullWrite ==
  ASSUME Restores = FALSE, EditsWhileIndexing = FALSE, MissedInv, FullInv,
         NEW f \in Files, Edit(f) \/ Touch(f) \/ Delete(f)
  PROVE  FullInv'
<1>1. PICK entry : Write(f, entry) /\ NewEntry(disk, clock, f, entry)
  BY ChangeIsWrite DEF MissedInv, FilesInv
<1>2. /\ disk' = [disk EXCEPT ![f] = entry] /\ quiet' = FALSE
      /\ UNCHANGED <<db, temp, task, plan, todo, parsed>> /\ task # "index"
  BY <1>1 DEF Write, MayEdit, files, work
<1>3. GoodDisk(disk, clock)
  BY DEF MissedInv, FilesInv
<1>4. ASSUME NEW index, GoodIndex(index, disk, clock), Sound(index, disk)
      PROVE  Sound(index, disk')
  BY <1>1, <1>2, <1>3, <1>4, WriteSound
<1>5. HoldInv'
  <2>1. Holds(db, disk')
    BY <1>4 DEF FullInv, HoldInv, Holds, MissedInv, FilesInv
  <2>2. Holds(temp, disk')
    BY <1>4 DEF FullInv, HoldInv, Holds, MissedInv, FilesInv
  <2>. QED
    BY <1>2, <2>1, <2>2 DEF HoldInv
<1>6. Planned => Planned'
  BY <1>2 DEF Planned
<1>7. parsed = {}
  BY <1>2 DEF MissedInv, ParsedInv
<1>. QED
  BY <1>2, <1>5, <1>6, <1>7 DEF FullInv, PlanKept, UnitsInv, FreshInv, RootedInv

(* Clearing no file leaves all as it is.                                   *)
LEMMA ClearNothing ==
  ASSUME NEW index, NEW d, NEW X
  PROVE  X = {} => /\ Fresh(Clear(index, X), d) => Fresh(index, d)
                   /\ Found(Clear(index, X), d) => Found(index, d)
                   /\ IndexedFiles(Clear(index, X)) = IndexedFiles(index)
<1>. DEFINE new == Clear(index, X)
<1>0. /\ Rows(new) = Rows(index) \ X
      /\ \A f \in Rows(new) : new.rows[f] = index.rows[f]
      /\ IndexedFiles(new) = IndexedFiles(index) \ X
      /\ new.edges = {e \in index.edges : e[1] \notin X /\ e[2] \notin X}
      /\ new.errors = index.errors \ X
      /\ \A f \in Rows(new) : f \in Unchanged(new, d) <=> f \in Unchanged(index, d)
      /\ Firm(new, d) = Firm(index, d) \ X
  BY ClearRows, ClearKeepsUnchanged
<1>. HIDE DEF new
<1>. SUFFICES ASSUME X = {}
              PROVE  /\ Fresh(new, d) => Fresh(index, d)
                     /\ Found(new, d) => Found(index, d)
                     /\ IndexedFiles(new) = IndexedFiles(index)
  BY DEF new
<1>1. /\ Rows(new) = Rows(index)
      /\ \A f \in Rows(new) : new.rows[f] = index.rows[f]
      /\ IndexedFiles(new) = IndexedFiles(index)
      /\ new.edges = index.edges /\ new.errors = index.errors
  BY <1>0
<1>2. /\ \A f \in Rows(new) : f \in Unchanged(new, d) <=> f \in Unchanged(index, d)
      /\ Firm(new, d) = Firm(index, d)
  BY <1>0
<1>3. Sure(new, d) = Sure(index, d)
  BY <1>1, <1>2 DEF Sure
<1>4. Firm(index, d) \subseteq Rows(index)
  BY DEF Firm, Unchanged
<1>5. Fresh(new, d) => Fresh(index, d)
  BY <1>1, <1>2 DEF Fresh
<1>6. Found(new, d) => Found(index, d)
  BY <1>1, <1>2, <1>3, <1>4 DEF Found
<1>. QED
  BY <1>1, <1>5, <1>6

(* The clearing, when the task comes to it.                                *)
LEMMA FullClean ==
  ASSUME SurvivalInv, MissedInv, FullInv, CleanStorage
  PROVE  FullInv'
<1>. DEFINE old == temp.index
            new == temp'.index
            X == plan.toClear
<1>1. /\ task = "clean" /\ task' = "index" /\ Usable(temp)
      /\ UNCHANGED <<disk, quiet, db, plan, todo, parsed, whole>>
  BY DEF CleanStorage, outside, work, SurvivalInv, TempInv
<1>2. Sound(old, disk) /\ parsed = {} /\ todo \subseteq Sources
  BY <1>1 DEF FullInv, HoldInv, Holds, UnitsInv, MissedInv, ParsedInv
<1>3. PICK d : /\ quiet => d = disk
               /\ plan \in {ForAllFiles(d)} \cup Partial(db.index, d)
  BY <1>1 DEF FullInv, PlanKept, Planned
<1>4. todo = plan.toIndex /\ temp = IF plan.mode = "all" THEN Database(EmptyIndex) ELSE db
  BY <1>1 DEF FullInv, PlanKept
<1>5. \/ plan = ForAllFiles(d) /\ plan.mode = "all" /\ X = {} /\ plan.toIndex = AllSources(d)
      \/ /\ plan = ForUpdatedFiles(old, d) /\ plan.mode = "updated"
         /\ plan \in Partial(old, d) /\ old = db.index
      \/ /\ plan = ForIncompleteFiles(old, d) /\ plan.mode = "incomplete"
         /\ plan \in Partial(old, d) /\ old = db.index
  <2>1. plan.mode # "all" => old = db.index
    BY <1>4
  <2>. HIDE DEF old
  <2>. QED
    BY <1>3, <2>1, PlanKinds
<1>6. new = Clear(old, X) \/ (X = {} /\ temp' = temp)
  <2>1. temp' = IF X = {} THEN temp ELSE Database(Clear(old, X))
    BY DEF CleanStorage
  <2>2. Database(Clear(old, X)).index = Clear(old, X)
    BY DEF Database
  <2>. QED
    BY <2>1, <2>2
<1>7. Usable(temp')
  BY <1>1, Kinds DEF CleanStorage
<1>8. CASE plan.mode = "all"
  <2>1. temp' = Database(EmptyIndex) /\ new = EmptyIndex /\ todo = AllSources(d)
    <3>1. temp' = temp /\ temp = Database(EmptyIndex)
      BY <1>4, <1>5, <1>8 DEF CleanStorage
    <3>. QED
      BY <1>4, <1>5, <1>8, <3>1 DEF Database
  <2>. HIDE DEF old, new
  <2>2. Sound(new, disk) /\ Rooted(new) /\ Fresh(new, disk) /\ Found(new, disk)
    BY <2>1, EmptySound
  <2>3. quiet => Covered(new, disk, todo)
    BY <1>3, <2>1 DEF Covered
  <2>. QED
    BY <1>1, <1>2, <1>7, <2>2, <2>3
       DEF FullInv, HoldInv, Holds, PlanKept, UnitsInv, FreshInv, RootedInv, Covered, new
<1>9. CASE plan.mode # "all"
  <2>1. plan \in Partial(old, d)
    BY <1>5, <1>9
  <2>. HIDE DEF old, X, new
  <2>2. Shaped(old) /\ Sound(new, disk)
    BY <1>2, <1>6, <2>1, ClearSound DEF Sound, X, old, new
  <2>3. ASSUME quiet
        PROVE  /\ Fresh(new, disk) /\ (plan.mode # "updated" => Found(new, disk))
               /\ Covered(new, disk, todo)
    <3>. DEFINE clear == Clear(old, X)
    <3>1. /\ Fresh(clear, disk)
          /\ plan.mode = "incomplete" => Found(clear, disk)
          /\ \A s \in AllSources(disk) \ plan.toIndex : s \in IndexedFiles(clear)
      BY <1>2, <1>3, <2>1, <2>3, ClearFresh DEF X
    <3>2. Fresh(new, disk) /\ (Found(clear, disk) => Found(new, disk))
          /\ IndexedFiles(new) = IndexedFiles(clear)
      <4>1. CASE new = clear
        BY <3>1, <4>1
      <4>2. CASE X = {} /\ temp' = temp
        BY <3>1, <4>2, ClearNothing DEF new, old
      <4>. QED
        BY <1>6, <4>1, <4>2
    <3>. QED
      BY <1>4, <1>5, <1>9, <3>1, <3>2 DEF Covered
  <2>4. ASSUME plan.mode # "incomplete", Usable(db) => Rooted(db.index)
        PROVE  Rooted(new)
    <3>1. Rooted(old)
      BY <1>1, <2>4 DEF FullInv, RootedInv, old
    <3>2. plan = ForUpdatedFiles(old, d)
      BY <1>5, <1>9, <2>4
    <3>3. Rooted(Clear(old, X))
      BY <2>2, <3>1, <3>2, ClearRooted DEF X
    <3>. QED
      BY <1>6, <3>1, <3>3 DEF new, old
  <2>5. FreshInv'
    BY <1>1, <2>3 DEF FreshInv, Covered, new
  <2>6. RootedInv'
    BY <1>1, <2>4 DEF RootedInv, new
  <2>7. HoldInv'
    BY <1>1, <2>2 DEF FullInv, HoldInv, Holds, new
  <2>8. UnitsInv' /\ PlanKept'
    BY <1>1, <1>2 DEF UnitsInv, PlanKept
  <2>. QED
    BY <2>5, <2>6, <2>7, <2>8 DEF FullInv
<1>. QED
  BY <1>8, <1>9

(* A source file is read, or a process dies over it.                       *)
LEMMA FullIndexFile ==
  ASSUME MissedInv, FullInv, NEW s \in Sources, IndexFile(s)
  PROVE  FullInv'
<1>1. /\ task = "index" /\ s \in todo /\ todo' = todo \ {s}
      /\ UNCHANGED <<disk, quiet, db, temp, task, plan, whole>>
  BY DEF IndexFile, files, outside
<1>2. HoldInv' /\ PlanKept' /\ RootedInv'
  BY <1>1 DEF FullInv, HoldInv, PlanKept, RootedInv
<1>3. CASE ~Exists(disk, s)
  <2>1. parsed' = parsed
    BY <1>3 DEF IndexFile
  <2>2. UnitsInv'
    BY <1>1, <2>1 DEF FullInv, UnitsInv
  <2>3. Pending' = Pending
    BY <2>1 DEF Pending
  <2>4. \A index, coming : Covered(index, disk, todo \cup coming)
                               => Covered(index, disk, todo' \cup coming)
    BY <1>1, <1>3 DEF Covered, AllSources
  <2>. QED
    BY <1>1, <1>2, <2>2, <2>3, <2>4 DEF FullInv, FreshInv
<1>4. CASE Exists(disk, s)
  <2>. DEFINE u == [crashed |-> FALSE, storage |-> Parse(disk, s)]
  <2>1. parsed' = parsed \cup {u} /\ u.crashed = FALSE /\ u.storage = Parse(disk, s)
    BY <1>4 DEF IndexFile
  <2>2. GoodDisk(disk, clock)
    BY DEF MissedInv, FilesInv
  <2>3. s \in u.storage.files
    BY <1>4, <2>1, <2>2, ParseFacts
  <2>. HIDE DEF u
  <2>4. UnitsInv'
    BY <1>1, <1>4, <2>1 DEF FullInv, UnitsInv
  <2>5. todo \cup Pending \subseteq todo' \cup Pending'
    BY <1>1, <2>1, <2>3, RefreshAssumption DEF Pending
  <2>6. \A index : Covered(index, disk, todo \cup Pending) => Covered(index, disk, todo' \cup Pending')
    BY <2>5 DEF Covered
  <2>. QED
    BY <1>1, <1>2, <2>4, <2>6 DEF FullInv, FreshInv
<1>. QED
  BY <1>3, <1>4

LEMMA FullIndexerDies ==
  ASSUME FullInv, NEW s \in Sources, IndexerDies(s)
  PROVE  FullInv'
<1>1. /\ task = "index" /\ s \in todo /\ todo' = todo \ {s} /\ whole' = FALSE
      /\ UNCHANGED <<disk, quiet, db, temp, task, plan>>
      /\ parsed' = parsed \cup {[crashed |-> TRUE, source |-> s]}
  BY DEF IndexerDies, files, outside
<1>2. HoldInv' /\ PlanKept' /\ RootedInv'
  BY <1>1 DEF FullInv, HoldInv, PlanKept, RootedInv
<1>3. UnitsInv'
  BY <1>1 DEF FullInv, UnitsInv
<1>. QED
  BY <1>1, <1>2, <1>3 DEF FullInv, FreshInv

(* What was parsed goes into the index.                                    *)
LEMMA FullInject ==
  ASSUME SurvivalInv, MissedInv, FullInv, Inject
  PROVE  FullInv'
<1>. DEFINE old == temp.index
            new == temp'.index
<1>1. PICK p \in parsed :
          /\ parsed' = parsed \ {p}
          /\ temp' = Database(IF p.crashed THEN InjectCrash(old, disk, p.source)
                              ELSE InjectInto(old, disk, p.storage))
  BY DEF Inject
<1>2. /\ task = "index"
      /\ UNCHANGED <<disk, quiet, db, task, plan, todo, whole>>
  BY DEF Inject, outside
<1>3. /\ Usable(temp) /\ Usable(temp')
      /\ GoodDisk(disk, clock) /\ GoodIndex(old, disk, clock) /\ Sound(old, disk)
  BY <1>1, <1>2, Kinds DEF SurvivalInv, TempInv, MissedInv, FilesInv, FullInv, HoldInv, Holds
<1>4. PlanKept' /\ UnitsInv'
  BY <1>1, <1>2 DEF PlanKept, FullInv, UnitsInv
<1>5. /\ Sound(new, disk)
      /\ Rooted(old) => Rooted(new)
      /\ Fresh(old, disk) => Fresh(new, disk)
      /\ Found(old, disk) => Found(new, disk)
      /\ \A coming : Covered(old, disk, coming \cup Pending) => Covered(new, disk, coming \cup Pending')
  <2>1. CASE p.crashed
    <3>1. new = InjectCrash(old, disk, p.source) /\ p.source \in Files
      BY <1>1, <2>1, RefreshAssumption DEF Database, FullInv, UnitsInv
    <3>2. Pending' = Pending
      BY <1>1, <2>1 DEF Pending
    <3>. HIDE DEF new, old
    <3>3. /\ Sound(new, disk) /\ IndexedFiles(new) = IndexedFiles(old)
          /\ Rooted(old) => Rooted(new)
          /\ Fresh(old, disk) => Fresh(new, disk)
          /\ Found(old, disk) => Found(new, disk)
      BY <1>3, <3>1, CrashSound
    <3>. QED
      BY <3>2, <3>3 DEF Covered
  <2>2. CASE ~p.crashed
    <3>1. new = InjectInto(old, disk, p.storage)
      BY <1>1, <2>2 DEF Database
    <3>2. PICK s \in Sources : Exists(disk, s) /\ p.storage = Parse(disk, s)
      BY <2>2 DEF FullInv, UnitsInv
    <3>3. Pending \subseteq Pending' \cup p.storage.files
      BY <1>1 DEF Pending
    <3>. HIDE DEF new, old
    <3>4. IndexedFiles(new) = IndexedFiles(old) \cup p.storage.files
      BY <1>3, <3>1, <3>2, InjectRows
    <3>5. Sound(new, disk)
      BY <1>3, <3>1, <3>2, InjectSound
    <3>6. Rooted(old) => Rooted(new)
      BY <1>3, <3>1, <3>2, InjectRooted DEF Sound
    <3>7. (Fresh(old, disk) => Fresh(new, disk)) /\ (Found(old, disk) => Found(new, disk))
      BY <1>3, <3>1, <3>2, InjectFresh
    <3>. QED
      BY <3>3, <3>4, <3>5, <3>6, <3>7 DEF Covered
  <2>. QED
    BY <2>1, <2>2
<1>6. HoldInv'
  BY <1>2, <1>5 DEF FullInv, HoldInv, Holds
<1>7. FreshInv'
  BY <1>2, <1>5 DEF FullInv, FreshInv
<1>8. RootedInv'
  BY <1>2, <1>5 DEF FullInv, RootedInv
<1>. QED
  BY <1>4, <1>6, <1>7, <1>8 DEF FullInv

(* Each step of the lifecycle keeps the invariant.                         *)
LEMMA FullStep ==
  ASSUME SwapMayFail = FALSE, Restores = FALSE, EditsWhileIndexing = FALSE,
         LeftoverInv, SurvivalInv, MissedInv, FullInv, [Next]_vars
  PROVE  FullInv'
<1>. USE DEF files, outside, work
<1>0. ASSUME UNCHANGED <<disk, db, temp, todo>>, parsed = {}, parsed' = {},
             task' \in {"none", "discarded", "discard"}
      PROVE  FullInv'
  BY <1>0 DEF FullInv, HoldInv, PlanKept, UnitsInv, FreshInv, RootedInv
<1>1. ASSUME NEW f \in Files, Edit(f) \/ Touch(f) \/ Delete(f)
      PROVE  FullInv'
  BY <1>1, FullWrite
<1>2. CASE Refresh
  <2>1. /\ UNCHANGED <<disk, db, temp, todo, parsed>>
        /\ task' = "dialog" /\ plan' = NoPlan /\ task = "none"
    BY <1>2 DEF Refresh, LeftoverInv, SwapInv, StageInv
  <2>2. parsed = {}
    BY <2>1 DEF MissedInv, ParsedInv
  <2>. QED
    BY <2>1, <2>2 DEF FullInv, HoldInv, PlanKept, UnitsInv, FreshInv, RootedInv
<1>3. ASSUME NEW mode \in {"all", "updated", "incomplete"}, GetRefreshInfo(mode)
      PROVE  FullInv'
  <2>1. /\ UNCHANGED <<disk, db, temp, task, todo, parsed>> /\ task = "dialog"
        /\ plan' = PlanFor(mode, db.index, disk)
    BY <1>3 DEF GetRefreshInfo
  <2>2. plan' \in {ForAllFiles(disk)} \cup Partial(db.index, disk)
    BY <2>1 DEF PlanFor, Partial
  <2>3. Planned'
    BY <2>1, <2>2 DEF Planned
  <2>4. parsed = {}
    BY <2>1 DEF MissedInv, ParsedInv
  <2>. QED
    BY <2>1, <2>3, <2>4 DEF FullInv, HoldInv, PlanKept, UnitsInv, FreshInv, RootedInv
<1>4. CASE Cancel
  <2>1. UNCHANGED <<disk, db, temp, todo, parsed>> /\ task' = "none" /\ parsed = {}
    BY <1>4 DEF Cancel, MissedInv, ParsedInv
  <2>. QED
    BY <1>0, <2>1
<1>5. CASE BuildIndex
  <2>1. /\ UNCHANGED <<disk, quiet, db, plan>> /\ task = "dialog" /\ plan # NoPlan
        /\ temp = NoFile
    BY <1>5 DEF BuildIndex, LeftoverInv, StageInv
  <2>2. parsed = {}
    BY <2>1 DEF MissedInv, ParsedInv
  <2>3. CASE NothingToRefresh
    <3>1. UNCHANGED <<temp, todo, parsed>> /\ task' = "none"
      BY <1>5, <2>3 DEF BuildIndex
    <3>. QED
      BY <1>0, <2>1, <2>2, <3>1
  <2>4. CASE ~NothingToRefresh
    <3>1. /\ temp' = IF plan.mode = "all" THEN Unversioned ELSE HalfCopied
          /\ task' = "setup" /\ todo' = plan.toIndex /\ parsed' = {}
      BY <1>5, <2>1, <2>4 DEF BuildIndex
    <3>2. Planned /\ Planned'
      BY <2>1 DEF FullInv, PlanKept, Planned
    <3>3. todo' \subseteq Sources
      <4>1. PICK d : plan \in {ForAllFiles(d)} \cup Partial(db.index, d)
        BY <3>2 DEF Planned
      <4>. QED
        BY <3>1, <4>1, PlanKinds DEF AllSources
    <3>4. ~Usable(temp')
      BY <3>1, Kinds
    <3>. QED
      BY <2>1, <3>1, <3>2, <3>3, <3>4
         DEF FullInv, HoldInv, Holds, PlanKept, UnitsInv, FreshInv, RootedInv
  <2>. QED
    BY <2>3, <2>4
<1>6. CASE SetUp
  <2>1. /\ UNCHANGED <<disk, quiet, db, plan, todo, parsed>>
        /\ task = "setup" /\ task' = "clean"
    BY <1>6 DEF SetUp
  <2>2. temp' = IF plan.mode = "all" THEN Database(EmptyIndex) ELSE db
    BY <1>6, <2>1, Kinds DEF SetUp, FullInv, PlanKept
  <2>3. plan.mode # "all" => Usable(db)
    BY <2>1, Kinds DEF SurvivalInv, TempInv, FullInv, PlanKept
  <2>4. Planned /\ Planned' /\ todo = plan.toIndex
    BY <2>1 DEF FullInv, PlanKept, Planned
  <2>5. Database(EmptyIndex).index = EmptyIndex
    BY DEF Database
  <2>6. HoldInv'
    BY <2>1, <2>2, <2>5, EmptySound DEF FullInv, HoldInv, Holds
  <2>7. RootedInv'
    BY <2>1, <2>2, <2>3, <2>5, EmptySound DEF RootedInv
  <2>8. parsed = {}
    BY <2>1 DEF MissedInv, ParsedInv
  <2>. QED
    BY <2>1, <2>2, <2>4, <2>6, <2>7, <2>8 DEF FullInv, PlanKept, UnitsInv, FreshInv
<1>7. CASE CleanStorage
  BY <1>7, FullClean
<1>8. ASSUME NEW s \in Sources, IndexFile(s) \/ IndexerDies(s)
      PROVE  FullInv'
  BY <1>8, FullIndexFile, FullIndexerDies
<1>9. CASE Stop
  <2>1. /\ UNCHANGED <<disk, quiet, db, temp, task, plan>> /\ task = "index"
        /\ todo' = {} /\ parsed' \subseteq parsed /\ whole' = FALSE
    BY <1>9 DEF Stop
  <2>2. HoldInv' /\ PlanKept' /\ RootedInv'
    BY <2>1 DEF FullInv, HoldInv, PlanKept, RootedInv
  <2>3. UnitsInv'
    BY <2>1 DEF FullInv, UnitsInv
  <2>. QED
    BY <2>1, <2>2, <2>3 DEF FullInv, FreshInv
<1>10. CASE Inject
  BY <1>10, FullInject
<1>11. CASE FinishParsing
  <2>1. /\ UNCHANGED <<disk, quiet, db, temp, plan, todo, parsed, whole>>
        /\ task = "index" /\ todo = {} /\ parsed = {} /\ task' \in {"swap", "discard"}
    BY <1>11 DEF FinishParsing
  <2>2. Pending' = Pending
    BY <2>1 DEF Pending
  <2>. QED
    BY <2>1, <2>2 DEF FullInv, HoldInv, PlanKept, UnitsInv, FreshInv, RootedInv
<1>12. CASE RemoveOld \/ Rename
  <2>1. /\ UNCHANGED <<disk, todo, parsed>> /\ task' \in {"rename", "swapped"} /\ parsed = {}
        /\ db' \in {NoFile, db, temp} /\ temp' \in {temp, NoFile}
    BY <1>12 DEF RemoveOld, Rename, MissedInv, ParsedInv
  <2>2. HoldInv'
    BY <2>1, Kinds DEF FullInv, HoldInv, Holds
  <2>. QED
    BY <2>1, <2>2 DEF FullInv, PlanKept, UnitsInv, FreshInv, RootedInv
<1>13. CASE DiscardTempStorage \/ EndRefresh
  <2>1. /\ UNCHANGED <<disk, db, todo, parsed>> /\ temp' \in {temp, NoFile} /\ parsed = {}
        /\ task' \in {"discarded", "none"}
    BY <1>13 DEF DiscardTempStorage, EndRefresh, MissedInv, ParsedInv
  <2>2. HoldInv'
    BY <2>1, Kinds DEF FullInv, HoldInv, Holds
  <2>. QED
    BY <2>1, <2>2 DEF FullInv, PlanKept, UnitsInv, FreshInv, RootedInv
<1>14. CASE Throw \/ Crash
  <2>1. /\ UNCHANGED <<disk, db, temp>> /\ task' = "none" /\ todo' = {} /\ parsed' = {}
    BY <1>14 DEF Throw, Crash
  <2>. QED
    BY <2>1 DEF FullInv, HoldInv, PlanKept, UnitsInv, FreshInv, RootedInv
<1>15. CASE Load
  <2>1. /\ UNCHANGED <<disk, task, todo, parsed>> /\ task = "none" /\ parsed = {}
        /\ temp' = NoFile /\ db' \in {db, temp, Unversioned}
    BY <1>15 DEF Load, LeftoverInv, StageInv, MissedInv, ParsedInv
  <2>2. HoldInv'
    BY <2>1, Kinds DEF FullInv, HoldInv, Holds
  <2>. QED
    BY <2>1, <2>2 DEF FullInv, PlanKept, UnitsInv, FreshInv, RootedInv
<1>16. CASE UNCHANGED vars
  <2>1. UNCHANGED <<disk, quiet, db, temp, task, plan, todo, parsed, whole>>
    BY <1>16 DEF vars
  <2>2. (Planned => Planned') /\ Pending' = Pending
    BY <2>1 DEF Planned, Pending
  <2>. QED
    BY <2>1, <2>2 DEF FullInv, HoldInv, PlanKept, UnitsInv, FreshInv, RootedInv
<1>. QED
  BY <1>1, <1>2, <1>3, <1>4, <1>5, <1>6, <1>7, <1>8, <1>9, <1>10, <1>11, <1>12, <1>13, <1>14,
     <1>15, <1>16 DEF Next

LEMMA FullMatches ==
  ASSUME SurvivalInv, MissedInv, FullInv
  PROVE  RefreshMatchesFull
<1>. DEFINE index == temp.index
<1>1. SUFFICES ASSUME task = "swap", quiet, whole, Marked(index), ~Timeless(index),
                      plan.mode = "updated" => \A f \in Rows(index) : index.rows[f].complete
               PROVE  /\ Covers(index, disk) /\ Current(index, disk)
                      /\ plan.mode # "incomplete" /\ (Usable(db) => Rooted(db.index)) => Rooted(index)
  BY DEF RefreshMatchesFull
<1>2. GoodDisk(disk, clock) /\ Sound(index, disk)
  BY <1>1 DEF MissedInv, FilesInv, SurvivalInv, TempInv, FullInv, HoldInv, Holds
<1>3. todo = {} /\ Pending = {}
  BY <1>1 DEF FullInv, FreshInv, MissedInv, ParsedInv, Pending
<1>4. /\ Fresh(index, disk)
      /\ plan.mode # "updated" => Found(index, disk)
      /\ AllSources(disk) \subseteq IndexedFiles(index)
  BY <1>1, <1>3 DEF FullInv, FreshInv, Covered
<1>5. Covers(index, disk) /\ Current(index, disk)
  <2>. HIDE DEF index
  <2>. QED
    BY <1>1, <1>2, <1>4, MatchesFull
<1>. QED
  BY <1>1, <1>5 DEF FullInv, RootedInv

(* RefreshMatchesFull holds of every behaviour in which files keep still   *)
(* while they are indexed and never get an old text back: a refresh that   *)
(* nothing disturbed leaves what indexing every file from nothing leaves,  *)
(* whatever files name the symbols of others and whichever source files    *)
(* an indexer process died over before (RefreshInfoGenerator, Project,     *)
(* SqliteIndexStorage::removeElementsWithLocationInFiles).                 *)
THEOREM RefreshMatchesFullHolds ==
  ASSUME SwapMayFail = FALSE, Restores = FALSE, EditsWhileIndexing = FALSE
  PROVE  Spec => []RefreshMatchesFull
<1>. DEFINE Inv == LeftoverInv /\ SurvivalInv /\ MissedInv /\ FullInv
<1>1. Init => Inv
  BY LeftoverInit, SurvivalInit, MissedInit, FullInit
<1>2. Inv /\ [Next]_vars => Inv'
  BY LeftoverStep, SurvivalStep, MissedStep, FullStep
<1>3. Inv => RefreshMatchesFull
  BY FullMatches
<1>. HIDE DEF Inv
<1>. QED
  BY <1>1, <1>2, <1>3, PTL DEF Spec

=============================================================================
