------------------------------- MODULE Project -------------------------------
(***************************************************************************)
(* The life of a project's index: the database file the application shows, *)
(* and the temporary one an indexing task writes beside it (Project.cpp).  *)
(*                                                                         *)
(* A refresh plans (RefreshPlan), sets up the temporary file, clears,      *)
(* parses and injects, asks whether to keep the result, and then renames   *)
(* or removes the temporary file. The application may be closed or killed  *)
(* at any step; the next start finds the files as they were left.          *)
(*                                                                         *)
(* The indexing task is a background task: after each of its steps it goes *)
(* to the end of the scheduler's queue, so the swap it dispatches is run   *)
(* before its own next step, the one that ends the refresh.                *)
(***************************************************************************)
EXTENDS RefreshPlan, TLC

CONSTANTS
    NoPlan,            \* the refresh dialog has not worked out a plan yet
    MaxEdits,          \* bound: changes on disk
    MaxCrashes,        \* bound: times the application is closed or killed
    MaxFaults,         \* bound: stops, dead indexers and exceptions
    EditsWhileIndexing, \* whether files change from the first parse to the last injection
    Restores,           \* whether a file may get back a text it had before
    SwapMayFail         \* whether the old database may resist its removal

ASSUME ProjectAssumption ==
    /\ MaxEdits \in Nat /\ MaxCrashes \in Nat /\ MaxFaults \in Nat
    /\ {EditsWhileIndexing, Restores, SwapMayFail} \subseteq BOOLEAN

VARIABLES
    disk,     \* disk[f]: [stamp, content], what is on disk
    clock,    \* the modification time the next change gets
    db,       \* m_settings->getDBFilePath(): what is in that file
    temp,     \* m_settings->getTempDBFilePath()
    running,  \* the application runs with this project
    state,    \* m_state
    stage,    \* m_refreshStage
    task,     \* the step of the indexing task that comes next
    plan,     \* the RefreshInfo
    todo,     \* source files whose indexing has not ended
    parsed,   \* storages that are not yet injected
    quiet,    \* no file has changed since the plan was made
    whole,    \* nothing kept this task from indexing all it planned
    crashes,
    faults

vars == <<disk, clock, db, temp, running, state, stage, task, plan, todo,
          parsed, quiet, whole, crashes, faults>>

(* What a database file holds.                                             *)
NoFile == [kind |-> "none"]
HalfCopied == [kind |-> "half"]          \* a copy that is not complete
Unversioned == [kind |-> "unversioned"]  \* as load creates it
Database(index) == [kind |-> "index", index |-> index]

Usable(file) == file.kind = "index"

files == <<db, temp>>
outside == <<disk, clock, quiet>>
work == <<plan, todo, parsed, whole>>
counters == <<crashes, faults>>

Init ==
    /\ disk \in [Files -> [stamp : {0}, content : [id : {0}, includes : SUBSET Files]]]
    /\ \A f \in Files : disk[f].content.includes \in MayInclude[f]
    /\ clock = 1
    /\ db = Unversioned /\ temp = NoFile
    /\ running = TRUE /\ state = "EMPTY" /\ stage = "NONE"
    /\ task = "none" /\ plan = NoPlan
    /\ todo = {} /\ parsed = {}
    /\ quiet = FALSE /\ whole = FALSE
    /\ crashes = 0 /\ faults = 0

-----------------------------------------------------------------------------
(* The files of the project.                                               *)

MayEdit ==
    /\ clock <= MaxEdits
    /\ EditsWhileIndexing \/ task # "index"

Write(f, entry) ==
    /\ MayEdit
    /\ disk' = [disk EXCEPT ![f] = entry]
    /\ clock' = clock + 1
    /\ quiet' = FALSE
    /\ UNCHANGED <<files, running, state, stage, task, work, counters>>

(* A file is written, with another text or with the one it had.            *)
Edit(f) ==
    \E includes \in MayInclude[f], id \in {clock} \cup (IF Restores THEN 0 .. clock - 1 ELSE {}) :
        Write(f, [stamp |-> clock, content |-> [id |-> id, includes |-> includes]])

Touch(f) == Exists(disk, f) /\ Write(f, [stamp |-> clock, content |-> disk[f].content])

Delete(f) == Exists(disk, f) /\ Write(f, [stamp |-> NotADateTime, content |-> Absent])

-----------------------------------------------------------------------------
(* Project::refresh and the dialog it opens.                               *)

NeedsFullRefresh == state \in {"EMPTY", "DB_CORRUPTED"}

Refresh ==
    /\ running /\ stage = "NONE" /\ state # "NOT_LOADED"
    /\ stage' = "REFRESHING" /\ task' = "dialog"
    /\ plan' = NoPlan
    /\ UNCHANGED <<outside, files, running, state, todo, parsed, whole, counters>>

(* A refresh mode is shown: Project::getRefreshInfo.                       *)
GetRefreshInfo(mode) ==
    /\ running /\ task = "dialog" /\ plan = NoPlan
    /\ NeedsFullRefresh => mode = "all"
    /\ plan' = PlanFor(mode, db.index, disk)
    /\ quiet' = TRUE
    /\ UNCHANGED <<disk, clock, files, running, state, stage, task, todo, parsed,
                   whole, counters>>

Cancel ==
    /\ running /\ task = "dialog"
    /\ stage' = "NONE" /\ task' = "none"
    /\ UNCHANGED <<outside, files, running, state, work, counters>>

(* Rows that were never indexed do not count.                              *)
NothingToRefresh ==
    /\ plan.mode # "all"
    /\ \A f \in plan.toClear \cap Rows(db.index) : ~db.index.rows[f].indexed
    /\ plan.toIndex = {}

(* Project::buildIndex, up to the copy. copyFile and setup leave a file    *)
(* that is there as it is.                                                 *)
BuildIndex ==
    /\ running /\ task = "dialog" /\ plan # NoPlan
    /\ IF NothingToRefresh
       THEN /\ stage' = "NONE" /\ task' = "none"
            /\ UNCHANGED <<temp, todo, parsed, whole>>
       ELSE /\ UNCHANGED stage
            /\ temp' = IF temp # NoFile THEN temp
                       ELSE IF plan.mode = "all" THEN Unversioned ELSE HalfCopied
            /\ task' = "setup"
            /\ todo' = plan.toIndex
            /\ parsed' = {}
            /\ whole' = TRUE
    /\ UNCHANGED <<outside, db, running, state, plan, counters>>

SetUp ==
    /\ running /\ task = "setup"
    /\ temp' = CASE temp = HalfCopied -> db
                 [] temp = Unversioned -> Database(EmptyIndex)
                 [] OTHER -> temp
    /\ stage' = "INDEXING" /\ task' = "clean"
    /\ UNCHANGED <<outside, db, running, state, work, counters>>

-----------------------------------------------------------------------------
(* The indexing task.                                                      *)

(* TaskCleanStorage, which is there when there are files to clear.         *)
CleanStorage ==
    /\ running /\ task = "clean"
    /\ temp' = IF plan.toClear = {} THEN temp ELSE Database(Clear(temp.index, plan.toClear))
    /\ task' = "index"
    /\ UNCHANGED <<outside, db, running, state, stage, work, counters>>

(* An indexer process reads a source file; the file may have gone.         *)
IndexFile(s) ==
    /\ running /\ task = "index" /\ s \in todo
    /\ todo' = todo \ {s}
    /\ parsed' = IF Exists(disk, s) THEN parsed \cup {[crashed |-> FALSE, storage |-> Parse(disk, s)]}
                 ELSE parsed
    /\ UNCHANGED <<outside, files, running, state, stage, task, plan, whole, counters>>

Fault ==
    /\ faults < MaxFaults
    /\ faults' = faults + 1
    /\ UNCHANGED crashes

(* The process dies: TaskBuildIndex leaves an error and a row for the file. *)
IndexerDies(s) ==
    /\ running /\ task = "index" /\ s \in todo
    /\ Fault
    /\ todo' = todo \ {s}
    /\ parsed' = parsed \cup {[crashed |-> TRUE, source |-> s]}
    /\ whole' = FALSE
    /\ UNCHANGED <<outside, files, running, state, stage, task, plan>>

(* The user stops the indexing: what is on its way may be thrown away.     *)
Stop ==
    /\ running /\ task = "index" /\ (todo # {} \/ parsed # {})
    /\ Fault
    /\ todo' = {}
    /\ \E kept \in SUBSET parsed : parsed' = kept
    /\ whole' = FALSE
    /\ UNCHANGED <<outside, files, running, state, stage, task, plan>>

(* TaskInjectStorage.                                                      *)
Inject ==
    /\ running /\ task = "index"
    /\ \E p \in parsed :
          /\ p.crashed => todo = {}
          /\ parsed' = parsed \ {p}
          /\ temp' = Database(IF p.crashed THEN InjectCrash(temp.index, disk, p.source)
                              ELSE InjectInto(temp.index, disk, p.storage))
    /\ UNCHANGED <<outside, db, running, state, stage, task, plan, todo, whole, counters>>

(* TaskFinishParsing asks; closing its window discards the new index.      *)
FinishParsing ==
    /\ running /\ task = "index" /\ todo = {} /\ parsed = {}
    /\ task' \in {"swap", "discard"}
    /\ UNCHANGED <<outside, files, running, state, stage, work, counters>>

(* swapToTempStorageFile: remove, which tells of no failure, and rename,   *)
(* which does nothing when there is still a file of that name.             *)
RemoveOld ==
    /\ running /\ task = "swap"
    /\ \/ db' = NoFile
       \/ SwapMayFail /\ UNCHANGED db
    /\ task' = "rename"
    /\ UNCHANGED <<outside, temp, running, state, stage, work, counters>>

Rename ==
    /\ running /\ task = "rename"
    /\ IF db = NoFile
       THEN db' = temp /\ temp' = NoFile
       ELSE UNCHANGED files
    /\ state' = "LOADED"
    /\ task' = "swapped"
    /\ UNCHANGED <<outside, running, stage, work, counters>>

DiscardTempStorage ==
    /\ running /\ task = "discard"
    /\ temp' = NoFile
    /\ task' = "discarded"
    /\ UNCHANGED <<outside, db, running, state, stage, work, counters>>

EndRefresh ==
    /\ running /\ task \in {"swapped", "discarded"}
    /\ task' = "none"
    /\ stage' = "NONE"
    /\ UNCHANGED <<outside, files, running, state, work, counters>>

(* As Throw, but the stage is reset, and the temporary database stays.     *)
MutantThrow ==
    /\ running /\ task \in {"setup", "clean", "index", "swap", "discard"}
    /\ Fault
    /\ task' = "none" /\ stage' = "NONE"
    /\ todo' = {} /\ parsed' = {}
    /\ UNCHANGED <<outside, files, running, state, plan, whole>>

(* A task of the scheduler throws: all that are queued are dropped, this   *)
(* one too, and nothing resets the stage.                                  *)
Throw ==
    /\ running /\ task \in {"setup", "clean", "index", "swap", "discard"}
    /\ Fault
    /\ task' = "none"
    /\ todo' = {} /\ parsed' = {}
    /\ UNCHANGED <<outside, files, running, state, stage, plan, whole>>

-----------------------------------------------------------------------------
(* The application ends, by itself or not, and loads the project again.    *)

Crash ==
    /\ running /\ crashes < MaxCrashes
    /\ crashes' = crashes + 1
    /\ running' = FALSE
    /\ task' = "none" /\ stage' = "NONE" /\ state' = "NOT_LOADED"
    /\ plan' = NoPlan /\ todo' = {} /\ parsed' = {}
    /\ quiet' = FALSE /\ whole' = FALSE
    /\ UNCHANGED <<disk, clock, files, faults>>

(* What Project::load makes of the database file it finds.                 *)
StateOf(file) ==
    CASE file = HalfCopied -> {"DB_CORRUPTED", "NOT_LOADED"}
      [] file = Unversioned -> {"EMPTY"}
      [] OTHER -> {"LOADED"}

(* As Load, but a temporary file that is alone is removed.                 *)
MutantLoad ==
    /\ ~running
    /\ running' = TRUE
    /\ temp' = NoFile
    /\ db' \in IF db = NoFile THEN {Unversioned}
               ELSE IF temp = NoFile THEN {db} ELSE {temp, db}
    /\ state' \in StateOf(db')
    /\ UNCHANGED <<outside, stage, task, work, counters>>

(* A temporary file that is found is renamed when it is alone; otherwise   *)
(* the user chooses between Keep and Continue and Discard and Restore.     *)
Load ==
    /\ ~running
    /\ running' = TRUE
    /\ temp' = NoFile
    /\ db' \in IF temp = NoFile THEN {IF db = NoFile THEN Unversioned ELSE db}
               ELSE IF db = NoFile THEN {temp}
               ELSE {temp, db}
    /\ state' \in StateOf(db')
    /\ UNCHANGED <<outside, stage, task, work, counters>>

Next ==
    \/ \E f \in Files : Edit(f) \/ Touch(f) \/ Delete(f)
    \/ Refresh
    \/ \E mode \in {"all", "updated", "incomplete"} : GetRefreshInfo(mode)
    \/ Cancel
    \/ BuildIndex
    \/ SetUp
    \/ CleanStorage
    \/ \E s \in Sources : IndexFile(s) \/ IndexerDies(s)
    \/ Stop
    \/ Inject
    \/ FinishParsing
    \/ RemoveOld
    \/ Rename
    \/ DiscardTempStorage
    \/ EndRefresh
    \/ Throw
    \/ Crash
    \/ Load

Spec == Init /\ [][Next]_vars

-----------------------------------------------------------------------------
(* A file that was gone when its row was made has no time to compare with. *)
Timeless(index) ==
    \E f \in IndexedFiles(index) : index.rows[f].stamp = NotADateTime

(* A refresh that nothing disturbed (no change on disk since the plan was  *)
(* worked out, no stop, no dead indexer) is about to put in place all that *)
(* indexing every source file would give, apart from relations cleared     *)
(* with a file that named the symbols of another, and nothing that is out  *)
(* of date, whatever stops, crashes, recoveries and unfinished refreshes   *)
(* went before. A refresh of the updated files does so when no file is     *)
(* incomplete; and no refresh sees to an error in a file whose row says    *)
(* that it is complete. A file that no source file includes any more does  *)
(* not stay, unless a refresh of the incomplete files left it.             *)
RefreshMatchesFull ==
    /\ task = "swap" /\ quiet /\ whole
    /\ Marked(temp.index) /\ ~Timeless(temp.index)
    /\ plan.mode = "updated" => \A f \in Rows(temp.index) : temp.index.rows[f].complete
    => /\ Covers(temp.index, disk) /\ Current(temp.index, disk)
       /\ plan.mode # "incomplete" /\ (Usable(db) => Rooted(db.index)) => Rooted(temp.index)

(* No temporary database outlives the refresh that made it: whoever may    *)
(* start another refresh starts it without leftovers.                      *)
NoLeftover == running /\ stage = "NONE" => temp = NoFile

(* The next start finds an index, unless the user is asked and says so.    *)
Safe == Usable(db) \/ (db = NoFile /\ Usable(temp))

(* An index that is there is lost by no step of a refresh and by no kill,  *)
(* in whatever step: only by a user who keeps, on the next start, a        *)
(* temporary database whose set-up had not ended.                          *)
IndexSurvives ==
    [][Safe => \/ Safe'
               \/ ~running /\ temp # NoFile /\ ~Usable(temp) /\ db' = temp]_vars

(* "You can either choose to keep the data that has already been indexed   *)
(* or discard that data and restore the state of your project before       *)
(* indexing": the user who keeps a database that was not set up keeps      *)
(* neither.                                                                *)
EitherIsKept == [][Safe => Safe']_vars

(* The dialog says that there is nothing to refresh.                       *)
UpToDate ==
    /\ task = "dialog" /\ plan # NoPlan /\ quiet
    /\ plan.mode = "updated" /\ NothingToRefresh

(* "Reindexes all files that were modified since the last indexing": when  *)
(* nothing is left to refresh, what the project shows of a file is found   *)
(* in the file, if the row of the file has a time to compare with.         *)
NothingMissed ==
    UpToDate => \A a \in db.index.facts :
                    \/ db.index.rows[a.file].stamp = NotADateTime
                    \/ disk[a.file].content = a.content

(* The same of every file: an indexer process may die over a file that is  *)
(* gone, whose row then has no time, and that comes back.                  *)
NothingEverMissed ==
    UpToDate => \A a \in db.index.facts : disk[a.file].content = a.content

=============================================================================
