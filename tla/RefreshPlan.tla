----------------------------- MODULE RefreshPlan -----------------------------
(***************************************************************************)
(* Which files a refresh of a project clears from the index and indexes    *)
(* again (RefreshInfoGenerator), what clearing does to the index           *)
(* (SqliteIndexStorage), and what indexing a source file adds to it.       *)
(*                                                                         *)
(* An index keeps of each file a row (modification time and text, both     *)
(* read when the file is injected, not when it is parsed), its includes,   *)
(* and its facts: the relations found in it, of the text that was parsed.  *)
(* All files are within the indexed paths; C++ includes stand for imports. *)
(***************************************************************************)
EXTENDS Integers, FiniteSets

CONSTANTS
    Files,      \* the files of the project
    Sources,    \* those that a source group lists, when they exist
    Mentions,   \* <<f, g>>: f, which includes g, names a symbol of g
    Absent,     \* the content of a file that does not exist
    MayInclude  \* MayInclude[f]: the sets of files that f may include

ASSUME RefreshAssumption ==
    /\ IsFiniteSet(Files)
    /\ Sources \subseteq Files
    /\ Mentions \subseteq Files \X Files
    /\ Absent \notin [id : Nat, includes : SUBSET Files]
    /\ MayInclude \in [Files -> SUBSET SUBSET Files]

(* A content is a record [id, includes].                                   *)
Includes(disk, f) ==
    IF disk[f].content = Absent THEN {} ELSE disk[f].content.includes

Exists(disk, f) == disk[f].content # Absent

(* A modification time of a file that was not there: it compares with none. *)
NotADateTime == -1

Later(stamp, other) == NotADateTime \notin {stamp, other} /\ stamp > other

-----------------------------------------------------------------------------
(* PersistentStorage: the loops that follow the edges of the index.        *)

Follow(relation, X) == {e[2] : e \in {r \in relation : r[1] \in X}}

(* All that is reached from X, in one step or more.                        *)
Reached(relation, X) ==
    LET within[n \in Nat] ==
            IF n = 0 THEN Follow(relation, X)
            ELSE LET before == within[n - 1]
                 IN  before \cup Follow(relation, before)
    IN  within[Cardinality(Files)]

GetReferenced(index, X) == Reached(index.edges, X)

GetReferencing(index, X) == Reached({<<e[2], e[1]>> : e \in index.edges}, X)

-----------------------------------------------------------------------------
(* RefreshInfoGenerator.                                                   *)

Rows(index) == DOMAIN index.rows

DidFileChange(index, disk, f) ==
    /\ Exists(disk, f)
    /\ Later(disk[f].stamp, index.rows[f].stamp)
    /\ ~index.rows[f].indexed \/ disk[f].content # index.rows[f].content

Unchanged(index, disk) ==
    {f \in Rows(index) :
        Exists(disk, f) /\ index.rows[f].indexed /\ ~DidFileChange(index, disk, f)}

(* A file that does not exist, and was not indexed, is left alone.         *)
Changed(index, disk) ==
    {f \in Rows(index) \ Unchanged(index, disk) :
        Exists(disk, f) \/ index.rows[f].indexed}

AllSources(disk) == {s \in Sources : Exists(disk, s)}

ForAllFiles(disk) == [mode |-> "all", toClear |-> {}, toIndex |-> AllSources(disk)]

(* As ForUpdatedFiles, but files that may be included no more stay.        *)
MutantForUpdatedFiles(index, disk) ==
    LET changed == Changed(index, disk)
        affected == changed \cup GetReferencing(index, changed)
    IN  [mode    |-> "updated",
         toClear |-> affected,
         toIndex |-> AllSources(disk) \ (Unchanged(index, disk) \ affected)]

ForUpdatedFiles(index, disk) ==
    LET changed == Changed(index, disk)
        affected == changed \cup GetReferencing(index, changed)
        static == AllSources(disk) \ affected
        orphaned == GetReferenced(index, affected)
                        \ (GetReferenced(index, static) \cup static)
        clear == affected \cup orphaned
    IN  [mode    |-> "updated",
         toClear |-> clear,
         toIndex |-> AllSources(disk) \ (Unchanged(index, disk) \ clear)]

(* filterToContainedSourceFilePath keeps the paths that are not in its     *)
(* argument, which holds those that are not wanted.                        *)
ForIncompleteFiles(index, disk) ==
    LET info == ForUpdatedFiles(index, disk)
        bad == {f \in Rows(index) : ~index.rows[f].complete} \ info.toClear
        incomplete == bad \cup GetReferencing(index, bad)
    IN  [mode    |-> "incomplete",
         toClear |-> info.toClear \cup incomplete,
         toIndex |-> info.toIndex \cup (AllSources(disk) \cap incomplete)]

PlanFor(mode, index, disk) ==
    CASE mode = "all" -> ForAllFiles(disk)
      [] mode = "updated" -> ForUpdatedFiles(index, disk)
      [] mode = "incomplete" -> ForIncompleteFiles(index, disk)

-----------------------------------------------------------------------------
(* The index.                                                              *)

EmptyIndex ==
    [rows |-> [f \in {} |-> Absent], edges |-> {}, facts |-> {}, errors |-> {}]

(* removeElementsWithLocationInFiles deletes the relations of a symbol     *)
(* that a cleared file names, wherever they were found.                    *)
Clear(index, X) ==
    [rows   |-> [f \in Rows(index) \ X |-> index.rows[f]],
     edges  |-> {e \in index.edges : e[1] \notin X /\ e[2] \notin X},
     facts  |-> {a \in index.facts :
                    a.file \notin X
                    /\ \A x \in X : <<x, a.file>> \notin index.edges \cap Mentions},
     errors |-> index.errors \ X]

(* The storage made of a source file: what its translation unit reads.     *)
Parse(disk, s) ==
    LET all == {e \in Files \X Files : e[2] \in Includes(disk, e[1])}
        found == {e \in all : Exists(disk, e[2])}
        unit == {f \in Files : f = s \/ f \in Reached(found, {s})}
        errors == {f \in unit : ~Exists(disk, f) \/ \E g \in Includes(disk, f) : ~Exists(disk, g)}
    IN  [files  |-> unit,
         edges  |-> {e \in found : e[1] \in unit},
         facts  |-> {[file |-> f, content |-> disk[f].content] :
                        f \in {g \in unit : Exists(disk, g)}},
         errors |-> errors]

(* As Row, but a row that is there gets the time and text of today.        *)
MutantRow(index, disk, storage, f) ==
    [stamp    |-> IF Exists(disk, f) THEN disk[f].stamp ELSE NotADateTime,
     content  |-> disk[f].content,
     indexed  |-> TRUE,
     complete |-> storage.errors = {}]

(* A row that is there keeps its time and text. Its completeness follows   *)
(* the storage, unless errors found earlier say otherwise.                 *)
Row(index, disk, storage, f) ==
    LET complete == storage.errors = {}
    IN  IF f \notin Rows(index)
        THEN [stamp    |-> IF Exists(disk, f) THEN disk[f].stamp ELSE NotADateTime,
              content  |-> disk[f].content,
              indexed  |-> TRUE,
              complete |-> complete]
        ELSE [index.rows[f] EXCEPT
                 !.indexed = TRUE,
                 !.complete = IF (f \in index.errors) = complete THEN @ ELSE complete]

InjectInto(index, disk, storage) ==
    [rows   |-> [f \in Rows(index) \cup storage.files |->
                    IF f \in storage.files THEN Row(index, disk, storage, f)
                    ELSE index.rows[f]],
     edges  |-> index.edges \cup storage.edges,
     facts  |-> index.facts \cup storage.facts,
     errors |-> index.errors \cup storage.errors]

(* A file whose process died: its row says that it is not indexed, and it  *)
(* has an error. A row that is there stays, and counts as complete unless  *)
(* there was an error in the file before.                                  *)
InjectCrash(index, disk, s) ==
    LET row == IF s \in Rows(index)
               THEN [index.rows[s] EXCEPT !.complete = @ \/ s \notin index.errors]
               ELSE [stamp    |-> disk[s].stamp,
                     content  |-> Absent,
                     indexed  |-> FALSE,
                     complete |-> TRUE]
    IN  [index EXCEPT
            !.rows = [f \in Rows(index) \cup {s} |-> IF f = s THEN row ELSE index.rows[f]],
            !.errors = @ \cup {s}]

(* What indexing every source file into an empty index gives.              *)
FullIndex(disk) ==
    LET units == {Parse(disk, s) : s \in AllSources(disk)}
    IN  [files |-> UNION {u.files : u \in units},
         edges |-> UNION {u.edges : u \in units},
         facts |-> UNION {u.facts : u \in units}]

IndexedFiles(index) == {f \in Rows(index) : index.rows[f].indexed}

(* A file named the symbols of f, and includes it no more: what was found  *)
(* in f may have been cleared together with that file.                     *)
Robbed(index, f) == \E x \in Files : <<x, f>> \in Mentions \ index.edges

(* The index has all that indexing every source file would give.           *)
Covers(index, disk) ==
    LET full == FullIndex(disk)
    IN  /\ full.files \subseteq IndexedFiles(index)
        /\ full.edges \subseteq index.edges
        /\ \A a \in full.facts : a \in index.facts \/ Robbed(index, a.file)

(* Nothing in the index is of a text that a file has no more.              *)
Current(index, disk) ==
    /\ \A a \in index.facts : disk[a.file].content = a.content
    /\ \A e \in index.edges : e[2] \in Includes(disk, e[1])

(* Each file that was read is a source file, or included by those that     *)
(* were read.                                                              *)
Roots(index) == IndexedFiles(index) \cap Sources

Rooted(index) == IndexedFiles(index) \subseteq Roots(index) \cup GetReferenced(index, Roots(index))

(* Each file that has an error counts as incomplete.                       *)
Marked(index) == \A f \in Rows(index) : index.rows[f].complete => f \notin index.errors

=============================================================================
