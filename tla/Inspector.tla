------------------------------ MODULE Inspector ------------------------------
(***************************************************************************)
(* The panel that shows source and diff of what is selected: the effect    *)
(* and inspectOccurrence of Inspector.tsx, with loadSource,                *)
(* loadSourceRange and loadDiff of api.ts and the routes that answer them. *)
(*                                                                         *)
(* A version is a state of the repository; a generation is named by the    *)
(* version its analyzer read.  React renders a change and runs the effect  *)
(* for it in one step, before it looks at any further answer.              *)
(***************************************************************************)
EXTENDS Integers

CONSTANTS
    Nodes, Edges,   \* what may be selected
    Occurrences,    \* source locations of an edge
    Bases,          \* Git references
    Nothing,        \* no selection, no occurrence, no evidence, no answer
    GraphAt,        \* the nodes and edges of every generation
    MaxVersion,     \* bound: versions
    MaxRequests     \* bound: the counter evidenceRequest

Versions == 0 .. MaxVersion

ASSUME InspectorAssumption ==
    /\ MaxVersion \in Nat /\ MaxRequests \in Nat
    /\ GraphAt \in [Versions -> SUBSET (Nodes \cup Edges)]
    /\ Nodes \cap Edges = {}
    /\ Nothing \notin Nodes \cup Edges \cup Occurrences \cup Versions

VARIABLES
    disk,            \* the version on disk
    generation,      \* the version published by the server
    view,            \* the props document, gitBase and selectedId
    occurrence,      \* history: the occurrence asked for since the effect ran
    evidenceRequest, \* the counter of the same name
    requests,        \* requests not yet settled
    sourceEvidence, diffEvidence, evidenceError

serverVars == <<disk, generation>>
evidenceVars == <<sourceEvidence, diffEvidence, evidenceError>>
inspectorVars == <<serverVars, view, occurrence, evidenceRequest, requests, evidenceVars>>

Views ==
    [document : Versions, gitBase : Bases, selected : Nodes \cup Edges \cup {Nothing}]

(* What evidence is evidence of.                                           *)
Subjects == [view : Views, occurrence : Occurrences \cup {Nothing}]

Present == [view |-> view, occurrence |-> occurrence]

(* Evidence: what it is of, and the version the server took it from.       *)
Evidence == [of : Subjects, version : Versions]

(* diff is asked for together with source, but not for an occurrence.      *)
Requests ==
    [number : Nat, of : Subjects,
     source : Versions \cup {Nothing}, diff : Versions \cup {Nothing}]

Request(number, subject) ==
    [number |-> number, of |-> subject, source |-> Nothing, diff |-> Nothing]

Shows(kind) == view.selected \in kind /\ view.selected \in GraphAt[view.document]

NoEvidence == sourceEvidence' = Nothing /\ diffEvidence' = Nothing /\ evidenceError' = FALSE

-----------------------------------------------------------------------------
(* The cleanup of the effect before counts once, and the effect again.     *)
EffectRuns ==
    /\ evidenceRequest' = evidenceRequest + 2
    /\ occurrence' = Nothing
    /\ NoEvidence
    /\ requests' = requests \cup
            IF Shows(Nodes)' THEN {Request(evidenceRequest', Present')} ELSE {}

Select(item) ==
    /\ item # view.selected
    /\ evidenceRequest + 2 <= MaxRequests
    /\ view' = [view EXCEPT !.selected = item]
    /\ EffectRuns
    /\ UNCHANGED serverVars

ChooseBase(base) ==
    /\ base # view.gitBase
    /\ evidenceRequest + 2 <= MaxRequests
    /\ view' = [view EXCEPT !.gitBase = base]
    /\ EffectRuns
    /\ UNCHANGED serverVars

(* refresh() has brought a document, not always the newest (CanvasRefresh);*)
(* one of the same generation is a new object, too.                        *)
DocumentArrives(version) ==
    /\ version <= generation
    /\ evidenceRequest + 2 <= MaxRequests
    /\ view' = [view EXCEPT !.document = version]
    /\ EffectRuns
    /\ UNCHANGED serverVars

(* Locations are on offer for an edge only; its diff is never asked for.   *)
InspectOccurrence(place) ==
    /\ Shows(Edges)
    /\ evidenceRequest < MaxRequests
    /\ evidenceRequest' = evidenceRequest + 1
    /\ occurrence' = place
    /\ sourceEvidence' = Nothing
    /\ evidenceError' = FALSE
    /\ requests' = requests \cup
            {Request(evidenceRequest', [view |-> view, occurrence |-> place])}
    /\ UNCHANGED <<serverVars, view, diffEvidence>>

-----------------------------------------------------------------------------
(* The server.                                                             *)

Edit ==
    /\ disk < MaxVersion
    /\ disk' = disk + 1
    /\ UNCHANGED <<generation, view, occurrence, evidenceRequest, requests, evidenceVars>>

(* A reindex read the disk some time since the generation before.          *)
Publish ==
    /\ generation' \in generation + 1 .. disk
    /\ UNCHANGED <<disk, view, occurrence, evidenceRequest, requests, evidenceVars>>

Answered(r, answered) ==
    /\ requests' = (requests \ {r}) \cup {answered}
    /\ UNCHANGED <<serverVars, view, occurrence, evidenceRequest, evidenceVars>>

(* GET /source reads the file as it is on disk, whatever the generation.   *)
SourceHandled(r) ==
    /\ r.source = Nothing
    /\ Answered(r, [r EXCEPT !.source = disk])

(* GET /git/diff compares the base with the published graph.               *)
DiffHandled(r) ==
    /\ r.of.occurrence = Nothing
    /\ r.diff = Nothing
    /\ Answered(r, [r EXCEPT !.diff = generation])

-----------------------------------------------------------------------------
(* The answers.                                                            *)

(* Mutant of Current: a request is of the present selection if it names it.*)
MutantCurrent(r) == r.of.view.selected = view.selected

Current(r) == r.number = evidenceRequest

Settled(r) ==
    /\ requests' = requests \ {r}
    /\ UNCHANGED <<serverVars, view, occurrence, evidenceRequest>>

(* Promise.all waits for both answers.                                     *)
EvidenceLoaded(r) ==
    /\ r.of.occurrence = Nothing
    /\ r.source # Nothing /\ r.diff # Nothing
    /\ Settled(r)
    /\ IF Current(r)
       THEN /\ sourceEvidence' = [of |-> r.of, version |-> r.source]
            /\ diffEvidence' = [of |-> r.of, version |-> r.diff]
            /\ UNCHANGED evidenceError
       ELSE UNCHANGED evidenceVars

OccurrenceLoaded(r) ==
    /\ r.of.occurrence # Nothing
    /\ r.source # Nothing
    /\ Settled(r)
    /\ IF Current(r)
       THEN /\ sourceEvidence' = [of |-> r.of, version |-> r.source]
            /\ UNCHANGED <<diffEvidence, evidenceError>>
       ELSE UNCHANGED evidenceVars

(* Mutant of RequestFailed: no catch.                                      *)
MutantRequestFailed(r) == Settled(r) /\ UNCHANGED evidenceVars

(* Any part of a request may fail, whether or not others are answered.     *)
RequestFailed(r) ==
    /\ Settled(r)
    /\ evidenceError' = (evidenceError \/ Current(r))
    /\ UNCHANGED <<sourceEvidence, diffEvidence>>

-----------------------------------------------------------------------------
InspectorInit ==
    /\ disk \in Versions
    /\ generation \in 0 .. disk
    /\ \E d \in 0 .. generation, base \in Bases :
            view = [document |-> d, gitBase |-> base, selected |-> Nothing]
    /\ occurrence = Nothing
    /\ evidenceRequest = 1
    /\ requests = {}
    /\ sourceEvidence = Nothing /\ diffEvidence = Nothing /\ evidenceError = FALSE

ViewChanges ==
    \/ \E item \in Nodes \cup Edges \cup {Nothing} : Select(item)
    \/ \E base \in Bases : ChooseBase(base)
    \/ \E version \in Versions : DocumentArrives(version)

Handled(r) == SourceHandled(r) \/ DiffHandled(r)

Received(r) == EvidenceLoaded(r) \/ OccurrenceLoaded(r) \/ RequestFailed(r)

InspectorNext ==
    \/ ViewChanges
    \/ \E place \in Occurrences : InspectOccurrence(place)
    \/ Edit \/ Publish
    \/ \E r \in requests : Handled(r) \/ Received(r)

InspectorSpec == InspectorInit /\ [][InspectorNext]_inspectorVars

(* Requests are answered, or known to have failed.                         *)
FairInspectorSpec ==
    InspectorSpec /\ WF_inspectorVars(\E r \in requests : Handled(r) \/ Received(r))

-----------------------------------------------------------------------------
(* The shapes of the variables.                                            *)
InspectorTypeOK ==
    /\ disk \in Versions /\ generation \in 0 .. disk
    /\ view \in Views /\ view.document <= generation
    /\ occurrence \in Occurrences \cup {Nothing}
    /\ evidenceRequest \in Nat
    /\ requests \subseteq Requests
    /\ {sourceEvidence, diffEvidence} \subseteq Evidence \cup {Nothing}
    /\ evidenceError \in BOOLEAN

(* What is shown is evidence of what is selected, of the document, base    *)
(* and occurrence on show (docs/USAGE.md:340-341, docs/TECHNICAL.md:217):  *)
(* in whatever order answers arrive, also when a selection, a base or an   *)
(* occurrence is left and taken up again.                                  *)
EvidenceIsOfThePresent ==
    /\ sourceEvidence # Nothing => sourceEvidence.of = Present
    /\ diffEvidence # Nothing => diffEvidence.of = [Present EXCEPT !.occurrence = Nothing]

(* Neither is older than the graph on show: the document may go back and   *)
(* forth between generations, the evidence was taken at its version or     *)
(* later (Inspector.tsx:59).                                               *)
EvidenceNotOlder ==
    /\ sourceEvidence # Nothing => sourceEvidence.version >= view.document
    /\ diffEvidence # Nothing => diffEvidence.version >= view.document

(* Guarding against old answers leaves no panel loading for ever: when     *)
(* selecting ceases, the evidence or an error comes to be shown.           *)
EvidenceArrives ==
    <>[][view' = view /\ evidenceRequest' = evidenceRequest]_inspectorVars =>
        <>[](Shows(Nodes) \/ occurrence # Nothing => sourceEvidence # Nothing \/ evidenceError)
=============================================================================
