---------------------------- MODULE CanvasRefresh ----------------------------
(***************************************************************************)
(* How the page comes to show a generation: refresh(), the polling of the  *)
(* status, and the choice of a Git base (App.tsx, with loadGraph and       *)
(* loadStatus of api.ts).  Requests may be answered in any order, and any  *)
(* of them may fail.                                                       *)
(*                                                                         *)
(* A document is the generation it shows and the base it is compared with. *)
(* Of the preferences a configuration publishes the Git base stands for    *)
(* all: the others are applied in the same step.                           *)
(***************************************************************************)
EXTENDS HostState, FiniteSets

CONSTANTS
    Bases,          \* Git references
    Head,           \* "HEAD", the base the page begins with
    Nothing,        \* no document, no answer, no request
    MaxGeneration,  \* bound: generations
    MaxClicks,      \* bound: bases chosen and refreshes asked for
    MaxCalls        \* bound: calls of refresh() under way at once

ASSUME CanvasAssumption ==
    /\ Head \in Bases
    /\ MaxGeneration \in Nat /\ MaxClicks \in Nat /\ MaxCalls \in Nat \ {0}
    /\ Nothing \notin Bases

VARIABLES
    gitBase,    \* the base selected
    applied,    \* appliedPreferences
    document,   \* graphDocument
    error,      \* the last refresh failed
    indexError, \* the last poll brought an error, or failed
    refreshes,  \* the calls of refresh() that have not returned
    poll,       \* the poll of the present effect
    clicks      \* history: what the reader has asked for so far

pageVars == <<gitBase, applied, document, error, indexError, refreshes, poll, clicks>>
canvasVars == <<host, pageVars>>

Preferences == [gitBase : Bases]

Calls == 1 .. MaxCalls

Idle == [stage |-> "idle", about |-> Nothing]
Asked(status) == [stage |-> "asked", about |-> status]
Waits(c) == [stage |-> "waits", about |-> c]
Launch == [stage |-> "launch", about |-> Nothing]

-----------------------------------------------------------------------------
(* The server, as the mutators of HostState let it move.                   *)
ServerMoves ==
    LET done == {IndexingFailed(host)} \cup
                {IndexingSucceeded(host, p) : p \in Preferences}
    IN  /\ \/ host' \in Restarted(host)
           \/ /\ host.indexState = "indexing"
              /\ \E h \in done : host' \in {h} \cup Restarted(h)
        /\ host'.generation <= MaxGeneration
        /\ UNCHANGED pageVars

-----------------------------------------------------------------------------
(* refresh().                                                              *)

FreeCalls == {c \in Calls : refreshes[c] = Nothing}
NextCall == CHOOSE c \in FreeCalls : \A d \in FreeCalls : c <= d

(* A call of refresh() for base, beside the calls in rs.                   *)
Calling(rs, c, base) == [rs EXCEPT ![c] = [base |-> base, answer |-> Nothing]]

(* GET /graph: one StateView, and the comparison with the base asked for.  *)
GraphHandled(c) ==
    /\ refreshes[c] # Nothing /\ refreshes[c].answer = Nothing
    /\ refreshes' = [refreshes EXCEPT ![c].answer =
                        [revision |-> host.generation, preferred |-> host.config.gitBase]]
    /\ UNCHANGED <<host, gitBase, applied, document, error, indexError, poll, clicks>>

(* The answer becomes the document, whatever is shown already.  New        *)
(* preferences select their base, and a new base refreshes again.  Either  *)
(* way the effect that polls is set up anew.                               *)
GraphReceived(c) ==
    /\ refreshes[c] # Nothing /\ refreshes[c].answer # Nothing
    /\ LET answer == refreshes[c].answer
           selected == IF answer.preferred # applied THEN answer.preferred ELSE gitBase
       IN  /\ applied' = answer.preferred
           /\ gitBase' = selected
           /\ document' = [revision |-> answer.revision, base |-> refreshes[c].base]
           /\ refreshes' = IF selected = gitBase
                           THEN [refreshes EXCEPT ![c] = Nothing]
                           ELSE Calling(refreshes, c, selected)
    /\ error' = FALSE
    /\ poll' = Idle
    /\ UNCHANGED <<host, indexError, clicks>>

(* Mutant of GraphFailed: no finally; the poll that waits is not over.     *)
MutantGraphFailed(c) ==
    /\ refreshes[c] # Nothing
    /\ refreshes' = [refreshes EXCEPT ![c] = Nothing]
    /\ error' = TRUE
    /\ UNCHANGED <<host, gitBase, applied, document, indexError, poll, clicks>>

GraphFailed(c) ==
    /\ refreshes[c] # Nothing
    /\ refreshes' = [refreshes EXCEPT ![c] = Nothing]
    /\ error' = TRUE
    /\ poll' = IF poll.stage = "waits" /\ poll.about = c THEN Launch ELSE poll
    /\ UNCHANGED <<host, gitBase, applied, document, indexError, clicks>>

-----------------------------------------------------------------------------
(* The polling effect: one poll at a time.  A poll whose effect has been   *)
(* set up anew goes on without consequence and is forgotten here.          *)

PollAsks ==
    /\ document # Nothing
    /\ poll.stage = "idle"
    /\ poll' = Asked([generation |-> host.generation, failing |-> host.lastError])
    /\ UNCHANGED <<host, gitBase, applied, document, error, indexError, refreshes, clicks>>

(* Mutant of StatusReceived: the error is looked at with a new generation. *)
MutantStatusReceived ==
    /\ poll.stage = "asked"
    /\ FreeCalls # {}
    /\ IF poll.about.generation # document.revision
       THEN /\ indexError' = poll.about.failing
            /\ poll' = Waits(NextCall)
            /\ refreshes' = Calling(refreshes, NextCall, gitBase)
       ELSE /\ poll' = Launch
            /\ UNCHANGED <<indexError, refreshes>>
    /\ UNCHANGED <<host, gitBase, applied, document, error, clicks>>

StatusReceived ==
    /\ poll.stage = "asked"
    /\ FreeCalls # {}
    /\ indexError' = poll.about.failing
    /\ IF poll.about.generation # document.revision
       THEN /\ poll' = Waits(NextCall)
            /\ refreshes' = Calling(refreshes, NextCall, gitBase)
       ELSE /\ poll' = Launch
            /\ UNCHANGED refreshes
    /\ UNCHANGED <<host, gitBase, applied, document, error, clicks>>

(* The end of a poll asks for the launch configuration (LaunchControl).    *)
PollEnds ==
    /\ poll.stage = "launch"
    /\ poll' = Idle
    /\ UNCHANGED <<host, gitBase, applied, document, error, indexError, refreshes, clicks>>

PollFails ==
    /\ poll.stage \in {"asked", "launch"}
    /\ poll' = Idle
    /\ indexError' = TRUE
    /\ UNCHANGED <<host, gitBase, applied, document, error, refreshes, clicks>>

-----------------------------------------------------------------------------
(* What the reader does.                                                   *)

(* The base is part of refresh, whose change calls it and resets the poll. *)
ChooseBase(base) ==
    /\ document # Nothing
    /\ base # gitBase
    /\ clicks < MaxClicks /\ FreeCalls # {}
    /\ clicks' = clicks + 1
    /\ gitBase' = base
    /\ refreshes' = Calling(refreshes, NextCall, base)
    /\ poll' = Idle
    /\ UNCHANGED <<host, applied, document, error, indexError>>

(* The Refresh button and, without a document, "Try again".                *)
AskRefresh ==
    /\ document # Nothing \/ error
    /\ clicks < MaxClicks /\ FreeCalls # {}
    /\ clicks' = clicks + 1
    /\ refreshes' = Calling(refreshes, NextCall, gitBase)
    /\ UNCHANGED <<host, gitBase, applied, document, error, indexError, poll>>

-----------------------------------------------------------------------------
CanvasInit ==
    /\ \E p \in Preferences : host = InitialHost(p)
    /\ gitBase = Head
    /\ applied = Nothing
    /\ document = Nothing
    /\ error = FALSE
    /\ indexError = FALSE
    /\ refreshes = [c \in Calls |-> IF c = 1 THEN [base |-> Head, answer |-> Nothing] ELSE Nothing]
    /\ poll = Idle
    /\ clicks = 0

CanvasNext ==
    \/ ServerMoves
    \/ \E c \in Calls : GraphHandled(c) \/ GraphReceived(c) \/ GraphFailed(c)
    \/ PollAsks \/ StatusReceived \/ PollEnds \/ PollFails
    \/ \E base \in Bases : ChooseBase(base)
    \/ AskRefresh

CanvasSpec == CanvasInit /\ [][CanvasNext]_canvasVars

(* Every request is handled, and answered or known to have failed; of      *)
(* requests without end some are answered; the timer goes on.              *)
CanvasFairness ==
    /\ \A c \in Calls :
        /\ SF_canvasVars(GraphHandled(c))
        /\ WF_canvasVars(GraphReceived(c) \/ GraphFailed(c))
        /\ SF_canvasVars(GraphReceived(c))
    /\ WF_canvasVars(PollAsks)
    /\ WF_canvasVars(StatusReceived \/ PollEnds \/ PollFails)
    /\ SF_canvasVars(StatusReceived)

FairCanvasSpec == CanvasSpec /\ CanvasFairness

-----------------------------------------------------------------------------
(* The shapes of the variables of the page.                                *)
CanvasTypeOK ==
    /\ gitBase \in Bases
    /\ applied \in Bases \cup {Nothing}
    /\ document \in [revision : 0..MaxGeneration, base : Bases] \cup {Nothing}
    /\ error \in BOOLEAN /\ indexError \in BOOLEAN
    /\ \A c \in Calls : refreshes[c] # Nothing =>
        /\ refreshes[c].base \in Bases
        /\ refreshes[c].answer \in
            [revision : 0..MaxGeneration, preferred : Bases] \cup {Nothing}
    /\ poll.stage \in {"idle", "asked", "waits", "launch"}
    /\ poll.stage = "waits" => refreshes[poll.about] # Nothing

(* Once generations cease, the page shows the last one (docs/USAGE.md:393),*)
(* though answers overtake each other, an older graph may replace a newer  *)
(* one, and any request may fail; if only it ever got a first graph.       *)
CatchesUp ==
    <>[][host'.generation = host.generation]_canvasVars =>
        <>[](document = Nothing \/ document.revision = host.generation)

(* An index error comes to be shown and stays, also when the generation is *)
(* unchanged (docs/TECHNICAL.md:297-298).                                  *)
ErrorsShown == <>[]host.lastError => <>[](document = Nothing \/ indexError)

(* docs/TECHNICAL.md:267, "The browser overlays WORKTREE against the       *)
(* selected base": once the selection stays, it is what is compared with,  *)
(* or an error is on show.                                                 *)
SelectedBaseShown ==
    <>[][gitBase' = gitBase]_canvasVars =>
        <>[](document = Nothing \/ error \/ document.base = gitBase)
=============================================================================
