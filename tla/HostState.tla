------------------------------ MODULE HostState ------------------------------
(***************************************************************************)
(* The state every part of the local server shares: HostState in           *)
(* services/local-server/src/Runtime.{h,cpp}.  All of the server's         *)
(* handlers run on one Qt event loop, so its three mutators are pure       *)
(* functions of the record "host": one handler may apply several of them   *)
(* before any other handler can look (a finished run is accepted and the   *)
(* follow-up run is started within one signal handler).                    *)
(*                                                                         *)
(* lastError stands for "m_lastError is not empty".  The graph is kept     *)
(* apart, by the modules that look into it.                                *)
(***************************************************************************)
EXTENDS Naturals

CONSTANTS
    Argv,     \* the start commands a configuration can hold in manual mode
    NoArgv    \* no manual argv start command (absent, string, or "document")

ASSUME NoArgvAssumption == NoArgv \notin Argv

VARIABLE host

IndexStates == {"empty", "indexing", "ready", "error"}

(* What statusJson and launch report and what launchableIndex reads.       *)
HostStates(configs) ==
    [config     : configs,
     indexState : IndexStates,
     lastError  : BOOLEAN,
     generation : Nat]

InitialHost(config) ==
    [config |-> config, indexState |-> "empty", lastError |-> FALSE, generation |-> 0]

IndexingStarted(h) ==
    [h EXCEPT !.indexState = "indexing", !.lastError = FALSE]

IndexingSucceeded(h, config) ==
    [config |-> config, indexState |-> "ready", lastError |-> FALSE,
     generation |-> h.generation + 1]

IndexingFailed(h) ==
    [h EXCEPT !.indexState = IF h.generation # 0 THEN "ready" ELSE "error",
              !.lastError  = TRUE]

(* A run is started: it forks, or it has failed already.                   *)
Restarted(h) == {IndexingStarted(h), IndexingFailed(IndexingStarted(h))}

(* Mutant of Launchable: a generation and no error are taken to be enough. *)
MutantLaunchable(h) == h.generation # 0 /\ ~h.lastError

(* launchableIndex: a command may be approved or started only now.         *)
Launchable(h) ==
    /\ h.generation # 0
    /\ h.indexState = "ready"
    /\ ~h.lastError

=============================================================================
