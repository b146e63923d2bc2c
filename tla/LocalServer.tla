----------------------------- MODULE LocalServer -----------------------------
(***************************************************************************)
(* The local server as main.cpp puts it together: the analyzer runner and  *)
(* the repository watcher on one side, the start command on the other,     *)
(* sharing HostState and one event loop.  The moves HostMoves allows the   *)
(* indexing half in StartCommand are replaced by its real handlers, so     *)
(* StartSpec becomes a property of this specification.                     *)
(***************************************************************************)
EXTENDS RepositoryWatcher, StartCommand

(* The configurations the controller knows of include every one the other  *)
(* half can load: that of each version of code-view.json.                  *)
ASSUME ServerAssumption ==
    \A v \in 1..MaxEdits \cup {1} : \A c \in Configs :
        LoadedConfig([ver |-> v, body |-> c]) \in LocalConfigs

controllerVars == <<approvalVars, processVars, reviewed>>
serverVars == <<liveVars, controllerVars>>

(* Requests and process signals reach the controller while the event loop  *)
(* runs; the started program moves on without it.                          *)
CommandStep ==
    /\ (phase = "serving" /\ ControllerStep) \/ ProcessStep
    /\ UNCHANGED <<repoVars, phase, shutdown, runVars, graph, posts, watcherVars>>

(* The end of main destroys the controller, then the runner, with no event *)
(* loop in between.                                                        *)
ServerEnds ==
    /\ Quit \/ BindFailed
    /\ Destroy
    /\ UNCHANGED watcherVars

IndexStep ==
    /\ \/ (RunnerStep \/ PostReindex) /\ UNCHANGED watcherVars
       \/ WatcherStarts \/ Scan \/ Hinted \/ DebounceExpires
       \/ \E p \in Paths : \E body \in Bodies(p) : WatchedEdit(p, body)
    /\ UNCHANGED controllerVars

ServerInit == WatcherInit /\ StartInit

ServerNext ==
    \/ IndexStep
    \/ CommandStep
    \/ ServerEnds
    \/ Terminated /\ UNCHANGED <<watcherVars, controllerVars>>

ServerSpec == ServerInit /\ [][ServerNext]_serverVars

(* The bounded waits of runBlocking return, the event loop starts, and its *)
(* shutdown timer fires; nothing is assumed of the analyzer or the command.*)
ServerFairness ==
    /\ WF_serverVars(RunBlocking /\ IndexStep)
    /\ WF_serverVars((BlockingFinished \/ BlockingAbandoned) /\ IndexStep)
    /\ WF_serverVars(WatcherStarts /\ IndexStep)
    /\ WF_serverVars(ServerEnds)

FairServerSpec == ServerSpec /\ ServerFairness

-----------------------------------------------------------------------------
(* What the controller was checked against in StartCommand is what the     *)
(* indexing half really does to the host state.                            *)
KeepsStartSpec == StartSpec

(* docs/TECHNICAL.md:299, "Command approval and start are blocked while    *)
(* indexing is active or failed", of the indexing itself and not of the    *)
(* status that reports it: while an analyzer works, or another run is owed *)
(* by a server that is not ending, nothing is approved or started.         *)
BlockedWhileIndexing ==
    [][ starts' # starts \/ reviewed' # reviewed =>
            proc = "none" /\ ~host.lastError /\ (dirty => shutdown) ]_serverVars

(* A shutdown signal ends the server, whatever the analyzer, the command   *)
(* and the requests are doing, and both processes are let go of.           *)
ShutdownEnds ==
    shutdown ~> /\ phase = "exited"
                /\ proc = "none"
                /\ child \in {"null", "destroyed"}

=============================================================================
