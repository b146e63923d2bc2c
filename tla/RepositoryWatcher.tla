--------------------------- MODULE RepositoryWatcher ---------------------------
(***************************************************************************)
(* Live update: RepositoryWatcher (Runtime.cpp) on top of AnalyzerRunner.  *)
(* A poll compares a manifest of the files the current configuration       *)
(* includes with the last one, QFileSystemWatcher gives hints that may be  *)
(* late or never come, and both arm a single-shot debounce timer whose     *)
(* expiry requests a reindex.  main() constructs the watcher, and with it  *)
(* the first manifest, after the startup analysis and after binding the    *)
(* port.                                                                   *)
(*                                                                         *)
(* A manifest entry is a hash over path, size and modification time; it is *)
(* modelled by the version of the path, that is, every edit is assumed to  *)
(* change the size or the time.                                            *)
(***************************************************************************)
EXTENDS AnalyzerRunner

CONSTANT
    SilentPaths     \* paths QFileSystemWatcher may fail to report: it watches
                    \* the root directory and code-view.json, not the tree

ASSUME SilentAssumption == SilentPaths \subseteq Paths

VARIABLES
    manifest,       \* m_manifest
    debounce,       \* m_debounce is armed
    hint,           \* a file system notification is on its way
    baselineFresh,  \* history: the graph was up to date at the first manifest
    blinked         \* history: a path came and went without being in a manifest

historyVars == <<baselineFresh, blinked>>
watcherVars == <<manifest, debounce, hint, historyVars>>
liveVars == <<runnerVars, watcherVars>>

(* Mutant of Manifest: only *.py files are in it.                          *)
MutantPythonOnly ==
    [p \in Paths |->
        IF p = ConfigFile \/ Missing(disk[p]) \/ p \in host.config.excluded
        THEN 0 ELSE disk[p].ver]

(* scanNowForTests: what is excluded is decided by the configuration of    *)
(* the published generation, not by the one on disk.                       *)
Manifest ==
    [p \in Paths |->
        IF Missing(disk[p]) \/ p \in host.config.excluded THEN 0 ELSE disk[p].ver]

(* The published graph and configuration describe what is on disk.         *)
FreshFile(f) ==
    IF f \in ExcludedBy[disk[ConfigFile].body] \/ Missing(disk[f])
    THEN graph[f] = NoFacts
    ELSE /\ graph[f].seen = disk[f].ver
         /\ disk[f].body # "broken" => graph[f].shown = disk[f].ver

Fresh ==
    /\ Loadable
    /\ host.config = LoadedConfig(disk[ConfigFile])
    /\ graph[ConfigFile].seen = host.config.ver
    /\ \A f \in Files : FreshFile(f)

-----------------------------------------------------------------------------
(* schedule(): a running debounce timer is restarted.                      *)
Schedule == debounce' = TRUE

(* The constructor, between listen() and exec().                           *)
WatcherStarts ==
    /\ Serve
    /\ manifest' = Manifest
    /\ baselineFresh' = Fresh
    /\ UNCHANGED <<debounce, hint, blinked>>

(* Mutant of Scan: nothing is scheduled while a run is in progress.        *)
MutantBusyScan ==
    /\ phase = "serving"
    /\ manifest # Manifest
    /\ manifest' = Manifest
    /\ debounce' = (debounce \/ proc = "none")
    /\ UNCHANGED <<runnerVars, hint, historyVars>>

(* scan() finds a difference.  One that finds none changes nothing.        *)
Scan ==
    /\ phase = "serving"
    /\ manifest # Manifest
    /\ manifest' = Manifest
    /\ Schedule
    /\ UNCHANGED <<runnerVars, hint, historyVars>>

Hinted ==
    /\ phase = "serving"
    /\ hint
    /\ hint' = FALSE
    /\ Schedule
    /\ UNCHANGED <<runnerVars, manifest, historyVars>>

DebounceExpires ==
    /\ phase = "serving"
    /\ debounce
    /\ debounce' = FALSE
    /\ RequestReindex
    /\ UNCHANGED <<repoVars, phase, shutdown, graph, posts, manifest, hint, historyVars>>

(* An edit may notify the watcher, if there is one by then.                *)
WatchedEdit(p, body) ==
    /\ Edit(p, body)
    /\ \/ /\ p \in SilentPaths \/ phase # "serving"
          /\ UNCHANGED hint
       \/ phase = "serving" /\ hint' = TRUE
    /\ blinked' = (blinked \/ (phase = "serving" /\ Missing(disk'[p]) /\ manifest[p] = 0))
    /\ UNCHANGED <<manifest, debounce, baselineFresh>>

-----------------------------------------------------------------------------
WatcherInit ==
    /\ RunnerInit
    /\ manifest = [p \in Paths |-> 0]
    /\ debounce = FALSE
    /\ hint = FALSE
    /\ baselineFresh = FALSE
    /\ blinked = FALSE

LiveNext ==
    \/ RunnerStep /\ UNCHANGED watcherVars
    \/ (PostReindex \/ BindFailed \/ Quit) /\ UNCHANGED watcherVars
    \/ WatcherStarts \/ Scan \/ Hinted \/ DebounceExpires
    \/ \E p \in Paths : \E body \in Bodies(p) : WatchedEdit(p, body)
    \/ Terminated /\ UNCHANGED watcherVars

LiveSpec == WatcherInit /\ [][LiveNext]_liveVars

(* On top of what the runner assumes, the event loop starts, its poll and  *)
(* debounce timers fire, and a notification the system has queued arrives. *)
LiveFairness ==
    /\ RunnerFairness
    /\ WF_liveVars(WatcherStarts)
    /\ WF_liveVars(Scan)
    /\ WF_liveVars(Hinted)
    /\ WF_liveVars(DebounceExpires)

FairLiveSpec == LiveSpec /\ LiveFairness

-----------------------------------------------------------------------------
WatcherTypeOK ==
    /\ RunnerTypeOK
    /\ manifest \in [Paths -> Nat]
    /\ debounce \in BOOLEAN
    /\ hint \in BOOLEAN
    /\ baselineFresh \in BOOLEAN
    /\ blinked \in BOOLEAN

(* No step of the interplay of scan, debounce, m_dirty and a run in        *)
(* progress forgets a change: while the graph is out of date, the next     *)
(* scan will see a difference, or the debounce timer or m_dirty holds a    *)
(* promise, or the run in progress began after the last edit of any file   *)
(* the published configuration includes (the others come into the manifest *)
(* with the configuration that includes them), or the last run failed and  *)
(* the status says so.                                                     *)
NoChangeForgotten ==
    phase = "serving" /\ baselineFresh /\ ~blinked /\ ~shutdown =>
        \/ Fresh
        \/ manifest # Manifest
        \/ debounce
        \/ dirty
        \/ /\ proc # "none"
           /\ \A p \in Paths : disk[p].ver <= began \/ p \in host.config.excluded
        \/ host.lastError

(* The published graph and configuration are what is on disk, or the       *)
(* status shows an error, or the server is gone or on its way out.         *)
Truthful == Fresh \/ host.lastError \/ shutdown \/ phase = "exited"

(* Once the repository is left alone, the graph comes to describe it or    *)
(* the status keeps showing an error: it is never silently out of date.    *)
(* This holds of every server whose graph was up to date when its watcher  *)
(* took the first manifest and whose manifests missed no short-lived file. *)
EditsReachGraph ==
    [](phase = "serving" => baselineFresh /\ ~blinked) => <>[]Truthful

(* docs/USAGE.md:392, "The default host watches the repository and         *)
(* rebuilds a new graph after edits", without the first proviso: an edit   *)
(* between the analyzer's read and the first manifest is an edit too.      *)
StartupEditsReachGraph == []~blinked => <>[]Truthful

(* The same sentence without the second proviso: a file that is created    *)
(* and deleted between two scans, while an analyzer reads it, is two edits.*)
ShortLivedFilesLeaveGraph == [](phase = "serving" => baselineFresh) => <>[]Truthful

=============================================================================
