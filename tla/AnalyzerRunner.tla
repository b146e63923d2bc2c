---------------------------- MODULE AnalyzerRunner ----------------------------
(***************************************************************************)
(* Indexing in the local server: AnalyzerRunner (Runtime.cpp), the part of *)
(* main.cpp that runs it, and what the runs depend on outside the server,  *)
(* the files on disk and the analyzer process that reads them one by one   *)
(* while they may be edited.                                               *)
(*                                                                         *)
(* A path on disk has a version (every edit of any path takes the next     *)
(* number) and a body.  The body of a Python file is "ok", "broken" (it    *)
(* does not parse) or "absent"; the body of code-view.json is one of       *)
(* Configs, of which ArgvOf and ExcludedBy say what it holds, or           *)
(* InvalidConfig.  DefaultConfig, one of Configs, is what a repository      *)
(* without that file has.                                                  *)
(***************************************************************************)
EXTENDS HostState

CONSTANTS
    Files,          \* the Python files
    ConfigFile,     \* code-view.json
    Configs,        \* the valid configurations
    DefaultConfig,  \* the configuration of a repository without code-view.json
    ArgvOf,         \* configuration -> its manual start command, or NoArgv
    ExcludedBy,     \* configuration -> the files index.exclude leaves out
    InvalidConfig,  \* a code-view.json that LocalConfig::load rejects
    MaxEdits,       \* bound: edits of the repository
    MaxPosts        \* bound: POST /api/v1/reindex requests

ASSUME RunnerAssumption ==
    /\ ConfigFile \notin Files
    /\ DefaultConfig \in Configs
    /\ ArgvOf \in [Configs -> Argv \cup {NoArgv}]
    /\ ExcludedBy \in [Configs -> SUBSET Files]
    /\ InvalidConfig \notin Configs
    /\ Configs \cap {"ok", "broken", "absent"} = {}
    /\ MaxEdits \in Nat
    /\ MaxPosts \in Nat

VARIABLES
    disk,       \* path -> [ver, body], what the repository holds now
    edits,      \* the number of edits so far
    phase,      \* where main() is: see Phases
    shutdown,   \* shutdownRequested(): SIGINT or SIGTERM has arrived
    proc,       \* m_process: "none" or what the analyzer process is doing
    exit,       \* how that process ends, once that is settled
    read,       \* m_output: what the analyzer saw of each path
    dirty,      \* m_dirty
    timer,      \* m_timeout is armed
    graph,      \* m_graph: what the published graph says of each path
    posts,      \* the number of POST /api/v1/reindex requests so far
    began,      \* history: value of edits when the current or last run began
    owed        \* history: a reindex was requested since that run began

Paths == Files \cup {ConfigFile}
FileBodies == {"ok", "broken", "absent"}
Entries == [ver : Nat, body : FileBodies \cup Configs \cup {InvalidConfig}]
Bodies(p) == IF p = ConfigFile THEN Configs \cup {InvalidConfig} ELSE FileBodies

(* "booting" : HostState holds the configuration loaded by main, no run yet *)
(* "blocking": inside runBlocking                                           *)
(* "listening": the first graph is accepted, the event loop not yet running *)
(* "serving" : inside application.exec()                                    *)
Phases == {"booting", "blocking", "listening", "serving", "exited"}
ProcStates == {"none", "starting", "running", "exited"}

repoVars   == <<disk, edits>>
runVars    == <<proc, exit, read, dirty, timer, began, owed>>
runnerVars == <<host, disk, edits, phase, shutdown, proc, exit, read, dirty,
                timer, graph, posts, began, owed>>

-----------------------------------------------------------------------------
(* Configurations and graphs.                                              *)

(* Nothing is there to be read: a deleted file, no code-view.json.         *)
Missing(entry) == entry.body \in {"absent", DefaultConfig}

(* LocalConfig as HostState keeps it; ver says which code-view.json it is. *)
LoadedConfigs == [ver : Nat, argv : Argv \cup {NoArgv}, excluded : SUBSET Files]

LoadedConfig(entry) ==
    [ver |-> IF Missing(entry) THEN 0 ELSE entry.ver,
     argv |-> ArgvOf[entry.body],
     excluded |-> ExcludedBy[entry.body]]

Loadable == disk[ConfigFile].body # InvalidConfig

Unread == [ver |-> 0, body |-> "absent"]
NothingRead == [p \in Paths |-> Unread]

(* What a graph holds of one path: the version the analyzer read and the   *)
(* version whose facts are shown.  They differ for a file that did not     *)
(* parse and kept its previous facts as stale.                             *)
Facts == [seen : Nat, shown : Nat]
NoFacts == [seen |-> 0, shown |-> 0]
EmptyGraph == [p \in Paths |-> NoFacts]

Excluded(p, seen) == p \in ExcludedBy[seen[ConfigFile].body]

(* fromNdjson, then preservingParseErrorsFrom when a generation exists.     *)
ImportedFacts(p, seen, lastGood, generation) ==
    LET ver == seen[p].ver
        stale == seen[p].body = "broken" /\ generation # 0
    IN  IF Excluded(p, seen) \/ Missing(seen[p])
        THEN NoFacts
        ELSE [seen |-> ver, shown |-> IF stale THEN lastGood[p].shown ELSE ver]

ImportedGraph(seen, lastGood, generation) ==
    [p \in Paths |-> ImportedFacts(p, seen, lastGood, generation)]

-----------------------------------------------------------------------------
(* Pieces of handlers.                                                     *)

(* startAsync, when QProcess::start got as far as forking.                 *)
ProcessForked(h) ==
    /\ host' = IndexingStarted(h)
    /\ proc' = "starting"

(* Mutant of ForkFailed: the FailedToStart handler reports no failure.     *)
MutantForkFailed(h) ==
    /\ host' = IndexingStarted(h)
    /\ proc' = "none"

(* startAsync, when fork itself failed: errorOccurred ran inside start().  *)
(* The timer is armed after it, with no process to watch.                  *)
ForkFailed(h) ==
    /\ host' = IndexingFailed(IndexingStarted(h))
    /\ proc' = "none"

(* Mutant of StartAsync: m_output is not cleared.                          *)
MutantKeepOutput(h) ==
    /\ ProcessForked(h) \/ ForkFailed(h)
    /\ exit' = "pending"
    /\ timer' = TRUE
    /\ began' = edits
    /\ owed' = FALSE
    /\ UNCHANGED read

(* Mutant of StartAsync: m_timeout is not started.                         *)
MutantNoDeadline(h) ==
    /\ ProcessForked(h) \/ ForkFailed(h)
    /\ read' = NothingRead
    /\ exit' = "pending"
    /\ timer' = FALSE
    /\ began' = edits
    /\ owed' = FALSE

StartAsync(h) ==
    /\ ProcessForked(h) \/ ForkFailed(h)
    /\ read' = NothingRead
    /\ exit' = "pending"
    /\ timer' = TRUE
    /\ began' = edits
    /\ owed' = FALSE

(* Mutant of RequestReindex: a run in progress is taken to be recent enough.*)
MutantForget ==
    IF proc # "none"
    THEN /\ owed' = TRUE
         /\ UNCHANGED <<host, proc, exit, read, dirty, timer, began>>
    ELSE /\ StartAsync(host)
         /\ UNCHANGED dirty

(* requestReindex, called by the POST handler and by the debounce timer.   *)
RequestReindex ==
    IF proc # "none"
    THEN /\ dirty' = TRUE
         /\ owed' = TRUE
         /\ UNCHANGED <<host, proc, exit, read, timer, began>>
    ELSE /\ StartAsync(host)
         /\ UNCHANGED dirty

(* Mutant of EndRun: a failed run is not followed by the next.             *)
MutantGiveUp(h) ==
    IF dirty /\ ~shutdown /\ ~h.lastError
    THEN /\ dirty' = FALSE
         /\ StartAsync(h)
    ELSE /\ host' = h
         /\ proc' = "none"
         /\ timer' = FALSE
         /\ UNCHANGED <<exit, read, dirty, began, owed>>

(* The tail of the finished and FailedToStart handlers: m_process is null  *)
(* again, and a request that came in meanwhile starts the next run.        *)
EndRun(h) ==
    IF dirty /\ ~shutdown
    THEN /\ dirty' = FALSE
         /\ StartAsync(h)
    ELSE /\ host' = h
         /\ proc' = "none"
         /\ timer' = FALSE
         /\ UNCHANGED <<exit, read, dirty, began, owed>>

(* acceptResult: the configuration is loaded again now, after the analyzer *)
(* has finished with whatever configuration it read.                       *)
Accepted(exitedOk) == exitedOk /\ Loadable

(* Mutant of ResultState: the configuration is published before the result *)
(* is known to be good.                                                    *)
MutantEarlyConfig(exitedOk) ==
    IF Accepted(exitedOk)
    THEN IndexingSucceeded(host, LoadedConfig(disk[ConfigFile]))
    ELSE IF Loadable
         THEN IndexingFailed([host EXCEPT !.config = LoadedConfig(disk[ConfigFile])])
         ELSE IndexingFailed(host)

ResultState(exitedOk) ==
    IF Accepted(exitedOk)
    THEN IndexingSucceeded(host, LoadedConfig(disk[ConfigFile]))
    ELSE IndexingFailed(host)

(* Mutant of ResultGraph: the graph is published before the configuration  *)
(* is loaded.                                                              *)
MutantEarlyGraph(exitedOk) ==
    IF exitedOk
    THEN ImportedGraph(read, graph, host.generation)
    ELSE graph

ResultGraph(exitedOk) ==
    IF Accepted(exitedOk)
    THEN ImportedGraph(read, graph, host.generation)
    ELSE graph

(* The finished handler.                                                   *)
FinishRun(exitedOk) ==
    /\ graph' = ResultGraph(exitedOk)
    /\ EndRun(ResultState(exitedOk))

(* stopOwnedProcess on the analyzer ends the process during its waits, and *)
(* then the finished handler runs inside the calling one, or the process   *)
(* outlives SIGKILL for now and is left to end later, with no one having   *)
(* any further use for its result.                                         *)
OutlivesKill ==
    /\ exit' = "error"
    /\ UNCHANGED <<host, graph, proc, read, dirty, began, owed>>

-----------------------------------------------------------------------------
(* main() and runBlocking.  No handler runs before the event loop does.    *)

RunBlocking ==
    /\ phase = "booting"
    /\ phase' = "blocking"
    /\ host' = IndexingStarted(host)
    /\ proc' = "running"
    /\ began' = edits
    /\ UNCHANGED <<disk, edits, shutdown, exit, read, dirty, timer, graph, posts, owed>>

BlockingFinished ==
    /\ phase = "blocking"
    /\ proc = "exited"
    /\ host' = ResultState(exit = "ok")
    /\ graph' = ResultGraph(exit = "ok")
    /\ proc' = "none"
    /\ phase' = IF Accepted(exit = "ok") THEN "listening" ELSE "exited"
    /\ UNCHANGED <<disk, edits, shutdown, exit, read, dirty, timer, posts, began, owed>>

(* The process did not start, ran for 120 seconds, or a signal ended the   *)
(* wait; main throws.                                                      *)
BlockingAbandoned ==
    /\ phase = "blocking"
    /\ host' = IndexingFailed(host)
    /\ proc' = "none"
    /\ phase' = "exited"
    /\ UNCHANGED <<disk, edits, shutdown, exit, read, dirty, timer, graph, posts, began, owed>>

(* main cannot listen on the port, or has no usable web root.              *)
BindFailed ==
    /\ phase = "listening"
    /\ phase' = "exited"
    /\ UNCHANGED <<host, repoVars, shutdown, runVars, graph, posts>>

(* The event loop starts.                                                  *)
Serve ==
    /\ phase = "listening"
    /\ phase' = "serving"
    /\ UNCHANGED <<host, repoVars, shutdown, runVars, graph, posts>>

SignalArrives ==
    /\ phase # "exited"
    /\ ~shutdown
    /\ shutdown' = TRUE
    /\ UNCHANGED <<host, repoVars, phase, runVars, graph, posts>>

(* Mutant of Quit: the server waits for the analyzer instead of killing it.*)
MutantPatientQuit ==
    /\ phase = "serving"
    /\ shutdown
    /\ proc = "none"
    /\ phase' = "exited"
    /\ dirty' = FALSE
    /\ timer' = FALSE
    /\ UNCHANGED <<host, repoVars, shutdown, proc, exit, read, began, owed, graph, posts>>

(* shutdownPoll quits the loop; ~AnalyzerRunner disconnects its handlers   *)
(* and kills the process, so that nothing more is accepted.                *)
Quit ==
    /\ phase = "serving"
    /\ shutdown
    /\ phase' = "exited"
    /\ proc' = "none"
    /\ dirty' = FALSE
    /\ timer' = FALSE
    /\ UNCHANGED <<host, repoVars, shutdown, exit, read, began, owed, graph, posts>>

-----------------------------------------------------------------------------
(* Handlers of the event loop.                                             *)

PostReindex ==
    /\ phase = "serving"
    /\ posts < MaxPosts
    /\ posts' = posts + 1
    /\ RequestReindex
    /\ UNCHANGED <<repoVars, phase, shutdown, graph>>

(* errorOccurred(FailedToStart) reported by the event loop.                *)
FailedToStart ==
    /\ phase = "serving"
    /\ proc = "starting"
    /\ EndRun(IndexingFailed(host))
    /\ UNCHANGED <<repoVars, phase, shutdown, graph, posts>>

Finished ==
    /\ phase = "serving"
    /\ proc = "exited"
    /\ FinishRun(exit = "ok")
    /\ UNCHANGED <<repoVars, phase, shutdown, posts>>

(* m_timeout fires.  A process that has exited without its finished        *)
(* handler having run still counts as running here, and its result is      *)
(* accepted inside the kill like any other.                                *)
Timeout ==
    /\ phase = "serving"
    /\ timer
    /\ \/ /\ proc = "none"
          /\ timer' = FALSE
          /\ UNCHANGED <<host, graph, proc, exit, read, dirty, began, owed>>
       \/ /\ proc = "exited"
          /\ FinishRun(exit = "ok")
       \/ /\ proc \in {"starting", "running"}
          /\ \/ FinishRun(FALSE)
             \/ OutlivesKill /\ timer' = FALSE
    /\ UNCHANGED <<repoVars, phase, shutdown, posts>>

(* readyReadStandardOutput finds more than 100 MB.                         *)
OutputLimit ==
    /\ phase = "serving"
    /\ proc = "running"
    /\ exit = "pending"
    /\ \/ FinishRun(FALSE)
       \/ OutlivesKill /\ UNCHANGED timer
    /\ UNCHANGED <<repoVars, phase, shutdown, posts>>

-----------------------------------------------------------------------------
(* The analyzer process (services/python-analyzer/analyzer.py) and the     *)
(* user's editor.                                                          *)

AnalyzerStarted ==
    /\ phase = "serving"
    /\ proc = "starting"
    /\ proc' = "running"
    /\ UNCHANGED <<host, repoVars, phase, shutdown, exit, read, dirty, timer, graph, posts, began, owed>>

HasRead(p) == read[p].ver # 0

(* What a read of p can return.  A file deleted after the run began may    *)
(* have been discovered before that, and then fails to open: the analyzer  *)
(* reports it exactly as it reports a syntax error.                        *)
ReadResults(p) ==
    {disk[p]} \cup
    {[ver |-> disk[p].ver, body |-> "broken"] :
        q \in {r \in {p} : disk[r].body = "absent" /\ disk[r].ver > began}}

(* load_config comes first; then every discovered file is opened once.     *)
AnalyzerRead(p) ==
    /\ proc = "running"
    /\ ~HasRead(p)
    /\ p = ConfigFile \/ HasRead(ConfigFile)
    /\ \E e \in ReadResults(p) : read' = [read EXCEPT ![p] = e]
    /\ UNCHANGED <<host, repoVars, phase, shutdown, proc, exit, dirty, timer, graph, posts, began, owed>>

(* Success needs a valid configuration and every file visited; failure     *)
(* (a resource limit, an unresolved entry, a kill) is always possible.     *)
AnalyzerSucceeds ==
    /\ exit = "pending"
    /\ \A p \in Paths : HasRead(p)
    /\ read[ConfigFile].body # InvalidConfig

AnalyzerExits ==
    /\ proc = "running"
    /\ proc' = "exited"
    /\ \/ AnalyzerSucceeds /\ exit' = "ok"
       \/ exit' = "error"
    /\ UNCHANGED <<host, repoVars, phase, shutdown, read, dirty, timer, graph, posts, began, owed>>

Edit(p, body) ==
    /\ phase # "exited"
    /\ edits < MaxEdits
    /\ disk[p].body = body => ~Missing(disk[p])
    /\ edits' = edits + 1
    /\ disk' = [disk EXCEPT ![p] = [ver |-> edits + 1, body |-> body]]
    /\ UNCHANGED <<host, phase, shutdown, runVars, graph, posts>>

(* The server is gone; nothing of it can move any more.                    *)
Terminated ==
    /\ phase = "exited"
    /\ UNCHANGED runnerVars

-----------------------------------------------------------------------------
(* main loads the configuration before anything else; version 1 of every   *)
(* path is what it finds.                                                  *)
RunnerInit ==
    /\ disk \in [Paths -> [ver : {1}, body : FileBodies \cup Configs]]
    /\ \A p \in Paths : disk[p].body \in Bodies(p)
    /\ Loadable
    /\ edits = 1
    /\ host = InitialHost(LoadedConfig(disk[ConfigFile]))
    /\ graph = EmptyGraph
    /\ phase = "booting"
    /\ shutdown = FALSE
    /\ proc = "none"
    /\ exit = "pending"
    /\ read = NothingRead
    /\ dirty = FALSE
    /\ timer = FALSE
    /\ posts = 0
    /\ began = 0
    /\ owed = FALSE

(* What happens without a request, an edit or the end of the server.       *)
RunnerStep ==
    \/ RunBlocking \/ BlockingFinished \/ BlockingAbandoned
    \/ FailedToStart \/ Finished \/ Timeout \/ OutputLimit
    \/ AnalyzerStarted \/ AnalyzerExits
    \/ \E p \in Paths : AnalyzerRead(p)
    \/ SignalArrives

RunnerNext ==
    \/ RunnerStep
    \/ Serve \/ BindFailed \/ Quit
    \/ PostReindex
    \/ \E p \in Paths : \E body \in Bodies(p) : Edit(p, body)
    \/ Terminated

RunnerSpec == RunnerInit /\ [][RunnerNext]_runnerVars

(* What the code's scheduling provides.  The event loop delivers pending   *)
(* signals and expired timers; a forked child reports exec or its failure; *)
(* the bounded waits of runBlocking return; a process that was sent        *)
(* SIGKILL ends.  Nothing is assumed of an analyzer left to itself: it may *)
(* hang, and then only the deadline ends the run.                          *)
StartReported == AnalyzerStarted \/ FailedToStart
KilledExits == exit = "error" /\ AnalyzerExits

RunnerFairness ==
    /\ WF_runnerVars(RunBlocking)
    /\ WF_runnerVars(BlockingFinished \/ BlockingAbandoned)
    /\ WF_runnerVars(StartReported)
    /\ WF_runnerVars(Finished)
    /\ WF_runnerVars(Timeout)
    /\ WF_runnerVars(KilledExits)

FairRunnerSpec == RunnerSpec /\ RunnerFairness

-----------------------------------------------------------------------------
(* The shapes of the variables of the runner.                              *)
RunnerTypeOK ==
    /\ host \in HostStates(LoadedConfigs)
    /\ disk \in [Paths -> Entries]
    /\ edits \in Nat
    /\ phase \in Phases
    /\ shutdown \in BOOLEAN
    /\ proc \in ProcStates
    /\ exit \in {"pending", "ok", "error"}
    /\ read \in [Paths -> Entries]
    /\ dirty \in BOOLEAN
    /\ timer \in BOOLEAN
    /\ graph \in [Paths -> Facts]
    /\ posts \in Nat
    /\ began \in Nat
    /\ owed \in BOOLEAN

(* The status the browser polls says "indexing" exactly while an analyzer  *)
(* is at work: no path through a failed fork, a failed exec, a kill inside *)
(* another handler or a restart leaves the two apart.                      *)
IndexingMeansRunning ==
    phase # "exited" => (host.indexState = "indexing" <=> proc # "none")

(* A request that came while a run was in progress is remembered, in       *)
(* m_dirty and behind a process whose end will look at it, until a run     *)
(* that began after it: Runtime.cpp's coalescing loses none of them.  Only *)
(* a shutdown drops them.                                                  *)
RequestNotLost ==
    owed /\ ~shutdown => dirty /\ proc # "none"

(* A published graph holds, of every path nobody touched since the run     *)
(* began, what the disk holds: no output of an earlier run, no earlier     *)
(* graph, leaks into a new generation.                                     *)
PublishesWhatItRead ==
    [][ host'.generation # host.generation =>
          \A f \in Files :
             \/ disk[f].ver > began
             \/ Excluded(f, read)
             \/ disk[f].body = "absent" /\ graph'[f] = NoFacts
             \/ /\ graph'[f].seen = disk[f].ver
                /\ disk[f].body # "broken" => graph'[f].shown = disk[f].ver
      ]_runnerVars

(* The graph and the configuration a reader sees change together with the  *)
(* generation, one at a time, and a published file never goes back to an   *)
(* older version of its source, stale facts included.                      *)
GenerationsMoveForward ==
    [][ \/ /\ host'.generation = host.generation
          /\ graph' = graph
          /\ host'.config = host.config
       \/ /\ host'.generation = host.generation + 1
          /\ \A f \in Files :
                \/ graph'[f].seen = 0
                \/ /\ graph'[f].seen >= graph[f].seen
                   /\ graph'[f].shown >= graph[f].shown
      ]_runnerVars

(* Every accepted request is answered: by a run that begins after it, or   *)
(* by the end of the server.                                               *)
RequestsAnswered == owed ~> (~owed \/ shutdown)

(* "indexing" is never the last word, even if the analyzer hangs: the      *)
(* deadline of startAsync and the bounded waits of runBlocking end it.     *)
IndexingEnds ==
    host.indexState = "indexing" ~> (host.indexState # "indexing" \/ shutdown)

=============================================================================
