-------------------------- MODULE LocalServer_proofs --------------------------
(***************************************************************************)
(* Proofs about the server, for every number of files, configurations,     *)
(* edits and requests.                                                     *)
(*                                                                         *)
(* AnalyzerRunner by itself: type correctness, that the status tells when  *)
(* an analyzer is at work, that no request is lost, and what a published   *)
(* graph holds. RepositoryWatcher, whichever notifications are lost: the   *)
(* interplay of manifest, debounce timer, m_dirty and the run in progress  *)
(* forgets no change. And the two composed with the start command: each    *)
(* half does what it was proved to do by itself, and the start command is  *)
(* out of reach while an analyzer works.                                   *)
(***************************************************************************)
EXTENDS LocalServer, StartCommand_proofs

-----------------------------------------------------------------------------
(* AnalyzerRunner: what is proved here is about its own specification.     *)

(* A path holds a body of its own kind, and every edit so far is counted.  *)
DiskFits ==
    \A p \in Paths : disk[p].body \in Bodies(p) /\ disk[p].ver <= edits

(* Nothing is requested or read before the event loop runs a first time.   *)
QuietBoot ==
    /\ phase \in {"booting", "blocking", "listening"} => ~owed
    /\ phase = "booting" => read = NothingRead /\ exit = "pending" /\ proc = "none"

RunnerInv ==
    /\ RunnerTypeOK
    /\ DiskFits
    /\ QuietBoot
    /\ IndexingMeansRunning
    /\ RequestNotLost

(* The Boolean variables and the others, apart: the SMT solver treats the  *)
(* first as formulas.                                                      *)
RunnerFlags ==
    shutdown \in BOOLEAN /\ dirty \in BOOLEAN /\ timer \in BOOLEAN /\ owed \in BOOLEAN

RunnerShapes ==
    /\ host \in HostStates(LoadedConfigs)
    /\ disk \in [Paths -> Entries]
    /\ edits \in Nat
    /\ phase \in Phases
    /\ proc \in ProcStates
    /\ exit \in {"pending", "ok", "error"}
    /\ read \in [Paths -> Entries]
    /\ graph \in [Paths -> Facts]
    /\ posts \in Nat
    /\ began \in Nat

(* Together they are the type invariant, in this state and the next.       *)
LEMMA RunnerTypeParts ==
    /\ RunnerTypeOK <=> RunnerFlags /\ RunnerShapes
    /\ RunnerTypeOK' <=> RunnerFlags' /\ RunnerShapes'
  BY Zenon DEF RunnerTypeOK, RunnerFlags, RunnerShapes

-----------------------------------------------------------------------------
(* What the pieces of the handlers return.                                 *)

(* A code-view.json that loads gives a configuration.                      *)
LEMMA LoadedConfigType ==
    ASSUME RunnerShapes, DiskFits, Loadable
    PROVE  LoadedConfig(disk[ConfigFile]) \in LoadedConfigs
  <1>1. ConfigFile \in Paths
    BY DEF Paths
  <1>2. disk[ConfigFile].body \in Configs /\ disk[ConfigFile].ver \in Nat
    BY <1>1 DEF RunnerShapes, DiskFits, Bodies, Loadable, Entries
  <1>3. QED
    BY <1>2, RunnerAssumption DEF LoadedConfig, LoadedConfigs

(* An import gives facts about every path.                                 *)
LEMMA ImportedGraphType ==
    ASSUME NEW seen \in [Paths -> Entries], NEW lastGood \in [Paths -> Facts],
           NEW generation
    PROVE  ImportedGraph(seen, lastGood, generation) \in [Paths -> Facts]
  <1>1. ASSUME NEW p \in Paths
        PROVE  ImportedFacts(p, seen, lastGood, generation) \in Facts
    <2>1. seen[p].ver \in Nat /\ lastGood[p].shown \in Nat
      BY DEF Entries, Facts
    <2>2. QED
      BY <2>1 DEF ImportedFacts, Facts, NoFacts
  <1>2. QED
    BY <1>1 DEF ImportedGraph

(* The mutators of HostState keep its shape and set the status they name.  *)
LEMMA MutatorTypes ==
    ASSUME NEW h \in HostStates(LoadedConfigs)
    PROVE  /\ IndexingStarted(h) \in HostStates(LoadedConfigs)
           /\ IndexingStarted(h).indexState = "indexing"
           /\ IndexingFailed(h) \in HostStates(LoadedConfigs)
           /\ IndexingFailed(h).indexState # "indexing"
           /\ \A c \in LoadedConfigs :
                 /\ IndexingSucceeded(h, c) \in HostStates(LoadedConfigs)
                 /\ IndexingSucceeded(h, c).indexState # "indexing"
  <1> USE DEF HostStates, IndexStates
  <1>1. /\ IndexingStarted(h) \in HostStates(LoadedConfigs)
        /\ IndexingStarted(h).indexState = "indexing"
    BY DEF IndexingStarted
  <1>2. /\ IndexingFailed(h) \in HostStates(LoadedConfigs)
        /\ IndexingFailed(h).indexState # "indexing"
    BY DEF IndexingFailed
  <1>3. ASSUME NEW c \in LoadedConfigs
        PROVE  /\ IndexingSucceeded(h, c) \in HostStates(LoadedConfigs)
               /\ IndexingSucceeded(h, c).indexState # "indexing"
    BY DEF IndexingSucceeded
  <1>4. QED
    BY <1>1, <1>2, <1>3

(* acceptResult leaves a well-formed host state and graph, not indexing.   *)
LEMMA ResultTypes ==
    ASSUME RunnerShapes, DiskFits, NEW exitedOk \in BOOLEAN
    PROVE  /\ ResultState(exitedOk) \in HostStates(LoadedConfigs)
           /\ ResultState(exitedOk).indexState # "indexing"
           /\ ResultGraph(exitedOk) \in [Paths -> Facts]
  <1>1. host \in HostStates(LoadedConfigs)
    BY DEF RunnerShapes
  <1>2. ResultGraph(exitedOk) \in [Paths -> Facts]
    BY ImportedGraphType DEF RunnerShapes, ResultGraph
  <1>3. CASE Accepted(exitedOk)
    <2>1. LoadedConfig(disk[ConfigFile]) \in LoadedConfigs
      BY <1>3, LoadedConfigType DEF Accepted
    <2>2. QED
      BY <1>1, <1>2, <1>3, <2>1, MutatorTypes DEF ResultState
  <1>4. CASE ~Accepted(exitedOk)
    BY <1>1, <1>2, <1>4, MutatorTypes DEF ResultState
  <1>5. QED
    BY <1>3, <1>4

-----------------------------------------------------------------------------
(* What starting and ending a run do to the invariant, as far as it is     *)
(* about the variables they write.                                         *)

FlagsKept == timer' \in BOOLEAN /\ dirty' \in BOOLEAN /\ owed' \in BOOLEAN

ShapesKept ==
    /\ host' \in HostStates(LoadedConfigs)
    /\ proc' \in ProcStates
    /\ exit' \in {"pending", "ok", "error"}
    /\ read' \in [Paths -> Entries]
    /\ began' \in Nat

LinksKept ==
    /\ host'.indexState = "indexing" <=> proc' # "none"
    /\ owed' /\ ~shutdown => dirty' /\ proc' # "none"

RunKept == FlagsKept /\ ShapesKept /\ LinksKept

(* Before anything is read.                                                *)
LEMMA NothingReadType == NothingRead \in [Paths -> Entries]
  BY DEF NothingRead, Unread, Entries, FileBodies

(* startAsync: the status says indexing if and only if a process was made. *)
LEMMA StartAsyncKeeps ==
    ASSUME RunnerShapes, NEW h \in HostStates(LoadedConfigs), StartAsync(h)
    PROVE  ShapesKept /\ (timer' \in BOOLEAN) /\ ~owed'
           /\ (host'.indexState = "indexing" <=> proc' # "none")
  <1>1. timer' \in BOOLEAN /\ ~owed'
    BY Zenon DEF StartAsync
  <1>2. /\ exit' = "pending"
        /\ read' \in [Paths -> Entries]
        /\ began' \in Nat
    BY NothingReadType DEF StartAsync, RunnerShapes
  <1>3. CASE ProcessForked(h)
    BY <1>1, <1>2, <1>3, MutatorTypes DEF ProcessForked, ShapesKept, ProcStates
  <1>4. CASE ForkFailed(h)
    BY <1>1, <1>2, <1>4, MutatorTypes DEF ForkFailed, ShapesKept, ProcStates
  <1>5. QED
    BY <1>3, <1>4 DEF StartAsync

(* requestReindex: the request is owed while a process runs, or its own    *)
(* run begins.                                                             *)
LEMMA RequestReindexKeeps ==
    ASSUME RunnerInv, phase # "exited", RequestReindex
    PROVE  RunKept
  <1> USE DEF RunnerInv
  <1>1. RunnerFlags /\ RunnerShapes
    BY RunnerTypeParts
  <1>2. CASE proc # "none"
    <2>1. dirty' = TRUE /\ owed' = TRUE /\ UNCHANGED <<host, proc, exit, read, timer, began>>
      BY <1>2 DEF RequestReindex
    <2>2. FlagsKept
      BY <1>1, <2>1, Zenon DEF FlagsKept, RunnerFlags
    <2>3. ShapesKept
      BY <1>1, <2>1 DEF ShapesKept, RunnerShapes
    <2>4. QED
      BY <1>2, <2>1, <2>2, <2>3 DEF RunKept, LinksKept, IndexingMeansRunning
  <1>3. CASE proc = "none"
    <2>1. StartAsync(host) /\ dirty' = dirty
      BY <1>3 DEF RequestReindex
    <2>2. host \in HostStates(LoadedConfigs)
      BY <1>1 DEF RunnerShapes
    <2>3. ShapesKept /\ timer' \in BOOLEAN /\ ~owed' /\ (host'.indexState = "indexing" <=> proc' # "none")
      BY <1>1, <2>1, <2>2, StartAsyncKeeps
    <2>4. FlagsKept
      BY <1>1, <2>1, <2>3, Zenon DEF FlagsKept, RunnerFlags, StartAsync
    <2>5. QED
      BY <2>3, <2>4 DEF RunKept, LinksKept
  <1>4. QED
    BY <1>2, <1>3

(* The tail of the handlers that end a run: what was owed is started, and  *)
(* nothing was owed otherwise.                                             *)
LEMMA EndRunKeeps ==
    ASSUME RunnerInv, NEW h \in HostStates(LoadedConfigs), h.indexState # "indexing",
           EndRun(h)
    PROVE  RunKept
  <1> USE DEF RunnerInv
  <1>1. RunnerFlags /\ RunnerShapes
    BY RunnerTypeParts
  <1>2. CASE dirty /\ ~shutdown
    <2>1. StartAsync(h) /\ dirty' = FALSE
      BY <1>2 DEF EndRun
    <2>2. ShapesKept /\ timer' \in BOOLEAN /\ ~owed' /\ (host'.indexState = "indexing" <=> proc' # "none")
      BY <1>1, <2>1, StartAsyncKeeps
    <2>3. FlagsKept
      BY <1>1, <2>1, <2>2, Zenon DEF FlagsKept, StartAsync
    <2>4. QED
      BY <2>2, <2>3 DEF RunKept, LinksKept
  <1>3. CASE ~(dirty /\ ~shutdown)
    <2>1. /\ host' = h /\ proc' = "none" /\ timer' = FALSE
          /\ UNCHANGED <<exit, read, dirty, began, owed>>
      BY <1>3 DEF EndRun
    <2>2. FlagsKept
      BY <1>1, <2>1, Zenon DEF FlagsKept, RunnerFlags
    <2>3. ShapesKept
      BY <1>1, <2>1 DEF ShapesKept, RunnerShapes, ProcStates
    <2>4. owed => shutdown
      BY <1>3 DEF RequestNotLost
    <2>5. QED
      BY <2>1, <2>2, <2>3, <2>4 DEF RunKept, LinksKept
  <1>4. QED
    BY <1>2, <1>3

(* The finished handler publishes a graph and ends the run.                *)
LEMMA FinishRunKeeps ==
    ASSUME RunnerInv, NEW exitedOk \in BOOLEAN, FinishRun(exitedOk)
    PROVE  RunKept /\ graph' \in [Paths -> Facts]
  <1>1. RunnerShapes /\ DiskFits
    BY RunnerTypeParts DEF RunnerInv
  <1>2. QED
    BY <1>1, ResultTypes, EndRunKeeps DEF FinishRun

-----------------------------------------------------------------------------
(* The invariant holds of the initial states.                              *)
LEMMA RunnerInvInit == RunnerInit => RunnerInv
  <1> SUFFICES ASSUME RunnerInit PROVE RunnerInv
    OBVIOUS
  <1>1. \A p \in Paths : disk[p].ver = 1 /\ disk[p].body \in Bodies(p)
    BY DEF RunnerInit
  <1>2. disk \in [Paths -> Entries] /\ edits = 1
    BY DEF RunnerInit, Entries
  <1>3. DiskFits
    BY <1>1, <1>2 DEF DiskFits
  <1>4. ConfigFile \in Paths /\ disk[ConfigFile].body \in Configs
    BY <1>1 DEF RunnerInit, Paths, Bodies, Loadable
  <1>5. LoadedConfig(disk[ConfigFile]) \in LoadedConfigs
    BY <1>1, <1>4, RunnerAssumption DEF LoadedConfig, LoadedConfigs
  <1>6. host \in HostStates(LoadedConfigs) /\ host.indexState = "empty"
    BY <1>5 DEF RunnerInit, InitialHost, HostStates, IndexStates
  <1>7. RunnerShapes
    BY <1>2, <1>6, NothingReadType
    DEF RunnerInit, RunnerShapes, Phases, ProcStates, EmptyGraph, NoFacts, Facts
  <1>8. RunnerFlags
    BY Zenon DEF RunnerInit, RunnerFlags
  <1>9. QuietBoot /\ IndexingMeansRunning /\ RequestNotLost
    BY <1>6 DEF RunnerInit, QuietBoot, IndexingMeansRunning, RequestNotLost
  <1>10. QED
    BY <1>3, <1>7, <1>8, <1>9, RunnerTypeParts DEF RunnerInv

(* A handler of the event loop that leaves alone what RunKept is not about *)
(* keeps the invariant.                                                    *)
LEMMA HandlerKeeps ==
    ASSUME RunnerInv, RunKept, phase = "serving",
           UNCHANGED <<disk, edits, phase, shutdown>>,
           graph' \in [Paths -> Facts], posts' \in Nat
    PROVE  RunnerInv'
  <1> USE DEF RunnerInv
  <1>1. RunnerFlags /\ RunnerShapes
    BY RunnerTypeParts
  <1>2. RunnerFlags'
    BY <1>1, Zenon DEF RunnerFlags, RunKept, FlagsKept
  <1>3. RunnerShapes'
    BY <1>1 DEF RunnerShapes, RunKept, ShapesKept
  <1>4. DiskFits'
    BY DEF DiskFits, Bodies, Paths, FileBodies
  <1>5. QuietBoot' /\ IndexingMeansRunning' /\ RequestNotLost'
    BY DEF QuietBoot, IndexingMeansRunning, RequestNotLost, RunKept, LinksKept
  <1>6. QED
    BY <1>2, <1>3, <1>4, <1>5, RunnerTypeParts

(* PostReindex.                                                            *)
LEMMA PostReindexKeeps == ASSUME RunnerInv, PostReindex PROVE RunnerInv'
  <1>1. RunKept
    BY RequestReindexKeeps DEF PostReindex
  <1>2. graph' \in [Paths -> Facts] /\ posts' \in Nat
    BY RunnerTypeParts DEF PostReindex, RunnerInv, RunnerShapes
  <1>3. QED
    BY <1>1, <1>2, HandlerKeeps DEF PostReindex, repoVars

(* FailedToStart.                                                          *)
LEMMA FailedToStartKeeps == ASSUME RunnerInv, FailedToStart PROVE RunnerInv'
  <1>1. /\ host \in HostStates(LoadedConfigs)
        /\ graph \in [Paths -> Facts]
        /\ posts \in Nat
    BY RunnerTypeParts DEF RunnerInv, RunnerShapes
  <1>2. RunKept
    BY <1>1, EndRunKeeps, MutatorTypes DEF FailedToStart
  <1>3. QED
    BY <1>1, <1>2, HandlerKeeps DEF FailedToStart, repoVars

(* Finished.                                                               *)
LEMMA FinishedKeeps == ASSUME RunnerInv, Finished PROVE RunnerInv'
  <1>1. posts \in Nat /\ (exit = "ok") \in BOOLEAN
    BY RunnerTypeParts DEF RunnerInv, RunnerShapes
  <1>2. RunKept /\ graph' \in [Paths -> Facts]
    BY <1>1, FinishRunKeeps DEF Finished
  <1>3. QED
    BY <1>1, <1>2, HandlerKeeps DEF Finished, repoVars

(* A process that outlives SIGKILL changes nothing the invariant is about. *)
LEMMA OutlivesKillKeeps ==
    ASSUME RunnerInv, phase = "serving", OutlivesKill, timer' \in BOOLEAN
    PROVE  RunKept /\ graph' \in [Paths -> Facts]
  <1> USE DEF RunnerInv
  <1>1. RunnerFlags /\ RunnerShapes
    BY RunnerTypeParts
  <1>2. FlagsKept
    BY <1>1, Zenon DEF FlagsKept, RunnerFlags, OutlivesKill
  <1>3. ShapesKept /\ graph' \in [Paths -> Facts]
    BY <1>1 DEF ShapesKept, RunnerShapes, OutlivesKill
  <1>4. LinksKept
    BY DEF LinksKept, OutlivesKill, IndexingMeansRunning, RequestNotLost
  <1>5. QED
    BY <1>2, <1>3, <1>4 DEF RunKept

(* Timeout.                                                                *)
LEMMA TimeoutKeeps == ASSUME RunnerInv, Timeout PROVE RunnerInv'
  <1>1. posts \in Nat /\ (exit = "ok") \in BOOLEAN /\ FALSE \in BOOLEAN
    BY RunnerTypeParts DEF RunnerInv, RunnerShapes
  <1>2. RunnerFlags /\ RunnerShapes
    BY RunnerTypeParts DEF RunnerInv
  <1>3. RunKept /\ graph' \in [Paths -> Facts]
    <2>1. CASE \/ proc = "exited" /\ FinishRun(exit = "ok")
               \/ proc \in {"starting", "running"} /\ FinishRun(FALSE)
      BY <1>1, <2>1, FinishRunKeeps
    <2>2. CASE OutlivesKill /\ timer' = FALSE
      BY <2>2, OutlivesKillKeeps DEF Timeout
    <2>3. CASE /\ proc = "none"
               /\ timer' = FALSE
               /\ UNCHANGED <<host, graph, proc, exit, read, dirty, began, owed>>
      <3>1. FlagsKept
        BY <1>2, <2>3, Zenon DEF FlagsKept, RunnerFlags
      <3>2. ShapesKept /\ graph' \in [Paths -> Facts]
        BY <1>2, <2>3 DEF ShapesKept, RunnerShapes
      <3>3. LinksKept
        BY <2>3 DEF LinksKept, Timeout, RunnerInv, IndexingMeansRunning, RequestNotLost
      <3>4. QED
        BY <3>1, <3>2, <3>3 DEF RunKept
    <2>4. QED
      BY <2>1, <2>2, <2>3 DEF Timeout
  <1>4. QED
    BY <1>1, <1>3, HandlerKeeps DEF Timeout, repoVars

(* OutputLimit.                                                            *)
LEMMA OutputLimitKeeps == ASSUME RunnerInv, OutputLimit PROVE RunnerInv'
  <1>1. posts \in Nat /\ FALSE \in BOOLEAN
    BY RunnerTypeParts DEF RunnerInv, RunnerShapes
  <1>2. RunKept /\ graph' \in [Paths -> Facts]
    <2>1. CASE FinishRun(FALSE)
      BY <1>1, <2>1, FinishRunKeeps
    <2>2. CASE OutlivesKill /\ UNCHANGED timer
      <3>1. timer' \in BOOLEAN
        BY <2>2, RunnerTypeParts, Zenon DEF RunnerInv, RunnerFlags
      <3>2. QED
        BY <2>2, <3>1, OutlivesKillKeeps DEF OutputLimit
    <2>3. QED
      BY <2>1, <2>2 DEF OutputLimit
  <1>3. QED
    BY <1>1, <1>2, HandlerKeeps DEF OutputLimit, repoVars

-----------------------------------------------------------------------------
(* main() and runBlocking, the analyzer, the user's edits.                 *)

(* An analyzer reads what the disk holds, or finds a deleted file broken.  *)
LEMMA ReadResultsType ==
    ASSUME RunnerShapes, NEW p \in Paths
    PROVE  ReadResults(p) \subseteq Entries
  BY DEF ReadResults, RunnerShapes, Entries, FileBodies

(* The steps that leave all flags but shutdown alone.                      *)
LEMMA QuietStepKeeps ==
    ASSUME RunnerInv,
           RunBlocking \/ BlockingFinished \/ BlockingAbandoned \/ BindFailed \/ Serve
    PROVE  RunnerInv'
  <1> USE DEF RunnerInv
  <1>1. RunnerFlags /\ RunnerShapes
    BY RunnerTypeParts
  <1>2. UNCHANGED <<disk, edits, shutdown, dirty, timer, owed, posts, exit, read>>
    BY DEF RunBlocking, BlockingFinished, BlockingAbandoned, BindFailed, Serve, repoVars, runVars
  <1>3. RunnerFlags'
    BY <1>1, <1>2, Zenon DEF RunnerFlags
  <1>4. DiskFits'
    BY <1>2 DEF DiskFits, Bodies, Paths, FileBodies
  <1>5. CASE RunBlocking
    BY <1>1, <1>2, <1>3, <1>4, <1>5, MutatorTypes, RunnerTypeParts
    DEF RunBlocking, RunnerShapes, Phases, ProcStates, QuietBoot, IndexingMeansRunning,
        RequestNotLost
  <1>6. CASE BlockingFinished
    <2>1. (exit = "ok") \in BOOLEAN
      OBVIOUS
    <2>2. /\ ResultState(exit = "ok") \in HostStates(LoadedConfigs)
          /\ ResultState(exit = "ok").indexState # "indexing"
          /\ ResultGraph(exit = "ok") \in [Paths -> Facts]
      BY <1>1, <2>1, ResultTypes
    <2>3. phase' \in {"listening", "exited"} /\ phase = "blocking"
      BY <1>6 DEF BlockingFinished
    <2>4. RunnerShapes'
      BY <1>1, <1>2, <1>6, <2>2, <2>3 DEF BlockingFinished, RunnerShapes, Phases, ProcStates
    <2>5. QuietBoot' /\ IndexingMeansRunning' /\ RequestNotLost'
      BY <1>2, <1>6, <2>2, <2>3
      DEF BlockingFinished, QuietBoot, IndexingMeansRunning, RequestNotLost
    <2>6. QED
      BY <1>3, <1>4, <2>4, <2>5, RunnerTypeParts
  <1>7. CASE BlockingAbandoned
    BY <1>1, <1>2, <1>3, <1>4, <1>7, MutatorTypes, RunnerTypeParts
    DEF BlockingAbandoned, RunnerShapes, Phases, ProcStates, QuietBoot,
        IndexingMeansRunning, RequestNotLost
  <1>8. CASE BindFailed \/ Serve
    BY <1>1, <1>2, <1>3, <1>4, <1>8, RunnerTypeParts
    DEF BindFailed, Serve, runVars, RunnerShapes, Phases, QuietBoot, IndexingMeansRunning,
        RequestNotLost
  <1>9. QED
    BY <1>5, <1>6, <1>7, <1>8

(* The shutdown signal and the end it brings.                              *)
LEMMA EndKeeps == ASSUME RunnerInv, SignalArrives \/ Quit PROVE RunnerInv'
  <1> USE DEF RunnerInv
  <1>1. RunnerFlags /\ RunnerShapes
    BY RunnerTypeParts
  <1>2. RunnerFlags'
    BY <1>1, Zenon DEF RunnerFlags, SignalArrives, Quit, runVars
  <1>3. RunnerShapes' /\ DiskFits'
    BY <1>1
    DEF RunnerShapes, SignalArrives, Quit, runVars, repoVars, Phases, ProcStates, DiskFits,
        Bodies, Paths, FileBodies
  <1>4. QuietBoot' /\ IndexingMeansRunning' /\ RequestNotLost'
    BY DEF SignalArrives, Quit, runVars, QuietBoot, IndexingMeansRunning, RequestNotLost
  <1>5. QED
    BY <1>2, <1>3, <1>4, RunnerTypeParts

(* The analyzer process moves.                                             *)
LEMMA AnalyzerKeeps ==
    ASSUME RunnerInv,
           AnalyzerStarted \/ AnalyzerExits \/ (\E p \in Paths : AnalyzerRead(p))
    PROVE  RunnerInv'
  <1> USE DEF RunnerInv
  <1>1. RunnerFlags /\ RunnerShapes
    BY RunnerTypeParts
  <1>2. UNCHANGED <<host, disk, edits, phase, shutdown, dirty, timer, graph, posts, began, owed>>
    BY DEF AnalyzerStarted, AnalyzerExits, AnalyzerRead, repoVars
  <1>3. RunnerFlags' /\ DiskFits'
    BY <1>1, <1>2, Zenon DEF RunnerFlags, DiskFits, Bodies, Paths, FileBodies
  <1>4. /\ proc' \in ProcStates
        /\ proc # "none" /\ proc' # "none"
        /\ exit' \in {"pending", "ok", "error"}
    BY <1>1 DEF AnalyzerStarted, AnalyzerExits, AnalyzerRead, RunnerShapes, ProcStates
  <1>5. read' \in [Paths -> Entries]
    BY <1>1, ReadResultsType DEF AnalyzerStarted, AnalyzerExits, AnalyzerRead, RunnerShapes
  <1>6. RunnerShapes'
    BY <1>1, <1>2, <1>4, <1>5 DEF RunnerShapes
  <1>7. phase # "booting"
    BY <1>4 DEF QuietBoot
  <1>8. QuietBoot' /\ IndexingMeansRunning' /\ RequestNotLost'
    BY <1>2, <1>4, <1>7 DEF QuietBoot, IndexingMeansRunning, RequestNotLost
  <1>9. QED
    BY <1>3, <1>6, <1>8, RunnerTypeParts

(* An edit.                                                                *)
LEMMA EditKeeps ==
    ASSUME RunnerInv, NEW p \in Paths, NEW body \in Bodies(p), Edit(p, body)
    PROVE  RunnerInv'
  <1> USE DEF RunnerInv
  <1>1. RunnerFlags /\ RunnerShapes
    BY RunnerTypeParts
  <1>2. UNCHANGED <<host, phase, shutdown, proc, exit, read, dirty, timer, graph, posts, began, owed>>
    BY DEF Edit, runVars
  <1>3. RunnerFlags'
    BY <1>1, <1>2, Zenon DEF RunnerFlags
  <1>4. [ver |-> edits + 1, body |-> body] \in Entries /\ edits' = edits + 1
    BY <1>1 DEF Edit, RunnerShapes, Entries, Bodies
  <1>5. RunnerShapes'
    BY <1>1, <1>2, <1>4 DEF RunnerShapes, Edit
  <1>6. ASSUME NEW q \in Paths
        PROVE  disk'[q].body \in Bodies(q) /\ disk'[q].ver <= edits'
    <2>1. disk'[q] = IF q = p THEN [ver |-> edits + 1, body |-> body] ELSE disk[q]
      BY <1>1 DEF Edit, RunnerShapes
    <2>2. disk[q].ver \in Nat /\ edits \in Nat
      BY <1>1 DEF RunnerShapes, Entries
    <2>3. QED
      BY <1>4, <2>1, <2>2 DEF DiskFits
  <1>7. DiskFits'
    BY <1>6 DEF DiskFits, Bodies, Paths, FileBodies
  <1>8. QuietBoot' /\ IndexingMeansRunning' /\ RequestNotLost'
    BY <1>2 DEF QuietBoot, IndexingMeansRunning, RequestNotLost, NothingRead, Unread, Paths
  <1>9. QED
    BY <1>3, <1>5, <1>7, <1>8, RunnerTypeParts

(* Every step keeps the invariant.                                         *)
LEMMA RunnerInvStep == RunnerInv /\ [RunnerNext]_runnerVars => RunnerInv'
  <1> SUFFICES ASSUME RunnerInv, [RunnerNext]_runnerVars
               PROVE  RunnerInv'
    OBVIOUS
  <1>1. CASE RunnerStep
    BY <1>1, QuietStepKeeps, FailedToStartKeeps, FinishedKeeps, TimeoutKeeps,
       OutputLimitKeeps, AnalyzerKeeps, EndKeeps DEF RunnerStep
  <1>2. CASE Serve \/ BindFailed
    BY <1>2, QuietStepKeeps
  <1>3. CASE Quit
    BY <1>3, EndKeeps
  <1>4. CASE PostReindex
    BY <1>4, PostReindexKeeps
  <1>5. CASE \E p \in Paths : \E body \in Bodies(p) : Edit(p, body)
    BY <1>5, EditKeeps
  <1>6. CASE UNCHANGED runnerVars
    BY <1>6
    DEF runnerVars, RunnerInv, RunnerTypeOK, DiskFits, QuietBoot, IndexingMeansRunning,
        RequestNotLost, Paths, Bodies, FileBodies, NothingRead, Unread
  <1>7. QED
    BY <1>1, <1>2, <1>3, <1>4, <1>5, <1>6 DEF RunnerNext, Terminated

(* The invariant holds throughout.                                         *)
THEOREM RunnerInvariant == RunnerSpec => []RunnerInv
  BY RunnerInvInit, RunnerInvStep, PTL DEF RunnerSpec

(* The runner's variables keep their shapes.                               *)
THEOREM RunnerTypeCorrect == RunnerSpec => []RunnerTypeOK
  BY RunnerInvariant, PTL DEF RunnerInv

(* The status says "indexing" exactly while an analyzer is at work.        *)
THEOREM StatusTellsTruth == RunnerSpec => []IndexingMeansRunning
  BY RunnerInvariant, PTL DEF RunnerInv

(* A request made during a run is never forgotten.                         *)
THEOREM RequestsRemembered == RunnerSpec => []RequestNotLost
  BY RunnerInvariant, PTL DEF RunnerInv

-----------------------------------------------------------------------------
(* What is published.  A second invariant ties what the analyzer has read  *)
(* to the disk and to the graph before it.                                 *)

(* A path that was read and not edited since the run began is still so.    *)
ReadsAreOfRun ==
    /\ began <= edits
    /\ \A p \in Paths : HasRead(p) =>
          /\ read[p].ver <= disk[p].ver
          /\ disk[p].ver <= began => read[p] = disk[p]

(* An analyzer succeeds only after it has read everything.                 *)
OkMeansRead == exit = "ok" => \A p \in Paths : HasRead(p)

(* The graph is of the past: of what was read last, or longer ago.         *)
GraphIsPast ==
    \A p \in Paths :
        /\ graph[p].shown <= graph[p].seen
        /\ graph[p].seen <= disk[p].ver
        /\ HasRead(p) => graph[p].seen <= read[p].ver

ReadInv == ReadsAreOfRun /\ OkMeansRead /\ GraphIsPast

(* The two ways a step treats the published state.                         *)
NotPublished ==
    graph' = graph /\ host'.generation = host.generation /\ host'.config = host.config

PublishedRun ==
    /\ exit = "ok"
    /\ graph' = ImportedGraph(read, graph, host.generation)
    /\ host'.generation = host.generation + 1

(* The two ways a step treats the run.                                     *)
NewRun == read' = NothingRead /\ exit' = "pending" /\ began' = edits

SameRun == UNCHANGED <<read, began>> /\ (exit' = exit \/ exit' = "error")

(* Starting a run publishes nothing.                                       *)
LEMMA StartAsyncPublishesNot ==
    ASSUME NEW h \in HostStates(LoadedConfigs), StartAsync(h)
    PROVE  NewRun /\ host'.generation = h.generation /\ host'.config = h.config
  <1>1. /\ IndexingStarted(h).generation = h.generation
        /\ IndexingStarted(h).config = h.config
        /\ IndexingFailed(IndexingStarted(h)).generation = h.generation
        /\ IndexingFailed(IndexingStarted(h)).config = h.config
    BY DEF HostStates, IndexingStarted, IndexingFailed
  <1>2. QED
    BY <1>1 DEF StartAsync, NewRun, ProcessForked, ForkFailed

(* The end of a run, apart from what acceptResult decided.                 *)
LEMMA EndRunPublishes ==
    ASSUME NEW h \in HostStates(LoadedConfigs), EndRun(h)
    PROVE  /\ NewRun \/ SameRun
           /\ host'.generation = h.generation
           /\ host'.config = h.config
  BY StartAsyncPublishesNot DEF EndRun, SameRun

(* acceptResult publishes everything or nothing.                           *)
LEMMA ResultPublishes ==
    ASSUME RunnerShapes, NEW exitedOk \in BOOLEAN
    PROVE  \/ /\ ResultGraph(exitedOk) = graph
              /\ ResultState(exitedOk).generation = host.generation
              /\ ResultState(exitedOk).config = host.config
           \/ /\ exitedOk
              /\ ResultGraph(exitedOk) = ImportedGraph(read, graph, host.generation)
              /\ ResultState(exitedOk).generation = host.generation + 1
  <1>1. IndexingFailed(host).generation = host.generation /\ IndexingFailed(host).config = host.config
    BY DEF RunnerShapes, HostStates, IndexingFailed
  <1>2. CASE Accepted(exitedOk)
    BY <1>2 DEF Accepted, ResultState, ResultGraph, IndexingSucceeded
  <1>3. CASE ~Accepted(exitedOk)
    BY <1>1, <1>3 DEF ResultState, ResultGraph
  <1>4. QED
    BY <1>2, <1>3

(* So does the finished handler, which may begin the next run at once.     *)
LEMMA FinishRunPublishes ==
    ASSUME RunnerInv, NEW exitedOk \in BOOLEAN, exitedOk => exit = "ok", FinishRun(exitedOk)
    PROVE  (NewRun \/ SameRun) /\ (NotPublished \/ PublishedRun)
  <1>1. RunnerShapes /\ DiskFits
    BY RunnerTypeParts DEF RunnerInv
  <1>2. ResultState(exitedOk) \in HostStates(LoadedConfigs)
    BY <1>1, ResultTypes
  <1>3. /\ NewRun \/ SameRun
        /\ host'.generation = ResultState(exitedOk).generation
        /\ host'.config = ResultState(exitedOk).config
        /\ graph' = ResultGraph(exitedOk)
    BY <1>2, EndRunPublishes DEF FinishRun
  <1>4. QED
    BY <1>1, <1>3, ResultPublishes DEF NotPublished, PublishedRun

(* A step in which the server, and neither analyzer nor user, acts.        *)
ServerMove ==
    /\ UNCHANGED <<disk, edits>>
    /\ NewRun \/ SameRun
    /\ NotPublished \/ PublishedRun

(* Every step is one, or one of the analyzer or of the user.               *)
LEMMA StepKinds ==
    ASSUME RunnerInv, [RunnerNext]_runnerVars
    PROVE  \/ ServerMove
           \/ AnalyzerExits
           \/ \E p \in Paths : AnalyzerRead(p)
           \/ \E p \in Paths : \E body \in Bodies(p) : Edit(p, body)
  <1> USE DEF ServerMove, SameRun, NotPublished
  <1>1. /\ RunnerShapes
        /\ host \in HostStates(LoadedConfigs)
        /\ (exit = "ok") \in BOOLEAN
        /\ FALSE \in BOOLEAN
    BY RunnerTypeParts DEF RunnerInv, RunnerShapes
  <1>2. /\ IndexingStarted(host).generation = host.generation
        /\ IndexingStarted(host).config = host.config
        /\ IndexingFailed(host).generation = host.generation
        /\ IndexingFailed(host).config = host.config
    BY <1>1 DEF IndexingStarted, IndexingFailed, HostStates
  <1>3. CASE RunBlocking
    BY <1>2, <1>3 DEF RunBlocking, RunnerInv, QuietBoot, NewRun
  <1>4. CASE BlockingFinished
    BY <1>1, <1>4, ResultPublishes DEF BlockingFinished, PublishedRun
  <1>5. CASE BlockingAbandoned
    BY <1>2, <1>5 DEF BlockingAbandoned
  <1>6. CASE FailedToStart
    <2>1. IndexingFailed(host) \in HostStates(LoadedConfigs)
      BY <1>1, MutatorTypes
    <2>2. QED
      BY <1>2, <1>6, <2>1, EndRunPublishes DEF FailedToStart, repoVars
  <1>7. CASE Finished
    BY <1>1, <1>7, FinishRunPublishes DEF Finished, repoVars
  <1>8. CASE Timeout
    BY <1>1, <1>8, FinishRunPublishes DEF Timeout, OutlivesKill, repoVars
  <1>9. CASE OutputLimit
    BY <1>1, <1>9, FinishRunPublishes DEF OutputLimit, OutlivesKill, repoVars
  <1>10. CASE PostReindex
    BY <1>1, <1>10, StartAsyncPublishesNot DEF PostReindex, RequestReindex, repoVars
  <1>11. CASE AnalyzerStarted \/ SignalArrives \/ Quit \/ Serve \/ BindFailed
    BY <1>11 DEF AnalyzerStarted, SignalArrives, Quit, Serve, BindFailed, repoVars, runVars
  <1>12. CASE Terminated \/ UNCHANGED runnerVars
    BY <1>12 DEF Terminated, runnerVars
  <1>13. QED
    BY <1>3, <1>4, <1>5, <1>6, <1>7, <1>8, <1>9, <1>10, <1>11, <1>12 DEF RunnerNext, RunnerStep

(* The facts of one path in a new graph.                                   *)
LEMMA ImportedFactsOf ==
    ASSUME RunnerInv, ReadInv, PublishedRun, NEW p \in Paths
    PROVE  /\ HasRead(p)
           /\ \/ graph'[p] = NoFacts /\ (Excluded(p, read) \/ Missing(read[p]))
              \/ /\ graph'[p].seen = read[p].ver
                 /\ \/ graph'[p].shown = read[p].ver
                    \/ read[p].body = "broken" /\ graph'[p].shown = graph[p].shown
  <1>1. HasRead(p)
    BY DEF ReadInv, OkMeansRead, PublishedRun
  <1>2. graph'[p] = ImportedFacts(p, read, graph, host.generation)
    BY DEF PublishedRun, ImportedGraph
  <1>3. QED
    BY <1>1, <1>2 DEF ImportedFacts

(* ReadInv holds of the initial states.                                    *)
LEMMA ReadInvInit == RunnerInit => ReadInv
  <1> SUFFICES ASSUME RunnerInit PROVE ReadInv
    OBVIOUS
  <1>1. \A p \in Paths : ~HasRead(p) /\ graph[p] = NoFacts /\ disk[p].ver = 1
    BY DEF RunnerInit, HasRead, NothingRead, Unread, EmptyGraph
  <1>2. began = 0 /\ edits = 1 /\ exit = "pending"
    BY DEF RunnerInit
  <1>3. QED
    BY <1>1, <1>2 DEF ReadInv, ReadsAreOfRun, OkMeansRead, GraphIsPast, NoFacts

(* A move of the server keeps ReadInv.                                     *)
LEMMA ServerMoveKeepsReads ==
    ASSUME RunnerInv, ReadInv, ServerMove
    PROVE  ReadInv'
  <1>1. /\ edits \in Nat /\ began \in Nat
        /\ \A p \in Paths : disk[p].ver \in Nat /\ read[p].ver \in Nat
        /\ \A p \in Paths : graph[p].seen \in Nat /\ graph[p].shown \in Nat
    BY RunnerTypeParts DEF RunnerInv, RunnerShapes, Entries, Facts
  <1>2. UNCHANGED <<disk, edits>>
    BY DEF ServerMove
  <1>3. ASSUME NEW p \in Paths
        PROVE  /\ graph'[p].shown <= graph'[p].seen
               /\ graph'[p].seen <= disk[p].ver
               /\ HasRead(p) => graph'[p].seen <= read[p].ver
    <2>1. CASE NotPublished
      BY <2>1 DEF NotPublished, ReadInv, GraphIsPast
    <2>2. CASE PublishedRun
      BY <1>1, <2>2, ImportedFactsOf DEF ReadInv, GraphIsPast, ReadsAreOfRun, NoFacts
    <2>3. QED
      BY <2>1, <2>2 DEF ServerMove
  <1>4. CASE NewRun
    <2>1. \A p \in Paths : ~HasRead(p)'
      BY <1>4 DEF NewRun, HasRead, NothingRead, Unread
    <2>2. Paths' = Paths
      BY DEF Paths
    <2>3. QED
      BY <1>1, <1>2, <1>3, <1>4, <2>1, <2>2
      DEF NewRun, ReadInv, ReadsAreOfRun, OkMeansRead, GraphIsPast
  <1>5. CASE SameRun
    <2>1. \A p \in Paths : HasRead(p)' = HasRead(p) /\ read'[p] = read[p]
      BY <1>5 DEF SameRun, HasRead
    <2>2. Paths' = Paths
      BY DEF Paths
    <2>3. QED
      BY <1>2, <1>3, <1>5, <2>1, <2>2
      DEF SameRun, ReadInv, ReadsAreOfRun, OkMeansRead, GraphIsPast
  <1>6. QED
    BY <1>4, <1>5 DEF ServerMove

(* So does every step.                                                     *)
LEMMA ReadInvStep == RunnerInv /\ ReadInv /\ [RunnerNext]_runnerVars => ReadInv'
  <1> SUFFICES ASSUME RunnerInv, ReadInv, [RunnerNext]_runnerVars
               PROVE  ReadInv'
    OBVIOUS
  <1> USE DEF ReadInv
  <1>1. /\ edits \in Nat /\ began \in Nat
        /\ disk \in [Paths -> Entries] /\ read \in [Paths -> Entries]
        /\ \A p \in Paths : disk[p].ver \in Nat /\ read[p].ver \in Nat
        /\ \A p \in Paths : graph[p].seen \in Nat /\ graph[p].shown \in Nat
    BY RunnerTypeParts DEF RunnerInv, RunnerShapes, Entries, Facts
  <1>2. CASE AnalyzerExits
    BY <1>2
    DEF AnalyzerExits, AnalyzerSucceeds, repoVars, ReadsAreOfRun, OkMeansRead, GraphIsPast,
        HasRead, Paths
  <1>3. ASSUME NEW p \in Paths, AnalyzerRead(p)
        PROVE  ReadInv'
    <2>1. PICK e \in ReadResults(p) : read' = [read EXCEPT ![p] = e]
      BY <1>3 DEF AnalyzerRead
    <2>2. e.ver = disk[p].ver /\ (disk[p].ver <= began => e = disk[p])
      BY <1>1, <2>1 DEF ReadResults
    <2>3. UNCHANGED <<disk, edits, graph, began, exit>> /\ ~HasRead(p)
      BY <1>3 DEF AnalyzerRead, repoVars
    <2>4. \A q \in Paths : read'[q] = IF q = p THEN e ELSE read[q]
      BY <1>1, <2>1
    <2>5. exit # "ok"
      BY <2>3 DEF OkMeansRead
    <2>6. QED
      BY <1>1, <2>2, <2>3, <2>4, <2>5
      DEF ReadsAreOfRun, OkMeansRead, GraphIsPast, HasRead, Paths
  <1>4. ASSUME NEW p \in Paths, NEW body \in Bodies(p), Edit(p, body)
        PROVE  ReadInv'
    <2>1. /\ edits' = edits + 1
          /\ UNCHANGED <<graph, began, exit, read>>
      BY <1>4 DEF Edit, runVars
    <2>2. \A q \in Paths :
             disk'[q] = IF q = p THEN [ver |-> edits + 1, body |-> body] ELSE disk[q]
      BY <1>1, <1>4 DEF Edit
    <2>3. disk[p].ver <= edits /\ disk'[p].ver = edits + 1
      BY <2>2 DEF RunnerInv, DiskFits
    <2>4. QED
      BY <1>1, <2>1, <2>2, <2>3 DEF ReadsAreOfRun, OkMeansRead, GraphIsPast, HasRead, Paths
  <1>5. QED
    BY <1>2, <1>3, <1>4, StepKinds, ServerMoveKeepsReads

(* Both invariants hold throughout.                                        *)
THEOREM RunnerReadInvariant == RunnerSpec => [](RunnerInv /\ ReadInv)
  BY RunnerInvInit, RunnerInvStep, ReadInvInit, ReadInvStep, PTL DEF RunnerSpec

(* A new generation holds what the disk holds of every path left alone     *)
(* since its run began.                                                    *)
THEOREM PublicationIsFaithful == RunnerSpec => PublishesWhatItRead
  <1> DEFINE FaithfulTo(f) ==
               \/ disk[f].ver > began
               \/ Excluded(f, read)
               \/ disk[f].body = "absent" /\ graph'[f] = NoFacts
               \/ /\ graph'[f].seen = disk[f].ver
                  /\ disk[f].body # "broken" => graph'[f].shown = disk[f].ver
  <1>1. ASSUME RunnerInv, ReadInv, [RunnerNext]_runnerVars,
               host'.generation # host.generation, NEW f \in Files
        PROVE  FaithfulTo(f)
    <2>1. PublishedRun
      BY <1>1, StepKinds DEF ServerMove, NotPublished, AnalyzerExits, AnalyzerRead, Edit
    <2>2. f \in Paths /\ disk[f].body \in FileBodies /\ f # ConfigFile
      BY <1>1, RunnerAssumption DEF Paths, RunnerInv, DiskFits, Bodies
    <2>3. disk[f].ver \in Nat /\ began \in Nat
      BY <1>1, <2>2, RunnerTypeParts DEF RunnerInv, RunnerShapes, Entries
    <2>4. CASE disk[f].ver <= began
      <3>1. read[f] = disk[f]
        BY <1>1, <2>1, <2>2, <2>4, ImportedFactsOf DEF ReadInv, ReadsAreOfRun
      <3>2. Missing(disk[f]) => disk[f].body = "absent"
        BY <2>2, RunnerAssumption DEF Missing, FileBodies
      <3>3. QED
        BY <1>1, <2>1, <2>2, <3>1, <3>2, ImportedFactsOf
    <2>5. QED
      BY <2>3, <2>4
  <1>2. RunnerInv /\ ReadInv /\ [RunnerNext]_runnerVars =>
            [host'.generation # host.generation => \A f \in Files : FaithfulTo(f)]_runnerVars
    BY <1>1
  <1>3. QED
    BY <1>2, RunnerReadInvariant, PTL DEF RunnerSpec, PublishesWhatItRead

(* Generations come one at a time, with their graph and configuration, and *)
(* no published file goes back in time.                                    *)
THEOREM GenerationsAreMonotone == RunnerSpec => GenerationsMoveForward
  <1> DEFINE Forward ==
               \/ /\ host'.generation = host.generation
                  /\ graph' = graph
                  /\ host'.config = host.config
               \/ /\ host'.generation = host.generation + 1
                  /\ \A f \in Files :
                        \/ graph'[f].seen = 0
                        \/ /\ graph'[f].seen >= graph[f].seen
                           /\ graph'[f].shown >= graph[f].shown
  <1>1. ASSUME RunnerInv, ReadInv, [RunnerNext]_runnerVars
        PROVE  Forward
    <2>1. NotPublished \/ PublishedRun
      BY <1>1, StepKinds DEF ServerMove, NotPublished, AnalyzerExits, AnalyzerRead, Edit
    <2>2. ASSUME PublishedRun, NEW f \in Files
          PROVE  \/ graph'[f].seen = 0
                 \/ graph'[f].seen >= graph[f].seen /\ graph'[f].shown >= graph[f].shown
      <3>1. f \in Paths
        BY DEF Paths
      <3>2. graph[f].seen \in Nat /\ graph[f].shown \in Nat /\ read[f].ver \in Nat
        BY <1>1, <3>1, RunnerTypeParts DEF RunnerInv, RunnerShapes, Entries, Facts
      <3>3. graph[f].shown <= graph[f].seen /\ graph[f].seen <= read[f].ver
        BY <1>1, <2>2, <3>1, ImportedFactsOf DEF ReadInv, GraphIsPast
      <3>4. QED
        BY <1>1, <2>2, <3>1, <3>2, <3>3, ImportedFactsOf DEF NoFacts
    <2>3. QED
      BY <2>1, <2>2 DEF NotPublished, PublishedRun
  <1>2. RunnerInv /\ ReadInv /\ [RunnerNext]_runnerVars => [Forward]_runnerVars
    BY <1>1
  <1>3. QED
    BY <1>2, RunnerReadInvariant, PTL DEF RunnerSpec, GenerationsMoveForward

-----------------------------------------------------------------------------
(* RepositoryWatcher.                                                      *)

(* What a manifest says of a path that is not excluded.                    *)
EntryOf(p) == IF Missing(disk[p]) THEN 0 ELSE disk[p].ver

WatcherFlags ==
    debounce \in BOOLEAN /\ hint \in BOOLEAN /\ baselineFresh \in BOOLEAN /\ blinked \in BOOLEAN

WatcherShapes == manifest \in [Paths -> Nat]

(* A manifest is of the past.                                              *)
ManifestIsPast == \A p \in Paths : manifest[p] <= edits

(* No analyzer runs when the watcher takes its first manifest.             *)
ListeningIdle == phase = "listening" => proc = "none"

(* When nothing is scheduled or owed, the run in progress began after the  *)
(* last edit of every path of which the manifest is up to date.            *)
ScannedIsRead ==
    phase = "serving" /\ ~blinked /\ ~debounce /\ ~dirty /\ proc # "none" =>
        \A p \in Paths : manifest[p] = EntryOf(p) => disk[p].ver <= began

WatcherInv ==
    /\ WatcherFlags /\ WatcherShapes
    /\ ManifestIsPast /\ ListeningIdle
    /\ ScannedIsRead /\ NoChangeForgotten

-----------------------------------------------------------------------------
(* What the invariants of the runner say, in the form used below.          *)
LEMMA RunnerFacts ==
    ASSUME RunnerInv
    PROVE  /\ edits \in Nat /\ began \in Nat
           /\ disk \in [Paths -> Entries] /\ read \in [Paths -> Entries]
           /\ host \in HostStates(LoadedConfigs)
           /\ graph \in [Paths -> Facts]
           /\ \A p \in Paths : disk[p].ver \in Nat /\ disk[p].ver <= edits
           /\ ConfigFile \in Paths
           /\ host.config.excluded \subseteq Files
  <1>1. RunnerShapes /\ DiskFits
    BY RunnerTypeParts DEF RunnerInv
  <1>2. ConfigFile \in Paths
    BY DEF Paths
  <1>3. host.config.excluded \subseteq Files
    BY <1>1 DEF RunnerShapes, HostStates, LoadedConfigs
  <1>4. \A p \in Paths : disk[p].ver \in Nat /\ disk[p].ver <= edits
    BY <1>1 DEF RunnerShapes, DiskFits, Entries
  <1>5. QED
    BY <1>1, <1>2, <1>3, <1>4 DEF RunnerShapes

(* A run that begins now covers every edit so far.                         *)
LEMMA NewRunCovers ==
    ASSUME RunnerInv', began' = edits', proc' # "none" \/ host'.lastError
    PROVE  ScannedIsRead' /\ NoChangeForgotten'
  <1>1. \A p \in Paths : (disk'[p]).ver <= began'
    BY DEF RunnerInv, DiskFits, Paths
  <1>2. ScannedIsRead'
    BY <1>1 DEF ScannedIsRead, Paths
  <1>3. NoChangeForgotten'
    BY <1>1 DEF NoChangeForgotten, Paths
  <1>4. QED
    BY <1>2, <1>3

(* So does a promise, and the end of the server needs none.                *)
LEMMA PromiseCovers ==
    ASSUME debounce' = TRUE \/ dirty' = TRUE \/ phase' # "serving"
    PROVE  ScannedIsRead' /\ NoChangeForgotten'
  BY DEF ScannedIsRead, NoChangeForgotten

-----------------------------------------------------------------------------
(* The ways a handler of the event loop treats the run.                    *)

Begins ==
    /\ began' = edits
    /\ proc' # "none" \/ host'.lastError

Fails == proc' = "none" /\ host'.lastError

Publishes ==
    /\ exit = "ok" /\ Loadable
    /\ proc # "none" /\ proc' = "none"
    /\ graph' = ImportedGraph(read, graph, host.generation)
    /\ host' = IndexingSucceeded(host, LoadedConfig(disk[ConfigFile]))
    /\ ~(dirty /\ ~shutdown)
    /\ dirty' = dirty

GoesOn ==
    /\ UNCHANGED <<host, graph, began>>
    /\ (proc' = "none") <=> (proc = "none")
    /\ dirty' = dirty \/ dirty' = TRUE

(* startAsync begins a run that knows of every edit, or fails.             *)
LEMMA StartAsyncBegins ==
    ASSUME NEW h \in HostStates(LoadedConfigs), StartAsync(h)
    PROVE  Begins
  <1>1. IndexingFailed(IndexingStarted(h)).lastError
    BY DEF HostStates, IndexingStarted, IndexingFailed
  <1>2. QED
    BY <1>1 DEF StartAsync, ProcessForked, ForkFailed, Begins

(* requestReindex begins a run, or makes the promise.                      *)
LEMMA RequestBegins ==
    ASSUME RunnerInv, RequestReindex
    PROVE  Begins \/ (dirty' = TRUE /\ UNCHANGED <<host, proc, began>>)
  <1>1. host \in HostStates(LoadedConfigs)
    BY RunnerFacts
  <1>2. QED
    BY <1>1, StartAsyncBegins DEF RequestReindex

(* A run whose result is not accepted leaves its error or another run.     *)
LEMMA FailureShows ==
    ASSUME RunnerInv, EndRun(IndexingFailed(host))
    PROVE  Begins \/ Fails
  <1>1. /\ host \in HostStates(LoadedConfigs)
        /\ IndexingFailed(host) \in HostStates(LoadedConfigs)
    BY RunnerFacts, MutatorTypes
  <1>2. IndexingFailed(host).lastError
    BY <1>1 DEF HostStates, IndexingFailed
  <1>3. QED
    BY <1>1, <1>2, StartAsyncBegins DEF EndRun, Fails

(* The finished handler publishes, fails, or begins the next run.          *)
LEMMA FinishKinds ==
    ASSUME RunnerInv, proc # "none",
           NEW exitedOk \in BOOLEAN, exitedOk => exit = "ok", FinishRun(exitedOk)
    PROVE  Begins \/ Fails \/ Publishes
  <1>1. CASE ~Accepted(exitedOk)
    BY <1>1, FailureShows DEF FinishRun, ResultState
  <1>2. CASE Accepted(exitedOk)
    <2> DEFINE h == ResultState(exitedOk)
    <2>1. h = IndexingSucceeded(host, LoadedConfig(disk[ConfigFile]))
      BY <1>2 DEF ResultState
    <2>2. h \in HostStates(LoadedConfigs)
      BY ResultTypes, RunnerTypeParts DEF RunnerInv
    <2>3. CASE dirty /\ ~shutdown
      <3>1. StartAsync(h)
        BY <2>3 DEF FinishRun, EndRun
      <3> HIDE DEF h
      <3>2. QED
        BY <2>2, <3>1, StartAsyncBegins
    <2>4. CASE ~(dirty /\ ~shutdown)
      BY <1>2, <2>1, <2>4 DEF FinishRun, EndRun, Publishes, Accepted, ResultGraph
    <2>5. QED
      BY <2>3, <2>4
  <1>3. QED
    BY <1>1, <1>2

(* What the steps of the runner do, other than an edit, once the event     *)
(* loop runs.                                                              *)
LEMMA ServingKinds ==
    ASSUME RunnerInv, phase = "serving", RunnerStep \/ PostReindex
    PROVE  /\ UNCHANGED <<disk, edits, phase>>
           /\ shutdown => shutdown'
           /\ Begins \/ Fails \/ Publishes \/ GoesOn
  <1>1. /\ (exit = "ok") \in BOOLEAN
        /\ FALSE \in BOOLEAN
    OBVIOUS
  <1>2. CASE FailedToStart
    BY <1>2, FailureShows DEF FailedToStart, repoVars
  <1>3. CASE Finished
    BY <1>1, <1>3, FinishKinds DEF Finished, repoVars
  <1>4. CASE Timeout
    <2>1. CASE \/ proc = "exited" /\ FinishRun(exit = "ok")
               \/ proc \in {"starting", "running"} /\ FinishRun(FALSE)
      BY <1>1, <1>4, <2>1, FinishKinds DEF Timeout, repoVars
    <2>2. CASE UNCHANGED <<host, graph, proc, dirty, began>>
      BY <1>4, <2>2 DEF Timeout, repoVars, GoesOn
    <2>3. QED
      BY <1>4, <2>1, <2>2 DEF Timeout, OutlivesKill
  <1>5. CASE OutputLimit
    <2>1. CASE FinishRun(FALSE)
      BY <1>1, <1>5, <2>1, FinishKinds DEF OutputLimit, repoVars
    <2>2. CASE OutlivesKill
      BY <1>5, <2>2 DEF OutputLimit, OutlivesKill, repoVars, GoesOn
    <2>3. QED
      BY <1>5, <2>1, <2>2 DEF OutputLimit
  <1>6. CASE AnalyzerStarted \/ AnalyzerExits \/ SignalArrives
    BY <1>6 DEF AnalyzerStarted, AnalyzerExits, SignalArrives, repoVars, runVars, GoesOn
  <1>7. CASE \E p \in Paths : AnalyzerRead(p)
    BY <1>7 DEF AnalyzerRead, repoVars, GoesOn
  <1>8. CASE PostReindex
    BY <1>8, RequestBegins DEF PostReindex, repoVars, GoesOn
  <1>9. QED
    BY <1>2, <1>3, <1>4, <1>5, <1>6, <1>7, <1>8
    DEF RunnerStep, RunBlocking, BlockingFinished, BlockingAbandoned

-----------------------------------------------------------------------------
(* A graph that is published and not followed by another run is up to date *)
(* with every path of which the manifest is, so that the next scan sees    *)
(* the others.                                                             *)
LEMMA PublicationCovers ==
    ASSUME RunnerInv, ReadInv, WatcherInv, Publishes,
           phase = "serving", UNCHANGED <<disk, edits, phase>>, UNCHANGED watcherVars,
           ~blinked, ~debounce, ~dirty, manifest = Manifest'
    PROVE  Fresh'
  <1> DEFINE C == disk[ConfigFile]
             X == ExcludedBy[C.body]
  <1>1. /\ C.body \in Configs
        /\ X \subseteq Files
        /\ ConfigFile \notin X
    BY RunnerAssumption, RunnerFacts DEF RunnerInv, DiskFits, Bodies, Publishes, Loadable
  <1>2. /\ host'.config = LoadedConfig(C)
        /\ host'.config.excluded = X
        /\ host'.config.ver = EntryOf(ConfigFile)
    BY DEF Publishes, IndexingSucceeded, LoadedConfig, EntryOf
  <1>3. ASSUME NEW p \in Paths, p \notin X
        PROVE  read[p] = disk[p] /\ HasRead(p)
    <2>1. manifest[p] = EntryOf(p)
      BY <1>2, <1>3 DEF Manifest, EntryOf, Missing, Paths
    <2>2. disk[p].ver <= began
      BY <1>3, <2>1 DEF WatcherInv, ScannedIsRead, Publishes
    <2>3. HasRead(p)
      BY <1>3 DEF Publishes, ReadInv, OkMeansRead
    <2>4. QED
      BY <1>3, <2>2, <2>3 DEF ReadInv, ReadsAreOfRun
  <1>4. read[ConfigFile] = C
    BY <1>1, <1>3, RunnerFacts
  <1>5. ASSUME NEW p \in Paths
        PROVE  graph'[p] = ImportedFacts(p, read, graph, host.generation)
    BY <1>5 DEF Publishes, ImportedGraph
  <1>6. graph'[ConfigFile].seen = host'.config.ver
    <2>1. /\ graph'[ConfigFile] = ImportedFacts(ConfigFile, read, graph, host.generation)
          /\ ~Excluded(ConfigFile, read)
      BY <1>1, <1>4, <1>5, RunnerFacts DEF Excluded
    <2>2. QED
      BY <1>2, <1>4, <2>1 DEF ImportedFacts, EntryOf, NoFacts
  <1>7. ASSUME NEW f \in Files
        PROVE  FreshFile(f)'
    <2>1. f \in Paths /\ graph'[f] = ImportedFacts(f, read, graph, host.generation)
      BY <1>5, <1>7 DEF Paths
    <2>2. Excluded(f, read) <=> f \in X
      BY <1>4 DEF Excluded
    <2>3. CASE f \in X
      BY <2>1, <2>2, <2>3 DEF ImportedFacts, FreshFile
    <2>4. CASE f \notin X
      <3>1. read[f] = disk[f]
        BY <1>3, <2>1, <2>4
      <3>2. QED
        BY <2>1, <2>2, <2>4, <3>1 DEF ImportedFacts, FreshFile, Missing
    <2>5. QED
      BY <2>3, <2>4
  <1>8. Loadable'
    BY DEF Publishes, Loadable
  <1>9. QED
    BY <1>2, <1>6, <1>7, <1>8 DEF Fresh, LoadedConfig, Missing

(* The steps of the runner that are not edits.                             *)
LEMMA RunnerStepCovers ==
    ASSUME RunnerInv, RunnerInv', ReadInv, WatcherInv, phase = "serving",
           RunnerStep \/ PostReindex, UNCHANGED watcherVars
    PROVE  ScannedIsRead' /\ NoChangeForgotten'
  <1>1. /\ UNCHANGED <<disk, edits, phase>>
        /\ shutdown => shutdown'
        /\ Begins \/ Fails \/ Publishes \/ GoesOn
    BY ServingKinds
  <1>2. UNCHANGED <<manifest, debounce, baselineFresh, blinked>>
    BY DEF watcherVars, historyVars
  <1>3. CASE Begins
    BY <1>1, <1>3, NewRunCovers DEF Begins
  <1>4. CASE Fails
    BY <1>4 DEF Fails, ScannedIsRead, NoChangeForgotten
  <1>5. CASE Publishes
    <2>1. ScannedIsRead'
      BY <1>5 DEF Publishes, ScannedIsRead
    <2>2. CASE ~blinked /\ ~debounce /\ ~dirty /\ manifest = Manifest'
      <3>1. Fresh'
        BY <1>1, <1>5, <2>2, PublicationCovers
      <3>2. QED
        BY <2>1, <3>1 DEF NoChangeForgotten
    <2>3. CASE blinked \/ debounce \/ manifest # Manifest'
      BY <1>2, <2>1, <2>3 DEF NoChangeForgotten
    <2>4. CASE dirty
      BY <1>1, <1>5, <2>1, <2>4 DEF Publishes, NoChangeForgotten
    <2>5. QED
      BY <2>2, <2>3, <2>4
  <1>6. CASE GoesOn
    <2>1. Manifest' = Manifest /\ Fresh' = Fresh
      BY <1>1, <1>6 DEF GoesOn, Manifest, Fresh, FreshFile, Loadable, Paths, Missing
    <2>2. ScannedIsRead'
      BY <1>1, <1>2, <1>6 DEF GoesOn, WatcherInv, ScannedIsRead, EntryOf, Paths
    <2>3. NoChangeForgotten'
      BY <1>1, <1>2, <1>6, <2>1 DEF GoesOn, WatcherInv, NoChangeForgotten, Paths
    <2>4. QED
      BY <2>2, <2>3
  <1>7. QED
    BY <1>1, <1>3, <1>4, <1>5, <1>6

(* An edit makes the manifest differ, is of a path the configuration       *)
(* leaves out, or comes and goes without being seen.                       *)
LEMMA WatchedEditCovers ==
    ASSUME RunnerInv, WatcherInv, phase = "serving",
           NEW p \in Paths, NEW body \in Bodies(p), WatchedEdit(p, body)
    PROVE  ScannedIsRead' /\ NoChangeForgotten'
  <1>1. /\ edits' = edits + 1
        /\ UNCHANGED <<host, phase, shutdown, proc, dirty, graph, began>>
        /\ UNCHANGED <<manifest, debounce, baselineFresh>>
    BY DEF WatchedEdit, Edit, runVars
  <1>2. \A q \in Paths :
           disk'[q] = IF q = p THEN [ver |-> edits + 1, body |-> body] ELSE disk[q]
    BY RunnerFacts DEF WatchedEdit, Edit
  <1>3. manifest[p] # edits + 1
    BY RunnerFacts DEF WatcherInv, WatcherShapes, ManifestIsPast
  <1>4. blinked => blinked'
    BY DEF WatchedEdit
  <1>5. CASE blinked'
    BY <1>5 DEF ScannedIsRead, NoChangeForgotten
  <1>6. CASE ~blinked'
    <2>1. manifest[p] # EntryOf(p)'
      <3>1. Missing(disk'[p]) => manifest[p] # 0
        BY <1>6 DEF WatchedEdit, Missing
      <3>2. QED
        BY <1>1, <1>2, <1>3, <3>1 DEF EntryOf, Missing
    <2>2. ScannedIsRead'
      <3>1. ASSUME NEW q \in Paths, manifest[q] = EntryOf(q)', ~debounce, ~dirty, proc # "none"
            PROVE  disk'[q].ver <= began
        <4>1. q # p /\ EntryOf(q)' = EntryOf(q) /\ disk'[q] = disk[q]
          BY <1>2, <2>1, <3>1 DEF EntryOf, Missing
        <4>2. QED
          BY <1>4, <1>6, <3>1, <4>1 DEF WatcherInv, ScannedIsRead
      <3>2. QED
        BY <1>1, <3>1 DEF ScannedIsRead, Paths
    <2>3. CASE p \notin host.config.excluded
      <3>1. Manifest'[p] = EntryOf(p)'
        BY <1>1, <2>3 DEF Manifest, EntryOf, Paths, Missing
      <3>2. manifest' # Manifest'
        BY <1>1, <2>1, <3>1
      <3>3. QED
        BY <2>2, <3>2 DEF NoChangeForgotten
    <2>4. CASE p \in host.config.excluded
      <3>1. p # ConfigFile /\ p \in Files
        BY <2>4, RunnerFacts, RunnerAssumption
      <3>2. Manifest' = Manifest
        BY <1>1, <1>2, <2>4 DEF Manifest, Paths, Missing
      <3>3. disk'[ConfigFile] = disk[ConfigFile]
        BY <1>2, <3>1, RunnerFacts
      <3>4. Fresh => Fresh'
        <4>1. ASSUME Fresh, NEW f \in Files PROVE FreshFile(f)'
          <5>1. FreshFile(f) /\ host.config = LoadedConfig(disk[ConfigFile])
            BY <4>1 DEF Fresh
          <5>2. f = p => f \in ExcludedBy[disk[ConfigFile].body]
            BY <2>4, <5>1 DEF LoadedConfig
          <5>3. f # p => disk'[f] = disk[f]
            BY <1>2 DEF Paths
          <5>4. QED
            BY <1>1, <3>3, <5>1, <5>2, <5>3 DEF FreshFile, Missing
        <4>2. QED
          BY <1>1, <3>3, <4>1 DEF Fresh, LoadedConfig, Loadable, Missing
      <3>5. (\A q \in Paths : disk[q].ver <= began \/ q \in host.config.excluded)
            => \A q \in Paths : disk'[q].ver <= began \/ q \in host.config.excluded
        BY <1>2, <2>4
      <3>6. QED
        BY <1>1, <1>4, <1>6, <2>2, <3>2, <3>4, <3>5 DEF WatcherInv, NoChangeForgotten, Paths
    <2>5. QED
      BY <2>3, <2>4
  <1>7. QED
    BY <1>5, <1>6

(* DebounceExpires keeps what is known of the runner: it is a request.     *)
LEMMA DebounceKeepsRunner ==
    ASSUME RunnerInv, ReadInv, DebounceExpires
    PROVE  RunnerInv' /\ ReadInv'
  <1>1. /\ phase = "serving" /\ RequestReindex
        /\ UNCHANGED <<disk, edits, phase, shutdown, graph, posts>>
    BY DEF DebounceExpires, repoVars
  <1>2. RunKept
    BY <1>1, RequestReindexKeeps
  <1>3. graph' \in [Paths -> Facts] /\ posts' \in Nat
    BY <1>1, RunnerTypeParts DEF RunnerInv, RunnerShapes
  <1>4. RunnerInv'
    BY <1>1, <1>2, <1>3, HandlerKeeps
  <1>5. ServerMove
    BY <1>1, StartAsyncPublishesNot, RunnerFacts
    DEF RequestReindex, ServerMove, SameRun, NotPublished
  <1>6. QED
    BY <1>4, <1>5, ServerMoveKeepsReads

(* Every other step of the server is one of the runner, or none.           *)
LEMMA LiveIsRunner ==
    ASSUME [LiveNext]_liveVars
    PROVE  [RunnerNext]_runnerVars \/ DebounceExpires
  BY DEF LiveNext, RunnerNext, WatcherStarts, Scan, Hinted, WatchedEdit, liveVars

LEMMA RunnerPartsKept ==
    ASSUME RunnerInv, ReadInv, [LiveNext]_liveVars
    PROVE  RunnerInv' /\ ReadInv'
  BY LiveIsRunner, DebounceKeepsRunner, RunnerInvStep, ReadInvStep

-----------------------------------------------------------------------------
(* The whole invariant.                                                    *)
LEMMA WatcherInvInit == WatcherInit => RunnerInv /\ ReadInv /\ WatcherInv
  <1> SUFFICES ASSUME WatcherInit PROVE RunnerInv /\ ReadInv /\ WatcherInv
    OBVIOUS
  <1>1. RunnerInv /\ ReadInv
    BY RunnerInvInit, ReadInvInit DEF WatcherInit
  <1>2. WatcherFlags
    BY Zenon DEF WatcherInit, WatcherFlags
  <1>3. WatcherShapes /\ ManifestIsPast
    BY DEF WatcherInit, RunnerInit, WatcherShapes, ManifestIsPast
  <1>4. ListeningIdle /\ ScannedIsRead /\ NoChangeForgotten
    BY DEF WatcherInit, RunnerInit, ListeningIdle, ScannedIsRead, NoChangeForgotten
  <1>5. QED
    BY <1>1, <1>2, <1>3, <1>4 DEF WatcherInv

(* A manifest that is taken has a version of every path.                   *)
LEMMA ManifestType ==
    ASSUME RunnerInv
    PROVE  Manifest \in [Paths -> Nat] /\ \A p \in Paths : Manifest[p] <= edits
  <1>1. ASSUME NEW p \in Paths
        PROVE  Manifest[p] \in Nat /\ Manifest[p] <= edits
    BY RunnerFacts DEF Manifest
  <1>2. QED
    BY <1>1 DEF Manifest

(* The parts that are about the variables alone.                           *)
LEMMA WatcherPartsKept ==
    ASSUME RunnerInv, WatcherInv, [LiveNext]_liveVars
    PROVE  WatcherFlags' /\ WatcherShapes' /\ ManifestIsPast'
  <1>1. WatcherFlags
    BY DEF WatcherInv
  <1>2. WatcherFlags'
    <2>1. CASE UNCHANGED watcherVars
      BY <1>1, <2>1, Zenon DEF watcherVars, historyVars, WatcherFlags
    <2>2. CASE WatcherStarts
      BY <1>1, <2>2, Zenon DEF WatcherStarts, WatcherFlags, Fresh
    <2>3. CASE Scan \/ Hinted \/ DebounceExpires
      BY <1>1, <2>3, Zenon DEF Scan, Hinted, DebounceExpires, Schedule, historyVars, WatcherFlags
    <2>4. ASSUME NEW p \in Paths, NEW body \in Bodies(p), WatchedEdit(p, body)
          PROVE  WatcherFlags'
      BY <1>1, <2>4, Zenon DEF WatchedEdit, WatcherFlags
    <2>5. QED
      BY <2>1, <2>2, <2>3, <2>4 DEF LiveNext, liveVars
  <1>3. manifest' = manifest \/ manifest' = Manifest
    BY DEF LiveNext, liveVars, watcherVars, WatcherStarts, Scan, Hinted, DebounceExpires,
           WatchedEdit
  <1>4. edits' = edits \/ edits' = edits + 1
    <2>1. [RunnerNext]_runnerVars \/ DebounceExpires
      BY LiveIsRunner
    <2>2. CASE DebounceExpires
      BY <2>2 DEF DebounceExpires, repoVars
    <2>3. CASE [RunnerNext]_runnerVars
      BY <2>3, StepKinds DEF ServerMove, AnalyzerExits, AnalyzerRead, Edit, repoVars
    <2>4. QED
      BY <2>1, <2>2, <2>3
  <1>5. WatcherShapes' /\ ManifestIsPast'
    BY <1>3, <1>4, ManifestType, RunnerFacts
    DEF WatcherInv, WatcherShapes, ManifestIsPast, Paths
  <1>6. QED
    BY <1>2, <1>5

LEMMA ListeningIdleKept ==
    ASSUME WatcherInv, [LiveNext]_liveVars
    PROVE  ListeningIdle'
  <1> USE DEF WatcherInv, ListeningIdle
  <1>1. CASE RunnerStep
    BY <1>1
    DEF RunnerStep, RunBlocking, BlockingFinished, BlockingAbandoned, FailedToStart, Finished,
        Timeout, OutputLimit, AnalyzerStarted, AnalyzerExits, AnalyzerRead, SignalArrives, runVars
  <1>2. CASE PostReindex \/ BindFailed \/ Quit
    BY <1>2 DEF PostReindex, BindFailed, Quit
  <1>3. CASE WatcherStarts \/ Scan \/ Hinted \/ DebounceExpires
    BY <1>3 DEF WatcherStarts, Serve, Scan, Hinted, DebounceExpires, runnerVars
  <1>4. CASE \E p \in Paths : \E body \in Bodies(p) : WatchedEdit(p, body)
    BY <1>4 DEF WatchedEdit, Edit, runVars
  <1>5. CASE UNCHANGED runnerVars
    BY <1>5 DEF runnerVars
  <1>6. QED
    BY <1>1, <1>2, <1>3, <1>4, <1>5 DEF LiveNext, liveVars, Terminated

(* Every step keeps it.                                                    *)
LEMMA WatcherInvStep ==
    ASSUME RunnerInv, ReadInv, WatcherInv, [LiveNext]_liveVars
    PROVE  RunnerInv' /\ ReadInv' /\ WatcherInv'
  <1>1. RunnerInv' /\ ReadInv'
    BY RunnerPartsKept
  <1>2. SUFFICES ScannedIsRead' /\ NoChangeForgotten'
    BY <1>1, WatcherPartsKept, ListeningIdleKept DEF WatcherInv
  <1>3. CASE phase' # "serving"
    BY <1>3, PromiseCovers
  <1>4. CASE WatcherStarts
    <2>1. proc = "none" /\ UNCHANGED <<host, disk, graph, proc>> /\ baselineFresh' = Fresh
      BY <1>4 DEF WatcherStarts, Serve, WatcherInv, ListeningIdle, runVars, repoVars
    <2>2. Fresh' = Fresh
      BY <2>1 DEF Fresh, FreshFile, Loadable, Missing
    <2>3. QED
      BY <2>1, <2>2 DEF ScannedIsRead, NoChangeForgotten
  <1>5. CASE Scan \/ Hinted
    BY <1>5, PromiseCovers DEF Scan, Hinted, Schedule
  <1>6. CASE DebounceExpires
    <2>1. Begins \/ dirty' = TRUE
      BY <1>6, RequestBegins DEF DebounceExpires
    <2>2. edits' = edits
      BY <1>6 DEF DebounceExpires, repoVars
    <2>3. QED
      BY <1>1, <2>1, <2>2, NewRunCovers, PromiseCovers DEF Begins
  <1>7. CASE phase = "serving" /\ (RunnerStep \/ PostReindex) /\ UNCHANGED watcherVars
    BY <1>1, <1>7, RunnerStepCovers
  <1>8. CASE phase = "serving" /\ \E p \in Paths : \E body \in Bodies(p) : WatchedEdit(p, body)
    BY <1>8, WatchedEditCovers
  <1>9. CASE UNCHANGED liveVars
    BY <1>9
    DEF liveVars, runnerVars, watcherVars, historyVars, WatcherInv, ScannedIsRead,
        NoChangeForgotten, EntryOf, Manifest, Fresh, FreshFile, Loadable, Missing, Paths
  <1>10. CASE phase # "serving" /\ phase' = "serving"
    <2>1. WatcherStarts
      BY <1>10
      DEF LiveNext, liveVars, runnerVars, RunnerStep, RunBlocking, BlockingFinished,
          BlockingAbandoned, FailedToStart, Finished, Timeout, OutputLimit, AnalyzerStarted,
          AnalyzerExits, AnalyzerRead, SignalArrives, PostReindex, BindFailed, Quit, Scan,
          Hinted, DebounceExpires, WatchedEdit, Edit, Terminated
    <2>2. QED
      BY <1>4, <2>1
  <1>11. CASE BindFailed \/ Quit \/ Terminated
    BY <1>11, PromiseCovers DEF BindFailed, Quit, Terminated, runnerVars
  <1>12. QED
    BY <1>3, <1>4, <1>5, <1>6, <1>7, <1>8, <1>9, <1>10, <1>11 DEF LiveNext

(* The invariant holds throughout.                                         *)
THEOREM WatcherInvariant == LiveSpec => [](RunnerInv /\ ReadInv /\ WatcherInv)
  <1>1. /\ RunnerInv /\ ReadInv /\ WatcherInv /\ [LiveNext]_liveVars
        => (RunnerInv /\ ReadInv /\ WatcherInv)'
    BY WatcherInvStep
  <1>2. QED
    BY WatcherInvInit, <1>1, PTL DEF LiveSpec

(* The watcher's variables keep their shapes, and those of the runner that *)
(* a debounce timer drives.                                                *)
THEOREM WatcherTypeCorrect == LiveSpec => []WatcherTypeOK
  <1>1. RunnerInv /\ WatcherInv => WatcherTypeOK
    <2>1. WatcherFlags /\ WatcherShapes /\ RunnerTypeOK => WatcherTypeOK
      BY Zenon DEF WatcherFlags, WatcherShapes, WatcherTypeOK
    <2>2. QED
      BY <2>1 DEF RunnerInv, WatcherInv
  <1>2. QED
    BY <1>1, WatcherInvariant, PTL

(* No change of a file is forgotten: while the graph is out of date a scan *)
(* will see a difference, or the debounce timer, m_dirty, a run that is    *)
(* young enough or an error on show remembers it (scan, requestReindex and *)
(* the finished handler of Runtime.cpp).                                   *)
THEOREM NothingIsForgotten == LiveSpec => []NoChangeForgotten
  <1>1. WatcherInv => NoChangeForgotten
    BY DEF WatcherInv
  <1>2. QED
    BY <1>1, WatcherInvariant, PTL

-----------------------------------------------------------------------------
(* LocalServer.                                                            *)

(* main goes through runBlocking with an analyzer at work, and nothing     *)
(* requests another run before the event loop does.                        *)
BlockingRuns ==
    /\ phase = "blocking" => proc # "none"
    /\ phase \in {"booting", "blocking", "listening"} => ~dirty

(* m_dirty is set behind a process whose end will look at it.              *)
DirtyRuns == dirty /\ ~shutdown => proc # "none"

(* The controller is destroyed when the server is gone, and not before.    *)
DestroyedAtEnd == child = "destroyed" => phase = "exited"

(* The version of code-view.json is one that was counted.                  *)
ConfigCounted ==
    /\ disk[ConfigFile].ver \in 1..MaxEdits \cup {1}
    /\ edits \in Nat \ {0}

ServerLinks == BlockingRuns /\ DirtyRuns /\ DestroyedAtEnd /\ ConfigCounted

ServerInv == RunnerInv /\ ReadInv /\ WatcherInv /\ ServerLinks

-----------------------------------------------------------------------------
(* The indexing half of the composition.                                   *)

(* No handler of the controller touches the host state.                    *)
LEMMA CommandLeavesHost ==
    ASSUME ControllerStep \/ ProcessStep \/ Destroy
    PROVE  host' = host
  BY DEF ControllerStep, ProcessStep, Approve, StartRefused, Start, Stop, LateStarted,
         LateFailed, ChildFinished, LeaderForks, LeaderExits, DescendantsExit, Destroy

(* A step of the server is one of its indexing half, or none of it.        *)
LEMMA StepIsLive ==
    ASSUME [ServerNext]_serverVars
    PROVE  [LiveNext]_liveVars
  <1>1. CASE IndexStep
    BY <1>1 DEF IndexStep, LiveNext
  <1>2. CASE CommandStep
    BY <1>2, CommandLeavesHost
    DEF CommandStep, liveVars, runnerVars, repoVars, runVars
  <1>3. CASE ServerEnds
    BY <1>3 DEF ServerEnds, LiveNext
  <1>4. CASE Terminated /\ UNCHANGED <<watcherVars, controllerVars>>
    BY <1>4 DEF LiveNext
  <1>5. CASE UNCHANGED serverVars
    BY <1>5 DEF serverVars
  <1>6. QED
    BY <1>1, <1>2, <1>3, <1>4, <1>5 DEF ServerNext

(* The server keeps every promise of its indexing half: what RunnerSpec's  *)
(* and LiveSpec's invariants say holds whatever the start command does.    *)
THEOREM ServerKeepsLiveSpec == ServerSpec => LiveSpec
  <1>1. ServerInit => WatcherInit
    BY DEF ServerInit
  <1>2. [ServerNext]_serverVars => [LiveNext]_liveVars
    BY StepIsLive
  <1>3. QED
    BY <1>1, <1>2, PTL DEF ServerSpec, LiveSpec

-----------------------------------------------------------------------------
(* What the handlers of the indexing half do to the host state is what     *)
(* HostMoves lets it do.                                                   *)

(* The host states the end of a run may leave.                             *)
Ended ==
    {IndexingFailed(host)} \cup {IndexingSucceeded(host, c) : c \in LocalConfigs}

HostKept == host' = host

HostMoved ==
    \/ host' \in Restarted(host)
    \/ /\ host.indexState = "indexing"
       /\ \E h \in Ended : host' \in {h} \cup Restarted(h)

(* startAsync restarts, and the tail of a run's handlers may.              *)
LEMMA StartAsyncRestarts ==
    ASSUME NEW h, StartAsync(h)
    PROVE  host' \in Restarted(h)
  BY DEF StartAsync, ProcessForked, ForkFailed, Restarted

LEMMA EndRunRestarts ==
    ASSUME NEW h, EndRun(h)
    PROVE  host' \in {h} \cup Restarted(h)
  BY StartAsyncRestarts DEF EndRun

(* acceptResult loads a configuration the controller knows of.             *)
LEMMA ResultEnds ==
    ASSUME RunnerInv, ConfigCounted, NEW exitedOk
    PROVE  ResultState(exitedOk) \in Ended
  <1>1. CASE Accepted(exitedOk)
    <2>1. disk[ConfigFile].body \in Configs
      <3>1. ConfigFile \in Paths /\ DiskFits
        BY RunnerFacts DEF RunnerInv
      <3>2. QED
        BY <1>1, <3>1 DEF DiskFits, Bodies, Accepted, Loadable
    <2>2. LoadedConfig(disk[ConfigFile]) =
          LoadedConfig([ver |-> disk[ConfigFile].ver, body |-> disk[ConfigFile].body])
      BY DEF LoadedConfig, Missing
    <2>3. LoadedConfig(disk[ConfigFile]) \in LocalConfigs
      BY <2>1, <2>2, ServerAssumption DEF ConfigCounted
    <2>4. QED
      BY <1>1, <2>3 DEF ResultState, Ended
  <1>2. CASE ~Accepted(exitedOk)
    BY <1>2 DEF ResultState, Ended
  <1>3. QED
    BY <1>1, <1>2

(* A step of the runner on a run in progress ends it, or leaves the host   *)
(* state as it is.                                                         *)
LEMMA RunnerMovesHost ==
    ASSUME ServerInv, RunnerStep
    PROVE  HostKept \/ HostMoved
  <1> USE DEF ServerInv, ServerLinks, HostKept, HostMoved
  <1>1. phase # "exited" /\ proc # "none" => host.indexState = "indexing"
    BY DEF RunnerInv, IndexingMeansRunning
  <1>2. CASE RunBlocking
    BY <1>2 DEF RunBlocking, Restarted
  <1>3. CASE BlockingFinished \/ BlockingAbandoned
    <2>1. host.indexState = "indexing"
      BY <1>1, <1>3 DEF BlockingFinished, BlockingAbandoned, BlockingRuns
    <2>2. host' \in Ended
      BY <1>3, ResultEnds DEF BlockingFinished, BlockingAbandoned, Ended
    <2>3. QED
      BY <2>1, <2>2
  <1>4. CASE FailedToStart
    <2>1. host.indexState = "indexing"
      BY <1>1, <1>4 DEF FailedToStart
    <2>2. IndexingFailed(host) \in Ended
      BY DEF Ended
    <2>3. host' \in {IndexingFailed(host)} \cup Restarted(IndexingFailed(host))
      BY <1>4, EndRunRestarts DEF FailedToStart
    <2>4. QED
      BY <2>1, <2>2, <2>3
  <1>5. CASE Finished \/ Timeout \/ OutputLimit
    <2>1. ASSUME NEW exitedOk, FinishRun(exitedOk), proc # "none", phase = "serving"
          PROVE  HostMoved
      <3>1. host.indexState = "indexing"
        BY <1>1, <2>1
      <3>2. ResultState(exitedOk) \in Ended
        BY ResultEnds
      <3>3. host' \in {ResultState(exitedOk)} \cup Restarted(ResultState(exitedOk))
        BY <2>1, EndRunRestarts DEF FinishRun
      <3>4. QED
        BY <3>1, <3>2, <3>3
    <2>2. \/ HostKept
          \/ /\ proc # "none" /\ phase = "serving"
             /\ FinishRun(exit = "ok") \/ FinishRun(FALSE)
      BY <1>5 DEF Finished, Timeout, OutputLimit, OutlivesKill
    <2>3. QED
      BY <2>1, <2>2
  <1>6. CASE AnalyzerStarted \/ AnalyzerExits \/ SignalArrives
             \/ \E p \in Paths : AnalyzerRead(p)
    BY <1>6 DEF AnalyzerStarted, AnalyzerExits, SignalArrives, AnalyzerRead
  <1>7. QED
    BY <1>2, <1>3, <1>4, <1>5, <1>6 DEF RunnerStep

(* So does every other step of the indexing half.                          *)
LEMMA IndexMovesHost ==
    ASSUME ServerInv, IndexStep
    PROVE  HostKept \/ HostMoved
  <1>1. RequestReindex => HostKept \/ HostMoved
    BY StartAsyncRestarts DEF RequestReindex, HostKept, HostMoved
  <1>2. CASE RunnerStep
    BY <1>2, RunnerMovesHost
  <1>3. CASE PostReindex \/ DebounceExpires
    BY <1>1, <1>3 DEF PostReindex, DebounceExpires
  <1>4. CASE \/ WatcherStarts \/ Scan \/ Hinted
             \/ \E p \in Paths : \E body \in Bodies(p) : WatchedEdit(p, body)
    BY <1>4
    DEF WatcherStarts, Serve, Scan, Hinted, WatchedEdit, Edit, runnerVars, HostKept
  <1>5. QED
    BY <1>2, <1>3, <1>4 DEF IndexStep

(* A server that is gone leaves the host state alone.                      *)
LEMMA GoneKeepsHost ==
    ASSUME IndexStep, phase = "exited"
    PROVE  HostKept
  BY DEF IndexStep, RunnerStep, RunBlocking, BlockingFinished, BlockingAbandoned,
         FailedToStart, Finished, Timeout, OutputLimit, AnalyzerStarted, AnalyzerExits,
         AnalyzerRead, SignalArrives, PostReindex, WatcherStarts, Serve, Scan, Hinted,
         DebounceExpires, WatchedEdit, Edit, HostKept

-----------------------------------------------------------------------------
(* What links the halves is kept.                                          *)

DirtyKept == dirty' /\ ~shutdown => proc' # "none"

LEMMA EndRunDirty == ASSUME NEW h, EndRun(h) PROVE DirtyKept
  BY DEF EndRun, DirtyKept

LEMMA RequestDirty ==
    ASSUME DirtyRuns, RequestReindex
    PROVE  DirtyKept
  BY DEF DirtyRuns, RequestReindex, DirtyKept

(* Before the event loop runs, and when it has ended.                      *)
LEMMA BootLinks ==
    ASSUME ServerInv, RunBlocking \/ BlockingFinished \/ BlockingAbandoned
    PROVE  BlockingRuns' /\ DirtyRuns'
  BY DEF ServerInv, ServerLinks, BlockingRuns, DirtyRuns, RunBlocking, BlockingFinished,
         BlockingAbandoned

(* Inside it.                                                              *)
LEMMA ServingLinks ==
    ASSUME ServerInv,
           FailedToStart \/ Finished \/ Timeout \/ OutputLimit \/ PostReindex \/ DebounceExpires
    PROVE  BlockingRuns' /\ DirtyRuns'
  <1>1. phase = "serving" /\ phase' = "serving" /\ shutdown' = shutdown
    BY DEF FailedToStart, Finished, Timeout, OutputLimit, PostReindex, DebounceExpires
  <1>2. DirtyRuns
    BY DEF ServerInv, ServerLinks
  <1>3. DirtyKept
    <2>1. CASE FailedToStart \/ Finished
      BY <2>1, EndRunDirty DEF FailedToStart, Finished, FinishRun
    <2>2. CASE Timeout \/ OutputLimit
      BY <1>2, <2>2, EndRunDirty
      DEF Timeout, OutputLimit, FinishRun, OutlivesKill, DirtyRuns, DirtyKept
    <2>3. CASE PostReindex \/ DebounceExpires
      BY <1>2, <2>3, RequestDirty DEF PostReindex, DebounceExpires
    <2>4. QED
      BY <2>1, <2>2, <2>3
  <1>4. QED
    BY <1>1, <1>3 DEF BlockingRuns, DirtyRuns, DirtyKept

(* The analyzer, a signal, the watcher and the editor.                     *)
LEMMA QuietLinks ==
    ASSUME ServerInv,
           \/ AnalyzerStarted \/ AnalyzerExits \/ SignalArrives
           \/ \E p \in Paths : AnalyzerRead(p)
           \/ WatcherStarts \/ Scan \/ Hinted
           \/ \E p \in Paths : \E body \in Bodies(p) : WatchedEdit(p, body)
    PROVE  BlockingRuns' /\ DirtyRuns'
  BY DEF ServerInv, ServerLinks, BlockingRuns, DirtyRuns, AnalyzerStarted, AnalyzerExits,
         SignalArrives, AnalyzerRead, WatcherStarts, Serve, Scan, Hinted, WatchedEdit, Edit,
         runnerVars, runVars

(* Every edit takes the next number.                                       *)
LEMMA ConfigCountedKept ==
    ASSUME RunnerInv, ConfigCounted, [LiveNext]_liveVars
    PROVE  ConfigCounted'
  <1> USE DEF ConfigCounted
  <1>1. CASE \E p \in Paths : \E body \in Bodies(p) : WatchedEdit(p, body)
    <2>1. PICK p \in Paths : \E body \in Bodies(p) : Edit(p, body)
      BY <1>1 DEF WatchedEdit
    <2>2. PICK body \in Bodies(p) : Edit(p, body)
      BY <2>1
    <2>3. edits' = edits + 1 /\ edits < MaxEdits
      BY <2>2 DEF Edit
    <2>4. disk'[ConfigFile].ver \in {disk[ConfigFile].ver, edits + 1}
      BY <2>2, RunnerFacts DEF Edit
    <2>5. QED
      BY <2>3, <2>4, RunnerAssumption
  <1>2. CASE UNCHANGED <<disk, edits>>
    BY <1>2
  <1>3. LiveNext => \/ UNCHANGED <<disk, edits>>
                    \/ \E p \in Paths : \E body \in Bodies(p) : WatchedEdit(p, body)
    BY DEF LiveNext, RunnerStep, RunBlocking, BlockingFinished, BlockingAbandoned,
           FailedToStart, Finished, Timeout, OutputLimit, AnalyzerStarted, AnalyzerExits,
           AnalyzerRead, SignalArrives, PostReindex, BindFailed, Quit, WatcherStarts, Serve,
           Scan, Hinted, DebounceExpires, Terminated, runnerVars, repoVars
  <1>4. QED
    BY <1>1, <1>2, <1>3 DEF liveVars, runnerVars

(* The controller is destroyed by the end of the server alone.             *)
LEMMA DestroyedAtEndKept ==
    ASSUME ServerInv, [ServerNext]_serverVars
    PROVE  DestroyedAtEnd'
  <1> USE DEF DestroyedAtEnd
  <1>1. phase = "exited" => phase' = "exited"
    BY DEF ServerInv, ServerLinks, ServerNext, serverVars, liveVars, runnerVars, IndexStep,
           CommandStep, ServerEnds, RunnerStep, RunBlocking, BlockingFinished,
           BlockingAbandoned, FailedToStart, Finished, Timeout, OutputLimit, AnalyzerStarted,
           AnalyzerExits, AnalyzerRead, SignalArrives, PostReindex, BindFailed, Quit,
           WatcherStarts, Serve, Scan, Hinted, DebounceExpires, WatchedEdit, Edit, Terminated
  <1>2. CASE ServerEnds
    BY <1>2 DEF ServerEnds, BindFailed, Quit
  <1>3. CASE CommandStep
    <2>1. child # "destroyed" => child' # "destroyed"
      BY <1>3
      DEF CommandStep, ControllerStep, ProcessStep, Approve, StartRefused, Start,
          ForkedInTime, ForkedSlowly, NotForked, Stop, GroupDies, LeaderEnds, LeaderStuck,
          KillRefused, LateStarted, LateFailed, ChildFinished, LeaderForks, LeaderExits,
          DescendantsExit, processVars, osVars
    <2>2. QED
      BY <1>1, <1>3, <2>1 DEF ServerInv, ServerLinks
  <1>4. CASE UNCHANGED child
    BY <1>1, <1>4 DEF ServerInv, ServerLinks
  <1>5. QED
    BY <1>2, <1>3, <1>4
    DEF ServerNext, IndexStep, controllerVars, processVars, serverVars

-----------------------------------------------------------------------------
(* The invariant of the composition.                                       *)
LEMMA ServerInvInit == ServerInit => ServerInv
  <1> SUFFICES ASSUME ServerInit PROVE ServerInv
    OBVIOUS
  <1>1. RunnerInv /\ ReadInv /\ WatcherInv
    BY WatcherInvInit DEF ServerInit
  <1>2. ConfigCounted
    BY RunnerFacts, <1>1 DEF ServerInit, WatcherInit, RunnerInit, ConfigCounted
  <1>3. BlockingRuns /\ DirtyRuns /\ DestroyedAtEnd
    BY DEF ServerInit, WatcherInit, RunnerInit, StartInit, BlockingRuns, DirtyRuns,
           DestroyedAtEnd
  <1>4. QED
    BY <1>1, <1>2, <1>3 DEF ServerInv, ServerLinks

LEMMA ServerInvStep == ServerInv /\ [ServerNext]_serverVars => ServerInv'
  <1> SUFFICES ASSUME ServerInv, [ServerNext]_serverVars
               PROVE  ServerInv'
    OBVIOUS
  <1>1. [LiveNext]_liveVars
    BY StepIsLive
  <1>2. RunnerInv' /\ ReadInv' /\ WatcherInv'
    BY <1>1, WatcherInvStep DEF ServerInv
  <1>3. ConfigCounted' /\ DestroyedAtEnd'
    BY <1>1, ConfigCountedKept, DestroyedAtEndKept DEF ServerInv, ServerLinks
  <1>4. BlockingRuns' /\ DirtyRuns'
    <2>1. CASE IndexStep
      BY <2>1, BootLinks, ServingLinks, QuietLinks DEF IndexStep, RunnerStep
    <2>2. CASE ServerEnds
      BY <2>2
      DEF ServerEnds, BindFailed, Quit, runVars, ServerInv, ServerLinks, BlockingRuns,
          DirtyRuns
    <2>3. CASE UNCHANGED <<phase, shutdown, proc, dirty>>
      BY <2>3 DEF ServerInv, ServerLinks, BlockingRuns, DirtyRuns
    <2>4. QED
      BY <2>1, <2>2, <2>3
      DEF ServerNext, CommandStep, Terminated, serverVars, liveVars, runnerVars, runVars
  <1>5. QED
    BY <1>2, <1>3, <1>4 DEF ServerInv, ServerLinks

THEOREM ServerInvariant == ServerSpec => []ServerInv
  BY ServerInvInit, ServerInvStep, PTL DEF ServerSpec

-----------------------------------------------------------------------------
(* Nothing is approved or started while an analyzer works, or owes a run.  *)

(* A command is approved or started only on a launchable index.            *)
LEMMA ReviewedIsLaunchable ==
    ASSUME ControllerStep \/ ProcessStep \/ Destroy
    PROVE  (starts' = starts /\ reviewed' = reviewed) \/ Launchable(host)
  <1>1. ASSUME NEW g \in 0..MaxGeneration, Approve(g)
        PROVE  (starts' = starts /\ reviewed' = reviewed) \/ Launchable(host)
    BY <1>1 DEF Approve, ApprovalGranted, processVars
  <1>2. CASE Start
    BY <1>2 DEF Start, StartPermitted, ApprovalMatches
  <1>3. CASE \/ StartRefused \/ Stop \/ LateStarted \/ LateFailed \/ ChildFinished
             \/ ProcessStep \/ Destroy
    BY <1>3
    DEF StartRefused, Stop, LateStarted, LateFailed, ChildFinished, ProcessStep, LeaderForks,
        LeaderExits, DescendantsExit, Destroy, processVars
  <1>4. QED
    BY <1>1, <1>2, <1>3 DEF ControllerStep

(* In every state the whole server can be in, an approval or a start means *)
(* that no analyzer works, none is owed, and the last run succeeded: the   *)
(* status StartCommandController::launchableIndex reads is true.           *)
THEOREM ServerBlocksCommands == ServerSpec => BlockedWhileIndexing
  <1>1. ServerInv /\ [ServerNext]_serverVars =>
            [ starts' # starts \/ reviewed' # reviewed =>
                proc = "none" /\ ~host.lastError /\ (dirty => shutdown) ]_serverVars
    <2> SUFFICES ASSUME ServerInv, ServerNext,
                        starts' # starts \/ reviewed' # reviewed
                 PROVE  proc = "none" /\ ~host.lastError /\ (dirty => shutdown)
      BY DEF serverVars, controllerVars, processVars
    <2>1. Launchable(host) /\ phase # "exited"
      <3>1. CASE CommandStep
        BY <3>1, ReviewedIsLaunchable
        DEF CommandStep, ProcessStep, LeaderForks, LeaderExits, DescendantsExit
      <3>2. CASE ServerEnds
        BY <3>2 DEF ServerEnds, Destroy
      <3>3. CASE UNCHANGED controllerVars
        BY <3>3 DEF controllerVars, processVars
      <3>4. QED
        BY <3>1, <3>2, <3>3 DEF ServerNext, IndexStep
    <2>2. proc = "none" /\ ~host.lastError
      BY <2>1 DEF ServerInv, RunnerInv, IndexingMeansRunning, Launchable
    <2>3. QED
      BY <2>2 DEF ServerInv, ServerLinks, DirtyRuns
  <1>2. QED
    BY <1>1, ServerInvariant, PTL DEF ServerSpec, BlockedWhileIndexing

-----------------------------------------------------------------------------
(* The server implements StartSpec, as far as the bound on generations     *)
(* that HostMoves has lets it.                                             *)

GenerationsBounded == host.generation <= MaxGeneration

LEMMA StepIsCommands ==
    ASSUME ServerInv, GenerationsBounded', [ServerNext]_serverVars
    PROVE  [StartNext]_startVars
  <1> USE DEF ServerInv, ServerLinks
  <1>1. CASE IndexStep
    <2>1. UNCHANGED <<approvalVars, processVars, reviewed>>
      BY <1>1 DEF IndexStep, controllerVars
    <2>2. CASE HostKept
      BY <2>1, <2>2 DEF HostKept, startVars
    <2>3. CASE ~HostKept
      <3>1. HostMoved /\ child # "destroyed"
        BY <1>1, <2>3, IndexMovesHost, GoneKeepsHost DEF DestroyedAtEnd
      <3>2. HostMoves
        BY <2>1, <3>1 DEF HostMoves, HostMoved, Ended, GenerationsBounded
      <3>3. QED
        BY <3>1, <3>2 DEF StartNext
    <2>4. QED
      BY <2>2, <2>3
  <1>2. CASE CommandStep
    BY <1>2 DEF CommandStep, StartNext, DestroyedAtEnd
  <1>3. CASE ServerEnds
    BY <1>3 DEF ServerEnds, BindFailed, Quit, StartNext, DestroyedAtEnd
  <1>4. CASE \/ Terminated /\ UNCHANGED <<watcherVars, controllerVars>>
             \/ UNCHANGED serverVars
    BY <1>4 DEF Terminated, runnerVars, serverVars, liveVars, controllerVars, startVars
  <1>5. QED
    BY <1>1, <1>2, <1>3, <1>4 DEF ServerNext

(* What StartCommand was proved about is what the indexing half really     *)
(* does to the host state: the composition implements it.                  *)
THEOREM ServerKeepsStartSpec == ServerSpec /\ []GenerationsBounded => KeepsStartSpec
  <1>1. ServerInit => StartInit
    BY DEF ServerInit
  <1>2. ServerInv /\ GenerationsBounded' /\ [ServerNext]_serverVars => [StartNext]_startVars
    BY StepIsCommands
  <1>3. QED
    BY <1>1, <1>2, ServerInvariant, PTL DEF ServerSpec, StartSpec, KeepsStartSpec

(* So the composed server leaves no process of a command behind while it   *)
(* runs or when it ends, and starts what was approved, once per approval.  *)
THEOREM ServerKeepsGate ==
    ServerSpec /\ []GenerationsBounded =>
        KeepsLaunchGate /\ []NoStrayProcesses /\ DestructionCleans
  BY ServerKeepsStartSpec, ImplementsLaunchGate, NoStraysEver, DestructionLeavesNone, PTL
  DEF KeepsStartSpec
=============================================================================
