# A TLA+ model of Code View

Code View is a local server that indexes a Python repository, keeps the index
up to date while the repository is edited, serves it to a browser, and may start
the project's own command after the reader has approved it. Beside it lives the
desktop program it came from, Sourcetrail, which indexes a project with parallel
processes, keeps the index in a database and lets the reader navigate in it.
This directory holds a TLA+ model of the parts of both where things happen at the
same time or over a long time. Of the server: indexing, watching, and starting
the command; the merging of graphs over generations; and the browser's half of
starting, refreshing and inspecting. Of the desktop program: the indexing
pipeline, the planning and the life cycle of a refresh, messaging, and the
navigation history. TLC checks it on small instances; TLAPS proves the main
safety properties for every value of the constants.

Paths below are relative to the repository. `Runtime.cpp` is
`services/local-server/src/Runtime.cpp`, and so on for the other files of that
directory; `.tsx` and `.ts` files are under `services/web-canvas/src`. The other
`.cpp` files are under `src/lib`.

## 1. Inventory

The repository is the C++ program Sourcetrail with the Code View services added
(`services/`). The services link nothing of the older program but a table of
names (`LegacySemantics.cpp`), and they are what the repository is now about, so
they come first here. The two share no state and no process, and so do their
models.

| Component | State it keeps | Operations | Talks to |
| --- | --- | --- | --- |
| Host state (`HostState`, Runtime.cpp 201-260) | configuration, graph, index state, generation, last error | indexingStarted, indexingSucceeded, indexingFailed, view | every other part of the server reads or writes it |
| Analyzer runner (`AnalyzerRunner`, Runtime.cpp 262-422) | the analyzer process, its output, `m_dirty`, the deadline timer | runBlocking, requestReindex, startAsync, and handlers for started, failed to start, finished, output, deadline | forks the analyzer; publishes to the host state |
| Repository watcher (`RepositoryWatcher`, Runtime.cpp 803-868) | the last manifest, the debounce timer, the poll timer | scan, schedule, file system hints | requests reindexes |
| Start command (`StartCommandController`, Runtime.cpp 625-769) | one approval (generation, argv), one process and its process group | approve, start, stop, status, destructor, handlers for started and finished | reads the host state; forks the command |
| Process (`main.cpp`) | a shutdown flag | start-up order, event loop, destruction order | everything |
| Configuration (`Config.cpp`) | none | load and validate `code-view.json` | runner, analyzer |
| Graph (`Graph.cpp`) | immutable snapshots | import NDJSON, merge the last good facts of files that do not parse, slices, search | runner, HTTP host |
| HTTP host (`HttpHost.cpp`) | a token, the port | routes; those that change state are reindex, approve, start, stop | the browser |
| Git inspector, comparator (Runtime.cpp 424-623) | a cache of graphs by commit | diff, compare with a base commit | git, the analyzer |
| Editor launcher, trace log | none; an open file | open a file; append a line | - |
| Python analyzer (`analyzer.py`) | none between runs | load the configuration, find and read every file, resolve names, print a graph | the disk |
| Launch dialog (`LaunchControl.tsx`, `launchPolicy.ts`) | the status displayed, the one frozen in the dialog, busy | Run, approve and run, cancel, stop | the launch routes; one per tab |
| Refreshing and polling (`App.tsx` 53-113) | the graph on show, the base selected, errors | refresh, poll, choose a base | status, graph and launch routes |
| Inspector (`Inspector.tsx` 38-72) | the evidence on show, a request counter | load source and diff of the selection, inspect an occurrence | source and diff routes |
| Graph model of the canvas (`graphModel.ts`) | none | filter, collapse, reveal, lay out | - |

The desktop program (`src/`):

| Component | State it keeps | Operations | Talks to |
| --- | --- | --- | --- |
| Messages and tasks (`MessageQueue.cpp`, `TaskScheduler.cpp`, `TaskRunner.cpp`) | listeners, queued messages, the position in a send; queued tasks | register, unregister, push, send, as a task or at once; run, hold back, terminate | every other part |
| Indexing (`TaskBuildIndex.cpp`, `TaskFillIndexerCommandQueue.cpp`, `TaskMergeStorages.cpp`, `TaskInjectStorage.cpp`, `InterprocessIndexer.cpp`) | the queue of commands, the lists of storages and the state of each process in shared memory; the storages in memory; a blackboard of flags | fill the queue, run indexer processes and start them again, fetch, merge and inject storages, Stop | indexer processes, the storage |
| Project (`Project.cpp`, `RefreshInfoGenerator.cpp`, `TaskCleanStorage.cpp`, `TaskFinishParsing.cpp`) | state and stage of the project; the database and the temporary one on disk | load and recover, plan a refresh, build, keep or discard, swap | the indexing tasks, the storage, dialogs |
| Storage (`PersistentStorage.cpp`, `SqliteIndexStorage.cpp`) | the rows of the database | clear files, inject, query | the disk |
| Navigation history (`UndoRedoController.cpp`) | a list of commands and a position in it, per tab | 24 kinds of messages; Back, Forward, history menu, refresh, end of indexing | every controller of its tab, by messages |
| Parsers (`lib_cxx`, `lib_java`, `lib_python`) | none between files | parse a file into a storage | - |
| User interface (`lib_gui`, controllers) | what is on screen | show, lay out, search | - |

### How they interact, and what is hard

The server is single threaded: HTTP handlers, timers and process signals are
handlers of one Qt event loop, each running to its end. That does not make it
sequential, for four reasons.

- **The outside moves during a handler's absence.** The disk is edited while the
  analyzer reads it file by file; configuration is read three times for one run
  (by `main` or the previous run, by the analyzer, by `acceptResult`); a process
  exits long before its `finished` handler runs; browser requests come in
  between any two handlers.
- **Handlers nest.** `QProcess::start` may emit `errorOccurred` before it
  returns, and the waits inside `stopOwnedProcess` deliver `finished` inside the
  deadline handler or inside `stop()`; the nested handler starts the next run or
  clears the field its caller is about to restore.
- **Answers overtake each other.** The browser has several requests under way at
  once, any of which may be answered late, out of order or never; other tabs send
  their own; and what a dialog displays is what a poll brought some time ago.
- **Waits are bounded and kills may fail.** An exec may be slower than
  `waitForStarted(2000)`, a process may outlast `SIGKILL`, `kill` may be
  refused, and file system notifications may never come.

The server has no persistence: when it crashes there is nothing to recover. What
its death may leave behind is a process, and the model covers that.

The desktop program is hard for other reasons.

- **It is parallel.** Four tasks and several processes work on three queues, in
  shared memory and out of it, and wait for each other; a process may die
  anywhere, and Stop may come at any moment.
- **It is persistent.** A refresh works on a copy of the database that takes the
  place of the old one in two file operations. The program may be killed between
  any two steps, and what it finds at the next start is up to those steps.
- **A refresh indexes less than everything**, and has to tell from the rows of the
  database and the times of the files what is enough.
- **Listeners come and go** while messages are handed round by several threads,
  and one thread runs both short handlers and tasks of many minutes.
- **Navigation answers its own messages**: Back sends old messages again, into the
  queue in which newer ones are waiting.

### What makes each component correct

- *Host state and runner.* The status says `indexing` exactly while an analyzer
  is at work. No request is lost, however the run it waits for ends. A
  generation is what its own analyzer read. Graph, configuration and generation
  change together. Indexing ends even if the analyzer hangs.
- *Watcher.* When the repository is left alone, the graph comes to describe it,
  or an error stays on show.
- *Start command.* What runs is what was approved, once for each approval, and
  only while the index it was approved for is valid. No process is left behind.
- *Process.* A shutdown signal ends the server and both processes it owns.
- *Graph.* One broken file never blocks a generation. A file that does not parse
  shows the facts it last had, however many generations ago, marked stale, and
  no other file does. Every node hangs below the repository.
- *Browser.* Nothing is started that was not confirmed in a dialog that showed
  it. Stop comes to be offered for whatever runs. The page comes to show the last
  generation and the last error. Evidence is of what is selected.

- *Indexing.* The storage of every file reaches the database exactly once, whatever
  dies over other files; and the tasks end, whatever is stopped.
- *Project and storage.* A refresh gives what indexing from nothing would give. No
  index that was ever in place is lost to a crash, no temporary database is built
  upon twice, and no change is taken for indexed.
- *Messages.* Each message reaches each of its listeners once, and none that is
  gone. No long task holds messages up.
- *Navigation.* A tab shows what its history says; Forward undoes Back; the menu is
  the history.

`PROJECT.json` lists the hazards at their lines with the properties that cover
each, and says why where none does.

## 2. The modules

    HostState  <--  AnalyzerRunner  <--  RepositoryWatcher  <--+
        ^                                                      +-- LocalServer
        +-------  StartCommand  <------------------------------+
        |              ^  |
        |              |  +-- implements LaunchGate
        |              +-- LaunchControl
        +-------  CanvasRefresh

    GraphSnapshot  <--  GraphHistory          Inspector

    RefreshPlan    <--  Project               IndexPipeline

    Messaging                                 UndoRedo

An arrow is an EXTENDS. `MC*` modules give the constants of their module small
values; `*_proofs` modules hold the theorems, each those of the module it is named
for, but that `LocalServer_proofs` holds those of the runner and the watcher too, and
`Messages_proofs` those of Messaging and UndoRedo.

**HostState** holds the record `host` (configuration, index state, error flag,
generation). `IndexingStarted`, `IndexingSucceeded` and `IndexingFailed` are
functions on it, not actions, because one handler may apply several: a finished
run is accepted *and* the next one started before anyone can look.

**AnalyzerRunner** models every handler of the class, the part of `main` that
calls it, the analyzer process and the disk.

| Code | TLA+ |
| --- | --- |
| `m_process` | `proc`: none, starting (forked), running, exited (the handler has not run yet) |
| `m_output` | `read`: which version of each path the analyzer saw |
| `m_dirty`, `m_timeout` | `dirty`, `timer` |
| where `main` is | `phase` |
| `startAsync`, both with and without a successful fork | `StartAsync` |
| the end of the finished and FailedToStart handlers | `EndRun` |
| `acceptResult` | `ResultState`, `ResultGraph` |
| deadline, output limit, with the nested finished handler | `Timeout`, `OutputLimit` |
| `load_config`, then one read per discovered file | `AnalyzerRead` |

A path on disk has a version and a body; every edit takes the next version
number. A graph says of each path which version was seen and which version's
facts are shown; the two differ when the file did not parse and kept its old
facts (`preservingParseErrorsFrom`). That is as much of a graph as these
properties can tell apart.

**RepositoryWatcher** adds the manifest, the debounce timer and file system
hints. It EXTENDS the runner, so that every check of it is a check against the
real runner and not a stub.

**StartCommand** models approve, start and stop, the destructor, the process
signals, and the operating system's half: the leader and the other members of a
process group, which fork and exit as they like. The indexing half appears as
`HostMoves`, the moves the mutators allow.

**LaunchGate** says what section 12 of `docs/TECHNICAL.md` promises of approvals,
without a word about how. StartCommand implements it under the mapping `Gate`:
on offer is the command `launch()` reports with `allowLaunch`, permitted is what
`start()` would run.

**LocalServer** composes the two halves. Here the real runner and watcher take
the place of `HostMoves`, and StartCommand's whole specification becomes a
property of the composition (`KeepsStartSpec`): what the controller was checked
against is what indexing really does.

**GraphSnapshot** translates `preservingParseErrorsFrom`, line by line, with the
checks of `fromNdjson` and `rebuildIndexes` and the entry view. A graph is a map
from node identities to what was read of them and a map from edge identities to
the same, which is how the code keys them; what was read is the body of the file,
so that facts of different generations can be told apart without a counter.

**GraphHistory** drives it: files are edited, broken, deleted and restored, the
entry is configured, and every analysis that succeeds is merged with the graph
before it. `Analyzed` says what graph a repository of top-level modules gives:
file, module and symbol nodes, `contains` and import edges, the entry and what it
reaches. `lastGood` is a ghost: what ought to be shown of every file.

**LaunchControl** puts any number of browser tabs over StartCommand. Each has the
status last received (`shown`), the one its dialog froze (`dialog`), the requests
`perform` waits for (`task`) and a poll (`poll`). Sending, handling and receiving
are separate steps and either half may be lost, so statuses are as old as one
likes when they are looked at.

**CanvasRefresh** models `refresh()`, the polling effect and the choice of a base
over HostState. A call of `refresh()` is a slot of `refreshes`; the poll says what
it waits for, which may be such a call.

**Inspector** models the panel's effect and its counter, over a server whose disk
and published generation move and a document that may go back and forth, as
CanvasRefresh lets it.

**IndexPipeline** is one indexing run of the desktop program: the tasks that fill
the queue, run the indexer processes, merge and inject; the shared memory they
meet in; the processes, which take a command, work, push a storage and wait while
too many are not fetched; their deaths, and Stop.

| Code | TLA+ |
| --- | --- |
| the commands of `TaskFillIndexerCommandsQueue`, and those in shared memory | `provider`, `commands` |
| an indexer process and its thread | `worker`, `inHand`, `lastResult`, `told` |
| `InterprocessIntermediateStorageManager`, `StorageProvider`, the database | `results`, `storages`, `database`; what a task has taken and not yet given is in `mergeHand`, `injectHand` |
| `InterprocessIndexingStatusManager` | `current`, `crashed`, `finished` |
| the blackboard; where the four tasks are | `blackboard`; `fill`, `build`, `merge`, `inject` |

Which command a process gets and which two storages are merged depends on the
sizes of files and storages; the model takes any. An indexer that runs as a thread
of the program (an option) is a process that never dies.

**RefreshPlan** translates the planning: which files are cleared and which are
indexed, from the rows of the database, the times and texts of the files on disk
and the includes between them (`RefreshInfoGenerator`), and what clearing and
injecting do to the rows (`TaskCleanStorage`, `PersistentStorage`).

**Project** drives it: files are edited, touched and deleted while a refresh goes
through its dialogs and its tasks; the program throws, is stopped or killed at any
step; at the next start the user chooses what to do with what is left. `db` and
`temp` are the two database files; `stage` is `m_refreshStage`, `task` says where
the list of tasks is. Injection is per file, since IndexPipeline has shown that the
storage of each file arrives once.

An index holds rows, the includes between files, what was found in each file
(`facts`, with the text it was found in) and the files that have errors. `Mentions`
says which files name a symbol of a file they include: clearing one of them deletes
the relations of that symbol wherever they were found
(`SqliteIndexStorage.cpp:527-559`). A file whose indexer process died gets an error and,
if it has no row, one that says it is complete and not indexed (`InjectCrash`).

**Messaging** models the queue's thread, the scheduler's thread and the thread of
the user interface calling listeners, which register and unregister from handlers
and from outside. A send walks `m_listeners` by an index and a length that
unregistering adjusts; a message sent as a task looks each listener up by its id
when its turn comes. The scheduler's loop, its background tasks and the
termination after an exception are there as far as messages wait for them.

**UndoRedo** is the history of one tab.

| Code | TLA+ |
| --- | --- |
| `m_list`, `m_iterator` | `list`, `at`: how many commands are before it |
| the 24 handlers of messages that become commands | `MessageTable`: order, `replayLastOnly`, and what is skipped |
| `processCommand` | `ProcessCommand` |
| `replayCommands` | `Replayed` |
| `updateHistory` with `m_historyOffset` | `HistoryOf`, `menu` |
| the messages of the tab's scheduler | `queue` |
| the other controllers of the tab | `view`: the commands that made it what it is |

### Assumptions built into the model

- Every edit changes the manifest entry of its file (size or time). An edit that
  keeps both is invisible to the code, by design of the manifest.
- A process that leaves its process group is out of sight, as it is for the code
  on Linux. The Darwin list of descendants is not modelled.
- Output that is not a valid graph is an exit with an error: both end in
  `indexingFailed`.
- `fork` and `exec` are two steps; the analyzer may fail or hang at any point;
  a file deleted after it was discovered is reported as unreadable or not at all.
- Timers have no durations: an armed one may fire whenever the event loop runs.
- The repository root never changes, so `m_approvedRoot` is left out.
- In GraphHistory the analyzer reads the repository at one moment (AnalyzerRunner
  has the races of that), its modules lie in one directory, and package nodes are
  left out. So are ranges. The analyzer hashes an edge's range into its identity
  (`analyzer.py:171`): the edges of one kind between two nodes in one file are one
  edge in the model, and an edge that has only moved is the same edge. Merging does
  not look at ranges: an edge is kept of the new graph or restored of the old one
  by its path and its ends.
- In the browser modules a request is handled in one step of the server. A page
  that is reloaded is a new tab. In LaunchControl the graph is loaded and the
  server does not end. In CanvasRefresh the Git base stands for all the
  preferences a configuration publishes, and what a poll does after its effect
  was set up anew is left out, since it has no effect. React renders a change and
  runs its effects in one step.
- In Project the dialog offers one mode of refreshing at a time, the states
  OUTDATED, OUTVERSIONED and NEEDS_MIGRATION are left out (they lead to a full
  refresh or to nothing), and the swap, a task of the application's scheduler, runs
  before the background task that ends the refresh goes on: it is queued before it.
- In Project the storage of each source file is injected by itself. In the program
  storages may be merged first, which says of a file that it is indexed, or complete, if
  either of the two says so (`IntermediateStorage.cpp:169-190`): a file that is in a unit
  with an error and in one without may so count as complete whichever came last.
- In Messaging all listeners are of the type of all messages. Messages sent from
  within handlers, parallel messages and filters are left out.
- In UndoRedo a handler is one step, and what it sends to its tab arrives together.
  `keepContent` is never set by any message that is an activation, so that branch of
  `processCommand` is left out. Names resolved anew on replay, and the refusal to
  show errors while indexing, change what a message says and not which is sent.

## 3. The runs

| Run | Question | Instance |
| --- | --- | --- |
| `watcher` | runner and watcher: does every run end, does the graph hold what was read, is a change ever forgotten, does the graph catch up? | 1 file, 2 configurations (one excludes the file), 2 more edits; every notification may be lost |
| `server` | the composition of the server | 2 configurations with different commands, 1 more edit, 1 request, 1 approval, 1 start |
| `history` | merging over generations | 2 files, 3 bodies, 1 module outside, 2 entry configurations; any number of generations |
| `launch_control` | the dialog | 1 tab, 2 commands, 2 generations, 2 confirmations, 1 start |
| `canvas` | the graph on show | 2 bases, 2 generations, 2 refreshes at once, 1 click |
| `inspector` | the evidence on show | 1 node, 1 edge, 2 occurrences, 2 bases, 3 versions, request numbers up to 6 |
| `indexing` | does each file's storage arrive, once? | 3 files, one of which kills its process, 2 processes, a queue of 2, 1 storage waiting |
| `indexing_stop` | do the tasks end, with a Stop at any moment? | 2 files, 1 process, a queue of 1, 1 Stop; the executable may be missing |
| `project` | does a refresh give what full indexing gives, and is an index ever lost? | 2 source files that may include a header, one of which names a symbol of it, 2 edits, 1 kill, 1 fault |
| `stale_index` | what if files change during indexing? | the same without names, kill and fault |
| `messages` | is each listener called once, and does a long task hold messages up? | 1 permanent listener, 2 that come and go, 2 messages, 1 sent at once, 1 sent as the next task, 1 exception, 1 background task |
| `undo` | does the tab go on showing its history? | 5 messages of 3 kinds (each order, each way of comparing), up to 4 commands in the list and 2 messages under way, a menu of 2, the end of indexing once |

`MaxEdits` counts the initial contents as the first edit, except in Project.
`MCStartCommand.cfg` is kept for the start command alone, with larger bounds than in
the composed server (three approvals, two starts, three generations).

### Properties

- `IndexingMeansRunning`: the status says indexing exactly while there is an
  analyzer, over failed forks, failed execs, nested handlers and restarts.
- `RequestNotLost`, `RequestsAnswered`: coalescing keeps every request until a
  run that began after it; each is answered unless the server shuts down.
- `PublishesWhatItRead`: a new generation holds what is on disk for every file
  not edited since the run began. Nothing leaks from an earlier run.
- `GenerationsMoveForward`: graph and configuration change only together with
  the generation, and no file goes back to an older version, stale facts
  included.
- `IndexingEnds`: even if the analyzer hangs.
- `NoChangeForgotten`: while the graph is out of date, a manifest difference,
  the debounce timer, `m_dirty`, a young enough run or a visible error remembers
  it. This is the safety half of the next one.
- `EditsReachGraph`: once the edits stop, the graph comes to describe the disk
  or an error stays visible. It has two provisos, which are the first two of the
  further counterexamples: the graph was fresh at the first manifest, and no file
  came and went between two manifests.
- `KeepsLaunchGate`: the refinement of LaunchGate.
- `NoStrayProcesses`, `DestructionCleans`: no process outlives the QProcess that
  owns its group, or the server, unless the system refused a kill. The second
  excludes a command still in its exec when the server goes.
- `KeepsStartSpec`, `BlockedWhileIndexing`, `ShutdownEnds`: of the composition.
  The second speaks of the analyzer itself and not of the status that reports it.
- `MergeSucceeds`: a valid analyzer output is always published, whatever the last
  graph holds: merging leaves no edge without its ends.
- `FactsAreLastGood`: after any number of broken generations a file shows exactly
  the facts of the one that last could read it, and every other file its own.
- `EverythingContained`, `FreshEdgesPublished`: keeping old edges by their ends
  and paths is done with exactly enough conditions. With one fewer the tree loses
  the broken file, with one more a file that parses gets old edges back.
- `LaunchedWasConfirmed`: whatever is started was confirmed, by argv and
  generation, in some dialog that showed both. Nothing in the start request says
  so; it follows from what the server remembers, what a tab may have seen and the
  order in which a tab sends.
- `StopOffered`: an old poll may overwrite a newer status, the answer of a start
  may be lost, and the index may fail; while a process runs every tab still comes
  to offer Stop.
- `CatchesUp`, `ErrorsShown`: an older graph may replace a newer one on its way,
  and a poll that waits for a failed refresh goes on.
- `EvidenceIsOfThePresent`, `EvidenceNotOlder`, `EvidenceArrives`: the counter
  keeps out every old answer, and not the last one.
- `EachFileOnce`: at every moment a file is in one place on its way from the list
  of commands to the database, though four tasks and the processes hand storages
  on and a process may die with one in hand. Only a Stop or a death loses it.
- `Delivered`: at the end the database has the facts of every file whose process
  did not die over it, even if the others were waiting behind it in the queue, and
  reports a crash of no other file. The one way to lose a file is that nobody took its
  command (the second of the further counterexamples of indexing), and that takes a
  project that does not fit into the queue at once.
- `IndexTaskEnds`: the tasks wait for one another in a circle, a process waits for
  room that only a task makes, and Stop takes away what they wait for; they all end.
- `RefreshMatchesFull`: a refresh that was not disturbed is about to put in place all
  that indexing everything anew would give (`Covers`), nothing that is out of date
  (`Current`), and, unless the incomplete files were refreshed, no file that no source
  file leads to (`Rooted`); after any history of edits, partial refreshes, dead
  processes, kills and recoveries. Its conditions are what the code does not see to:
  an error in a file whose row says that it is complete (`Marked`), rows without a time
  (`Timeless`), incomplete files when only the updated ones are refreshed, and relations
  that were cleared with a file that named their symbols and includes the file no more
  (`Robbed`). What happens without the first, the second and the last is among the
  further counterexamples.
- `NoLeftover`: wherever the program is killed, stopped or throws, no refresh starts on
  another's temporary database.
- `IndexSurvives`: no step of a refresh and no kill, in whatever step, the set-up and
  the swap included, loses an index that was there: one of the two files is an index
  that the next start finds. The exception is an answer of the user, "Keep and Continue"
  about a database whose set-up had not ended (`EitherIsKept`).
- `NothingMissed`: when the dialog says that nothing needs refreshing, no file
  differs from what is indexed of it. Only if no file changes during indexing
  (otherwise it is the finding below) and if the row of the file has a modification
  time (otherwise it is `NothingEverMissed`, among the further counterexamples).
- `EachListenerOnce`: listeners come and go while a message is handed round, from
  the handlers too; none that stayed is left out and none is called twice, unless
  two threads send at the same time.
- `LooksUpRegistered`: listeners go while their ids wait in tasks and while the loop
  counts through the list; a pointer is only ever taken to a listener that is
  registered at that moment. Whether it still is when it is called is another matter,
  and not so (`CallsLive`, among the further counterexamples).
- `MessagesHandled`: no message waits for ever, though indexing may go on for ever
  in the same scheduler.
- `ShowsHistory`: a tab is in step (`InStep`) when what it shows, and will show once
  the replays under way are handled, is what the commands before the position say. No
  step takes a tab out of step, with any number of commands, navigations and refreshes
  under way, but for three: the end of indexing (until the refresh behind it), a command
  sent while a navigation is under way, and a refresh while a command is (`Crossed`).
  What replays answers is put behind everything in the queue, so that these are
  overtaken; what comes of it is among the further counterexamples.
- `WalksStayInside`: the walks backwards over the list, which no handler bounds,
  find an activation before they leave it.
- `RedoUndoesUndo`, `RedoOffered`, `MenuInStep`: Forward leads back to where Back
  was pressed; once it is offered for something forward, no step takes it away but a
  click on an entry that is gone when the click is handled; the menu and its offset
  are those of the list.

### The bounds, and why they are enough

The runner's races are between one run, the request that arrives during it, the
run that follows, and edits before, during and after a read. Two edits give a file
that is broken or deleted and repaired, or a configuration that is invalid and
repaired, with a run in between, and each scan that sees one is a request during
a run or after it. Files do not interact in this model except through the
configuration, which is a path of its own, so one file and the configuration show
every interaction of two paths. Three generations, three approvals and two starts
let an approval be overtaken by a generation and come back after it, and let an
older process group be alive when a new one starts. Merging looks at one broken
file and the rest, so two files give every case of an edge (within the broken file,
to it, from it, past it); a third body is what a file holds *after* it was repaired,
to be told apart from what it held before. Two refreshes at once are a poll's and
one other; a third repeats the second. One tab shows every order of its own steps,
the polls included; two are out of TLC's reach exhaustively (a counterexample below
needs them and is found), and the proof covers any number. In the Inspector a number
is current or it is not; six numbers are two changes of the view after an
occurrence.

The composed run has the smallest bounds because each half has been checked with
larger ones; it checks what only the composition can show.

In IndexPipeline two processes over a queue of two (20 in the code) and a limit of
one waiting storage (10) with three files bring about each of the waits: a full and
an empty queue, a storage nobody fetches because enough are waiting, a process that
dies while the other works. The project does not fit into this queue, so that refills,
and the commands left behind by them, are among the behaviours; with a queue of three,
where `Delivered` allows no loss, TLC checks it as well (0.7 million states).
`DieAnywhere` lets processes die outside of parsing too. One process is enough for a Stop: each
waits for the tasks and not for the other.

In Project two source files that include the header or not are all the shapes of
dependency the planner distinguishes (a file changed, a file that depends on it, a
file only it refers to). One of them names a symbol of the header, the other does not.
`MaxEdits`, `MaxCrashes` and `MaxFaults` bound what happens
from outside; two edits with a kill and a fault are a refresh, its failure, the
recovery and the refresh after it. With three edits, one source file including the
header always, and with a source file that includes the other, TLC has checked the
same properties (10 million states for the first); that takes longer than a run
should. `Restores` would let a file get back an earlier
text, `SwapMayFail` lets the system fail in removing the old database,
`EditsWhileIndexing` lets files change while they are indexed.

In Messaging the listeners before, at and behind the index are three. `IndexSize` is
the width of the unsigned index, so that an underflow is one. In UndoRedo
`HistorySize` is 50 in the code; a menu of two entries reaches
its limit with three activations. Four commands in the list are two activations with
one refinement each, or a refinement that Back has to pass over; two messages under way
are the shortest queue in which one overtakes the other. `KeyOf` says which part of a
message the comparison of equal messages looks at.

Every property of a passing run is also checked against a *mutant*: a plausible
bug put in place of a definition (an approval that is not consumed, output that
is not cleared, a scan that does nothing during a run, ...), named `Mutant...`
beside the definition it replaces. TLC finds each property violated by its
mutant under the same bounds, which shows that the bounds reach the case.

### Fairness

Assumed of the server, each as weak fairness: the event loop starts, and delivers
process signals that are pending and timers that have expired; a forked child
reports its exec or its failure; the bounded waits of `runBlocking` return; a
process that was sent `SIGKILL` ends; a queued file system notification arrives; the
shutdown poll fires. The code gives the first through Qt's loop with its 50 ms
poll and repeating timers, and the third through `waitForProcess` with a limit.
In the browser: requests are handled, and answered or known to have failed (weak);
of polls and refreshes without end, some are answered (strong); the timer polls
again. A network that fails every request shows an error and nothing else.
*Not* assumed: anything of an analyzer left to itself (it may hang: only the
deadline ends the run), anything of the started command, any request, any
notification of a path in `SilentPaths`, and any edit. The debounce timer is
assumed to expire; a stream of hints faster than 300 ms would postpone it for
ever, which a model without durations does not show.

Of the desktop program: each task of the parallel group is run again and again (the
group gives each a thread of its own), a thread that runs a process, and the process,
go on, the updater thread of a process polls the flag, and the handlers of a Stop
that was pressed run. Nothing is assumed of deaths or of Stop. In Messaging the
thread of the queue and the thread of the scheduler run and handlers return; the
background task need never end. Project and UndoRedo have no liveness property and
assume nothing.

### Where the code and its documents disagree

`stale_index`. The row of a file in the database, with its modification time and its
text, is made by `SqliteIndexStorage::addFile` (SqliteIndexStorage.cpp:183) from the
disk, when the storage is injected. The facts come from a process that parsed the
file earlier. A file saved in between gets a row that says the new text is indexed,
beside facts of the old one; `didFileChange` compares with that row, so that no later
refresh takes the file up until it is saved once more. `DOCUMENTATION.md:504` says of
Updated Files: "Reindexes all files that were modified since the last indexing".

### Further counterexamples

The properties named here do not hold. Some contradict a sentence of the
documentation in a corner, some only what one might expect. Their definitions are
kept, and where a configuration is named TLC finds the counterexample with it, so
that a change of the code can be held against them.

Of the server:

- `StartupEditsReachGraph` (`MCStartupGap.cfg`). The first manifest is taken when
  the watcher is constructed, after the start-up analysis and after binding the
  port. An edit between the analyzer's read and that moment is in the first manifest
  but not in the graph: no later scan differs and no reindex follows.
  `docs/USAGE.md:392`: the host "watches the repository and rebuilds a new graph
  after edits".
- `ShortLivedFilesLeaveGraph` (`MCShortLivedFile.cfg`). A file that is created and
  deleted between two scans leaves no trace in the manifest. If an analyzer,
  started for another reason, reads it in between, it stays in the graph until
  something else changes.
- `StopAvailable` (constants of `MCStartCommand.cfg`). `stop()` acts on
  `m_processGroupId`, set by the `started` signal only. When the exec takes longer
  than the two-second wait of `start()`, the process runs, `status()` says so, and
  `stop()` answers `stopped:false`. A leader that outlasts `SIGKILL` is in the same
  position afterwards. `docs/USAGE.md:449`: "Stop is available while the process is
  running".
- `EntryIsKnown` (constants of `MCGraphHistory.cfg`). When the entry file of the new
  graph does not parse and has no earlier facts, `Graph.cpp:602` takes over the last
  entry without asking whether it still exists. Rename `lib.py`, the only file with a
  main guard, to `main.py` and break it in the same generation: the published entry
  names a file that is gone, which `fromNdjson` would refuse (`Graph.cpp:301`).
  `docs/TECHNICAL.md:296`: "Invalid graph shape or semantic data is rejected before
  publication."
- `IncidentEdgesKept` (`MCGraphEdges.cfg`). The node of a module outside the
  repository has no path, so it is not kept with the broken file that alone
  imported it, and the import edge goes with it. `services/local-server/README.md:251`
  says such a file keeps its "prior nodes and incident edges".
- `SelectedBaseShown` (constants of `MCCanvasRefresh.cfg`). `App.tsx:73` puts whatever
  graph arrives on show. When a base is chosen while another refresh is under way and
  the older answer arrives last, the page compares with the base selected before,
  under the name of the new one; the generations agree, so no poll heals it.
  `docs/TECHNICAL.md:267`: "The browser overlays `WORKTREE` against the selected
  base".
- `StartsWhatItDisplayed` (`MCLaunchTwoTabs.cfg`). A start request names no
  generation. If the index moves on and a second tab approves the new command
  between the first tab's approval and its start, the first tab's request starts
  the new command, which its own dialog did not display. It *was* confirmed, in
  the other tab: `LaunchedWasConfirmed` holds.
- `EscapeCancels` (`MCLaunchCancel.cfg`). Escape and Cancel close the dialog while
  the approval is under way, and the start is sent all the same.

Of the desktop program's indexing:

- `CrashesReported` (`MCIndexCrash.cfg`). `finishIndexingSourceFile`
  (InterprocessIndexingStatusManager.cpp:98) erases the entry of its process *and of
  all behind it*: a process that has died over a file by then is forgotten, and the
  file is neither indexed nor reported.
- `StopIsNoticed` (`MCIndexStop.cfg`). A Stop after the last thread has ended but
  before the storages are injected throws storages away, and nothing sets the flag
  that brings up the "Interrupted Indexing Dialog" (`DOCUMENTATION.md:548`).
- Without the indexer's executable, and with more commands than the queue holds, the
  task that fills it waits until Stop is pressed; this is the proviso of
  `IndexTaskEnds`.
- `NoCommandStays` (`MCIndexLeftBehind.cfg`). A process that found the queue empty waits
  for its updater thread, which sleeps a second at a time
  (`InterprocessIndexer.cpp:30-54`); the filling task refills the queue every 200 ms and
  ends 200 ms behind its last refill (`TaskFillIndexerCommandQueue.cpp:52`). When all
  processes are on their way out by then, their threads see that the queue was stopped
  and end, and the last commands stay in the queue: those files are not indexed, and
  nobody is told.
- `Delivered` with `DieAnywhere`: a process that dies between sending a storage and
  saying that it is finished leaves one storage more than ids, and the last storage of
  that process is not fetched.

Of its projects:

- `EitherIsKept` (constants of `MCProject.cfg`). "You can either choose to keep the data
  that has already been indexed or discard that data and restore the state of your
  project before indexing" (Project.cpp:138-142): killed while it copies the database, or
  before a new one has its version (Project.cpp:546-571), the program offers at the next
  start to keep what is no index, and removes the whole one if the user agrees.
- `NoLeftover` with `SwapMayFail`: the temporary database stays beside an old one that
  could not be removed, and the next refresh builds on it.
- `RefreshMatchesFull` without `Robbed` (constants of `MCProject.cfg`): clearing a file
  deletes the relations of every symbol the file names, those found in a header that
  stays among them. If the file includes the header no more, nothing indexes the header
  again, and its relations are lost to this refresh and to all later ones until it
  changes.
- `RefreshMatchesFull` without `Marked` and `Timeless` (three files, `MayInclude` of
  source file `b` `{{a}}` and of source file `a` `{{}, {h}}`, `MaxEdits = 4`,
  `MaxCrashes = 1`, `MaxFaults = 1`): the row without a time of `NothingEverMissed` also
  keeps the include of `a` from being found changed, and what `a` has dropped stays in
  the index. Such a row has an error and counts as complete.
- `RefreshMatchesFull` without `Marked` alone (two source files, three headers,
  `MaxEdits = 8`, `MaxFaults = 1`). `PersistentStorage::addFile` (70-91) sets the
  completeness of a row that is there before the places of the new storage's errors are
  recorded, and `setFileCompleteIfNoError` leaves the row of a file that had no error so
  far as it is: a header that was left as an orphan (the next item) and is included
  again, after the file *it* includes was deleted, has an error and counts as complete.
  The row of a source file over which a process dies is set to complete as well, if the
  error was in another file of its unit. When the deleted file is back, a refresh of the
  updated files sees nothing incomplete, and does not find it.
- `Rooted` after a refresh of the incomplete files (two source files, two
  headers, `MaxEdits = 3`, `MaxCrashes = 1`, `MaxFaults = 0`).
  `getRefreshInfoForIncompleteFiles` (RefreshInfoGenerator.cpp:149-203) adds the
  incomplete files and those that include them to what is cleared, but does not look for
  the headers that only these include, as the plan for the updated files does. With `a`
  including `h` and the missing `k`, and `b` including `h`: `b` is deleted, the incomplete
  files are refreshed, `a` is changed to include nothing, and the program is killed after
  `a` is cleared and what is there is kept. `h` stays in the index, though no source file
  leads to it, and no refresh of the updated files removes it: it has not changed, and
  nothing that changed refers to it. That is why `RefreshMatchesFull` asks for `Rooted`
  only of other refreshes, and only if the index they began with was.
- `NothingEverMissed` (`MCTimelessRow.cfg`): the row of a file has no modification
  time when an indexer process died over a file that was gone by then. The file comes
  back, and before it is planned for another file that includes it is indexed: the row
  is marked indexed and still has no time, and `didFileChange`
  (RefreshInfoGenerator.cpp:233) compares with none, so that no later edit is found.
- `NothingMissed` with `Restores`: a file is changed and, before it is planned for
  again, given back the text it had; the comparison of texts says that nothing
  changed, though what was indexed in between was the other text.
- Not as properties: an exception during indexing leaves `m_refreshStage` at INDEXING,
  so that no refresh is possible until the program is started again; closing the
  dialog at the end discards the new index; a file whose process died and that is then
  deleted stays in the index; `SourceGroup::containsSourceFilePath`
  (SourceGroup.cpp:65) answers the opposite of its name.

Of its messages and its navigation:

- `CallsLive` (`MCListenerGone.cfg`): the lock is released between
  the look-up of a listener and its call (MessageQueue.cpp:262-264), and listeners are
  destroyed on other threads meanwhile, as a tab's are by the user interface. `EveryListenerOnce` (constants of
  `MCMessaging.cfg`): two threads that send at once share one index, and a listener
  may be left out or called twice. When the first listener unregisters during its
  call, the unsigned index underflows: with `Permanent = <<>>` that first listener and
  another one unregistered in the same handler refute `EachListenerOnce`, since the
  index, now above the length, ends the walk before the rest was called. In the program
  the first listener is the Application, which stays.
- All under `MCUndoRedo.cfg` with the named change. `QuietShowsHistory`, of
  which `ShowsHistory` keeps what is true: a command sent while a navigation is queued is
  handled before what the navigation replays, and a refresh sent while a command is
  queued replays what was chosen without it; nothing in the queue or in the controller
  keeps either from happening, and the tab then shows something else than its history
  says. `ShowsHistory` with `KeyOf <- MCOneKey` and `Messages <- MCTrails`: the
  comparison of equal messages ignores, for instance, the depth of a trail, so that
  the second trail is shown and not recorded. `MenuInStep` with `Messages <- MCBundled`
  or `Nameless = {2}`: dropping the bundled edges' command at the end of indexing
  merges two overviews and the menu is not told; entries without a search match shift
  those behind them. `MenuInStep` with `HistorySize = 1`: a second activation pushes the
  present one out. `ForwardShown`, of which `RedoOffered` keeps what is true, with
  `Messages <- MCBundled` and `MaxQueue = 3`: indexing drops the bundled edges' command
  while another command, Back and a click in the menu wait; the click finds no such entry
  any more, moves nothing, and still sets the button as if it had
  (UndoRedoController.cpp:293), so that Forward is gone though a command is ahead.
  `ButtonsOnlyWhenAvailable`: the end of indexing shortens the list
  and leaves the buttons (`DOCUMENTATION.md:987`: "Both buttons are only enabled when
  the respective actions are available at the moment"). `UndoOffered`: a click in the
  menu on the first activation takes Back away, though an edge or a definition shown
  behind it may be left. `RefreshKeepsActivation`: refreshing while the first
  activation is shown activates the overview (UndoRedoController.cpp:375). Back at the
  first entry reads the element before the first; the model takes either outcome.

## 4. The proofs

The `*_proofs` modules hold no assumption beyond the named ASSUMEs of the modules
they extend: `NoArgvAssumption` (the absent command is not a command),
`RunnerAssumption` (the constants describe a repository), `StartAssumption`,
`HistoryAssumption`, `LaunchAssumption`, `InspectorAssumption`, `SilentAssumption`,
`ServerAssumption` (each version of `code-view.json` loads one of the server's
configurations), `RefreshAssumption`, `ProjectAssumption`, `PipelineAssumption`,
`MessagingAssumption` (the permanent listeners are registered once each, and the unsigned
index can count all listeners), `UndoAssumption` and `MessagesAssumption`; a theorem that
needs more has it in its ASSUME. TLC evaluates each in the runs of its module.

**StartCommand.** The inductive invariant `StartInv` is the type invariant,
`NoStrayProcesses` and three facts that make them inductive: an approval in
force was given in a generation not later than the present one
(`ApprovalIsPast`: without it a reindex could arrive at the number an old
approval carries); nothing of a command is left unless one was started
(`StartedOnce`); and the remembered group id, when it is not zero, is the group
of the running child, and is zero beside a running child only after that group
was killed around its leader
(`GroupIdInStep`: what makes stopping the remembered group stop every process
there is). From it follow `StartTypeCorrect`, `NoStraysEver` and
`DestructionLeavesNone`, and `ImplementsLaunchGate`, by one lemma per group of
actions: each handler maps to one step of the gate or to none, and `HostMoves`
to a withdrawal or a publication.

**AnalyzerRunner.** `RunnerInv` adds to the type invariant that every path holds
a body of its own kind (`DiskFits`), that nothing is requested or read before
the event loop runs (`QuietBoot`), `IndexingMeansRunning` and `RequestNotLost`.
The pieces of handlers are dealt with once (`StartAsyncKeeps` and its
companions), and each action cites them. The publication properties need a second
invariant on top of it, `ReadInv`: a path that was read and not edited since the
run began is still as it was read (`ReadsAreOfRun`), a success has read every
path (`OkMeansRead`), and the graph is no newer than the disk or than what the
present run has read (`GraphIsPast`). Without the last, the facts a broken file
keeps could be newer than the ones they replace.
From the two follow `PublicationIsFaithful` and `GenerationsAreMonotone`.

**RepositoryWatcher.** On top of `RunnerInv` and `ReadInv`, `WatcherInv` says that a
manifest is of the past (`ManifestIsPast`), that no analyzer runs when the first one is
taken (`ListeningIdle`), and what makes `NoChangeForgotten` inductive
(`ScannedIsRead`): when no timer runs and no run is owed, the run in progress began after
the last edit of every path of which the manifest is up to date, so that its graph will
be up to date in that path. `NothingIsForgotten` follows for any files and
edits and any notifications lost.

**LocalServer.** Its steps are those of the watcher with the configurations it loads,
or of the start command, or both at once (a publication withdraws an approval, a
shutdown ends both). `ServerKeepsLiveSpec` drops the second half, so that all that is
proved of the watcher holds of the server. `ServerLinks` ties the halves together: a
blocking run has a process and nothing is owed before the server serves
(`BlockingRuns`), `m_dirty` is set behind a process whose end will look at it
(`DirtyRuns`: without it a run could be owed while commands are started), the controller
is destroyed when the server is gone (`DestroyedAtEnd`), and every version of
`code-view.json` was counted (`ConfigCounted`).
From it follow `ServerBlocksCommands` and, by
mapping what the indexing half does to `HostMoves` of StartCommand,
`ServerKeepsStartSpec`. That theorem and `ServerKeepsGate`, which carries the results
about StartCommand over, assume `[]GenerationsBounded`: `HostMoves` ends at
`MaxGeneration`, a bound of the model and not of the code.

**GraphHistory.** `HistoryInv` is the type invariant, `FactsAreLastGood`, and that
an edge found in a file starts in that file (`EdgesLeaveTheirFile`: without it a
merge could remove or restore an edge between two files that parse). `MergeIsWhole` shows
that a merge of any two such graphs leaves no edge without its ends, `MergedFacts`
what it shows of every file, `MergedEdgesAreCurrent` which edges. From these
follow `MergingNeverFails`, `StaleFactsAreTheLastGoodOnes` and
`FreshEdgesArePublished`, for any files, bodies and imports. `TreeInv` is for
`EverythingHangsTogether`: every file, module and symbol has the edge to its container
(`Tree`), edges have their ends, and the tree has finitely many edges. That merging keeps
`Tree` is `MergedTree`: the container of a stale node is stale with it or is the
repository, so that the edge is restored; the container of any other is as fresh as it
is, so that the edge survives. `LeadsTo` counts its steps, up to the number of edges;
`LeadsToClosed` shows that this is enough, since a step that adds something uses an edge
that no earlier step used, and `LeadsToLeast` that it adds nothing else. Both are
inductions over the steps, made with the least counterexample.

**LaunchControl.** The whole invariant of StartCommand is taken over:
`TabsKeepStartSpec` shows that tabs move the controller only as StartSpec allows.
On top of it `LaunchInv` says that every status in a tab, wherever it is on its way,
is *of the past*: its generation has been, and if it is the present one its argv is
the published one. Then an approval in force was asked for by a dialog that showed
that very command (`ApprovalConfirmed`), and so was what was started
(`NothingUnconfirmedStarts`), for any number of tabs.

**Inspector.** `InspectorInv` adds `RequestsOK`: no number is above the counter, and
a request that has the counter's number is about what is on show and was answered
no earlier than the document. `LateAnswersAreIgnored` and `EvidenceKeepsUp` follow.

**Project.** `LeftoverInv` ties the temporary file to the stage of the
refresh and to the step of the task (`StageInv`: where another refresh may start, and
while its dialog is open, there is none; `SwapInv`: none is left behind the swap, and
the stage stays as it is until the task has ended), from which `NoLeftoverHolds`, if
the system lets the old database be removed. `SurvivalInv` adds what either file may
hold at each step (`TempInv`, `DbInv`), that a plan for less than everything is made
only for an index that was loaded (`PlanInv`: without it an unusable file would be
copied). A step that loses an index would have to be a removal or a loading, and
`SafeStep` goes through them: `IndexSurvivesHolds` follows, kills and exceptions in the
set-up included, but for the answer it names. Both hold for any files,
includes, bounds and edits, those during indexing included. `MissedInv` is for
`NothingMissedHolds`: the time and the text of every row are older than the next edit
(`GoodRow`), a file that does not differ from its row still holds what was found in it
(`GoodFact`), a storage that waits to be injected says what the disk says
(`GoodStorage`, the step that fails when files change during indexing), and a plan of
the updated files was made for the index and the disk of now unless a file changed
(`PlannedInv`). An edit keeps it since a new text is none of the old ones
(`NewContent`, the step that fails with `Restores`).

`FullInv` is for `RefreshMatchesFullHolds`. Of either file, at any step and whatever was
killed before (`HoldInv`), the index is `Sound`. Edges and facts are of indexed files
(`Shaped`), and an indexed file has facts unless it was robbed of them. A file that has a
time and does not differ from its row (`Firm`) has in the index nothing but its own
includes and its own text (`Faithful`); and if it is reached from a source file over
files of this kind (`Sure`), the index has all its includes, those aside that an error of
the file says are missing (`Entire`). The restriction to `Sure` is what makes it
inductive: a file that only an orphan leads to may lose an include with a cleared file
that no plan connects to it. That clearing keeps `Sound` (`ClearSound`) needs that a plan
clears whatever includes something it clears, or else that this is not sure
(`UpdatedPlan`, `IncompletePlan`, `ClearedEdges`, `StaysStatic`). `PlanKept` ties the
plan to the index and to the disk it was made for, `UnitsInv` what was parsed to the
disk. `FreshInv` is what a refresh works towards while nothing disturbs it: nothing that
is indexed is out of date (`Fresh`), what can be found is there but for errors in rows
that count as complete (`Found`), and each source file is indexed or on its way
(`Covered`). `RootedInv` carries `Rooted` through the refreshes that look for orphans
(`ClearRooted`, `InjectRooted`). At the end these give the property (`MatchesFull`), by
showing for each source file that what the index reaches from it is what its translation
unit reads. `Reached` counts its steps up to the number of files; that this is
enough (`ReachedClosed`) and adds nothing (`ReachedLeast`) are inductions over the steps,
made with the least counterexample. The hypotheses are that the system lets the old
database be removed, that files keep still while they are indexed, and that they get no
old text back; TLC refutes the property, or another one above, without each. Any
`Mentions`, any source files including each other, and any number of faults and kills are
covered.

**IndexPipeline.** `PlacesInv` says of every file where it may be, and that it is there
once: in one command, ahead (`AheadOnce`), in one storage of one process (`WaitingOnce`),
in one storage of the program (`HeldOnce`), and never in two of these (`Apart`); that it
is in one of them while nobody pressed Stop and no process died over it (`Present`). It
needs what a process and each task have in their hands at each step (`HandsFit`,
`TaskHandsFit`: a process that pushed its storage no longer carries the file, a task that
is not in the middle of handing on holds nothing). Every action leaves a file where it
is, throws it away, or moves it from one place to one other; these three cases are lemmas
of their own and each action cites one. `EachFileIsOnce` follows, wherever processes die
and whatever is stopped. `DeliveryInv` adds why nothing is left behind at the end: a
thread ends only when nobody fills the queue any more, and in a project that fits into
the queue only when its process came back from an empty one (`QueueRunDry`), every storage is announced, or about to be, as often as it waits
(`Announced`, a bag of process numbers against the lengths of the queues), the fetching
task ends behind the threads and with the queues empty (`BuildEnds`), and a crash is told
only of a file a process died over (`CrashesTrue`). `EverythingDelivered` has one hypothesis, whose failure is a further
counterexample above: processes die only while they parse.

**Messaging.** `RegisteredWhenLookedUp` needs the shapes of the variables, and that an
index which is looked at is inside the list it is used on (`PickIsRegistered`). For
`EachListenerIsCalledOnce`, `SendersInStep` says of a send that is alone how far it is:
the listeners at the head of the list, up to `Done`, have been called once, those from
there to the length not yet, and nobody else will be (`Halfway`). Registering appends behind the
length; unregistering moves list, index and length together, and the difficult case is the
listener unregistered in its own call, where the index names the one before it until the next
increment. `Permanent # <<>>` keeps the index from underflowing.

**UndoRedo.** `WalksInv` is the shape of the history, `WalksStayInside` (an activation at
the start of the list, and the position behind it), and that no command of the view is
right ahead of the position (`NoViewAhead`): Forward passes those together with the
command they belong to, and without it Forward would stop short of where Back was pressed.
`ForwardUndoesBack` rests on it. For the end of indexing and for replaying, the commands
kept are numbered by their ranks; that each rank is taken by exactly one position
(`RankFacts`) is an induction over the natural numbers, made with the least
counterexample. For `ForwardIsOffered` each handler that clears the button is shown to leave
nothing ahead. These theorems need no bound on the queue and hold for any menu size.

`MenuKeepsStep` proves `MenuInStep` for a menu of at least two entries (the code has 50;
with one, the menu of a second activation marks entry -1) and activations that all have a
search match and none of which is dropped when indexing ends (`Listed`; without either, TLC
finds the counterexamples among those above). Its invariant, `MenuInv`, says that the menu is
in step by positions (`MenuFits`), or else that the activation on show is not the first
and that something which will renew the menu is due: the refresh after indexing, a replay
with an activation in it, or an overview that takes the place of the errors and so is not
skipped as equal to the last command. Two lemmas carry it. `HistoryFitsList`: the scan in
`updateHistory` makes a menu in step with any list. The function of its LET is shown to
exist, and after k activations it holds a stretch of them that ends at the k-th, or, once
the scan is done, reaches beyond the present one (`ScanFits`). `MenuMoves`: a menu stays in
step while the activations are the same in the same order, wherever they move, since a set
of positions is listed from the last to the first in one way only (`DescendsOnce`); so
only activations need to renew it, which is what the code relies on.

Only model-checked: the liveness properties (`RequestsAnswered`, `IndexingEnds`,
`EditsReachGraph`, `ShutdownEnds`, `StopOffered`, `CatchesUp`, `ErrorsShown`,
`EvidenceArrives`, `IndexTaskEnds`, `MessagesHandled`), which rest on fairness and are
out of the prover's reach; and `ShowsHistory`, which compares
folds over two sequences of commands with a function the model leaves to recursion.

## 5. What is not modelled

- The JSON validation and path resolution of `Config.cpp`, name resolution and
  control flow in `analyzer.py`: sequential computations over text and syntax
  trees. The model keeps what indexing needs of them, a verdict and an order of
  reads.
- Tokens, origin checks, static files and the GET routes the browser modules do
  not use: each reads one consistent `StateView` and changes nothing.
- Slices, paging and search of `Graph.cpp`, the comparison of two graphs, and the
  Git half: planned, below.
- `graphModel.ts` (filters, collapsing, layout), rendering, bookmarks and saved
  views of the browser.
- The trace log and the editor launcher: no state that anything reads.
- Of the desktop program: the parsers, the views and controllers, the queries of
  `PersistentStorage` and `SqliteIndexStorage`, the search index, bookmarks and
  migrations. They are by far the larger part of its lines. Parsers are walks over
  syntax trees of other libraries, views lay out and paint, queries are single SQL
  statements or joins in memory: each is sequential, runs to its end on one thread and
  has a result and no history, so that a model would repeat the code. Their outcomes
  are choices in the models.
- The starting and stopping of the loops of `TaskScheduler` and `MessageQueue`, and
  the end of the program, where `destroyScheduler` waits for a loop that a background
  task may keep busy; messages sent from within handlers of messages sent at once; the
  schedulers of the tabs, which are further instances of the one that is modelled.
- The end of indexing and the refresh of the interface are handled by the scheduler of
  the application, while the thread of a tab may be inside a handler of the same
  UndoRedoController, without a lock. UndoRedo takes each handler as a step; two at
  once are undefined behaviour.
- Scripts, installers and vendored code.

## 6. Plan

Done, in the order of importance: the runner, the watcher, the start command with
its abstract gate, the composed server; the graph history; the launch dialog, the
refreshing and the Inspector; the desktop program's indexing pipeline, its refreshes
and crashes, its messages and its navigation history. What is left, in this order:

1. `GraphSlice`: the bounded breadth-first slices, the paging of a node's edges and
   the comparison of two graphs (`Graph.cpp` 389-523, 605-663) against reference
   definitions, checked over the graphs of GraphHistory in its run.
2. `Comparator`: the base commit resolved once for the files and once for the
   graph, and the cache by commit.
3. Proof of `ShowsHistory`: the folds as functions of a length, as `ScanFits` does for
   the menu.
4. The reachability over collapsed containers in `graphModel.ts`, as operators
   against a reference.
5. The starting and stopping of the desktop program's loops.
