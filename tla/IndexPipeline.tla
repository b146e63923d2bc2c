---------------------------- MODULE IndexPipeline ----------------------------
(***************************************************************************)
(* The parallel group of tasks that indexes a project in the desktop       *)
(* program: one task feeds a queue of commands, one starts indexer         *)
(* processes and fetches their storages, one merges storages, one injects  *)
(* them into the database. The processes share memory with the program and *)
(* may die; the reader may press Stop.                                     *)
(*                                                                         *)
(* The indexers are processes (runIndexerProcess); an indexer thread       *)
(* (runIndexerThread) behaves as one that never dies. The order of the     *)
(* queues of commands and of storages is abstracted to a choice: it        *)
(* depends on file sizes, and no property on it.                           *)
(***************************************************************************)
EXTENDS Integers, Sequences, FiniteSets

CONSTANTS
    Files,          \* the source files to index
    ProcessCount,   \* indexer processes; they are numbered from 1
    Crashing,       \* the files whose indexing may kill the process
    DieAnywhere,    \* whether a process may die at any other point as well
    MaximumQueueSize, \* commands in the queue (20 in the code)
    MaxStorages,    \* fetched storages beyond which none is fetched (10)
    MaxInterrupts,  \* bound: presses of Stop
    Nobody          \* no file in hand

ASSUME PipelineAssumption ==
    /\ ProcessCount \in Nat \ {0}
    /\ IsFiniteSet(Files) /\ Crashing \subseteq Files
    /\ DieAnywhere \in BOOLEAN
    /\ MaximumQueueSize \in Nat \ {0} /\ MaxStorages \in Nat
    /\ MaxInterrupts \in Nat
    /\ Nobody \notin Files

Processes == 1 .. ProcessCount

VARIABLES
    provider,     \* commands not yet in the queue
    commands,     \* shared memory: the queue of commands
    queueStarted, queueStopped,       \* blackboard, set by the filling task
    threadsStarted, threadsStopped,   \* blackboard, set by TaskBuildIndex
    flaggedInterrupted, \* blackboard: interrupted_indexing
    fill, build, merge, inject,       \* where the four tasks are
    sawStopped,   \* m_indexerCommandQueueStopped, TaskBuildIndex's copy
    interrupted,  \* m_interrupted of TaskBuildIndex
    executable,   \* whether the indexer's executable is there
    worker,       \* per process: where it is, or where its thread is
    inHand,       \* per process: the file it has taken
    lastResult,   \* per process: whether it last ended with 0
    told,         \* processes whose updater thread has seen the flag
    flag,         \* shared memory: indexing_interrupted_flag
    current,      \* shared memory: current_files
    crashed,      \* shared memory: crashed_files
    finished,     \* shared memory: finished_process_ids
    results,      \* shared memory, per process: the queue of storages
    storages,     \* StorageProvider: storages waiting to be injected
    mergeHand, injectHand, \* storages a task has taken from it
    database,     \* the entries of the persistent storage
    message,      \* the handlers of MessageIndexingInterrupted still to run
    presses,      \* presses of Stop
    died          \* ghost: files whose process died over them

tasks == <<fill, build, merge, inject>>
blackboard == <<queueStarted, queueStopped, threadsStarted, threadsStopped,
                flaggedInterrupted>>
shared == <<commands, flag, current, crashed, finished, results>>
workers == <<executable, worker, inHand, lastResult, told, died>>
supply == <<storages, mergeHand, injectHand, database>>
stop == <<message, presses>>
vars == <<provider, blackboard, tasks, sawStopped, interrupted, workers, shared,
          supply, stop>>

(* What a storage says of a file: its facts, or that its process died.     *)
Facts(f) == [file |-> f, kind |-> "facts"]
CrashError(f) == [file |-> f, kind |-> "error"]

Update(function, p, value) == [function EXCEPT ![p] = value]

Init ==
    /\ provider = Files /\ commands = {}
    /\ queueStarted = FALSE /\ queueStopped = FALSE
    /\ threadsStarted = FALSE /\ threadsStopped = FALSE
    /\ flaggedInterrupted = FALSE
    /\ fill = "enter" /\ build = "waiting" /\ merge = "waiting" /\ inject = "waiting"
    /\ sawStopped = FALSE /\ interrupted = FALSE
    /\ executable \in BOOLEAN
    /\ worker = [p \in Processes |-> "off"]
    /\ inHand = [p \in Processes |-> Nobody]
    /\ lastResult = [p \in Processes |-> FALSE]
    /\ told = {} /\ flag = FALSE
    /\ current = [p \in Processes |-> Nobody]
    /\ crashed = {} /\ finished = <<>>
    /\ results = [p \in Processes |-> <<>>]
    /\ storages = {} /\ mergeHand = {} /\ injectHand = {} /\ database = {}
    /\ message = 0 /\ presses = 0
    /\ died = {}

-----------------------------------------------------------------------------
(* TaskFillIndexerCommandsQueue. The size of the queue is read before the  *)
(* lock is taken; it only falls in between, so that the refill is never    *)
(* too large.                                                              *)

RefillAmount ==
    LET free == MaximumQueueSize - Cardinality(commands)
    IN  IF free < Cardinality(provider) THEN free ELSE Cardinality(provider)

FillCommandQueue ==
    \E new \in SUBSET provider :
        /\ Cardinality(new) = RefillAmount
        /\ commands' = commands \cup new
        /\ provider' = provider \ new

FillEnter ==
    /\ fill = "enter"
    /\ FillCommandQueue
    /\ fill' = "running"
    /\ queueStarted' = TRUE
    /\ UNCHANGED <<queueStopped, threadsStarted, threadsStopped, flaggedInterrupted,
                   build, merge, inject, sawStopped, interrupted, workers, flag,
                   current, crashed, finished, results, supply, stop>>

FillRefill ==
    /\ fill = "running"
    /\ RefillAmount > 0
    /\ FillCommandQueue
    /\ UNCHANGED <<blackboard, tasks, sawStopped, interrupted, workers, flag,
                   current, crashed, finished, results, supply, stop>>

(* At least 200 ms after the last refill. A process that found the queue   *)
(* empty before that refill may still be on its way out: it waits for its  *)
(* updater thread, which sleeps a second at a time.                        *)
FillDone ==
    /\ fill = "running"
    /\ provider = {}
    /\ fill' = "done"
    /\ queueStopped' = TRUE
    /\ UNCHANGED <<provider, queueStarted, threadsStarted, threadsStopped,
                   flaggedInterrupted, build, merge, inject, sawStopped,
                   interrupted, workers, shared, supply, stop>>

-----------------------------------------------------------------------------
(* The thread of an indexer process, and the process.                      *)

WorkerUnchanged ==
    UNCHANGED <<provider, blackboard, tasks, sawStopped, supply, stop, executable>>

(* The executable is missing: the thread returns early, and still counts   *)
(* as running.                                                             *)
MissingExecutable(p) ==
    /\ worker[p] = "start" /\ ~executable
    /\ worker' = Update(worker, p, "gone")
    /\ interrupted' = TRUE
    /\ WorkerUnchanged
    /\ UNCHANGED <<inHand, lastResult, told, died, shared>>

EnterLoop(p) ==
    /\ worker[p] = "start" /\ executable
    /\ worker' = Update(worker, p, "check")
    /\ WorkerUnchanged
    /\ UNCHANGED <<interrupted, inHand, lastResult, told, died, shared>>

GoesOn(p) == (~sawStopped \/ ~lastResult[p]) /\ ~interrupted

StartProcess(p) ==
    /\ worker[p] = "check"
    /\ GoesOn(p)
    /\ worker' = Update(worker, p, "pop")
    /\ WorkerUnchanged
    /\ UNCHANGED <<interrupted, inHand, lastResult, told, died, shared>>

EndThread(p) ==
    /\ worker[p] = "check"
    /\ ~GoesOn(p)
    /\ worker' = Update(worker, p, "ended")
    /\ WorkerUnchanged
    /\ UNCHANGED <<interrupted, inHand, lastResult, told, died, shared>>

PopCommand(p) ==
    /\ worker[p] = "pop"
    /\ \E f \in commands :
        /\ inHand' = Update(inHand, p, f)
        /\ commands' = commands \ {f}
    /\ worker' = Update(worker, p, "wait")
    /\ WorkerUnchanged
    /\ UNCHANGED <<interrupted, lastResult, told, died, flag, current, crashed,
                   finished, results>>

NoCommandLeft(p) ==
    /\ worker[p] = "pop"
    /\ commands = {}
    /\ worker' = Update(worker, p, "drained")
    /\ WorkerUnchanged
    /\ UNCHANGED <<interrupted, inHand, lastResult, told, died, shared>>

(* The process waits while two of its storages have not been fetched, then *)
(* says what it starts: the file it had not finished, if any, has crashed. *)
StartIndexing(p) ==
    /\ worker[p] = "wait"
    /\ p \notin told
    /\ Len(results[p]) < 2
    /\ worker' = Update(worker, p, "index")
    /\ crashed' = crashed \cup ({current[p]} \ {Nobody})
    /\ current' = Update(current, p, inHand[p])
    /\ WorkerUnchanged
    /\ UNCHANGED <<interrupted, inHand, lastResult, told, died, commands, flag,
                   finished, results>>

(* The loop that waits for room does not ask for the flag.                 *)
MutantGiveUp(p) == FALSE

(* The updater thread has seen the flag: the command is dropped.           *)
GiveUp(p) ==
    /\ worker[p] = "wait"
    /\ p \in told
    /\ worker' = Update(worker, p, "drained")
    /\ inHand' = Update(inHand, p, Nobody)
    /\ WorkerUnchanged
    /\ UNCHANGED <<interrupted, lastResult, told, died, shared>>

(* index() returns no storage when it was interrupted.                     *)
IndexFile(p) ==
    /\ worker[p] = "index"
    /\ results' = IF p \in told THEN results
                  ELSE Update(results, p, Append(results[p], inHand[p]))
    /\ worker' = Update(worker, p, "finish")
    /\ WorkerUnchanged
    /\ UNCHANGED <<interrupted, inHand, lastResult, told, died, commands, flag,
                   current, crashed, finished>>

(* erase(find(id), end()): the entry of this process and of those after it.*)
ClearCurrent(p) ==
    IF current[p] = Nobody THEN current
    ELSE [q \in Processes |-> IF q >= p THEN Nobody ELSE current[q]]

FinishIndexing(p) ==
    /\ worker[p] = "finish"
    /\ current' = ClearCurrent(p)
    /\ finished' = Append(finished, p)
    /\ worker' = Update(worker, p, "pop")
    /\ inHand' = Update(inHand, p, Nobody)
    /\ WorkerUnchanged
    /\ UNCHANGED <<interrupted, lastResult, told, died, commands, flag, crashed,
                   results>>

ProcessReturns(p) ==
    /\ worker[p] = "drained"
    /\ worker' = Update(worker, p, "check")
    /\ lastResult' = Update(lastResult, p, TRUE)
    /\ told' = told \ {p}
    /\ WorkerUnchanged
    /\ UNCHANGED <<interrupted, inHand, died, shared>>

Alive(p) == worker[p] \in {"pop", "wait", "index", "finish", "drained"}

Die(p) ==
    /\ Alive(p)
    /\ DieAnywhere \/ (worker[p] = "index" /\ inHand[p] \in Crashing)
    /\ worker' = Update(worker, p, "check")
    /\ lastResult' = Update(lastResult, p, FALSE)
    /\ told' = told \ {p}
    /\ inHand' = Update(inHand, p, Nobody)
    /\ died' = died \cup ({inHand[p]} \ {Nobody})
    /\ WorkerUnchanged
    /\ UNCHANGED <<interrupted, shared>>

(* The updater thread of a process, once a second.                         *)
SeeFlag(p) ==
    /\ Alive(p) /\ flag /\ p \notin told
    /\ told' = told \cup {p}
    /\ WorkerUnchanged
    /\ UNCHANGED <<interrupted, worker, inHand, lastResult, died, shared>>

Work(p) ==
    \/ MissingExecutable(p) \/ EnterLoop(p) \/ StartProcess(p) \/ EndThread(p)
    \/ PopCommand(p) \/ NoCommandLeft(p) \/ StartIndexing(p) \/ GiveUp(p)
    \/ IndexFile(p) \/ FinishIndexing(p) \/ ProcessReturns(p)

-----------------------------------------------------------------------------
(* TaskBuildIndex.                                                         *)

BuildUnchanged ==
    UNCHANGED <<provider, queueStarted, queueStopped, fill, merge, inject,
                interrupted, executable, inHand, lastResult, told, died, commands,
                mergeHand, injectHand, database, stop>>

BuildEnter ==
    /\ build = "waiting"
    /\ queueStarted
    /\ build' = "update"
    /\ flag' = FALSE
    /\ worker' = [p \in Processes |-> "start"]
    /\ threadsStarted' = TRUE
    /\ BuildUnchanged
    /\ UNCHANGED <<threadsStopped, flaggedInterrupted, sawStopped, current, crashed,
                   finished, results, storages>>

NoThreadRuns == \A p \in Processes : worker[p] = "ended"

BuildUpdate ==
    /\ build = "update"
    /\ sawStopped' = queueStopped
    /\ \/ /\ queueStopped /\ NoThreadRuns
          /\ build' = "join"
          /\ UNCHANGED flaggedInterrupted
       \/ /\ ~(queueStopped /\ NoThreadRuns) /\ interrupted
          /\ build' = "join"
          /\ flaggedInterrupted' = TRUE
       \/ /\ ~(queueStopped /\ NoThreadRuns) /\ ~interrupted
          /\ build' = IF Cardinality(storages) > MaxStorages THEN "update" ELSE "fetch"
          /\ UNCHANGED flaggedInterrupted
    /\ BuildUnchanged
    /\ UNCHANGED <<threadsStarted, threadsStopped, worker, flag, current, crashed,
                   finished, results, storages>>

Fetchable == finished # <<>> /\ results[Head(finished)] # <<>>

(* One round of the loop in fetchIntermediateStorages: after a storage,    *)
(* another round or, when 500 ms are over, none.                           *)
FetchStorage(rounds) ==
    /\ Fetchable
    /\ finished' = Tail(finished)
    /\ LET p == Head(finished)
       IN  /\ storages' = storages \cup {{Facts(Head(results[p]))}}
           /\ results' = Update(results, p, Tail(results[p]))
    /\ build' \in rounds

(* Nothing to fetch; an id without a storage is gone.                      *)
FetchNothing(next) ==
    /\ ~Fetchable
    /\ finished' = IF finished = <<>> THEN finished ELSE Tail(finished)
    /\ build' = next
    /\ UNCHANGED <<storages, results>>

BuildFetch ==
    /\ \/ build = "fetch" /\ (FetchStorage({"fetch", "update"}) \/ FetchNothing("update"))
       \/ /\ build = "drain" /\ Cardinality(storages) <= MaxStorages
          /\ FetchStorage({"draining", "drain"}) \/ FetchNothing("record")
       \/ build = "draining" /\ (FetchStorage({"draining", "drain"}) \/ FetchNothing("drain"))
    /\ BuildUnchanged
    /\ UNCHANGED <<threadsStarted, threadsStopped, flaggedInterrupted, sawStopped,
                   worker, flag, current, crashed>>

(* Mutant of AfterJoin: what the processes sent last is not fetched.       *)
MutantAfterJoin == "record"

(* Behind its threads the task fetches what is left, unless interrupted.   *)
AfterJoin == IF interrupted THEN "record" ELSE "drain"

BuildJoin ==
    /\ build = "join"
    /\ \A p \in Processes : worker[p] \in {"ended", "gone"}
    /\ build' = AfterJoin
    /\ BuildUnchanged
    /\ UNCHANGED <<threadsStarted, threadsStopped, flaggedInterrupted, sawStopped,
                   worker, flag, current, crashed, finished, results, storages>>

CrashedFiles == crashed \cup ({current[p] : p \in Processes} \ {Nobody})

BuildRecord ==
    /\ build = "record"
    /\ build' = "done"
    /\ storages' = IF CrashedFiles = {} THEN storages
                   ELSE storages \cup {{CrashError(f) : f \in CrashedFiles}}
    /\ threadsStopped' = TRUE
    /\ BuildUnchanged
    /\ UNCHANGED <<threadsStarted, flaggedInterrupted, sawStopped, worker, flag,
                   current, crashed, finished, results>>

Build == BuildEnter \/ BuildUpdate \/ BuildFetch \/ BuildJoin \/ BuildRecord

-----------------------------------------------------------------------------
(* TaskMergeStorages and TaskInjectStorage, each repeated by a decorator   *)
(* until it has nothing to do and the indexer threads have stopped.        *)

SupplyUnchanged ==
    UNCHANGED <<provider, blackboard, fill, build, sawStopped, interrupted, workers,
                shared, stop>>

(* What the selector does after its first child failed.                    *)
Ask == IF threadsStopped THEN "done" ELSE "check"

MergeStep(from, to) ==
    /\ merge = from
    /\ merge' = to
    /\ SupplyUnchanged
    /\ UNCHANGED <<inject, injectHand, database>>

(* As TakeToMerge, but the storage is not taken out of the list.           *)
MutantTakeToMerge ==
    /\ UNCHANGED storages
    /\ IF Cardinality(storages) > 1
       THEN \E s \in storages : mergeHand' = mergeHand \cup {s}
       ELSE UNCHANGED mergeHand

TakeToMerge ==
    \/ /\ Cardinality(storages) > 1
       /\ \E s \in storages :
           /\ mergeHand' = mergeHand \cup {s}
           /\ storages' = storages \ {s}
    \/ /\ Cardinality(storages) <= 1
       /\ UNCHANGED <<mergeHand, storages>>

PutMerged ==
    /\ storages' = storages \cup
                     IF Cardinality(mergeHand) = 2 THEN {UNION mergeHand} ELSE mergeHand
    /\ mergeHand' = {}

Merge ==
    \/ threadsStarted /\ MergeStep("waiting", "check") /\ UNCHANGED <<mergeHand, storages>>
    \/ /\ MergeStep("check", IF Cardinality(storages) > 2 THEN "first" ELSE "ask")
       /\ UNCHANGED <<mergeHand, storages>>
    \/ MergeStep("first", "second") /\ TakeToMerge
    \/ MergeStep("second", "put") /\ TakeToMerge
    \/ MergeStep("put", IF Cardinality(mergeHand) = 2 THEN "check" ELSE "ask") /\ PutMerged
    \/ MergeStep("ask", Ask) /\ UNCHANGED <<mergeHand, storages>>

InjectStep(from, to) ==
    /\ inject = from
    /\ inject' = to
    /\ SupplyUnchanged
    /\ UNCHANGED <<merge, mergeHand>>

TakeToInject ==
    \E s \in storages :
        /\ injectHand' = {s}
        /\ storages' = storages \ {s}

Inject ==
    \/ /\ threadsStarted /\ InjectStep("waiting", "check")
       /\ UNCHANGED <<injectHand, storages, database>>
    \/ InjectStep("check", "put") /\ TakeToInject /\ UNCHANGED database
    \/ /\ storages = {} /\ InjectStep("check", "ask")
       /\ UNCHANGED <<injectHand, storages, database>>
    \/ /\ InjectStep("put", "check")
       /\ database' = database \cup UNION injectHand
       /\ injectHand' = {}
       /\ UNCHANGED storages
    \/ InjectStep("ask", Ask) /\ UNCHANGED <<injectHand, storages, database>>

GroupDone == tasks = <<"done", "done", "done", "done">>

(* "injects the remaining intermediate storages", after the group.         *)
InjectRest ==
    /\ GroupDone
    /\ \E s \in storages :
        /\ storages' = storages \ {s}
        /\ database' = database \cup s
    /\ SupplyUnchanged
    /\ UNCHANGED <<merge, inject, mergeHand, injectHand>>

Ended == GroupDone /\ storages = {}

-----------------------------------------------------------------------------
(* Stop: the handlers of MessageIndexingInterrupted run one after the      *)
(* other on the thread of the message queue, in the order the tasks were   *)
(* made. TaskBuildIndex sets the flag in shared memory, then its own; both *)
(* TaskInjectStorage clear the storages.                                   *)

PressStop ==
    /\ ~Ended
    /\ message = 0 /\ presses < MaxInterrupts
    /\ message' = 1
    /\ presses' = presses + 1
    /\ UNCHANGED <<provider, blackboard, tasks, sawStopped, interrupted, workers,
                   shared, supply>>

Handler(from) ==
    /\ message = from
    /\ message' = (from + 1) % 6
    /\ UNCHANGED <<presses, blackboard, tasks, sawStopped, workers, current, crashed,
                   finished, results, mergeHand, injectHand, database>>

HandleInterrupt ==
    \/ /\ Handler(1)
       /\ provider' = {} /\ commands' = {}
       /\ UNCHANGED <<flag, interrupted, storages>>
    \/ /\ Handler(2)
       /\ flag' = TRUE
       /\ UNCHANGED <<provider, commands, interrupted, storages>>
    \/ /\ Handler(3)
       /\ interrupted' = TRUE
       /\ UNCHANGED <<provider, commands, flag, storages>>
    \/ /\ Handler(4) \/ Handler(5)
       /\ storages' = {}
       /\ UNCHANGED <<provider, commands, flag, interrupted>>

-----------------------------------------------------------------------------

Fill == FillEnter \/ FillRefill \/ FillDone

Next ==
    \/ Fill \/ Build \/ Merge \/ Inject \/ InjectRest
    \/ \E p \in Processes : Work(p) \/ Die(p) \/ SeeFlag(p)
    \/ PressStop \/ HandleInterrupt

PipelineSpec == Init /\ [][Next]_vars

(* Threads run, a process that does not die goes on, and the updater       *)
(* thread polls. Nobody presses Stop, and no process dies, of necessity.   *)
FairPipelineSpec ==
    /\ PipelineSpec
    /\ WF_vars(Fill) /\ WF_vars(Build) /\ WF_vars(Merge) /\ WF_vars(Inject)
    /\ WF_vars(InjectRest) /\ WF_vars(HandleInterrupt)
    /\ \A p \in Processes : WF_vars(Work(p)) /\ WF_vars(SeeFlag(p))

-----------------------------------------------------------------------------
(* Properties.                                                             *)

Places == Files \cup {Nobody}

(* Every variable has the values its code gives it.                        *)
PipelineTypeOK ==
    /\ provider \subseteq Files /\ commands \subseteq Files
    /\ crashed \subseteq Files /\ died \subseteq Files
    /\ {queueStarted, queueStopped, threadsStarted, threadsStopped, flaggedInterrupted,
        sawStopped, interrupted, executable, flag} \subseteq BOOLEAN
    /\ inHand \in [Processes -> Places] /\ current \in [Processes -> Places]
    /\ lastResult \in [Processes -> BOOLEAN]
    /\ told \subseteq Processes
    /\ finished \in Seq(Processes)
    /\ results \in [Processes -> Seq(Files)]
    /\ message \in 0 .. 5 /\ presses \in 0 .. MaxInterrupts

(* The storages of the program, wherever they are.                         *)
AllStorages == storages \cup mergeHand \cup injectHand \cup {database}

HasFacts(f, storage) == Facts(f) \in storage

QueuedBy(p) == {results[p][i] : i \in DOMAIN results[p]}

(* The file's command is queued, or a process holds it and has not sent    *)
(* its storage.                                                            *)
Ahead(f) ==
    \/ f \in provider \/ f \in commands
    \/ \E p \in Processes : inHand[p] = f /\ worker[p] \in {"wait", "index"}

Waiting(f) == \E p \in Processes : f \in QueuedBy(p)

Held(f) == \E s \in AllStorages : HasFacts(f, s)

(* A file is in at most one place: still to be indexed, in a process's     *)
(* queue of storages, or in exactly one storage of the program; and, while *)
(* nobody presses Stop, in at least one, unless its process died over it.  *)
(* Four tasks and the processes hand the storages on, and two of the tasks *)
(* merge and inject from the same list: nothing is lost or injected twice. *)
EachFileOnce ==
    \A f \in Files :
        /\ presses = 0 /\ f \notin died => Ahead(f) \/ Waiting(f) \/ Held(f)
        /\ ~(Ahead(f) /\ Waiting(f)) /\ ~(Ahead(f) /\ Held(f)) /\ ~(Waiting(f) /\ Held(f))
        /\ \A s, t \in AllStorages : HasFacts(f, s) /\ HasFacts(f, t) => s = t

(* The project fits into the queue of commands at once.                    *)
FitsTheQueue == Cardinality(Files) <= MaximumQueueSize

(* When the group has ended and nobody has pressed Stop, the database has  *)
(* the facts of every file whose process did not die over it, and tells of *)
(* a crash only for a file whose process did. The one way to lose a file   *)
(* is that its command stays in the queue, and that takes a project which  *)
(* does not fit into the queue at once: no storage is lost on its way      *)
(* through the processes, the four tasks and the end of the group.         *)
Delivered ==
    Ended /\ presses = 0 /\ executable =>
        \A f \in Files :
            /\ f \notin died =>
                   Facts(f) \in database \/ (f \in commands /\ ~FitsTheQueue)
            /\ CrashError(f) \in database => f \in died

(* No command stays in the queue. TLC refutes it: every process may have   *)
(* found the queue empty before the last refill, and end 200 ms behind it. *)
NoCommandStays == Ended /\ presses = 0 /\ executable => commands = {}

(* Every file over which a process died is told of as an error in the      *)
(* database ("The translation unit threw an exception during indexing").   *)
CrashesReported ==
    Ended /\ presses = 0 /\ executable => \A f \in died : CrashError(f) \in database

(* When facts were thrown away, the user is asked whether to use the new   *)
(* index or the old one: the "Interrupted Indexing Dialog" of the          *)
(* documentation, which the code shows if the blackboard has the flag.     *)
StopIsNoticed ==
    Ended /\ executable /\ ~flaggedInterrupted =>
        \A f \in Files \ died : Facts(f) \in database

(* The tasks end, with processes that die and a Stop at any moment; and    *)
(* without the executable, once Stop is pressed: until then the commands   *)
(* that do not fit into the queue keep the filling task waiting.           *)
IndexTaskEnds == executable \/ <>(presses > 0) => <>Ended

=============================================================================
