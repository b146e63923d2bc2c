-------------------------- MODULE IndexPipeline_proofs --------------------------
(***************************************************************************)
(* Proofs about IndexPipeline, for every number of files, processes,       *)
(* storages and interruptions: type correctness; that the facts of a file  *)
(* are never lost on their way nor injected twice; and that the database   *)
(* has them all in the end.                                                *)
(***************************************************************************)
EXTENDS IndexPipeline, FiniteSetTheorems, TLAPS

(* Where a process is, and what it then has in its hand.                   *)
WorkerStates ==
    {"off", "start", "check", "pop", "wait", "index", "finish", "drained", "ended", "gone"}

Busy(p) == worker[p] \in {"wait", "index", "finish"}

HandsFit ==
    /\ worker \in [Processes -> WorkerStates]
    /\ \A p \in Processes : inHand[p] \in Files <=> Busy(p)
    /\ build = "waiting" => \A p \in Processes : worker[p] = "off"

(* A task that is not in the middle of handing a storage on holds none.    *)
TaskHandsFit ==
    /\ merge \in {"waiting", "check", "first", "second", "put", "ask", "done"}
    /\ merge \notin {"second", "put"} => mergeHand = {}
    /\ inject \in {"waiting", "check", "put", "ask", "done"}
    /\ inject # "put" => injectHand = {}

(* Until Stop is pressed nobody knows of it.                               *)
NoStopYet == presses = 0 => message = 0 /\ ~flag /\ told = {}

(* The process has the command and has not sent the storage.               *)
Carries(p, f) == inHand[p] = f /\ worker[p] \in {"wait", "index"}

(* One of the storages has the facts of the file.                          *)
In(f, some) == \E s \in some : HasFacts(f, s)

(* A command is in one place, a storage once in the queues of results, and *)
(* of a file there are facts in one storage of one holder.                 *)
AheadOnce(f) ==
    /\ ~(f \in provider /\ f \in commands)
    /\ \A p \in Processes : Carries(p, f) => f \notin provider /\ f \notin commands
    /\ \A p, q \in Processes : Carries(p, f) /\ Carries(q, f) => p = q

WaitingOnce(f) ==
    \A p, q \in Processes : \A i \in DOMAIN results[p] : \A j \in DOMAIN results[q] :
        results[p][i] = f /\ results[q][j] = f => p = q /\ i = j

Single(f, some) == \A s, t \in some : HasFacts(f, s) /\ HasFacts(f, t) => s = t

HeldOnce(f) ==
    /\ Single(f, storages) /\ Single(f, mergeHand) /\ Single(f, injectHand)
    /\ In(f, storages) => ~In(f, mergeHand) /\ ~In(f, injectHand)
    /\ In(f, mergeHand) => ~In(f, injectHand)
    /\ HasFacts(f, database) => ~In(f, storages) /\ ~In(f, mergeHand) /\ ~In(f, injectHand)

Apart(f) ==
    /\ ~(Ahead(f) /\ Waiting(f)) /\ ~(Ahead(f) /\ Held(f)) /\ ~(Waiting(f) /\ Held(f))

Present(f) == presses = 0 /\ f \notin died => Ahead(f) \/ Waiting(f) \/ Held(f)

FileOnce(f) == AheadOnce(f) /\ WaitingOnce(f) /\ HeldOnce(f) /\ Apart(f) /\ Present(f)

ShapesInv == PipelineTypeOK /\ HandsFit /\ TaskHandsFit /\ NoStopYet

PlacesInv == ShapesInv /\ \A f \in Files : FileOnce(f)


-----------------------------------------------------------------------------
(* What every variable holds.                                              *)

PipelineFlags ==
    /\ queueStarted \in BOOLEAN /\ queueStopped \in BOOLEAN
    /\ threadsStarted \in BOOLEAN /\ threadsStopped \in BOOLEAN
    /\ flaggedInterrupted \in BOOLEAN /\ sawStopped \in BOOLEAN
    /\ interrupted \in BOOLEAN /\ executable \in BOOLEAN /\ flag \in BOOLEAN

PipelineShapes ==
    /\ provider \subseteq Files /\ commands \subseteq Files
    /\ crashed \subseteq Files /\ died \subseteq Files
    /\ inHand \in [Processes -> Places] /\ current \in [Processes -> Places]
    /\ lastResult \in [Processes -> BOOLEAN]
    /\ told \subseteq Processes
    /\ finished \in Seq(Processes)
    /\ results \in [Processes -> Seq(Files)]
    /\ message \in 0 .. 5 /\ presses \in 0 .. MaxInterrupts

LEMMA FlagsAndShapes == PipelineTypeOK <=> PipelineFlags /\ PipelineShapes
BY DEF PipelineTypeOK, PipelineFlags, PipelineShapes

LEMMA FlagsAndShapesNext == PipelineTypeOK' <=> PipelineFlags' /\ PipelineShapes'
BY DEF PipelineTypeOK, PipelineFlags, PipelineShapes

ShapesLaterInv ==
    PipelineFlags /\ PipelineShapes /\ HandsFit /\ TaskHandsFit /\ NoStopYet

LEMMA ShapesInit == Init => ShapesInv
<1>1. SUFFICES ASSUME Init PROVE ShapesLaterInv
  BY FlagsAndShapes DEF ShapesInv, ShapesLaterInv
<1>2. PipelineFlags
  BY <1>1, Zenon DEF Init, PipelineFlags
<1>3. PipelineShapes
  BY <1>1, PipelineAssumption DEF Init, PipelineShapes, Places
<1>4. HandsFit
  BY <1>1, PipelineAssumption DEF Init, HandsFit, WorkerStates, Busy
<1>5. TaskHandsFit /\ NoStopYet
  BY <1>1 DEF Init, TaskHandsFit, NoStopYet
<1>. QED
  BY <1>2, <1>3, <1>4, <1>5 DEF ShapesLaterInv

LEMMA ShapesFill ==
    ASSUME ShapesLaterInv, Fill
    PROVE  ShapesLaterInv'
<1>. USE DEF ShapesLaterInv, blackboard, tasks, workers, shared, supply, stop
<1>1. PipelineFlags'
  <2>1. UNCHANGED <<threadsStarted, threadsStopped, flaggedInterrupted, sawStopped,
                    interrupted, executable, flag>>
    BY DEF Fill, FillEnter, FillRefill, FillDone
  <2>2. queueStarted' = queueStarted \/ queueStarted' = TRUE
    BY Zenon DEF Fill, FillEnter, FillRefill, FillDone
  <2>3. queueStopped' = queueStopped \/ queueStopped' = TRUE
    BY Zenon DEF Fill, FillEnter, FillRefill, FillDone
  <2>. QED
    BY <2>1, <2>2, <2>3, Zenon DEF PipelineFlags
<1>2. PipelineShapes'
  BY DEF PipelineShapes, Fill, FillEnter, FillRefill, FillDone, FillCommandQueue
<1>3. HandsFit' /\ TaskHandsFit' /\ NoStopYet'
  BY DEF HandsFit, Busy, TaskHandsFit, NoStopYet, Fill, FillEnter, FillRefill, FillDone
<1>. QED
  BY <1>1, <1>2, <1>3

LEMMA WorkFlags ==
    ASSUME PipelineFlags, NEW p \in Processes, Work(p) \/ Die(p) \/ SeeFlag(p)
    PROVE  PipelineFlags'
<1>1. UNCHANGED <<queueStarted, queueStopped, threadsStarted, threadsStopped,
                  flaggedInterrupted, sawStopped, executable, flag>>
  BY DEF Work, Die, SeeFlag, MissingExecutable, EnterLoop, StartProcess, EndThread,
     PopCommand, NoCommandLeft, StartIndexing, GiveUp, IndexFile, FinishIndexing,
     ProcessReturns, WorkerUnchanged, blackboard, shared
<1>2. interrupted' = interrupted \/ interrupted' = TRUE
  BY Zenon DEF Work, Die, SeeFlag, MissingExecutable, EnterLoop, StartProcess, EndThread,
     PopCommand, NoCommandLeft, StartIndexing, GiveUp, IndexFile, FinishIndexing,
     ProcessReturns
<1>. QED
  BY <1>1, <1>2, Zenon DEF PipelineFlags

LEMMA WorkShapes ==
    ASSUME ShapesLaterInv, NEW p \in Processes, Work(p) \/ Die(p) \/ SeeFlag(p)
    PROVE  PipelineShapes' /\ HandsFit' /\ TaskHandsFit' /\ NoStopYet'
<1>. USE PipelineAssumption
    DEF ShapesLaterInv, PipelineShapes, HandsFit, TaskHandsFit, NoStopYet, Busy,
        WorkerStates, Places, Update, WorkerUnchanged, blackboard, tasks, shared,
        supply, stop
<1>1. CASE MissingExecutable(p)
  BY <1>1 DEF MissingExecutable
<1>2. CASE EnterLoop(p)
  BY <1>2 DEF EnterLoop
<1>3. CASE StartProcess(p)
  BY <1>3 DEF StartProcess
<1>4. CASE EndThread(p)
  BY <1>4 DEF EndThread
<1>5. CASE PopCommand(p)
  BY <1>5 DEF PopCommand
<1>6. CASE NoCommandLeft(p)
  BY <1>6 DEF NoCommandLeft
<1>7. CASE StartIndexing(p)
  <2>1. current[p] \in Places /\ inHand[p] \in Files
    BY <1>7 DEF StartIndexing
  <2>. QED
    BY <1>7, <2>1 DEF StartIndexing
<1>8. CASE GiveUp(p)
  BY <1>8 DEF GiveUp
<1>9. CASE IndexFile(p)
  <2>1. inHand[p] \in Files /\ Append(results[p], inHand[p]) \in Seq(Files)
    BY <1>9 DEF IndexFile
  <2>. QED
    BY <1>9, <2>1 DEF IndexFile
<1>10. CASE FinishIndexing(p)
  <2>1. current' \in [Processes -> Places]
    BY <1>10 DEF FinishIndexing, ClearCurrent
  <2>2. finished' \in Seq(Processes)
    BY <1>10 DEF FinishIndexing
  <2>. QED
    BY <1>10, <2>1, <2>2 DEF FinishIndexing
<1>11. CASE ProcessReturns(p)
  BY <1>11 DEF ProcessReturns
<1>12. CASE Die(p)
  <2>1. worker[p] # "off" /\ inHand[p] \in Places
    BY <1>12 DEF Die, Alive
  <2>. QED
    BY <1>12, <2>1 DEF Die
<1>13. CASE SeeFlag(p)
  BY <1>13 DEF SeeFlag, Alive
<1>. QED
  BY <1>1, <1>2, <1>3, <1>4, <1>5, <1>6, <1>7, <1>8, <1>9, <1>10, <1>11, <1>12, <1>13
  DEF Work

LEMMA ShapesBuild ==
    ASSUME ShapesLaterInv, Build
    PROVE  ShapesLaterInv'
<1>. USE DEF ShapesLaterInv
<1>1. PipelineFlags'
  <2>. USE DEF PipelineFlags, BuildUnchanged
  <2>1. CASE BuildEnter
    BY <2>1, Zenon DEF BuildEnter
  <2>2. CASE BuildUpdate
    BY <2>2, Zenon DEF BuildUpdate
  <2>3. CASE BuildFetch
    BY <2>3, Zenon DEF BuildFetch
  <2>4. CASE BuildJoin
    BY <2>4, Zenon DEF BuildJoin
  <2>5. CASE BuildRecord
    BY <2>5, Zenon DEF BuildRecord
  <2>. QED
    BY <2>1, <2>2, <2>3, <2>4, <2>5, Zenon DEF Build
<1>2. PipelineShapes'
  <2>. USE DEF PipelineShapes, BuildUnchanged, stop
  <2>1. CASE BuildEnter \/ BuildUpdate \/ BuildJoin \/ BuildRecord
    BY <2>1 DEF BuildEnter, BuildUpdate, BuildJoin, BuildRecord
  <2>2. CASE BuildFetch
    <3>1. UNCHANGED <<provider, commands, crashed, died, inHand, current, lastResult,
                      told, message, presses>>
      BY <2>2 DEF BuildFetch
    <3>2. finished' \in Seq(Processes) /\ results' \in [Processes -> Seq(Files)]
      <4>1. PICK rounds, next : FetchStorage(rounds) \/ FetchNothing(next)
        BY <2>2 DEF BuildFetch
      <4>2. CASE FetchNothing(next)
        <5>1. finished # <<>> => Tail(finished) \in Seq(Processes)
          OBVIOUS
        <5>. QED
          BY <4>2, <5>1 DEF FetchNothing
      <4>3. CASE FetchStorage(rounds)
        <5>1. finished # <<>> /\ results[Head(finished)] # <<>>
          BY <4>3 DEF FetchStorage, Fetchable
        <5>2. Head(finished) \in Processes /\ Tail(finished) \in Seq(Processes)
          BY <5>1
        <5>3. Tail(results[Head(finished)]) \in Seq(Files)
          BY <5>1, <5>2
        <5>. QED
          BY <4>3, <5>2, <5>3 DEF FetchStorage, Update
      <4>. QED
        BY <4>1, <4>2, <4>3
    <3>. QED
      BY <3>1, <3>2
  <2>. QED
    BY <2>1, <2>2 DEF Build
<1>3. HandsFit'
  <2>. USE DEF HandsFit, Busy, WorkerStates, BuildUnchanged
  <2>1. CASE BuildEnter
    BY <2>1 DEF BuildEnter
  <2>2. CASE BuildUpdate \/ BuildJoin \/ BuildRecord
    BY <2>2 DEF BuildUpdate, BuildJoin, AfterJoin, BuildRecord
  <2>3. CASE BuildFetch
    BY <2>3 DEF BuildFetch, FetchStorage, FetchNothing
  <2>. QED
    BY <2>1, <2>2, <2>3 DEF Build
<1>4. TaskHandsFit' /\ NoStopYet'
  <2>1. UNCHANGED <<merge, inject, mergeHand, injectHand, message, presses, told>>
    BY DEF Build, BuildEnter, BuildUpdate, BuildFetch, BuildJoin, BuildRecord,
       BuildUnchanged, stop
  <2>2. flag' = flag \/ ~flag'
    BY DEF Build, BuildEnter, BuildUpdate, BuildFetch, BuildJoin, BuildRecord
  <2>. QED
    BY <2>1, <2>2 DEF TaskHandsFit, NoStopYet
<1>. QED
  BY <1>1, <1>2, <1>3, <1>4

LEMMA ShapesSupply ==
    ASSUME ShapesLaterInv, Merge \/ Inject \/ InjectRest
    PROVE  ShapesLaterInv'
<1>. USE DEF ShapesLaterInv
<1>1. UNCHANGED <<provider, blackboard, fill, build, sawStopped, interrupted, workers,
                  shared, stop>>
  BY DEF Merge, MergeStep, Inject, InjectStep, InjectRest, SupplyUnchanged
<1>2. PipelineFlags'
  BY <1>1, Zenon DEF PipelineFlags, blackboard, workers, shared
<1>3. PipelineShapes' /\ HandsFit' /\ NoStopYet'
  BY <1>1 DEF PipelineShapes, HandsFit, NoStopYet, Busy, workers, shared, stop
<1>4. TaskHandsFit'
  <2>. USE DEF TaskHandsFit
  <2>1. CASE Merge
    BY <2>1 DEF Merge, MergeStep, TakeToMerge, PutMerged, Ask
  <2>2. CASE Inject
    BY <2>2 DEF Inject, InjectStep, TakeToInject, Ask
  <2>3. CASE InjectRest
    BY <2>3 DEF InjectRest
  <2>. QED
    BY <2>1, <2>2, <2>3
<1>. QED
  BY <1>2, <1>3, <1>4

LEMMA ShapesStop ==
    ASSUME ShapesLaterInv, PressStop \/ HandleInterrupt
    PROVE  ShapesLaterInv'
<1>. USE DEF ShapesLaterInv, blackboard, tasks, workers, shared, supply
<1>1. PipelineFlags'
  <2>1. UNCHANGED <<queueStarted, queueStopped, threadsStarted, threadsStopped,
                    flaggedInterrupted, sawStopped, executable>>
    BY DEF PressStop, HandleInterrupt, Handler
  <2>2. interrupted' = interrupted \/ interrupted' = TRUE
    BY Zenon DEF PressStop, HandleInterrupt
  <2>3. flag' = flag \/ flag' = TRUE
    BY Zenon DEF PressStop, HandleInterrupt
  <2>. QED
    BY <2>1, <2>2, <2>3, Zenon DEF PipelineFlags
<1>2. PipelineShapes'
  BY PipelineAssumption
  DEF PipelineShapes, PressStop, HandleInterrupt, Handler
<1>3. HandsFit' /\ TaskHandsFit'
  BY DEF HandsFit, Busy, TaskHandsFit, PressStop, HandleInterrupt, Handler
<1>4. NoStopYet'
  BY DEF NoStopYet, PipelineShapes, PressStop, HandleInterrupt, Handler
<1>. QED
  BY <1>1, <1>2, <1>3, <1>4

LEMMA ShapesNext == ShapesInv /\ [Next]_vars => ShapesInv'
<1>1. SUFFICES ASSUME ShapesLaterInv, [Next]_vars PROVE ShapesLaterInv'
  BY FlagsAndShapes, FlagsAndShapesNext DEF ShapesInv, ShapesLaterInv
<1>2. CASE Fill
  BY <1>1, <1>2, ShapesFill
<1>3. CASE Build
  BY <1>1, <1>3, ShapesBuild
<1>4. CASE Merge \/ Inject \/ InjectRest
  BY <1>1, <1>4, ShapesSupply
<1>5. CASE \E p \in Processes : Work(p) \/ Die(p) \/ SeeFlag(p)
  <2>1. PipelineFlags'
    BY <1>1, <1>5, WorkFlags, Zenon DEF ShapesLaterInv
  <2>2. PipelineShapes' /\ HandsFit' /\ TaskHandsFit' /\ NoStopYet'
    BY <1>1, <1>5, WorkShapes
  <2>. QED
    BY <2>1, <2>2 DEF ShapesLaterInv
<1>6. CASE PressStop \/ HandleInterrupt
  BY <1>1, <1>6, ShapesStop
<1>7. CASE UNCHANGED vars
  <2>. USE <1>1, <1>7
    DEF vars, ShapesLaterInv, blackboard, tasks, workers, shared, supply, stop
  <2>1. PipelineFlags'
    BY Zenon DEF PipelineFlags
  <2>2. PipelineShapes' /\ HandsFit' /\ TaskHandsFit' /\ NoStopYet'
    BY DEF PipelineShapes, HandsFit, Busy, TaskHandsFit, NoStopYet
  <2>. QED
    BY <2>1, <2>2
<1>. QED
  BY <1>1, <1>2, <1>3, <1>4, <1>5, <1>6, <1>7 DEF Next

(* Every variable of the pipeline keeps the values the code gives it.      *)
THEOREM PipelineTypeCorrect == PipelineSpec => []PipelineTypeOK
<1>1. PipelineSpec => []ShapesInv
  BY ShapesInit, ShapesNext, PTL DEF PipelineSpec
<1>2. ShapesInv => PipelineTypeOK
  BY DEF ShapesInv
<1>. QED
  BY <1>1, <1>2, PTL

-----------------------------------------------------------------------------
(* Where the facts of one file are. A step either leaves them where they   *)
(* are, throws them away, or moves them from one place to one other.       *)

LEMMA AheadIs ==
    ASSUME NEW f \in Files
    PROVE  /\ Ahead(f) <=> f \in provider \/ f \in commands \/ \E p \in Processes : Carries(p, f)
           /\ Ahead(f)' <=> \/ f \in provider' \/ f \in commands'
                            \/ \E p \in Processes : Carries(p, f)'
BY DEF Ahead, Carries

LEMMA HeldIs ==
    ASSUME NEW f \in Files
    PROVE  /\ Held(f) <=> \/ In(f, storages) \/ In(f, mergeHand) \/ In(f, injectHand)
                          \/ HasFacts(f, database)
           /\ Held(f)' <=> \/ In(f, storages') \/ In(f, mergeHand') \/ In(f, injectHand')
                           \/ HasFacts(f, database')
BY DEF Held, AllStorages, In, HasFacts

LEMMA WaitingIs ==
    ASSUME NEW f \in Files
    PROVE  /\ Waiting(f) <=> \E p \in Processes : \E i \in DOMAIN results[p] : results[p][i] = f
           /\ Waiting(f)' <=>
                  \E p \in Processes : \E i \in DOMAIN results'[p] : results'[p][i] = f
BY DEF Waiting, QueuedBy

(* Throwing away cannot break that a file is in one place.                 *)
LEMMA ThrownAway ==
    ASSUME NEW f \in Files, FileOnce(f),
           f \in provider' => f \in provider,
           f \in commands' => f \in commands,
           \A p \in Processes : Carries(p, f)' => Carries(p, f),
           storages' \subseteq storages,
           UNCHANGED <<results, mergeHand, injectHand, database>>,
           Present(f)'
    PROVE  FileOnce(f)'
<1>1. Ahead(f)' => Ahead(f)
  BY AheadIs
<1>2. Waiting(f)' <=> Waiting(f)
  BY WaitingIs
<1>3. In(f, storages') => In(f, storages)
  BY DEF In
<1>4. Held(f)' => Held(f)
  BY <1>3, HeldIs
<1>5. AheadOnce(f)'
  BY DEF FileOnce, AheadOnce
<1>6. WaitingOnce(f)'
  BY DEF FileOnce, WaitingOnce
<1>7. HeldOnce(f)'
  <2>1. Single(f, storages')
    BY DEF FileOnce, HeldOnce, Single
  <2>. QED
    BY <2>1, <1>3 DEF FileOnce, HeldOnce
<1>8. Apart(f)'
  BY <1>1, <1>2, <1>4 DEF FileOnce, Apart
<1>. QED
  BY <1>5, <1>6, <1>7, <1>8 DEF FileOnce

LEMMA LeftAlone ==
    ASSUME NEW f \in Files, FileOnce(f),
           \A p \in Processes : Carries(p, f)' <=> Carries(p, f),
           UNCHANGED <<provider, commands, results, supply, presses>>,
           died \subseteq died'
    PROVE  FileOnce(f)'
<1>1. Ahead(f)' <=> Ahead(f)
  BY AheadIs
<1>2. Waiting(f)' <=> Waiting(f)
  BY WaitingIs
<1>3. Held(f)' <=> Held(f)
  BY HeldIs DEF supply
<1>4. Present(f)'
  BY <1>1, <1>2, <1>3 DEF FileOnce, Present
<1>. QED
  BY <1>4, ThrownAway DEF supply

LEMMA FillMoves ==
    ASSUME NEW f \in Files, FileOnce(f), FillCommandQueue,
           UNCHANGED <<worker, inHand, results, supply, presses, died>>
    PROVE  FileOnce(f)'
<1>0. \A p \in Processes : Carries(p, f)' <=> Carries(p, f)
  BY DEF Carries
<1>1. Ahead(f)' <=> Ahead(f)
  BY <1>0, AheadIs DEF FillCommandQueue
<1>2. Waiting(f)' <=> Waiting(f)
  BY WaitingIs
<1>3. Held(f)' <=> Held(f)
  BY HeldIs DEF supply
<1>4. AheadOnce(f)'
  BY <1>0 DEF FileOnce, AheadOnce, FillCommandQueue
<1>5. WaitingOnce(f)' /\ HeldOnce(f)'
  BY DEF FileOnce, WaitingOnce, HeldOnce, supply
<1>. QED
  BY <1>1, <1>2, <1>3, <1>4, <1>5 DEF FileOnce, Apart, Present

LEMMA PopMoves ==
    ASSUME NEW f \in Files, FileOnce(f), ShapesInv, NEW p \in Processes, PopCommand(p)
    PROVE  FileOnce(f)'
<1>. USE DEF WorkerUnchanged, supply, stop
<1>1. PICK g \in commands : inHand' = Update(inHand, p, g) /\ commands' = commands \ {g}
  BY DEF PopCommand
<1>2. UNCHANGED <<provider, results, storages, mergeHand, injectHand, database, presses,
                  died>>
  BY DEF PopCommand
<1>3. worker[p] = "pop" /\ worker' = Update(worker, p, "wait")
  BY DEF PopCommand
<1>4. \A q \in Processes : Carries(q, f)' <=> IF q = p THEN f = g ELSE Carries(q, f)
  BY <1>1, <1>3 DEF Carries, Update, ShapesInv, HandsFit, PipelineTypeOK
<1>5. ~Carries(p, f)
  BY <1>3 DEF Carries
<1>6. Ahead(f)' <=> Ahead(f)
  BY <1>1, <1>2, <1>4, <1>5, AheadIs
<1>7. Waiting(f)' <=> Waiting(f)
  BY <1>2, WaitingIs
<1>8. Held(f)' <=> Held(f)
  BY <1>2, HeldIs
<1>9. AheadOnce(f)'
  BY <1>1, <1>2, <1>4, <1>5 DEF FileOnce, AheadOnce
<1>10. WaitingOnce(f)' /\ HeldOnce(f)'
  BY <1>2 DEF FileOnce, WaitingOnce, HeldOnce
<1>. QED
  BY <1>2, <1>6, <1>7, <1>8, <1>9, <1>10 DEF FileOnce, Apart, Present

LEMMA AppendFacts ==
    ASSUME NEW S, NEW seq \in Seq(S), NEW e \in S
    PROVE  LET n == Len(seq) + 1 IN
           /\ DOMAIN seq = 1 .. (n - 1) /\ n \in Nat \ {0}
           /\ DOMAIN Append(seq, e) = 1 .. n
           /\ Append(seq, e)[n] = e
           /\ \A i \in 1 .. (n - 1) : Append(seq, e)[i] = seq[i]
OBVIOUS

LEMMA IndexMoves ==
    ASSUME NEW f \in Files, FileOnce(f), ShapesInv, NEW p \in Processes, IndexFile(p)
    PROVE  FileOnce(f)'
<1>. USE DEF WorkerUnchanged, supply, stop
<1>1. worker[p] = "index" /\ worker' = Update(worker, p, "finish")
  BY DEF IndexFile
<1>2. UNCHANGED <<provider, commands, inHand, storages, mergeHand, injectHand, database,
                  presses, died>>
  BY DEF IndexFile, shared
<1>3. \A q \in Processes : Carries(q, f)' <=> q # p /\ Carries(q, f)
  BY <1>1, <1>2 DEF Carries, Update, HandsFit, ShapesInv
<1>4. Ahead(f)' => Ahead(f)
  BY <1>2, <1>3, AheadIs
<1>5. CASE p \in told
  <2>1. results' = results /\ presses' # 0
    BY <1>2, <1>5 DEF IndexFile, ShapesInv, NoStopYet
  <2>2. Present(f)'
    BY <2>1 DEF Present
  <2>. QED
    BY <1>2, <1>3, <2>1, <2>2, ThrownAway
<1>6. CASE p \notin told
  <2>. DEFINE n == Len(results[p]) + 1
  <2>1. results \in [Processes -> Seq(Files)] /\ inHand[p] \in Files
    BY <1>1 DEF ShapesInv, PipelineTypeOK, HandsFit, Busy
  <2>2. \A q \in Processes : results'[q] =
            IF q = p THEN Append(results[p], inHand[p]) ELSE results[q]
    BY <1>6, <2>1 DEF IndexFile, Update
  <2>3. /\ DOMAIN results[p] = 1 .. (n - 1) /\ n \in Nat \ {0}
        /\ DOMAIN results'[p] = 1 .. n
        /\ results'[p][n] = inHand[p]
        /\ \A i \in 1 .. (n - 1) : results'[p][i] = results[p][i]
    <3>1. results'[p] = Append(results[p], inHand[p])
      BY <2>2
    <3>2. results[p] \in Seq(Files)
      BY <2>1
    <3>. QED
      BY <2>1, <3>1, <3>2, AppendFacts
  <2>. HIDE DEF n
  <2>4. CASE inHand[p] # f
    <3>1. \A q \in Processes : Carries(q, f)' <=> Carries(q, f)
      BY <1>3, <2>4 DEF Carries
    <3>2. \A q \in Processes : \A i \in DOMAIN results'[q] :
              results'[q][i] = f => i \in DOMAIN results[q] /\ results[q][i] = f
      BY <2>2, <2>3, <2>4
    <3>3. \A q \in Processes : \A i \in DOMAIN results[q] :
              i \in DOMAIN results'[q] /\ results'[q][i] = results[q][i]
      BY <2>2, <2>3
    <3>4. Waiting(f)' <=> Waiting(f)
      BY <3>2, <3>3, WaitingIs
    <3>5. Ahead(f)' <=> Ahead(f)
      BY <1>2, <3>1, AheadIs
    <3>6. Held(f)' <=> Held(f)
      BY <1>2, HeldIs
    <3>7. AheadOnce(f)'
      BY <1>2, <3>1 DEF FileOnce, AheadOnce
    <3>8. WaitingOnce(f)'
      BY <3>2 DEF FileOnce, WaitingOnce
    <3>9. HeldOnce(f)'
      BY <1>2 DEF FileOnce, HeldOnce
    <3>. QED
      BY <1>2, <3>4, <3>5, <3>6, <3>7, <3>8, <3>9 DEF FileOnce, Apart, Present
  <2>5. CASE inHand[p] = f
    <3>1. Carries(p, f)
      BY <1>1, <2>5 DEF Carries
    <3>2. Ahead(f) /\ ~Waiting(f) /\ ~Held(f)
      BY <3>1, AheadIs DEF FileOnce, Apart
    <3>3. ~Ahead(f)'
      BY <1>2, <1>3, <3>1, AheadIs DEF FileOnce, AheadOnce
    <3>4. \A q \in Processes : \A i \in DOMAIN results'[q] :
              results'[q][i] = f => q = p /\ i = n
      <4>1. \A q \in Processes : \A i \in DOMAIN results[q] : results[q][i] # f
        BY <3>2, WaitingIs
      <4>2. \A q \in Processes \ {p} : results'[q] = results[q]
        BY <2>2
      <4>3. \A i \in DOMAIN results'[p] : results'[p][i] = f => i = n
        BY <2>3, <4>1
      <4>. QED
        BY <4>1, <4>2, <4>3
    <3>5. Waiting(f)'
      BY <2>3, <2>5, WaitingIs
    <3>6. ~Held(f)'
      BY <1>2, <3>2, HeldIs
    <3>7. AheadOnce(f)' /\ HeldOnce(f)'
      BY <1>2, <1>3 DEF FileOnce, AheadOnce, HeldOnce
    <3>8. WaitingOnce(f)'
      BY <3>4 DEF WaitingOnce
    <3>. QED
      BY <3>3, <3>5, <3>6, <3>7, <3>8 DEF FileOnce, Apart, Present
  <2>. QED
    BY <2>4, <2>5
<1>. QED
  BY <1>5, <1>6

LEMMA TailFacts ==
    ASSUME NEW S, NEW seq \in Seq(S), seq # <<>>
    PROVE  LET n == Len(seq) IN
           /\ DOMAIN seq = 1 .. n /\ n \in Nat \ {0}
           /\ Head(seq) = seq[1]
           /\ Tail(seq) \in Seq(S)
           /\ Len(Tail(seq)) = n - 1
           /\ DOMAIN Tail(seq) = 1 .. (n - 1)
           /\ \A i \in 1 .. (n - 1) : Tail(seq)[i] = seq[i + 1]
OBVIOUS

LEMMA FactsDiffer ==
    ASSUME NEW f, NEW g
    PROVE  /\ Facts(f) = Facts(g) => f = g
           /\ Facts(f) # CrashError(g)
BY DEF Facts, CrashError

LEMMA FetchMoves ==
    ASSUME NEW f \in Files, FileOnce(f), ShapesInv, NEW rounds, FetchStorage(rounds),
           UNCHANGED <<provider, commands, worker, inHand, mergeHand, injectHand, database,
                       presses, died>>
    PROVE  FileOnce(f)'
<1>. DEFINE p == Head(finished)
            g == Head(results[p])
<1>1. finished # <<>> /\ results[p] # <<>>
  BY DEF FetchStorage, Fetchable
<1>2. p \in Processes
  BY <1>1 DEF ShapesInv, PipelineTypeOK
<1>3. results \in [Processes -> Seq(Files)]
  BY DEF ShapesInv, PipelineTypeOK
<1>4. storages' = storages \cup {{Facts(g)}}
  BY DEF FetchStorage
<1>5. \A q \in Processes : results'[q] = IF q = p THEN Tail(results[p]) ELSE results[q]
  BY <1>2, <1>3 DEF FetchStorage, Update
<1>. HIDE DEF p
<1>6. results[p] \in Seq(Files)
  BY <1>2, <1>3
<1>. DEFINE n == Len(results[p])
<1>7. /\ DOMAIN results[p] = 1 .. n /\ n \in Nat \ {0} /\ g = results[p][1]
      /\ DOMAIN results'[p] = 1 .. (n - 1)
      /\ \A i \in 1 .. (n - 1) : results'[p][i] = results[p][i + 1]
  BY <1>1, <1>2, <1>5, <1>6, TailFacts
<1>. HIDE DEF n, g
<1>8. \A q \in Processes : Carries(q, f)' <=> Carries(q, f)
  BY DEF Carries
<1>9. Ahead(f)' <=> Ahead(f)
  BY <1>8, AheadIs
<1>10. AheadOnce(f)'
  BY <1>8 DEF FileOnce, AheadOnce
<1>11. WaitingOnce(f)'
  <2>. SUFFICES ASSUME NEW q \in Processes, NEW r \in Processes,
                       NEW i \in DOMAIN results'[q], NEW j \in DOMAIN results'[r],
                       results'[q][i] = f, results'[r][j] = f
                PROVE  q = r /\ i = j
    BY DEF WaitingOnce
  <2>. DEFINE Old(s, k) == IF s = p THEN k + 1 ELSE k
  <2>1. Old(q, i) \in DOMAIN results[q] /\ results[q][Old(q, i)] = f
    BY <1>5, <1>7
  <2>2. Old(r, j) \in DOMAIN results[r] /\ results[r][Old(r, j)] = f
    BY <1>5, <1>7
  <2>. HIDE DEF Old
  <2>3. q = r /\ Old(q, i) = Old(r, j)
    BY <2>1, <2>2 DEF FileOnce, WaitingOnce
  <2>4. q = r
    BY <2>3
  <2>5. i = j
    <3>1. CASE q = p
      BY <1>5, <1>7, <2>3, <3>1 DEF Old
    <3>2. CASE q # p
      BY <2>3, <3>2 DEF Old
    <3>. QED
      BY <3>1, <3>2
  <2>. QED
    BY <2>4, <2>5
<1>12. \A h \in {f} : HasFacts(h, {Facts(g)}) <=> h = g
  BY FactsDiffer DEF HasFacts
<1>13. CASE f # g
  <2>1. In(f, storages') <=> In(f, storages)
    BY <1>4, <1>12, <1>13 DEF In
  <2>2. Single(f, storages')
    BY <1>4, <1>12, <1>13 DEF FileOnce, HeldOnce, Single
  <2>3. HeldOnce(f)'
    BY <2>1, <2>2 DEF FileOnce, HeldOnce
  <2>4. Held(f)' <=> Held(f)
    BY <2>1, HeldIs
  <2>5. Waiting(f)' => Waiting(f)
    <3>1. ASSUME NEW q \in Processes, NEW i \in DOMAIN results'[q], results'[q][i] = f
          PROVE  \E k \in DOMAIN results[q] : results[q][k] = f
      <4>1. CASE q = p
        <5>1. i + 1 \in DOMAIN results[p] /\ results[p][i + 1] = f
          BY <1>7, <3>1, <4>1
        <5>. QED
          BY <4>1, <5>1
      <4>2. CASE q # p
        BY <1>5, <3>1, <4>2
      <4>. QED
        BY <4>1, <4>2
    <3>. QED
      BY <3>1, WaitingIs
  <2>6. Waiting(f) => Waiting(f)'
    <3>1. ASSUME NEW q \in Processes, NEW i \in DOMAIN results[q], results[q][i] = f
          PROVE  \E k \in DOMAIN results'[q] : results'[q][k] = f
      <4>1. CASE q # p
        BY <1>5, <3>1, <4>1
      <4>2. CASE q = p
        <5>1. i # 1 /\ i \in 1 .. n
          BY <1>7, <1>13, <3>1, <4>2
        <5>2. i - 1 \in 1 .. (n - 1) /\ (i - 1) + 1 = i
          BY <1>7, <5>1
        <5>. QED
          BY <1>7, <3>1, <4>2, <5>2
      <4>. QED
        BY <4>1, <4>2
    <3>. QED
      BY <3>1, WaitingIs
  <2>. QED
    BY <1>9, <1>10, <1>11, <2>3, <2>4, <2>5, <2>6 DEF FileOnce, Apart, Present
<1>14. CASE f = g
  <2>1. 1 \in DOMAIN results[p] /\ results[p][1] = f
    BY <1>7, <1>14
  <2>2. Waiting(f) /\ ~Ahead(f) /\ ~Held(f)
    BY <1>2, <2>1, WaitingIs DEF FileOnce, Apart
  <2>3. ~Waiting(f)'
    <3>1. ASSUME NEW q \in Processes, NEW i \in DOMAIN results'[q], results'[q][i] = f
          PROVE  FALSE
      <4>1. CASE q = p
        <5>1. i + 1 \in DOMAIN results[p] /\ results[p][i + 1] = f /\ i + 1 # 1
          BY <1>7, <3>1, <4>1
        <5>. QED
          BY <1>2, <2>1, <5>1 DEF FileOnce, WaitingOnce
      <4>2. CASE q # p
        BY <1>2, <1>5, <2>1, <3>1, <4>2 DEF FileOnce, WaitingOnce
      <4>. QED
        BY <4>1, <4>2
    <3>. QED
      BY <3>1, WaitingIs
  <2>4. ~In(f, storages) /\ ~In(f, mergeHand) /\ ~In(f, injectHand) /\ ~HasFacts(f, database)
    BY <2>2, HeldIs
  <2>5. Single(f, storages') /\ In(f, storages')
    BY <1>4, <1>12, <1>14, <2>4 DEF In, Single
  <2>6. HeldOnce(f)'
    BY <2>4, <2>5 DEF FileOnce, HeldOnce
  <2>7. Held(f)'
    BY <2>5, HeldIs
  <2>. QED
    BY <1>9, <1>10, <1>11, <2>2, <2>3, <2>6, <2>7 DEF FileOnce, Apart, Present
<1>. QED
  BY <1>13, <1>14

(* Storages that go from hand to hand.                                     *)
LEMMA HandedOn ==
    ASSUME NEW f \in Files, FileOnce(f),
           UNCHANGED <<provider, commands, worker, inHand, results, presses, died>>,
           HeldOnce(f)', Held(f)' <=> Held(f)
    PROVE  FileOnce(f)'
<1>1. \A p \in Processes : Carries(p, f)' <=> Carries(p, f)
  BY DEF Carries
<1>2. Ahead(f)' <=> Ahead(f)
  BY <1>1, AheadIs
<1>3. Waiting(f)' <=> Waiting(f)
  BY WaitingIs
<1>4. AheadOnce(f)' /\ WaitingOnce(f)'
  BY <1>1 DEF FileOnce, AheadOnce, WaitingOnce
<1>. QED
  BY <1>2, <1>3, <1>4 DEF FileOnce, Apart, Present

LEMMA RecordMoves ==
    ASSUME NEW f \in Files, FileOnce(f), BuildRecord
    PROVE  FileOnce(f)'
<1>1. UNCHANGED <<provider, commands, worker, inHand, results, presses, died, mergeHand,
                  injectHand, database>>
  BY DEF BuildRecord, BuildUnchanged, stop
<1>2. ~HasFacts(f, {CrashError(g) : g \in CrashedFiles})
  BY FactsDiffer DEF HasFacts
<1>3. \A s \in storages' : HasFacts(f, s) => s \in storages
  BY <1>2 DEF BuildRecord
<1>4. storages \subseteq storages'
  BY DEF BuildRecord
<1>5. In(f, storages') <=> In(f, storages)
  BY <1>3, <1>4 DEF In
<1>6. HeldOnce(f)'
  BY <1>1, <1>3, <1>5 DEF FileOnce, HeldOnce, Single
<1>7. Held(f)' <=> Held(f)
  BY <1>1, <1>5, HeldIs
<1>. QED
  BY <1>1, <1>6, <1>7, HandedOn

(* A storage taken out of the list holds no file that another one holds.   *)
LEMMA TakeOut ==
    ASSUME NEW f \in Files, FileOnce(f), NEW s \in storages
    PROVE  /\ In(f, storages \ {s}) <=> In(f, storages) /\ ~HasFacts(f, s)
           /\ Single(f, storages \ {s})
           /\ HasFacts(f, s) => /\ In(f, storages) /\ ~In(f, mergeHand)
                                /\ ~In(f, injectHand) /\ ~HasFacts(f, database)
BY DEF FileOnce, HeldOnce, In, Single

LEMMA MergeMoves ==
    ASSUME NEW f \in Files, FileOnce(f), Merge
    PROVE  FileOnce(f)'
<1>1. UNCHANGED <<provider, commands, worker, inHand, results, presses, died,
                  injectHand, database>>
  BY DEF Merge, MergeStep, SupplyUnchanged, workers, shared, stop
<1>2. CASE UNCHANGED <<mergeHand, storages>>
  <2>1. HeldOnce(f)'
    BY <1>1, <1>2 DEF FileOnce, HeldOnce
  <2>2. Held(f)' <=> Held(f)
    BY <1>1, <1>2, HeldIs
  <2>. QED
    BY <1>1, <2>1, <2>2, HandedOn
<1>3. CASE TakeToMerge
  <2>1. CASE UNCHANGED <<mergeHand, storages>>
    BY <1>2, <2>1
  <2>2. CASE \E s \in storages : /\ mergeHand' = mergeHand \cup {s}
                                 /\ storages' = storages \ {s}
    <3>1. PICK s \in storages : mergeHand' = mergeHand \cup {s} /\ storages' = storages \ {s}
      BY <2>2
    <3>2. In(f, mergeHand') <=> In(f, mergeHand) \/ HasFacts(f, s)
      BY <3>1 DEF In
    <3>3. In(f, storages') <=> In(f, storages) /\ ~HasFacts(f, s)
      BY <3>1, TakeOut
    <3>4. Held(f)' <=> Held(f)
      BY <1>1, <3>2, <3>3, TakeOut, HeldIs
    <3>5. Single(f, storages')
      BY <3>1, TakeOut
    <3>6. Single(f, mergeHand')
      BY <3>1, TakeOut DEF Single, In, FileOnce, HeldOnce
    <3>7. HeldOnce(f)'
      BY <1>1, <3>2, <3>3, <3>5, <3>6, TakeOut DEF FileOnce, HeldOnce
    <3>. QED
      BY <1>1, <3>4, <3>7, HandedOn
  <2>. QED
    BY <1>3, <2>1, <2>2 DEF TakeToMerge
<1>4. CASE PutMerged
  <2>. DEFINE merged == IF Cardinality(mergeHand) = 2 THEN {UNION mergeHand} ELSE mergeHand
  <2>1. storages' = storages \cup merged /\ mergeHand' = {}
    BY <1>4 DEF PutMerged
  <2>2. In(f, merged) <=> In(f, mergeHand)
    BY DEF In, HasFacts
  <2>3. Single(f, merged)
    BY DEF Single, FileOnce, HeldOnce
  <2>. HIDE DEF merged
  <2>4. In(f, storages') <=> In(f, storages) \/ In(f, mergeHand)
    BY <2>1, <2>2 DEF In
  <2>5. ~In(f, mergeHand')
    BY <2>1 DEF In
  <2>6. Single(f, storages')
    <3>1. ~(In(f, storages) /\ In(f, merged))
      BY <2>2 DEF FileOnce, HeldOnce
    <3>2. Single(f, storages)
      BY DEF FileOnce, HeldOnce
    <3>. QED
      BY <2>1, <2>3, <3>1, <3>2 DEF Single, In
  <2>7. Single(f, mergeHand')
    BY <2>1 DEF Single
  <2>8. Held(f)' <=> Held(f)
    BY <1>1, <2>4, <2>5, HeldIs
  <2>9. HeldOnce(f)'
    BY <1>1, <2>4, <2>5, <2>6, <2>7 DEF FileOnce, HeldOnce
  <2>. QED
    BY <1>1, <2>8, <2>9, HandedOn
<1>. QED
  BY <1>2, <1>3, <1>4 DEF Merge

LEMMA InjectMoves ==
    ASSUME NEW f \in Files, FileOnce(f), ShapesInv, Inject \/ InjectRest
    PROVE  FileOnce(f)'
<1>1. UNCHANGED <<provider, commands, worker, inHand, results, presses, died, mergeHand>>
  BY DEF Inject, InjectStep, InjectRest, SupplyUnchanged, workers, shared, stop
<1>2. CASE UNCHANGED <<injectHand, storages, database>>
  <2>1. HeldOnce(f)'
    BY <1>1, <1>2 DEF FileOnce, HeldOnce
  <2>2. Held(f)' <=> Held(f)
    BY <1>1, <1>2, HeldIs
  <2>. QED
    BY <1>1, <2>1, <2>2, HandedOn
<1>3. CASE InjectStep("check", "put") /\ TakeToInject /\ UNCHANGED database
  <2>1. PICK s \in storages : injectHand' = {s} /\ storages' = storages \ {s}
    BY <1>3 DEF TakeToInject
  <2>2. injectHand = {} /\ database' = database
    BY <1>3 DEF InjectStep, ShapesInv, TaskHandsFit
  <2>3. (In(f, injectHand') <=> HasFacts(f, s)) /\ ~In(f, injectHand)
    BY <2>1, <2>2 DEF In
  <2>4. In(f, storages') <=> In(f, storages) /\ ~HasFacts(f, s)
    BY <2>1, TakeOut
  <2>5. Single(f, storages') /\ Single(f, injectHand')
    BY <2>1, TakeOut DEF Single
  <2>6. Held(f)' <=> Held(f)
    BY <1>1, <2>2, <2>3, <2>4, TakeOut, HeldIs
  <2>7. HeldOnce(f)'
    BY <1>1, <2>2, <2>3, <2>4, <2>5, TakeOut DEF FileOnce, HeldOnce
  <2>. QED
    BY <1>1, <2>6, <2>7, HandedOn
<1>4. CASE /\ database' = database \cup UNION injectHand
           /\ injectHand' = {}
           /\ UNCHANGED storages
  <2>1. HasFacts(f, database') <=> HasFacts(f, database) \/ In(f, injectHand)
    BY <1>4 DEF In, HasFacts
  <2>2. ~In(f, injectHand') /\ Single(f, injectHand')
    BY <1>4 DEF In, Single
  <2>3. Held(f)' <=> Held(f)
    BY <1>1, <1>4, <2>1, <2>2, HeldIs
  <2>4. HeldOnce(f)'
    BY <1>1, <1>4, <2>1, <2>2 DEF FileOnce, HeldOnce
  <2>. QED
    BY <1>1, <2>3, <2>4, HandedOn
<1>5. CASE InjectRest
  <2>1. PICK s \in storages : storages' = storages \ {s} /\ database' = database \cup s
    BY <1>5 DEF InjectRest
  <2>2. injectHand' = injectHand
    BY <1>5 DEF InjectRest
  <2>3. HasFacts(f, database') <=> HasFacts(f, database) \/ HasFacts(f, s)
    BY <2>1 DEF HasFacts
  <2>4. In(f, storages') <=> In(f, storages) /\ ~HasFacts(f, s)
    BY <2>1, TakeOut
  <2>5. Single(f, storages')
    BY <2>1, TakeOut
  <2>6. Held(f)' <=> Held(f)
    BY <1>1, <2>2, <2>3, <2>4, TakeOut, HeldIs
  <2>7. HeldOnce(f)'
    BY <1>1, <2>2, <2>3, <2>4, <2>5, TakeOut DEF FileOnce, HeldOnce
  <2>. QED
    BY <1>1, <2>6, <2>7, HandedOn
<1>. QED
  BY <1>2, <1>3, <1>4, <1>5 DEF Inject

(* The steps of the processes that neither begin nor end carrying.         *)
LEMMA WorkMoves ==
    ASSUME NEW f \in Files, FileOnce(f), ShapesInv, ShapesInv',
           NEW p \in Processes, Work(p) \/ Die(p) \/ SeeFlag(p)
    PROVE  FileOnce(f)'
<1>0. /\ worker \in [Processes -> WorkerStates]
      /\ inHand \in [Processes -> Places]
      /\ \A q \in Processes : inHand[q] \in Files <=> Busy(q)
  BY DEF ShapesInv, HandsFit, PipelineTypeOK
<1>. USE DEF Update
<1>1. CASE PopCommand(p)
  BY <1>1, PopMoves
<1>2. CASE IndexFile(p)
  BY <1>2, IndexMoves
<1>3. CASE \/ MissingExecutable(p) \/ EnterLoop(p) \/ StartProcess(p) \/ EndThread(p)
           \/ NoCommandLeft(p) \/ StartIndexing(p) \/ FinishIndexing(p)
           \/ ProcessReturns(p) \/ SeeFlag(p)
  <2>1. UNCHANGED <<provider, commands, results, supply, presses, died>>
    BY <1>3 DEF MissingExecutable, EnterLoop, StartProcess, EndThread, NoCommandLeft,
       StartIndexing, FinishIndexing, ProcessReturns, SeeFlag, WorkerUnchanged, shared,
       stop
  <2>2. \A q \in Processes : Carries(q, f)' <=> Carries(q, f)
    BY <1>0, <1>3
    DEF MissingExecutable, EnterLoop, StartProcess, EndThread, NoCommandLeft,
        StartIndexing, FinishIndexing, ProcessReturns, SeeFlag, Carries, shared
  <2>. QED
    BY <2>1, <2>2, LeftAlone
<1>4. CASE GiveUp(p)
  <2>1. UNCHANGED <<provider, commands, results, storages, mergeHand, injectHand, database>>
    BY <1>4 DEF GiveUp, WorkerUnchanged, shared, supply
  <2>2. \A q \in Processes : Carries(q, f)' => Carries(q, f)
    BY <1>0, <1>4 DEF GiveUp, Carries
  <2>3. presses' # 0
    BY <1>4 DEF GiveUp, WorkerUnchanged, stop, ShapesInv, NoStopYet
  <2>4. Present(f)'
    BY <2>3 DEF Present
  <2>. QED
    BY <2>1, <2>2, <2>4, ThrownAway
<1>5. CASE Die(p)
  <2>1. UNCHANGED <<provider, commands, results, storages, mergeHand, injectHand, database,
                    presses>>
    BY <1>5 DEF Die, WorkerUnchanged, shared, supply, stop
  <2>2. \A q \in Processes : Carries(q, f)' <=> q # p /\ Carries(q, f)
    BY <1>0, <1>5 DEF Die, Carries
  <2>3. died' = died \cup ({inHand[p]} \ {Nobody})
    BY <1>5 DEF Die
  <2>4. Present(f)'
    <3>1. SUFFICES ASSUME presses = 0, f \notin died'
                   PROVE  Ahead(f)' \/ Waiting(f)' \/ Held(f)'
      BY <2>1 DEF Present
    <3>2. ~Carries(p, f) /\ f \notin died
      BY <2>3, <3>1, PipelineAssumption DEF Carries
    <3>3. Ahead(f)' <=> Ahead(f)
      BY <2>1, <2>2, <3>2, AheadIs
    <3>4. (Waiting(f)' <=> Waiting(f)) /\ (Held(f)' <=> Held(f))
      BY <2>1, WaitingIs, HeldIs
    <3>. QED
      BY <3>1, <3>2, <3>3, <3>4 DEF FileOnce, Present
  <2>. QED
    BY <2>1, <2>2, <2>4, ThrownAway
<1>. QED
  BY <1>1, <1>2, <1>3, <1>4, <1>5 DEF Work

LEMMA BuildMoves ==
    ASSUME NEW f \in Files, FileOnce(f), ShapesInv, Build
    PROVE  FileOnce(f)'
<1>1. CASE BuildEnter
  <2>1. \A q \in Processes : ~Carries(q, f) /\ ~Carries(q, f)'
    BY <1>1 DEF BuildEnter, Carries, ShapesInv, HandsFit
  <2>2. UNCHANGED <<provider, commands, results, supply, presses, died>>
    BY <1>1 DEF BuildEnter, BuildUnchanged, supply, stop
  <2>. QED
    BY <2>1, <2>2, LeftAlone
<1>2. CASE BuildUpdate \/ BuildJoin
  <2>1. UNCHANGED <<provider, commands, results, supply, presses, died, worker, inHand>>
    BY <1>2 DEF BuildUpdate, BuildJoin, BuildUnchanged, supply, stop
  <2>2. \A q \in Processes : Carries(q, f)' <=> Carries(q, f)
    BY <2>1 DEF Carries
  <2>. QED
    BY <2>1, <2>2, LeftAlone
<1>3. CASE BuildFetch
  <2>1. UNCHANGED <<provider, commands, worker, inHand, mergeHand, injectHand, database,
                    presses, died>>
    BY <1>3 DEF BuildFetch, BuildUnchanged, stop
  <2>2. PICK rounds, next : FetchStorage(rounds) \/ FetchNothing(next)
    BY <1>3 DEF BuildFetch
  <2>3. CASE FetchStorage(rounds)
    BY <2>1, <2>3, FetchMoves
  <2>4. CASE FetchNothing(next)
    <3>1. UNCHANGED <<results, supply>>
      BY <2>1, <2>4 DEF FetchNothing, supply
    <3>2. \A q \in Processes : Carries(q, f)' <=> Carries(q, f)
      BY <2>1 DEF Carries
    <3>. QED
      BY <2>1, <3>1, <3>2, LeftAlone
  <2>. QED
    BY <2>2, <2>3, <2>4
<1>4. CASE BuildRecord
  BY <1>4, RecordMoves
<1>. QED
  BY <1>1, <1>2, <1>3, <1>4 DEF Build

LEMMA StopMoves ==
    ASSUME NEW f \in Files, FileOnce(f), ShapesInv, PressStop \/ HandleInterrupt
    PROVE  FileOnce(f)'
<1>1. UNCHANGED <<worker, inHand, results, mergeHand, injectHand, database>>
  BY DEF PressStop, HandleInterrupt, Handler, workers, shared, supply
<1>2. provider' \subseteq provider /\ commands' \subseteq commands
      /\ storages' \subseteq storages
  BY DEF PressStop, HandleInterrupt, shared, supply
<1>3. \A q \in Processes : Carries(q, f)' <=> Carries(q, f)
  BY <1>1 DEF Carries
<1>4. presses' # 0
  BY DEF PressStop, HandleInterrupt, Handler, ShapesInv, PipelineTypeOK, NoStopYet
<1>5. Present(f)'
  BY <1>4 DEF Present
<1>. QED
  BY <1>1, <1>2, <1>3, <1>5, ThrownAway

LEMMA PlacesNext == PlacesInv /\ [Next]_vars => PlacesInv'
<1>1. SUFFICES ASSUME ShapesInv, \A f \in Files : FileOnce(f), [Next]_vars, NEW f \in Files
               PROVE  FileOnce(f)'
  BY ShapesNext DEF PlacesInv
<1>2. ShapesInv' /\ FileOnce(f)
  BY <1>1, ShapesNext
<1>3. CASE Fill
  <2>1. UNCHANGED <<worker, inHand, results, supply, presses, died>>
    BY <1>3 DEF Fill, FillEnter, FillRefill, FillDone, workers, shared, stop
  <2>2. CASE FillEnter \/ FillRefill
    BY <1>2, <2>1, <2>2, FillMoves DEF FillEnter, FillRefill
  <2>3. CASE FillDone
    <3>1. UNCHANGED <<provider, commands>>
      BY <2>3 DEF FillDone, shared
    <3>2. \A q \in Processes : Carries(q, f)' <=> Carries(q, f)
      BY <2>1 DEF Carries
    <3>. QED
      BY <1>2, <2>1, <3>1, <3>2, LeftAlone
  <2>. QED
    BY <1>3, <2>2, <2>3 DEF Fill
<1>4. CASE Build
  BY <1>1, <1>2, <1>4, BuildMoves
<1>5. CASE Merge
  BY <1>2, <1>5, MergeMoves
<1>6. CASE Inject \/ InjectRest
  BY <1>1, <1>2, <1>6, InjectMoves
<1>7. CASE \E p \in Processes : Work(p) \/ Die(p) \/ SeeFlag(p)
  BY <1>1, <1>2, <1>7, WorkMoves
<1>8. CASE PressStop \/ HandleInterrupt
  BY <1>1, <1>2, <1>8, StopMoves
<1>9. CASE UNCHANGED vars
  <2>1. UNCHANGED <<provider, commands, results, supply, presses, died, worker, inHand>>
    BY <1>9 DEF vars, workers, shared, supply, stop
  <2>2. \A q \in Processes : Carries(q, f)' <=> Carries(q, f)
    BY <2>1 DEF Carries
  <2>. QED
    BY <1>2, <2>1, <2>2, LeftAlone
<1>. QED
  BY <1>1, <1>2, <1>3, <1>4, <1>5, <1>6, <1>7, <1>8, <1>9 DEF Next

LEMMA PlacesInit == Init => PlacesInv
<1>1. SUFFICES ASSUME Init, NEW f \in Files PROVE FileOnce(f)
  BY ShapesInit DEF PlacesInv
<1>2. AheadOnce(f) /\ Ahead(f)
  BY <1>1 DEF Init, AheadOnce, Ahead, Carries
<1>3. WaitingOnce(f) /\ ~Waiting(f)
  <2>1. \A p \in Processes : results[p] = <<>>
    BY <1>1 DEF Init
  <2>2. \A p \in Processes : DOMAIN results[p] = {}
    BY <2>1
  <2>. QED
    BY <2>2, WaitingIs DEF WaitingOnce
<1>4. HeldOnce(f) /\ ~Held(f)
  BY <1>1, HeldIs DEF Init, HeldOnce, Single, In, HasFacts
<1>. QED
  BY <1>2, <1>3, <1>4 DEF FileOnce, Apart, Present

(* A file is in at most one place on its way from the list of files to the *)
(* database, and in at least one as long as nobody presses Stop and no     *)
(* process died over it: the processes, the four tasks and the handlers of *)
(* the message hand its facts on without losing or repeating them.         *)
THEOREM EachFileIsOnce == PipelineSpec => []EachFileOnce
<1>1. PipelineSpec => []PlacesInv
  BY PlacesInit, PlacesNext, PTL DEF PipelineSpec
<1>2. PlacesInv => EachFileOnce
  <2>1. SUFFICES ASSUME PlacesInv, NEW f \in Files
                 PROVE  /\ Present(f) /\ Apart(f)
                        /\ \A s, t \in AllStorages : HasFacts(f, s) /\ HasFacts(f, t) => s = t
    BY DEF EachFileOnce, Present, Apart
  <2>2. FileOnce(f)
    BY <2>1 DEF PlacesInv
  <2>3. \A s, t \in AllStorages : HasFacts(f, s) /\ HasFacts(f, t) => s = t
    BY <2>2 DEF AllStorages, FileOnce, HeldOnce, Single, In
  <2>. QED
    BY <2>2, <2>3 DEF FileOnce
<1>. QED
  BY <1>1, <1>2, PTL

-----------------------------------------------------------------------------
(* That the database has everything in the end needs more: that the threads*)
(* end behind an empty queue of commands, and the building task behind     *)
(* empty queues of storages.                                               *)

Undisturbed == presses = 0 /\ executable

(* The process found no command the last time it looked.                   *)
Dry(p) ==
    \/ worker[p] \in {"drained", "ended"}
    \/ worker[p] = "check" /\ lastResult[p]

(* The filling task comes first, and puts all of a project that fits into  *)
(* the queue at once. An end of the thread then means that the process     *)
(* came back from an empty queue which nobody fills any more.              *)
QueueRunDry ==
    /\ fill \in {"enter", "running", "done"}
    /\ fill = "enter" =>
           ~queueStarted /\ commands = {} /\ \A p \in Processes : worker[p] = "off"
    /\ fill = "done" => provider = {}
    /\ FitsTheQueue /\ fill # "enter" => provider = {}
    /\ sawStopped => queueStopped
    /\ queueStopped => fill = "done"
    /\ Undisturbed =>
        /\ ~interrupted
        /\ \A p \in Processes :
            /\ worker[p] # "gone"
            /\ worker[p] \in {"off", "start"} => ~lastResult[p]
            /\ worker[p] = "ended" => fill = "done"
            /\ FitsTheQueue /\ Dry(p) => commands = {}

(* How often a process said that it has finished.                          *)
Occurrences(seq, p) == {i \in DOMAIN seq : seq[i] = p}
Times(seq, p) == Cardinality(Occurrences(seq, p))

(* Every storage in the queue of a process is announced, but the one it is *)
(* about to announce.                                                      *)
Announced ==
    presses = 0 => \A p \in Processes :
        Len(results[p]) =
            Times(finished, p) + (IF worker[p] = "finish" THEN 1 ELSE 0)

(* TaskBuildIndex ends behind its threads, when there is nothing to fetch. *)
BuildStates ==
    {"waiting", "update", "fetch", "join", "drain", "draining", "record", "done"}
BuildEnds ==
    /\ build \in BuildStates
    /\ build \in {"drain", "draining", "record", "done"} =>
           \A p \in Processes : worker[p] \in {"ended", "gone"}
    /\ Undisturbed /\ build \in {"join", "drain", "draining", "record", "done"} =>
           \A p \in Processes : worker[p] = "ended"
    /\ Undisturbed /\ build \in {"record", "done"} =>
           \A p \in Processes : results[p] = <<>>

(* Only of a file over which a process died is a crash told.               *)
CrashesTrue ==
    /\ crashed \subseteq died
    /\ \A p \in Processes : \A f \in Files : current[p] = f =>
           f \in died \/ (worker[p] \in {"index", "finish"} /\ inHand[p] = f)
    /\ \A s \in AllStorages : \A f \in Files : CrashError(f) \in s => f \in died

DeliveryInv == PlacesInv /\ QueueRunDry /\ Announced /\ BuildEnds /\ CrashesTrue

-----------------------------------------------------------------------------
(* Counting in a sequence.                                                 *)

LEMMA OccurrencesFinite ==
    ASSUME NEW S, NEW seq \in Seq(S), NEW e
    PROVE  IsFiniteSet(Occurrences(seq, e)) /\ Times(seq, e) \in Nat
<1>1. Occurrences(seq, e) \subseteq 1 .. Len(seq) /\ IsFiniteSet(1 .. Len(seq))
  BY FS_Interval DEF Occurrences
<1>2. IsFiniteSet(Occurrences(seq, e))
  BY <1>1, FS_Subset
<1>. QED
  BY <1>2, FS_CardinalityType DEF Times

LEMMA TimesEmpty == ASSUME NEW e PROVE Times(<<>>, e) = 0
<1>1. Occurrences(<<>>, e) = {}
  BY DEF Occurrences
<1>. QED
  BY <1>1, FS_EmptySet DEF Times

LEMMA TimesSome ==
    ASSUME NEW S, NEW seq \in Seq(S), NEW i \in DOMAIN seq
    PROVE  Times(seq, seq[i]) # 0
<1>1. i \in Occurrences(seq, seq[i])
  BY DEF Occurrences
<1>. QED
  BY <1>1, OccurrencesFinite, FS_EmptySet DEF Times

LEMMA TimesAppend ==
    ASSUME NEW S, NEW seq \in Seq(S), NEW x \in S, NEW e
    PROVE  Times(Append(seq, x), e) = Times(seq, e) + (IF x = e THEN 1 ELSE 0)
<1>. DEFINE n == Len(seq) + 1
<1>1. /\ DOMAIN seq = 1 .. (n - 1) /\ n \in Nat \ {0}
      /\ DOMAIN Append(seq, x) = 1 .. n
      /\ Append(seq, x)[n] = x
      /\ \A i \in 1 .. (n - 1) : Append(seq, x)[i] = seq[i]
  BY AppendFacts
<1>. HIDE DEF n
<1>2. Occurrences(Append(seq, x), e) =
          IF x = e THEN Occurrences(seq, e) \cup {n} ELSE Occurrences(seq, e)
  BY <1>1 DEF Occurrences
<1>3. n \notin Occurrences(seq, e)
  BY <1>1 DEF Occurrences
<1>4. IsFiniteSet(Occurrences(seq, e)) /\ Times(seq, e) \in Nat
  BY OccurrencesFinite
<1>5. Cardinality(Occurrences(seq, e) \cup {n}) = Cardinality(Occurrences(seq, e)) + 1
  BY <1>3, <1>4, FS_AddElement
<1>. QED
  BY <1>2, <1>4, <1>5 DEF Times

LEMMA TimesTail ==
    ASSUME NEW S, NEW seq \in Seq(S), seq # <<>>, NEW e
    PROVE  Times(seq, e) = Times(Tail(seq), e) + (IF Head(seq) = e THEN 1 ELSE 0)
<1>. DEFINE n == Len(seq)
            A == Occurrences(Tail(seq), e)
            B == Occurrences(seq, e) \ {1}
            Shift == [i \in A |-> i + 1]
<1>1. /\ DOMAIN seq = 1 .. n /\ n \in Nat \ {0}
      /\ Head(seq) = seq[1]
      /\ Tail(seq) \in Seq(S)
      /\ DOMAIN Tail(seq) = 1 .. (n - 1)
      /\ \A i \in 1 .. (n - 1) : Tail(seq)[i] = seq[i + 1]
  BY TailFacts
<1>. HIDE DEF n
<1>2. A = {i \in 1 .. (n - 1) : seq[i + 1] = e}
  BY <1>1 DEF Occurrences
<1>3. B = {i \in 2 .. n : seq[i] = e}
  BY <1>1 DEF Occurrences
<1>4. Shift \in Bijection(A, B)
  <2>1. \A i \in A : i \in Nat /\ i + 1 \in B
    BY <1>1, <1>2, <1>3
  <2>2. \A i \in B : i - 1 \in A /\ (i - 1) + 1 = i
    BY <1>1, <1>2, <1>3
  <2>. HIDE DEF A, B
  <2>3. Shift \in [A -> B]
    BY <2>1
  <2>4. \A i, j \in A : Shift[i] = Shift[j] => i = j
    BY <2>1
  <2>5. \A j \in B : \E i \in A : Shift[i] = j
    BY <2>2
  <2>. QED
    BY <2>3, <2>4, <2>5 DEF Bijection, Injection, Surjection, IsInjective
<1>5. IsFiniteSet(A)
  BY <1>1, OccurrencesFinite
<1>. HIDE DEF A, B, Shift
<1>6. Cardinality(A) = Cardinality(B) /\ IsFiniteSet(B) /\ Cardinality(B) \in Nat
  <2>1. ExistsBijection(A, B)
    BY <1>4 DEF ExistsBijection
  <2>2. Cardinality(A) = Cardinality(B) /\ IsFiniteSet(B)
    BY <1>5, <2>1, FS_Bijection
  <2>. QED
    BY <2>2, FS_CardinalityType
<1>7. CASE Head(seq) = e
  <2>1. Occurrences(seq, e) = B \cup {1} /\ 1 \notin B
    BY <1>1, <1>7 DEF B, Occurrences
  <2>2. Cardinality(B \cup {1}) = Cardinality(B) + 1
    BY <1>6, <2>1, FS_AddElement
  <2>. QED
    BY <1>6, <1>7, <2>1, <2>2 DEF Times, A
<1>8. CASE Head(seq) # e
  <2>1. Occurrences(seq, e) = B
    BY <1>1, <1>8 DEF B, Occurrences
  <2>. QED
    BY <1>6, <1>8, <2>1 DEF Times, A
<1>. QED
  BY <1>7, <1>8

-----------------------------------------------------------------------------
LEMMA PressesBefore ==
    ASSUME ShapesInv, [Next]_vars, presses' = 0
    PROVE  presses = 0 /\ told = {} /\ message = 0
<1>1. presses = 0
  <2>1. CASE PressStop
    BY <2>1, PipelineAssumption DEF PressStop, ShapesInv, PipelineTypeOK
  <2>2. CASE ~PressStop
    BY <2>2
    DEF Next, Fill, FillEnter, FillRefill, FillDone, Build,
        BuildEnter, BuildUpdate, BuildFetch, BuildJoin, BuildRecord, BuildUnchanged,
        Merge, MergeStep, Inject, InjectStep, InjectRest, SupplyUnchanged, Work, Die,
        SeeFlag, MissingExecutable, EnterLoop, StartProcess, EndThread, PopCommand,
        NoCommandLeft, StartIndexing, GiveUp, IndexFile, FinishIndexing,
        ProcessReturns, WorkerUnchanged, HandleInterrupt, Handler, vars, stop
  <2>. QED
    BY <2>1, <2>2
<1>. QED
  BY <1>1 DEF ShapesInv, NoStopYet

LEMMA UndisturbedBefore ==
    ASSUME ShapesInv, [Next]_vars, Undisturbed'
    PROVE  Undisturbed /\ told = {} /\ ~flag /\ message = 0 /\ told' = {}
<1>1. presses' = 0 => presses = 0
  BY PressesBefore
<1>2. executable' = executable
  BY DEF Next, Fill, FillEnter, FillRefill, FillDone, Build,
     BuildEnter, BuildUpdate, BuildFetch, BuildJoin, BuildRecord, BuildUnchanged, Merge,
     MergeStep, Inject, InjectStep, InjectRest, SupplyUnchanged, Work, Die, SeeFlag,
     MissingExecutable, EnterLoop, StartProcess, EndThread, PopCommand, NoCommandLeft,
     StartIndexing, GiveUp, IndexFile, FinishIndexing, ProcessReturns, WorkerUnchanged,
     PressStop, HandleInterrupt, Handler, vars, workers
<1>3. ShapesInv'
  BY ShapesNext
<1>. QED
  BY <1>1, <1>2, <1>3 DEF Undisturbed, ShapesInv, NoStopYet

LEMMA FillsAtOnce ==
    ASSUME provider \subseteq Files, commands = {}, FitsTheQueue, FillCommandQueue
    PROVE  provider' = {}
<1>1. /\ IsFiniteSet(provider) /\ Cardinality(provider) \in Nat
      /\ Cardinality(provider) <= Cardinality(Files)
  BY PipelineAssumption, FS_Subset, FS_CardinalityType
<1>2. Cardinality(commands) = 0
  BY FS_EmptySet
<1>3. MaximumQueueSize \in Nat /\ Cardinality(Files) \in Nat
  BY PipelineAssumption, FS_CardinalityType
<1>4. RefillAmount = Cardinality(provider)
  BY <1>1, <1>2, <1>3 DEF RefillAmount, FitsTheQueue
<1>5. PICK new \in SUBSET provider :
          Cardinality(new) = Cardinality(provider) /\ provider' = provider \ new
  BY <1>4 DEF FillCommandQueue
<1>6. new = provider
  BY <1>1, <1>5, FS_Subset
<1>. QED
  BY <1>5, <1>6

LEMMA NothingToRefill ==
    ASSUME provider = {}, commands \subseteq Files
    PROVE  ~(RefillAmount > 0)
<1>1. Cardinality(provider) = 0 /\ Cardinality(commands) \in Nat
  BY PipelineAssumption, FS_Subset, FS_CardinalityType, FS_EmptySet
<1>2. MaximumQueueSize \in Nat
  BY PipelineAssumption
<1>. QED
  BY <1>1, <1>2 DEF RefillAmount

LEMMA QueueRunDryNext ==
    ASSUME ShapesInv, QueueRunDry, [Next]_vars
    PROVE  QueueRunDry'
<1>. USE DEF QueueRunDry
<1>0. /\ worker \in [Processes -> WorkerStates]
      /\ lastResult \in [Processes -> BOOLEAN]
      /\ provider \subseteq Files /\ commands \subseteq Files
  BY DEF ShapesInv, HandsFit, PipelineTypeOK
<1>1. Undisturbed' => Undisturbed /\ told = {} /\ ~flag /\ message = 0
  BY UndisturbedBefore
<1>2. CASE Fill
  <2>1. CASE FillEnter
    <3>1. FillCommandQueue /\ fill = "enter" /\ fill' = "running"
          /\ UNCHANGED <<workers, interrupted, sawStopped, queueStopped>>
      BY <2>1 DEF FillEnter
    <3>2. FitsTheQueue' => provider' = {}
      BY <1>0, <3>1, FillsAtOnce DEF FitsTheQueue
    <3>. QED
      BY <1>1, <3>1, <3>2 DEF Dry, workers, FitsTheQueue
  <2>2. CASE FillRefill
    <3>1. fill = "running" /\ RefillAmount > 0
          /\ UNCHANGED <<workers, interrupted, sawStopped, blackboard, tasks>>
      BY <2>2 DEF FillRefill
    <3>2. ~FitsTheQueue
      BY <1>0, <3>1, NothingToRefill
    <3>. QED
      BY <1>1, <3>1, <3>2 DEF Dry, workers, blackboard, tasks, FitsTheQueue
  <2>3. CASE FillDone
    BY <1>1, <2>3 DEF FillDone, Dry, workers, shared, FitsTheQueue
  <2>. QED
    BY <1>2, <2>1, <2>2, <2>3 DEF Fill
<1>3. CASE Build
  <2>1. UNCHANGED <<fill, provider, queueStarted, queueStopped, interrupted, lastResult,
                    commands>>
    BY <1>3 DEF Build, BuildEnter, BuildUpdate, BuildFetch, BuildJoin, BuildRecord,
       BuildUnchanged
  <2>2. sawStopped' => queueStopped
    BY <1>3 DEF Build, BuildEnter, BuildUpdate, BuildFetch, BuildJoin, BuildRecord
  <2>3. CASE BuildEnter
    <3>1. \A p \in Processes : worker[p] = "off" /\ worker'[p] = "start"
      BY <2>3 DEF BuildEnter, ShapesInv, HandsFit
    <3>2. fill # "enter"
      BY <2>3 DEF BuildEnter
    <3>. QED
      BY <1>1, <2>1, <2>2, <3>1, <3>2 DEF Dry, FitsTheQueue
  <2>4. CASE ~BuildEnter
    <3>1. worker' = worker
      BY <1>3, <2>4 DEF Build, BuildUpdate, BuildFetch, BuildJoin, BuildRecord
    <3>. QED
      BY <1>1, <2>1, <2>2, <3>1 DEF Dry, FitsTheQueue
  <2>. QED
    BY <2>3, <2>4
<1>4. CASE Merge \/ Inject \/ InjectRest
  <2>1. UNCHANGED <<provider, blackboard, fill, sawStopped, interrupted, workers, shared>>
    BY <1>4 DEF Merge, MergeStep, Inject, InjectStep, InjectRest, SupplyUnchanged
  <2>. QED
    BY <1>1, <2>1 DEF Dry, FitsTheQueue, blackboard, workers, shared
<1>5. ASSUME NEW p \in Processes, Work(p) \/ Die(p) \/ SeeFlag(p)
      PROVE  QueueRunDry'
  <2>1. UNCHANGED <<fill, provider, queueStopped, sawStopped, executable>>
    BY <1>5 DEF Work, Die, SeeFlag, MissingExecutable, EnterLoop, StartProcess,
       EndThread, PopCommand, NoCommandLeft, StartIndexing, GiveUp, IndexFile,
       FinishIndexing, ProcessReturns, WorkerUnchanged, blackboard, tasks
  <2>0. fill # "enter"
    BY <1>5 DEF Work, Die, SeeFlag, Alive, MissingExecutable, EnterLoop, StartProcess,
       EndThread, PopCommand, NoCommandLeft, StartIndexing, GiveUp, IndexFile,
       FinishIndexing, ProcessReturns
  <2>2. SUFFICES ASSUME Undisturbed', Undisturbed, NEW q \in Processes
                 PROVE  /\ ~interrupted'
                        /\ worker'[q] # "gone"
                        /\ worker'[q] \in {"off", "start"} => ~lastResult'[q]
                        /\ worker'[q] = "ended" => fill = "done"
                        /\ FitsTheQueue /\ Dry(q)' => commands' = {}
    <3>1. interrupted' => interrupted \/ ~executable
      BY <1>5 DEF Work, Die, SeeFlag, MissingExecutable, EnterLoop, StartProcess,
         EndThread, PopCommand, NoCommandLeft, StartIndexing, GiveUp, IndexFile,
         FinishIndexing, ProcessReturns
    <3>2. Undisturbed => ~interrupted'
      BY <3>1 DEF Undisturbed
    <3>. QED
      BY <1>1, <2>0, <2>1, <3>2 DEF FitsTheQueue
  <2>3. ~interrupted /\ executable
    BY <2>2 DEF Undisturbed
  <2>. USE <1>0, <2>2, <2>3 DEF Update, Dry
  <2>4. CASE MissingExecutable(p)
    BY <2>4 DEF MissingExecutable
  <2>5. CASE EnterLoop(p)
    BY <2>5 DEF EnterLoop, shared
  <2>6. CASE StartProcess(p)
    BY <2>6 DEF StartProcess, shared
  <2>7. CASE EndThread(p)
    BY <2>7 DEF EndThread, GoesOn, shared
  <2>8. CASE PopCommand(p)
    BY <2>8 DEF PopCommand
  <2>9. CASE NoCommandLeft(p)
    BY <2>9 DEF NoCommandLeft, shared
  <2>10. CASE StartIndexing(p)
    BY <2>10 DEF StartIndexing
  <2>11. CASE GiveUp(p)
    BY <1>1, <2>11 DEF GiveUp
  <2>12. CASE IndexFile(p)
    BY <2>12 DEF IndexFile
  <2>13. CASE FinishIndexing(p)
    BY <2>13 DEF FinishIndexing
  <2>14. CASE ProcessReturns(p)
    BY <2>14 DEF ProcessReturns, shared
  <2>15. CASE Die(p)
    BY <2>15 DEF Die, shared
  <2>16. CASE SeeFlag(p)
    BY <1>1, <2>16 DEF SeeFlag
  <2>. QED
    BY <1>5, <2>4, <2>5, <2>6, <2>7, <2>8, <2>9, <2>10, <2>11, <2>12, <2>13, <2>14, <2>15,
       <2>16 DEF Work
<1>6. CASE PressStop
  <2>1. UNCHANGED <<provider, blackboard, fill, sawStopped, interrupted, workers, shared>>
    BY <1>6 DEF PressStop, tasks
  <2>. QED
    BY <1>1, <2>1 DEF Dry, FitsTheQueue, blackboard, workers, shared
<1>7. CASE HandleInterrupt
  <2>1. ~Undisturbed'
    BY <1>1, <1>7 DEF HandleInterrupt, Handler
  <2>2. UNCHANGED <<blackboard, fill, sawStopped, worker>>
    BY <1>7 DEF HandleInterrupt, Handler, tasks, workers
  <2>3. \/ provider' = {} /\ commands' = {}
        \/ UNCHANGED <<provider, commands>>
    BY <1>7 DEF HandleInterrupt
  <2>. QED
    BY <2>1, <2>2, <2>3 DEF blackboard, FitsTheQueue
<1>8. CASE UNCHANGED vars
  BY <1>1, <1>8 DEF vars, Dry, FitsTheQueue, blackboard, tasks, workers, shared
<1>. QED
  BY <1>2, <1>3, <1>4, <1>5, <1>6, <1>7, <1>8 DEF Next

LEMMA NothingMoreToFetch ==
    ASSUME ShapesInv, Announced, presses = 0, ~Fetchable
    PROVE  /\ finished = <<>>
           /\ \A p \in Processes : worker[p] # "finish" => results[p] = <<>>
<1>1. finished \in Seq(Processes) /\ results \in [Processes -> Seq(Files)]
  BY DEF ShapesInv, PipelineTypeOK
<1>2. finished = <<>>
  <2>1. SUFFICES ASSUME finished # <<>> PROVE FALSE
    OBVIOUS
  <2>. DEFINE p == Head(finished)
  <2>2. p \in Processes /\ 1 \in DOMAIN finished /\ p = finished[1]
    BY <1>1, <2>1
  <2>3. Times(finished, p) # 0 /\ Times(finished, p) \in Nat
    BY <1>1, <2>2, TimesSome, OccurrencesFinite
  <2>4. Len(results[p]) = 0
    BY <1>1, <2>1, <2>2 DEF Fetchable
  <2>. QED
    BY <2>2, <2>3, <2>4 DEF Announced
<1>3. \A p \in Processes : Times(finished, p) = 0
  BY <1>2, TimesEmpty
<1>4. \A p \in Processes : worker[p] # "finish" => Len(results[p]) = 0
  BY <1>3 DEF Announced
<1>. QED
  BY <1>1, <1>2, <1>4

LEMMA AnnouncedLeftAlone ==
    ASSUME Announced, presses' = 0 => presses = 0, UNCHANGED <<finished, results>>,
           \A p \in Processes : worker'[p] = "finish" <=> worker[p] = "finish"
    PROVE  Announced'
BY DEF Announced

LEMMA AnnouncedFetch ==
    ASSUME ShapesInv, Announced, presses' = 0 => presses = 0,
           NEW rounds, NEW next, FetchStorage(rounds) \/ FetchNothing(next), worker' = worker
    PROVE  Announced'
<1>1. finished \in Seq(Processes) /\ results \in [Processes -> Seq(Files)]
  BY DEF ShapesInv, PipelineTypeOK
<1>2. CASE FetchNothing(next)
  <2>1. presses = 0 => finished' = finished
    BY <1>2, NothingMoreToFetch DEF FetchNothing
  <2>. QED
    BY <1>2, <2>1 DEF FetchNothing, Announced
<1>3. CASE FetchStorage(rounds)
  <2>. DEFINE h == Head(finished)
  <2>1. finished # <<>> /\ results[h] # <<>> /\ finished' = Tail(finished)
    BY <1>3 DEF FetchStorage, Fetchable
  <2>2. h \in Processes
    BY <1>1, <2>1
  <2>3. \A p \in Processes : results'[p] = IF p = h THEN Tail(results[h]) ELSE results[p]
    BY <1>1, <1>3, <2>2 DEF FetchStorage, Update
  <2>4. results[h] \in Seq(Files) /\ Len(Tail(results[h])) = Len(results[h]) - 1
    <3>1. results[h] \in Seq(Files)
      BY <1>1, <2>2
    <3>. QED
      BY <2>1, <3>1
  <2>5. \A p \in Processes :
            Times(finished, p) = Times(finished', p) + (IF h = p THEN 1 ELSE 0)
    BY <1>1, <2>1, TimesTail
  <2>6. finished' \in Seq(Processes)
    BY <1>1, <2>1
  <2>7. \A p \in Processes : Times(finished', p) \in Nat
    BY <2>6, OccurrencesFinite
  <2>. HIDE DEF h
  <2>8. SUFFICES ASSUME presses = 0, NEW p \in Processes
                 PROVE  Len(results'[p]) = Times(finished', p)
                                           + (IF worker'[p] = "finish" THEN 1 ELSE 0)
    BY DEF Announced
  <2>9. /\ Len(results[p]) = Times(finished, p) + (IF worker[p] = "finish" THEN 1 ELSE 0)
        /\ Times(finished', p) \in Nat
    BY <2>7, <2>8 DEF Announced
  <2>10. CASE p = h
    <3>1. results'[p] = Tail(results[h]) /\ Times(finished, p) = Times(finished', p) + 1
      BY <2>3, <2>5, <2>10
    <3>2. Len(results'[p]) = Len(results[p]) - 1
      BY <2>4, <2>10, <3>1
    <3>. QED
      BY <2>9, <3>1, <3>2
  <2>11. CASE p # h
    <3>1. results'[p] = results[p] /\ Times(finished, p) = Times(finished', p) + 0
      BY <2>3, <2>5, <2>11
    <3>. QED
      BY <2>9, <3>1
  <2>. QED
    BY <2>10, <2>11
<1>. QED
  BY <1>2, <1>3

LEMMA AnnouncedNext ==
    ASSUME DieAnywhere = FALSE, ShapesInv, Announced, [Next]_vars
    PROVE  Announced'
<1>0. presses' = 0 => presses = 0 /\ told = {}
  BY PressesBefore
<1>1. finished \in Seq(Processes) /\ results \in [Processes -> Seq(Files)]
      /\ worker \in [Processes -> WorkerStates]
      /\ \A p \in Processes : inHand[p] \in Files <=> Busy(p)
  BY DEF ShapesInv, PipelineTypeOK, HandsFit
<1>2. CASE BuildFetch
  <2>1. PICK rounds, next : FetchStorage(rounds) \/ FetchNothing(next)
    BY <1>2 DEF BuildFetch
  <2>2. worker' = worker
    BY <1>2 DEF BuildFetch
  <2>. QED
    BY <1>0, <2>1, <2>2, AnnouncedFetch
<1>3. ASSUME NEW q \in Processes, IndexFile(q)
      PROVE  Announced'
  <2>1. SUFFICES ASSUME presses = 0, told = {}, presses' = 0, NEW p \in Processes
                 PROVE  Len(results'[p]) = Times(finished', p)
                                           + (IF worker'[p] = "finish" THEN 1 ELSE 0)
    BY <1>0 DEF Announced
  <2>2. worker[q] = "index" /\ worker' = Update(worker, q, "finish") /\ finished' = finished
    BY <1>3 DEF IndexFile
  <2>3. results' = Update(results, q, Append(results[q], inHand[q]))
    BY <1>3, <2>1 DEF IndexFile
  <2>4. inHand[q] \in Files /\ results[q] \in Seq(Files)
    BY <1>1, <2>2 DEF Busy
  <2>5. Len(Append(results[q], inHand[q])) = Len(results[q]) + 1
    BY <2>4
  <2>6. Times(finished, p) \in Nat
    BY <1>1, OccurrencesFinite
  <2>7. Len(results[p]) = Times(finished, p) + (IF worker[p] = "finish" THEN 1 ELSE 0)
    BY <2>1 DEF Announced
  <2>8. CASE p = q
    BY <1>1, <2>2, <2>3, <2>5, <2>6, <2>7, <2>8 DEF Update
  <2>9. CASE p # q
    BY <1>1, <2>2, <2>3, <2>7, <2>9 DEF Update
  <2>. QED
    BY <2>8, <2>9
<1>4. ASSUME NEW q \in Processes, FinishIndexing(q)
      PROVE  Announced'
  <2>1. SUFFICES ASSUME presses = 0, NEW p \in Processes
                 PROVE  Len(results'[p]) = Times(finished', p)
                                           + (IF worker'[p] = "finish" THEN 1 ELSE 0)
    BY <1>0 DEF Announced
  <2>2. worker[q] = "finish" /\ worker' = Update(worker, q, "pop") /\ results' = results
        /\ finished' = Append(finished, q)
    BY <1>4 DEF FinishIndexing
  <2>3. Times(finished', p) = Times(finished, p) + (IF q = p THEN 1 ELSE 0)
    BY <1>1, <2>2, TimesAppend
  <2>4. Times(finished, p) \in Nat
    BY <1>1, OccurrencesFinite
  <2>5. Len(results[p]) = Times(finished, p) + (IF worker[p] = "finish" THEN 1 ELSE 0)
    BY <2>1 DEF Announced
  <2>. QED
    BY <1>1, <2>2, <2>3, <2>4, <2>5 DEF Update
<1>5. CASE ~BuildFetch /\ ~ \E q \in Processes : IndexFile(q) \/ FinishIndexing(q)
  <2>1. CASE \/ Fill \/ Build \/ Merge \/ Inject \/ InjectRest \/ PressStop
             \/ HandleInterrupt \/ UNCHANGED vars
    <3>1. UNCHANGED <<finished, results>>
      BY <1>5, <2>1 DEF Fill, FillEnter, FillRefill, FillDone, Build, BuildEnter,
         BuildUpdate, BuildJoin, BuildRecord, Merge, MergeStep, Inject, InjectStep,
         InjectRest, SupplyUnchanged, PressStop, HandleInterrupt, Handler, vars, shared
    <3>2. worker' = worker \/ BuildEnter
      BY <1>5, <2>1 DEF Fill, FillEnter, FillRefill, FillDone, Build,
         BuildUpdate, BuildJoin, BuildRecord, Merge, MergeStep, Inject, InjectStep,
         InjectRest, SupplyUnchanged, PressStop, HandleInterrupt, Handler, vars, workers
    <3>3. BuildEnter => \A p \in Processes : worker[p] = "off" /\ worker'[p] = "start"
      BY DEF BuildEnter, ShapesInv, HandsFit
    <3>. QED
      BY <1>0, <3>1, <3>2, <3>3, AnnouncedLeftAlone
  <2>2. ASSUME NEW q \in Processes, Work(q) \/ Die(q) \/ SeeFlag(q)
        PROVE  Announced'
    <3>1. UNCHANGED <<finished, results>>
      BY <1>5, <2>2 DEF Work, Die, SeeFlag, MissingExecutable, EnterLoop, StartProcess,
         EndThread, PopCommand, NoCommandLeft, StartIndexing, GiveUp, ProcessReturns,
         shared
    <3>2. \A p \in Processes : worker'[p] = "finish" <=> worker[p] = "finish"
      BY <1>1, <1>5, <2>2 DEF Work, Die, SeeFlag, MissingExecutable, EnterLoop,
         StartProcess, EndThread, PopCommand, NoCommandLeft, StartIndexing, GiveUp,
         ProcessReturns, Update
    <3>. QED
      BY <1>0, <3>1, <3>2, AnnouncedLeftAlone
  <2>. QED
    BY <2>1, <2>2 DEF Next
<1>. QED
  BY <1>2, <1>3, <1>4, <1>5

LEMMA BuildEndsNext ==
    ASSUME ShapesInv, QueueRunDry, Announced, BuildEnds, [Next]_vars
    PROVE  BuildEnds'
<1>0. Undisturbed' => Undisturbed /\ told = {}
  BY UndisturbedBefore
<1>1. results \in [Processes -> Seq(Files)] /\ worker \in [Processes -> WorkerStates]
  BY DEF ShapesInv, PipelineTypeOK, HandsFit
<1>2. Undisturbed => ~interrupted
  BY DEF QueueRunDry
<1>3. CASE BuildEnter
  BY <1>3 DEF BuildEnter, BuildEnds, BuildStates
<1>4. CASE BuildUpdate
  <2>1. worker' = worker
    BY <1>4 DEF BuildUpdate
  <2>2. build' \in {"update", "fetch"} \/ (build' = "join" /\ (interrupted \/ NoThreadRuns))
    BY <1>4 DEF BuildUpdate
  <2>. QED
    BY <1>0, <1>2, <2>1, <2>2 DEF BuildEnds, BuildStates, NoThreadRuns
<1>5. CASE BuildFetch
  <2>1. worker' = worker
    BY <1>5 DEF BuildFetch
  <2>2. \/ build = "fetch" /\ build' \in {"fetch", "update"}
        \/ build \in {"drain", "draining"} /\ build' \in {"drain", "draining"}
        \/ build = "drain" /\ build' = "record" /\ ~Fetchable /\ results' = results
    BY <1>5 DEF BuildFetch, FetchStorage, FetchNothing
  <2>3. CASE build = "drain" /\ build' = "record" /\ ~Fetchable /\ results' = results
    <3>1. Undisturbed => \A p \in Processes : worker[p] = "ended"
      BY <2>3 DEF BuildEnds
    <3>2. Undisturbed => \A p \in Processes : results[p] = <<>>
      BY <2>3, <3>1, NothingMoreToFetch DEF Undisturbed
    <3>. QED
      BY <1>0, <2>1, <2>3, <3>1, <3>2 DEF BuildEnds, BuildStates
  <2>. QED
    BY <1>0, <2>1, <2>2, <2>3 DEF BuildEnds, BuildStates
<1>6. CASE BuildJoin
  <2>1. worker' = worker
    BY <1>6 DEF BuildJoin
  <2>2. /\ build = "join" /\ build' \in {"record", "drain"}
        /\ interrupted \/ build' = "drain"
        /\ \A p \in Processes : worker[p] \in {"ended", "gone"}
    BY <1>6 DEF BuildJoin, AfterJoin
  <2>. QED
    BY <1>0, <1>2, <2>1, <2>2 DEF BuildEnds, BuildStates
<1>7. CASE BuildRecord
  BY <1>0, <1>7 DEF BuildRecord, BuildEnds, BuildStates
<1>8. ASSUME NEW q \in Processes, Work(q) \/ Die(q) \/ SeeFlag(q)
      PROVE  BuildEnds'
  <2>1. build' = build
    BY <1>8 DEF Work, Die, SeeFlag, MissingExecutable, EnterLoop, StartProcess, EndThread,
       PopCommand, NoCommandLeft, StartIndexing, GiveUp, IndexFile, FinishIndexing,
       ProcessReturns, WorkerUnchanged, tasks
  <2>2. \/ worker' = worker /\ results' = results
        \/ worker[q] \notin {"ended", "gone"}
    BY <1>8 DEF Work, Die, SeeFlag, Alive, MissingExecutable, EnterLoop, StartProcess,
       EndThread, PopCommand, NoCommandLeft, StartIndexing, GiveUp, IndexFile,
       FinishIndexing, ProcessReturns, shared
  <2>. QED
    BY <1>0, <2>1, <2>2 DEF BuildEnds
<1>9. CASE \/ Fill \/ Merge \/ Inject \/ InjectRest \/ PressStop \/ HandleInterrupt
           \/ UNCHANGED vars
  <2>1. UNCHANGED <<build, worker, results>>
    BY <1>9 DEF Fill, FillEnter, FillRefill, FillDone, Merge, MergeStep, Inject,
       InjectStep, InjectRest, SupplyUnchanged, PressStop, HandleInterrupt, Handler, vars,
       tasks, workers, shared
  <2>. QED
    BY <1>0, <2>1 DEF BuildEnds
<1>. QED
  BY <1>3, <1>4, <1>5, <1>6, <1>7, <1>8, <1>9 DEF Next, Build

LEMMA CrashesLeftAlone ==
    ASSUME CrashesTrue, died \subseteq died', crashed' = crashed,
           \A p \in Processes : \A f \in Files :
               current'[p] = f => \/ current[p] = f
                                  \/ worker'[p] \in {"index", "finish"} /\ inHand'[p] = f,
           \A p \in Processes : \A f \in Files :
               worker[p] \in {"index", "finish"} /\ inHand[p] = f =>
                   \/ worker'[p] \in {"index", "finish"} /\ inHand'[p] = f
                   \/ current'[p] # f
                   \/ f \in died',
           \A s \in AllStorages' : \A f \in Files :
               CrashError(f) \in s => \/ f \in died'
                                      \/ \E t \in AllStorages : CrashError(f) \in t
    PROVE  CrashesTrue'
<1>1. crashed' \subseteq died'
  BY DEF CrashesTrue
<1>2. \A s \in AllStorages' : \A f \in Files : CrashError(f) \in s => f \in died'
  BY DEF CrashesTrue
<1>3. ASSUME NEW p \in Processes, NEW f \in Files, current'[p] = f
      PROVE  f \in died' \/ (worker'[p] \in {"index", "finish"} /\ inHand'[p] = f)
  BY <1>3 DEF CrashesTrue
<1>. QED
  BY <1>1, <1>2, <1>3 DEF CrashesTrue

LEMMA CrashesWork ==
    ASSUME ShapesInv, CrashesTrue, NEW q \in Processes, Work(q) \/ Die(q) \/ SeeFlag(q)
    PROVE  CrashesTrue'
<1>1. /\ worker \in [Processes -> WorkerStates] /\ inHand \in [Processes -> Places]
      /\ current \in [Processes -> Places]
      /\ \A p \in Processes : inHand[p] \in Files <=> Busy(p)
  BY DEF ShapesInv, PipelineTypeOK, HandsFit
<1>2. AllStorages' = AllStorages
  BY DEF Work, Die, SeeFlag, MissingExecutable, EnterLoop, StartProcess, EndThread,
     PopCommand, NoCommandLeft, StartIndexing, GiveUp, IndexFile, FinishIndexing,
     ProcessReturns, WorkerUnchanged, supply, AllStorages
<1>3. CASE StartIndexing(q)
  <2>1. /\ worker[q] = "wait" /\ worker' = Update(worker, q, "index")
        /\ crashed' = crashed \cup ({current[q]} \ {Nobody})
        /\ current' = Update(current, q, inHand[q])
        /\ inHand' = inHand /\ died' = died
    BY <1>3 DEF StartIndexing
  <2>2. current[q] # Nobody => current[q] \in died
    BY <1>1, <2>1 DEF CrashesTrue, Places
  <2>3. \A p \in Processes : p # q => worker'[p] = worker[p] /\ current'[p] = current[p]
    BY <1>1, <2>1 DEF Update
  <2>4. worker'[q] = "index" /\ current'[q] = inHand[q]
    BY <1>1, <2>1 DEF Update
  <2>5. crashed' \subseteq died'
    BY <2>1, <2>2 DEF CrashesTrue
  <2>6. \A p \in Processes : \A f \in Files : current'[p] = f =>
            f \in died' \/ (worker'[p] \in {"index", "finish"} /\ inHand'[p] = f)
    BY <2>1, <2>3, <2>4 DEF CrashesTrue
  <2>. QED
    BY <1>2, <2>1, <2>5, <2>6 DEF CrashesTrue
<1>4. CASE FinishIndexing(q)
  <2>1. /\ worker' = Update(worker, q, "pop") /\ inHand' = Update(inHand, q, Nobody)
        /\ current' = ClearCurrent(q)
        /\ died' = died /\ crashed' = crashed
    BY <1>4 DEF FinishIndexing
  <2>2. current'[q] = Nobody
    BY <1>1, <2>1 DEF ClearCurrent, Processes
  <2>3. \A p \in Processes : \A f \in Files : current'[p] = f => current[p] = f
    BY <1>1, <2>1, PipelineAssumption DEF ClearCurrent
  <2>4. \A p \in Processes : p # q => worker'[p] = worker[p] /\ inHand'[p] = inHand[p]
    BY <1>1, <2>1 DEF Update
  <2>. QED
    BY <1>2, <2>1, <2>2, <2>3, <2>4, PipelineAssumption, CrashesLeftAlone
<1>5. CASE Die(q)
  <2>1. /\ worker' = Update(worker, q, "check") /\ inHand' = Update(inHand, q, Nobody)
        /\ died' = died \cup ({inHand[q]} \ {Nobody})
        /\ current' = current /\ crashed' = crashed
    BY <1>5 DEF Die, shared
  <2>2. \A p \in Processes : p # q => worker'[p] = worker[p] /\ inHand'[p] = inHand[p]
    BY <1>1, <2>1 DEF Update
  <2>. QED
    BY <1>2, <2>1, <2>2, PipelineAssumption, CrashesLeftAlone
<1>6. CASE \/ MissingExecutable(q) \/ EnterLoop(q) \/ StartProcess(q) \/ EndThread(q)
           \/ PopCommand(q) \/ NoCommandLeft(q) \/ GiveUp(q) \/ IndexFile(q)
           \/ ProcessReturns(q) \/ SeeFlag(q)
  <2>1. UNCHANGED <<current, crashed, died>>
    BY <1>6 DEF MissingExecutable, EnterLoop, StartProcess, EndThread, PopCommand,
       NoCommandLeft, GiveUp, IndexFile, ProcessReturns, SeeFlag, shared
  <2>2. \A p \in Processes : worker[p] \in {"index", "finish"} =>
            worker'[p] \in {"index", "finish"} /\ inHand'[p] = inHand[p]
    BY <1>1, <1>6 DEF MissingExecutable, EnterLoop, StartProcess, EndThread, PopCommand,
       NoCommandLeft, GiveUp, IndexFile, ProcessReturns, SeeFlag, Update
  <2>. QED
    BY <1>2, <2>1, <2>2, CrashesLeftAlone
<1>. QED
  BY <1>3, <1>4, <1>5, <1>6 DEF Work

LEMMA CrashesNext ==
    ASSUME ShapesInv, BuildEnds, CrashesTrue, [Next]_vars
    PROVE  CrashesTrue'
<1>1. CASE \E p \in Processes : Work(p) \/ Die(p) \/ SeeFlag(p)
  BY <1>1, CrashesWork
<1>2. CASE BuildEnter
  <2>1. UNCHANGED <<current, crashed, died, inHand, storages, mergeHand, injectHand, database>>
    BY <1>2 DEF BuildEnter, BuildUnchanged
  <2>2. \A p \in Processes : worker[p] = "off"
    BY <1>2 DEF BuildEnter, ShapesInv, HandsFit
  <2>. QED
    BY <2>1, <2>2, CrashesLeftAlone DEF AllStorages
<1>3. CASE BuildFetch
  <2>1. UNCHANGED <<current, crashed, died, inHand, worker, mergeHand, injectHand, database>>
    BY <1>3 DEF BuildFetch, BuildUnchanged
  <2>2. storages' = storages \/ \E g : storages' = storages \cup {{Facts(g)}}
    BY <1>3 DEF BuildFetch, FetchStorage, FetchNothing
  <2>3. \A s \in AllStorages' : \A f \in Files :
            CrashError(f) \in s => s \in AllStorages
    BY <2>1, <2>2, FactsDiffer DEF AllStorages
  <2>. QED
    BY <2>1, <2>3, CrashesLeftAlone
<1>4. CASE BuildUpdate \/ BuildJoin
  <2>1. UNCHANGED <<current, crashed, died, inHand, worker, storages, mergeHand, injectHand,
                    database>>
    BY <1>4 DEF BuildUpdate, BuildJoin, BuildUnchanged
  <2>. QED
    BY <2>1, CrashesLeftAlone DEF AllStorages
<1>5. CASE BuildRecord
  <2>1. UNCHANGED <<current, crashed, died, inHand, worker, mergeHand, injectHand, database>>
    BY <1>5 DEF BuildRecord, BuildUnchanged
  <2>2. \A f \in CrashedFiles : f \in Files => f \in died
    BY <1>5 DEF CrashedFiles, CrashesTrue, BuildRecord, BuildEnds
  <2>3. \A f, g : CrashError(f) = CrashError(g) => f = g
    BY DEF CrashError
  <2>4. \A s \in AllStorages' : \A f \in Files :
            CrashError(f) \in s => f \in died \/ s \in AllStorages
    BY <1>5, <2>1, <2>2, <2>3 DEF AllStorages, BuildRecord
  <2>. QED
    BY <2>1, <2>4, CrashesLeftAlone
<1>6. CASE Merge
  <2>1. UNCHANGED <<current, crashed, died, inHand, worker, injectHand, database>>
    BY <1>6 DEF Merge, MergeStep, SupplyUnchanged, workers, shared
  <2>2. \/ UNCHANGED <<mergeHand, storages>>
        \/ \E s \in storages : mergeHand' = mergeHand \cup {s} /\ storages' = storages \ {s}
        \/ PutMerged
    BY <1>6 DEF Merge, TakeToMerge
  <2>3. PutMerged => \A s \in storages' : s \in storages \/ s = UNION mergeHand \/ s \in mergeHand
    BY DEF PutMerged
  <2>4. PutMerged => mergeHand' = {}
    BY DEF PutMerged
  <2>5. \A s \in AllStorages' : s \in AllStorages \/ s = UNION mergeHand
    BY <2>1, <2>2, <2>3, <2>4 DEF AllStorages
  <2>6. \A s \in AllStorages' : \A f \in Files :
            CrashError(f) \in s => \E t \in AllStorages : CrashError(f) \in t
    BY <2>5 DEF AllStorages
  <2>. QED
    BY <2>1, <2>6, CrashesLeftAlone
<1>7. CASE Inject \/ InjectRest
  <2>1. UNCHANGED <<current, crashed, died, inHand, worker, mergeHand>>
    BY <1>7 DEF Inject, InjectStep, InjectRest, SupplyUnchanged, workers, shared
  <2>2. \/ UNCHANGED <<injectHand, storages, database>>
        \/ /\ TakeToInject /\ database' = database
        \/ /\ database' = database \cup UNION injectHand
           /\ injectHand' = {} /\ storages' = storages
        \/ \E s \in storages : /\ storages' = storages \ {s}
                               /\ database' = database \cup s
                               /\ injectHand' = injectHand
    BY <1>7 DEF Inject, InjectRest
  <2>3. \A s \in AllStorages' : s \in AllStorages \/ s = database'
    BY <2>1, <2>2 DEF AllStorages, TakeToInject
  <2>4. \A x \in database' : \E t \in AllStorages : x \in t
    BY <2>2 DEF AllStorages, TakeToInject
  <2>5. \A s \in AllStorages' : \A f \in Files :
            CrashError(f) \in s => \E t \in AllStorages : CrashError(f) \in t
    BY <2>3, <2>4
  <2>. QED
    BY <2>1, <2>5, CrashesLeftAlone
<1>8. CASE Fill \/ PressStop \/ HandleInterrupt \/ UNCHANGED vars
  <2>1. UNCHANGED <<current, crashed, died, inHand, worker, mergeHand, injectHand, database>>
    BY <1>8 DEF Fill, FillEnter, FillRefill, FillDone, PressStop, HandleInterrupt, Handler,
       vars, workers, shared, supply
  <2>2. storages' \subseteq storages
    BY <1>8 DEF Fill, FillEnter, FillRefill, FillDone, PressStop, HandleInterrupt, vars,
       supply
  <2>3. AllStorages' \subseteq AllStorages
    BY <2>1, <2>2 DEF AllStorages
  <2>. QED
    BY <2>1, <2>3, CrashesLeftAlone
<1>. QED
  BY <1>1, <1>2, <1>3, <1>4, <1>5, <1>6, <1>7, <1>8 DEF Next, Build

LEMMA DeliveryInit == Init => DeliveryInv
<1>1. SUFFICES ASSUME Init
               PROVE  QueueRunDry /\ Announced /\ BuildEnds /\ CrashesTrue
  BY PlacesInit DEF DeliveryInv
<1>2. QueueRunDry
  BY <1>1 DEF Init, QueueRunDry, Dry
<1>3. Announced
  <2>1. \A p \in Processes : Times(finished, p) = 0 /\ Len(results[p]) = 0 /\ worker[p] = "off"
    BY <1>1, TimesEmpty DEF Init
  <2>. QED
    BY <2>1 DEF Announced
<1>4. BuildEnds
  BY <1>1 DEF Init, BuildEnds, BuildStates
<1>5. CrashesTrue
  BY <1>1, PipelineAssumption DEF Init, CrashesTrue, AllStorages
<1>. QED
  BY <1>2, <1>3, <1>4, <1>5

LEMMA DeliveryNext ==
    ASSUME DieAnywhere = FALSE
    PROVE  DeliveryInv /\ [Next]_vars => DeliveryInv'
<1>1. SUFFICES ASSUME DeliveryInv, [Next]_vars PROVE DeliveryInv'
  OBVIOUS
<1>2. ShapesInv
  BY <1>1 DEF DeliveryInv, PlacesInv
<1>. QED
  BY <1>1, <1>2, PlacesNext, QueueRunDryNext, AnnouncedNext, BuildEndsNext, CrashesNext
  DEF DeliveryInv

LEMMA DeliveryAtEnd == DeliveryInv => Delivered
<1>1. SUFFICES ASSUME DeliveryInv, Ended, presses = 0, executable, NEW f \in Files
               PROVE  /\ f \notin died => Facts(f) \in database
                                          \/ (f \in commands /\ ~FitsTheQueue)
                      /\ CrashError(f) \in database => f \in died
  BY DEF Delivered
<1>2. /\ fill = "done" /\ build = "done" /\ merge = "done" /\ inject = "done"
      /\ storages = {}
  BY <1>1 DEF Ended, GroupDone, tasks
<1>3. mergeHand = {} /\ injectHand = {}
  BY <1>1, <1>2 DEF DeliveryInv, PlacesInv, ShapesInv, TaskHandsFit
<1>4. \A p \in Processes : worker[p] = "ended" /\ results[p] = <<>>
  BY <1>1, <1>2 DEF DeliveryInv, BuildEnds, Undisturbed
<1>5. ~Waiting(f)
  <2>1. \A p \in Processes : DOMAIN results[p] = {}
    BY <1>4
  <2>. QED
    BY <2>1, WaitingIs
<1>6. Ahead(f) => f \in commands /\ ~FitsTheQueue
  <2>1. 1 \in Processes
    BY PipelineAssumption DEF Processes
  <2>2. provider = {} /\ (FitsTheQueue => commands = {})
    BY <1>1, <1>2, <1>4, <2>1 DEF DeliveryInv, QueueRunDry, Undisturbed, Dry
  <2>. QED
    BY <1>4, <2>2 DEF Ahead
<1>7. f \notin died => Held(f) \/ Ahead(f)
  BY <1>1, <1>5 DEF DeliveryInv, PlacesInv, FileOnce, Present
<1>8. Held(f) => Facts(f) \in database
  BY <1>2, <1>3, HeldIs DEF In, HasFacts
<1>9. CrashError(f) \in database => f \in died
  BY <1>1 DEF DeliveryInv, CrashesTrue, AllStorages
<1>. QED
  BY <1>6, <1>7, <1>8, <1>9

(* Processes that die only over files deliver: whatever they die over and  *)
(* however the tasks and the processes interleave, at the end the database *)
(* has the facts of every file but those and tells of a crash only for     *)
(* those; of a project that does not fit into the queue of commands, it    *)
(* has those of every file whose command somebody took.                    *)
THEOREM EverythingDelivered ==
    ASSUME DieAnywhere = FALSE
    PROVE  PipelineSpec => []Delivered
<1>1. Init => DeliveryInv
  BY DeliveryInit
<1>2. DeliveryInv /\ [Next]_vars => DeliveryInv'
  BY DeliveryNext
<1>3. DeliveryInv => Delivered
  BY DeliveryAtEnd
<1>. QED
  BY <1>1, <1>2, <1>3, PTL DEF PipelineSpec

=============================================================================
