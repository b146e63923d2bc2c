------------------------ MODULE LaunchControl_proofs ------------------------
(***************************************************************************)
(* Any number of tabs use the start command as StartCommand allows, and    *)
(* whatever is started was confirmed in a dialog that displayed it.        *)
(***************************************************************************)
EXTENDS LaunchControl, StartCommand_proofs

(* A status is of the past: not newer than the host, and of a generation   *)
(* it shares with the host it shows the command that generation has.       *)
Past(status, h) ==
    /\ status.generation <= h.generation
    /\ status.generation = h.generation => status.argv = h.config.argv

Seen(status, h) == status = Unseen \/ (status \in Statuses /\ Past(status, h))

TabInStep(t) ==
    /\ Seen(shown[t], host) /\ Seen(dialog[t], host)
    /\ Seen(poll[t], host) /\ Seen(task[t].about, host)

(* What a tab has asked to approve was confirmed.                          *)
AskedIsConfirmed(t) ==
    task[t].stage = "approving" => Shows(task[t].about) \in confirmed

ApprovalConfirmed ==
    sessionApproved => [generation |-> approvedGeneration, argv |-> approvedArgv] \in confirmed

StillServing == child # "destroyed" /\ host.generation <= MaxGeneration

LaunchInv ==
    /\ StartInv
    /\ StillServing
    /\ LaunchTypeOK
    /\ DOMAIN task = Tabs /\ DOMAIN shown = Tabs /\ DOMAIN dialog = Tabs /\ DOMAIN poll = Tabs
    /\ \A t \in Tabs : TabInStep(t) /\ AskedIsConfirmed(t)
    /\ ApprovalConfirmed
    /\ LaunchedWasConfirmed

-----------------------------------------------------------------------------
(* A status stays of the past.                                             *)
LEMMA SeenKept ==
    ASSUME StartTypeOK, UNCHANGED host \/ HostMoves, NEW v, Seen(v, host)
    PROVE  Seen(v, host')
  <1>1. CASE UNCHANGED host
    BY <1>1
  <1>2. CASE HostMoves
    <2>1. /\ host'.generation >= host.generation
          /\ host' \in HostStates(LocalConfigs)
          /\ host \in HostStates(LocalConfigs)
      BY <1>2, HostMovesShape DEF StartTypeOK
    <2>2. host'.generation = host.generation => host'.config = host.config
      <3>1. ASSUME NEW h \in HostStates(LocalConfigs), NEW k \in Restarted(h)
            PROVE  k.generation = h.generation /\ k.config = h.config
        BY DEF Restarted, IndexingStarted, IndexingFailed, HostStates
      <3>2. /\ IndexingFailed(host) \in HostStates(LocalConfigs)
            /\ IndexingFailed(host).generation = host.generation
            /\ IndexingFailed(host).config = host.config
        BY <2>1 DEF IndexingFailed, HostStates, IndexStates
      <3>3. ASSUME NEW c \in LocalConfigs
            PROVE  /\ IndexingSucceeded(host, c) \in HostStates(LocalConfigs)
                   /\ IndexingSucceeded(host, c).generation = host.generation + 1
        BY <2>1 DEF IndexingSucceeded, HostStates, IndexStates
      <3>4. host.generation \in Nat /\ host.generation + 1 # host.generation
        BY <2>1 DEF HostStates
      <3>5. QED
        BY <1>2, <2>1, <3>1, <3>2, <3>3, <3>4 DEF HostMoves
    <2>3. QED
      BY <2>1, <2>2 DEF Seen, Past, Statuses, HostStates
  <1>3. QED
    BY <1>1, <1>2

(* What launch() answers is of the past, and is an answer.                 *)
LEMMA LaunchSeen ==
    /\ StartTypeOK => Launch \in Statuses /\ Seen(Launch, host)
    /\ StartTypeOK' => Launch' \in Statuses /\ Seen(Launch', host')
  <1> USE DEF Launch, Statuses, Seen, Past, Launchable, Configured, Running
  <1>1. ASSUME StartTypeOK
        PROVE  Launch \in Statuses /\ Seen(Launch, host)
    <2>1. host.generation \in Nat /\ host.config.argv \in Argv \cup {NoArgv}
      BY <1>1, HostArgv
    <2>2. QED
      BY <2>1, StartAssumption
  <1>2. ASSUME StartTypeOK'
        PROVE  Launch' \in Statuses /\ Seen(Launch', host')
    <2>1. host'.generation \in Nat /\ host'.config.argv \in Argv \cup {NoArgv}
      BY <1>2, StartAssumption DEF StartTypeOK, HostStates
    <2>2. QED
      BY <2>1, StartAssumption
  <1>3. QED
    BY <1>1, <1>2

-----------------------------------------------------------------------------
(* Every step of the tabs and of the server is one the controller allows.  *)
LEMMA StepIsControllers ==
    ASSUME LaunchInv, [LaunchNext]_launchVars
    PROVE  [StartNext]_startVars
  <1>1. CASE UNCHANGED launchVars
    BY <1>1 DEF launchVars
  <1>2. CASE ServerMoves
    BY <1>2 DEF ServerMoves, StartNext, ControllerStep, LaunchInv, StillServing
  <1>3. ASSUME NEW t \in Tabs, ApproveArrives(t)
        PROVE  [StartNext]_startVars
    <2>1. task[t].about.generation \in 0..MaxGeneration
      <3>1. task[t].about # Unseen /\ Seen(task[t].about, host)
        BY <1>3 DEF LaunchInv, LaunchTypeOK, TabInStep, ApproveArrives
      <3>2. task[t].about.generation \in Nat /\ task[t].about.generation <= host.generation
        BY <3>1 DEF Seen, Past, Statuses
      <3>3. host.generation \in Nat /\ host.generation <= MaxGeneration
        BY HostArgv DEF LaunchInv, StartInv, StillServing
      <3>4. QED
        BY <3>2, <3>3, StartBounds
    <2>2. QED
      BY <1>3, <2>1 DEF ApproveArrives, StartNext, ControllerStep, LaunchInv, StillServing
  <1>4. ASSUME NEW t \in Tabs, StartArrives(t)
        PROVE  [StartNext]_startVars
    BY <1>4 DEF StartArrives, StartNext, ControllerStep, LaunchInv, StillServing
  <1>5. ASSUME NEW t \in Tabs, StopArrives(t)
        PROVE  [StartNext]_startVars
    BY <1>5 DEF StopArrives, StartNext, ControllerStep, LaunchInv, StillServing
  <1>6. ASSUME NEW t \in Tabs, TabStep(t), ~Handled(t)
        PROVE  UNCHANGED startVars
    BY <1>6 DEF TabStep, RunClicked, Confirm, Cancel, StopClicked, Lost, Received, Approved,
        Answered, Rejected, PollHandled, PollReceived, PollDropped
  <1>7. QED
    BY <1>1, <1>2, <1>3, <1>4, <1>5, <1>6 DEF LaunchNext, TabStep, Handled

(* Who changes what of the controller.                                     *)
LEMMA ServerMovesKeep ==
    ASSUME ServerMoves
    PROVE  /\ UNCHANGED host \/ HostMoves
           /\ UNCHANGED <<approvalVars, launched, tabVars, clickVars>>
  BY DEF ServerMoves, HostMoves, LateStarted, LateFailed, ChildFinished, ProcessStep,
      LeaderForks, LeaderExits, DescendantsExit, processVars, osVars

(* The server goes on, and indexing stays within its bound.                *)
LEMMA ServingKept ==
    ASSUME LaunchInv, [LaunchNext]_launchVars
    PROVE  StillServing'
  <1> USE DEF StillServing
  <1>1. CASE UNCHANGED launchVars
    BY <1>1 DEF launchVars, startVars, processVars, LaunchInv
  <1>2. CASE ServerMoves
    BY <1>2 DEF ServerMoves, HostMoves, LateStarted, LateFailed, ChildFinished, ProcessStep,
        LeaderForks, LeaderExits, DescendantsExit, processVars, osVars, LaunchInv
  <1>3. ASSUME NEW t \in Tabs, Handled(t)
        PROVE  StillServing'
    <2>1. Approve(task[t].about.generation) \/ Start \/ StartRefused \/ Stop \/ UNCHANGED startVars
      BY <1>3 DEF Handled, ApproveArrives, StartArrives, StopArrives
    <2>2. QED
      BY <2>1 DEF Approve, StartRefused, Start, ForkedInTime, ForkedSlowly, NotForked, Stop,
          GroupDies, LeaderStuck, KillRefused, LeaderEnds, processVars, startVars, LaunchInv
  <1>4. ASSUME NEW t \in Tabs, TabStep(t), ~Handled(t)
        PROVE  StillServing'
    BY <1>4 DEF TabStep, RunClicked, Confirm, Cancel, StopClicked, Lost, Received, Approved,
        Answered, Rejected, PollHandled, PollReceived, PollDropped, startVars, processVars,
        LaunchInv
  <1>5. QED
    BY <1>1, <1>2, <1>3, <1>4 DEF LaunchNext

-----------------------------------------------------------------------------
(* The tabs: their shapes, and that what they hold is of the past.         *)
TabOK(t) ==
    /\ {shown[t], dialog[t], poll[t]} \subseteq Statuses \cup {Unseen}
    /\ task[t] \in [stage : Stages, about : Statuses \cup {Unseen}]
    /\ task[t].stage \in {"approving", "approved", "starting", "succeeded"}
            <=> task[t].about # Unseen

TabsOK ==
    /\ DOMAIN task = Tabs /\ DOMAIN shown = Tabs /\ DOMAIN dialog = Tabs /\ DOMAIN poll = Tabs
    /\ \A t \in Tabs : TabOK(t) /\ TabInStep(t) /\ AskedIsConfirmed(t)

LEMMA InvParts ==
    /\ LaunchInv <=> /\ StartInv /\ StillServing /\ TabsOK /\ clicks \in 0..MaxClicks
                     /\ ApprovalConfirmed /\ LaunchedWasConfirmed
    /\ LaunchInv' <=> /\ StartInv' /\ StillServing' /\ TabsOK' /\ clicks' \in 0..MaxClicks
                      /\ ApprovalConfirmed' /\ LaunchedWasConfirmed'
  BY DEF LaunchInv, LaunchTypeOK, TabsOK, TabOK

(* While the host moves and the tabs do not.                               *)
LEMMA TabsKept ==
    ASSUME StartTypeOK, TabsOK, UNCHANGED tabVars, UNCHANGED host \/ HostMoves,
           confirmed \subseteq confirmed'
    PROVE  TabsOK'
  <1>1. ASSUME NEW t \in Tabs
        PROVE  TabOK(t)' /\ TabInStep(t)' /\ AskedIsConfirmed(t)'
    <2>1. TabOK(t)'
      BY DEF TabsOK, TabOK, tabVars
    <2>2. TabInStep(t)'
      BY SeenKept DEF TabsOK, TabInStep, tabVars
    <2>3. AskedIsConfirmed(t)'
      BY DEF TabsOK, AskedIsConfirmed, tabVars
    <2>4. QED
      BY <2>1, <2>2, <2>3
  <1>2. QED
    BY <1>1 DEF TabsOK, tabVars

(* When one tab alone moves, it is enough to look at that tab.             *)
LEMMA OneTabMoves ==
    ASSUME TabsOK, NEW t \in Tabs, UNCHANGED host, confirmed \subseteq confirmed',
           /\ DOMAIN task' = Tabs /\ DOMAIN shown' = Tabs
           /\ DOMAIN dialog' = Tabs /\ DOMAIN poll' = Tabs,
           \A u \in Tabs \ {t} : /\ shown'[u] = shown[u] /\ dialog'[u] = dialog[u]
                                 /\ poll'[u] = poll[u] /\ task'[u] = task[u],
           TabOK(t)', TabInStep(t)', AskedIsConfirmed(t)'
    PROVE  TabsOK'
  <1>1. ASSUME NEW u \in Tabs \ {t}
        PROVE  TabOK(u)' /\ TabInStep(u)' /\ AskedIsConfirmed(u)'
    <2>1. TabOK(u) /\ TabInStep(u) /\ AskedIsConfirmed(u)
      BY DEF TabsOK
    <2>2. QED
      BY <2>1 DEF TabOK, TabInStep, AskedIsConfirmed
  <1>2. QED
    BY <1>1 DEF TabsOK

-----------------------------------------------------------------------------
(* What the reader does.                                                   *)
LEMMA ClicksKeep ==
    ASSUME TabsOK, clicks \in 0..MaxClicks, NEW t \in Tabs,
           RunClicked(t) \/ Confirm(t) \/ Cancel(t) \/ StopClicked(t)
    PROVE  TabsOK' /\ clicks' \in 0..MaxClicks
  <1>1. TabOK(t) /\ TabInStep(t) /\ AskedIsConfirmed(t)
    BY DEF TabsOK
  <1>2. UNCHANGED host /\ confirmed \subseteq confirmed'
    BY DEF RunClicked, Confirm, Cancel, StopClicked, startVars, clickVars
  <1>3. clicks' \in 0..MaxClicks
    BY LaunchAssumption DEF RunClicked, Confirm, Cancel, StopClicked, clickVars
  <1>4. /\ DOMAIN task' = Tabs /\ DOMAIN shown' = Tabs
        /\ DOMAIN dialog' = Tabs /\ DOMAIN poll' = Tabs
        /\ \A u \in Tabs \ {t} : /\ shown'[u] = shown[u] /\ dialog'[u] = dialog[u]
                                /\ poll'[u] = poll[u] /\ task'[u] = task[u]
    BY DEF TabsOK, RunClicked, Confirm, Cancel, StopClicked
  <1>5. TabOK(t)' /\ TabInStep(t)' /\ AskedIsConfirmed(t)'
    <2> USE <1>1, <1>2 DEF TabsOK, TabOK, TabInStep, AskedIsConfirmed
    <2>1. CASE RunClicked(t)
      BY <2>1 DEF RunClicked, clickVars
    <2>2. CASE Confirm(t)
      <3>1. /\ task'[t] = [stage |-> "approving", about |-> dialog[t]]
            /\ dialog[t] # Unseen /\ dialog' = dialog /\ shown' = shown /\ poll' = poll
            /\ Shows(dialog[t]) \in confirmed'
        BY <2>2 DEF Confirm
      <3>2. task'[t].stage = "approving" /\ task'[t].about = dialog[t]
        BY <3>1
      <3>3. task'[t] \in [stage : Stages, about : Statuses \cup {Unseen}]
        BY <3>1 DEF Stages
      <3>4. QED
        BY <3>1, <3>2, <3>3
    <2>3. CASE Cancel(t)
      BY <2>3 DEF Cancel, Seen, clickVars
    <2>4. CASE StopClicked(t)
      BY <2>4 DEF StopClicked, Seen, Stages, clickVars
    <2>5. QED
      BY <2>1, <2>2, <2>3, <2>4
  <1>6. QED
    BY <1>1, <1>2, <1>3, <1>4, <1>5, OneTabMoves

(* What the page does with answers, and what is lost.                      *)
LEMMA AnswersKeep ==
    ASSUME StartTypeOK, TabsOK, clicks \in 0..MaxClicks, NEW t \in Tabs,
           Lost(t) \/ Received(t) \/ PollHandled(t) \/ PollReceived(t) \/ PollDropped(t)
    PROVE  TabsOK' /\ clicks' \in 0..MaxClicks
  <1> USE DEF Received
  <1>1. TabOK(t) /\ TabInStep(t) /\ AskedIsConfirmed(t)
    BY DEF TabsOK
  <1>2. UNCHANGED <<host, confirmed, clicks>>
    BY DEF Lost, Approved, Answered, Rejected, PollHandled, PollReceived, PollDropped,
        startVars, clickVars
  <1>3. /\ DOMAIN task' = Tabs /\ DOMAIN shown' = Tabs
        /\ DOMAIN dialog' = Tabs /\ DOMAIN poll' = Tabs
        /\ \A u \in Tabs \ {t} : /\ shown'[u] = shown[u] /\ dialog'[u] = dialog[u]
                                /\ poll'[u] = poll[u] /\ task'[u] = task[u]
    BY DEF TabsOK, Lost, Approved, Answered, Rejected, PollHandled, PollReceived, PollDropped
  <1>4. TabOK(t)' /\ TabInStep(t)' /\ AskedIsConfirmed(t)'
    <2> USE <1>1, <1>2 DEF TabsOK, TabOK, TabInStep, AskedIsConfirmed
    <2>1. CASE Lost(t)
      BY <2>1 DEF Lost, Failed, Seen, Stages
    <2>2. CASE Approved(t)
      <3>1. /\ task'[t] = [task[t] EXCEPT !.stage = "starting"]
            /\ task[t].stage = "approved"
            /\ UNCHANGED <<shown, dialog, poll>>
        BY <2>2 DEF Approved
      <3>2. /\ task'[t].stage = "starting" /\ task'[t].about = task[t].about
            /\ task'[t] \in [stage : Stages, about : Statuses \cup {Unseen}]
        BY <3>1 DEF Stages
      <3>3. QED
        BY <3>1, <3>2
    <2>3. CASE Answered(t)
      BY <2>3 DEF Answered, NoTask, Seen, Stages
    <2>4. CASE Rejected(t)
      BY <2>4 DEF Rejected, NoTask, Seen, Stages
    <2>5. CASE PollHandled(t)
      BY <2>5, LaunchSeen DEF PollHandled
    <2>6. CASE PollReceived(t)
      BY <2>6 DEF PollReceived, Seen
    <2>7. CASE PollDropped(t)
      BY <2>7 DEF PollDropped, Seen
    <2>8. QED
      BY <2>1, <2>2, <2>3, <2>4, <2>5, <2>6, <2>7
  <1>5. QED
    BY <1>1, <1>2, <1>3, <1>4, OneTabMoves

(* What the server does with requests.                                     *)
LEMMA HandlersKeep ==
    ASSUME StartTypeOK, StartTypeOK', TabsOK, clicks \in 0..MaxClicks, NEW t \in Tabs, Handled(t)
    PROVE  TabsOK' /\ clicks' \in 0..MaxClicks
  <1> USE DEF Handled
  <1>1. TabOK(t) /\ TabInStep(t) /\ AskedIsConfirmed(t)
    BY DEF TabsOK
  <1>2. UNCHANGED <<host, confirmed, clicks, shown, dialog, poll>>
    BY DEF ApproveArrives, StartArrives, StopArrives, Approve, Start, StartRefused, Stop,
        startVars, clickVars
  <1>3. /\ DOMAIN task' = Tabs
        /\ \A u \in Tabs \ {t} : task'[u] = task[u]
    BY DEF TabsOK, ApproveArrives, StartArrives, StopArrives
  <1>4. \/ task'[t] = [task[t] EXCEPT !.stage = "approved"] /\ task[t].stage = "approving"
        \/ task'[t] = Failed
        \/ task'[t] = Succeeded(Launch')
    BY DEF TabsOK, ApproveArrives, StartArrives, StopArrives
  <1>5. TabOK(t)' /\ TabInStep(t)' /\ AskedIsConfirmed(t)'
    <2> USE <1>1, <1>2 DEF TabsOK, TabOK, TabInStep, AskedIsConfirmed
    <2>1. CASE task'[t] = [task[t] EXCEPT !.stage = "approved"] /\ task[t].stage = "approving"
      <3>1. /\ task'[t].stage = "approved" /\ task'[t].about = task[t].about
            /\ task'[t] \in [stage : Stages, about : Statuses \cup {Unseen}]
        BY <2>1 DEF Stages
      <3>2. QED
        BY <2>1, <3>1
    <2>2. CASE task'[t] = Failed
      BY <2>2 DEF Failed, Seen, Stages
    <2>3. CASE task'[t] = Succeeded(Launch')
      <3>1. Launch' \in Statuses /\ Seen(Launch', host') /\ Launch' # Unseen
        BY LaunchSeen, LaunchAssumption
      <3>2. /\ task'[t].stage = "succeeded" /\ task'[t].about = Launch'
            /\ task'[t] \in [stage : Stages, about : Statuses \cup {Unseen}]
        BY <2>3, <3>1 DEF Succeeded, Stages
      <3>3. QED
        BY <3>1, <3>2
    <2>4. QED
      BY <1>4, <2>1, <2>2, <2>3
  <1>6. QED
    BY <1>1, <1>2, <1>3, <1>5, OneTabMoves DEF TabsOK

-----------------------------------------------------------------------------
(* What is approved was confirmed: the request names the generation only,  *)
(* but the status it was taken from is of the past.                        *)
LEMMA ApprovalsAreConfirmed ==
    ASSUME LaunchInv, NEW t \in Tabs, Handled(t)
    PROVE  ApprovalConfirmed' /\ LaunchedWasConfirmed'
  <1> USE DEF Handled
  <1>1. TabsOK /\ StartTypeOK /\ ApprovalConfirmed /\ LaunchedWasConfirmed
    BY InvParts DEF StartInv
  <1>2. confirmed' = confirmed
    BY DEF ApproveArrives, StartArrives, StopArrives, clickVars
  <1>3. CASE ApproveArrives(t)
    <2> DEFINE g == task[t].about.generation
    <2>1. /\ Approve(g) /\ launched' = launched
          /\ Shows(task[t].about) \in confirmed
          /\ Seen(task[t].about, host) /\ task[t].about # Unseen
      BY <1>1, <1>3 DEF ApproveArrives, Approve, processVars, TabsOK, TabOK, TabInStep,
          AskedIsConfirmed
    <2>2. CASE ApprovalGranted(g)
      <3>1. g = host.generation /\ task[t].about.argv = host.config.argv
        BY <2>1, <2>2 DEF ApprovalGranted, Seen, Past
      <3>2. [generation |-> approvedGeneration', argv |-> approvedArgv'] \in confirmed
        BY <2>1, <2>2, <3>1 DEF Approve, Shows
      <3>3. QED
        BY <1>1, <1>2, <2>1, <3>2 DEF ApprovalConfirmed, LaunchedWasConfirmed
    <2>3. CASE ~ApprovalGranted(g)
      BY <1>1, <1>2, <2>1, <2>3 DEF Approve, ApprovalConfirmed, LaunchedWasConfirmed
    <2>4. QED
      BY <2>2, <2>3
  <1>4. CASE StartArrives(t)
    <2>1. CASE Start
      <3>1. /\ sessionApproved /\ sessionApproved' = FALSE
            /\ launched' = [generation |-> approvedGeneration, argv |-> approvedArgv]
        BY <2>1 DEF Start, StartPermitted, ApprovalMatches
      <3>2. QED
        BY <1>1, <1>2, <3>1 DEF ApprovalConfirmed, LaunchedWasConfirmed
    <2>2. CASE StartRefused
      BY <1>1, <1>2, <2>2 DEF StartRefused, processVars, ApprovalConfirmed, LaunchedWasConfirmed
    <2>3. CASE UNCHANGED startVars
      BY <1>1, <1>2, <2>3 DEF startVars, processVars, approvalVars, ApprovalConfirmed,
          LaunchedWasConfirmed
    <2>4. QED
      BY <1>4, <2>1, <2>2, <2>3 DEF StartArrives
  <1>5. CASE StopArrives(t)
    BY <1>1, <1>2, <1>5 DEF StopArrives, Stop, ApprovalConfirmed, LaunchedWasConfirmed
  <1>6. QED
    BY <1>3, <1>4, <1>5

-----------------------------------------------------------------------------
LEMMA LaunchInvInit == LaunchInit => LaunchInv
  <1> SUFFICES ASSUME LaunchInit
               PROVE  LaunchInv
    OBVIOUS
  <1> USE DEF LaunchInit
  <1>1. StartInv
    BY StartInvInit
  <1>2. StillServing
    BY StartBounds DEF StartInit, InitialHost, StillServing
  <1>3. TabsOK
    BY DEF TabsOK, TabOK, TabInStep, AskedIsConfirmed, Seen, NoTask, Stages
  <1>4. clicks \in 0..MaxClicks
    BY LaunchAssumption
  <1>5. ApprovalConfirmed /\ LaunchedWasConfirmed
    BY DEF StartInit, ApprovalConfirmed, LaunchedWasConfirmed
  <1>6. QED
    BY <1>1, <1>2, <1>3, <1>4, <1>5, InvParts

LEMMA LaunchInvStep == LaunchInv /\ [LaunchNext]_launchVars => LaunchInv'
  <1> SUFFICES ASSUME LaunchInv, [LaunchNext]_launchVars
               PROVE  LaunchInv'
    OBVIOUS
  <1>1. /\ StartInv /\ StartTypeOK /\ StillServing /\ TabsOK /\ clicks \in 0..MaxClicks
        /\ ApprovalConfirmed /\ LaunchedWasConfirmed
    BY InvParts DEF StartInv
  <1>2. StartInv' /\ StartTypeOK'
    BY <1>1, StepIsControllers, StartInvStep DEF StartInv
  <1>3. StillServing'
    BY ServingKept
  <1>4. TabsOK' /\ clicks' \in 0..MaxClicks /\ ApprovalConfirmed' /\ LaunchedWasConfirmed'
    <2>1. ASSUME UNCHANGED <<approvalVars, launched, clickVars>>
          PROVE  /\ ApprovalConfirmed' /\ LaunchedWasConfirmed'
                 /\ clicks' = clicks /\ confirmed' = confirmed
      BY <1>1, <2>1 DEF ApprovalConfirmed, LaunchedWasConfirmed, approvalVars, clickVars
    <2>2. CASE UNCHANGED launchVars
      <3>1. UNCHANGED <<approvalVars, launched, clickVars, tabVars, host>>
        BY <2>2 DEF launchVars, startVars, processVars
      <3>2. QED
        BY <1>1, <2>1, <3>1, TabsKept
    <2>3. CASE ServerMoves
      BY <1>1, <2>1, <2>3, ServerMovesKeep, TabsKept
    <2>4. ASSUME NEW t \in Tabs, Handled(t)
          PROVE  /\ TabsOK' /\ clicks' \in 0..MaxClicks
                 /\ ApprovalConfirmed' /\ LaunchedWasConfirmed'
      BY <1>1, <1>2, <2>4, HandlersKeep, ApprovalsAreConfirmed
    <2>5. ASSUME NEW t \in Tabs, TabStep(t), ~Handled(t)
          PROVE  /\ TabsOK' /\ clicks' \in 0..MaxClicks
                 /\ ApprovalConfirmed' /\ LaunchedWasConfirmed'
      <3>1. TabsOK' /\ clicks' \in 0..MaxClicks
        BY <1>1, <2>5, ClicksKeep, AnswersKeep DEF TabStep
      <3>2. UNCHANGED <<approvalVars, launched>> /\ confirmed \subseteq confirmed'
        BY <2>5 DEF TabStep, RunClicked, Confirm, Cancel, StopClicked, Lost, Received,
            Approved, Answered, Rejected, PollHandled, PollReceived, PollDropped, startVars,
            processVars, clickVars
      <3>3. QED
        BY <1>1, <3>1, <3>2 DEF ApprovalConfirmed, LaunchedWasConfirmed, approvalVars
    <2>6. QED
      BY <2>2, <2>3, <2>4, <2>5 DEF LaunchNext
  <1>5. QED
    BY <1>2, <1>3, <1>4, InvParts

THEOREM LaunchInvariant == LaunchSpec => []LaunchInv
  BY LaunchInvInit, LaunchInvStep, PTL DEF LaunchSpec

(* The variables of the tabs keep their shapes.                            *)
THEOREM LaunchTypeCorrect == LaunchSpec => []LaunchTypeOK
  BY LaunchInvariant, PTL DEF LaunchInv

(* Whatever is started, by any number of tabs whose requests and answers   *)
(* are delayed and lost, was confirmed in a dialog that displayed it.      *)
THEOREM NothingUnconfirmedStarts == LaunchSpec => []LaunchedWasConfirmed
  BY LaunchInvariant, PTL DEF LaunchInv

(* Whatever the tabs do, the controller does what StartCommand allows, so  *)
(* that its theorems hold here too.                                        *)
THEOREM TabsKeepStartSpec == LaunchSpec => StartSpec
  <1>1. LaunchInit => StartInit
    BY DEF LaunchInit
  <1>2. QED
    BY <1>1, StepIsControllers, LaunchInvariant, PTL DEF LaunchSpec, StartSpec
=============================================================================
