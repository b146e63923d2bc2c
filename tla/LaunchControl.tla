---------------------------- MODULE LaunchControl ----------------------------
(***************************************************************************)
(* The browser's half of starting a command: LaunchControl.tsx, the        *)
(* approveThenStart of launchPolicy.ts, and the polling of GET /launch in  *)
(* App.tsx, in any number of tabs over the one controller of StartCommand. *)
(*                                                                         *)
(* A request is handled by the server in one step, at some moment between  *)
(* the browser's sending it and its receiving the answer; either may be    *)
(* lost.  A page that is reloaded is a new tab.  The graph is taken to be  *)
(* loaded, so that polling has begun, and the server not to end; what the  *)
(* page asks for on mount is taken for its first poll.                     *)
(***************************************************************************)
EXTENDS StartCommand

CONSTANTS
    Tabs,       \* open pages
    Unseen,     \* nothing: no answer, no dialog, no poll
    MaxClicks   \* bound: confirmations given

VARIABLES
    shown,      \* the prop "value": the last launch status received
    dialog,     \* the status "approval" froze when the dialog was opened
    task,       \* what perform() is waiting for, and the status it is about
    poll,       \* a status on its way to App's timer
    confirmed,  \* history: the commands confirmed in some dialog
    clicks      \* history: confirmations given so far

tabVars == <<shown, dialog, task, poll>>
clickVars == <<confirmed, clicks>>
launchVars == <<startVars, tabVars, clickVars>>

(* normalizeLaunchConfiguration: what of launch() the page looks at.       *)
Statuses ==
    [generation : Nat, argv : Argv \cup {NoArgv}, canLaunch : BOOLEAN, running : BOOLEAN]

ASSUME LaunchAssumption == Unseen \notin Statuses /\ MaxClicks \in Nat

(* launch(), and what canLaunch makes of its mode and allowLaunch.         *)
Launch ==
    [generation |-> host.generation,
     argv       |-> host.config.argv,
     canLaunch  |-> Launchable(host) /\ Configured /\ AllowedByCli,
     running    |-> Running]

(* "approving", "starting" and "stopping": the request is on its way to    *)
(* the server.  "approved", "succeeded" and "failed": the answer is on its *)
(* way back.                                                               *)
Stages ==
    {"none", "approving", "approved", "starting", "stopping", "succeeded", "failed"}

NoTask == [stage |-> "none", about |-> Unseen]
Failed == [stage |-> "failed", about |-> Unseen]
Succeeded(status) == [stage |-> "succeeded", about |-> status]

Busy(t) == task[t] # NoTask

(* The command a status shows.                                             *)
Shows(status) == [generation |-> status.generation, argv |-> status.argv]

-----------------------------------------------------------------------------
(* What the reader does.                                                   *)

RunClicked(t) ==
    /\ ~Busy(t)
    /\ dialog[t] = Unseen
    /\ shown[t] # Unseen /\ shown[t].canLaunch /\ ~shown[t].running
    /\ dialog' = [dialog EXCEPT ![t] = shown[t]]
    /\ UNCHANGED <<startVars, shown, task, poll, clickVars>>

(* Mutant of Confirm: the generation approved is not the frozen one.       *)
MutantConfirm(t) ==
    /\ ~Busy(t)
    /\ dialog[t] # Unseen
    /\ clicks < MaxClicks
    /\ clicks' = clicks + 1
    /\ confirmed' = confirmed \cup {Shows(dialog[t])}
    /\ task' = [task EXCEPT ![t] = [stage |-> "approving", about |-> shown[t]]]
    /\ UNCHANGED <<startVars, shown, dialog, poll>>

(* "Approve and run".                                                      *)
Confirm(t) ==
    /\ ~Busy(t)
    /\ dialog[t] # Unseen
    /\ clicks < MaxClicks
    /\ clicks' = clicks + 1
    /\ confirmed' = confirmed \cup {Shows(dialog[t])}
    /\ task' = [task EXCEPT ![t] = [stage |-> "approving", about |-> dialog[t]]]
    /\ UNCHANGED <<startVars, shown, dialog, poll>>

(* Escape, the Cancel button and the backdrop, also while busy.            *)
Cancel(t) ==
    /\ dialog[t] # Unseen
    /\ dialog' = [dialog EXCEPT ![t] = Unseen]
    /\ UNCHANGED <<startVars, shown, task, poll, clickVars>>

(* The dialog covers the Stop button while it is open.                     *)
StopClicked(t) ==
    /\ ~Busy(t)
    /\ dialog[t] = Unseen
    /\ shown[t] # Unseen /\ shown[t].running
    /\ task' = [task EXCEPT ![t] = [stage |-> "stopping", about |-> Unseen]]
    /\ UNCHANGED <<startVars, shown, dialog, poll, clickVars>>

-----------------------------------------------------------------------------
(* The server's handlers.                                                  *)

ApproveArrives(t) ==
    /\ task[t].stage = "approving"
    /\ Approve(task[t].about.generation)
    /\ task' = [task EXCEPT ![t] =
                    IF ApprovalGranted(task[t].about.generation)
                    THEN [task[t] EXCEPT !.stage = "approved"]
                    ELSE Failed]
    /\ UNCHANGED <<shown, dialog, poll, clickVars>>

(* start() looks at nothing the request says, but at the approval in force *)
(* when it arrives.  A start that takes longer than the wait, or fails, is *)
(* an error to the browser.                                                *)
StartArrives(t) ==
    /\ task[t].stage = "starting"
    /\ \/ /\ Start
          /\ task' = [task EXCEPT ![t] = IF child' = "running" THEN Succeeded(Launch') ELSE Failed]
       \/ /\ StartRefused
          /\ task' = [task EXCEPT ![t] = Failed]
       \/ /\ ~Launchable(host) \/ (Running /\ Configured /\ AllowedByCli /\ ApprovalMatches)
          /\ task' = [task EXCEPT ![t] = Failed]
          /\ UNCHANGED startVars
    /\ UNCHANGED <<shown, dialog, poll, clickVars>>

(* stop() throws when the kill was refused or the leader outlasted it.     *)
StopArrives(t) ==
    /\ task[t].stage = "stopping"
    /\ Stop
    /\ task' = [task EXCEPT ![t] =
                    IF groupId = 0 \/ (groupId' = 0 /\ child' = "notRunning")
                    THEN Succeeded(Launch')
                    ELSE Failed]
    /\ UNCHANGED <<shown, dialog, poll, clickVars>>

Handled(t) == ApproveArrives(t) \/ StartArrives(t) \/ StopArrives(t)

(* A request or its answer is lost.                                        *)
Lost(t) ==
    /\ task[t].stage \notin {"none", "failed"}
    /\ task' = [task EXCEPT ![t] = Failed]
    /\ UNCHANGED <<startVars, shown, dialog, poll, clickVars>>

-----------------------------------------------------------------------------
(* The answers.                                                            *)

(* approveThenStart goes on to start, whatever has become of the dialog.   *)
Approved(t) ==
    /\ task[t].stage = "approved"
    /\ task' = [task EXCEPT ![t].stage = "starting"]
    /\ UNCHANGED <<startVars, shown, dialog, poll, clickVars>>

(* onChange, the dialog closes, and busy is reset.                         *)
Answered(t) ==
    /\ task[t].stage = "succeeded"
    /\ shown' = [shown EXCEPT ![t] = task[t].about]
    /\ dialog' = [dialog EXCEPT ![t] = Unseen]
    /\ task' = [task EXCEPT ![t] = NoTask]
    /\ UNCHANGED <<startVars, poll, clickVars>>

(* Mutant of Rejected: busy is reset only after a success.                 *)
MutantRejected(t) ==
    /\ task[t].stage = "failed"
    /\ UNCHANGED launchVars

(* The error is displayed; a dialog stays open.                            *)
Rejected(t) ==
    /\ task[t].stage = "failed"
    /\ task' = [task EXCEPT ![t] = NoTask]
    /\ UNCHANGED <<startVars, shown, dialog, poll, clickVars>>

Received(t) == Approved(t) \/ Answered(t) \/ Rejected(t)

(* GET /launch is handled: on mount, then at the end of every poll; a poll *)
(* begins after the one before has ended.                                  *)
PollHandled(t) ==
    /\ poll[t] = Unseen
    /\ poll' = [poll EXCEPT ![t] = Launch]
    /\ UNCHANGED <<startVars, shown, dialog, task, clickVars>>

PollReceived(t) ==
    /\ poll[t] # Unseen
    /\ shown' = [shown EXCEPT ![t] = poll[t]]
    /\ poll' = [poll EXCEPT ![t] = Unseen]
    /\ UNCHANGED <<startVars, dialog, task, clickVars>>

(* The answer is lost, or arrives when the poll is no longer active: its   *)
(* own refresh has brought a new document.                                 *)
PollDropped(t) ==
    /\ poll[t] # Unseen
    /\ poll' = [poll EXCEPT ![t] = Unseen]
    /\ UNCHANGED <<startVars, shown, dialog, task, clickVars>>

-----------------------------------------------------------------------------
ServerMoves ==
    /\ HostMoves \/ LateStarted \/ LateFailed \/ ChildFinished \/ ProcessStep
    /\ UNCHANGED <<tabVars, clickVars>>

LaunchInit ==
    /\ StartInit
    /\ shown = [t \in Tabs |-> Unseen]
    /\ dialog = [t \in Tabs |-> Unseen]
    /\ task = [t \in Tabs |-> NoTask]
    /\ poll = [t \in Tabs |-> Unseen]
    /\ confirmed = {}
    /\ clicks = 0

TabStep(t) ==
    \/ RunClicked(t) \/ Confirm(t) \/ Cancel(t) \/ StopClicked(t)
    \/ Handled(t) \/ Lost(t) \/ Received(t)
    \/ PollHandled(t) \/ PollReceived(t) \/ PollDropped(t)

LaunchNext == ServerMoves \/ \E t \in Tabs : TabStep(t)

LaunchSpec == LaunchInit /\ [][LaunchNext]_launchVars

(* Requests are handled and answers received, or known to be lost; the     *)
(* timer polls, and of polls without end some answers arrive.              *)
LaunchFairness ==
    \A t \in Tabs :
        /\ WF_launchVars(Handled(t) \/ Lost(t))
        /\ WF_launchVars(Received(t))
        /\ WF_launchVars(PollHandled(t))
        /\ SF_launchVars(PollReceived(t))

FairLaunchSpec == LaunchSpec /\ LaunchFairness

-----------------------------------------------------------------------------
(* The shapes of the variables of the tabs.                                *)
LaunchTypeOK ==
    /\ \A t \in Tabs :
        /\ {shown[t], dialog[t], poll[t]} \subseteq Statuses \cup {Unseen}
        /\ task[t] \in [stage : Stages, about : Statuses \cup {Unseen}]
        /\ task[t].stage \in {"approving", "approved", "starting", "succeeded"}
                <=> task[t].about # Unseen
    /\ clicks \in 0 .. MaxClicks

(* Nothing is started that was not confirmed, by argv and by generation,   *)
(* in a dialog that showed it (LaunchControl.tsx:46, 58 and 67): however   *)
(* late statuses and answers arrive, whichever tab they belong to, and     *)
(* though the approval names a generation only and the start nothing.      *)
LaunchedWasConfirmed == launched # NoPermit => launched \in confirmed

(* Every tab comes to offer Stop while a process runs, whoever started it, *)
(* whatever was lost, and whatever indexing has made of the permission     *)
(* (services/web-canvas/README.md:28).                                     *)
StopOffered ==
    <>[]Running =>
        \A t \in Tabs : []<>(~Busy(t) /\ shown[t] # Unseen /\ shown[t].running)

(* LaunchControl.tsx:68, "Approval is bound to displayed generation; a     *)
(* newer generation requires a fresh review": what a tab's request starts  *)
(* is what that tab's dialog displayed.                                    *)
StartsWhatItDisplayed ==
    [][ \A t \in Tabs : starts' # starts /\ StartArrives(t) =>
            launched' = Shows(task[t].about) ]_launchVars

(* LaunchControl.tsx:11-12, "escape-to-cancel": a dialog that was closed   *)
(* before the start was asked for asks for none.                           *)
EscapeCancels ==
    [][ \A t \in Tabs : task[t].stage = "approved" /\ task'[t].stage = "starting" =>
            dialog[t] # Unseen ]_launchVars
=============================================================================
