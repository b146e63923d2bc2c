----------------------------- MODULE StartCommand -----------------------------
(***************************************************************************)
(* Starting the project's own command: StartCommandController (Runtime.cpp)*)
(* behind POST /api/v1/launch/approve, start and stop.  The controller     *)
(* reads the shared host state and owns one QProcess, whose process group  *)
(* it remembers in m_processGroupId.                                       *)
(*                                                                         *)
(* The indexing half of the server appears only as HostMoves, the moves    *)
(* HostState's mutators allow; LocalServer puts the real one in its place. *)
(*                                                                         *)
(* The processes of the n-th start form process group n: the leader the    *)
(* QProcess watches, and descendants.  A descendant that leaves the group  *)
(* is outside this model, as it is outside the Linux code.  The repository *)
(* root never changes while the server runs, so m_approvedRoot is left out.*)
(***************************************************************************)
EXTENDS HostState

CONSTANTS
    LocalConfigs,   \* configurations indexing can publish
    AllowedByCli,   \* --allow-command
    NoPermit,       \* stands for "no approval in force"
    MaxReviews,     \* bound: approvals granted
    MaxStarts,      \* bound: commands started
    MaxGeneration   \* bound: generations

(* A command as it was published with a generation.                        *)
Published == [generation : Nat, argv : Argv]

ASSUME StartAssumption ==
    /\ \A c \in LocalConfigs : c.argv \in Argv \cup {NoArgv}
    /\ AllowedByCli \in BOOLEAN
    /\ NoPermit \notin Published
    /\ MaxReviews \in Nat
    /\ MaxStarts \in Nat
    /\ MaxGeneration \in Nat

VARIABLES
    sessionApproved,     \* m_sessionApproved
    approvedGeneration,  \* m_approvedGeneration
    approvedArgv,        \* m_approvedArgv
    child,               \* m_process: "null" or its QProcess::state
    launched,            \* the generation and argv the last start() took
    groupId,             \* m_processGroupId, 0 or a process group
    starts,              \* the number of processes forked so far
    leader,              \* what the leader of the last process group is doing
    descendants,         \* the process groups with other live members
    spared,              \* history: a kill was refused by the system
    reviewed             \* history: approvals given so far

approvalVars == <<sessionApproved, approvedGeneration, approvedArgv>>
osVars == <<leader, descendants>>
processVars == <<child, launched, groupId, starts, osVars, spared>>
startVars == <<host, approvalVars, processVars, reviewed>>

ChildStates == {"null", "notRunning", "starting", "running", "destroyed"}
(* A doomed leader has a SIGKILL pending and runs none of its code again.  *)
LeaderStates == {"dead", "alive", "doomed"}
Groups == 1..MaxStarts

(* m_process && m_process->state() != NotRunning                           *)
Running == child \in {"starting", "running"}

(* The argv of a manual start command is not empty.                        *)
Configured == host.config.argv # NoArgv

ApprovalMatches ==
    /\ Launchable(host)
    /\ sessionApproved
    /\ approvedGeneration = host.generation
    /\ approvedArgv = host.config.argv

-----------------------------------------------------------------------------
(* approve(displayedGeneration): every request revokes what was approved   *)
(* before, whether it is granted or not.                                   *)
ApprovalGranted(displayedGeneration) ==
    /\ Launchable(host)
    /\ displayedGeneration = host.generation
    /\ Configured
    /\ AllowedByCli
    /\ ~Running

Approve(displayedGeneration) ==
    /\ ApprovalGranted(displayedGeneration) => reviewed < MaxReviews
    /\ IF ApprovalGranted(displayedGeneration)
       THEN /\ sessionApproved' = TRUE
            /\ approvedGeneration' = host.generation
            /\ approvedArgv' = host.config.argv
            /\ reviewed' = reviewed + 1
       ELSE /\ sessionApproved' = FALSE
            /\ UNCHANGED <<approvedGeneration, approvedArgv, reviewed>>
    /\ UNCHANGED <<host, processVars>>

(* start() is refused: without a valid index before it looks at the        *)
(* approval, without a matching approval by dropping it.                   *)
StartRefused ==
    /\ Launchable(host) /\ ~(Configured /\ AllowedByCli /\ ApprovalMatches)
    /\ sessionApproved' = FALSE
    /\ UNCHANGED <<host, approvedGeneration, approvedArgv, processVars, reviewed>>

(* start() gets as far as QProcess::start and waits two seconds for it.    *)
StartPermitted ==
    /\ Configured
    /\ AllowedByCli
    /\ ApprovalMatches
    /\ ~Running

(* started() was emitted during the wait.                                  *)
ForkedInTime ==
    /\ child' = "running"
    /\ groupId' = starts'
    /\ leader' = "alive"

(* exec takes longer than the wait: the request fails, the child goes on.  *)
ForkedSlowly ==
    /\ child' = "starting"
    /\ leader' = "alive"
    /\ UNCHANGED groupId

(* fork or exec failed during the wait.                                    *)
NotForked ==
    /\ child' = "notRunning"
    /\ UNCHANGED <<leader, groupId>>

(* Mutant of Start: the approval is not consumed.                          *)
MutantReusableApproval ==
    /\ StartPermitted
    /\ starts < MaxStarts
    /\ starts' = starts + 1
    /\ launched' = [generation |-> host.generation, argv |-> host.config.argv]
    /\ ForkedInTime \/ ForkedSlowly \/ NotForked
    /\ UNCHANGED <<host, approvalVars, descendants, spared, reviewed>>

Start ==
    /\ StartPermitted
    /\ starts < MaxStarts
    /\ sessionApproved' = FALSE
    /\ starts' = starts + 1
    /\ launched' = [generation |-> host.generation, argv |-> host.config.argv]
    /\ ForkedInTime \/ ForkedSlowly \/ NotForked
    /\ UNCHANGED <<host, approvedGeneration, approvedArgv, descendants, spared, reviewed>>

-----------------------------------------------------------------------------
(* stopOwnedProcess on group g: SIGTERM, a wait, SIGKILL, a wait.  The     *)
(* leader the QProcess watches is in group number starts.                  *)

LeaderEnds(g) ==
    IF g = starts /\ Running
    THEN leader' = "dead" /\ child' = "notRunning"
    ELSE UNCHANGED <<leader, child>>

(* Everyone in the group dies; if the QProcess was running, its finished   *)
(* handler runs inside the wait and finds m_processGroupId already zero.   *)
GroupDies(g) ==
    /\ descendants' = descendants \ {g}
    /\ LeaderEnds(g)
    /\ groupId' = 0
    /\ UNCHANGED spared

(* The leader outlasts both waits, stuck in the kernel.                    *)
LeaderStuck(g) ==
    /\ g = starts
    /\ leader # "dead"
    /\ leader' = "doomed"
    /\ descendants' = descendants \ {g}
    /\ groupId' = 0
    /\ UNCHANGED <<child, spared>>

(* kill() fails because no member of the group may be signalled, the first *)
(* time or, the leader having ended, the second.                           *)
KillRefused(g) ==
    /\ \/ g \in descendants /\ LeaderEnds(g)
       \/ /\ g \in descendants \/ (g = starts /\ leader # "dead")
          /\ UNCHANGED <<leader, child>>
    /\ spared' = TRUE
    /\ UNCHANGED descendants

(* stop(): with no group to kill it answers stopped:false.  A refused kill *)
(* puts the group id back; a stuck leader does not.                        *)
Stop ==
    /\ sessionApproved' = FALSE
    /\ \/ groupId = 0 /\ UNCHANGED <<child, groupId, osVars, spared>>
       \/ groupId # 0 /\ (GroupDies(groupId) \/ LeaderStuck(groupId))
       \/ groupId # 0 /\ KillRefused(groupId) /\ UNCHANGED groupId
    /\ UNCHANGED <<host, approvedGeneration, approvedArgv, launched, starts, reviewed>>

(* Mutant of Destroy: only ~QProcess cleans up.                            *)
MutantDestroyLeader ==
    /\ sessionApproved' = FALSE
    /\ child' = "destroyed"
    /\ leader' = IF Running THEN "dead" ELSE leader
    /\ groupId' = 0
    /\ UNCHANGED <<host, approvedGeneration, approvedArgv, launched, starts, descendants, spared, reviewed>>

(* The destructor ignores what stop() throws; ~QProcess then kills and     *)
(* awaits the leader, but nothing else of its group.                       *)
Destroy ==
    /\ sessionApproved' = FALSE
    /\ child' = "destroyed"
    /\ leader' = IF Running THEN "dead" ELSE leader
    /\ groupId' = 0
    /\ \/ descendants' = descendants \ {groupId} /\ UNCHANGED spared
       \/ groupId \in descendants /\ spared' = TRUE /\ UNCHANGED descendants
    /\ UNCHANGED <<host, approvedGeneration, approvedArgv, launched, starts, reviewed>>

-----------------------------------------------------------------------------
(* Signals of the QProcess that reach the event loop.                      *)

LateStarted ==
    /\ child = "starting"
    /\ child' = "running"
    /\ groupId' = starts
    /\ UNCHANGED <<host, approvalVars, launched, starts, osVars, spared, reviewed>>

(* exec failed after all: the program never ran.                           *)
LateFailed ==
    /\ child = "starting"
    /\ starts \notin descendants
    /\ child' = "notRunning"
    /\ leader' = "dead"
    /\ UNCHANGED <<host, approvalVars, launched, groupId, starts, descendants, spared, reviewed>>

(* Mutant of ChildFinished: the rest of the group is let run.              *)
MutantLeaveGroup ==
    /\ child = "running"
    /\ leader = "dead"
    /\ child' = "notRunning"
    /\ groupId' = 0
    /\ UNCHANGED <<host, approvalVars, launched, starts, osVars, spared, reviewed>>

(* finished(): the rest of the group is killed, and forgotten even if the  *)
(* kill was refused.                                                       *)
ChildFinished ==
    /\ child = "running"
    /\ leader = "dead"
    /\ child' = "notRunning"
    /\ groupId' = 0
    /\ \/ descendants' = descendants \ {groupId} /\ UNCHANGED spared
       \/ groupId \in descendants /\ spared' = TRUE /\ UNCHANGED descendants
    /\ UNCHANGED <<host, approvalVars, launched, starts, leader, reviewed>>

-----------------------------------------------------------------------------
(* What the started program and the system do by themselves.               *)

LeaderForks ==
    /\ leader = "alive"
    /\ descendants' = descendants \cup {starts}
    /\ UNCHANGED <<host, approvalVars, child, launched, groupId, starts, leader, spared, reviewed>>

LeaderExits ==
    /\ leader # "dead"
    /\ leader' = "dead"
    /\ UNCHANGED <<host, approvalVars, child, launched, groupId, starts, descendants, spared, reviewed>>

DescendantsExit(g) ==
    /\ g \in descendants
    /\ descendants' = descendants \ {g}
    /\ UNCHANGED <<host, approvalVars, child, launched, groupId, starts, leader, spared, reviewed>>

(* The moves of HostState's mutators, as the analyzer's handlers make them:*)
(* a run starts, or one ends and may be followed by the next at once.      *)
HostMoves ==
    LET done == {IndexingFailed(host)} \cup
                {IndexingSucceeded(host, c) : c \in LocalConfigs}
    IN  /\ \/ host' \in Restarted(host)
           \/ /\ host.indexState = "indexing"
              /\ \E h \in done : host' \in {h} \cup Restarted(h)
        /\ host'.generation <= MaxGeneration
        /\ UNCHANGED <<approvalVars, processVars, reviewed>>

-----------------------------------------------------------------------------
StartInit ==
    /\ \E c \in LocalConfigs : host = InitialHost(c)
    /\ sessionApproved = FALSE
    /\ approvedGeneration = 0
    /\ approvedArgv = NoArgv
    /\ child = "null"
    /\ launched = NoPermit
    /\ groupId = 0
    /\ starts = 0
    /\ leader = "dead"
    /\ descendants = {}
    /\ spared = FALSE
    /\ reviewed = 0

(* One request handler, one process signal, or one move of the processes.  *)
ControllerStep ==
    \/ \E g \in 0..MaxGeneration : Approve(g)
    \/ StartRefused \/ Start \/ Stop
    \/ LateStarted \/ LateFailed \/ ChildFinished

ProcessStep ==
    \/ LeaderForks \/ LeaderExits
    \/ \E g \in Groups : DescendantsExit(g)

StartNext ==
    \/ child # "destroyed" /\ (HostMoves \/ ControllerStep \/ Destroy)
    \/ ProcessStep

StartSpec == StartInit /\ [][StartNext]_startVars

-----------------------------------------------------------------------------
(* The shapes of the variables of the controller.                          *)
StartTypeOK ==
    /\ host \in HostStates(LocalConfigs)
    /\ sessionApproved \in BOOLEAN
    /\ approvedGeneration \in Nat
    /\ approvedArgv \in Argv \cup {NoArgv}
    /\ child \in ChildStates
    /\ launched \in Published \cup {NoPermit}
    /\ groupId \in 0..starts
    /\ starts \in 0..MaxStarts
    /\ leader \in LeaderStates
    /\ descendants \subseteq Groups
    /\ spared \in BOOLEAN
    /\ reviewed \in Nat

(* The controller keeps the promise of LaunchGate.  On offer is the        *)
(* command launch() reports with allowLaunch, permitted what start() would *)
(* run: however indexing starts, fails and succeeds between the requests,  *)
(* no approval outlives its index, comes back, or is used twice, and what  *)
(* is started is what was approved.                                        *)
Offer ==
    IF Launchable(host) /\ Configured /\ AllowedByCli
    THEN [generation |-> host.generation, argv |-> host.config.argv]
    ELSE NoPermit

Permit ==
    IF Configured /\ AllowedByCli /\ ApprovalMatches
    THEN [generation |-> host.generation, argv |-> host.config.argv]
    ELSE NoPermit

Gate == INSTANCE LaunchGate WITH
            Command  <- Argv,
            NoOffer  <- NoPermit,
            offer    <- Offer,
            permit   <- Permit,
            latest   <- host.generation,
            reviews  <- reviewed,
            launches <- starts

KeepsLaunchGate == Gate!GateSpec

(* While the system refuses no kill, every process of a started command    *)
(* belongs to the QProcess the controller holds, and none is left once     *)
(* that has ended, by itself, by stop() or by both at once.                *)
NoStrayProcesses ==
    ~spared /\ child # "destroyed" =>
        /\ descendants \subseteq {starts}
        /\ ~Running => descendants = {} /\ leader = "dead"

(* The server leaves none behind when it goes, unless it goes between the  *)
(* exec of a slow start and the event loop's notice of it.                 *)
DestructionCleans ==
    [][ child' = "destroyed" /\ child \notin {"starting", "destroyed"} /\ ~spared' =>
            descendants' = {} /\ leader' = "dead" ]_startVars

(* docs/USAGE.md:449, "Stop is available while the process is running".    *)
StopAvailable == Running => groupId # 0

=============================================================================
