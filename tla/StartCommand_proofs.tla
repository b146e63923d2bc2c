------------------------- MODULE StartCommand_proofs -------------------------
(***************************************************************************)
(* Proofs about StartCommand, for all constants its assumptions allow:     *)
(* type correctness, the refinement of LaunchGate, and that no process of  *)
(* a started command is left behind.  All rest on one inductive invariant. *)
(***************************************************************************)
EXTENDS StartCommand, TLAPS

(* A recorded approval is of a generation that has existed, so that a new  *)
(* generation can never be the approved one.                               *)
ApprovalIsPast == sessionApproved => approvedGeneration <= host.generation

(* Something was started if anything of it is left.                        *)
StartedOnce == (leader # "dead" \/ Running) => starts >= 1

(* m_processGroupId, when it is set, is the group of the running child;    *)
(* it is zero while that runs only once the group was killed around it.    *)
GroupIdInStep ==
    ~spared /\ child # "destroyed" =>
        /\ groupId # 0 => groupId = starts /\ child = "running"
        /\ child = "running" /\ groupId = 0 => descendants = {} /\ leader # "alive"

StartInv ==
    /\ StartTypeOK
    /\ ApprovalIsPast
    /\ StartedOnce
    /\ GroupIdInStep
    /\ NoStrayProcesses

-----------------------------------------------------------------------------
(* What the mutators of HostState do to a well-formed host state.          *)
LEMMA HostMovesShape ==
    ASSUME StartTypeOK, HostMoves
    PROVE  /\ host' \in HostStates(LocalConfigs)
           /\ host'.generation >= host.generation
           /\ Launchable(host') => host'.generation = host.generation + 1
  <1> USE DEF HostStates, IndexStates, Launchable
  <1>1. host \in HostStates(LocalConfigs)
    BY DEF StartTypeOK
  <1>2. ASSUME NEW h \in HostStates(LocalConfigs)
        PROVE  /\ Restarted(h) \subseteq HostStates(LocalConfigs)
               /\ \A r \in Restarted(h) : r.generation = h.generation /\ ~Launchable(r)
    BY DEF Restarted, IndexingStarted, IndexingFailed
  <1>3. /\ IndexingFailed(host) \in HostStates(LocalConfigs)
        /\ IndexingFailed(host).generation = host.generation
        /\ ~Launchable(IndexingFailed(host))
    BY <1>1 DEF IndexingFailed
  <1>4. ASSUME NEW c \in LocalConfigs
        PROVE  /\ IndexingSucceeded(host, c) \in HostStates(LocalConfigs)
               /\ IndexingSucceeded(host, c).generation = host.generation + 1
    BY <1>1 DEF IndexingSucceeded
  <1>5. CASE host' \in Restarted(host)
    BY <1>1, <1>2, <1>5
  <1>6. CASE \E h \in {IndexingFailed(host)} \cup
                      {IndexingSucceeded(host, c) : c \in LocalConfigs} :
                 host' \in {h} \cup Restarted(h)
    <2>1. PICK h \in {IndexingFailed(host)} \cup
                     {IndexingSucceeded(host, c) : c \in LocalConfigs} :
                 host' \in {h} \cup Restarted(h)
      BY <1>6
    <2>2. h \in HostStates(LocalConfigs) /\ h.generation >= host.generation
      BY <1>1, <1>3, <1>4
    <2>3. CASE host' \in Restarted(h)
      BY <1>1, <1>2, <2>2, <2>3
    <2>4. CASE host' = h
      BY <1>1, <1>3, <1>4, <2>2, <2>4
    <2>5. QED
      BY <2>1, <2>3, <2>4
  <1>7. QED
    BY <1>5, <1>6 DEF HostMoves

(* The command on display is one of Argv once there is one.                *)
LEMMA HostArgv ==
    ASSUME StartTypeOK
    PROVE  /\ host.config.argv \in Argv \cup {NoArgv}
           /\ host.generation \in Nat
           /\ Configured => host.config.argv \in Argv
  BY StartAssumption DEF StartTypeOK, HostStates, Configured

(* The bounds are numbers.                                                 *)
LEMMA StartBounds == MaxReviews \in Nat /\ MaxStarts \in Nat /\ MaxGeneration \in Nat
  BY StartAssumption

(* The Boolean variables and the others, apart: the SMT solver treats the  *)
(* first as formulas.                                                      *)
Flags == sessionApproved \in BOOLEAN /\ spared \in BOOLEAN

Shapes ==
    /\ host \in HostStates(LocalConfigs)
    /\ approvedGeneration \in Nat
    /\ approvedArgv \in Argv \cup {NoArgv}
    /\ child \in ChildStates
    /\ launched \in Published \cup {NoPermit}
    /\ groupId \in 0..starts
    /\ starts \in 0..MaxStarts
    /\ leader \in LeaderStates
    /\ descendants \subseteq Groups
    /\ reviewed \in Nat

(* Together they are the type invariant, in this state and the next.       *)
LEMMA TypeParts ==
    /\ StartTypeOK <=> Flags /\ Shapes
    /\ StartTypeOK' <=> Flags' /\ Shapes'
  BY Zenon DEF StartTypeOK, Flags, Shapes

-----------------------------------------------------------------------------
(* The invariant holds of the initial states.                              *)
LEMMA StartInvInit == StartInit => StartInv
  <1>1. ASSUME NEW c \in LocalConfigs
        PROVE  InitialHost(c) \in HostStates(LocalConfigs)
    BY DEF InitialHost, HostStates, IndexStates
  <1>2. StartInit => Shapes
    BY <1>1, StartBounds
    DEF StartInit, Shapes, ChildStates, LeaderStates
  <1>3. StartInit => ApprovalIsPast /\ StartedOnce /\ GroupIdInStep /\ NoStrayProcesses
    BY DEF StartInit, ApprovalIsPast, StartedOnce, GroupIdInStep, NoStrayProcesses, Running
  <1>4. StartInit => Flags
    BY Zenon DEF StartInit, Flags
  <1>5. QED
    BY <1>2, <1>3, <1>4, TypeParts DEF StartInv

(* Every step keeps the invariant.                                         *)
LEMMA StartInvStep == StartInv /\ [StartNext]_startVars => StartInv'
  <1> SUFFICES ASSUME StartInv, [StartNext]_startVars
               PROVE  StartInv'
    OBVIOUS
  <1> USE DEF StartInv
  <1>1. ASSUME HostMoves
        PROVE  StartInv'
    <2>1. host' \in HostStates(LocalConfigs) /\ host'.generation >= host.generation
      BY <1>1, HostMovesShape
    <2>2. UNCHANGED <<sessionApproved, approvedGeneration, approvedArgv, child, launched,
                      groupId, starts, leader, descendants, spared, reviewed>>
      BY <1>1 DEF HostMoves, approvalVars, processVars, osVars
    <2>3. ApprovalIsPast'
      BY <2>1, <2>2, HostArgv DEF ApprovalIsPast, StartTypeOK, HostStates
    <2>4. QED
      BY <2>1, <2>2, <2>3
      DEF StartTypeOK, StartedOnce, GroupIdInStep, NoStrayProcesses, Running
  <1>2. ASSUME NEW g \in 0..MaxGeneration, Approve(g)
        PROVE  StartInv'
    <2>1. UNCHANGED <<host, child, launched, groupId, starts, leader, descendants, spared>>
      BY <1>2 DEF Approve, processVars, osVars
    <2>2. /\ approvedGeneration' \in Nat
          /\ approvedArgv' \in Argv \cup {NoArgv}
          /\ reviewed' \in Nat
          /\ sessionApproved' => approvedGeneration' = host.generation
      BY <1>2, HostArgv, TypeParts DEF Approve, Shapes
    <2>3. ApprovalIsPast'
      BY <2>1, <2>2, HostArgv DEF ApprovalIsPast
    <2>4. Flags'
      BY <1>2, <2>1, TypeParts, Zenon DEF Approve, Flags
    <2>5. Shapes'
      BY <2>1, <2>2, TypeParts DEF Shapes
    <2>6. StartedOnce' /\ GroupIdInStep' /\ NoStrayProcesses'
      BY <2>1 DEF StartedOnce, GroupIdInStep, NoStrayProcesses, Running
    <2>7. QED
      BY <2>3, <2>4, <2>5, <2>6, TypeParts
  <1>3. ASSUME StartRefused
        PROVE  StartInv'
    BY <1>3
    DEF StartRefused, StartTypeOK, ApprovalIsPast, StartedOnce, GroupIdInStep,
        NoStrayProcesses, Running, processVars, osVars
  <1>4. ASSUME Start, child # "destroyed"
        PROVE  StartInv'
    <2>1. Flags'
      BY <1>4, TypeParts, Zenon DEF Start, Flags
    <2>2. Shapes'
      BY <1>4, HostArgv, StartBounds, TypeParts
      DEF Start, StartPermitted, ForkedInTime, ForkedSlowly, NotForked, Shapes,
          ChildStates, LeaderStates, Published
    <2>3. ApprovalIsPast'
      BY <1>4 DEF Start, ApprovalIsPast
    <2>4. starts' >= 1
      BY <1>4, StartBounds DEF Start, StartTypeOK
    <2>5. GroupIdInStep'
      BY <1>4, <2>4, StartBounds
      DEF Start, StartPermitted, ForkedInTime, ForkedSlowly, NotForked, StartTypeOK,
          GroupIdInStep, Running
    <2>6. NoStrayProcesses'
      BY <1>4
      DEF Start, StartPermitted, ForkedInTime, ForkedSlowly, NotForked,
          NoStrayProcesses, Running
    <2>7. QED
      BY <2>1, <2>2, <2>3, <2>4, <2>5, <2>6, TypeParts DEF StartedOnce
  <1>5. ASSUME Stop, child # "destroyed"
        PROVE  StartInv'
    <2>1. Flags'
      BY <1>5, TypeParts, Zenon
      DEF Stop, GroupDies, LeaderStuck, KillRefused, LeaderEnds, Flags, osVars
    <2>2. Shapes'
      BY <1>5, StartBounds, TypeParts
      DEF Stop, GroupDies, LeaderStuck, KillRefused, LeaderEnds, Shapes, ChildStates,
          LeaderStates, Running, osVars
    <2>3. ApprovalIsPast' /\ StartedOnce'
      BY <1>5
      DEF Stop, GroupDies, LeaderStuck, KillRefused, LeaderEnds, ApprovalIsPast,
          StartedOnce, Running, osVars
    <2>4. GroupIdInStep' /\ NoStrayProcesses'
      BY <1>5
      DEF Stop, GroupDies, LeaderStuck, KillRefused, LeaderEnds, GroupIdInStep,
          NoStrayProcesses, Running, osVars
    <2>5. QED
      BY <2>1, <2>2, <2>3, <2>4, TypeParts
  <1>6. ASSUME Destroy
        PROVE  StartInv'
    <2>1. Shapes'
      BY <1>6, StartBounds, TypeParts
      DEF Destroy, Shapes, Running, ChildStates, LeaderStates
    <2>2. Flags'
      BY <1>6, TypeParts, Zenon DEF Destroy, Flags
    <2>3. ApprovalIsPast' /\ StartedOnce' /\ GroupIdInStep' /\ NoStrayProcesses'
      BY <1>6
      DEF Destroy, ApprovalIsPast, StartedOnce, GroupIdInStep, NoStrayProcesses, Running
    <2>4. QED
      BY <2>1, <2>2, <2>3, TypeParts
  <1>7. ASSUME LateStarted
        PROVE  StartInv'
    BY <1>7, StartBounds
    DEF LateStarted, StartTypeOK, ApprovalIsPast, StartedOnce, GroupIdInStep,
        NoStrayProcesses, Running, ChildStates, approvalVars, osVars
  <1>8. ASSUME LateFailed
        PROVE  StartInv'
    BY <1>8, StartBounds
    DEF LateFailed, StartTypeOK, ApprovalIsPast, StartedOnce, GroupIdInStep,
        NoStrayProcesses, Running, ChildStates, LeaderStates, approvalVars
  <1>9. ASSUME ChildFinished
        PROVE  StartInv'
    <2>1. Shapes'
      BY <1>9, StartBounds, TypeParts DEF ChildFinished, Shapes, ChildStates, approvalVars
    <2>2. Flags'
      BY <1>9, TypeParts, Zenon DEF ChildFinished, Flags, approvalVars
    <2>3. ApprovalIsPast' /\ StartedOnce' /\ GroupIdInStep' /\ NoStrayProcesses'
      BY <1>9
      DEF ChildFinished, ApprovalIsPast, StartedOnce, GroupIdInStep, NoStrayProcesses,
          Running, approvalVars
    <2>4. QED
      BY <2>1, <2>2, <2>3, TypeParts
  <1>10. ASSUME ProcessStep
         PROVE  StartInv'
    <2>1. UNCHANGED <<host, sessionApproved, approvedGeneration, approvedArgv, child,
                      launched, groupId, starts, spared, reviewed>>
      BY <1>10
      DEF ProcessStep, LeaderForks, LeaderExits, DescendantsExit, approvalVars
    <2>2. CASE LeaderForks
      BY <2>1, <2>2, StartBounds
      DEF LeaderForks, StartTypeOK, ApprovalIsPast, StartedOnce, GroupIdInStep,
          NoStrayProcesses, Running, Groups
    <2>3. CASE LeaderExits
      BY <2>1, <2>3
      DEF LeaderExits, StartTypeOK, ApprovalIsPast, StartedOnce, GroupIdInStep,
          NoStrayProcesses, Running, LeaderStates
    <2>4. ASSUME NEW g \in Groups, DescendantsExit(g)
          PROVE  StartInv'
      BY <2>1, <2>4
      DEF DescendantsExit, StartTypeOK, ApprovalIsPast, StartedOnce, GroupIdInStep,
          NoStrayProcesses, Running
    <2>5. QED
      BY <1>10, <2>2, <2>3, <2>4 DEF ProcessStep
  <1>11. CASE UNCHANGED startVars
    BY <1>11
    DEF startVars, processVars, approvalVars, osVars, StartTypeOK, ApprovalIsPast,
        StartedOnce, GroupIdInStep, NoStrayProcesses, Running
  <1>12. QED
    BY <1>1, <1>2, <1>3, <1>4, <1>5, <1>6, <1>7, <1>8, <1>9, <1>10, <1>11
    DEF StartNext, ControllerStep

(* The invariant holds throughout.                                         *)
THEOREM StartInvariant == StartSpec => []StartInv
  BY StartInvInit, StartInvStep, PTL DEF StartSpec

(* The controller's variables keep their shapes.                           *)
THEOREM StartTypeCorrect == StartSpec => []StartTypeOK
  BY StartInvariant, PTL DEF StartInv

(* No process of a started command is left once the QProcess has ended.    *)
THEOREM NoStraysEver == StartSpec => []NoStrayProcesses
  BY StartInvariant, PTL DEF StartInv

-----------------------------------------------------------------------------
(* The destructor leaves no process of the command behind.                 *)

(* No other handler and no move of the processes destroys the controller.  *)
LEMMA OnlyDestroyDestroys ==
    ASSUME StartNext, child # "destroyed", child' = "destroyed"
    PROVE  Destroy
  <1>1. HostMoves \/ ControllerStep \/ ProcessStep => child' # "destroyed"
    BY DEF HostMoves, ControllerStep, ProcessStep, Approve, StartRefused, Start,
        ForkedInTime, ForkedSlowly, NotForked, Stop, GroupDies, LeaderStuck, KillRefused,
        LeaderEnds, LateStarted, LateFailed, ChildFinished, LeaderForks, LeaderExits,
        DescendantsExit, processVars, approvalVars, osVars
  <1>2. QED
    BY <1>1 DEF StartNext

(* What the destructor does to a command that is not still being started.  *)
LEMMA DestroyCleans ==
    ASSUME StartInv, Destroy, child \notin {"starting", "destroyed"}, ~spared'
    PROVE  descendants' = {} /\ leader' = "dead"
  <1>1. ~spared
    BY Zenon DEF Destroy
  <1>2. QED
    BY <1>1 DEF StartInv, StartTypeOK, ChildStates, GroupIdInStep, NoStrayProcesses,
        Running, Destroy

(* Whenever the controller is destroyed, its command goes with it.         *)
THEOREM DestructionLeavesNone == StartSpec => DestructionCleans
  <1>1. StartInv /\ [StartNext]_startVars =>
            [ child' = "destroyed" /\ child \notin {"starting", "destroyed"} /\ ~spared' =>
                descendants' = {} /\ leader' = "dead" ]_startVars
    BY OnlyDestroyDestroys, DestroyCleans
  <1>2. QED
    BY <1>1, StartInvariant, PTL DEF StartSpec, DestructionCleans

-----------------------------------------------------------------------------
(* The start command implements LaunchGate.                                *)

(* Nothing is on offer at first.                                           *)
LEMMA GateInitMap == StartInit => Gate!GateInit
  BY DEF StartInit, Gate!GateInit, Offer, Permit, ApprovalMatches, Launchable, InitialHost

(* A step that leaves the host state, the approval and the counts alone is *)
(* invisible to the gate.                                                  *)
LEMMA InvisibleStep ==
    ASSUME UNCHANGED <<host, approvalVars, launched, starts, reviewed>>
    PROVE  UNCHANGED Gate!gateVars
  BY DEF Gate!gateVars, approvalVars, Offer, Permit, Launchable, Configured, ApprovalMatches

(* Whatever indexing does withdraws the offer or publishes a new one.      *)
LEMMA HostMovesMap ==
    ASSUME StartInv, HostMoves
    PROVE  Gate!Withdraw \/ Gate!Publish
  <1> USE DEF StartInv
  <1>1. /\ UNCHANGED <<sessionApproved, approvedGeneration, reviewed, starts, launched>>
        /\ host' \in HostStates(LocalConfigs)
        /\ host'.generation >= host.generation
        /\ Launchable(host') => host'.generation = host.generation + 1
    BY HostMovesShape DEF HostMoves, approvalVars, processVars
  <1>2. host.generation \in Nat /\ host'.generation \in Nat
    BY <1>1, HostArgv DEF HostStates
  <1>3. Permit' = NoPermit
    BY <1>1, <1>2 DEF Permit, ApprovalMatches, ApprovalIsPast, StartTypeOK
  <1>4. CASE Offer' = NoPermit
    BY <1>1, <1>2, <1>3, <1>4 DEF Gate!Withdraw
  <1>5. CASE Offer' # NoPermit
    <2>1. Launchable(host') /\ host'.config.argv # NoArgv
      BY <1>5 DEF Offer, Configured
    <2>2. host'.config.argv \in Argv
      BY <1>1, <2>1, StartAssumption DEF HostStates
    <2>3. Offer' = [generation |-> host'.generation, argv |-> host'.config.argv]
      BY <1>5 DEF Offer
    <2>4. Offer' \in Gate!Offers /\ host'.generation = Offer'.generation
      BY <1>2, <2>2, <2>3 DEF Gate!Offers
    <2>5. host'.generation > host.generation
      BY <1>1, <1>2, <2>1
    <2>6. QED
      BY <1>1, <1>3, <2>4, <2>5 DEF Gate!Publish
  <1>6. QED
    BY <1>4, <1>5

(* A granted approval is a review; a refused one revokes.                  *)
LEMMA ApproveMap ==
    ASSUME StartInv, NEW g \in 0..MaxGeneration, Approve(g)
    PROVE  Gate!Review \/ Gate!Revoke
  <1>1. UNCHANGED <<host, starts, launched>> /\ Offer' = Offer
    BY DEF Approve, processVars, Offer, Configured, Launchable
  <1>2. CASE ApprovalGranted(g)
    <2>1. /\ Launchable(host) /\ Configured /\ AllowedByCli
          /\ ApprovalMatches'
          /\ reviewed' = reviewed + 1
      BY <1>1, <1>2 DEF Approve, ApprovalGranted, ApprovalMatches, Launchable
    <2>2. Offer = [generation |-> host.generation, argv |-> host.config.argv]
      BY <2>1 DEF Offer
    <2>3. Permit' = Offer
      BY <1>1, <2>1, <2>2 DEF Permit, Configured
    <2>4. Offer # NoPermit
      BY <2>1, <2>2, HostArgv, StartAssumption DEF StartInv, Published
    <2>5. QED
      BY <1>1, <2>1, <2>3, <2>4 DEF Gate!Review
  <1>3. CASE ~ApprovalGranted(g)
    <2>1. ~sessionApproved' /\ reviewed' = reviewed
      BY <1>3 DEF Approve
    <2>2. Permit' = NoPermit
      BY <2>1 DEF Permit, ApprovalMatches
    <2>3. QED
      BY <1>1, <2>1, <2>2 DEF Gate!Revoke
  <1>4. QED
    BY <1>2, <1>3

(* A start launches what was permitted, and uses the permit up.            *)
LEMMA StartMap ==
    ASSUME StartInv, Start
    PROVE  Gate!Launch
  <1>1. /\ Permit = [generation |-> host.generation, argv |-> host.config.argv]
        /\ Configured
    BY DEF Start, StartPermitted, Permit
  <1>2. Permit # NoPermit
    BY <1>1, HostArgv, StartAssumption DEF StartInv, Published
  <1>3. Offer' = Offer /\ Permit' = NoPermit
    BY DEF Start, Offer, Permit, Configured, ApprovalMatches, Launchable
  <1>4. QED
    BY <1>1, <1>2, <1>3 DEF Gate!Launch, Start

(* Refusing a start, stopping and being destroyed revoke.                  *)
LEMMA RevokeMap ==
    ASSUME StartRefused \/ Stop \/ Destroy
    PROVE  Gate!Revoke
  <1>1. UNCHANGED <<host, reviewed, starts, launched>> /\ ~sessionApproved'
    BY DEF StartRefused, Stop, Destroy, processVars
  <1>2. Offer' = Offer /\ Permit' = NoPermit
    BY <1>1 DEF Offer, Permit, Configured, ApprovalMatches, Launchable
  <1>3. QED
    BY <1>1, <1>2 DEF Gate!Revoke

(* Every step is a step of the gate or invisible to it.                    *)
LEMMA GateStep == StartInv /\ [StartNext]_startVars => [Gate!GateNext]_(Gate!gateVars)
  <1> SUFFICES ASSUME StartInv, [StartNext]_startVars
               PROVE  [Gate!GateNext]_(Gate!gateVars)
    OBVIOUS
  <1> USE DEF Gate!GateNext
  <1>1. CASE HostMoves
    BY <1>1, HostMovesMap
  <1>2. ASSUME NEW g \in 0..MaxGeneration, Approve(g)
        PROVE  Gate!GateNext
    BY <1>2, ApproveMap
  <1>3. CASE Start
    BY <1>3, StartMap
  <1>4. CASE StartRefused \/ Stop \/ Destroy
    BY <1>4, RevokeMap
  <1>5. CASE LateStarted \/ LateFailed \/ ChildFinished \/ ProcessStep
    <2>1. UNCHANGED <<host, approvalVars, launched, starts, reviewed>>
      BY <1>5 DEF LateStarted, LateFailed, ChildFinished, ProcessStep, LeaderForks,
                  LeaderExits, DescendantsExit
    <2>2. QED
      BY <2>1, InvisibleStep
  <1>6. CASE UNCHANGED startVars
    <2>1. UNCHANGED <<host, approvalVars, launched, starts, reviewed>>
      BY <1>6 DEF startVars, processVars
    <2>2. QED
      BY <2>1, InvisibleStep
  <1>7. QED
    BY <1>1, <1>2, <1>3, <1>4, <1>5, <1>6 DEF StartNext, ControllerStep

(* Every behaviour of the start command is one LaunchGate allows.          *)
THEOREM ImplementsLaunchGate == StartSpec => KeepsLaunchGate
  BY GateInitMap, GateStep, StartInvariant, PTL DEF StartSpec, KeepsLaunchGate, Gate!GateSpec

=============================================================================
