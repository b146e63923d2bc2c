------------------------------ MODULE Messaging ------------------------------
(***************************************************************************)
(* How the desktop program passes messages: a queue whose thread calls     *)
(* the listeners of a message itself, or makes a task of the message for   *)
(* the scheduler of the application, whose thread then calls them          *)
(* (MessageQueue, TaskScheduler). A thread may also send a message to its  *)
(* listeners at once. Listeners register and unregister at any time, from  *)
(* the handlers as well.                                                   *)
(*                                                                         *)
(* All listeners are of the type of all messages: the others are skipped   *)
(* under the lock. A message is "direct" (setSendAsTask(false)) or "task". *)
(***************************************************************************)
EXTENDS Integers, Sequences, SequencesExt, FiniteSets

CONSTANTS
    Listeners,     \* all listeners there will ever be
    Permanent,     \* registered at first, and never unregistered
    IndexSize,     \* 2^w: m_currentListenerIndex is an unsigned number
    MaxMessages,   \* bound: messages pushed
    MaxImmediate,  \* bound: direct messages another thread sends at once
    MaxNext,       \* bound: messages sent as the next task
    MaxUnregister, \* bound: listeners unregistered
    MaxThrows,     \* bound: handlers that throw
    Nobody

ASSUME MessagingAssumption ==
    /\ IsFiniteSet(Listeners) /\ Nobody \notin Listeners
    /\ Permanent \in Seq(Listeners) /\ IsInjective(Permanent)
    /\ IndexSize \in Nat /\ Cardinality(Listeners) < IndexSize
    /\ {MaxMessages, MaxImmediate, MaxNext, MaxUnregister, MaxThrows} \subseteq Nat

(* The threads that call listeners: of the queue, of the scheduler, of Qt. *)
Threads == {"queue", "app", "gui"}
Senders == {"queue", "gui"}

VARIABLES
    listeners,   \* m_listeners
    unborn,      \* listeners that are not constructed yet
    index,       \* m_currentListenerIndex
    length,      \* m_listenersLength
    buffer,      \* m_messageBuffer
    pc,          \* per thread: idle, picked (it has a pointer) or call
    target,      \* per thread: the listener it has a pointer to
    runners,     \* m_taskRunners: message tasks and the background task
    terminating, \* m_terminateRunningTasks
    used,        \* how much of each bound is used
    stable,      \* ghost, per sender: registered since its send began
    count,       \* ghost, per sender: how often each listener was called
    alone        \* ghost, per sender: no other sent while it did

registry == <<listeners, unborn>>
position == <<index, length>>
scheduler == <<runners, terminating>>
ghosts == <<stable, count, alone>>
vars == <<registry, position, buffer, pc, target, scheduler, used, ghosts>>

Background == [kind |-> "background", to |-> <<>>]
MessageTask == [kind |-> "message", to |-> listeners]

Init ==
    /\ listeners = Permanent /\ unborn = Listeners \ Range(Permanent)
    /\ index = 0 /\ length = 0
    /\ buffer = <<>>
    /\ pc = [t \in Threads |-> "idle"] /\ target = [t \in Threads |-> Nobody]
    /\ runners \in {<<>>, <<Background>>} /\ terminating = FALSE
    /\ used = [push |-> 0, now |-> 0, next |-> 0, gone |-> 0, throw |-> 0]
    /\ stable = [t \in Senders |-> {}]
    /\ count = [t \in Senders |-> [l \in Listeners |-> 0]]
    /\ alone = [t \in Senders |-> TRUE]

Use(what, bound) ==
    /\ used[what] < bound
    /\ used' = [used EXCEPT ![what] = @ + 1]

Goto(t, where) == pc' = [pc EXCEPT ![t] = where]
Aim(t, l) == target' = [target EXCEPT ![t] = l]

-----------------------------------------------------------------------------
(* The listeners. A constructor registers, a destructor unregisters.       *)

RegisterListener(l) ==
    /\ l \in unborn
    /\ unborn' = unborn \ {l}
    /\ listeners' = Append(listeners, l)
    /\ UNCHANGED <<position, buffer, pc, target, scheduler, used, ghosts>>

(* Mutant of AdjustIndex: not for the listener that is being called.       *)
MutantAdjustIndex(i) == IF i < index THEN (index - 1) % IndexSize ELSE index

(* An index of the code counts from 0.                                     *)
AdjustIndex(i) == IF i <= index THEN (index - 1) % IndexSize ELSE index
AdjustLength(i) == IF i < length THEN length - 1 ELSE length

UnregisterListener(l) ==
    /\ l \in Range(listeners) \ Range(Permanent)
    /\ Use("gone", MaxUnregister)
    /\ LET i == SelectInSeq(listeners, LAMBDA x : x = l)
       IN  /\ listeners' = RemoveAt(listeners, i)
           /\ index' = AdjustIndex(i - 1)
           /\ length' = AdjustLength(i - 1)
    /\ stable' = [t \in Senders |-> stable[t] \ {l}]
    /\ UNCHANGED <<unborn, buffer, pc, target, scheduler, count, alone>>

-----------------------------------------------------------------------------
(* MessageQueue.                                                           *)

PushMessage(kind) ==
    /\ Use("push", MaxMessages)
    /\ buffer' = Append(buffer, kind)
    /\ UNCHANGED <<registry, position, pc, target, scheduler, ghosts>>

(* A turn of the loop in sendMessage: it ends, or it takes a pointer and   *)
(* releases the lock.                                                      *)
Turn(t, i, n) ==
    /\ index' = i /\ length' = n
    /\ IF i < n THEN Goto(t, "picked") /\ Aim(t, listeners[i + 1])
       ELSE Goto(t, "idle") /\ Aim(t, Nobody)

BeginSend(t) ==
    /\ pc[t] = "idle"
    /\ Turn(t, 0, Len(listeners))
    /\ stable' = [stable EXCEPT ![t] = Range(listeners)]
    /\ count' = [count EXCEPT ![t] = [l \in Listeners |-> 0]]
    /\ alone' = [u \in Senders |->
                   IF \E v \in Senders \ {t} : pc[v] # "idle" THEN FALSE
                   ELSE u = t \/ alone[u]]
    /\ UNCHANGED registry

SendDirect ==
    /\ buffer # <<>> /\ Head(buffer) = "direct"
    /\ buffer' = Tail(buffer)
    /\ BeginSend("queue")
    /\ UNCHANGED <<scheduler, used>>

(* sendMessageAsTask: the listeners of now, by their ids.                  *)
SendAsTask ==
    /\ pc["queue"] = "idle"
    /\ buffer # <<>> /\ Head(buffer) = "task"
    /\ buffer' = Tail(buffer)
    /\ runners' = Append(runners, MessageTask)
    /\ UNCHANGED <<registry, position, pc, target, terminating, used, ghosts>>

(* dispatchImmediately of a direct message, as QtMainWindow::closeEvent.   *)
SendNow ==
    /\ Use("now", MaxImmediate)
    /\ BeginSend("gui")
    /\ UNCHANGED <<buffer, scheduler>>

(* handleMessageBase.                                                      *)
Call(t) ==
    /\ pc[t] = "picked"
    /\ Goto(t, "call")
    /\ IF t \in Senders /\ target[t] # Nobody
       THEN count' = [count EXCEPT ![t][target[t]] = @ + 1]
       ELSE UNCHANGED count
    /\ UNCHANGED <<registry, position, buffer, target, scheduler, used, stable, alone>>

NextListener(t) ==
    /\ t \in Senders /\ pc[t] = "call"
    /\ Turn(t, (index + 1) % IndexSize, length)
    /\ UNCHANGED <<registry, buffer, scheduler, used, ghosts>>

-----------------------------------------------------------------------------
(* TaskScheduler::processTasks, the thread of the application's scheduler. *)

Current == Head(runners)

Ready == pc["app"] = "idle" /\ ~terminating /\ runners # <<>>

(* Mutant of Picked: the task keeps the pointer of when it was made.       *)
MutantPicked(l) == l

(* getListenerById.                                                        *)
Picked(l) == IF l \in Range(listeners) THEN l ELSE Nobody

(* The task of a message looks its next listener up, by its id.            *)
RunMessageTask ==
    /\ Ready /\ Current.kind = "message" /\ Current.to # <<>>
    /\ runners' = [runners EXCEPT ![1].to = Tail(@)]
    /\ IF Picked(Head(Current.to)) # Nobody
       THEN Goto("app", "picked") /\ Aim("app", Picked(Head(Current.to)))
       ELSE UNCHANGED <<pc, target>>
    /\ UNCHANGED <<registry, position, buffer, terminating, used, ghosts>>

EndMessageTask ==
    /\ Ready /\ Current.kind = "message" /\ Current.to = <<>>
    /\ runners' = Tail(runners)
    /\ UNCHANGED <<registry, position, buffer, pc, target, terminating, used, ghosts>>

HandlerReturns ==
    /\ pc["app"] = "call"
    /\ Goto("app", "idle") /\ Aim("app", Nobody)
    /\ UNCHANGED <<registry, position, buffer, scheduler, used, ghosts>>

(* Mutant of Hold: the task that holds is tried again at once.             *)
MutantHold == runners

(* One step of a background task: it holds, and goes to the end.           *)
Hold == Append(Tail(runners), Current)

RunBackground ==
    /\ Ready /\ Current.kind = "background"
    /\ runners' = Hold
    /\ UNCHANGED <<registry, position, buffer, pc, target, terminating, used, ghosts>>

EndBackground ==
    /\ Ready /\ Current.kind = "background"
    /\ runners' = Tail(runners)
    /\ UNCHANGED <<registry, position, buffer, pc, target, terminating, used, ghosts>>

(* A handler sends a message with dispatchImmediately: the next task.      *)
PushNextTask ==
    /\ pc["app"] = "call" /\ runners # <<>>
    /\ Use("next", MaxNext)
    /\ runners' = InsertAt(runners, 2, MessageTask)
    /\ UNCHANGED <<registry, position, buffer, pc, target, terminating, ghosts>>

(* A handler throws: TaskRunner has all that is queued terminated.         *)
Throw ==
    /\ pc["app"] = "call"
    /\ Use("throw", MaxThrows)
    /\ terminating' = TRUE
    /\ Goto("app", "idle") /\ Aim("app", Nobody)
    /\ UNCHANGED <<registry, position, buffer, runners, ghosts>>

TerminateTask ==
    /\ pc["app"] = "idle" /\ terminating
    /\ IF runners = <<>> THEN terminating' = FALSE /\ UNCHANGED runners
       ELSE runners' = Tail(runners) /\ UNCHANGED terminating
    /\ UNCHANGED <<registry, position, buffer, pc, target, used, ghosts>>

-----------------------------------------------------------------------------

SenderStep(t) == Call(t) \/ NextListener(t)

QueueThread == SendDirect \/ SendAsTask \/ SenderStep("queue")

AppThread ==
    \/ RunMessageTask \/ EndMessageTask \/ Call("app") \/ HandlerReturns
    \/ RunBackground \/ TerminateTask

Next ==
    \/ \E l \in Listeners : RegisterListener(l) \/ UnregisterListener(l)
    \/ \E kind \in {"direct", "task"} : PushMessage(kind)
    \/ QueueThread \/ AppThread
    \/ EndBackground \/ PushNextTask \/ Throw
    \/ SendNow \/ SenderStep("gui")

Spec == Init /\ [][Next]_vars

(* Both threads run, and handlers return.                                  *)
FairSpec == Spec /\ WF_vars(QueueThread) /\ WF_vars(AppThread)

-----------------------------------------------------------------------------

(* "so that new listeners registered within message handling don't get the *)
(* current message and the length can be reduced when a listener gets      *)
(* unregistered": when a message has been sent, each listener that was     *)
(* registered all the time has been called once, and none ever twice,      *)
(* unless another thread sent at the same time.                            *)
CalledOnce(t) ==
    /\ \A l \in Listeners : count[t][l] <= 1
    /\ pc[t] = "idle" => \A l \in stable[t] : count[t][l] = 1

EachListenerOnce == \A t \in Senders : alone[t] => CalledOnce(t)

(* The same of all threads, which share one index. TLC refutes it.         *)
EveryListenerOnce == \A t \in Senders : CalledOnce(t)

(* Listeners go while their ids wait in tasks, and while the loop counts    *)
(* through the list: a pointer is only ever taken to a listener that is    *)
(* registered at that moment, so one that is gone is called at most by the *)
(* threads that had a pointer to it already.                               *)
LooksUpRegistered ==
    [][\A t \in Threads :
         pc'[t] = "picked" /\ pc[t] # "picked" => target'[t] \in Range(listeners')]_vars

(* "The listenersMutex gets unlocked so changes to listeners are possible  *)
(* while message handling": that a listener which is about to be called is *)
(* still registered. TLC refutes it: nothing holds the pointer's listener  *)
(* between the look-up and the call.                                       *)
CallsLive == \A t \in Threads : pc[t] = "picked" => target[t] \in Range(listeners)

(* Every message is handled, or dropped with all the tasks when a handler  *)
(* throws; a background task that goes on for ever holds none of them up.  *)
MessagesHandled ==
    <>[](buffer = <<>> /\ \A i \in DOMAIN runners : runners[i].kind = "background")

=============================================================================
