---------------------------- MODULE Messages_proofs ----------------------------
(***************************************************************************)
(* Proofs about the messages of the desktop program: Messaging, for every  *)
(* number of listeners and messages, and UndoRedo, for every list of       *)
(* commands and whatever is under way to the tab.                          *)
(***************************************************************************)
EXTENDS Messaging, UndoRedo, FiniteSetTheorems, WellFoundedInduction, TLAPS

(* Two lists, one behind the other.                                        *)
LEMMA ConcatFacts ==
    ASSUME NEW S, NEW a \in Seq(S), NEW b \in Seq(S)
    PROVE  /\ a \o b \in Seq(S)
           /\ Len(a \o b) = Len(a) + Len(b)
           /\ \A i \in 1 .. Len(a) : (a \o b)[i] = a[i]
           /\ \A i \in 1 .. Len(b) : (a \o b)[Len(a) + i] = b[i]
OBVIOUS

(* Listeners stay in the order in which they came, each of them once.      *)
LEMMA RemoveFacts ==
    ASSUME NEW S, NEW seq \in Seq(S), NEW i \in 1 .. Len(seq)
    PROVE  /\ RemoveAt(seq, i) \in Seq(S)
           /\ Len(RemoveAt(seq, i)) = Len(seq) - 1
           /\ \A j \in 1 .. (Len(seq) - 1) :
                  RemoveAt(seq, i)[j] = IF j < i THEN seq[j] ELSE seq[j + 1]
<1>. DEFINE before == SubSeq(seq, 1, i - 1)
            behind == SubSeq(seq, i + 1, Len(seq))
<1>1. before \in Seq(S) /\ Len(before) = i - 1 /\ \A j \in 1 .. (i - 1) : before[j] = seq[j]
  OBVIOUS
<1>2. /\ behind \in Seq(S) /\ Len(behind) = Len(seq) - i
      /\ \A j \in 1 .. (Len(seq) - i) : behind[j] = seq[i + j]
  OBVIOUS
<1>3. RemoveAt(seq, i) = before \o behind
  BY DEF RemoveAt
<1>. HIDE DEF before, behind
<1>4. before \o behind \in Seq(S) /\ Len(before \o behind) = Len(seq) - 1
  <2>1. /\ before \o behind \in Seq(S)
        /\ Len(before \o behind) = Len(before) + Len(behind)
    BY <1>1, <1>2, ConcatFacts
  <2>2. (i - 1) + (Len(seq) - i) = Len(seq) - 1
    OBVIOUS
  <2>. QED
    BY <1>1, <1>2, <2>1, <2>2
<1>5. ASSUME NEW j \in 1 .. (Len(seq) - 1)
      PROVE  (before \o behind)[j] = IF j < i THEN seq[j] ELSE seq[j + 1]
  <2>1. CASE j < i
    BY <1>1, <1>2, <2>1, ConcatFacts
  <2>2. CASE ~(j < i)
    <3>1. /\ j - (i - 1) \in 1 .. (Len(seq) - i)
          /\ (i - 1) + (j - (i - 1)) = j
          /\ i + (j - (i - 1)) = j + 1
      BY <2>2
    <3>2. (before \o behind)[(i - 1) + (j - (i - 1))] = behind[j - (i - 1)]
      BY <1>1, <1>2, <3>1, ConcatFacts
    <3>. QED
      BY <1>2, <2>2, <3>1, <3>2
  <2>. QED
    BY <2>1, <2>2
<1>. QED
  BY <1>3, <1>4, <1>5

LEMMA SelectFacts ==
    ASSUME NEW S, NEW seq \in Seq(S), IsInjective(seq), NEW e \in Range(seq)
    PROVE  LET i == SelectInSeq(seq, LAMBDA x : x = e)
           IN  i \in 1 .. Len(seq) /\ seq[i] = e
<1>. DEFINE I == {i \in 1 .. Len(seq) : seq[i] = e}
<1>1. PICK k \in 1 .. Len(seq) : seq[k] = e
  BY DEF Range
<1>2. I = {k}
  BY <1>1 DEF IsInjective
<1>3. Min(I) = k
  BY <1>2 DEF Min
<1>4. SelectInSeq(seq, LAMBDA x : x = e) = Min(I)
  BY <1>2 DEF SelectInSeq
<1>. QED
  BY <1>1, <1>3, <1>4

LEMMA AppendFacts ==
    ASSUME NEW S, NEW seq \in Seq(S), NEW e \in S
    PROVE  /\ Append(seq, e) \in Seq(S)
           /\ Len(Append(seq, e)) = Len(seq) + 1
           /\ Append(seq, e)[Len(seq) + 1] = e
           /\ \A i \in 1 .. Len(seq) : Append(seq, e)[i] = seq[i]
OBVIOUS

-----------------------------------------------------------------------------
(* What every variable holds. Every listener is constructed once, and      *)
(* those of Permanent stay where they are: at the head of the list.        *)
RegistryFits ==
    /\ listeners \in Seq(Listeners) /\ IsInjective(listeners)
    /\ unborn \subseteq Listeners \ Range(listeners)
    /\ Permanent # <<>> => listeners # <<>> /\ listeners[1] = Permanent[1]

PositionFits == index \in 0 .. (IndexSize - 1) /\ length \in 0 .. Len(listeners)

ThreadsFit ==
    /\ pc \in [Threads -> {"idle", "picked", "call"}]
    /\ target \in [Threads -> Listeners \cup {Nobody}]
    /\ \A t \in Threads : pc[t] = "picked" => target[t] \in Listeners \ unborn

GhostsFit ==
    /\ stable \in [Senders -> SUBSET Listeners]
    /\ count \in [Senders -> [Listeners -> Nat]]
    /\ alone \in [Senders -> BOOLEAN]

MessagingShapes == RegistryFits /\ PositionFits /\ ThreadsFit /\ GhostsFit

(* How many of the listeners of this message, counted from the head of the *)
(* list, are done with: the one that is about to be called is not, unless  *)
(* it has been unregistered.                                               *)
Done(t) ==
    IF pc[t] = "picked" /\ target[t] \in Range(listeners) THEN index ELSE index + 1

(* A sender that is alone: those at the head of the list, up to Done, have *)
(* been called once, and no other that is registered or will be.           *)
Halfway(t) ==
    /\ \A u \in Senders \ {t} : pc[u] = "idle"
    /\ Done(t) <= length
    /\ pc[t] = "picked" =>
           IF target[t] \in Range(listeners)
           THEN index < length /\ target[t] = listeners[index + 1]
           ELSE count[t][target[t]] = 0
    /\ stable[t] = {listeners[i] : i \in 1 .. length}
    /\ \A i \in 1 .. Len(listeners) :
           count[t][listeners[i]] = IF i <= Done(t) THEN 1 ELSE 0
    /\ \A l \in unborn : count[t][l] = 0
    /\ \A l \in Listeners : count[t][l] <= 1

SendersInStep ==
    \A t \in Senders : alone[t] => IF pc[t] = "idle" THEN CalledOnce(t) ELSE Halfway(t)

MessagingInv == MessagingShapes /\ SendersInStep

LEMMA IndexSizeIsLarge == RegistryFits => Len(listeners) < IndexSize /\ IndexSize > 0
<1>. SUFFICES ASSUME RegistryFits PROVE Len(listeners) < IndexSize /\ IndexSize > 0
  OBVIOUS
<1>. DEFINE n == Len(listeners)
<1>1. n \in Nat /\ listeners \in Injection(1 .. n, Listeners)
  BY DEF RegistryFits, Injection
<1>2. Cardinality(1 .. n) <= Cardinality(Listeners)
  BY <1>1, MessagingAssumption, FS_Injection DEF MessagingAssumption
<1>. HIDE DEF n
<1>3. Cardinality(1 .. n) = n
  BY <1>1, FS_Interval
<1>4. Cardinality(Listeners) \in Nat
  BY MessagingAssumption, FS_CardinalityType
<1>5. n < IndexSize /\ IndexSize > 0
  BY <1>1, <1>2, <1>3, <1>4, MessagingAssumption
<1>. QED
  BY <1>5 DEF n

LEMMA Modulo ==
    ASSUME NEW n \in Nat, n > 0, NEW i \in Int
    PROVE  i % n \in 0 .. (n - 1) /\ (i \in 0 .. (n - 1) => i % n = i)
OBVIOUS

LEMMA UnregisterFacts ==
    ASSUME RegistryFits, NEW l \in Listeners, UnregisterListener(l)
    PROVE  \E i \in 1 .. Len(listeners) :
               /\ listeners[i] = l
               /\ Permanent # <<>> => i # 1
               /\ listeners' \in Seq(Listeners) /\ Len(listeners') = Len(listeners) - 1
               /\ \A j \in 1 .. (Len(listeners) - 1) :
                      listeners'[j] = IF j < i THEN listeners[j] ELSE listeners[j + 1]
               /\ index' = AdjustIndex(i - 1) /\ length' = AdjustLength(i - 1)
<1>. DEFINE i == SelectInSeq(listeners, LAMBDA x : x = l)
<1>1. l \in Range(listeners) /\ l \notin Range(Permanent)
  BY DEF UnregisterListener
<1>2. i \in 1 .. Len(listeners) /\ listeners[i] = l
  BY <1>1, SelectFacts DEF RegistryFits
<1>3. /\ listeners' = RemoveAt(listeners, i)
      /\ index' = AdjustIndex(i - 1) /\ length' = AdjustLength(i - 1)
  BY DEF UnregisterListener
<1>. HIDE DEF i
<1>4. /\ listeners' \in Seq(Listeners) /\ Len(listeners') = Len(listeners) - 1
      /\ \A j \in 1 .. (Len(listeners) - 1) :
             listeners'[j] = IF j < i THEN listeners[j] ELSE listeners[j + 1]
  BY <1>2, <1>3, RemoveFacts DEF RegistryFits
<1>5. Permanent # <<>> => i # 1
  <2>1. Permanent # <<>> => Permanent[1] \in Range(Permanent)
    BY MessagingAssumption DEF Range
  <2>. QED
    BY <1>1, <1>2, <2>1 DEF RegistryFits
<1>. QED
  BY <1>2, <1>3, <1>4, <1>5

LEMMA RegistryNext == ASSUME RegistryFits, [Next]_vars PROVE RegistryFits'
<1>1. ASSUME NEW l \in Listeners, RegisterListener(l) PROVE RegistryFits'
  <2>1. l \in unborn /\ unborn' = unborn \ {l} /\ listeners' = Append(listeners, l)
    BY <1>1 DEF RegisterListener
  <2>. DEFINE n == Len(listeners)
  <2>2. /\ listeners' \in Seq(Listeners) /\ Len(listeners') = n + 1 /\ n \in Nat
        /\ listeners'[n + 1] = l /\ \A i \in 1 .. n : listeners'[i] = listeners[i]
        /\ DOMAIN listeners' = 1 .. (n + 1) /\ DOMAIN listeners = 1 .. n
        /\ listeners # <<>> => n # 0
    BY <2>1, AppendFacts DEF RegistryFits
  <2>. HIDE DEF n
  <2>3. \A i \in 1 .. n : listeners[i] # l
    BY <2>1, <2>2 DEF RegistryFits, Range
  <2>4. IsInjective(listeners')
    <3>1. \A i, j \in 1 .. n : listeners[i] = listeners[j] => i = j
      BY <2>2 DEF RegistryFits, IsInjective
    <3>. QED
      BY <2>2, <2>3, <3>1 DEF IsInjective
  <2>5. \A x \in Range(listeners') : x = l \/ x \in Range(listeners)
    BY <2>2 DEF Range
  <2>6. Permanent # <<>> => listeners' # <<>> /\ listeners'[1] = Permanent[1]
    BY <2>2 DEF RegistryFits
  <2>. QED
    BY <2>1, <2>2, <2>4, <2>5, <2>6 DEF RegistryFits
<1>2. ASSUME NEW l \in Listeners, UnregisterListener(l) PROVE RegistryFits'
  <2>1. unborn' = unborn
    BY <1>2 DEF UnregisterListener
  <2>. DEFINE n == Len(listeners)
  <2>2. PICK i \in 1 .. n :
            /\ Permanent # <<>> => i # 1
            /\ listeners' \in Seq(Listeners) /\ Len(listeners') = n - 1
            /\ \A j \in 1 .. (n - 1) :
                   listeners'[j] = IF j < i THEN listeners[j] ELSE listeners[j + 1]
    BY <1>2, UnregisterFacts
  <2>3. DOMAIN listeners' = 1 .. (n - 1) /\ DOMAIN listeners = 1 .. n /\ n \in Nat
    BY <2>2 DEF RegistryFits
  <2>. HIDE DEF n
  <2>4. IsInjective(listeners')
    BY <2>2, <2>3 DEF RegistryFits, IsInjective
  <2>5. Range(listeners') \subseteq Range(listeners)
    <3>1. ASSUME NEW j \in 1 .. (n - 1)
          PROVE  \E k \in 1 .. n : listeners'[j] = listeners[k]
      <4>1. j \in 1 .. n /\ j + 1 \in 1 .. n
        BY <2>3
      <4>. QED
        BY <2>2, <4>1
    <3>. QED
      BY <2>3, <3>1 DEF Range
  <2>6. Permanent # <<>> => listeners' # <<>> /\ listeners'[1] = Permanent[1]
    BY <2>2, <2>3 DEF RegistryFits
  <2>. QED
    BY <2>1, <2>2, <2>4, <2>5, <2>6 DEF RegistryFits
<1>3. CASE ~ \E l \in Listeners : RegisterListener(l) \/ UnregisterListener(l)
  <2>1. UNCHANGED registry
    BY <1>3 DEF Next, QueueThread, AppThread, SenderStep, PushMessage, SendDirect,
       SendAsTask, BeginSend, SendNow, Call, NextListener, RunMessageTask,
       EndMessageTask, HandlerReturns, RunBackground, EndBackground, PushNextTask,
       Throw, TerminateTask, vars
  <2>. QED
    BY <2>1 DEF RegistryFits, registry
<1>. QED
  BY <1>1, <1>2, <1>3

(* The steps that leave the list as it is and no thread in a send.         *)
Elsewhere ==
    \/ \E kind \in {"direct", "task"} : PushMessage(kind)
    \/ SendAsTask \/ EndMessageTask \/ RunBackground \/ TerminateTask
    \/ EndBackground \/ PushNextTask
    \/ UNCHANGED vars

LEMMA ElsewhereUnchanged ==
    Elsewhere => UNCHANGED <<listeners, unborn, index, length, pc, target, stable, count, alone>>
BY DEF Elsewhere, PushMessage, SendAsTask, EndMessageTask, RunBackground, TerminateTask,
   EndBackground, PushNextTask, vars, registry, position, ghosts

(* What the thread of the application's scheduler does of its own.         *)
AppStep == RunMessageTask \/ HandlerReturns \/ Throw

LEMMA NextIs ==
    [Next]_vars =>
        \/ \E l \in Listeners : RegisterListener(l) \/ UnregisterListener(l)
        \/ SendDirect \/ SendNow
        \/ \E t \in Threads : Call(t)
        \/ NextListener("queue") \/ NextListener("gui")
        \/ AppStep \/ Elsewhere
BY DEF Next, QueueThread, AppThread, SenderStep, AppStep, Elsewhere, Threads

LEMMA ShapesNext ==
    ASSUME MessagingShapes, [Next]_vars
    PROVE  MessagingShapes'
<1>0. RegistryFits /\ RegistryFits' /\ PositionFits /\ ThreadsFit /\ GhostsFit
  BY RegistryNext DEF MessagingShapes
<1>1. Len(listeners) < IndexSize /\ IndexSize > 0 /\ IndexSize \in Nat /\ Len(listeners) \in Nat
  BY <1>0, IndexSizeIsLarge, MessagingAssumption DEF RegistryFits
<1>2. ASSUME NEW l \in Listeners, RegisterListener(l)
      PROVE  PositionFits' /\ ThreadsFit' /\ GhostsFit'
  <2>1. UNCHANGED <<index, length, pc, target, stable, count, alone>>
        /\ unborn' \subseteq unborn
    BY <1>2 DEF RegisterListener, position, ghosts
  <2>2. Len(listeners') = Len(listeners) + 1
    BY <1>0, <1>2, AppendFacts DEF RegisterListener, RegistryFits
  <2>. QED
    BY <1>0, <1>1, <2>1, <2>2 DEF PositionFits, ThreadsFit, GhostsFit
<1>3. ASSUME NEW l \in Listeners, UnregisterListener(l)
      PROVE  PositionFits' /\ ThreadsFit' /\ GhostsFit'
  <2>1. PICK i \in 1 .. Len(listeners) :
            /\ Len(listeners') = Len(listeners) - 1
            /\ index' = AdjustIndex(i - 1) /\ length' = AdjustLength(i - 1)
    BY <1>0, <1>3, UnregisterFacts
  <2>2. index' \in 0 .. (IndexSize - 1)
    BY <1>0, <1>1, <2>1, Modulo DEF AdjustIndex, PositionFits
  <2>3. length' \in 0 .. Len(listeners')
    BY <1>0, <1>1, <2>1 DEF AdjustLength, PositionFits
  <2>4. UNCHANGED <<unborn, pc, target, count, alone>>
        /\ stable' = [t \in Senders |-> stable[t] \ {l}]
    BY <1>3 DEF UnregisterListener
  <2>. QED
    BY <1>0, <2>2, <2>3, <2>4 DEF PositionFits, ThreadsFit, GhostsFit
<1>4. ASSUME NEW t \in Senders, BeginSend(t)
      PROVE  PositionFits' /\ ThreadsFit' /\ GhostsFit'
  <2>1. /\ index' = 0 /\ length' = Len(listeners) /\ listeners' = listeners
        /\ unborn' = unborn
    BY <1>4 DEF BeginSend, Turn, registry
  <2>2. PositionFits'
    BY <1>1, <2>1 DEF PositionFits
  <2>3. Len(listeners) > 0 => /\ listeners[1] \in Listeners
                              /\ listeners[1] \in Range(listeners)
    BY <1>0 DEF RegistryFits, Range
  <2>4. ThreadsFit'
    BY <1>0, <1>1, <1>4, <2>1, <2>3
    DEF BeginSend, Turn, Goto, Aim, ThreadsFit, Senders, Threads, RegistryFits
  <2>5. Range(listeners) \subseteq Listeners
    BY <1>0 DEF RegistryFits, Range
  <2>6. GhostsFit'
    BY <1>0, <1>4, <2>5 DEF BeginSend, GhostsFit
  <2>. QED
    BY <2>2, <2>4, <2>6
<1>5. ASSUME NEW t \in Senders, NextListener(t)
      PROVE  PositionFits' /\ ThreadsFit' /\ GhostsFit'
  <2>. DEFINE i == (index + 1) % IndexSize
  <2>1. /\ index' = i /\ length' = length /\ listeners' = listeners
        /\ UNCHANGED <<unborn, stable, count, alone>>
        /\ IF i < length THEN Goto(t, "picked") /\ Aim(t, listeners[i + 1])
           ELSE Goto(t, "idle") /\ Aim(t, Nobody)
    BY <1>5 DEF NextListener, Turn, registry, ghosts
  <2>2. i \in 0 .. (IndexSize - 1)
    BY <1>0, <1>1, Modulo DEF PositionFits
  <2>. HIDE DEF i
  <2>3. PositionFits' /\ GhostsFit'
    BY <1>0, <2>1, <2>2 DEF PositionFits, GhostsFit
  <2>4. i < length => i + 1 \in 1 .. Len(listeners)
    BY <1>0, <1>1, <2>2 DEF PositionFits
  <2>5. i < length => listeners[i + 1] \in Listeners /\ listeners[i + 1] \in Range(listeners)
    BY <1>0, <2>4 DEF RegistryFits, Range
  <2>6. ThreadsFit'
    BY <1>0, <2>1, <2>5 DEF Goto, Aim, ThreadsFit, Senders, Threads, RegistryFits
  <2>. QED
    BY <2>3, <2>6
<1>6. ASSUME NEW t \in Threads, Call(t)
      PROVE  PositionFits' /\ ThreadsFit' /\ GhostsFit'
  <2>1. UNCHANGED <<listeners, unborn, index, length, target, stable, alone>>
    BY <1>6 DEF Call, registry, position
  <2>2. ThreadsFit'
    BY <1>0, <1>6, <2>1 DEF Call, Goto, ThreadsFit, Threads
  <2>3. count' \in [Senders -> [Listeners -> Nat]]
    <3>1. count' = count \/ /\ t \in Senders
                            /\ target[t] \in Listeners
                            /\ count' = [count EXCEPT ![t][target[t]] = @ + 1]
      BY <1>0, <1>6 DEF Call, ThreadsFit
    <3>2. ASSUME t \in Senders, target[t] \in Listeners
          PROVE  [count[t] EXCEPT ![target[t]] = @ + 1] \in [Listeners -> Nat]
      BY <1>0, <3>2 DEF GhostsFit
    <3>. QED
      BY <1>0, <3>1, <3>2 DEF GhostsFit
  <2>. QED
    BY <1>0, <2>1, <2>2, <2>3 DEF PositionFits, GhostsFit
<1>7. CASE AppStep
  <2>1. UNCHANGED <<listeners, unborn, index, length, stable, count, alone>>
    BY <1>7 DEF AppStep, RunMessageTask, HandlerReturns, Throw, registry, position, ghosts
  <2>2. \/ UNCHANGED <<pc, target>>
        \/ Goto("app", "idle") /\ Aim("app", Nobody)
        \/ \E l \in Range(listeners) : Goto("app", "picked") /\ Aim("app", l)
    BY <1>7 DEF AppStep, RunMessageTask, HandlerReturns, Throw, Picked
  <2>3. Range(listeners) \subseteq Listeners
    BY <1>0 DEF RegistryFits, Range
  <2>4. ThreadsFit'
    BY <1>0, <2>1, <2>2, <2>3 DEF Goto, Aim, ThreadsFit, Threads, RegistryFits
  <2>. QED
    BY <1>0, <2>1, <2>4 DEF MessagingShapes, PositionFits, GhostsFit
<1>8. CASE Elsewhere
  BY <1>0, <1>8, ElsewhereUnchanged
  DEF MessagingShapes, PositionFits, ThreadsFit, GhostsFit
<1>. QED
  BY <1>0, <1>2, <1>3, <1>4, <1>5, <1>6, <1>7, <1>8, NextIs
  DEF MessagingShapes, SendDirect, SendNow, Senders

LEMMA MessagingShapesInit == Init => MessagingShapes
<1>. SUFFICES ASSUME Init PROVE MessagingShapes
  OBVIOUS
<1>1. RegistryFits
  BY MessagingAssumption DEF Init, RegistryFits
<1>2. Len(listeners) \in Nat /\ IndexSize > 0 /\ IndexSize \in Nat
  BY <1>1, IndexSizeIsLarge, MessagingAssumption DEF RegistryFits
<1>3. PositionFits
  BY <1>2 DEF Init, PositionFits
<1>4. ThreadsFit /\ GhostsFit
  BY DEF Init, ThreadsFit, GhostsFit
<1>. QED
  BY <1>1, <1>3, <1>4 DEF MessagingShapes

-----------------------------------------------------------------------------
(* Who is about to be called.                                              *)

LEMMA PickIsRegistered ==
    ASSUME MessagingShapes, [Next]_vars,
           NEW t \in Threads, pc'[t] = "picked", pc[t] # "picked"
    PROVE  target'[t] \in Range(listeners')
<1>0. RegistryFits /\ PositionFits /\ ThreadsFit
  BY DEF MessagingShapes
<1>1. Len(listeners) < IndexSize /\ IndexSize > 0 /\ IndexSize \in Nat /\ Len(listeners) \in Nat
  BY <1>0, IndexSizeIsLarge, MessagingAssumption DEF RegistryFits
<1>2. ~(pc' = pc)
  OBVIOUS
<1>3. ASSUME NEW l \in Listeners, RegisterListener(l) \/ UnregisterListener(l) PROVE FALSE
  BY <1>2, <1>3 DEF RegisterListener, UnregisterListener
<1>4. ASSUME NEW u \in Threads, NEW i, NEW n \in 0 .. Len(listeners), i \in Nat,
             Turn(u, i, n), UNCHANGED listeners
      PROVE  target'[t] \in Range(listeners')
  <2>1. t = u /\ i < n
    BY <1>0, <1>4 DEF Turn, Goto, Aim, ThreadsFit
  <2>2. i + 1 \in 1 .. Len(listeners)
    BY <1>1, <1>4, <2>1
  <2>3. listeners[i + 1] \in Range(listeners)
    BY <1>0, <2>2 DEF RegistryFits, Range
  <2>4. target'[t] = listeners[i + 1]
    BY <1>0, <1>4, <2>1 DEF Turn, Aim, ThreadsFit
  <2>. QED
    BY <1>4, <2>3, <2>4
<1>5. ASSUME NEW u \in Senders, BeginSend(u) PROVE target'[t] \in Range(listeners')
  BY <1>1, <1>4, <1>5 DEF BeginSend, Senders, Threads, registry
<1>6. ASSUME NEW u \in Senders, NextListener(u) PROVE target'[t] \in Range(listeners')
  <2>1. (index + 1) % IndexSize \in Nat
    BY <1>0, <1>1, Modulo DEF PositionFits
  <2>. QED
    BY <1>0, <1>4, <1>6, <2>1 DEF NextListener, Senders, Threads, registry, PositionFits
<1>7. ASSUME NEW u \in Threads, Call(u) PROVE FALSE
  BY <1>0, <1>7 DEF Call, Goto, ThreadsFit
<1>8. CASE AppStep
  <2>1. listeners' = listeners
    BY <1>8 DEF AppStep, RunMessageTask, HandlerReturns, Throw, registry
  <2>2. \E l \in Range(listeners) : Goto("app", "picked") /\ Aim("app", l)
    BY <1>0, <1>2, <1>8, MessagingAssumption
    DEF AppStep, RunMessageTask, HandlerReturns, Throw, Picked, Goto, ThreadsFit
  <2>3. t = "app"
    BY <1>0, <2>2 DEF Goto, ThreadsFit
  <2>. QED
    BY <1>0, <2>1, <2>2, <2>3 DEF Aim, ThreadsFit
<1>9. CASE Elsewhere
  BY <1>2, <1>9, ElsewhereUnchanged
<1>. QED
  BY <1>3, <1>5, <1>6, <1>7, <1>8, <1>9, NextIs DEF SendDirect, SendNow, Senders

(* Whoever registers and unregisters, and whenever: no thread ever takes a *)
(* pointer to a listener that is gone (LooksUpRegistered), by the index of *)
(* the loop or by the ids of a task.                                       *)
THEOREM RegisteredWhenLookedUp == Spec => LooksUpRegistered
<1>1. MessagingShapes /\ [Next]_vars =>
        [\A t \in Threads :
           pc'[t] = "picked" /\ pc[t] # "picked" => target'[t] \in Range(listeners')]_vars
  BY PickIsRegistered
<1>. QED
  BY <1>1, MessagingShapesInit, ShapesNext, PTL DEF Spec, LooksUpRegistered

-----------------------------------------------------------------------------
(* Who has been called.                                                    *)

LEMMA SomebodyStays ==
    ASSUME RegistryFits, Permanent # <<>>, NEW l \in Listeners, UnregisterListener(l),
           PositionFits
    PROVE  \E i \in 2 .. Len(listeners) :
               /\ listeners[i] = l
               /\ listeners' \in Seq(Listeners) /\ Len(listeners') = Len(listeners) - 1
               /\ \A j \in 1 .. (Len(listeners) - 1) :
                      listeners'[j] = IF j < i THEN listeners[j] ELSE listeners[j + 1]
               /\ index' = IF i - 1 <= index THEN index - 1 ELSE index
               /\ length' = IF i - 1 < length THEN length - 1 ELSE length
<1>1. PICK i \in 1 .. Len(listeners) :
          /\ listeners[i] = l
          /\ Permanent # <<>> => i # 1
          /\ listeners' \in Seq(Listeners) /\ Len(listeners') = Len(listeners) - 1
          /\ \A j \in 1 .. (Len(listeners) - 1) :
                 listeners'[j] = IF j < i THEN listeners[j] ELSE listeners[j + 1]
          /\ index' = AdjustIndex(i - 1) /\ length' = AdjustLength(i - 1)
  BY UnregisterFacts
<1>2. i \in 2 .. Len(listeners)
  BY <1>1
<1>3. /\ Len(listeners) \in Nat /\ IndexSize \in Nat /\ IndexSize > 0
      /\ index \in 0 .. (IndexSize - 1)
  BY IndexSizeIsLarge, MessagingAssumption DEF RegistryFits, PositionFits
<1>4. i - 1 <= index => index - 1 \in 0 .. (IndexSize - 1)
  BY ONLY <1>2, <1>3
<1>5. i - 1 <= index => (index - 1) % IndexSize = index - 1
  BY ONLY <1>3, <1>4, Modulo
<1>. QED
  BY <1>1, <1>2, <1>5 DEF AdjustIndex, AdjustLength

(* One listener less: those behind it move up by one.                      *)
LEMMA HalfwayUnregister ==
    ASSUME MessagingShapes, Permanent # <<>>, NEW t \in Senders, Halfway(t),
           pc[t] # "idle", NEW l \in Listeners, UnregisterListener(l)
    PROVE  Halfway(t)'
<1>0. RegistryFits /\ PositionFits /\ ThreadsFit /\ GhostsFit
  BY DEF MessagingShapes
<1>. DEFINE n == Len(listeners)
            d == Done(t)
            d2 == Done(t)'
<1>1. PICK i \in 2 .. n :
          /\ listeners[i] = l
          /\ listeners' \in Seq(Listeners) /\ Len(listeners') = n - 1
          /\ \A j \in 1 .. (n - 1) :
                 listeners'[j] = IF j < i THEN listeners[j] ELSE listeners[j + 1]
          /\ index' = IF i - 1 <= index THEN index - 1 ELSE index
          /\ length' = IF i - 1 < length THEN length - 1 ELSE length
  BY <1>0, SomebodyStays
<1>2. /\ UNCHANGED <<unborn, pc, target, count>>
      /\ stable' = [u \in Senders |-> stable[u] \ {l}]
  BY DEF UnregisterListener
<1>3. /\ DOMAIN listeners = 1 .. n /\ n \in Nat /\ DOMAIN listeners' = 1 .. (n - 1)
      /\ index \in Nat /\ length \in 0 .. n
      /\ \A j, k \in 1 .. n : listeners[j] = listeners[k] => j = k
  <2>1. DOMAIN listeners = 1 .. n /\ n \in Nat
    BY <1>0 DEF RegistryFits
  <2>2. DOMAIN listeners' = 1 .. (n - 1)
    BY <1>1
  <2>3. length \in 0 .. n /\ index \in 0 .. (IndexSize - 1)
    BY <1>0 DEF PositionFits
  <2>4. index \in Nat
    BY <2>3, MessagingAssumption DEF MessagingAssumption
  <2>5. \A j, k \in 1 .. n : listeners[j] = listeners[k] => j = k
    BY <1>0, <2>1 DEF RegistryFits, IsInjective
  <2>. QED
    BY <2>1, <2>2, <2>3, <2>4, <2>5
<1>. HIDE DEF n
<1>4. \A j \in 1 .. n : listeners[j] \in Range(listeners)
  BY <1>3 DEF Range
<1>5. \A x : x \in Range(listeners') <=> x \in Range(listeners) /\ x # l
  <2>1. ASSUME NEW j \in 1 .. (n - 1)
        PROVE  listeners'[j] \in Range(listeners) /\ listeners'[j] # l
    <3>1. j \in 1 .. n /\ j + 1 \in 1 .. n
      BY <1>3
    <3>. QED
      BY <1>1, <1>3, <1>4, <3>1
  <2>2. ASSUME NEW k \in 1 .. n, listeners[k] # l
        PROVE  \E j \in 1 .. (n - 1) : listeners'[j] = listeners[k]
    <3>1. CASE k < i
      <4>1. k \in 1 .. (n - 1) /\ listeners'[k] = listeners[k]
        BY <1>1, <1>3, <3>1
      <4>. QED
        BY <4>1
    <3>2. CASE k > i
      <4>1. k - 1 \in 1 .. (n - 1) /\ ~(k - 1 < i) /\ (k - 1) + 1 = k
        BY <1>1, <1>3, <3>2
      <4>2. listeners'[k - 1] = listeners[k]
        BY <1>1, <4>1
      <4>. QED
        BY <4>1, <4>2
    <3>. QED
      BY <1>1, <1>3, <2>2, <3>1, <3>2
  <2>3. \A x : x \in Range(listeners) <=> \E k \in 1 .. n : x = listeners[k]
    BY ONLY <1>3 DEF Range
  <2>4. \A x : x \in Range(listeners') <=> \E j \in 1 .. (n - 1) : x = listeners'[j]
    BY ONLY <1>3 DEF Range
  <2>. QED
    BY <2>1, <2>2, <2>3, <2>4
<1>6. /\ d = IF pc[t] = "picked" /\ target[t] \in Range(listeners) THEN index ELSE index + 1
      /\ d2 = IF pc[t] = "picked" /\ target[t] \in Range(listeners') THEN index' ELSE index' + 1
  BY <1>2 DEF Done
<1>7. /\ d <= length
      /\ pc[t] = "picked" /\ target[t] \in Range(listeners) =>
             index < length /\ target[t] = listeners[index + 1]
      /\ pc[t] = "picked" /\ target[t] \notin Range(listeners) => count[t][target[t]] = 0
      /\ stable[t] = {listeners[j] : j \in 1 .. length}
      /\ \A j \in 1 .. n : count[t][listeners[j]] = IF j <= d THEN 1 ELSE 0
  BY DEF Halfway, n
<1>. HIDE DEF d, d2
<1>8. d \in Nat /\ index' \in Nat /\ length' \in 0 .. (n - 1)
  BY <1>1, <1>3, <1>6
<1>9. d2 = IF i <= d THEN d - 1 ELSE d
  <2>1. CASE pc[t] = "picked" /\ target[t] \in Range(listeners)
    <3>1. index + 1 \in 1 .. n /\ d = index /\ target[t] = listeners[index + 1]
      BY <1>3, <1>6, <1>7, <2>1
    <3>2. target[t] \in Range(listeners') <=> i # index + 1
      BY <1>1, <1>3, <1>5, <2>1, <3>1
    <3>. QED
      BY <1>1, <1>3, <1>6, <2>1, <3>1, <3>2
  <2>2. CASE ~(pc[t] = "picked" /\ target[t] \in Range(listeners))
    <3>1. ~(pc[t] = "picked" /\ target[t] \in Range(listeners'))
      BY <1>5, <2>2
    <3>. QED
      BY <1>1, <1>3, <1>6, <2>2, <3>1
  <2>. QED
    BY <2>1, <2>2
<1>10. d2 <= length'
  BY <1>1, <1>3, <1>7, <1>8, <1>9
<1>11. pc'[t] = "picked" =>
           IF target'[t] \in Range(listeners')
           THEN index' < length' /\ target'[t] = listeners'[index' + 1]
           ELSE count'[t][target'[t]] = 0
  <2>1. SUFFICES ASSUME pc[t] = "picked"
                 PROVE  IF target[t] \in Range(listeners')
                        THEN index' < length' /\ target[t] = listeners'[index' + 1]
                        ELSE count[t][target[t]] = 0
    BY <1>2
  <2>2. CASE target[t] \in Range(listeners')
    <3>1. target[t] \in Range(listeners) /\ target[t] # l
      BY <1>5, <2>2
    <3>2. index < length /\ target[t] = listeners[index + 1] /\ i # index + 1
      BY <1>1, <1>7, <2>1, <3>1
    <3>3. CASE i - 1 <= index
      <4>1. /\ index' = index - 1 /\ i <= index /\ length' = length - 1
            /\ index \in 1 .. (n - 1) /\ ~(index < i)
        BY <1>1, <1>3, <3>2, <3>3
      <4>2. listeners'[index] = listeners[index + 1]
        BY <1>1, <4>1
      <4>. QED
        BY <1>3, <2>2, <3>2, <4>1, <4>2
    <3>4. CASE ~(i - 1 <= index)
      <4>1. /\ index' = index /\ index + 1 < i /\ index + 1 \in 1 .. (n - 1)
            /\ index < length'
        BY <1>1, <1>3, <3>2, <3>4
      <4>2. listeners'[index + 1] = listeners[index + 1]
        BY <1>1, <4>1
      <4>. QED
        BY <2>2, <3>2, <4>1, <4>2
    <3>. QED
      BY <3>3, <3>4
  <2>3. CASE target[t] \notin Range(listeners')
    <3>1. CASE target[t] \in Range(listeners)
      <4>1. index + 1 \in 1 .. n /\ ~(index + 1 <= d) /\ target[t] = listeners[index + 1]
        BY <1>3, <1>6, <1>7, <2>1, <3>1
      <4>2. count[t][listeners[index + 1]] = 0
        BY <1>7, <4>1
      <4>. QED
        BY <2>3, <4>1, <4>2
    <3>2. CASE target[t] \notin Range(listeners)
      BY <1>7, <2>1, <2>3, <3>2
    <3>. QED
      BY <3>1, <3>2
  <2>. QED
    BY <2>2, <2>3
<1>12. \A j \in 1 .. (n - 1) : count[t][listeners'[j]] = IF j <= d2 THEN 1 ELSE 0
  <2>1. SUFFICES ASSUME NEW j \in 1 .. (n - 1)
                 PROVE  count[t][listeners'[j]] = IF j <= d2 THEN 1 ELSE 0
    OBVIOUS
  <2>2. CASE j < i
    <3>1. listeners'[j] = listeners[j] /\ j \in 1 .. n /\ (j <= d2 <=> j <= d)
      BY <1>1, <1>3, <1>8, <1>9, <2>2
    <3>. QED
      BY <1>7, <3>1
  <2>3. CASE ~(j < i)
    <3>1. listeners'[j] = listeners[j + 1] /\ j + 1 \in 1 .. n /\ (j <= d2 <=> j + 1 <= d)
      BY <1>1, <1>3, <1>8, <1>9, <2>3
    <3>2. count[t][listeners[j + 1]] = IF j + 1 <= d THEN 1 ELSE 0
      BY <1>7, <3>1
    <3>. QED
      BY <3>1, <3>2
  <2>. QED
    BY <2>2, <2>3
<1>13. stable'[t] = {listeners'[j] : j \in 1 .. length'}
  <2>1. stable'[t] = {listeners[j] : j \in 1 .. length} \ {l}
    BY <1>2, <1>7
  <2>2. ASSUME NEW k \in 1 .. length, listeners[k] # l
        PROVE  \E j \in 1 .. length' : listeners'[j] = listeners[k]
    <3>1. CASE k < i
      <4>1. k \in 1 .. length' /\ k \in 1 .. (n - 1)
        BY <1>1, <1>3, <3>1
      <4>. QED
        BY <1>1, <3>1, <4>1
    <3>2. CASE k > i
      <4>1. k - 1 \in 1 .. length' /\ k - 1 \in 1 .. (n - 1) /\ ~(k - 1 < i) /\ (k - 1) + 1 = k
        BY <1>1, <1>3, <3>2
      <4>2. listeners'[k - 1] = listeners[k]
        BY <1>1, <4>1
      <4>. QED
        BY <4>1, <4>2
    <3>. QED
      BY <1>1, <1>3, <2>2, <3>1, <3>2
  <2>3. ASSUME NEW j \in 1 .. length'
        PROVE  \E k \in 1 .. length : listeners'[j] = listeners[k] /\ listeners[k] # l
    <3>1. CASE j < i
      <4>1. j \in 1 .. (n - 1) /\ j \in 1 .. length /\ j \in 1 .. n /\ j # i
        BY <1>1, <1>3, <1>8, <3>1
      <4>2. listeners[j] # l
        BY <1>1, <1>3, <4>1
      <4>. QED
        BY <1>1, <3>1, <4>1, <4>2
    <3>2. CASE ~(j < i)
      <4>1. /\ j \in 1 .. (n - 1) /\ j + 1 \in 1 .. length /\ j + 1 \in 1 .. n
            /\ j + 1 # i
        BY <1>1, <1>3, <1>8, <3>2
      <4>2. listeners[j + 1] # l
        BY <1>1, <1>3, <4>1
      <4>3. listeners'[j] = listeners[j + 1]
        BY <1>1, <3>2, <4>1
      <4>. QED
        BY <4>1, <4>2, <4>3
    <3>. QED
      BY <3>1, <3>2
  <2>4. ASSUME NEW x \in stable'[t] PROVE x \in {listeners'[j] : j \in 1 .. length'}
    <3>1. PICK k \in 1 .. length : x = listeners[k] /\ listeners[k] # l
      BY <2>1
    <3>. QED
      BY <2>2, <3>1
  <2>5. ASSUME NEW x \in {listeners'[j] : j \in 1 .. length'} PROVE x \in stable'[t]
    <3>1. PICK j \in 1 .. length' : x = listeners'[j]
      OBVIOUS
    <3>. QED
      BY <2>1, <2>3, <3>1
  <2>. QED
    BY <2>4, <2>5
<1>14. /\ \A u \in Senders \ {t} : pc'[u] = "idle"
       /\ \A x \in unborn' : count'[t][x] = 0
       /\ \A x \in Listeners : count'[t][x] <= 1
  BY <1>2 DEF Halfway
<1>15. \A j \in 1 .. Len(listeners') :
           count'[t][listeners'[j]] = IF j <= Done(t)' THEN 1 ELSE 0
  BY <1>1, <1>2, <1>12 DEF d2
<1>16. Done(t)' <= length'
  BY <1>10 DEF d2
<1>. QED
  BY <1>11, <1>13, <1>14, <1>15, <1>16 DEF Halfway

(* One listener more: it is not of this message.                           *)
LEMMA HalfwayRegister ==
    ASSUME MessagingShapes, NEW t \in Senders, Halfway(t),
           NEW l \in Listeners, RegisterListener(l)
    PROVE  Halfway(t)'
<1>0. RegistryFits /\ PositionFits /\ ThreadsFit /\ GhostsFit /\ t \in Threads
  BY DEF MessagingShapes, Senders, Threads
<1>. DEFINE n == Len(listeners)
            d == Done(t)
<1>1. /\ l \in unborn /\ unborn' = unborn \ {l} /\ listeners' = Append(listeners, l)
      /\ UNCHANGED <<index, length, pc, target, stable, count>>
  BY DEF RegisterListener, position, ghosts
<1>2. /\ listeners' \in Seq(Listeners) /\ Len(listeners') = n + 1 /\ n \in Nat
      /\ listeners'[n + 1] = l /\ \A i \in 1 .. n : listeners'[i] = listeners[i]
      /\ DOMAIN listeners' = 1 .. (n + 1) /\ DOMAIN listeners = 1 .. n
  BY <1>0, <1>1, AppendFacts DEF RegistryFits
<1>3. d <= length /\ length \in 0 .. n
  BY <1>0 DEF Halfway, PositionFits
<1>. HIDE DEF n
<1>4. \A x : x # l => (x \in Range(listeners') <=> x \in Range(listeners))
  BY <1>2 DEF Range
<1>5. pc[t] = "picked" => target[t] # l
  BY <1>0, <1>1 DEF ThreadsFit
<1>6. Done(t)' = d
  BY <1>1, <1>4, <1>5 DEF Done
<1>7. d \in Nat
  BY <1>0, MessagingAssumption DEF Done, PositionFits, MessagingAssumption
<1>8. \A i \in 1 .. n : count[t][listeners[i]] = IF i <= d THEN 1 ELSE 0
  BY DEF Halfway, n
<1>. HIDE DEF d
<1>9. \A i \in 1 .. Len(listeners') :
          count'[t][listeners'[i]] = IF i <= Done(t)' THEN 1 ELSE 0
  <2>1. ASSUME NEW i \in 1 .. (n + 1)
        PROVE  count[t][listeners'[i]] = IF i <= d THEN 1 ELSE 0
    <3>1. CASE i \in 1 .. n
      BY <1>2, <1>8, <3>1
    <3>2. CASE i = n + 1
      <4>1. ~(i <= d)
        BY <1>2, <1>3, <1>7, <3>2
      <4>2. count[t][l] = 0
        BY <1>1 DEF Halfway
      <4>. QED
        BY <1>2, <3>2, <4>1, <4>2
    <3>. QED
      BY <1>2, <3>1, <3>2
  <2>. QED
    BY <1>1, <1>2, <1>6, <2>1
<1>10. pc'[t] = "picked" =>
           IF target'[t] \in Range(listeners')
           THEN index' < length' /\ target'[t] = listeners'[index' + 1]
           ELSE count'[t][target'[t]] = 0
  <2>1. SUFFICES ASSUME pc[t] = "picked"
                 PROVE  IF target[t] \in Range(listeners)
                        THEN index < length /\ target[t] = listeners'[index + 1]
                        ELSE count[t][target[t]] = 0
    BY <1>1, <1>4, <1>5
  <2>2. IF target[t] \in Range(listeners)
        THEN index < length /\ target[t] = listeners[index + 1]
        ELSE count[t][target[t]] = 0
    BY <2>1 DEF Halfway
  <2>3. index \in Nat
    BY <1>0, MessagingAssumption DEF PositionFits, MessagingAssumption
  <2>4. index < length => index + 1 \in 1 .. n
    BY <1>2, <1>3, <2>3
  <2>. QED
    BY <1>2, <2>2, <2>4
<1>11. stable'[t] = {listeners'[j] : j \in 1 .. length'}
  <2>1. \A j \in 1 .. length : j \in 1 .. n
    BY <1>2, <1>3
  <2>2. \A j \in 1 .. length : listeners'[j] = listeners[j]
    BY <1>2, <2>1
  <2>3. stable[t] = {listeners[j] : j \in 1 .. length}
    BY DEF Halfway
  <2>. QED
    BY <1>1, <2>2, <2>3
<1>12. /\ \A u \in Senders \ {t} : pc'[u] = "idle"
       /\ \A x \in unborn' : count'[t][x] = 0
       /\ \A x \in Listeners : count'[t][x] <= 1
  BY <1>1 DEF Halfway
<1>13. Done(t)' <= length'
  BY <1>1, <1>3, <1>6
<1>. QED
  BY <1>9, <1>10, <1>11, <1>12, <1>13 DEF Halfway

(* A handler that is called: the listener is one of those done with.       *)
LEMMA HalfwayCall ==
    ASSUME MessagingShapes, NEW t \in Senders, Halfway(t), Call(t)
    PROVE  Halfway(t)'
<1>0. RegistryFits /\ PositionFits /\ ThreadsFit /\ GhostsFit /\ t \in Threads
  BY DEF MessagingShapes, Senders, Threads
<1>. DEFINE n == Len(listeners)
            x == target[t]
<1>1. /\ UNCHANGED <<listeners, unborn, index, length, target, stable>>
      /\ pc[t] = "picked" /\ pc' = [pc EXCEPT ![t] = "call"]
      /\ x # Nobody => count' = [count EXCEPT ![t][x] = @ + 1]
  BY DEF Call, Goto, registry, position
<1>2. x \in Listeners /\ x # Nobody /\ x \notin unborn
  BY <1>0, <1>1, MessagingAssumption DEF ThreadsFit, MessagingAssumption
<1>3. pc'[t] = "call" /\ \A u \in Senders \ {t} : pc'[u] = "idle"
  BY <1>0, <1>1 DEF ThreadsFit, Halfway, Senders, Threads
<1>4. count[t] \in [Listeners -> Nat] /\ count \in [Senders -> [Listeners -> Nat]]
  BY <1>0 DEF GhostsFit
<1>. HIDE DEF x
<1>5. \A y \in Listeners : count'[t][y] = IF y = x THEN count[t][y] + 1 ELSE count[t][y]
  BY <1>1, <1>2, <1>4
<1>6. /\ DOMAIN listeners = 1 .. n /\ n \in Nat /\ length \in 0 .. n
      /\ index \in 0 .. (IndexSize - 1)
      /\ \A j \in 1 .. n : listeners[j] \in Listeners
      /\ unborn \subseteq Listeners
  BY <1>0 DEF RegistryFits, PositionFits
<1>7. index \in Nat
  BY <1>6, MessagingAssumption DEF MessagingAssumption
<1>8. \A j, k \in 1 .. n : listeners[j] = listeners[k] => j = k
  BY <1>0, <1>6 DEF RegistryFits, IsInjective
<1>9. Done(t)' = index + 1
  BY <1>1, <1>3 DEF Done
<1>10. \A i \in 1 .. n : count[t][listeners[i]] = IF i <= Done(t) THEN 1 ELSE 0
  BY DEF Halfway
<1>11. IF x \in Range(listeners) THEN index < length /\ x = listeners[index + 1]
       ELSE count[t][x] = 0
  BY <1>1 DEF Halfway, x
<1>12. Done(t) = IF x \in Range(listeners) THEN index ELSE index + 1
  BY <1>1 DEF Done, x
<1>13. Done(t) <= length
  BY DEF Halfway
<1>. HIDE DEF n
<1>14. \A i \in 1 .. n : count'[t][listeners[i]] = IF i <= index + 1 THEN 1 ELSE 0
  <2>1. CASE x \in Range(listeners)
    <3>1. index + 1 \in 1 .. n
      BY <1>6, <1>7, <1>11, <2>1
    <3>2. ASSUME NEW i \in 1 .. n, i # index + 1
          PROVE  count'[t][listeners[i]] = IF i <= index + 1 THEN 1 ELSE 0
      <4>1. listeners[i] # x /\ (i <= index <=> i <= index + 1)
        BY <1>7, <1>8, <1>11, <2>1, <3>1, <3>2
      <4>. QED
        BY <1>5, <1>6, <1>10, <1>12, <2>1, <4>1
    <3>3. count'[t][listeners[index + 1]] = 1
      <4>1. ~(index + 1 <= index)
        BY <1>7
      <4>2. count[t][x] = 0
        BY <1>10, <1>11, <1>12, <2>1, <3>1, <4>1
      <4>. QED
        BY <1>2, <1>5, <1>11, <2>1, <4>2
    <3>. QED
      BY <1>7, <3>2, <3>3
  <2>2. CASE x \notin Range(listeners)
    <3>1. \A i \in 1 .. n : listeners[i] # x
      BY <1>6, <2>2 DEF Range
    <3>. QED
      BY <1>5, <1>6, <1>10, <1>12, <2>2, <3>1
  <2>. QED
    BY <2>1, <2>2
<1>15. index + 1 <= length
  BY <1>6, <1>7, <1>11, <1>12, <1>13
<1>16. count[t][x] = 0
  <2>1. CASE x \in Range(listeners)
    <3>1. index + 1 \in 1 .. n /\ ~(index + 1 <= index)
      BY <1>6, <1>7, <1>11, <2>1
    <3>. QED
      BY <1>10, <1>11, <1>12, <2>1, <3>1
  <2>. QED
    BY <1>11, <2>1
<1>17. \A y \in Listeners : count'[t][y] <= 1
  <2>1. \A y \in Listeners : count[t][y] <= 1
    BY DEF Halfway
  <2>. QED
    BY <1>4, <1>5, <1>16, <2>1
<1>18. \A y \in unborn' : count'[t][y] = 0
  <2>1. \A y \in unborn : count[t][y] = 0
    BY DEF Halfway
  <2>. QED
    BY <1>1, <1>2, <1>5, <1>6, <2>1
<1>19. stable'[t] = {listeners'[j] : j \in 1 .. length'}
  <2>1. stable[t] = {listeners[j] : j \in 1 .. length}
    BY DEF Halfway
  <2>. QED
    BY <1>1, <2>1
<1>20. \A i \in 1 .. Len(listeners') :
           count'[t][listeners'[i]] = IF i <= Done(t)' THEN 1 ELSE 0
  BY <1>1, <1>9, <1>14 DEF n
<1>21. Done(t)' <= length' /\ pc'[t] # "picked"
  BY <1>1, <1>3, <1>9, <1>15
<1>. QED
  BY <1>3, <1>17, <1>18, <1>19, <1>20, <1>21 DEF Halfway

(* The next listener, or the end: then all of them are done with.          *)
LEMMA HalfwayNextListener ==
    ASSUME MessagingShapes, NEW t \in Senders, Halfway(t), NextListener(t)
    PROVE  IF pc'[t] = "idle" THEN CalledOnce(t)' ELSE Halfway(t)'
<1>0. RegistryFits /\ PositionFits /\ ThreadsFit /\ GhostsFit /\ t \in Threads
  BY DEF MessagingShapes, Senders, Threads
<1>. DEFINE n == Len(listeners)
<1>1. /\ UNCHANGED <<listeners, unborn, stable, count>>
      /\ pc[t] = "call" /\ Turn(t, (index + 1) % IndexSize, length)
  BY DEF NextListener, registry, ghosts
<1>2. Done(t) = index + 1
  BY <1>1 DEF Done
<1>3. /\ n \in Nat /\ length \in 0 .. n /\ index \in 0 .. (IndexSize - 1)
      /\ n < IndexSize /\ IndexSize \in Nat /\ IndexSize > 0 /\ DOMAIN listeners = 1 .. n
  BY <1>0, IndexSizeIsLarge, MessagingAssumption
  DEF RegistryFits, PositionFits, MessagingAssumption
<1>4. index + 1 <= length
  BY <1>2 DEF Halfway
<1>5. /\ \A i \in 1 .. n : count[t][listeners[i]] = IF i <= index + 1 THEN 1 ELSE 0
      /\ stable[t] = {listeners[i] : i \in 1 .. length}
      /\ \A x \in unborn : count[t][x] = 0
      /\ \A x \in Listeners : count[t][x] <= 1
      /\ \A u \in Senders \ {t} : pc[u] = "idle"
  BY <1>2 DEF Halfway
<1>. HIDE DEF n
<1>6. (index + 1) % IndexSize = index + 1
  <2>1. index + 1 \in 0 .. (IndexSize - 1)
    BY <1>3, <1>4
  <2>. QED
    BY <1>3, <2>1, Modulo
<1>7. index' = index + 1 /\ length' = length
  BY <1>1, <1>6 DEF Turn
<1>8. CASE index + 1 < length
  <2>1. /\ pc'[t] = "picked" /\ target'[t] = listeners[(index + 1) + 1]
        /\ \A u \in Senders \ {t} : pc'[u] = "idle"
    BY <1>0, <1>1, <1>5, <1>6, <1>8 DEF Turn, Goto, Aim, ThreadsFit, Senders, Threads
  <2>2. (index + 1) + 1 \in 1 .. n
    BY <1>3, <1>8
  <2>3. target'[t] \in Range(listeners')
    BY <1>1, <1>3, <2>1, <2>2 DEF Range
  <2>4. Done(t)' = index + 1
    BY <1>7, <2>1, <2>3 DEF Done
  <2>5. \A i \in 1 .. Len(listeners') :
            count'[t][listeners'[i]] = IF i <= Done(t)' THEN 1 ELSE 0
    BY <1>1, <1>5, <2>4 DEF n
  <2>6. stable'[t] = {listeners'[i] : i \in 1 .. length'}
    BY <1>1, <1>5, <1>7
  <2>7. /\ \A x \in unborn' : count'[t][x] = 0
        /\ \A x \in Listeners : count'[t][x] <= 1
    BY <1>1, <1>5
  <2>8. index' < length' /\ target'[t] = listeners'[index' + 1] /\ Done(t)' <= length'
    BY <1>1, <1>3, <1>7, <1>8, <2>1, <2>4
  <2>. QED
    BY <2>1, <2>3, <2>5, <2>6, <2>7, <2>8 DEF Halfway
<1>9. CASE ~(index + 1 < length)
  <2>1. pc'[t] = "idle"
    BY <1>0, <1>1, <1>6, <1>9 DEF Turn, Goto, ThreadsFit
  <2>2. \A i \in 1 .. length : i \in 1 .. n /\ i <= index + 1
    BY <1>3, <1>9
  <2>3. \A x \in stable[t] : count[t][x] = 1
    BY <1>5, <2>2
  <2>. QED
    BY <1>1, <1>5, <2>1, <2>3 DEF CalledOnce
<1>. QED
  BY <1>8, <1>9

(* A message is about to be sent: nobody has been called.                  *)
LEMMA HalfwayBegin ==
    ASSUME MessagingShapes, NEW t \in Senders, BeginSend(t),
           \A u \in Senders \ {t} : pc[u] = "idle"
    PROVE  IF pc'[t] = "idle" THEN CalledOnce(t)' ELSE Halfway(t)'
<1>0. RegistryFits /\ PositionFits /\ ThreadsFit /\ GhostsFit /\ t \in Threads
  BY DEF MessagingShapes, Senders, Threads
<1>. DEFINE n == Len(listeners)
<1>1. /\ UNCHANGED <<listeners, unborn>> /\ Turn(t, 0, n)
      /\ stable' = [stable EXCEPT ![t] = Range(listeners)]
      /\ count' = [count EXCEPT ![t] = [x \in Listeners |-> 0]]
  BY DEF BeginSend, registry
<1>2. stable'[t] = Range(listeners) /\ \A x \in Listeners : count'[t][x] = 0
  BY <1>0, <1>1 DEF GhostsFit
<1>3. /\ n \in Nat /\ DOMAIN listeners = 1 .. n /\ unborn \subseteq Listeners
      /\ \A i \in 1 .. n : listeners[i] \in Listeners
  BY <1>0 DEF RegistryFits
<1>4. index' = 0 /\ length' = n
  BY <1>1 DEF Turn
<1>. HIDE DEF n
<1>5. CASE 0 < n
  <2>1. /\ pc'[t] = "picked" /\ target'[t] = listeners[0 + 1]
        /\ \A u \in Senders \ {t} : pc'[u] = "idle"
    BY <1>0, <1>1, <1>5 DEF Turn, Goto, Aim, ThreadsFit, Senders, Threads
  <2>2. 0 + 1 \in 1 .. n
    BY <1>3, <1>5
  <2>3. target'[t] \in Range(listeners')
    BY <1>1, <1>3, <2>1, <2>2 DEF Range
  <2>4. Done(t)' = 0
    BY <1>4, <2>1, <2>3 DEF Done
  <2>5. \A i \in 1 .. Len(listeners') :
            count'[t][listeners'[i]] = IF i <= Done(t)' THEN 1 ELSE 0
    BY <1>1, <1>2, <1>3, <2>4 DEF n
  <2>6. stable'[t] = {listeners'[i] : i \in 1 .. length'}
    BY <1>1, <1>2, <1>3, <1>4 DEF Range
  <2>7. /\ \A x \in unborn' : count'[t][x] = 0
        /\ \A x \in Listeners : count'[t][x] <= 1
    BY <1>1, <1>2, <1>3
  <2>8. index' < length' /\ target'[t] = listeners'[index' + 1] /\ Done(t)' <= length'
    BY <1>1, <1>3, <1>4, <1>5, <2>1, <2>4
  <2>. QED
    BY <2>1, <2>3, <2>5, <2>6, <2>7, <2>8 DEF Halfway
<1>6. CASE ~(0 < n)
  <2>1. pc'[t] = "idle"
    BY <1>0, <1>1, <1>6 DEF Turn, Goto, ThreadsFit
  <2>2. Range(listeners) = {}
    BY <1>3, <1>6 DEF Range
  <2>. QED
    BY <1>2, <2>1, <2>2 DEF CalledOnce
<1>. QED
  BY <1>5, <1>6

(* What one sender sees of the steps of the others.                        *)
LEMMA OtherSenders ==
    ASSUME SendersInStep, NEW t \in Senders, alone[t],
           UNCHANGED <<listeners, unborn, index, length, stable, count>>,
           \A u \in Senders : pc'[u] = pc[u] /\ target'[u] = target[u]
    PROVE  IF pc'[t] = "idle" THEN CalledOnce(t)' ELSE Halfway(t)'
<1>1. IF pc[t] = "idle" THEN CalledOnce(t) ELSE Halfway(t)
  BY DEF SendersInStep
<1>2. pc'[t] = pc[t] /\ target'[t] = target[t] /\ \A u \in Senders \ {t} : pc'[u] = pc[u]
  OBVIOUS
<1>3. Done(t)' = Done(t)
  BY <1>2 DEF Done
<1>4. CASE pc[t] = "idle"
  BY <1>1, <1>2, <1>4 DEF CalledOnce
<1>5. CASE pc[t] # "idle"
  BY <1>1, <1>2, <1>3, <1>5 DEF Halfway
<1>. QED
  BY <1>2, <1>4, <1>5

(* A sender that is idle keeps what it has counted.                        *)
LEMMA IdleSenders ==
    ASSUME SendersInStep, NEW t \in Senders, alone[t], pc[t] = "idle",
           pc'[t] = pc[t], stable'[t] \subseteq stable[t], count'[t] = count[t]
    PROVE  IF pc'[t] = "idle" THEN CalledOnce(t)' ELSE Halfway(t)'
<1>1. CalledOnce(t)
  BY DEF SendersInStep
<1>. QED
  BY <1>1 DEF CalledOnce

LEMMA SendersInStepNext ==
    ASSUME Permanent # <<>>, MessagingShapes, SendersInStep, [Next]_vars
    PROVE  SendersInStep'
<1>0. RegistryFits /\ PositionFits /\ ThreadsFit /\ GhostsFit /\ Senders \subseteq Threads
  BY DEF MessagingShapes, Senders, Threads
<1>1. ASSUME NEW l \in Listeners, RegisterListener(l) PROVE SendersInStep'
  <2>1. UNCHANGED <<pc, stable, count, alone>>
    BY <1>1 DEF RegisterListener, ghosts
  <2>2. ASSUME NEW t \in Senders, alone[t]
        PROVE  IF pc'[t] = "idle" THEN CalledOnce(t)' ELSE Halfway(t)'
    <3>1. CASE pc[t] = "idle"
      BY <2>1, <2>2, <3>1, IdleSenders
    <3>2. CASE pc[t] # "idle"
      <4>1. Halfway(t)
        BY <2>2, <3>2 DEF SendersInStep
      <4>. QED
        BY <1>1, <2>1, <3>2, <4>1, HalfwayRegister
    <3>. QED
      BY <3>1, <3>2
  <2>. QED
    BY <2>1, <2>2 DEF SendersInStep
<1>2. ASSUME NEW l \in Listeners, UnregisterListener(l) PROVE SendersInStep'
  <2>1. UNCHANGED <<pc, count, alone>> /\ \A t \in Senders : stable'[t] \subseteq stable[t]
    BY <1>2 DEF UnregisterListener
  <2>2. ASSUME NEW t \in Senders, alone[t]
        PROVE  IF pc'[t] = "idle" THEN CalledOnce(t)' ELSE Halfway(t)'
    <3>1. CASE pc[t] = "idle"
      BY <2>1, <2>2, <3>1, IdleSenders
    <3>2. CASE pc[t] # "idle"
      <4>1. Halfway(t)
        BY <2>2, <3>2 DEF SendersInStep
      <4>. QED
        BY <1>2, <2>1, <3>2, <4>1, HalfwayUnregister
    <3>. QED
      BY <3>1, <3>2
  <2>. QED
    BY <2>1, <2>2 DEF SendersInStep
<1>3. ASSUME NEW t \in Senders, BeginSend(t) PROVE SendersInStep'
  <2>. SUFFICES ASSUME NEW u \in Senders, alone'[u]
                PROVE  IF pc'[u] = "idle" THEN CalledOnce(u)' ELSE Halfway(u)'
    BY DEF SendersInStep
  <2>1. /\ \A v \in Senders \ {t} : pc[v] = "idle"
        /\ u = t \/ alone[u]
    BY <1>3 DEF BeginSend
  <2>2. CASE u = t
    BY <1>3, <2>1, <2>2, HalfwayBegin
  <2>3. CASE u # t
    <3>1. pc[u] = "idle" /\ alone[u]
      BY <2>1, <2>3
    <3>2. pc'[u] = pc[u] /\ stable'[u] = stable[u] /\ count'[u] = count[u]
      BY <1>0, <1>3, <2>3 DEF BeginSend, Turn, Goto, ThreadsFit, GhostsFit
    <3>. QED
      BY <3>1, <3>2, IdleSenders
  <2>. QED
    BY <2>2, <2>3
<1>4. ASSUME NEW t \in Senders, Call(t) \/ NextListener(t) PROVE SendersInStep'
  <2>1. alone' = alone /\ stable' = stable /\ pc[t] # "idle"
    BY <1>4 DEF Call, NextListener, ghosts
  <2>. SUFFICES ASSUME NEW u \in Senders, alone[u]
                PROVE  IF pc'[u] = "idle" THEN CalledOnce(u)' ELSE Halfway(u)'
    BY <2>1 DEF SendersInStep
  <2>2. CASE u = t
    <3>1. Halfway(t)
      BY <2>1, <2>2 DEF SendersInStep
    <3>2. CASE Call(t)
      <4>1. Halfway(t)' /\ pc'[t] # "idle"
        BY <1>0, <3>1, <3>2, HalfwayCall DEF Call, Goto, ThreadsFit
      <4>. QED
        BY <2>2, <4>1
    <3>3. CASE NextListener(t)
      BY <2>2, <3>1, <3>3, HalfwayNextListener
    <3>. QED
      BY <1>4, <3>2, <3>3
  <2>3. CASE u # t
    <3>1. pc[u] = "idle"
      <4>1. SUFFICES ASSUME Halfway(u), pc[u] # "idle" PROVE FALSE
        BY DEF SendersInStep
      <4>. QED
        BY <2>1, <2>3, <4>1 DEF Halfway
    <3>2. pc'[u] = pc[u]
      BY <1>0, <1>4, <2>3 DEF Call, NextListener, Turn, Goto, ThreadsFit
    <3>3. count'[u] = count[u]
      <4>1. \/ count' = count
            \/ count' = [count EXCEPT ![t][target[t]] = @ + 1]
        BY <1>4 DEF Call, NextListener, ghosts
      <4>. QED
        BY <1>0, <2>3, <4>1 DEF GhostsFit
    <3>. QED
      BY <2>1, <3>1, <3>2, <3>3, IdleSenders
  <2>. QED
    BY <2>2, <2>3
<1>5. CASE Call("app") \/ AppStep \/ Elsewhere
  <2>1. "app" \notin Senders
    BY DEF Senders
  <2>2. UNCHANGED <<listeners, unborn, index, length, stable, count, alone>>
    BY <1>5, <2>1, ElsewhereUnchanged
    DEF Call, AppStep, RunMessageTask, HandlerReturns, Throw, registry, position, ghosts
  <2>3. \A u \in Senders : pc'[u] = pc[u] /\ target'[u] = target[u]
    <3>1. CASE Elsewhere
      BY <3>1, ElsewhereUnchanged
    <3>2. CASE Call("app") \/ AppStep
      <4>1. /\ pc' = pc \/ \E w \in {"idle", "picked", "call"} : Goto("app", w)
            /\ target' = target \/ \E x \in Listeners \cup {Nobody} : Aim("app", x)
        <5>1. CASE Call("app")
          BY <5>1 DEF Call
        <5>2. CASE RunMessageTask
          <6>1. Range(listeners) \subseteq Listeners
            BY <1>0 DEF RegistryFits, Range
          <6>. QED
            BY <5>2, <6>1 DEF RunMessageTask, Picked
        <5>3. CASE HandlerReturns \/ Throw
          BY <5>3 DEF HandlerReturns, Throw
        <5>. QED
          BY <3>2, <5>1, <5>2, <5>3 DEF AppStep
      <4>2. \A u \in Senders : u # "app"
        BY <2>1
      <4>. QED
        BY <1>0, <4>1, <4>2 DEF Goto, Aim, ThreadsFit
    <3>. QED
      BY <1>5, <3>1, <3>2
  <2>4. ASSUME NEW t \in Senders, alone[t]
        PROVE  IF pc'[t] = "idle" THEN CalledOnce(t)' ELSE Halfway(t)'
    BY <2>2, <2>3, <2>4, OtherSenders
  <2>. QED
    BY <2>2, <2>4 DEF SendersInStep
<1>6. ASSUME NEW t \in Threads, Call(t) PROVE t \in Senders \/ Call("app")
  BY <1>6 DEF Threads, Senders
<1>7. SendDirect \/ SendNow => \E t \in Senders : BeginSend(t)
  BY DEF SendDirect, SendNow, Senders
<1>8. "queue" \in Senders /\ "gui" \in Senders
  BY DEF Senders
<1>. QED
  BY <1>1, <1>2, <1>3, <1>4, <1>5, <1>6, <1>7, <1>8, NextIs

(* "so that new listeners registered within message handling don't get the *)
(* current message and the length can be reduced when a listener gets      *)
(* unregistered": with one index for all senders, and listeners that come  *)
(* and go while their handlers run, a message that is sent alone reaches   *)
(* each listener that stays, once, as long as the first one stays.         *)
THEOREM EachListenerIsCalledOnce ==
    ASSUME Permanent # <<>>
    PROVE  Spec => []EachListenerOnce
<1>1. Init => MessagingShapes /\ SendersInStep
  <2>. SUFFICES ASSUME Init PROVE SendersInStep
    BY MessagingShapesInit
  <2>1. \A t \in Senders : pc[t] = "idle" /\ stable[t] = {} /\ \A l \in Listeners : count[t][l] = 0
    BY DEF Init, Senders, Threads
  <2>2. \A t \in Senders : CalledOnce(t)
    BY <2>1 DEF CalledOnce
  <2>. QED
    BY <2>1, <2>2 DEF SendersInStep
<1>2. MessagingShapes /\ SendersInStep /\ [Next]_vars => MessagingShapes' /\ SendersInStep'
  BY ShapesNext, SendersInStepNext
<1>3. MessagingShapes /\ SendersInStep => EachListenerOnce
  BY DEF SendersInStep, Halfway, CalledOnce, EachListenerOnce
<1>. QED
  BY <1>1, <1>2, <1>3, PTL DEF Spec

-----------------------------------------------------------------------------
(* Sets of positions. What is proved for every number of positions is      *)
(* proved from a least counterexample.                                     *)

LEMMA LeastNat ==
    ASSUME NEW S \in SUBSET Nat, S # {}
    PROVE  \E m \in S : \A n \in S : m <= n
<1>1. IsWellFoundedOn(OpToRel(<, Nat), Nat)
  BY NatLessThanWellFounded
<1>2. \E x \in S : \A y \in S : ~ (<<y, x>> \in OpToRel(<, Nat))
  BY <1>1, WFMin
<1>3. \A x, y \in Nat : y < x => <<y, x>> \in OpToRel(<, Nat)
  BY DEF OpToRel
<1>4. PICK x \in S : \A y \in S : ~ (<<y, x>> \in OpToRel(<, Nat))
  BY <1>2
<1>5. \A y \in S : ~(y < x)
  BY <1>3, <1>4, Zenon
<1>6. \A y \in S : x <= y
  BY <1>5
<1>. QED
  BY <1>6

LEMMA SetInduction ==
    ASSUME NEW S, 0 \in S, \A n \in Nat : n \in S => n + 1 \in S
    PROVE  Nat \subseteq S
<1>. DEFINE T == Nat \ S
<1>1. SUFFICES ASSUME T # {} PROVE FALSE
  OBVIOUS
<1>2. T \in SUBSET Nat
  OBVIOUS
<1>. HIDE DEF T
<1>3. PICK m \in T : \A n \in T : m <= n
  BY <1>1, <1>2, LeastNat
<1>4. m \in Nat /\ m \notin S /\ m # 0
  BY <1>3 DEF T
<1>5. m - 1 \in Nat /\ (m - 1) + 1 = m
  BY <1>4
<1>6. m - 1 \notin T
  BY <1>3, <1>5
<1>. QED
  BY <1>4, <1>5, <1>6 DEF T

LEMMA LeastFacts ==
    ASSUME NEW S \in SUBSET Nat, S # {}
    PROVE  Least(S) \in S /\ \A n \in S : Least(S) <= n
<1>1. \E m \in S : \A n \in S : m <= n
  BY LeastNat
<1>. QED
  BY <1>1 DEF Least

LEMMA GreatestFacts ==
    ASSUME NEW b \in Nat, NEW S \in SUBSET (0 .. b), S # {}
    PROVE  Greatest(S) \in S /\ \A n \in S : n <= Greatest(S)
<1>. DEFINE T == {b - n : n \in S}
<1>1. T \in SUBSET Nat /\ T # {}
  <2>1. \A n \in S : b - n \in Nat
    OBVIOUS
  <2>2. PICK n \in S : TRUE
    OBVIOUS
  <2>3. b - n \in T
    OBVIOUS
  <2>. QED
    BY <2>1, <2>3
<1>2. PICK m \in T : \A n \in T : m <= n
  BY <1>1, LeastNat
<1>3. PICK g \in S : m = b - g
  BY <1>2
<1>4. \A n \in S : n <= g
  <2>. TAKE n \in S
  <2>1. m <= b - n
    BY <1>2
  <2>2. n \in 0 .. b /\ g \in 0 .. b
    OBVIOUS
  <2>. QED
    BY <1>3, <2>1, <2>2
<1>5. \E x \in S : \A n \in S : n <= x
  BY <1>4
<1>. QED
  BY <1>5 DEF Greatest

(* Every rank in a finite set of numbers is that of one of them.           *)
LEMMA RankFacts ==
    ASSUME NEW S \in SUBSET Nat, IsFiniteSet(S), NEW k \in 1 .. Cardinality(S)
    PROVE  \E i \in S : Cardinality({j \in S : j <= i}) = k
<1>. DEFINE Ranked(X) == \A r \in 1 .. Cardinality(X) :
                             \E i \in X : Cardinality({j \in X : j <= i}) = r
            P == {n \in Nat : \A X \in SUBSET Nat :
                                 IsFiniteSet(X) /\ Cardinality(X) = n => Ranked(X)}
<1>1. 0 \in P
  OBVIOUS
<1>2. ASSUME NEW n \in Nat, n \in P PROVE n + 1 \in P
  <2>. SUFFICES ASSUME NEW X \in SUBSET Nat, IsFiniteSet(X), Cardinality(X) = n + 1,
                       NEW r \in 1 .. (n + 1)
                PROVE  \E i \in X : Cardinality({j \in X : j <= i}) = r
    OBVIOUS
  <2>1. X # {}
    BY FS_EmptySet
  <2>2. PICK m \in X : \A x \in X : m <= x
    BY <2>1, LeastNat
  <2>. DEFINE Y == X \ {m}
  <2>3. /\ Y \in SUBSET Nat /\ IsFiniteSet(Y) /\ Cardinality(Y) = n
        /\ m \in Nat /\ m \notin Y /\ X = Y \cup {m} /\ \A y \in Y : m < y
    <3>1. IsFiniteSet(Y) /\ Cardinality(Y) = Cardinality(X) - 1
      BY FS_RemoveElement
    <3>2. \A y \in Y : m < y
      BY <2>2
    <3>. QED
      BY <2>2, <3>1, <3>2
  <2>. HIDE DEF Y
  <2>4. CASE r = 1
    <3>1. {j \in X : j <= m} = {m}
      <4>1. \A j \in X : j <= m => j = m
        BY <2>2, <2>3
      <4>2. m <= m
        BY <2>3
      <4>. QED
        BY <2>2, <4>1, <4>2
    <3>2. Cardinality({m}) = 1
      BY FS_Singleton
    <3>. QED
      BY <2>2, <2>4, <3>1, <3>2
  <2>5. CASE r # 1
    <3>1. r - 1 \in 1 .. Cardinality(Y)
      BY <2>3, <2>5
    <3>2. Ranked(Y)
      BY <1>2, <2>3
    <3>3. PICK i \in Y : Cardinality({j \in Y : j <= i}) = r - 1
      BY <3>1, <3>2
    <3>. DEFINE Z == {j \in Y : j <= i}
    <3>4. {j \in X : j <= i} = Z \cup {m}
      BY <2>3
    <3>5. IsFiniteSet(Z) /\ m \notin Z
      BY <2>3, FS_Subset
    <3>6. Cardinality(Z \cup {m}) = Cardinality(Z) + 1
      BY <3>5, FS_AddElement
    <3>7. Cardinality(Z \cup {m}) = r
      BY <3>3, <3>6
    <3>8. i \in X
      BY <2>3
    <3>. QED
      BY <3>4, <3>7, <3>8
  <2>. QED
    BY <2>4, <2>5
<1>. HIDE DEF P
<1>3. Nat \subseteq P
  BY <1>1, <1>2, SetInduction
<1>4. Cardinality(S) \in Nat
  BY FS_CardinalityType
<1>5. Cardinality(S) \in P
  BY <1>3, <1>4
<1>6. Ranked(S)
  BY <1>5 DEF P
<1>. QED
  BY <1>6

LEMMA NthFacts ==
    ASSUME NEW S \in SUBSET Nat, IsFiniteSet(S), NEW k \in 1 .. Cardinality(S)
    PROVE  Nth(S, k) \in S
BY RankFacts DEF Nth

LEMMA ChosenFacts ==
    ASSUME NEW C, NEW commands \in Seq(C), NEW S \in SUBSET (1 .. Len(commands))
    PROVE  /\ Chosen(commands, S) \in Seq(C)
           /\ \A k \in 1 .. Len(Chosen(commands, S)) :
                  \E i \in S : Chosen(commands, S)[k] = commands[i]
<1>. DEFINE n == Len(commands)
<1>1. n \in Nat /\ \A i \in 1 .. n : commands[i] \in C
  OBVIOUS
<1>. HIDE DEF n
<1>2. IsFiniteSet(1 .. n)
  BY <1>1, FS_Interval
<1>3. IsFiniteSet(S) /\ Cardinality(S) \in Nat
  BY <1>2, FS_Subset, FS_CardinalityType DEF n
<1>4. S \in SUBSET Nat
  BY <1>1 DEF n
<1>. DEFINE c == Cardinality(S)
<1>5. \A k \in 1 .. c : Nth(S, k) \in S
  BY <1>3, <1>4, NthFacts
<1>6. Chosen(commands, S) = [k \in 1 .. c |-> commands[Nth(S, k)]]
  BY DEF Chosen
<1>7. \A k \in 1 .. c : commands[Nth(S, k)] \in C
  BY <1>1, <1>5 DEF n
<1>8. c \in Nat
  BY <1>3
<1>. HIDE DEF c
<1>9. [k \in 1 .. c |-> commands[Nth(S, k)]] \in Seq(C)
  BY <1>7, <1>8
<1>10. Len(Chosen(commands, S)) = c
  BY <1>6, <1>8
<1>. QED
  BY <1>5, <1>6, <1>9, <1>10

-----------------------------------------------------------------------------
(* What the rows of the table say.                                         *)

LEMMA TableFacts ==
    ASSUME NEW k \in DOMAIN MessageTable
    PROVE  /\ MessageTable[k].order \in {"activate", "adapt", "view"}
           /\ MessageTable[k].same = "update" =>
                  MessageTable[k].type \in {"localSymbols", "scrollCode", "scrollGraph"}
           /\ MessageTable[k].type \in {"localSymbols", "scrollCode", "scrollGraph"} =>
                  MessageTable[k].order = "view"
BY DEF MessageTable, Row

LEMMA OverviewFacts == Overview \in Command /\ OrderOf(Overview) = "activate"
<1>1. "overview" \in DOMAIN MessageTable /\ MessageTable["overview"].order = "activate"
  BY DEF MessageTable, Row
<1>. QED
  BY <1>1, UndoAssumption DEF Overview, OrderOf, Command, UndoAssumption

LEMMA CommandFacts ==
    ASSUME NEW c \in Command
    PROVE  /\ OrderOf(c) \in {"activate", "adapt", "view"}
           /\ \A d \in Command : Same(c) = "update" /\ TypeOf(d) = TypeOf(c) =>
                                     OrderOf(d) = OrderOf(c)
<1>1. \A d \in Command : d.kind \in DOMAIN MessageTable
  BY DEF Command
<1>2. ASSUME NEW d \in Command, Same(c) = "update", TypeOf(d) = TypeOf(c)
      PROVE  OrderOf(d) = OrderOf(c)
  BY <1>1, <1>2, TableFacts DEF Same, TypeOf, OrderOf
<1>. QED
  BY <1>1, <1>2, TableFacts DEF OrderOf

-----------------------------------------------------------------------------
(* What every variable of UndoRedo holds, but for the menu and the view,   *)
(* which are computed by recursion and steer nothing here.                 *)
QueueItems ==
    [do : {"command"}, command : Command] \cup [do : {"replay"}, commands : Seq(Command)]
        \cup [do : {"undo", "redo"}] \cup [do : {"pick"}, index : Nat]

HistoryFits ==
    /\ list \in Seq(Command) /\ at \in 0 .. Len(list)
    /\ undoOn \in BOOLEAN /\ redoOn \in BOOLEAN /\ owed \in BOOLEAN
    /\ indexings \in 0 .. MaxIndexings

QueueFits == queue \in Seq(QueueItems)

(* The position is never in front of commands of the view: those on the    *)
(* command before it are passed with that.                                 *)
NoViewAhead == at < Len(list) => ~IsView(at + 1)

WalksInv == HistoryFits /\ WalksStayInside /\ NoViewAhead

LEMMA NextActivationFacts ==
    ASSUME HistoryFits, NEW n \in 0 .. Len(list)
    PROVE  /\ NextActivation(n) \in (n + 1) .. (Len(list) + 1)
           /\ NextActivation(n) <= Len(list) => IsActivation(NextActivation(n))
<1>. DEFINE len == Len(list)
            S == {i \in (n + 1) .. len : IsActivation(i)} \cup {len + 1}
<1>1. len \in Nat
  BY DEF HistoryFits
<1>2. NextActivation(n) = Least(S)
  BY DEF NextActivation
<1>. HIDE DEF len
<1>3. S \in SUBSET Nat /\ S # {}
  BY <1>1
<1>4. Least(S) \in S
  BY <1>3, LeastFacts
<1>5. n \in 0 .. len
  BY DEF len
<1>. QED
  BY <1>1, <1>2, <1>4, <1>5 DEF len

LEMMA RedoTargetFacts ==
    ASSUME HistoryFits, NEW n \in 0 .. (Len(list) - 1)
    PROVE  /\ RedoTarget(n) \in (n + 1) .. Len(list)
           /\ RedoTarget(n) < Len(list) => ~IsView(RedoTarget(n) + 1)
           /\ \A m \in (n + 1) .. Len(list) :
                  (m = Len(list) \/ ~IsView(m + 1)) => RedoTarget(n) <= m
<1>. DEFINE len == Len(list)
            S == {i \in (n + 1) .. (len - 1) : ~IsView(i + 1)} \cup {len}
<1>1. len \in Nat
  BY DEF HistoryFits
<1>2. RedoTarget(n) = Least(S)
  BY DEF RedoTarget
<1>. HIDE DEF len
<1>3. S \in SUBSET Nat /\ S # {}
  BY <1>1
<1>4. Least(S) \in S /\ \A m \in S : Least(S) <= m
  BY <1>3, LeastFacts
<1>5. n \in 0 .. (len - 1)
  BY DEF len
<1>6. \A m \in (n + 1) .. len : (m = len \/ ~IsView(m + 1)) => m \in S
  BY <1>1, <1>5
<1>7. Least(S) \in (n + 1) .. len /\ (Least(S) < len => ~IsView(Least(S) + 1))
  BY <1>1, <1>4, <1>5
<1>. HIDE DEF S
<1>. QED
  BY <1>2, <1>4, <1>6, <1>7 DEF len

LEMMA UndoTargetFacts ==
    ASSUME HistoryFits, NEW n \in 0 .. Len(list)
    PROVE  /\ UndoTarget(n) \in -1 .. (n - 1)
           /\ UndoTarget(n) > 0 => ~IsView(UndoTarget(n) + 1)
           /\ \A i \in 1 .. n : UndoTarget(n) + 1 < i => IsView(i)
<1>. DEFINE S == {0} \cup {i \in 1 .. n : ~IsView(i)}
<1>1. n \in Nat
  BY DEF HistoryFits
<1>2. S \in SUBSET (0 .. n) /\ S # {}
  BY <1>1
<1>3. Greatest(S) \in S /\ \A m \in S : m <= Greatest(S)
  BY <1>1, <1>2, GreatestFacts
<1>4. UndoTarget(n) = Greatest(S) - 1
  BY DEF UndoTarget
<1>5. Greatest(S) \in 0 .. n
  BY <1>2, <1>3
<1>6. \A i \in 1 .. n : Greatest(S) < i => IsView(i)
  <2>1. SUFFICES ASSUME NEW i \in 1 .. n, Greatest(S) < i, ~IsView(i) PROVE FALSE
    OBVIOUS
  <2>2. i \in S
    BY <2>1
  <2>. HIDE DEF S
  <2>3. i <= Greatest(S)
    BY <1>3, <2>2
  <2>. QED
    BY <1>1, <1>5, <2>1, <2>3
<1>7. Greatest(S) # 0 => ~IsView(Greatest(S))
  BY <1>3
<1>. HIDE DEF S
<1>. DEFINE g == Greatest(S)
<1>. HIDE DEF g
<1>8. (g - 1) + 1 = g /\ g \in 0 .. n
  BY <1>1, <1>5 DEF g
<1>. QED
  BY <1>1, <1>4, <1>6, <1>7, <1>8 DEF g

LEMMA ReplayStartFacts ==
    ASSUME HistoryFits, NEW n \in 0 .. Len(list)
    PROVE  ReplayStart(n) \in 1 .. (n + 1)
<1>. DEFINE S == {1} \cup {i \in 1 .. n : IsActivation(i)}
<1>1. n \in Nat /\ n + 1 \in Nat
  BY DEF HistoryFits
<1>2. S \in SUBSET (0 .. (n + 1)) /\ S # {}
  BY <1>1
<1>3. Greatest(S) \in S
  BY <1>1, <1>2, GreatestFacts
<1>4. S \in SUBSET (1 .. (n + 1))
  BY <1>1
<1>5. ReplayStart(n) = Greatest(S)
  BY DEF ReplayStart
<1>. HIDE DEF S
<1>. QED
  BY <1>3, <1>4, <1>5

LEMMA ReplayFacts ==
    ASSUME HistoryFits, NEW from \in Int, from >= 1, NEW to \in 0 .. Len(list)
    PROVE  Replay(from, to) \in QueueItems
<1>. DEFINE Again(i) == ~ \E j \in (i + 1)..to : TypeOf(list[j]) = TypeOf(list[i])
            S == {i \in from .. to : ~ReplayLastOnly(list[i]) \/ Again(i)}
<1>1. S \in SUBSET (1 .. Len(list))
  BY DEF HistoryFits
<1>2. Replayed(from, to) = Chosen(list, S)
  BY DEF Replayed
<1>. HIDE DEF S
<1>3. Chosen(list, S) \in Seq(Command)
  BY <1>1, ChosenFacts DEF HistoryFits
<1>. QED
  BY <1>2, <1>3 DEF Replay, QueueItems

LEMMA QueueFacts ==
    ASSUME QueueFits, NEW item \in QueueItems
    PROVE  /\ Append(queue, item) \in Seq(QueueItems)
           /\ queue # <<>> => /\ Tail(queue) \in Seq(QueueItems)
                              /\ Append(Tail(queue), item) \in Seq(QueueItems)
BY DEF QueueFits

-----------------------------------------------------------------------------
(* What the handlers do to the list and the position.                      *)

WalksNext ==
    /\ list' \in Seq(Command) /\ at' \in 0 .. Len(list')
    /\ WalksStayInside' /\ NoViewAhead'

LEMMA ListUnchanged ==
    ASSUME WalksInv, list' = list, at' \in 1 .. Len(list),
           at' < Len(list) => ~IsView(at' + 1)
    PROVE  WalksNext
<1>1. list # <<>> => IsActivation(1)
  BY DEF WalksInv, WalksStayInside
<1>. QED
  BY <1>1 DEF WalksNext, WalksInv, HistoryFits, WalksStayInside, NoViewAhead,
     IsActivation, IsView

(* A command of its own: behind the position, in front of what it leaves.  *)
LEMMA NewListFacts ==
    ASSUME WalksInv, NEW c \in Command, Accepted(c)
    PROVE  LET k == KeptFrom(c)
               new == SubSeq(list, 1, at) \o <<c>> \o SubSeq(list, k, Len(list))
           IN  /\ k \in (at + 1) .. (Len(list) + 1)
               /\ new \in Seq(Command) /\ Len(new) = at + 2 + Len(list) - k
               /\ \A i \in 1 .. at : new[i] = list[i]
               /\ new[at + 1] = c
               /\ k <= Len(list) => new[at + 2] = list[k] /\ ~IsView(k)
<1>. DEFINE k == KeptFrom(c)
            len == Len(list)
            before == SubSeq(list, 1, at)
            behind == SubSeq(list, k, len)
<1>1. len \in Nat /\ at \in 0 .. len /\ list \in Seq(Command)
  BY DEF WalksInv, HistoryFits
<1>2. OrderOf(c) \in {"activate", "adapt", "view"}
  BY CommandFacts
<1>3. /\ NextActivation(at) \in (at + 1) .. (len + 1)
      /\ NextActivation(at) <= len => IsActivation(NextActivation(at))
  BY NextActivationFacts DEF WalksInv, HistoryFits
<1>4. k \in (at + 1) .. (len + 1)
  BY <1>1, <1>2, <1>3 DEF KeptFrom
<1>5. k <= len => ~IsView(k)
  <2>1. CASE OrderOf(c) = "activate"
    BY <1>1, <2>1 DEF KeptFrom
  <2>2. CASE OrderOf(c) = "adapt"
    BY <1>3, <2>2 DEF KeptFrom, IsActivation, IsView
  <2>3. CASE OrderOf(c) = "view"
    BY <1>1, <2>3 DEF KeptFrom, WalksInv, NoViewAhead
  <2>. QED
    BY <1>2, <2>1, <2>2, <2>3
<1>. HIDE DEF k, len
<1>6. before \in Seq(Command) /\ Len(before) = at /\ \A i \in 1 .. at : before[i] = list[i]
  BY <1>1 DEF len
<1>7. /\ behind \in Seq(Command) /\ Len(behind) = len + 1 - k
      /\ k <= len => behind[1] = list[k]
  BY <1>1, <1>4 DEF len
<1>. HIDE DEF before, behind
<1>8. /\ before \o <<c>> \in Seq(Command) /\ Len(before \o <<c>>) = at + 1
      /\ \A i \in 1 .. at : (before \o <<c>>)[i] = list[i]
      /\ (before \o <<c>>)[at + 1] = c
  <2>1. <<c>> \in Seq(Command) /\ Len(<<c>>) = 1 /\ <<c>>[1] = c
    OBVIOUS
  <2>. DEFINE one == <<c>>
  <2>. HIDE DEF one
  <2>2. /\ before \o one \in Seq(Command) /\ Len(before \o one) = at + 1
        /\ \A i \in 1 .. at : (before \o one)[i] = before[i]
        /\ (before \o one)[at + 1] = one[1]
    BY <1>6, <2>1, ConcatFacts DEF one
  <2>. QED
    BY <1>6, <2>1, <2>2 DEF one
<1>. DEFINE head == before \o <<c>>
<1>. HIDE DEF head
<1>9. /\ head \o behind \in Seq(Command) /\ Len(head \o behind) = at + 1 + (len + 1 - k)
      /\ \A i \in 1 .. (at + 1) : (head \o behind)[i] = head[i]
      /\ k <= len => (head \o behind)[(at + 1) + 1] = behind[1]
  <2>1. head \in Seq(Command) /\ Len(head) = at + 1
    BY <1>8 DEF head
  <2>2. k <= len => 1 \in 1 .. Len(behind)
    BY <1>1, <1>4, <1>7
  <2>3. head \in Seq(Command) /\ behind \in Seq(Command)
    BY <1>7, <2>1
  <2>4. /\ head \o behind \in Seq(Command)
        /\ Len(head \o behind) = Len(head) + Len(behind)
        /\ \A i \in 1 .. Len(head) : (head \o behind)[i] = head[i]
        /\ \A i \in 1 .. Len(behind) : (head \o behind)[Len(head) + i] = behind[i]
    BY ONLY <2>3, ConcatFacts
  <2>. QED
    BY <1>7, <2>1, <2>2, <2>4
<1>10. \A i \in 1 .. at : i \in 1 .. (at + 1)
  BY <1>1
<1>11. /\ head \o behind \in Seq(Command) /\ Len(head \o behind) = at + 2 + len - k
       /\ \A i \in 1 .. at : (head \o behind)[i] = list[i]
       /\ (head \o behind)[at + 1] = c
       /\ k <= len => (head \o behind)[at + 2] = list[k]
  <2>1. at + 1 + (len + 1 - k) = at + 2 + len - k /\ (at + 1) + 1 = at + 2
        /\ at + 1 \in 1 .. (at + 1)
    BY <1>1, <1>4
  <2>. QED
    BY <1>7, <1>8, <1>9, <1>10, <2>1 DEF head
<1>. QED
  BY <1>4, <1>5, <1>11 DEF head, before, behind, k, len

LEMMA ProcessKeeps ==
    ASSUME WalksInv, NEW c \in Command, ProcessCommand(c), list' # list \/ at' # at
    PROVE  /\ WalksNext
           /\ undoOn' \in BOOLEAN /\ redoOn' \in BOOLEAN
           /\ ForwardShown => ForwardShown'
<1>. DEFINE k == KeptFrom(c)
            new == SubSeq(list, 1, at) \o <<c>> \o SubSeq(list, k, Len(list))
            len == Len(list)
<1>1. Accepted(c)
  BY DEF ProcessCommand
<1>2. /\ list' = new /\ at' = at + 1
      /\ undoOn' = (undoOn \/ (OrderOf(c) # "view" /\ at > 0))
      /\ redoOn' = (redoOn /\ ~(OrderOf(c) # "view" /\ k > len))
  BY <1>1 DEF ProcessCommand, NothingAhead
<1>3. /\ k \in (at + 1) .. (len + 1)
      /\ new \in Seq(Command) /\ Len(new) = at + 2 + len - k
      /\ \A i \in 1 .. at : new[i] = list[i]
      /\ new[at + 1] = c
      /\ k <= len => new[at + 2] = list[k] /\ ~IsView(k)
  BY <1>1, NewListFacts
<1>4. len \in Nat /\ at \in 0 .. len /\ undoOn \in BOOLEAN /\ redoOn \in BOOLEAN
      /\ (list = <<>> => len = 0) /\ (list # <<>> => at >= 1 /\ IsActivation(1))
      /\ (list # <<>> => len # 0)
  BY DEF WalksInv, HistoryFits, WalksStayInside
<1>. HIDE DEF k, new, len
<1>5. at' \in 1 .. Len(list') /\ list' \in Seq(Command)
  BY <1>2, <1>3, <1>4
<1>6. IsActivation(1)'
  <2>1. CASE at = 0
    <3>1. list'[1] = c
      BY <1>2, <1>3, <2>1
    <3>2. OrderOf(c) = "activate"
      BY <1>1, <2>1 DEF Accepted
    <3>. QED
      BY <3>1, <3>2 DEF IsActivation
  <2>2. CASE at # 0
    <3>1. 1 \in 1 .. at /\ list # <<>>
      BY <1>4, <2>2
    <3>2. list'[1] = list[1]
      BY <1>2, <1>3, <3>1
    <3>. QED
      BY <1>4, <3>1, <3>2 DEF IsActivation
  <2>. QED
    BY <2>1, <2>2
<1>7. at' < Len(list') => k <= len /\ OrderOf(list'[at + 2]) # "view"
  <2>1. at' < Len(list') => k <= len
    BY <1>2, <1>3, <1>4
  <2>2. k <= len => list'[at + 2] = list[k] /\ ~IsView(k)
    BY <1>2, <1>3
  <2>3. k <= len => ~(OrderOf(list'[at + 2]) = "view")
    BY <2>2 DEF IsView
  <2>. QED
    BY <2>1, <2>3
<1>8. NoViewAhead'
  <2>1. at' + 1 = at + 2
    BY <1>2, <1>4
  <2>. QED
    BY <1>7, <2>1 DEF NoViewAhead, IsView
<1>9. WalksStayInside' /\ at' \in 0 .. Len(list')
  BY <1>5, <1>6 DEF WalksStayInside
<1>10. ForwardShown => ForwardShown'
  <2>1. k <= len => ~(k > len) /\ at < len
    BY <1>3, <1>4
  <2>2. SUFFICES ASSUME at < len => redoOn, at' < Len(list') PROVE redoOn'
    BY DEF ForwardShown, len
  <2>3. redoOn /\ ~(k > len)
    BY <1>7, <2>1, <2>2
  <2>. QED
    BY <1>2, <2>3
<1>11. undoOn' \in BOOLEAN /\ redoOn' \in BOOLEAN
  BY <1>2
<1>. QED
  BY <1>5, <1>8, <1>9, <1>10, <1>11 DEF WalksNext

LEMMA CommandKeeps ==
    ASSUME WalksInv, NEW message, message.command \in Command, HandleCommand(message)
    PROVE  /\ WalksNext
           /\ undoOn' \in BOOLEAN /\ redoOn' \in BOOLEAN
           /\ ForwardShown => ForwardShown'
<1>. DEFINE c == message.command
<1>1. c \in Command
  OBVIOUS
<1>2. list \in Seq(Command) /\ at \in 0 .. Len(list) /\ undoOn \in BOOLEAN /\ redoOn \in BOOLEAN
      /\ (list # <<>> => at >= 1 /\ at <= Len(list) /\ IsActivation(1)) /\ NoViewAhead
  BY DEF WalksInv, HistoryFits, WalksStayInside
<1>3. CASE UNCHANGED <<list, at, buttons>>
  BY <1>2, <1>3 DEF WalksNext, WalksStayInside, NoViewAhead, ForwardShown, buttons,
     IsActivation, IsView
<1>4. CASE /\ Same(c) = "update" /\ SameType(c)
           /\ list' = [list EXCEPT ![at] = c]
           /\ UNCHANGED <<at, buttons>>
  <2>1. at \in 1 .. Len(list) /\ list[at] \in Command /\ list # <<>>
    BY <1>2, <1>4 DEF SameType
  <2>2. OrderOf(list[at]) = OrderOf(c)
    BY <1>1, <1>4, <2>1, CommandFacts DEF SameType
  <2>3. /\ list' \in Seq(Command) /\ Len(list') = Len(list)
        /\ \A i \in 1 .. Len(list) : list'[i] = IF i = at THEN c ELSE list[i]
    <3>. DEFINE len == Len(list)
    <3>1. len \in Nat /\ list \in [1 .. len -> Command] /\ at \in 1 .. len
      BY <1>2, <2>1
    <3>. HIDE DEF len
    <3>2. /\ list' \in [1 .. len -> Command]
          /\ \A i \in 1 .. len : list'[i] = IF i = at THEN c ELSE list[i]
      BY <1>1, <1>4, <3>1
    <3>3. list' \in Seq(Command) /\ Len(list') = len
      BY <3>1, <3>2
    <3>. QED
      BY <3>2, <3>3 DEF len
  <2>4. \A i \in 1 .. Len(list) : OrderOf(list'[i]) = OrderOf(list[i])
    BY <2>2, <2>3
  <2>5. WalksStayInside'
    <3>1. 1 \in 1 .. Len(list) /\ IsActivation(1)
      BY <1>2, <2>1
    <3>2. OrderOf(list'[1]) = "activate"
      BY <2>4, <3>1 DEF IsActivation
    <3>. QED
      BY <1>4, <2>1, <2>3, <3>2 DEF WalksStayInside, IsActivation
  <2>6. NoViewAhead'
    <3>1. at < Len(list) => at + 1 \in 1 .. Len(list)
      BY <2>1
    <3>2. at < Len(list) => OrderOf(list'[at + 1]) # "view"
      BY <1>2, <2>4, <3>1 DEF NoViewAhead, IsView
    <3>. QED
      BY <1>4, <2>3, <3>2 DEF NoViewAhead, IsView
  <2>. QED
    BY <1>2, <1>4, <2>1, <2>3, <2>5, <2>6 DEF WalksNext, ForwardShown, buttons
<1>5. CASE ProcessCommand(c)
  <2>1. CASE list' # list \/ at' # at
    BY <1>1, <1>5, <2>1, ProcessKeeps
  <2>2. CASE list' = list /\ at' = at
    <3>1. CASE ~Accepted(c)
      BY <1>3, <1>5, <3>1 DEF ProcessCommand
    <3>2. CASE Accepted(c)
      <4>1. at' = at + 1
        BY <1>5, <3>2 DEF ProcessCommand
      <4>. QED
        BY <1>2, <2>2, <4>1
    <3>. QED
      BY <3>1, <3>2
  <2>. QED
    BY <2>1, <2>2
<1>. QED
  BY <1>3, <1>4, <1>5 DEF HandleCommand, buttons

(* Back and Forward.                                                       *)
LEMMA UndoKeeps ==
    ASSUME WalksInv, NEW message, HandleUndo(message)
    PROVE  /\ WalksNext
           /\ undoOn' \in BOOLEAN /\ redoOn' \in BOOLEAN
           /\ ForwardShown => ForwardShown'
<1>1. list \in Seq(Command) /\ at \in 0 .. Len(list) /\ undoOn \in BOOLEAN /\ redoOn \in BOOLEAN
      /\ (list # <<>> => at >= 1 /\ at <= Len(list) /\ IsActivation(1)) /\ NoViewAhead
  BY DEF WalksInv, HistoryFits, WalksStayInside
<1>2. list' = list
  BY DEF HandleUndo
<1>3. CASE at' = at
  <2>1. WalksNext
    BY <1>1, <1>2, <1>3 DEF WalksNext, WalksStayInside, NoViewAhead, IsActivation, IsView
  <2>2. undoOn' \in BOOLEAN /\ (redoOn' = redoOn \/ redoOn' = TRUE)
    BY <1>1 DEF HandleUndo, buttons
  <2>3. redoOn => redoOn'
    BY <2>2, Zenon
  <2>4. redoOn' \in BOOLEAN
    BY <1>1, <2>2, Zenon
  <2>5. ForwardShown => ForwardShown'
    BY <1>2, <1>3, <2>3 DEF ForwardShown
  <2>. QED
    BY <2>1, <2>2, <2>4, <2>5
<1>4. CASE /\ list # <<>> /\ UndoTarget(at) > 0
           /\ at' = UndoTarget(at)
           /\ undoOn' = (undoOn /\ UndoTarget(at') > 0)
           /\ redoOn' = TRUE
  <2>1. UndoTarget(at) \in -1 .. (at - 1) /\ ~IsView(UndoTarget(at) + 1)
    BY <1>1, <1>4, UndoTargetFacts DEF WalksInv
  <2>2. at' \in 1 .. Len(list)
    BY <1>1, <1>4, <2>1
  <2>3. WalksNext
    BY <1>2, <1>4, <2>1, <2>2, ListUnchanged
  <2>. QED
    BY <1>1, <1>4, <2>3 DEF ForwardShown
<1>. QED
  BY <1>3, <1>4 DEF HandleUndo

LEMMA RedoKeeps ==
    ASSUME WalksInv, NEW message, HandleRedo(message)
    PROVE  /\ WalksNext
           /\ undoOn' \in BOOLEAN /\ redoOn' \in BOOLEAN
           /\ ForwardShown => ForwardShown'
<1>1. list \in Seq(Command) /\ at \in 0 .. Len(list) /\ undoOn \in BOOLEAN /\ redoOn \in BOOLEAN
      /\ (list # <<>> => at >= 1 /\ at <= Len(list) /\ IsActivation(1)) /\ NoViewAhead
  BY DEF WalksInv, HistoryFits, WalksStayInside
<1>2. list' = list
  BY DEF HandleRedo
<1>3. CASE UNCHANGED <<at, buttons>>
  BY <1>1, <1>2, <1>3 DEF WalksNext, WalksStayInside, NoViewAhead, ForwardShown, buttons,
     IsActivation, IsView
<1>4. CASE /\ at < Len(list)
           /\ at' = RedoTarget(at)
           /\ undoOn' = TRUE
           /\ redoOn' = (redoOn /\ at' < Len(list))
  <2>1. at \in 0 .. (Len(list) - 1)
    BY <1>1, <1>4
  <2>2. /\ RedoTarget(at) \in (at + 1) .. Len(list)
        /\ RedoTarget(at) < Len(list) => ~IsView(RedoTarget(at) + 1)
    BY <2>1, RedoTargetFacts DEF WalksInv
  <2>3. at' \in 1 .. Len(list)
    BY <1>4, <2>1, <2>2
  <2>4. WalksNext
    BY <1>2, <1>4, <2>2, <2>3, ListUnchanged
  <2>. QED
    BY <1>1, <1>2, <1>4, <2>4 DEF ForwardShown
<1>. QED
  BY <1>3, <1>4 DEF HandleRedo

LEMMA PositionsFinite ==
    ASSUME HistoryFits, NEW S \in SUBSET (1 .. Len(list))
    PROVE  IsFiniteSet(S) /\ Cardinality(S) \in Nat /\ S \in SUBSET Nat
<1>. DEFINE len == Len(list)
<1>1. len \in Nat /\ S \in SUBSET (1 .. len)
  BY DEF HistoryFits
<1>. HIDE DEF len
<1>2. IsFiniteSet(1 .. len)
  BY <1>1, FS_Interval
<1>3. IsFiniteSet(S)
  BY <1>1, <1>2, FS_Subset
<1>4. Cardinality(S) \in Nat
  BY <1>3, FS_CardinalityType
<1>. QED
  BY <1>1, <1>3, <1>4

(* An entry of the menu: an activation, and what comes behind it up to the *)
(* next.                                                                   *)
LEMMA ActivationsFacts ==
    ASSUME HistoryFits
    PROVE  /\ DOMAIN ActivationsOf(list) = 1 .. Len(ActivationsOf(list))
           /\ \A n \in DOMAIN ActivationsOf(list) : ActivationsOf(list)[n] \in 1 .. Len(list)
<1>. DEFINE S == {i \in 1..Len(list) : OrderOf(list[i]) = "activate"}
            many == Cardinality(S)
<1>1. ActivationsOf(list) = [k \in 1 .. many |-> Nth(S, many + 1 - k)]
  BY DEF ActivationsOf
<1>2. S \in SUBSET (1 .. Len(list))
  OBVIOUS
<1>. HIDE DEF S
<1>3. IsFiniteSet(S) /\ many \in Nat /\ S \in SUBSET Nat
  BY <1>2, PositionsFinite
<1>4. ASSUME NEW n \in 1 .. many PROVE Nth(S, many + 1 - n) \in S
  <2>1. many + 1 - n \in 1 .. many
    BY <1>3
  <2>. QED
    BY <1>3, <2>1, NthFacts
<1>. HIDE DEF many
<1>5. DOMAIN ActivationsOf(list) = 1 .. many /\ Len(ActivationsOf(list)) = many
  BY <1>1, <1>3
<1>6. \A n \in 1 .. many : ActivationsOf(list)[n] \in S
  BY <1>1, <1>4
<1>. QED
  BY <1>2, <1>5, <1>6

LEMMA PickKeeps ==
    ASSUME WalksInv, NEW message, HandlePick(message)
    PROVE  /\ WalksNext
           /\ undoOn' \in BOOLEAN /\ redoOn' \in BOOLEAN
           /\ Clicked(message) \in DOMAIN ActivationsOf(list) => ForwardShown'
<1>. DEFINE acts == ActivationsOf(list)
            n == Clicked(message)
            p == acts[n]
<1>1. list \in Seq(Command) /\ at \in 0 .. Len(list) /\ undoOn \in BOOLEAN /\ redoOn \in BOOLEAN
      /\ (list # <<>> => at >= 1 /\ at <= Len(list) /\ IsActivation(1)) /\ NoViewAhead
  BY DEF WalksInv, HistoryFits, WalksStayInside
<1>2. /\ list' = list
      /\ undoOn' = (Len(acts) > n)
      /\ redoOn' = (at' < Len(list) /\ OrderOf(list[at' + 1]) = "activate")
      /\ IF n \in 1 .. Len(acts) THEN at' = NextActivation(p) - 1 ELSE at' = at
  BY DEF HandlePick
<1>3. DOMAIN acts = 1 .. Len(acts)
  BY ActivationsFacts DEF WalksInv
<1>4. undoOn' \in BOOLEAN /\ redoOn' \in BOOLEAN
  BY <1>2
<1>5. CASE n \in 1 .. Len(acts)
  <2>1. p \in 1 .. Len(list)
    BY <1>3, <1>5, ActivationsFacts DEF WalksInv
  <2>2. /\ NextActivation(p) \in (p + 1) .. (Len(list) + 1)
        /\ NextActivation(p) <= Len(list) => IsActivation(NextActivation(p))
    BY <1>1, <2>1, NextActivationFacts DEF WalksInv
  <2>3. at' = NextActivation(p) - 1
    BY <1>2, <1>5
  <2>. HIDE DEF p, n, acts
  <2>4. at' \in 1 .. Len(list) /\ at' + 1 = NextActivation(p)
        /\ (at' < Len(list) => NextActivation(p) <= Len(list))
    BY <1>1, <2>1, <2>2, <2>3
  <2>5. at' < Len(list) => IsActivation(at' + 1) /\ ~IsView(at' + 1)
    BY <2>2, <2>4 DEF IsActivation, IsView
  <2>6. WalksNext
    BY <1>2, <2>4, <2>5, ListUnchanged
  <2>7. ForwardShown'
    BY <1>2, <2>5 DEF ForwardShown, IsActivation
  <2>. QED
    BY <1>4, <2>6, <2>7
<1>6. CASE n \notin 1 .. Len(acts)
  <2>1. at' = at
    BY <1>2, <1>6
  <2>2. WalksNext
    BY <1>1, <1>2, <2>1 DEF WalksNext, WalksStayInside, NoViewAhead, IsActivation, IsView
  <2>. QED
    BY <1>3, <1>4, <1>6, <2>2
<1>. QED
  BY <1>5, <1>6

(* The end of indexing: only activations are left, all of them done.       *)
LEMMA IndexingKeeps ==
    ASSUME WalksInv, IndexingFinished
    PROVE  WalksNext /\ ForwardShown'
<1>. DEFINE Kept(c) == OrderOf(c) = "activate" /\ c.kind # "bundledEdges"
            S == {i \in 1..Len(list) : Kept(list[i])}
<1>1. list \in Seq(Command)
  BY DEF WalksInv, HistoryFits
<1>2. list' = Chosen(list, S) /\ at' = Len(list')
  BY DEF IndexingFinished
<1>3. S \in SUBSET (1 .. Len(list)) /\ \A i \in S : OrderOf(list[i]) = "activate"
  OBVIOUS
<1>. HIDE DEF S
<1>4. /\ list' \in Seq(Command)
      /\ \A k \in 1 .. Len(list') : \E i \in S : list'[k] = list[i]
  <2>1. S \in SUBSET (1 .. Len(list))
    BY <1>3
  <2>2. /\ Chosen(list, S) \in Seq(Command)
        /\ \A k \in 1 .. Len(Chosen(list, S)) : \E i \in S : Chosen(list, S)[k] = list[i]
    BY ONLY <1>1, <2>1, ChosenFacts
  <2>. QED
    BY <1>2, <2>2
<1>5. \A k \in 1 .. Len(list') : OrderOf(list'[k]) = "activate"
  BY <1>3, <1>4
<1>6. Len(list') \in Nat /\ (list' # <<>> => Len(list') >= 1)
  BY <1>4
<1>7. list' # <<>> => IsActivation(1)'
  BY <1>5, <1>6 DEF IsActivation
<1>8. WalksStayInside'
  BY <1>2, <1>6, <1>7 DEF WalksStayInside
<1>. QED
  BY <1>2, <1>4, <1>6, <1>8 DEF WalksNext, NoViewAhead, ForwardShown

(* What is under way to the tab.                                           *)
LEMMA QueueKeeps ==
    ASSUME WalksInv, QueueFits, [UndoNext]_undoVars
    PROVE  QueueFits'
<1>1. list \in Seq(Command) /\ at \in 0 .. Len(list)
  BY DEF WalksInv, HistoryFits
<1>2. ASSUME NEW item \in QueueItems, Send(item) PROVE QueueFits'
  BY <1>2, QueueFacts DEF Send, QueueFits
<1>3. ASSUME NEW c \in Messages, UserActs(c) PROVE QueueFits'
  BY <1>2, <1>3, MessagesAssumption DEF UserActs, QueueItems
<1>4. CASE PressBack \/ PressForward
  BY <1>2, <1>4 DEF PressBack, PressForward, Navigate, QueueItems
<1>5. ASSUME NEW i \in 0..(Len(menu.shown) - 1), PickEntry(i) PROVE QueueFits'
  <2>1. [do |-> "pick", index |-> i] \in QueueItems
    BY DEF QueueItems
  <2>. QED
    BY <1>2, <1>5, <2>1 DEF PickEntry, Navigate
<1>6. CASE HandleMessage
  <2>1. queue # <<>>
    BY <1>6 DEF HandleMessage
  <2>2. queue' = Tail(queue) \/ \E item \in QueueItems : queue' = Append(Tail(queue), item)
    <3>. DEFINE message == Head(queue)
    <3>1. CASE HandleCommand(message) \/ HandleReplay(message)
      BY <3>1 DEF HandleCommand, HandleReplay
    <3>2. CASE HandleUndo(message)
      <4>1. CASE queue' = Append(Tail(queue), Replay(ReplayStart(at'), at'))
                 /\ list # <<>> /\ UndoTarget(at) > 0 /\ at' = UndoTarget(at)
        <5>1. at' \in 0 .. Len(list)
          BY <1>1, <4>1, UndoTargetFacts DEF WalksInv
        <5>2. ReplayStart(at') \in 1 .. (at' + 1)
          BY <5>1, ReplayStartFacts DEF WalksInv
        <5>3. Replay(ReplayStart(at'), at') \in QueueItems
          BY <5>1, <5>2, ReplayFacts DEF WalksInv
        <5>. QED
          BY <4>1, <5>3
      <4>. QED
        BY <3>2, <4>1 DEF HandleUndo
    <3>3. CASE HandleRedo(message)
      <4>1. CASE queue' = Append(Tail(queue), Replay(at + 1, at'))
                 /\ at < Len(list) /\ at' = RedoTarget(at)
        <5>1. at \in 0 .. (Len(list) - 1)
          BY <1>1, <4>1
        <5>2. at' \in 0 .. Len(list)
          BY <4>1, <5>1, RedoTargetFacts DEF WalksInv
        <5>3. Replay(at + 1, at') \in QueueItems
          BY <5>1, <5>2, ReplayFacts DEF WalksInv
        <5>. QED
          BY <4>1, <5>3
      <4>. QED
        BY <3>3, <4>1 DEF HandleRedo
    <3>4. CASE HandlePick(message)
      <4>. DEFINE acts == ActivationsOf(list)
                  n == Clicked(message)
      <4>1. CASE n \in 1 .. Len(acts) /\ at' = NextActivation(acts[n]) - 1
                 /\ queue' = Append(Tail(queue), Replay(acts[n], at'))
        <5>. DEFINE p == acts[n]
        <5>1. p \in 1 .. Len(list)
          BY <4>1, ActivationsFacts DEF WalksInv
        <5>2. NextActivation(p) \in (p + 1) .. (Len(list) + 1)
          BY <1>1, <5>1, NextActivationFacts DEF WalksInv
        <5>3. at' = NextActivation(p) - 1
          BY <4>1
        <5>. HIDE DEF p
        <5>4. at' \in 0 .. Len(list)
          BY <1>1, <5>1, <5>2, <5>3
        <5>5. Replay(p, at') \in QueueItems
          BY <5>1, <5>4, ReplayFacts DEF WalksInv
        <5>. QED
          BY <4>1, <5>5 DEF p
      <4>. QED
        BY <3>4, <4>1 DEF HandlePick
    <3>. QED
      BY <1>6, <3>1, <3>2, <3>3, <3>4 DEF HandleMessage
  <2>. QED
    BY <2>1, <2>2, QueueFacts DEF QueueFits
<1>7. CASE IndexingFinished
  BY <1>7 DEF IndexingFinished, QueueFits
<1>8. ASSUME NEW after \in BOOLEAN, RefreshUIState(after) PROVE QueueFits'
  <2>1. [do |-> "command", command |-> Overview] \in QueueItems
    BY OverviewFacts DEF QueueItems
  <2>2. ReplayStart(at) \in 1 .. (at + 1)
    BY <1>1, ReplayStartFacts DEF WalksInv
  <2>3. Replay(ReplayStart(at), at) \in QueueItems
    BY <1>1, <2>2, ReplayFacts DEF WalksInv
  <2>. QED
    BY <1>2, <1>8, <2>1, <2>3 DEF RefreshUIState
<1>9. CASE UNCHANGED undoVars
  BY <1>9 DEF undoVars, QueueFits
<1>. QED
  BY <1>3, <1>4, <1>5, <1>6, <1>7, <1>8, <1>9 DEF UndoNext

LEMMA WalksKept ==
    ASSUME WalksInv, QueueFits, [UndoNext]_undoVars
    PROVE  /\ WalksInv'
           /\ ForwardShown => ForwardShown' \/ ClickMisses
<1>1. /\ list \in Seq(Command) /\ at \in 0 .. Len(list)
      /\ undoOn \in BOOLEAN /\ redoOn \in BOOLEAN /\ owed \in BOOLEAN
      /\ indexings \in 0 .. MaxIndexings /\ MaxIndexings \in Nat
  BY UndoAssumption DEF WalksInv, HistoryFits, UndoAssumption
<1>2. CASE UNCHANGED <<list, at, buttons, indexings>> /\ owed' \in BOOLEAN
  BY <1>2 DEF WalksInv, HistoryFits, WalksStayInside, NoViewAhead, ForwardShown, buttons,
     IsActivation, IsView
<1>3. CASE HandleMessage
  <2>. DEFINE message == Head(queue)
  <2>1. queue # <<>> /\ message \in QueueItems
    BY <1>3 DEF HandleMessage, QueueFits
  <2>2. owed' = owed /\ indexings' = indexings
    BY <1>3 DEF HandleMessage, HandleCommand, HandleReplay, HandleUndo, HandleRedo, HandlePick
  <2>3. CASE HandleReplay(message)
    BY <1>1, <1>2, <2>2, <2>3 DEF HandleReplay
  <2>4. CASE ~HandleReplay(message)
    <3>1. HandleCommand(message) => message.command \in Command
      BY <2>1 DEF HandleCommand, QueueItems
    <3>2. /\ WalksNext
          /\ undoOn' \in BOOLEAN /\ redoOn' \in BOOLEAN
          /\ ForwardShown => ForwardShown' \/ ClickMisses
      <4>1. CASE HandleCommand(message)
        BY <3>1, <4>1, CommandKeeps
      <4>2. CASE HandleUndo(message)
        BY <4>2, UndoKeeps
      <4>3. CASE HandleRedo(message)
        BY <4>3, RedoKeeps
      <4>4. CASE HandlePick(message)
        BY <2>1, <4>4, PickKeeps DEF ClickMisses
      <4>. QED
        BY <1>3, <2>4, <4>1, <4>2, <4>3, <4>4 DEF HandleMessage
    <3>. QED
      BY <1>1, <2>2, <3>2 DEF WalksNext, WalksInv, HistoryFits
  <2>. QED
    BY <2>3, <2>4
<1>4. CASE IndexingFinished
  <2>1. indexings' \in 0 .. MaxIndexings /\ owed' = TRUE /\ UNCHANGED buttons
    BY <1>1, <1>4 DEF IndexingFinished
  <2>2. WalksNext /\ ForwardShown'
    BY <1>4, IndexingKeeps
  <2>. QED
    BY <1>1, <2>1, <2>2 DEF WalksNext, WalksInv, HistoryFits, buttons
<1>5. CASE ~HandleMessage /\ ~IndexingFinished
  <2>1. UNCHANGED <<list, at, buttons, indexings>> /\ owed' \in BOOLEAN
    <3>1. CASE \/ \E c \in Messages : UserActs(c)
               \/ PressBack \/ PressForward
               \/ \E i \in 0..(Len(menu.shown) - 1) : PickEntry(i)
      BY <1>1, <3>1 DEF UserActs, PressBack, PressForward, PickEntry, Navigate
    <3>2. CASE RefreshUIState(FALSE) \/ RefreshUIState(TRUE)
      BY <1>1, <3>2 DEF RefreshUIState
    <3>3. CASE UNCHANGED undoVars
      BY <1>1, <3>3 DEF undoVars, buttons
    <3>. QED
      BY <1>5, <3>1, <3>2, <3>3 DEF UndoNext
  <2>. QED
    BY <1>2, <2>1
<1>. QED
  BY <1>3, <1>4, <1>5

LEMMA WalksInvInit == UndoInit => WalksInv /\ QueueFits
<1>. SUFFICES ASSUME UndoInit PROVE WalksInv /\ QueueFits
  OBVIOUS
<1>1. list = <<>> /\ at = 0 /\ queue = <<>>
  BY DEF UndoInit
<1>2. HistoryFits
  <2>1. list \in Seq(Command) /\ Len(list) = 0 /\ at \in 0 .. Len(list)
    BY <1>1
  <2>2. indexings \in 0 .. MaxIndexings
    BY UndoAssumption DEF UndoInit, UndoAssumption
  <2>3. undoOn \in BOOLEAN /\ redoOn \in BOOLEAN /\ owed \in BOOLEAN
    BY DEF UndoInit
  <2>. QED
    BY <2>1, <2>2, <2>3 DEF HistoryFits
<1>. QED
  BY <1>1, <1>2 DEF WalksInv, WalksStayInside, NoViewAhead, QueueFits

(* The walks backwards over the list find an activation before they leave  *)
(* it, whatever the user does while messages are under way.                *)
THEOREM WalksNeverLeaveTheList == UndoSpec => []WalksStayInside
<1>1. WalksInv /\ QueueFits /\ [UndoNext]_undoVars => WalksInv' /\ QueueFits'
  BY WalksKept, QueueKeeps
<1>2. WalksInv => WalksStayInside
  BY DEF WalksInv
<1>. QED
  BY <1>1, <1>2, WalksInvInit, PTL DEF UndoSpec

(* Forward leads back to where Back was pressed.                           *)
THEOREM ForwardUndoesBack == UndoSpec => []RedoUndoesUndo
<1>1. WalksInv /\ QueueFits /\ [UndoNext]_undoVars => WalksInv' /\ QueueFits'
  BY WalksKept, QueueKeeps
<1>2. ASSUME WalksInv PROVE RedoUndoesUndo
  <2>. DEFINE back == UndoTarget(at)
  <2>1. SUFFICES ASSUME list # <<>>, back > 0 PROVE RedoTarget(back) = at
    BY DEF RedoUndoesUndo
  <2>2. list \in Seq(Command) /\ at \in 0 .. Len(list) /\ HistoryFits
    BY <1>2 DEF WalksInv, HistoryFits
  <2>3. /\ back \in -1 .. (at - 1)
        /\ \A i \in 1 .. at : back + 1 < i => IsView(i)
    BY <2>2, UndoTargetFacts
  <2>. HIDE DEF back
  <2>4. back \in 0 .. (Len(list) - 1) /\ at \in (back + 1) .. Len(list)
    BY <2>1, <2>2, <2>3
  <2>5. at = Len(list) \/ ~IsView(at + 1)
    BY <1>2, <2>2 DEF WalksInv, NoViewAhead
  <2>. DEFINE r == RedoTarget(back)
  <2>6. /\ r \in (back + 1) .. Len(list) /\ (r < Len(list) => ~IsView(r + 1))
        /\ r <= at
    BY <2>2, <2>4, <2>5, RedoTargetFacts
  <2>. HIDE DEF r
  <2>7. ~(r < at)
    <3>1. SUFFICES ASSUME r < at PROVE FALSE
      OBVIOUS
    <3>2. r + 1 \in 1 .. at /\ back + 1 < r + 1 /\ r < Len(list)
      BY <2>2, <2>4, <2>6, <3>1
    <3>. QED
      BY <2>3, <2>6, <3>2
  <2>8. r = at
    BY <2>2, <2>4, <2>6, <2>7
  <2>. QED
    BY <2>8 DEF r
<1>. QED
  BY <1>1, <1>2, WalksInvInit, PTL DEF UndoSpec

(* As long as there is something to go forward to the button is enabled,   *)
(* but for a click that misses.                                            *)
THEOREM ForwardIsOffered == UndoSpec => RedoOffered
<1>1. WalksInv /\ QueueFits /\ [UndoNext]_undoVars => WalksInv' /\ QueueFits'
  BY WalksKept, QueueKeeps
<1>2. WalksInv /\ QueueFits /\ [UndoNext]_undoVars
          => [ForwardShown => ForwardShown' \/ ClickMisses]_undoVars
  BY WalksKept
<1>. QED
  BY <1>1, <1>2, WalksInvInit, PTL DEF UndoSpec, RedoOffered

-----------------------------------------------------------------------------
(* The activations of a list, from the last to the first.                  *)

Activations(commands) ==
    {i \in 1 .. Len(commands) : OrderOf(commands[i]) = "activate"}

(* A sequence that lists a set of positions from the last to the first.    *)
Descends(a, many, S) ==
    /\ a \in [1 .. many -> S]
    /\ \A i, j \in 1 .. many : i < j => a[j] < a[i]
    /\ \A p \in S : \E k \in 1 .. many : a[k] = p

LEMMA RankGrows ==
    ASSUME NEW S \in SUBSET Nat, IsFiniteSet(S), NEW p \in S, NEW q \in S, p < q
    PROVE  Cardinality({j \in S : j <= p}) < Cardinality({j \in S : j <= q})
<1>. DEFINE low == {j \in S : j <= p}
            high == {j \in S : j <= q}
<1>1. p \in Nat /\ q \in Nat /\ \A j \in S : j \in Nat
  OBVIOUS
<1>2. low \cup {q} \in SUBSET high /\ q \notin low
  <2>1. \A j \in low : j \in high
    BY <1>1
  <2>2. q \in high /\ q \notin low
    BY <1>1
  <2>. QED
    BY <2>1, <2>2
<1>3. IsFiniteSet(low) /\ IsFiniteSet(high)
  BY FS_Subset
<1>. HIDE DEF low, high
<1>4. /\ IsFiniteSet(low \cup {q})
      /\ Cardinality(low \cup {q}) = Cardinality(low) + 1
  BY <1>2, <1>3, FS_AddElement
<1>5. Cardinality(low \cup {q}) <= Cardinality(high)
  BY <1>2, <1>3, FS_Subset
<1>6. Cardinality(low) \in Nat /\ Cardinality(high) \in Nat
  BY <1>3, FS_CardinalityType
<1>7. Cardinality(low) < Cardinality(high)
  BY <1>4, <1>5, <1>6
<1>. QED
  BY <1>7 DEF low, high

LEMMA NthRank ==
    ASSUME NEW S \in SUBSET Nat, IsFiniteSet(S), NEW k \in 1 .. Cardinality(S)
    PROVE  /\ Nth(S, k) \in S
           /\ Cardinality({j \in S : j <= Nth(S, k)}) = k
BY RankFacts DEF Nth

LEMMA NthIs ==
    ASSUME NEW S \in SUBSET Nat, IsFiniteSet(S), NEW p \in S,
           NEW k \in 1 .. Cardinality(S), Cardinality({j \in S : j <= p}) = k
    PROVE  Nth(S, k) = p
<1>. DEFINE n == Nth(S, k)
<1>1. n \in S /\ Cardinality({j \in S : j <= n}) = k
  BY NthRank
<1>. HIDE DEF n
<1>2. p \in Nat /\ n \in Nat /\ k \in Nat
  BY <1>1, FS_CardinalityType
<1>3. ~(n < p)
  BY <1>1, <1>2, RankGrows
<1>4. ~(p < n)
  BY <1>1, <1>2, RankGrows
<1>5. n = p
  BY <1>2, <1>3, <1>4
<1>. QED
  BY <1>5 DEF n

(* There is one such sequence only.                                        *)
LEMMA DescendsOnce ==
    ASSUME NEW S \in SUBSET Nat, NEW many \in Nat, NEW a, Descends(a, many, S)
    PROVE  /\ IsFiniteSet(S) /\ Cardinality(S) = many
           /\ \A k \in 1 .. many : Nth(S, many + 1 - k) = a[k]
<1>1. /\ a \in [1 .. many -> S]
      /\ \A i, j \in 1 .. many : i < j => a[j] < a[i]
      /\ \A p \in S : \E k \in 1 .. many : a[k] = p
  BY DEF Descends
<1>2. ASSUME NEW i \in 1 .. many, NEW j \in 1 .. many, a[i] = a[j] PROVE i = j
  <2>1. a[i] \in S /\ i \in Nat /\ j \in Nat
    BY <1>1
  <2>2. a[i] \in Nat
    BY <2>1
  <2>. QED
    BY <1>1, <1>2, <2>1, <2>2
<1>3. ASSUME NEW k \in 1 .. (many + 1)
      PROVE  LET T == {a[j] : j \in k .. many}
             IN  IsFiniteSet(T) /\ Cardinality(T) = many + 1 - k
  <2>. DEFINE T == {a[j] : j \in k .. many}
              b == [j \in k .. many |-> a[j]]
  <2>1. \A j \in k .. many : j \in 1 .. many
    OBVIOUS
  <2>2. b \in Bijection(k .. many, T)
    <3>1. b \in [k .. many -> T] /\ \A t \in T : \E j \in k .. many : b[j] = t
      OBVIOUS
    <3>2. \A i, j \in k .. many : b[i] = b[j] => i = j
      BY <1>2, <2>1
    <3>. HIDE DEF b, T
    <3>3. b \in Injection(k .. many, T)
      BY <3>1, <3>2 DEF Injection, IsInjective
    <3>4. b \in Surjection(k .. many, T)
      BY <3>1 DEF Surjection
    <3>. QED
      BY <3>3, <3>4 DEF Bijection
  <2>3. IsFiniteSet(k .. many) /\ Cardinality(k .. many) = many + 1 - k
    <3>1. k \in Int /\ many \in Int
      OBVIOUS
    <3>2. /\ IsFiniteSet(k .. many)
          /\ Cardinality(k .. many) = IF k > many THEN 0 ELSE many - k + 1
      BY <3>1, FS_Interval
    <3>3. (IF k > many THEN 0 ELSE many - k + 1) = many + 1 - k
      OBVIOUS
    <3>. QED
      BY <3>2, <3>3
  <2>. HIDE DEF b, T
  <2>4. ExistsBijection(k .. many, T)
    BY <2>2 DEF ExistsBijection
  <2>5. IsFiniteSet(T) /\ Cardinality(T) = many + 1 - k
    BY <2>3, <2>4, FS_Bijection
  <2>. QED
    BY <2>5 DEF T
<1>4. S = {a[j] : j \in 1 .. many}
  BY <1>1
<1>5. IsFiniteSet(S) /\ Cardinality(S) = many
  <2>1. 1 \in 1 .. (many + 1) /\ many + 1 - 1 = many
    OBVIOUS
  <2>. QED
    BY <1>3, <1>4, <2>1
<1>6. ASSUME NEW k \in 1 .. many PROVE Nth(S, many + 1 - k) = a[k]
  <2>1. {j \in S : j <= a[k]} = {a[j] : j \in k .. many}
    <3>1. ASSUME NEW j \in k .. many PROVE a[j] \in S /\ a[j] <= a[k]
      <4>1. j \in 1 .. many /\ (j = k \/ k < j)
        OBVIOUS
      <4>2. a[j] \in Nat /\ a[k] \in Nat
        BY <1>1, <4>1
      <4>. QED
        BY <1>1, <4>1, <4>2
    <3>2. ASSUME NEW p \in S, p <= a[k] PROVE \E j \in k .. many : a[j] = p
      <4>1. PICK j \in 1 .. many : a[j] = p
        BY <1>1
      <4>2. a[k] \in Nat /\ p \in Nat
        BY <1>1
      <4>3. ~(j < k)
        BY <1>1, <3>2, <4>1, <4>2
      <4>4. j \in k .. many
        BY <4>3
      <4>. QED
        BY <4>1, <4>4
    <3>. QED
      BY <3>1, <3>2
  <2>2. k \in 1 .. (many + 1) /\ many + 1 - k \in 1 .. Cardinality(S)
    BY <1>5
  <2>3. Cardinality({j \in S : j <= a[k]}) = many + 1 - k
    BY <1>3, <2>1, <2>2
  <2>4. a[k] \in S
    BY <1>1
  <2>. QED
    BY <1>5, <2>2, <2>3, <2>4, NthIs
<1>. QED
  BY <1>5, <1>6

LEMMA ActivationsDescend ==
    ASSUME NEW commands \in Seq(Command)
    PROVE  LET acts == ActivationsOf(commands)
           IN  /\ Len(acts) \in Nat
               /\ Descends(acts, Len(acts), Activations(commands))
<1>. DEFINE S == Activations(commands)
            many == Cardinality(S)
            acts == ActivationsOf(commands)
<1>1. acts = [k \in 1 .. many |-> Nth(S, many + 1 - k)]
  BY DEF ActivationsOf, Activations
<1>2. IsFiniteSet(S) /\ many \in Nat /\ S \in SUBSET Nat
  <2>1. Len(commands) \in Nat
    OBVIOUS
  <2>2. S \in SUBSET (1 .. Len(commands))
    BY DEF Activations
  <2>3. IsFiniteSet(1 .. Len(commands))
    BY <2>1, FS_Interval
  <2>4. IsFiniteSet(S)
    BY <2>2, <2>3, FS_Subset
  <2>. QED
    BY <2>1, <2>2, <2>4, FS_CardinalityType
<1>. HIDE DEF S, acts
<1>3. ASSUME NEW k \in 1 .. many
      PROVE  /\ acts[k] \in S
             /\ Cardinality({j \in S : j <= acts[k]}) = many + 1 - k
  <2>1. many + 1 - k \in 1 .. many
    BY <1>2
  <2>2. acts[k] = Nth(S, many + 1 - k)
    BY <1>1
  <2>. DEFINE r == many + 1 - k
  <2>3. /\ Nth(S, r) \in S
        /\ Cardinality({j \in S : j <= Nth(S, r)}) = r
    <3>1. r \in 1 .. Cardinality(S)
      BY <2>1
    <3>. HIDE DEF r
    <3>. QED
      BY <1>2, <3>1, NthRank
  <2>. QED
    BY <2>2, <2>3
<1>4. ASSUME NEW i \in 1 .. many, NEW j \in 1 .. many, i < j PROVE acts[j] < acts[i]
  <2>1. acts[i] \in S /\ acts[j] \in S /\ acts[i] \in Nat /\ acts[j] \in Nat
    BY <1>2, <1>3
  <2>2. Cardinality({p \in S : p <= acts[j]}) < Cardinality({p \in S : p <= acts[i]})
    <3>1. many + 1 - j < many + 1 - i
      BY <1>2, <1>4
    <3>. QED
      BY <1>3, <3>1
  <2>3. ~(acts[i] < acts[j])
    <3>1. ASSUME acts[i] < acts[j] PROVE FALSE
      <4>1. Cardinality({p \in S : p <= acts[i]}) < Cardinality({p \in S : p <= acts[j]})
        BY <1>2, <2>1, <3>1, RankGrows
      <4>2. many + 1 - i < many + 1 - j
        BY <1>3, <4>1
      <4>. QED
        BY <1>2, <1>4, <4>2
    <3>. QED
      BY <3>1
  <2>4. acts[i] # acts[j]
    <3>1. SUFFICES ASSUME acts[i] = acts[j] PROVE FALSE
      OBVIOUS
    <3>2. many + 1 - j < many + 1 - i
      BY <1>2, <1>4
    <3>3. many + 1 - i = many + 1 - j
      BY <1>3, <3>1
    <3>. QED
      BY <1>2, <3>2, <3>3
  <2>. QED
    BY <2>1, <2>3, <2>4
<1>5. ASSUME NEW p \in S PROVE \E k \in 1 .. many : acts[k] = p
  <2>. DEFINE low == {j \in S : j <= p}
              r == Cardinality(low)
  <2>1. r \in 1 .. many
    <3>1. IsFiniteSet(low) /\ r <= many
      BY <1>2, FS_Subset
    <3>2. p \in low
      BY <1>2
    <3>3. r \in Nat /\ r # 0
      <4>. HIDE DEF low
      <4>. QED
        BY <3>1, <3>2, FS_CardinalityType, FS_EmptySet
    <3>. QED
      BY <1>2, <3>1, <3>3
  <2>2. Nth(S, r) = p
    BY <1>2, <2>1, NthIs
  <2>. HIDE DEF r
  <2>3. many + 1 - r \in 1 .. many /\ many + 1 - (many + 1 - r) = r
    BY <1>2, <2>1
  <2>4. acts[many + 1 - r] = Nth(S, r)
    BY <1>1, <2>3
  <2>. QED
    BY <2>2, <2>3, <2>4
<1>6. Len(acts) = many /\ acts \in [1 .. many -> S]
  <2>1. DOMAIN acts = 1 .. many
    BY <1>1
  <2>2. acts = [k \in 1 .. many |-> acts[k]]
    BY <1>1
  <2>3. Len(acts) = many
    BY <1>1, <1>2
  <2>. QED
    BY <1>3, <2>2, <2>3
<1>7. Descends(acts, many, S)
  BY <1>4, <1>5, <1>6 DEF Descends
<1>. QED
  BY <1>2, <1>6, <1>7 DEF acts, S

LEMMA ActivationsAre ==
    ASSUME NEW commands, NEW many \in Nat, NEW a, Activations(commands) \in SUBSET Nat,
           Descends(a, many, Activations(commands))
    PROVE  ActivationsOf(commands) = a /\ Len(a) = many
<1>. DEFINE S == Activations(commands)
<1>1. /\ Cardinality(S) = many
      /\ \A k \in 1 .. many : Nth(S, many + 1 - k) = a[k]
  BY DescendsOnce
<1>2. ActivationsOf(commands) = [k \in 1 .. Cardinality(S) |-> Nth(S, Cardinality(S) + 1 - k)]
  BY DEF ActivationsOf, Activations
<1>3. a = [k \in 1 .. many |-> a[k]]
  BY DEF Descends
<1>. HIDE DEF S
<1>4. ActivationsOf(commands) = a
  BY <1>1, <1>2, <1>3
<1>5. Len(a) = many
  BY <1>3
<1>. QED
  BY <1>4, <1>5

-----------------------------------------------------------------------------
(* The activation on show, and a menu that is in step with a list.         *)

Start(commands, n) ==
    Greatest({1} \cup {i \in 1 .. n : OrderOf(commands[i]) = "activate"})

MenuFits(commands, n, m) ==
    LET acts == ActivationsOf(commands)
    IN  /\ m.offset \in Nat /\ Len(m.shown) \in Nat
        /\ \A i \in 0 .. (Len(m.shown) - 1) :
               /\ i + m.offset < Len(acts)
               /\ m.shown[i + 1] = commands[acts[i + m.offset + 1]]
        /\ m.current \in 0 .. (Len(m.shown) - 1)
        /\ acts[m.current + m.offset + 1] = Start(commands, n)

LEMMA StartFacts ==
    ASSUME NEW commands \in Seq(Command), NEW n \in 1 .. Len(commands),
           1 \in Activations(commands)
    PROVE  LET s == Start(commands, n)
           IN  /\ s \in Activations(commands) /\ s \in 1 .. n
               /\ \A p \in Activations(commands) : p <= n => p <= s
               /\ \A p \in Activations(commands) :
                      p <= n /\ (\A r \in Activations(commands) : r <= n => r <= p) => p = s
<1>. DEFINE S == {1} \cup {i \in 1 .. n : OrderOf(commands[i]) = "activate"}
            s == Start(commands, n)
            A == Activations(commands)
<1>1. Len(commands) \in Nat /\ n \in Nat
  OBVIOUS
<1>2. S = {p \in A : p <= n} /\ A \in SUBSET (1 .. Len(commands))
  BY <1>1 DEF Activations
<1>3. S \in SUBSET (0 .. n) /\ S # {}
  BY <1>1, <1>2
<1>4. s = Greatest(S)
  BY DEF Start
<1>. HIDE DEF S, s
<1>5. s \in S /\ \A p \in S : p <= s
  BY <1>1, <1>3, <1>4, GreatestFacts
<1>. HIDE DEF A
<1>6. s \in A /\ s \in 1 .. n
  BY <1>1, <1>2, <1>5
<1>7. \A p \in A : p <= n => p <= s
  BY <1>2, <1>5
<1>8. ASSUME NEW p \in A, p <= n, \A r \in A : r <= n => r <= p PROVE p = s
  <2>1. s <= p /\ p <= s
    BY <1>6, <1>7, <1>8
  <2>2. p \in Nat /\ s \in Nat
    BY <1>2, <1>6
  <2>. QED
    BY <2>1, <2>2
<1>. QED
  BY <1>6, <1>7, <1>8 DEF s, A

(* A menu stays in step while the activations stay the same, wherever they *)
(* move.                                                                   *)
LEMMA MenuMoves ==
    ASSUME NEW old \in Seq(Command), NEW new \in Seq(Command),
           NEW n \in 1 .. Len(old), NEW k, NEW m, 1 \in Activations(old),
           NEW f \in [Activations(old) -> Activations(new)],
           \A p, q \in Activations(old) : p < q => f[p] < f[q],
           \A r \in Activations(new) : \E p \in Activations(old) : f[p] = r,
           \A p \in Activations(old) : new[f[p]] = old[p],
           Start(new, k) = f[Start(old, n)],
           MenuFits(old, n, m)
    PROVE  MenuFits(new, k, m)
<1>. DEFINE acts == ActivationsOf(old)
            A == Activations(old)
            B == Activations(new)
            many == Len(acts)
            moved == [j \in 1 .. many |-> f[acts[j]]]
<1>1. many \in Nat /\ Descends(acts, many, A)
  BY ActivationsDescend
<1>. HIDE DEF acts, many
<1>2. /\ acts \in [1 .. many -> A]
      /\ \A i, j \in 1 .. many : i < j => acts[j] < acts[i]
      /\ \A p \in A : \E j \in 1 .. many : acts[j] = p
  BY <1>1 DEF Descends
<1>3. Descends(moved, many, B)
  <2>1. moved \in [1 .. many -> B]
    BY <1>2
  <2>2. \A i, j \in 1 .. many : i < j => moved[j] < moved[i]
    BY <1>2
  <2>3. ASSUME NEW r \in B PROVE \E j \in 1 .. many : moved[j] = r
    <3>1. PICK p \in A : f[p] = r
      OBVIOUS
    <3>2. PICK j \in 1 .. many : acts[j] = p
      BY <1>2
    <3>. QED
      BY <3>1, <3>2
  <2>. QED
    BY <2>1, <2>2, <2>3 DEF Descends
<1>4. B \in SUBSET Nat
  BY DEF Activations
<1>5. ActivationsOf(new) = moved /\ Len(moved) = many
  <2>. HIDE DEF moved
  <2>. QED
    BY <1>1, <1>3, <1>4, ActivationsAre
<1>6. /\ m.offset \in Nat /\ Len(m.shown) \in Nat
      /\ \A i \in 0 .. (Len(m.shown) - 1) :
             /\ i + m.offset < many
             /\ m.shown[i + 1] = old[acts[i + m.offset + 1]]
      /\ m.current \in 0 .. (Len(m.shown) - 1)
      /\ acts[m.current + m.offset + 1] = Start(old, n)
  BY DEF MenuFits, acts, many
<1>7. ASSUME NEW i \in 0 .. (Len(m.shown) - 1)
      PROVE  /\ i + m.offset + 1 \in 1 .. many
             /\ m.shown[i + 1] = new[moved[i + m.offset + 1]]
  <2>1. i + m.offset + 1 \in 1 .. many
    <3>1. i \in Nat /\ m.offset \in Nat /\ i + m.offset < many
      BY <1>6
    <3>. QED
      BY <1>1, <3>1
  <2>2. acts[i + m.offset + 1] \in A
    BY <1>2, <2>1
  <2>3. moved[i + m.offset + 1] = f[acts[i + m.offset + 1]]
    BY <2>1
  <2>4. m.shown[i + 1] = old[acts[i + m.offset + 1]]
    BY <1>6
  <2>. QED
    BY <2>1, <2>2, <2>3, <2>4
<1>8. moved[m.current + m.offset + 1] = Start(new, k)
  <2>1. m.current + m.offset + 1 \in 1 .. many
    BY <1>6, <1>7
  <2>. QED
    BY <1>6, <2>1
<1>9. \A i \in 0 .. (Len(m.shown) - 1) : i + m.offset < many
  BY <1>6
<1>. HIDE DEF moved
<1>. QED
  BY <1>5, <1>6, <1>7, <1>8, <1>9 DEF MenuFits

(* A command that is no activation, behind position n, in front of what is *)
(* kept from k on.                                                         *)
LEMMA MenuInsert ==
    ASSUME NEW old \in Seq(Command), NEW new \in Seq(Command),
           NEW n \in 1 .. Len(old), NEW k \in (n + 1) .. (Len(old) + 1), NEW m,
           1 \in Activations(old),
           \A i \in (n + 1) .. (k - 1) : i \notin Activations(old),
           Len(new) = n + 2 + Len(old) - k,
           \A i \in 1 .. n : new[i] = old[i],
           OrderOf(new[n + 1]) # "activate",
           \A i \in k .. Len(old) : new[i - k + n + 2] = old[i]
    PROVE  /\ Start(new, n + 1) = Start(old, n)
           /\ new[Start(new, n + 1)] = old[Start(old, n)]
           /\ MenuFits(old, n, m) => MenuFits(new, n + 1, m)
<1>. DEFINE len == Len(old)
            size == Len(new)
            A == Activations(old)
            B == Activations(new)
            move(p) == IF p <= n THEN p ELSE p - k + n + 2
            f == [p \in A |-> move(p)]
<1>1. len \in Nat /\ size \in Nat /\ n \in 1 .. len /\ k \in (n + 1) .. (len + 1)
      /\ size = n + 2 + len - k
  OBVIOUS
<1>2. A = {i \in 1 .. len : OrderOf(old[i]) = "activate"}
      /\ B = {i \in 1 .. size : OrderOf(new[i]) = "activate"}
  BY DEF Activations
<1>3. /\ \A i \in 1 .. n : new[i] = old[i]
      /\ \A i \in k .. len : new[i - k + n + 2] = old[i]
      /\ \A i \in (n + 1) .. (k - 1) : i \notin A
  OBVIOUS
<1>. HIDE DEF A, B, len, size
<1>4. \A p \in A : p \in 1 .. n \/ p \in k .. len
  BY <1>1, <1>2, <1>3
<1>5. ASSUME NEW p \in A PROVE f[p] \in B /\ new[f[p]] = old[p]
  <2>1. f[p] = move(p) /\ OrderOf(old[p]) = "activate"
    BY <1>2
  <2>2. CASE p \in 1 .. n
    <3>1. move(p) = p /\ p \in 1 .. size
      BY <1>1, <2>2
    <3>2. new[p] = old[p]
      BY <1>3, <2>2
    <3>. QED
      BY <1>2, <2>1, <3>1, <3>2
  <2>3. CASE p \in k .. len
    <3>1. move(p) = p - k + n + 2 /\ move(p) \in 1 .. size
      <4>1. ~(p <= n)
        BY ONLY <1>1, <2>3
      <4>2. p - k + n + 2 \in 1 .. size
        BY ONLY <1>1, <2>3
      <4>. QED
        BY <4>1, <4>2
    <3>. QED
      BY <1>2, <1>3, <2>1, <2>3, <3>1
  <2>. QED
    BY <1>4, <2>2, <2>3
<1>6. ASSUME NEW p \in A, NEW q \in A, p < q PROVE f[p] < f[q]
  <2>1. /\ p \in 1 .. n \/ p \in k .. len
        /\ q \in 1 .. n \/ q \in k .. len
    BY <1>4
  <2>2. move(p) < move(q)
    BY ONLY <1>1, <1>6, <2>1
  <2>3. f[p] = move(p) /\ f[q] = move(q)
    OBVIOUS
  <2>. QED
    BY <2>2, <2>3
<1>7. ASSUME NEW r \in B PROVE \E p \in A : f[p] = r
  <2>1. r \in 1 .. size /\ OrderOf(new[r]) = "activate" /\ r # n + 1
    BY <1>2
  <2>2. CASE r \in 1 .. n
    BY <1>1, <1>2, <1>3, <2>1, <2>2
  <2>3. CASE r \notin 1 .. n
    <3>. DEFINE p == r + k - n - 2
    <3>1. p \in k .. len /\ p - k + n + 2 = r /\ ~(p <= n) /\ p \in 1 .. len
      BY <1>1, <2>1, <2>3
    <3>2. new[r] = old[p]
      BY <1>3, <3>1
    <3>3. p \in A
      BY <1>2, <2>1, <3>1, <3>2
    <3>. QED
      BY <3>1, <3>3
  <2>. QED
    BY <2>2, <2>3
<1>8. f \in [A -> B]
  BY <1>5
<1>. DEFINE s == Start(old, n)
<1>9. s \in A /\ s \in 1 .. n /\ \A p \in A : p <= n => p <= s
  BY StartFacts DEF A
<1>10. f[s] = s
  BY <1>1, <1>9
<1>11. Start(new, n + 1) = s
  <2>. HIDE DEF s, f
  <2>1. s \in B /\ n + 1 \in 1 .. size
    BY <1>1, <1>5, <1>9, <1>10
  <2>2. ASSUME NEW r \in B, r <= n + 1 PROVE r <= s
    <3>1. r \in 1 .. n
      BY <1>1, <1>2, <2>2
    <3>2. r \in A
      BY <1>1, <1>2, <1>3, <3>1
    <3>. QED
      BY <1>9, <3>1, <3>2
  <2>3. 1 \in B
    <3>1. 1 \in A /\ 1 \in 1 .. n
      BY <1>1 DEF A
    <3>. QED
      BY <1>1, <1>2, <1>3, <3>1
  <2>4. s <= n + 1
    BY <1>1, <1>9
  <2>. QED
    BY <2>1, <2>2, <2>3, <2>4, StartFacts DEF B, size
<1>12. new[s] = old[s]
  BY <1>5, <1>9, <1>10
<1>13. ASSUME MenuFits(old, n, m) PROVE MenuFits(new, n + 1, m)
  <2>. HIDE DEF f, s
  <2>1. Start(new, n + 1) = f[Start(old, n)]
    BY <1>10, <1>11 DEF s
  <2>2. /\ old \in Seq(Command) /\ new \in Seq(Command)
        /\ n \in 1 .. Len(old) /\ 1 \in Activations(old)
        /\ f \in [Activations(old) -> Activations(new)]
    BY <1>8 DEF A, B
  <2>3. /\ \A p, q \in Activations(old) : p < q => f[p] < f[q]
        /\ \A r \in Activations(new) : \E p \in Activations(old) : f[p] = r
        /\ \A p \in Activations(old) : new[f[p]] = old[p]
    BY <1>5, <1>6, <1>7 DEF A, B
  <2>. QED
    BY ONLY <1>13, <2>1, <2>2, <2>3, MenuMoves
<1>. QED
  BY <1>11, <1>12, <1>13 DEF s

(* One command for another, neither of them an activation.                 *)
LEMMA MenuReplace ==
    ASSUME NEW old \in Seq(Command), NEW new \in Seq(Command),
           NEW n \in 1 .. Len(old), NEW m, 1 \in Activations(old),
           Len(new) = Len(old), Activations(new) = Activations(old),
           \A i \in Activations(old) : new[i] = old[i]
    PROVE  /\ Start(new, n) = Start(old, n)
           /\ new[Start(new, n)] = old[Start(old, n)]
           /\ MenuFits(old, n, m) => MenuFits(new, n, m)
<1>. DEFINE A == Activations(old)
            s == Start(old, n)
            f == [p \in A |-> p]
<1>1. s \in A /\ s \in 1 .. n /\ \A p \in A : p <= n => p <= s
  BY StartFacts
<1>2. Start(new, n) = s
  <2>. HIDE DEF s
  <2>1. s \in Activations(new) /\ s <= n
    BY <1>1
  <2>2. \A r \in Activations(new) : r <= n => r <= s
    BY <1>1
  <2>. QED
    BY <2>1, <2>2, StartFacts
<1>3. new[s] = old[s]
  BY <1>1
<1>4. ASSUME MenuFits(old, n, m) PROVE MenuFits(new, n, m)
  <2>1. f \in [A -> Activations(new)] /\ \A p \in A : f[p] = p
    OBVIOUS
  <2>2. Start(new, n) = f[Start(old, n)]
    BY <1>1, <1>2
  <2>. HIDE DEF f, s
  <2>3. /\ \A p, q \in A : p < q => f[p] < f[q]
        /\ \A r \in Activations(new) : \E p \in A : f[p] = r
        /\ \A p \in A : new[f[p]] = old[p]
    BY <2>1
  <2>. QED
    BY <1>4, <2>1, <2>2, <2>3, MenuMoves
<1>. QED
  BY <1>2, <1>3, <1>4

-----------------------------------------------------------------------------
(* The scan that makes the history menu: a function of a length, one step  *)
(* after the other.                                                        *)

Present(commands, n) ==
    IF n = 0 THEN -1
    ELSE Cardinality({k \in 1 .. Len(ActivationsOf(commands)) : ActivationsOf(commands)[k] > n})

NothingScanned == [shown |-> <<>>, offset |-> 0, done |-> FALSE]

Scanned(commands, n, prev, k) ==
    LET acts == ActivationsOf(commands)
        current == Present(commands, n)
        command == commands[acts[k]]
        full == Len(prev.shown) = HistorySize
        offset == IF full THEN prev.offset + 1 ELSE prev.offset
        shown == Append(IF full THEN Tail(prev.shown) ELSE prev.shown, command)
    IN  IF prev.done \/ command.value \in Nameless THEN prev ELSE
        [shown |-> shown, offset |-> offset,
         done |-> /\ Len(shown) = HistorySize
                  /\ current # -1 /\ acts[k] <= n
                  /\ current - offset # HistorySize - 1]

Scans(commands, n, many, f) ==
    f = [k \in 0 .. many |->
            IF k = 0 THEN NothingScanned ELSE Scanned(commands, n, f[k - 1], k)]

LEMMA ScansAre ==
    ASSUME NEW commands, NEW n, NEW many \in Nat, NEW f, Scans(commands, n, many, f)
    PROVE  /\ f[0] = NothingScanned
           /\ \A k \in 1 .. many : f[k] = Scanned(commands, n, f[k - 1], k)
<1>1. f[0] = NothingScanned
  BY 0 \in 0 .. many DEF Scans
<1>2. ASSUME NEW k \in 1 .. many PROVE f[k] = Scanned(commands, n, f[k - 1], k)
  BY k \in 0 .. many, k # 0 DEF Scans
<1>. QED
  BY <1>1, <1>2

LEMMA ScansExist ==
    ASSUME NEW commands, NEW n, NEW many \in Nat
    PROVE  \E f : Scans(commands, n, many, f)
<1>. DEFINE S == {m \in Nat : \E f : Scans(commands, n, m, f)}
<1>1. 0 \in S
  <2>1. Scans(commands, n, 0, [k \in 0 .. 0 |-> NothingScanned])
    BY DEF Scans
  <2>. QED
    BY <2>1
<1>2. ASSUME NEW m \in Nat, m \in S PROVE m + 1 \in S
  <2>1. PICK f : Scans(commands, n, m, f)
    BY <1>2
  <2>. DEFINE Body(h, k) == IF k = 0 THEN NothingScanned ELSE Scanned(commands, n, h[k - 1], k)
              g == [k \in 0 .. (m + 1) |-> Body(f, k)]
  <2>2. ASSUME NEW k \in 0 .. m PROVE g[k] = f[k]
    BY <2>1, k \in 0 .. (m + 1) DEF Scans
  <2>3. ASSUME NEW k \in 0 .. (m + 1), k # 0 PROVE g[k - 1] = f[k - 1]
    BY <2>2, <2>3, k - 1 \in 0 .. m
  <2>4. Scans(commands, n, m + 1, g)
    <3>1. \A k \in 0 .. (m + 1) : Body(f, k) = Body(g, k)
      <4>. HIDE DEF g
      <4>. QED
        BY <2>3
    <3>. DEFINE h == [k \in 0 .. (m + 1) |-> Body(g, k)]
    <3>2. g = h
      BY <3>1
    <3>. HIDE DEF g
    <3>. QED
      BY <3>2 DEF Scans
  <2>. QED
    BY <2>4
<1>. HIDE DEF S
<1>3. Nat \subseteq S
  BY <1>1, <1>2, SetInduction
<1>. QED
  BY <1>3 DEF S

LEMMA HistoryScan ==
    ASSUME NEW commands, NEW n, Len(ActivationsOf(commands)) \in Nat
    PROVE  LET many == Len(ActivationsOf(commands))
           IN  \E f : /\ Scans(commands, n, many, f)
                      /\ HistoryOf(commands, n) =
                             [shown |-> f[many].shown,
                              current |-> Present(commands, n) - f[many].offset,
                              offset |-> f[many].offset]
<1>. DEFINE many == Len(ActivationsOf(commands))
            scan == CHOOSE f : f = [k \in 0 .. many |->
                        IF k = 0 THEN NothingScanned ELSE Scanned(commands, n, f[k - 1], k)]
<1>1. Scans(commands, n, many, scan)
  <2>1. \E f : Scans(commands, n, many, f)
    BY ScansExist
  <2>. QED
    BY <2>1 DEF Scans
<1>2. HistoryOf(commands, n) = [shown |-> scan[many].shown,
                               current |-> Present(commands, n) - scan[many].offset,
                               offset |-> scan[many].offset]
  BY DEF HistoryOf, Present, Scanned, NothingScanned
<1>. HIDE DEF scan
<1>. QED
  BY <1>1, <1>2

(* What has been scanned: the menu so far, of the k last activations, and  *)
(* the present one, number c from 0 on, not pushed out of it. The scan     *)
(* ends when that is in the menu and not at its end.                       *)
ScanFits(commands, c, s, k) ==
    LET acts == ActivationsOf(commands)
        size == Len(s.shown)
    IN  /\ s.shown \in Seq(Command) /\ size <= HistorySize
        /\ s.offset \in 0 .. c /\ s.offset + size <= k
        /\ \A i \in 1 .. size : s.shown[i] = commands[acts[s.offset + i]]
        /\ s.done \in BOOLEAN
        /\ IF s.done THEN c < s.offset + size
           ELSE /\ s.offset + size = k
                /\ size = HistorySize /\ c < k => c - s.offset = HistorySize - 1
                /\ size < HistorySize => s.offset = 0

LEMMA ScanStep ==
    ASSUME HistorySize \in Nat, HistorySize >= 2,
           NEW commands \in Seq(Command), NEW n \in Nat \ {0}, NEW c \in Nat,
           NEW k \in 1 .. Len(ActivationsOf(commands)), NEW s,
           Present(commands, n) = c,
           \A j \in 1 .. Len(ActivationsOf(commands)) :
               /\ ActivationsOf(commands)[j] <= n <=> c < j
               /\ commands[ActivationsOf(commands)[j]] \in Command
               /\ commands[ActivationsOf(commands)[j]].value \notin Nameless,
           ScanFits(commands, c, s, k - 1)
    PROVE  ScanFits(commands, c, Scanned(commands, n, s, k), k)
<1>. DEFINE acts == ActivationsOf(commands)
            command == commands[acts[k]]
            size == Len(s.shown)
            next == Scanned(commands, n, s, k)
<1>1. /\ s.shown \in Seq(Command) /\ size \in Nat /\ size <= HistorySize
      /\ s.offset \in 0 .. c /\ s.offset + size <= k - 1
      /\ \A i \in 1 .. size : s.shown[i] = commands[acts[s.offset + i]]
      /\ s.done \in BOOLEAN
      /\ s.done => c < s.offset + size
      /\ ~s.done => /\ s.offset + size = k - 1
                    /\ size = HistorySize /\ c < k - 1 => c - s.offset = HistorySize - 1
                    /\ size < HistorySize => s.offset = 0
  BY DEF ScanFits
<1>2. k \in Nat /\ k >= 1
  BY ActivationsDescend
<1>3. command \in Command /\ command.value \notin Nameless /\ (acts[k] <= n <=> c < k)
  OBVIOUS
<1>4. CASE s.done
  <2>1. next = s
    BY <1>4 DEF Scanned
  <2>. HIDE DEF next, size
  <2>2. s.offset + size <= k
    BY <1>1, <1>2
  <2>3. ScanFits(commands, c, next, k)
    BY <1>1, <1>4, <2>1, <2>2 DEF ScanFits, size
  <2>. QED
    BY <2>3 DEF next
<1>5. CASE ~s.done
  <2>1. PICK rest, start :
            /\ IF size = HistorySize THEN rest = Tail(s.shown) /\ start = s.offset + 1
               ELSE rest = s.shown /\ start = s.offset
            /\ next = [shown |-> Append(rest, command), offset |-> start,
                       done |-> /\ Len(Append(rest, command)) = HistorySize
                                /\ c # -1 /\ acts[k] <= n
                                /\ c - start # HistorySize - 1]
    <3>1. CASE size = HistorySize
      BY <1>3, <1>5, <3>1 DEF Scanned
    <3>2. CASE size # HistorySize
      BY <1>3, <1>5, <3>2 DEF Scanned
    <3>. QED
      BY <3>1, <3>2
  <2>. HIDE DEF next, size, command, acts
  <2>2. /\ s.offset \in Nat /\ s.offset <= c /\ s.offset + size = k - 1
        /\ size \in Nat /\ size <= HistorySize
        /\ size = HistorySize /\ c < k - 1 => c - s.offset = HistorySize - 1
        /\ size < HistorySize => s.offset = 0
    BY <1>1, <1>5
  <2>3. /\ rest \in Seq(Command) /\ start \in 0 .. c /\ start + Len(rest) + 1 = k
        /\ Len(rest) + 1 <= HistorySize /\ Len(rest) \in Nat
        /\ Len(rest) + 1 < HistorySize => start = 0
        /\ \A i \in 1 .. Len(rest) : rest[i] = commands[acts[start + i]]
    <3>1. CASE size = HistorySize
      <4>1. PICK o \in Nat : s.offset = o /\ start = o + 1
        BY <2>1, <2>2, <3>1
      <4>2. size \in Nat /\ size >= 2 /\ o + size = k - 1 /\ o <= c
            /\ (c < k - 1 => c - o = size - 1)
        BY <2>2, <3>1, <4>1
      <4>3. rest = Tail(s.shown) /\ s.shown # <<>>
        BY <1>1, <2>1, <3>1 DEF size
      <4>4. /\ rest \in Seq(Command) /\ Len(rest) = size - 1
            /\ \A i \in 1 .. (size - 1) : rest[i] = s.shown[i + 1]
        BY <1>1, <4>3 DEF size
      <4>5. ASSUME NEW i \in 1 .. (size - 1) PROVE rest[i] = commands[acts[start + i]]
        <5>1. i + 1 \in 1 .. size /\ o + (i + 1) = start + i
          BY <4>1, <4>2
        <5>. QED
          BY <1>1, <4>1, <4>4, <5>1
      <4>6. start \in 0 .. c /\ start + (size - 1) + 1 = k
        BY <1>2, <4>1, <4>2
      <4>. QED
        BY <2>2, <3>1, <4>4, <4>5, <4>6
    <3>2. CASE size # HistorySize
      <4>1. rest = s.shown /\ start = s.offset
        BY <2>1, <3>2
      <4>2. size < HistorySize /\ start \in 0 .. c /\ start + size + 1 = k
        BY <1>2, <2>2, <3>2, <4>1
      <4>3. /\ rest \in Seq(Command) /\ Len(rest) = size
            /\ \A i \in 1 .. size : rest[i] = commands[acts[start + i]]
        BY <1>1, <4>1 DEF size
      <4>4. /\ size + 1 <= HistorySize
            /\ size + 1 < HistorySize => start = 0
        BY <2>2, <4>1, <4>2
      <4>. QED
        BY <2>2, <4>2, <4>3, <4>4
    <3>. QED
      BY <3>1, <3>2
  <2>. DEFINE shown == Append(rest, command)
              more == Len(rest) + 1
  <2>4. /\ shown \in Seq(Command) /\ Len(shown) = more /\ shown[more] = command
        /\ \A i \in 1 .. Len(rest) : shown[i] = rest[i]
    BY <1>3, <2>3, AppendFacts
  <2>5. next.shown = shown /\ next.offset = start
        /\ next.done = (/\ Len(shown) = HistorySize /\ c # -1 /\ acts[k] <= n
                        /\ c - start # HistorySize - 1)
    BY <2>1
  <2>. HIDE DEF shown
  <2>6. ASSUME NEW i \in 1 .. more PROVE shown[i] = commands[acts[start + i]]
    <3>1. CASE i \in 1 .. Len(rest)
      BY <2>3, <2>4, <3>1
    <3>2. CASE i \notin 1 .. Len(rest)
      <4>1. i = more /\ start + i = k
        BY <1>2, <2>3, <3>2
      <4>. QED
        BY <2>4, <4>1 DEF command
    <3>. QED
      BY <3>1, <3>2
  <2>7. more \in Nat /\ more <= HistorySize /\ start + more = k
        /\ (more < HistorySize => start = 0)
    BY <1>2, <2>3
  <2>. HIDE DEF more
  <2>8. next.done \in BOOLEAN
        /\ (next.done <=> more = HistorySize /\ c < k /\ c - start # HistorySize - 1)
    BY <1>3, <2>4, <2>5
  <2>9. next.done => c < start + more
    BY <2>7, <2>8
  <2>10. /\ next.shown \in Seq(Command) /\ Len(next.shown) = more
         /\ \A i \in 1 .. more : next.shown[i] = commands[acts[next.offset + i]]
    BY <2>4, <2>5, <2>6
  <2>11. /\ next.offset \in 0 .. c /\ next.offset + more = k
         /\ more < HistorySize => next.offset = 0
         /\ next.done => c < next.offset + more
         /\ ~next.done /\ more = HistorySize /\ c < k => c - next.offset = HistorySize - 1
    BY <2>3, <2>5, <2>7, <2>8, <2>9
  <2>12. next.offset + more <= k
    BY <1>2, <2>11
  <2>13. ScanFits(commands, c, next, k)
    BY <2>7, <2>8, <2>10, <2>11, <2>12 DEF ScanFits, acts
  <2>. QED
    BY <2>13 DEF next
<1>. QED
  BY <1>1, <1>4, <1>5 DEF next

(* The menu made of a list with a position in it is in step with it.       *)
LEMMA HistoryFitsList ==
    ASSUME HistorySize \in Nat, HistorySize >= 2,
           NEW commands \in Seq(Command), NEW n \in 1 .. Len(commands),
           1 \in Activations(commands),
           \A p \in Activations(commands) : commands[p].value \notin Nameless
    PROVE  MenuFits(commands, n, HistoryOf(commands, n))
<1>. DEFINE acts == ActivationsOf(commands)
            many == Len(acts)
            A == Activations(commands)
            s == Start(commands, n)
<1>1. /\ many \in Nat
      /\ acts \in [1 .. many -> A]
      /\ \A i, j \in 1 .. many : i < j => acts[j] < acts[i]
      /\ \A p \in A : \E k \in 1 .. many : acts[k] = p
  BY ActivationsDescend DEF Descends
<1>2. s \in A /\ s \in 1 .. n /\ \A p \in A : p <= n => p <= s
  BY StartFacts
<1>3. PICK k0 \in 1 .. many : acts[k0] = s
  BY <1>1, <1>2
<1>4. A \in SUBSET Nat /\ \A p \in A : commands[p] \in Command /\ commands[p].value \notin Nameless
  BY DEF Activations
<1>5. n \in Nat \ {0}
  OBVIOUS
<1>. DEFINE c == k0 - 1
<1>. HIDE DEF A, s, acts, many
<1>6. c \in Nat /\ c < many
  BY <1>1, <1>3
<1>7. ASSUME NEW j \in 1 .. many PROVE acts[j] <= n <=> c < j
  <2>0. acts[j] \in A /\ s \in A /\ j \in Nat /\ k0 \in Nat
    BY <1>1, <1>2, <1>3
  <2>1. acts[j] \in A /\ acts[j] \in Nat /\ s \in Nat /\ j \in Nat /\ k0 \in Nat
    BY <1>4, <2>0
  <2>2. CASE j < k0
    <3>1. s < acts[j]
      BY <1>1, <1>3, <2>2
    <3>. QED
      BY <1>2, <1>5, <2>1, <2>2, <3>1
  <2>3. CASE ~(j < k0)
    <3>1. j = k0 \/ k0 < j
      BY <2>1, <2>3
    <3>2. acts[j] <= s
      BY <1>1, <1>3, <2>1, <3>1
    <3>. QED
      BY <1>2, <1>5, <2>1, <2>3, <3>2
  <2>. QED
    BY <2>2, <2>3
<1>8. Present(commands, n) = c
  <2>1. {k \in 1 .. many : acts[k] > n} = 1 .. c
    <3>1. ASSUME NEW k \in 1 .. many PROVE acts[k] > n <=> k <= c
      <4>1. acts[k] \in A
        BY <1>1
      <4>2. acts[k] \in Nat /\ (acts[k] <= n <=> c < k)
        BY <1>4, <1>7, <4>1
      <4>. QED
        BY <1>5, <1>6, <4>2
    <3>2. \A k \in 1 .. c : k \in 1 .. many
      BY <1>1, <1>6
    <3>3. \A k \in 1 .. many : k <= c <=> k \in 1 .. c
      BY <1>6
    <3>. QED
      BY <3>1, <3>2, <3>3
  <2>2. Cardinality(1 .. c) = c
    BY <1>6, FS_Interval
  <2>. QED
    BY <1>5, <2>1, <2>2 DEF Present, acts, many
<1>. HIDE DEF c
<1>9. PICK f : /\ Scans(commands, n, many, f)
               /\ HistoryOf(commands, n) = [shown |-> f[many].shown,
                                            current |-> c - f[many].offset,
                                            offset |-> f[many].offset]
  BY <1>1, <1>8, HistoryScan DEF acts, many
<1>10. /\ f[0] = NothingScanned
       /\ \A k \in 1 .. many : f[k] = Scanned(commands, n, f[k - 1], k)
  <2>1. Scans(commands, n, many, f)
    BY <1>9
  <2>2. many \in Nat
    BY <1>1
  <2>. QED
    <3>. HIDE DEF many
    <3>1. f[0] = NothingScanned
      BY <2>1, <2>2, ScansAre
    <3>2. \A k \in 1 .. many : f[k] = Scanned(commands, n, f[k - 1], k)
      BY <2>1, <2>2, ScansAre
    <3>. QED
      BY <3>1, <3>2
<1>11. ScanFits(commands, c, f[many], many)
  <2>. DEFINE S == {k \in Nat : k <= many => ScanFits(commands, c, f[k], k)}
  <2>1. 0 \in S
    <3>1. NothingScanned.shown = <<>> /\ NothingScanned.offset = 0 /\ NothingScanned.done = FALSE
      BY DEF NothingScanned
    <3>2. Len(NothingScanned.shown) = 0 /\ NothingScanned.shown \in Seq(Command)
      BY <3>1
    <3>. DEFINE s0 == NothingScanned
                size0 == Len(s0.shown)
    <3>. HIDE DEF s0
    <3>3. /\ s0.shown \in Seq(Command) /\ size0 = 0 /\ s0.offset = 0 /\ s0.done = FALSE
      BY <3>1, <3>2 DEF s0
    <3>4. /\ s0.offset \in 0 .. c /\ s0.offset + size0 = 0 /\ size0 <= HistorySize
          /\ \A i \in 1 .. size0 : s0.shown[i] = commands[acts[s0.offset + i]]
      BY <1>6, <3>3
    <3>5. ~(c < 0) /\ s0.offset + size0 <= 0
      BY <1>6, <3>3
    <3>6. ScanFits(commands, c, NothingScanned, 0)
      <4>1. ScanFits(commands, c, s0, 0)
        BY <3>3, <3>4, <3>5 DEF ScanFits, acts
      <4>. QED
        BY <4>1 DEF s0
    <3>. QED
      BY <1>10, <3>6
  <2>2. ASSUME NEW k \in Nat, k \in S PROVE k + 1 \in S
    <3>1. SUFFICES ASSUME k + 1 <= many PROVE ScanFits(commands, c, f[k + 1], k + 1)
      BY <2>2
    <3>2. k + 1 \in 1 .. many /\ (k + 1) - 1 = k /\ ScanFits(commands, c, f[k], k)
      BY <1>1, <2>2, <3>1
    <3>3. f[k + 1] = Scanned(commands, n, f[k], k + 1)
      BY <1>10, <3>2
    <3>4. \A j \in 1 .. many : /\ acts[j] <= n <=> c < j
                               /\ commands[acts[j]] \in Command
                               /\ commands[acts[j]].value \notin Nameless
      BY <1>1, <1>4, <1>7
    <3>5. ScanFits(commands, c, Scanned(commands, n, f[k], k + 1), k + 1)
      BY <1>5, <1>6, <1>8, <3>2, <3>4, ScanStep DEF acts, many
    <3>. QED
      BY <3>3, <3>5
  <2>. HIDE DEF S
  <2>3. Nat \subseteq S
    BY <2>1, <2>2, SetInduction
  <2>. QED
    BY <1>1, <2>3 DEF S
<1>. DEFINE last == f[many]
            size == Len(last.shown)
<1>12. /\ size \in Nat /\ last.offset \in Nat /\ last.offset <= c
       /\ last.offset + size <= many /\ c < last.offset + size
       /\ \A i \in 1 .. size : last.shown[i] = commands[acts[last.offset + i]]
  <2>. HIDE DEF last
  <2>1. ScanFits(commands, c, last, many)
    BY <1>11 DEF last
  <2>2. size \in Nat /\ last.offset \in 0 .. c /\ last.offset + size <= many
    BY <2>1 DEF ScanFits
  <2>3. last.done => c < last.offset + size
    BY <2>1 DEF ScanFits
  <2>4. ~last.done => last.offset + size = many
    BY <2>1 DEF ScanFits
  <2>5. last.done \in BOOLEAN /\ \A i \in 1 .. size : last.shown[i] = commands[acts[last.offset + i]]
    BY <2>1 DEF ScanFits, acts
  <2>. QED
    BY <1>6, <2>2, <2>3, <2>4, <2>5
<1>. DEFINE m == HistoryOf(commands, n)
<1>13. m.shown = last.shown /\ m.current = c - last.offset /\ m.offset = last.offset
  BY <1>9
<1>. HIDE DEF last, size, m
<1>14. ASSUME NEW i \in 0 .. (size - 1)
       PROVE  i + m.offset < many /\ m.shown[i + 1] = commands[acts[i + m.offset + 1]]
  <2>1. i + 1 \in 1 .. size /\ last.offset + (i + 1) = i + m.offset + 1 /\ i + m.offset < many
    BY <1>1, <1>12, <1>13
  <2>. QED
    BY <1>12, <1>13, <2>1
<1>15. m.current \in 0 .. (size - 1) /\ m.current + m.offset + 1 = k0
  BY <1>3, <1>6, <1>12, <1>13 DEF c
<1>16. MenuFits(commands, n, m)
  BY <1>3, <1>12, <1>13, <1>14, <1>15 DEF MenuFits, size, acts, many, s
<1>. QED
  BY <1>16 DEF m

-----------------------------------------------------------------------------
(* An activation that has an entry in the menu, and keeps it when indexing *)
(* ends.                                                                   *)
Listed(c) ==
    OrderOf(c) = "activate" => c.kind # "bundledEdges" /\ c.value \notin Nameless

AllListed ==
    /\ \A i \in 1 .. Len(list) : Listed(list[i])
    /\ \A item \in Range(queue) : item.do = "command" => Listed(item.command)

(* A message that will renew the menu, when a command of this kind is the  *)
(* activation on show: the overview that takes the place of the errors is  *)
(* not equal to them.                                                      *)
Renews(item, kind) ==
    \/ item.do = "replay" /\ RenewsMenu(item.commands)
    \/ item = [do |-> "command", command |-> Overview] /\ kind = "errors"

(* The end of indexing moves the position to the last activation. If that  *)
(* is not the only one, the menu is renewed by what refreshes the          *)
(* interface.                                                              *)
MenuPending ==
    /\ Start(list, at) > 1
    /\ owed \/ \E item \in Range(queue) : Renews(item, list[Start(list, at)].kind)

MenuInv == AllListed /\ (list # <<>> => MenuFits(list, at, menu) \/ MenuPending)

-----------------------------------------------------------------------------
(* What is under way, before and after a message is handled or sent.       *)

LEMMA SentFacts ==
    ASSUME NEW S, NEW q \in Seq(S), NEW x \in S
    PROVE  Range(Append(q, x)) = Range(q) \cup {x}
<1>. DEFINE r == Append(q, x)
            n == Len(q)
<1>1. /\ n \in Nat /\ DOMAIN q = 1 .. n /\ DOMAIN r = 1 .. (n + 1)
      /\ r[n + 1] = x /\ \A i \in 1 .. n : r[i] = q[i]
  OBVIOUS
<1>. HIDE DEF r, n
<1>2. \A y \in Range(r) : y \in Range(q) \cup {x}
  <2>. TAKE y \in Range(r)
  <2>1. PICK i \in 1 .. (n + 1) : r[i] = y
    BY <1>1 DEF Range
  <2>2. i \in 1 .. n \/ i = n + 1
    BY <1>1
  <2>. QED
    BY <1>1, <2>1, <2>2 DEF Range
<1>3. \A y \in Range(q) : y \in Range(r)
  <2>. TAKE y \in Range(q)
  <2>1. PICK i \in 1 .. n : q[i] = y
    BY <1>1 DEF Range
  <2>2. i \in 1 .. (n + 1) /\ r[i] = y
    BY <1>1, <2>1
  <2>. QED
    BY <1>1, <2>2 DEF Range
<1>4. x \in Range(r)
  <2>1. n + 1 \in 1 .. (n + 1)
    BY <1>1
  <2>. QED
    BY <1>1, <2>1 DEF Range
<1>. QED
  BY <1>2, <1>3, <1>4 DEF r

LEMMA HandledFacts ==
    ASSUME NEW S, NEW q \in Seq(S), q # <<>>
    PROVE  /\ Tail(q) \in Seq(S) /\ Head(q) \in S
           /\ Range(q) = {Head(q)} \cup Range(Tail(q))
<1>. DEFINE r == Tail(q)
            n == Len(q)
<1>1. /\ n \in Nat /\ n >= 1 /\ DOMAIN q = 1 .. n /\ DOMAIN r = 1 .. (n - 1)
      /\ Head(q) = q[1] /\ \A i \in 1 .. (n - 1) : r[i] = q[i + 1]
  OBVIOUS
<1>2. r \in Seq(S) /\ Head(q) \in S
  OBVIOUS
<1>. HIDE DEF r, n
<1>3. \A y \in Range(q) : y \in {Head(q)} \cup Range(r)
  <2>. TAKE y \in Range(q)
  <2>1. PICK i \in 1 .. n : q[i] = y
    BY <1>1 DEF Range
  <2>2. CASE i = 1
    BY <1>1, <2>1, <2>2
  <2>3. CASE i # 1
    <3>1. i - 1 \in 1 .. (n - 1) /\ (i - 1) + 1 = i
      BY <1>1, <2>3
    <3>2. r[i - 1] = y
      BY <1>1, <2>1, <3>1
    <3>. QED
      BY <1>1, <3>1, <3>2 DEF Range
  <2>. QED
    BY <2>2, <2>3
<1>4. \A y \in Range(r) : y \in Range(q)
  <2>. TAKE y \in Range(r)
  <2>1. PICK i \in 1 .. (n - 1) : r[i] = y
    BY <1>1 DEF Range
  <2>2. i + 1 \in 1 .. n /\ q[i + 1] = y
    BY <1>1, <2>1
  <2>. QED
    BY <1>1, <2>2 DEF Range
<1>5. Head(q) \in Range(q)
  <2>1. 1 \in 1 .. n
    BY <1>1
  <2>. QED
    BY <1>1, <2>1 DEF Range
<1>. QED
  BY <1>2, <1>3, <1>4, <1>5 DEF r

-----------------------------------------------------------------------------
(* What the table says of activations.                                     *)
LEMMA ActivationFacts ==
    ASSUME NEW c \in Command
    PROVE  /\ OrderOf(c) = "activate" => ~ReplayLastOnly(c) /\ Same(c) # "update"
           /\ c.kind = "overview" => OrderOf(c) = "activate"
<1>1. ASSUME NEW k \in DOMAIN MessageTable
      PROVE  /\ MessageTable[k].order = "activate" =>
                    ~MessageTable[k].replayLastOnly /\ MessageTable[k].same # "update"
             /\ k = "overview" => MessageTable[k].order = "activate"
  BY <1>1 DEF MessageTable, Row
<1>2. c.kind \in DOMAIN MessageTable
  BY DEF Command
<1>. QED
  BY <1>1, <1>2 DEF OrderOf, ReplayLastOnly, Same

(* A command of its own, and all that is kept around it.                   *)
LEMMA NewListAll ==
    ASSUME WalksInv, NEW c \in Command, Accepted(c)
    PROVE  LET k == KeptFrom(c)
               new == SubSeq(list, 1, at) \o <<c>> \o SubSeq(list, k, Len(list))
           IN  /\ k \in (at + 1) .. (Len(list) + 1)
               /\ new \in Seq(Command) /\ Len(new) = at + 2 + Len(list) - k
               /\ \A i \in 1 .. at : new[i] = list[i]
               /\ new[at + 1] = c
               /\ \A i \in k .. Len(list) : new[i - k + at + 2] = list[i]
<1>. DEFINE k == KeptFrom(c)
            len == Len(list)
            before == SubSeq(list, 1, at)
            behind == SubSeq(list, k, len)
            head == before \o <<c>>
            new == head \o behind
<1>1. len \in Nat /\ at \in 0 .. len /\ list \in Seq(Command)
  BY DEF WalksInv, HistoryFits
<1>2. /\ k \in (at + 1) .. (len + 1)
      /\ new \in Seq(Command) /\ Len(new) = at + 2 + len - k
      /\ \A i \in 1 .. at : new[i] = list[i]
      /\ new[at + 1] = c
  BY NewListFacts
<1>. HIDE DEF k, len
<1>3. before \in Seq(Command) /\ Len(before) = at
  BY <1>1 DEF len
<1>4. /\ behind \in Seq(Command) /\ Len(behind) = len + 1 - k
      /\ \A j \in 1 .. (len + 1 - k) : behind[j] = list[k + j - 1]
  BY <1>1, <1>2 DEF len
<1>. HIDE DEF before, behind
<1>5. head \in Seq(Command) /\ Len(head) = at + 1
  BY <1>1, <1>3
<1>. HIDE DEF head
<1>6. ASSUME NEW i \in k .. len PROVE new[i - k + at + 2] = list[i]
  <2>. DEFINE j == i + 1 - k
  <2>1. /\ j \in 1 .. (len + 1 - k) /\ k + j - 1 = i
        /\ at + 1 + j = i - k + at + 2
    BY <1>1, <1>2
  <2>2. new[Len(head) + j] = behind[j]
    BY <1>4, <1>5, <2>1, ConcatFacts
  <2>. QED
    BY <1>4, <1>5, <2>1, <2>2
<1>. QED
  BY <1>2, <1>6 DEF new, head, before, behind, k, len

(* There is no activation in what a command that is none takes away.       *)
LEMMA NoneTaken ==
    ASSUME WalksInv, NEW c \in Command, OrderOf(c) # "activate",
           NEW i \in (at + 1) .. (KeptFrom(c) - 1)
    PROVE  i \notin Activations(list)
<1>. DEFINE len == Len(list)
            S == {j \in (at + 1) .. len : IsActivation(j)} \cup {len + 1}
<1>1. len \in Nat /\ at \in 0 .. len
  BY DEF WalksInv, HistoryFits
<1>2. OrderOf(c) \in {"adapt", "view"}
  BY CommandFacts
<1>3. CASE OrderOf(c) = "view"
  BY <1>1, <1>3 DEF KeptFrom
<1>4. CASE OrderOf(c) = "adapt"
  <2>1. KeptFrom(c) = Least(S)
    BY <1>4 DEF KeptFrom, NextActivation
  <2>2. S \in SUBSET Nat /\ S # {}
    BY <1>1
  <2>3. Least(S) \in Nat /\ \A j \in S : Least(S) <= j
    BY <2>2, LeastFacts
  <2>4. i \in Nat /\ i >= at + 1 /\ i < Least(S)
    BY <1>1, <2>1, <2>3
  <2>5. i \notin S
    BY <2>3, <2>4
  <2>. QED
    BY <1>1, <2>4, <2>5 DEF Activations, IsActivation
<1>. QED
  BY <1>2, <1>3, <1>4

LEMMA NthOnto ==
    ASSUME NEW S \in SUBSET Nat, IsFiniteSet(S), NEW p \in S
    PROVE  \E k \in 1 .. Cardinality(S) : Nth(S, k) = p
<1>. DEFINE low == {j \in S : j <= p}
            r == Cardinality(low)
<1>1. IsFiniteSet(low) /\ r <= Cardinality(S) /\ Cardinality(S) \in Nat
  BY FS_Subset, FS_CardinalityType
<1>2. p \in low
  OBVIOUS
<1>3. r \in Nat /\ r # 0
  <2>. HIDE DEF low
  <2>. QED
    BY <1>1, <1>2, FS_CardinalityType, FS_EmptySet
<1>4. r \in 1 .. Cardinality(S)
  BY <1>1, <1>3
<1>5. Nth(S, r) = p
  BY <1>4, NthIs
<1>. QED
  BY <1>4, <1>5

(* To send again from the activation on show renews the menu.              *)
LEMMA ReplayRenews ==
    ASSUME HistoryFits, NEW start \in 1 .. at, start \in Activations(list)
    PROVE  RenewsMenu(Replayed(start, at))
<1>. DEFINE Again(i) == ~ \E j \in (i + 1)..at : TypeOf(list[j]) = TypeOf(list[i])
            S == {i \in start .. at : ~ReplayLastOnly(list[i]) \/ Again(i)}
<1>1. list \in Seq(Command) /\ at \in 0 .. Len(list) /\ Len(list) \in Nat
  BY DEF HistoryFits
<1>2. list[start] \in Command /\ OrderOf(list[start]) = "activate"
  BY <1>1 DEF Activations
<1>3. ~ReplayLastOnly(list[start])
  BY <1>2, ActivationFacts
<1>4. start \in S /\ S \in SUBSET (1 .. Len(list))
  BY <1>1, <1>3
<1>5. Replayed(start, at) = Chosen(list, S)
  BY DEF Replayed
<1>. HIDE DEF S
<1>6. IsFiniteSet(S) /\ Cardinality(S) \in Nat /\ S \in SUBSET Nat
  BY <1>4, PositionsFinite
<1>7. PICK k \in 1 .. Cardinality(S) : Nth(S, k) = start
  BY <1>4, <1>6, NthOnto
<1>8. Chosen(list, S)[k] = list[start] /\ Len(Chosen(list, S)) = Cardinality(S)
  BY <1>6, <1>7 DEF Chosen
<1>. QED
  BY <1>2, <1>5, <1>7, <1>8 DEF RenewsMenu

-----------------------------------------------------------------------------
(* What a step does to the menu.                                           *)

MenuState == list # <<>> => MenuFits(list, at, menu) \/ MenuPending

LEMMA ListShape ==
    ASSUME WalksInv, list # <<>>
    PROVE  /\ list \in Seq(Command) /\ Len(list) \in Nat /\ at \in 1 .. Len(list)
           /\ 1 \in Activations(list)
           /\ Start(list, at) \in Activations(list) /\ Start(list, at) \in 1 .. at
           /\ ReplayStart(at) = Start(list, at)
           /\ at \in Activations(list) => Start(list, at) = at
<1>1. list \in Seq(Command) /\ Len(list) \in Nat /\ at \in 1 .. Len(list)
  BY DEF WalksInv, HistoryFits, WalksStayInside
<1>2. 1 \in Activations(list)
  BY <1>1 DEF WalksInv, WalksStayInside, IsActivation, Activations
<1>3. Start(list, at) \in Activations(list) /\ Start(list, at) \in 1 .. at
  BY <1>1, <1>2, StartFacts
<1>4. at \in Activations(list) => Start(list, at) = at
  BY <1>1, <1>2, StartFacts
<1>5. ReplayStart(at) = Start(list, at)
  BY DEF ReplayStart, Start, IsActivation
<1>. QED
  BY <1>1, <1>2, <1>3, <1>4, <1>5

LEMMA MenuRenewed ==
    ASSUME HistorySize >= 2, WalksNext, AllListed', menu' = HistoryOf(list', at')
    PROVE  MenuState'
<1>1. SUFFICES ASSUME list' # <<>> PROVE MenuFits(list', at', menu')
  BY DEF MenuState
<1>2. list' \in Seq(Command) /\ at' \in 1 .. Len(list')
  BY <1>1 DEF WalksNext, WalksStayInside
<1>3. 1 \in Activations(list')
  BY <1>1, <1>2 DEF WalksNext, WalksStayInside, IsActivation, Activations
<1>4. \A p \in Activations(list') : list'[p].value \notin Nameless
  BY DEF AllListed, Listed, Activations
<1>5. HistorySize \in Nat
  BY UndoAssumption DEF UndoAssumption
<1>. QED
  BY <1>2, <1>3, <1>4, <1>5, HistoryFitsList

(* The activation on show and the menu stay, and so does what is to renew  *)
(* it.                                                                     *)
LEMMA MenuStays ==
    ASSUME MenuState, list # <<>>, WalksInv,
           MenuFits(list, at, menu) => MenuFits(list', at', menu'),
           Start(list', at') = Start(list, at),
           list'[Start(list', at')] = list[Start(list, at)],
           Start(list, at) > 1 /\ owed =>
               owed' \/ \E item \in Range(queue') : Renews(item, list[Start(list, at)].kind),
           \A item \in Range(queue) :
               Renews(item, list[Start(list, at)].kind) => item \in Range(queue')
    PROVE  MenuState'
<1>1. CASE MenuFits(list, at, menu)
  BY <1>1 DEF MenuState
<1>2. CASE MenuPending
  <2>1. Start(list, at) > 1
    BY <1>2 DEF MenuPending
  <2>2. owed' \/ \E item \in Range(queue') : Renews(item, list[Start(list, at)].kind)
    BY <1>2, <2>1 DEF MenuPending
  <2>3. MenuPending'
    BY <2>1, <2>2 DEF MenuPending
  <2>. QED
    BY <2>3 DEF MenuState
<1>. QED
  BY <1>1, <1>2 DEF MenuState

LEMMA MenuUntouched ==
    ASSUME MenuState, WalksInv, UNCHANGED <<list, at, menu>>, owed => owed',
           list # <<>> => \A item \in Range(queue) :
               Renews(item, list[Start(list, at)].kind) => item \in Range(queue')
    PROVE  MenuState'
<1>1. CASE list = <<>>
  BY <1>1 DEF MenuState
<1>2. CASE list # <<>>
  BY <1>2, MenuStays
<1>. QED
  BY <1>1, <1>2

-----------------------------------------------------------------------------
LEMMA MenuCommand ==
    ASSUME HistorySize >= 2, WalksInv, QueueFits, MenuState, AllListed',
           queue # <<>>, HandleCommand(Head(queue))
    PROVE  MenuState'
<1>. DEFINE c == Head(queue).command
            kind == list[Start(list, at)].kind
<1>1. /\ Head(queue) \in QueueItems /\ Head(queue).do = "command" /\ c \in Command
      /\ queue' = Tail(queue) /\ owed' = owed
  <2>1. Head(queue) \in QueueItems
    BY HandledFacts DEF QueueFits
  <2>2. Head(queue).do = "command"
    BY DEF HandleCommand
  <2>. QED
    BY <2>1, <2>2 DEF HandleCommand, QueueItems
<1>2. \A item \in Range(queue) : item = Head(queue) \/ item \in Range(queue')
  BY <1>1, HandledFacts DEF QueueFits
<1>3. WalksNext
  BY <1>1, CommandKeeps
<1>4. Renews(Head(queue), kind) => c = Overview /\ kind = "errors"
  BY <1>1 DEF Renews
<1>5. Overview \in Command /\ OrderOf(Overview) = "activate" /\ Same(Overview) # "update"
  BY OverviewFacts, ActivationFacts
<1>6. CASE Same(c) = "skip" /\ EqualToLast(c) /\ UNCHANGED <<list, at, menu>>
  <2>1. ASSUME list # <<>>, c = Overview PROVE kind # "errors"
    <3>1. list[at].kind = "overview"
      BY <1>6, <2>1 DEF EqualToLast, Overview
    <3>2. at \in 1 .. Len(list) /\ list[at] \in Command
      BY <2>1, ListShape
    <3>3. at \in Activations(list)
      BY <3>1, <3>2, ActivationFacts DEF Activations
    <3>4. Start(list, at) = at
      BY <2>1, <3>3, ListShape
    <3>. QED
      BY <3>1, <3>4
  <2>2. list # <<>> => ~Renews(Head(queue), kind)
    BY <1>4, <2>1
  <2>. HIDE DEF c
  <2>3. list # <<>> => \A item \in Range(queue) : Renews(item, kind) => item \in Range(queue')
    BY <1>2, <2>2
  <2>. QED
    BY <1>1, <1>6, <2>3, MenuUntouched
<1>7. CASE /\ Same(c) = "update" /\ SameType(c)
           /\ list' = [list EXCEPT ![at] = c]
           /\ UNCHANGED <<at, menu>>
  <2>1. list # <<>>
    BY <1>7 DEF SameType, WalksInv, HistoryFits
  <2>2. list \in Seq(Command) /\ at \in 1 .. Len(list) /\ 1 \in Activations(list) /\ list[at] \in Command
    BY <2>1, ListShape
  <2>3. OrderOf(list[at]) = OrderOf(c) /\ OrderOf(c) # "activate"
    BY <1>1, <1>7, <2>2, CommandFacts, ActivationFacts DEF SameType
  <2>4. /\ list' \in Seq(Command) /\ Len(list') = Len(list)
        /\ \A i \in 1 .. Len(list) : list'[i] = IF i = at THEN c ELSE list[i]
    <3>. DEFINE len == Len(list)
    <3>1. len \in Nat /\ list \in [1 .. len -> Command] /\ at \in 1 .. len
      BY <2>2
    <3>. HIDE DEF len
    <3>2. /\ list' \in [1 .. len -> Command]
          /\ \A i \in 1 .. len : list'[i] = IF i = at THEN c ELSE list[i]
      BY <1>1, <1>7, <3>1
    <3>3. list' \in Seq(Command) /\ Len(list') = len
      BY <3>1, <3>2
    <3>. QED
      BY <3>2, <3>3 DEF len
  <2>. HIDE DEF c
  <2>5. Activations(list') = Activations(list)
    BY <2>3, <2>4 DEF Activations
  <2>6. \A i \in Activations(list) : list'[i] = list[i]
    BY <2>3, <2>4 DEF Activations
  <2>7. /\ Start(list', at) = Start(list, at)
        /\ list'[Start(list', at)] = list[Start(list, at)]
        /\ MenuFits(list, at, menu) => MenuFits(list', at, menu)
    BY <2>2, <2>4, <2>5, <2>6, MenuReplace
  <2>8. ~Renews(Head(queue), kind)
    BY <1>4, <1>5, <1>7
  <2>9. \A item \in Range(queue) : Renews(item, kind) => item \in Range(queue')
    BY <1>2, <2>8
  <2>. QED
    BY <1>1, <1>7, <2>1, <2>7, <2>9, MenuStays
<1>8. CASE ProcessCommand(c)
  <2>1. CASE ~Accepted(c)
    <3>1. UNCHANGED list
      BY <1>8, <2>1 DEF ProcessCommand
    <3>2. ~(at > 0)
      BY <2>1 DEF Accepted
    <3>3. list = <<>>
      BY <3>2, ListShape
    <3>. QED
      BY <3>1, <3>3 DEF MenuState
  <2>2. CASE Accepted(c) /\ OrderOf(c) = "activate"
    <3>1. menu' = HistoryOf(list', at')
      BY <1>8, <2>2 DEF ProcessCommand
    <3>. QED
      BY <1>3, <3>1, MenuRenewed
  <2>3. CASE Accepted(c) /\ OrderOf(c) # "activate"
    <3>. DEFINE k == KeptFrom(c)
                new == SubSeq(list, 1, at) \o <<c>> \o SubSeq(list, k, Len(list))
    <3>1. list' = new /\ at' = at + 1 /\ menu' = menu
      BY <1>8, <2>3 DEF ProcessCommand
    <3>2. list # <<>>
      <4>1. at > 0
        BY <2>3 DEF Accepted
      <4>. QED
        BY <4>1 DEF WalksInv, HistoryFits
    <3>3. /\ k \in (at + 1) .. (Len(list) + 1)
          /\ new \in Seq(Command) /\ Len(new) = at + 2 + Len(list) - k
          /\ \A i \in 1 .. at : new[i] = list[i]
          /\ new[at + 1] = c
          /\ \A i \in k .. Len(list) : new[i - k + at + 2] = list[i]
      BY <1>1, <2>3, NewListAll
    <3>4. \A i \in (at + 1) .. (k - 1) : i \notin Activations(list)
      BY <1>1, <2>3, NoneTaken
    <3>5. list \in Seq(Command) /\ at \in 1 .. Len(list) /\ 1 \in Activations(list)
      BY <3>2, ListShape
    <3>. HIDE DEF new, k, c
    <3>6. /\ Start(new, at + 1) = Start(list, at)
          /\ new[Start(new, at + 1)] = list[Start(list, at)]
          /\ MenuFits(list, at, menu) => MenuFits(new, at + 1, menu)
      BY <2>3, <3>3, <3>4, <3>5, MenuInsert
    <3>7. ~Renews(Head(queue), kind)
      BY <1>4, <1>5, <2>3
    <3>8. \A item \in Range(queue) : Renews(item, kind) => item \in Range(queue')
      BY <1>2, <3>7
    <3>. QED
      BY <1>1, <3>1, <3>2, <3>6, <3>8, MenuStays
  <2>. QED
    BY <2>1, <2>2, <2>3
<1>. QED
  BY <1>6, <1>7, <1>8 DEF HandleCommand

(* A message that is handled is taken from the queue; at most a replay     *)
(* comes in.                                                               *)
LEMMA MenuHandled ==
    ASSUME HistorySize >= 2, WalksInv, QueueFits, MenuState, AllListed', WalksInv', HandleMessage
    PROVE  MenuState'
<1>. DEFINE message == Head(queue)
            kind == list[Start(list, at)].kind
<1>1. queue # <<>>
  BY DEF HandleMessage
<1>2. Tail(queue) \in Seq(QueueItems) /\ \A item \in Range(queue) : item = message \/ item \in Range(Tail(queue))
  BY <1>1, HandledFacts DEF QueueFits
<1>3. WalksNext
  BY DEF WalksInv, WalksNext, HistoryFits
<1>4. CASE HandleCommand(message)
  BY <1>1, <1>4, MenuCommand
<1>5. CASE menu' = HistoryOf(list', at')
  BY <1>3, <1>5, MenuRenewed
<1>6. CASE HandleReplay(message)
  <2>1. CASE RenewsMenu(message.commands)
    <3>1. menu' = HistoryOf(list', at')
      BY <1>6, <2>1 DEF HandleReplay
    <3>. QED
      BY <1>5, <3>1
  <2>2. CASE ~RenewsMenu(message.commands)
    <3>1. UNCHANGED <<list, at, menu, owed>> /\ queue' = Tail(queue) /\ message.do = "replay"
      BY <1>6, <2>2 DEF HandleReplay
    <3>2. ~Renews(message, kind)
      BY <2>2, <3>1 DEF Renews
    <3>. HIDE DEF message
    <3>3. \A item \in Range(queue) : Renews(item, kind) => item \in Range(queue')
      BY <1>2, <3>1, <3>2
    <3>. QED
      BY <3>1, <3>3, MenuUntouched
  <2>. QED
    BY <2>1, <2>2
<1>7. CASE /\ UNCHANGED <<list, at, menu, owed>> /\ queue' = Tail(queue)
           /\ message.do \in {"undo", "redo"}
  <2>1. ~Renews(message, kind)
    BY <1>7 DEF Renews
  <2>. HIDE DEF message
  <2>2. \A item \in Range(queue) : Renews(item, kind) => item \in Range(queue')
    BY <1>2, <1>7, <2>1
  <2>. QED
    BY <1>7, <2>2, MenuUntouched
<1>8. CASE HandleUndo(message)
  BY <1>5, <1>7, <1>8 DEF HandleUndo
<1>9. CASE HandleRedo(message)
  BY <1>5, <1>7, <1>9 DEF HandleRedo
<1>10. CASE HandlePick(message)
  BY <1>5, <1>10 DEF HandlePick
<1>. QED
  BY <1>4, <1>6, <1>8, <1>9, <1>10 DEF HandleMessage

(* A message that is sent.                                                 *)
LEMMA MenuSent ==
    ASSUME WalksInv, QueueFits, MenuState, NEW item \in QueueItems, Send(item),
           UNCHANGED <<list, at, menu, owed>>
    PROVE  MenuState'
<1>1. \A other \in Range(queue) : other \in Range(queue')
  BY SentFacts DEF Send, QueueFits
<1>. QED
  BY <1>1, MenuUntouched

(* What refreshes the interface after indexing renews the menu, unless it  *)
(* is in step already.                                                     *)
LEMMA MenuRefreshed ==
    ASSUME WalksInv, QueueFits, MenuState, NEW after \in BOOLEAN, RefreshUIState(after)
    PROVE  MenuState'
<1>. DEFINE start == ReplayStart(at)
            over == [do |-> "command", command |-> Overview]
<1>1. UNCHANGED <<list, at, menu>>
  BY DEF RefreshUIState
<1>2. CASE list = <<>>
  BY <1>1, <1>2 DEF MenuState
<1>3. CASE list # <<>>
  <2>1. start = Start(list, at) /\ start \in Activations(list) /\ start \in 1 .. at
    BY <1>3, ListShape
  <2>2. over \in QueueItems /\ Replay(start, at) \in QueueItems
    <3>1. over \in QueueItems
      BY OverviewFacts DEF QueueItems
    <3>2. at \in 0 .. Len(list) /\ start \in Int /\ start >= 1
      BY <2>1 DEF WalksInv, HistoryFits
    <3>3. Replay(start, at) \in QueueItems
      BY <3>2, ReplayFacts DEF WalksInv
    <3>. QED
      BY <3>1, <3>3
  <2>3. Renews(Replay(start, at), list[start].kind)
    BY <2>1, ReplayRenews DEF Renews, Replay, WalksInv
  <2>4. \/ start = 1 /\ Send(over)
        \/ start > 1 /\ list[start].kind = "errors" /\ Send(over)
        \/ start > 1 /\ Send(Replay(start, at))
    BY DEF RefreshUIState
  <2>. HIDE DEF start
  <2>5. \A item \in QueueItems : Send(item) => Range(queue') = Range(queue) \cup {item}
    BY SentFacts DEF Send, QueueFits
  <2>6. \A item \in Range(queue) : item \in Range(queue')
    BY <2>2, <2>4, <2>5
  <2>7. start > 1 => \E item \in Range(queue') : Renews(item, list[start].kind)
    <3>1. SUFFICES ASSUME start > 1 PROVE \E item \in Range(queue') : Renews(item, list[start].kind)
      OBVIOUS
    <3>2. CASE list[start].kind = "errors" /\ Send(over)
      <4>1. Renews(over, list[start].kind) /\ over \in Range(queue')
        BY <2>2, <2>5, <3>2 DEF Renews
      <4>. QED
        BY <4>1
    <3>3. CASE Send(Replay(start, at))
      <4>1. Replay(start, at) \in Range(queue')
        BY <2>2, <2>5, <3>3
      <4>. QED
        BY <2>3, <4>1
    <3>4. start # 1
      BY <2>1, <3>1
    <3>. QED
      BY <2>4, <3>2, <3>3, <3>4
  <2>. HIDE DEF over
  <2>. QED
    BY <1>1, <1>3, <2>1, <2>6, <2>7, MenuStays
<1>. QED
  BY <1>2, <1>3

-----------------------------------------------------------------------------
(* The end of indexing: all activations stay. If there is but one, it is   *)
(* on show before and after.                                               *)
LEMMA MenuIndexed ==
    ASSUME WalksInv, WalksInv', MenuState, AllListed, IndexingFinished
    PROVE  MenuState'
<1>. DEFINE A == Activations(list)
            many == Cardinality(A)
<1>1. SUFFICES ASSUME list' # <<>> PROVE MenuFits(list', at', menu') \/ MenuPending'
  BY DEF MenuState
<1>2. list \in Seq(Command) /\ Len(list) \in Nat /\ A \in SUBSET (1 .. Len(list))
  BY DEF WalksInv, HistoryFits, Activations
<1>3. list' = Chosen(list, A) /\ at' = Len(list') /\ owed' = TRUE /\ menu' = menu
  <2>1. {i \in 1 .. Len(list) : OrderOf(list[i]) = "activate" /\ list[i].kind # "bundledEdges"} = A
    BY DEF AllListed, Listed, Activations
  <2>. QED
    BY <2>1 DEF IndexingFinished
<1>. HIDE DEF A
<1>4. IsFiniteSet(A) /\ many \in Nat /\ A \in SUBSET Nat
  BY <1>2, PositionsFinite DEF WalksInv
<1>5. /\ Len(list') = many
      /\ \A k \in 1 .. many : list'[k] = list[Nth(A, k)] /\ Nth(A, k) \in A
  <2>1. \A k \in 1 .. many : Nth(A, k) \in A
    BY <1>4, NthFacts
  <2>2. list' = [k \in 1 .. many |-> list[Nth(A, k)]]
    BY <1>3 DEF Chosen
  <2>. HIDE DEF many
  <2>3. Len(list') = many /\ \A k \in 1 .. many : list'[k] = list[Nth(A, k)]
    BY <1>4, <2>2
  <2>. QED
    BY <2>1, <2>3
<1>. HIDE DEF many
<1>6. list' \in Seq(Command) /\ many >= 1
  <2>1. list' \in Seq(Command) /\ at' \in 1 .. Len(list')
    BY <1>1 DEF WalksInv, HistoryFits, WalksStayInside
  <2>. QED
    BY <1>4, <1>5, <2>1
<1>7. Activations(list') = 1 .. many
  <2>1. \A k \in 1 .. many : OrderOf(list'[k]) = "activate"
    BY <1>5 DEF A, Activations
  <2>. QED
    BY <1>5, <2>1 DEF Activations
<1>8. Start(list', at') = many
  <2>1. many \in 1 .. Len(list') /\ 1 \in Activations(list') /\ at' = many
    BY <1>3, <1>4, <1>5, <1>6, <1>7
  <2>2. many \in Activations(list') /\ \A r \in Activations(list') : r <= many
    BY <1>4, <1>6, <1>7
  <2>. QED
    BY <1>4, <1>6, <2>1, <2>2, StartFacts
<1>9. CASE many > 1
  BY <1>3, <1>8, <1>9 DEF MenuPending
<1>10. CASE many = 1
  <2>1. PICK p \in A : A = {p}
    BY <1>4, <1>10, FS_Singleton DEF many
  <2>2. list # <<>>
    BY <1>2, <2>1
  <2>3. 1 \in A /\ at \in 1 .. Len(list) /\ Start(list, at) \in A
    BY <2>2, ListShape DEF A
  <2>4. A = {1} /\ Start(list, at) = 1
    BY <2>1, <2>3
  <2>5. MenuFits(list, at, menu)
    BY <2>2, <2>4 DEF MenuState, MenuPending
  <2>. DEFINE f == [q \in A |-> q]
  <2>6. f \in [A -> Activations(list')] /\ \A q \in A : f[q] = q
    BY <1>7, <1>10, <2>4
  <2>7. list'[1] = list[1]
    BY <1>5, <1>10, <2>4
  <2>. HIDE DEF f
  <2>8. /\ \A q, r \in A : q < r => f[q] < f[r]
        /\ \A r \in Activations(list') : \E q \in A : f[q] = r
        /\ \A q \in A : list'[f[q]] = list[q]
        /\ Start(list', at') = f[Start(list, at)]
    BY <1>7, <1>8, <1>10, <2>4, <2>6, <2>7
  <2>. DEFINE new == list'
              place == at'
  <2>9. MenuFits(new, place, menu)
    <3>. HIDE DEF new, place
    <3>1. /\ new \in Seq(Command) /\ f \in [A -> Activations(new)]
          /\ Start(new, place) = f[Start(list, at)]
      BY <1>6, <2>6, <2>8 DEF new, place
    <3>2. /\ \A q, r \in A : q < r => f[q] < f[r]
          /\ \A r \in Activations(new) : \E q \in A : f[q] = r
          /\ \A q \in A : new[f[q]] = list[q]
      BY <2>8 DEF new
    <3>. QED
      BY <1>2, <2>3, <2>5, <3>1, <3>2, MenuMoves DEF A
  <2>. QED
    BY <1>3, <2>9
<1>. QED
  BY <1>4, <1>6, <1>9, <1>10

LEMMA SentAnything ==
    ASSUME NEW S, NEW q \in Seq(S), NEW x
    PROVE  \A y \in Range(Append(q, x)) : y \in Range(q) \/ y = x
<1>1. q \in Seq(S \cup {x})
  OBVIOUS
<1>. QED
  BY <1>1, SentFacts

(* Whatever becomes an activation of the list came from the queue.         *)
LEMMA ListedKept ==
    ASSUME WalksInv, QueueFits, AllListed, [UndoNext]_undoVars,
           \A c \in Messages \cup {Overview} : Listed(c)
    PROVE  AllListed'
<1>. DEFINE ItemsListed(q) == \A item \in Range(q) : item.do = "command" => Listed(item.command)
            Fine(l) == \A i \in 1 .. Len(l) : Listed(l[i])
<1>1. Fine(list) /\ ItemsListed(queue)
  BY DEF AllListed
<1>2. Fine(list') /\ ItemsListed(queue') => AllListed'
  BY DEF AllListed
<1>3. list \in Seq(Command) /\ Len(list) \in Nat /\ at \in 0 .. Len(list)
  BY DEF WalksInv, HistoryFits
<1>4. ASSUME NEW q \in Seq(QueueItems), ItemsListed(q), NEW item \in QueueItems,
             item.do = "command" => Listed(item.command)
      PROVE  ItemsListed(Append(q, item))
  BY <1>4, SentFacts
<1>. HIDE DEF ItemsListed, Fine
<1>5. ASSUME NEW item \in QueueItems, item.do = "command" => Listed(item.command),
             Send(item), UNCHANGED list
      PROVE  AllListed'
  BY <1>1, <1>2, <1>4, <1>5 DEF Send, QueueFits
<1>6. ASSUME NEW c \in Messages, UserActs(c) PROVE AllListed'
  <2>. DEFINE item == [do |-> "command", command |-> c]
  <2>1. item \in QueueItems /\ item.command = c
    BY MessagesAssumption DEF QueueItems
  <2>2. Listed(item.command) /\ Send(item) /\ UNCHANGED list
    BY <1>6, <2>1 DEF UserActs
  <2>. QED
    BY <1>5, <2>1, <2>2
<1>7. ASSUME NEW item \in [do : {"undo", "redo"}] \cup [do : {"pick"}, index : Nat], Navigate(item)
      PROVE  AllListed'
  <2>1. item \in QueueItems /\ item.do # "command"
    BY DEF QueueItems
  <2>. QED
    BY <1>5, <1>7, <2>1 DEF Navigate
<1>8. ASSUME NEW i \in 0 .. (Len(menu.shown) - 1), PickEntry(i) PROVE AllListed'
  <2>1. [do |-> "pick", index |-> i] \in [do : {"pick"}, index : Nat]
    OBVIOUS
  <2>. QED
    BY <1>7, <1>8, <2>1 DEF PickEntry
<1>9. CASE HandleMessage
  <2>. DEFINE message == Head(queue)
  <2>1. queue # <<>>
    BY <1>9 DEF HandleMessage
  <2>2. /\ Tail(queue) \in Seq(QueueItems) /\ message \in QueueItems
        /\ message \in Range(queue) /\ \A item \in Range(Tail(queue)) : item \in Range(queue)
    BY <2>1, HandledFacts DEF QueueFits
  <2>3. ItemsListed(Tail(queue))
    BY <1>1, <2>2 DEF ItemsListed
  <2>4. ItemsListed(queue')
    <3>1. CASE queue' = Tail(queue)
      BY <2>3, <3>1
    <3>2. CASE \E commands \in Seq(Command) :
                   queue' = Append(Tail(queue), [do |-> "replay", commands |-> commands])
      <4>1. PICK commands \in Seq(Command) :
                queue' = Append(Tail(queue), [do |-> "replay", commands |-> commands])
        BY <3>2
      <4>. DEFINE item == [do |-> "replay", commands |-> commands]
      <4>2. item \in QueueItems /\ item.do # "command"
        BY DEF QueueItems
      <4>. QED
        BY <1>4, <2>2, <2>3, <4>1, <4>2
    <3>3. queue' = Tail(queue) \/ \E from, to : queue' = Append(Tail(queue), Replay(from, to))
      BY <1>9 DEF HandleMessage, HandleCommand, HandleReplay, HandleUndo, HandleRedo, HandlePick
    <3>4. ASSUME NEW from, NEW to, queue' = Append(Tail(queue), Replay(from, to))
          PROVE  ItemsListed(queue')
      <4>1. \A item \in Range(queue') : item \in Range(Tail(queue)) \/ item = Replay(from, to)
        BY <2>2, <3>4, SentAnything
      <4>2. Replay(from, to).do # "command"
        BY DEF Replay
      <4>. QED
        BY <2>3, <4>1, <4>2 DEF ItemsListed
    <3>. QED
      BY <3>1, <3>3, <3>4
  <2>5. Fine(list')
    <3>1. CASE UNCHANGED list
      BY <1>1, <3>1
    <3>2. CASE HandleCommand(message)
      <4>. DEFINE c == message.command
      <4>1. c \in Command /\ Listed(c)
        <5>1. message.do = "command"
          BY <3>2 DEF HandleCommand
        <5>. QED
          BY <1>1, <2>2, <5>1 DEF ItemsListed, QueueItems
      <4>2. CASE list' = [list EXCEPT ![at] = c]
        <5>1. Len(list') = Len(list) /\ \A i \in 1 .. Len(list) : list'[i] = list[i] \/ list'[i] = c
          BY <1>3, <4>2
        <5>. QED
          BY <1>1, <4>1, <5>1 DEF Fine
      <4>3. CASE ProcessCommand(c) /\ Accepted(c)
        <5>. DEFINE k == KeptFrom(c)
                    new == SubSeq(list, 1, at) \o <<c>> \o SubSeq(list, k, Len(list))
        <5>1. list' = new
          BY <4>3 DEF ProcessCommand
        <5>2. /\ k \in (at + 1) .. (Len(list) + 1)
              /\ new \in Seq(Command) /\ Len(new) = at + 2 + Len(list) - k
              /\ \A i \in 1 .. at : new[i] = list[i]
              /\ new[at + 1] = c
              /\ \A i \in k .. Len(list) : new[i - k + at + 2] = list[i]
          BY <4>1, <4>3, NewListAll
        <5>. HIDE DEF new, k
        <5>3. ASSUME NEW j \in 1 .. Len(new) PROVE Listed(new[j])
          <6>1. CASE j \in 1 .. at
            <7>1. j \in 1 .. Len(list)
              BY <1>3, <6>1
            <7>. QED
              BY <1>1, <5>2, <6>1, <7>1 DEF Fine
          <6>2. CASE j = at + 1
            BY <4>1, <5>2, <6>2
          <6>3. CASE j \notin 1 .. at /\ j # at + 1
            <7>. DEFINE i == j + k - at - 2
            <7>1. i \in k .. Len(list) /\ i - k + at + 2 = j /\ i \in 1 .. Len(list)
              BY <1>3, <5>2, <6>3
            <7>2. new[j] = list[i]
              BY <5>2, <7>1
            <7>. QED
              BY <1>1, <7>1, <7>2 DEF Fine
          <6>. QED
            BY <6>1, <6>2, <6>3
        <5>. QED
          BY <5>1, <5>3 DEF Fine
      <4>4. CASE ProcessCommand(c) /\ ~Accepted(c)
        BY <3>1, <4>4 DEF ProcessCommand
      <4>. QED
        BY <3>1, <3>2, <4>2, <4>3, <4>4 DEF HandleCommand
    <3>. QED
      BY <1>9, <3>1, <3>2 DEF HandleMessage, HandleReplay, HandleUndo, HandleRedo, HandlePick
  <2>. QED
    BY <1>2, <2>4, <2>5
<1>10. CASE IndexingFinished
  <2>. DEFINE S == {i \in 1 .. Len(list) : OrderOf(list[i]) = "activate" /\ list[i].kind # "bundledEdges"}
  <2>1. list' = Chosen(list, S) /\ queue' = queue
    BY <1>10 DEF IndexingFinished
  <2>2. S \in SUBSET (1 .. Len(list))
    OBVIOUS
  <2>. HIDE DEF S
  <2>3. \A k \in 1 .. Len(list') : \E i \in S : list'[k] = list[i]
    <3>1. list \in Seq(Command)
      BY <1>3
    <3>2. \A k \in 1 .. Len(Chosen(list, S)) : \E i \in S : Chosen(list, S)[k] = list[i]
      BY ONLY <2>2, <3>1, ChosenFacts
    <3>. QED
      BY <2>1, <3>2
  <2>4. Fine(list')
    BY <1>1, <2>2, <2>3 DEF Fine
  <2>. QED
    BY <1>1, <1>2, <2>1, <2>4
<1>11. ASSUME NEW after \in BOOLEAN, RefreshUIState(after) PROVE AllListed'
  <2>. DEFINE over == [do |-> "command", command |-> Overview]
              again == Replay(ReplayStart(at), at)
  <2>1. over \in QueueItems /\ Listed(over.command)
    BY OverviewFacts DEF QueueItems
  <2>2. again \in QueueItems /\ again.do # "command"
    <3>1. ReplayStart(at) \in 1 .. (at + 1)
      BY <1>3, ReplayStartFacts DEF WalksInv
    <3>2. again \in QueueItems
      BY <1>3, <3>1, ReplayFacts DEF WalksInv
    <3>. QED
      BY <3>2 DEF Replay
  <2>3. (Send(over) \/ Send(again)) /\ UNCHANGED list
    BY <1>11 DEF RefreshUIState
  <2>. HIDE DEF over, again
  <2>. QED
    BY <1>5, <2>1, <2>2, <2>3
<1>12. CASE UNCHANGED undoVars
  BY <1>1, <1>2, <1>12 DEF undoVars
<1>13. CASE PressBack \/ PressForward
  BY <1>7, <1>13 DEF PressBack, PressForward
<1>. QED
  BY <1>6, <1>8, <1>9, <1>10, <1>11, <1>12, <1>13 DEF UndoNext

LEMMA MenuInvNext ==
    ASSUME HistorySize >= 2, \A c \in Messages \cup {Overview} : Listed(c),
           WalksInv, QueueFits, MenuInv, [UndoNext]_undoVars
    PROVE  MenuInv'
<1>1. AllListed /\ MenuState /\ AllListed'
  BY ListedKept DEF MenuInv, MenuState
<1>2. WalksInv'
  BY WalksKept
<1>3. SUFFICES MenuState'
  BY <1>1 DEF MenuInv, MenuState
<1>4. ASSUME NEW c \in Messages, UserActs(c) PROVE MenuState'
  <2>1. [do |-> "command", command |-> c] \in QueueItems
    BY MessagesAssumption DEF QueueItems
  <2>. QED
    BY <1>1, <1>4, <2>1, MenuSent DEF UserActs
<1>5. ASSUME NEW item \in QueueItems, Navigate(item) PROVE MenuState'
  BY <1>1, <1>5, MenuSent DEF Navigate
<1>6. CASE PressBack \/ PressForward
  BY <1>5, <1>6 DEF PressBack, PressForward, QueueItems
<1>7. ASSUME NEW i \in 0 .. (Len(menu.shown) - 1), PickEntry(i) PROVE MenuState'
  <2>1. [do |-> "pick", index |-> i] \in QueueItems
    BY DEF QueueItems
  <2>. QED
    BY <1>5, <1>7, <2>1 DEF PickEntry
<1>8. CASE HandleMessage
  BY <1>1, <1>2, <1>8, MenuHandled
<1>9. CASE IndexingFinished
  BY <1>1, <1>2, <1>9, MenuIndexed
<1>10. ASSUME NEW after \in BOOLEAN, RefreshUIState(after) PROVE MenuState'
  BY <1>1, <1>10, MenuRefreshed
<1>11. CASE UNCHANGED undoVars
  BY <1>1, <1>11, MenuUntouched DEF undoVars
<1>. QED
  BY <1>4, <1>6, <1>7, <1>8, <1>9, <1>10, <1>11 DEF UndoNext

LEMMA MenuInvShows ==
    ASSUME WalksInv, MenuInv
    PROVE  MenuInStep
<1>. DEFINE acts == ActivationsOf(list)
            Entry(i) == list[acts[i + menu.offset + 1]]
<1>1. SUFFICES ASSUME Quiet, list # <<>>
               PROVE  /\ \A i \in 0..(Len(menu.shown) - 1) :
                             /\ i + menu.offset < Len(acts)
                             /\ menu.shown[i + 1] = Entry(i)
                      /\ menu.current \in 0..(Len(menu.shown) - 1)
                      /\ Entry(menu.current) = list[ReplayStart(at)]
  BY DEF MenuInStep
<1>2. Range(queue) = {} /\ ~owed
  BY <1>1 DEF Quiet, Range
<1>3. MenuFits(list, at, menu)
  BY <1>1, <1>2 DEF MenuInv, MenuPending
<1>4. ReplayStart(at) = Start(list, at)
  BY <1>1, ListShape
<1>. QED
  BY <1>3, <1>4 DEF MenuFits

(* The history menu lists the activations as a click on it counts them, and *)
(* marks the one on show, whenever nothing is under way: for every list of  *)
(* commands, whatever the user does while messages wait, and although only  *)
(* an activation renews the menu. It needs room for two entries, a name for *)
(* each activation, and no activation that the end of indexing drops.       *)
THEOREM MenuKeepsStep ==
    ASSUME HistorySize >= 2, \A c \in Messages \cup {Overview} : Listed(c)
    PROVE  UndoSpec => []MenuInStep
<1>1. UndoInit => WalksInv /\ QueueFits /\ MenuInv
  <2>1. UndoInit => MenuInv
    BY DEF UndoInit, MenuInv, AllListed, Range
  <2>. QED
    BY <2>1, WalksInvInit
<1>2. WalksInv /\ QueueFits /\ MenuInv /\ [UndoNext]_undoVars
          => WalksInv' /\ QueueFits' /\ MenuInv'
  BY WalksKept, QueueKeeps, MenuInvNext
<1>3. WalksInv /\ MenuInv => MenuInStep
  BY MenuInvShows
<1>. QED
  BY <1>1, <1>2, <1>3, PTL DEF UndoSpec
=============================================================================
