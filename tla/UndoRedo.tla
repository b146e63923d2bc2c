------------------------------ MODULE UndoRedo ------------------------------
(***************************************************************************)
(* Back, forward and history of a tab of the desktop program               *)
(* (UndoRedoController). Every message that changes what a tab shows is    *)
(* also a command in a list; navigation moves a position in the list and   *)
(* sends commands again, to the same queue as the messages of the user.    *)
(*                                                                         *)
(* Messages of the tab are handled one by one by the tab's scheduler; the  *)
(* end of indexing and the refreshing of the interface are handled by the  *)
(* application's scheduler, in any order with the former. What the other   *)
(* controllers of the tab show is external: they show a command as soon as *)
(* it is handled.                                                          *)
(***************************************************************************)
EXTENDS Integers, FiniteSets, Sequences, SequencesExt

CONSTANTS
    Messages,     \* the commands the user gives
    Values,       \* what a message may be about
    DefaultValue, \* all node types: what the plain overview is about
    KeyOf,        \* the part of a value that tells two messages apart
    Nameless,     \* values of activations without a search match
    HistorySize,  \* historyListSize: entries shown in the history menu
    MaxList,      \* bound: commands in the list and messages under way
    MaxQueue,     \* bound: messages under way
    MaxIndexings  \* bound: how often indexing ends

ASSUME UndoAssumption ==
    /\ DefaultValue \in Values /\ Nameless \subseteq Values
    /\ KeyOf \in [Values -> Values]
    /\ HistorySize \in Nat \ {0}
    /\ {MaxList, MaxQueue, MaxIndexings} \subseteq Nat

-----------------------------------------------------------------------------
(* What each handler does with its message: the order of the command, the  *)
(* replayLastOnly flag, and what becomes of a message equal to the last    *)
(* one ("skip"), of one of the same type ("update"), or of any ("add").    *)

Row(type, order, replayLastOnly, same) ==
    [type |-> type, order |-> order,
     replayLastOnly |-> replayLastOnly, same |-> same]

MessageTable == [
    errors         |-> Row("errors", "activate", FALSE, "skip"),
    fullText       |-> Row("fullText", "activate", FALSE, "skip"),
    legend         |-> Row("legend", "activate", FALSE, "skip"),
    localSymbols   |-> Row("localSymbols", "view", TRUE, "update"),
    overview       |-> Row("overview", "activate", FALSE, "skip"),
    tokens         |-> Row("tokens", "activate", FALSE, "skip"),
    bundledEdges   |-> Row("tokens", "activate", FALSE, "skip"),
    edge           |-> Row("tokens", "adapt", FALSE, "skip"),
    customTrail    |-> Row("trail", "activate", FALSE, "skip"),
    trail          |-> Row("trail", "adapt", FALSE, "skip"),
    trailEdge      |-> Row("trailEdge", "adapt", TRUE, "skip"),
    viewMode       |-> Row("fileView", "adapt", FALSE, "add"),
    fileView       |-> Row("fileView", "view", FALSE, "add"),
    showDefinition |-> Row("showDefinition", "adapt", FALSE, "skip"),
    deactivateEdge |-> Row("deactivateEdge", "adapt", FALSE, "skip"),
    focusChanged   |-> Row("focusChanged", "view", TRUE, "skip"),
    bundleSplit    |-> Row("bundleSplit", "adapt", FALSE, "add"),
    nodeExpand     |-> Row("nodeExpand", "view", FALSE, "add"),
    nodeHide       |-> Row("nodeHide", "adapt", FALSE, "add"),
    nodeMove       |-> Row("nodeMove", "view", FALSE, "add"),
    scrollCode     |-> Row("scrollCode", "view", TRUE, "update"),
    scrollGraph    |-> Row("scrollGraph", "view", TRUE, "update"),
    showError      |-> Row("showError", "adapt", FALSE, "skip"),
    showReference  |-> Row("showReference", "view", TRUE, "skip"),
    showScope      |-> Row("showScope", "view", FALSE, "add")]

Command == [kind : DOMAIN MessageTable, value : Values]

ASSUME MessagesAssumption == Messages \subseteq Command

Overview == [kind |-> "overview", value |-> DefaultValue]

TypeOf(c) == MessageTable[c.kind].type
OrderOf(c) == MessageTable[c.kind].order
ReplayLastOnly(c) == MessageTable[c.kind].replayLastOnly
Same(c) == MessageTable[c.kind].same

-----------------------------------------------------------------------------
VARIABLES
    list,    \* m_list
    at,      \* m_iterator: how many commands are before it
    menu,    \* the history menu, the entry marked in it, m_historyOffset
    undoOn,  \* the undo button is enabled
    redoOn,  \* the redo button is enabled
    queue,   \* messages of the tab that are not handled yet
    view,    \* what the tab shows, as the commands that made it so
    owed,    \* indexing has ended, and the interface is not refreshed yet
    indexings

undoVars == <<list, at, menu, undoOn, redoOn, queue, view, owed, indexings>>
buttons == <<undoOn, redoOn>>

NoMenu == [shown |-> <<>>, current |-> -1, offset |-> 0]

UndoInit ==
    /\ list = <<>> /\ at = 0
    /\ menu = NoMenu
    /\ undoOn = FALSE /\ redoOn = FALSE
    /\ queue = <<>> /\ view = <<>>
    /\ owed = FALSE /\ indexings = 0

IsActivation(i) == OrderOf(list[i]) = "activate"
IsView(i) == OrderOf(list[i]) = "view"

Greatest(S) == CHOOSE m \in S : \A n \in S : n <= m
Least(S) == CHOOSE m \in S : \A n \in S : m <= n

(* The activation replaying begins at: the last one before position n.     *)
ReplayStart(n) ==
    Greatest({1} \cup {i \in 1..n : IsActivation(i)})

(* The next activation behind position n, or the end of the list.          *)
NextActivation(n) ==
    Least({i \in (n + 1)..Len(list) : IsActivation(i)} \cup {Len(list) + 1})

(* Where Back goes: before the last command that is not of the view.       *)
UndoTarget(n) == Greatest({0} \cup {i \in 1..n : ~IsView(i)}) - 1

(* Forward passes one command, and leaves those of the view behind.        *)
MutantRedoTarget(n) == n + 1

(* Where Forward goes: over the next command and those of the view on it.  *)
RedoTarget(n) ==
    Least({i \in (n + 1)..(Len(list) - 1) : ~IsView(i + 1)} \cup {Len(list)})

(* The k-th of a set of positions, and the commands at a set of positions. *)
Nth(S, k) == CHOOSE i \in S : Cardinality({j \in S : j <= i}) = k
Chosen(commands, S) == [k \in 1..Cardinality(S) |-> commands[Nth(S, k)]]

(* The activations from the last to the first, as positions in the list.   *)
ActivationsOf(commands) ==
    LET acts == {i \in 1..Len(commands) : OrderOf(commands[i]) = "activate"}
        count == Cardinality(acts)
    IN  [k \in 1..count |-> Nth(acts, count + 1 - k)]

(* The history menu: the activations from the last one on, at most         *)
(* HistorySize of them, moved so far that the present one is among them.   *)
HistoryOf(commands, n) ==
    LET acts == ActivationsOf(commands)
        current == IF n = 0 THEN -1
                   ELSE Cardinality({k \in 1..Len(acts) : acts[k] > n})
        Scan[k \in 0..Len(acts)] ==
            IF k = 0 THEN [shown |-> <<>>, offset |-> 0, done |-> FALSE] ELSE
            LET prev == Scan[k - 1]
                command == commands[acts[k]]
                full == Len(prev.shown) = HistorySize
                offset == IF full THEN prev.offset + 1 ELSE prev.offset
                shown == Append(IF full THEN Tail(prev.shown) ELSE prev.shown,
                                command)
            IN  IF prev.done \/ command.value \in Nameless THEN prev ELSE
                [shown |-> shown, offset |-> offset,
                 done |-> /\ Len(shown) = HistorySize
                          /\ current # -1 /\ acts[k] <= n
                          /\ current - offset # HistorySize - 1]
        scan == Scan[Len(acts)]
    IN  [shown |-> scan.shown, current |-> current - scan.offset,
         offset |-> scan.offset]

-----------------------------------------------------------------------------
(* What the other controllers show of a command. To show the same again,   *)
(* of those a handler skips, changes nothing.                              *)
Settled(shown) ==
    LET New(i) == i = 1 \/ Same(shown[i]) # "skip" \/ shown[i] # shown[i - 1]
        news == SelectSeq([i \in 1..Len(shown) |-> i], New)
    IN  [k \in 1..Len(news) |-> shown[news[k]]]

Show(shown, c) ==
    LET Stays(d) == ~ReplayLastOnly(c) \/ TypeOf(d) # TypeOf(c)
    IN  CASE OrderOf(c) = "activate" -> <<c>>
          [] shown = <<>> -> <<>>
          [] OTHER -> Settled(Append(SelectSeq(shown, Stays), c))

ShowAll(shown, commands) ==
    LET After[n \in 0..Len(commands)] ==
            IF n = 0 THEN shown ELSE Show(After[n - 1], commands[n])
    IN  After[Len(commands)]

(* Of every type the last command only.                                    *)
MutantReplayed(from, to) ==
    LET Again(i) == ~ \E j \in (i + 1)..to : TypeOf(list[j]) = TypeOf(list[i])
    IN  Chosen(list, {i \in from..to : Again(i)})

(* replayCommands: all commands from one position to another, but of some  *)
(* types the last only.                                                    *)
Replayed(from, to) ==
    LET Again(i) == ~ \E j \in (i + 1)..to : TypeOf(list[j]) = TypeOf(list[i])
    IN  Chosen(list, {i \in from..to : ~ReplayLastOnly(list[i]) \/ Again(i)})

Replay(from, to) == [do |-> "replay", commands |-> Replayed(from, to)]

-----------------------------------------------------------------------------
(* The user acts: something is activated or moved, Back or Forward is      *)
(* pressed (keys and mouse buttons work whether or not the button is       *)
(* enabled), or an entry of the history menu is clicked.                   *)

Send(message) ==
    /\ Len(queue) < MaxQueue
    /\ queue' = Append(queue, message)

UserActs(c) ==
    /\ Len(list) + Len(queue) < MaxList
    /\ Send([do |-> "command", command |-> c])
    /\ UNCHANGED <<list, at, menu, buttons, view, owed, indexings>>

Navigate(message) ==
    /\ Send(message)
    /\ UNCHANGED <<list, at, menu, buttons, view, owed, indexings>>

PressBack == Navigate([do |-> "undo"])
PressForward == Navigate([do |-> "redo"])

PickEntry(i) ==
    /\ i # menu.current
    /\ Navigate([do |-> "pick", index |-> i])

-----------------------------------------------------------------------------
(* sameMessageTypeAsLast, with the comparison the handler makes.           *)
SameType(c) == at > 0 /\ TypeOf(list[at]) = TypeOf(c)
EqualToLast(c) ==
    /\ SameType(c)
    /\ list[at].kind = c.kind /\ KeyOf[list[at].value] = KeyOf[c.value]

(* The first command behind the position that a new command leaves.        *)
KeptFrom(c) ==
    CASE OrderOf(c) = "activate" -> Len(list) + 1
      [] OrderOf(c) = "adapt"    -> NextActivation(at)
      [] OrderOf(c) = "view"     -> at + 1

MutantNothingAhead(c) == TRUE
NothingAhead(c) == KeptFrom(c) > Len(list)

(* Nothing can be adapted before there was an activation.                  *)
MutantAccepted(c) == TRUE
Accepted(c) == at > 0 \/ OrderOf(c) = "activate"

ProcessCommand(c) ==
    LET new == SubSeq(list, 1, at) \o <<c>>
                   \o SubSeq(list, KeptFrom(c), Len(list))
        navigable == OrderOf(c) # "view"
    IN  IF ~Accepted(c) THEN UNCHANGED <<list, at, menu, buttons>>
        ELSE /\ list' = new /\ at' = at + 1
             /\ undoOn' = (undoOn \/ (navigable /\ at > 0))
             /\ redoOn' = (redoOn /\ ~(navigable /\ NothingAhead(c)))
             /\ menu' = IF OrderOf(c) = "activate" THEN HistoryOf(new, at + 1)
                        ELSE menu

HandleCommand(message) ==
    LET c == message.command
    IN  /\ message.do = "command"
        /\ queue' = Tail(queue)
        /\ view' = Show(view, c)
        /\ \/ /\ Same(c) = "skip" /\ EqualToLast(c)
              /\ UNCHANGED <<list, at, menu, buttons>>
           \/ /\ Same(c) = "update" /\ SameType(c)
              /\ list' = [list EXCEPT ![at] = c]
              /\ UNCHANGED <<at, menu, buttons>>
           \/ /\ Same(c) = "skip" => ~EqualToLast(c)
              /\ Same(c) = "update" => ~SameType(c)
              /\ ProcessCommand(c)
        /\ UNCHANGED <<owed, indexings>>

(* Commands sent again are shown, and an activation renews the menu.       *)
MutantRenewsMenu(commands) == FALSE
RenewsMenu(commands) ==
    \E i \in 1..Len(commands) : OrderOf(commands[i]) = "activate"

HandleReplay(message) ==
    /\ message.do = "replay"
    /\ queue' = Tail(queue)
    /\ view' = ShowAll(view, message.commands)
    /\ menu' = IF RenewsMenu(message.commands) THEN HistoryOf(list, at) ELSE menu
    /\ UNCHANGED <<list, at, buttons, owed, indexings>>

(* MessageHistoryUndo. At the first command the code reads what is before  *)
(* the list, and may or may not find the first command from there.         *)
HandleUndo(message) ==
    /\ message.do = "undo"
    /\ \/ /\ list = <<>>
          /\ queue' = Tail(queue)
          /\ UNCHANGED <<at, menu, buttons>>
       \/ /\ list # <<>> /\ UndoTarget(at) <= 0
          /\ undoOn' \in {undoOn, FALSE}
          /\ queue' = Tail(queue)
          /\ UNCHANGED <<at, menu, redoOn>>
       \/ /\ list # <<>> /\ UndoTarget(at) > 0
          /\ at' = UndoTarget(at)
          /\ undoOn' = (undoOn /\ UndoTarget(at') > 0)
          /\ redoOn' = TRUE
          /\ queue' = Append(Tail(queue), Replay(ReplayStart(at'), at'))
          /\ menu' = HistoryOf(list, at')
    /\ UNCHANGED <<list, view, owed, indexings>>

(* MessageHistoryRedo.                                                     *)
HandleRedo(message) ==
    /\ message.do = "redo"
    /\ \/ /\ at = Len(list)
          /\ queue' = Tail(queue)
          /\ UNCHANGED <<at, menu, buttons>>
       \/ /\ at < Len(list)
          /\ at' = RedoTarget(at)
          /\ undoOn' = TRUE
          /\ redoOn' = (redoOn /\ at' < Len(list))
          /\ queue' = Append(Tail(queue), Replay(at + 1, at'))
          /\ menu' = HistoryOf(list, at')
    /\ UNCHANGED <<list, view, owed, indexings>>

(* The activation a click is on, counted when it is handled.               *)
Clicked(message) == message.index + menu.offset + 1

(* MessageHistoryToPosition.                                               *)
HandlePick(message) ==
    LET acts == ActivationsOf(list)
        n == Clicked(message)
    IN  /\ message.do = "pick"
        /\ \/ /\ n \in 1..Len(acts)
              /\ at' = NextActivation(acts[n]) - 1
              /\ queue' = Append(Tail(queue), Replay(acts[n], at'))
           \/ /\ n \notin 1..Len(acts)
              /\ queue' = Tail(queue)
              /\ UNCHANGED at
        /\ undoOn' = (Len(acts) > n)
        /\ redoOn' = (at' < Len(list) /\ OrderOf(list[at' + 1]) = "activate")
        /\ menu' = HistoryOf(list, at')
        /\ UNCHANGED <<list, view, owed, indexings>>

HandleMessage ==
    /\ queue # <<>>
    /\ LET message == Head(queue)
       IN  \/ HandleCommand(message)
           \/ HandleReplay(message)
           \/ HandleUndo(message)
           \/ HandleRedo(message)
           \/ HandlePick(message)

-----------------------------------------------------------------------------
(* Of the application's scheduler.                                         *)

(* MessageIndexingFinished: only activations stay, and all are done.       *)
IndexingFinished ==
    LET Kept(c) == OrderOf(c) = "activate" /\ c.kind # "bundledEdges"
    IN  /\ indexings < MaxIndexings
        /\ indexings' = indexings + 1
        /\ list' = Chosen(list, {i \in 1..Len(list) : Kept(list[i])})
        /\ at' = Len(list')
        /\ owed' = TRUE
        /\ UNCHANGED <<menu, buttons, queue, view>>

(* MessageRefreshUIState: once after indexing, and whenever the font or the *)
(* colours change.                                                         *)
RefreshUIState(afterIndexing) ==
    LET start == ReplayStart(at)
    IN  /\ \/ /\ \/ start = 1
                 \/ start > 1 /\ afterIndexing /\ list[start].kind = "errors"
              /\ Send([do |-> "command", command |-> Overview])
           \/ /\ start > 1
              /\ Send(Replay(start, at))
        /\ owed' = (owed /\ ~afterIndexing)
        /\ UNCHANGED <<list, at, menu, buttons, view, indexings>>

UndoNext ==
    \/ \E c \in Messages : UserActs(c)
    \/ PressBack
    \/ PressForward
    \/ \E i \in 0..(Len(menu.shown) - 1) : PickEntry(i)
    \/ HandleMessage
    \/ IndexingFinished
    \/ RefreshUIState(FALSE)
    \/ owed /\ RefreshUIState(TRUE)

UndoSpec == UndoInit /\ [][UndoNext]_undoVars

-----------------------------------------------------------------------------
Quiet == queue = <<>> /\ ~owed

(* Some message under way of one kind is behind one of another.            *)
Behind(later, sooner) ==
    \E i, j \in DOMAIN queue : i < j /\ queue[i].do \in sooner /\ queue[j].do = later

(* Handling a navigation puts its commands behind all that is under way. A *)
(* command of the user's behind a navigation is therefore overtaken: it is *)
(* handled before what the navigation replays. So is one with a refresh    *)
(* behind it: what is replayed then was chosen without it.                 *)
Crossed ==
    \/ Behind("command", {"undo", "redo", "pick"})
    \/ Behind("replay", {"command"})

(* What the tab shows, and will when the replays under way are handled, is *)
(* what the commands before the position say.                              *)
InStep ==
    LET After[n \in 0..Len(queue)] ==
            IF n = 0 THEN view
            ELSE IF queue[n].do = "replay" THEN ShowAll(After[n - 1], queue[n].commands)
            ELSE After[n - 1]
    IN  After[Len(queue)] = ShowAll(<<>>, SubSeq(list, 1, at))

(* Back, Forward, the menu and refreshing lose nothing and add nothing,    *)
(* though Forward sends only the commands it passes and several of them    *)
(* may be under way together with commands: a tab in step with its history *)
(* stays so, unless indexing ends, or a command is sent while a navigation *)
(* is under way, or a refresh while a command is.                          *)
ShowsHistory ==
    [][~owed /\ ~Crossed /\ InStep => owed' \/ Crossed' \/ InStep']_undoVars

(* The handlers walk back from the position without asking where the list  *)
(* begins: there is always an activation at its start, before the position.*)
WalksStayInside ==
    list # <<>> => at >= 1 /\ at <= Len(list) /\ IsActivation(1)

(* Forward undoes Back: after any commands, navigation and indexing, going *)
(* back and forward leads to where one was.                                *)
RedoUndoesUndo ==
    LET back == UndoTarget(at)
    IN  list # <<>> /\ back > 0 => RedoTarget(back) = at

(* As long as there is something to go forward to, the button is enabled;  *)
(* nothing takes it away but a click on an entry of the menu that is not   *)
(* there any more when the click is handled.                               *)
ForwardShown == at < Len(list) => redoOn
ClickMisses ==
    /\ queue # <<>> /\ HandlePick(Head(queue))
    /\ Clicked(Head(queue)) \notin DOMAIN ActivationsOf(list)
RedoOffered == [][ForwardShown => ForwardShown' \/ ClickMisses]_undoVars

(* The menu lists the activations as a click on it will count them, and    *)
(* marks the one on show.                                                  *)
MenuInStep ==
    LET acts == ActivationsOf(list)
        Entry(i) == list[acts[i + menu.offset + 1]]
    IN  Quiet /\ list # <<>> =>
            /\ \A i \in 0..(Len(menu.shown) - 1) :
                   /\ i + menu.offset < Len(acts)
                   /\ menu.shown[i + 1] = Entry(i)
            /\ menu.current \in 0..(Len(menu.shown) - 1)
            /\ Entry(menu.current) = list[ReplayStart(at)]

-----------------------------------------------------------------------------
(* What the code does not keep to.                                         *)

(* When all messages are handled, whatever crossed on the way, the tab     *)
(* shows what the commands before the position say. TLC refutes it.        *)
QuietShowsHistory == Quiet => view = ShowAll(<<>>, SubSeq(list, 1, at))

(* "Both buttons are only enabled when the respective actions are          *)
(* available at the moment" (DOCUMENTATION.md:987). The end of indexing    *)
(* drops commands and leaves the buttons.                                  *)
ButtonsOnlyWhenAvailable ==
    /\ undoOn => list # <<>> /\ UndoTarget(at) > 0
    /\ redoOn => at < Len(list)

(* Whenever there is something to go back to, the button is enabled. A     *)
(* click in the menu asks for an earlier activation only, not for an edge  *)
(* or a definition behind the first; the end of indexing does not ask.     *)
UndoOffered == list # <<>> /\ UndoTarget(at) > 0 => undoOn

(* Refreshing the interface sends again what is shown. While the first     *)
(* activation is shown it activates the overview, whatever was active.     *)
RefreshKeepsActivation ==
    [][RefreshUIState(FALSE) /\ list # <<>> =>
           Last(queue').do = "replay"]_undoVars
=============================================================================
