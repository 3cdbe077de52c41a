-------------------------------- MODULE TcpUi --------------------------------
(***************************************************************************)
(* The text interface of the receiver: main makes a menu of the stations,  *)
(* the manager hands it to the handlers of the clients, each of which      *)
(* writes it to its connection; the listener accepts clients, and the      *)
(* codes receiver of a client ends its handler when the client closes.     *)
(* (The keys that it passes on are in Stations, the end of the program is  *)
(* in SmartThread.)                                                        *)
(*                                                                         *)
(* The mutex cv_m of the manager is held in its states "visit" and "lock", *)
(* that of a handler in its state "update"; everybody else does what he    *)
(* does under one of them in a step.                                       *)
(*                                                                         *)
(* A definition that stands directly before another one and has its name   *)
(* with a word more is a mutant of it, a plausible slip in the code.       *)
(***************************************************************************)
EXTENDS Integers, Sequences, SequencesExt

CONSTANTS
  Connections,   \* bound: how many connections clients open, one after another
  Slow,          \* the clients that may stop to read
  Leaving,       \* the clients that may close their connection
  CLIENTS_MAX,
  Lists,         \* station lists: channels, and the place of chosen_channel
  NoStations,    \* the list at the beginning
  MaxUpdates,    \* bound: how often main updates the menu
  None

Clients == 1 .. Connections

ASSUME TcpAssumption ==
  /\ Connections \in Nat /\ None \notin Clients
  /\ Slow \subseteq Clients /\ Leaving \subseteq Clients
  /\ CLIENTS_MAX \in Nat \ {0} /\ MaxUpdates \in Nat
  /\ NoStations = [channels |-> <<>>, chosen |-> 0]
  /\ \A l \in Lists : l.chosen \in 1 .. Len(l.channels)

\* Numbers of open connections; the system gives the lowest that is free.
Descriptors == Clients

VARIABLES
  stations, updates, main_pc, ui_menu,            \* main
  manager, to_write, clients_handlers, clients_count,
  listener, accepted,            \* the listener, and whom it has accepted last
  handler, fd,                   \* the handlers, and their connections
  owner,                         \* whose connection has a number
  closed,                        \* clients that have closed their connection
  shown,                         \* the last text each client got of its handler
  misled,                        \* who got the text of another one's
  crashed

mainVars == <<stations, updates, main_pc, ui_menu>>
managerVars == <<manager, to_write, clients_handlers, clients_count>>
listenerVars == <<listener, accepted>>
netVars == <<fd, owner, closed, shown, misled>>
vars == <<mainVars, managerVars, listenerVars, handler, netVars, crashed>>

-----------------------------------------------------------------------------
\* UIMenu: the titles, and which of them is selected.
SetRoot(titles) ==
  [titles |-> titles, selected |-> IF titles = <<>> THEN 0 ELSE 1]

SelectNext(menu) ==
  IF menu.selected < Len(menu.titles) THEN [menu EXCEPT !.selected = @ + 1]
  ELSE menu

\* create_menu: the selection is moved as far as the chosen station is.
Shift(list) == IF list.chosen = 0 THEN 0 ELSE list.chosen - 1
CreateMenu(list) ==
  FoldLeft(LAMBDA menu, i : SelectNext(menu), SetRoot(list.channels),
           [i \in 1 .. Shift(list) |-> i])

\* A line for each title, the selected one with a mark.
Text(menu) ==
  [i \in 1 .. Len(menu.titles) |-> <<menu.titles[i], i = menu.selected>>]

-----------------------------------------------------------------------------
NoHandler == [pc |-> "none", text |-> <<>>, writing |-> <<>>,
              notified |-> FALSE, terminating |-> FALSE, released |-> FALSE]

TcpTypeOK ==
  /\ main_pc \in {"idle", "update"}
  /\ manager.pc \in {"wait", "asleep", "visit", "lock"}
  /\ listener \in {"check", "accept", "add"}
  /\ \A c \in Clients :
       handler[c].pc \in {"none", "first", "write", "loop", "asleep", "update",
                          "gone"}
  /\ fd \in [Clients -> Descriptors \cup {0}]
  /\ owner \in [Descriptors -> Clients \cup {None}]
  /\ clients_count \in 0 .. CLIENTS_MAX

TcpInit ==
  /\ stations = NoStations /\ updates = 0 /\ main_pc = "idle"
  /\ ui_menu = CreateMenu(NoStations)
  /\ manager = [pc |-> "wait", notified |-> FALSE, rest |-> <<>>]
  /\ to_write = Text(ui_menu)
  /\ clients_handlers = <<>> /\ clients_count = 0
  /\ listener = "check" /\ accepted = None
  /\ handler = [c \in Clients |-> NoHandler]
  /\ fd = [c \in Clients |-> 0]
  /\ owner = [d \in Descriptors |-> None]
  /\ closed = {}
  /\ shown = [c \in Clients |-> None]
  /\ misled = {}
  /\ crashed = FALSE

ManagerHolds == manager.pc \in {"visit", "lock"}
HandlerHolds(c) == handler[c].pc = "update"

\* notify_without_lock_quard()
Notified(thread, waiting) ==
  [thread EXCEPT !.notified = TRUE,
                 !.pc = IF @ = "asleep" THEN waiting ELSE @]

-----------------------------------------------------------------------------
\* Main has changed the list, or the choice, and holds channels_mutex.
MainChangesStations ==
  /\ main_pc = "idle" /\ updates < MaxUpdates
  /\ stations' \in Lists
  /\ updates' = updates + 1
  /\ main_pc' = "update"
  /\ UNCHANGED <<ui_menu, managerVars, listenerVars, handler, netVars, crashed>>

UpdateTcpClients ==
  /\ main_pc = "update" /\ ~ManagerHolds
  /\ ui_menu' = CreateMenu(stations)
  /\ manager' = Notified(manager, "wait")
  /\ main_pc' = "idle"
  /\ UNCHANGED <<stations, updates, to_write, clients_handlers, clients_count,
                 listenerVars, handler, netVars, crashed>>

-----------------------------------------------------------------------------
\* wait_until_notifying, and the text for everybody.
ManagerWaits ==
  /\ manager.pc = "wait" /\ ~manager.notified
  /\ manager' = [manager EXCEPT !.pc = "asleep"]
  /\ UNCHANGED <<mainVars, to_write, clients_handlers, clients_count,
                 listenerVars, handler, netVars, crashed>>

SetWriteTo ==
  /\ manager.pc = "wait" /\ manager.notified
  /\ to_write' = Text(ui_menu)
  /\ manager' = [pc |-> "visit", notified |-> FALSE, rest |-> clients_handlers]
  /\ UNCHANGED <<mainVars, clients_handlers, clients_count, listenerVars,
                 handler, netVars, crashed>>

\* Where the iterator of the loop stands.
Place == Len(clients_handlers) - Len(manager.rest) + 1

CountWithoutNone == clients_count
CountWithout == clients_count - 1

\* The loop erases a handler that was told to end, and then steps the iterator
\* to it: it goes on to the next one or, where the memory is used again, faults.
VisitEnding ==
  /\ manager.pc = "visit" /\ manager.rest # <<>>
  /\ handler[Head(manager.rest)].terminating
  /\ clients_handlers' = RemoveAt(clients_handlers, Place)
  /\ clients_count' = CountWithout
  /\ manager' = [manager EXCEPT !.rest = Tail(@)]
  /\ crashed' \in BOOLEAN
  /\ UNCHANGED <<mainVars, to_write, listenerVars, handler, netVars>>

VisitOther ==
  /\ manager.pc = "visit" /\ manager.rest # <<>>
  /\ ~handler[Head(manager.rest)].terminating
  /\ manager' = [manager EXCEPT !.pc = "lock"]
  /\ UNCHANGED <<mainVars, to_write, clients_handlers, clients_count,
                 listenerVars, handler, netVars, crashed>>

\* The manager waits here for a handler that is writing.
GiveTextSilently(c) == [handler[c] EXCEPT !.text = to_write]
GiveText(c) == [Notified(handler[c], "loop") EXCEPT !.text = to_write]

PassText ==
  /\ manager.pc = "lock"
  /\ LET c == Head(manager.rest)
     IN /\ ~HandlerHolds(c)
        /\ handler' = [handler EXCEPT ![c] = GiveText(c)]
  /\ manager' = [manager EXCEPT !.pc = "visit", !.rest = Tail(@)]
  /\ UNCHANGED <<mainVars, to_write, clients_handlers, clients_count,
                 listenerVars, netVars, crashed>>

EndUpdate ==
  /\ manager.pc = "visit" /\ manager.rest = <<>>
  /\ manager' = [manager EXCEPT !.pc = "wait"]
  /\ UNCHANGED <<mainVars, to_write, clients_handlers, clients_count,
                 listenerVars, handler, netVars, crashed>>

ManagerStep ==
  ManagerWaits \/ SetWriteTo \/ VisitEnding \/ VisitOther \/ PassText
    \/ EndUpdate

-----------------------------------------------------------------------------
\* The number is looked at without the mutex, before accept.
MayAcceptOneMore == clients_count <= CLIENTS_MAX
MayAccept == clients_count < CLIENTS_MAX

CheckCount ==
  /\ listener = "check" /\ MayAccept
  /\ listener' = "accept"
  /\ UNCHANGED <<mainVars, managerVars, accepted, handler, netVars, crashed>>

IsLowestFree(d) == owner[d] = None /\ \A e \in 1 .. d - 1 : owner[e] # None

Accept(c) ==
  /\ listener = "accept"
  /\ fd[c] = 0 /\ \A b \in Clients : b < c => fd[b] # 0
  /\ \E d \in Descriptors : /\ IsLowestFree(d)
                             /\ fd' = [fd EXCEPT ![c] = d]
                             /\ owner' = [owner EXCEPT ![d] = c]
  /\ accepted' = c
  /\ listener' = "add"
  /\ UNCHANGED <<mainVars, managerVars, handler, closed, shown, misled,
                 crashed>>

AddHandler ==
  /\ listener = "add" /\ ~ManagerHolds
  /\ clients_handlers' = Append(clients_handlers, accepted)
  /\ clients_count' = clients_count + 1
  /\ handler' = [handler EXCEPT ![accepted].pc = "first",
                                ![accepted].text = to_write]
  /\ listener' = "check"
  /\ UNCHANGED <<mainVars, manager, to_write, accepted, netVars, crashed>>

-----------------------------------------------------------------------------
\* The release function of a handler, once; the number is free again.
Release(c, h) ==
  /\ handler' = [handler EXCEPT ![c] = [h EXCEPT !.released = TRUE]]
  /\ owner' = IF handler[c].released THEN owner
              ELSE [owner EXCEPT ![fd[c]] = None]

\* configure_telnet_client() stands outside of any try.
ConfigureThrows(c) ==
  /\ handler[c].pc = "first" /\ c \in closed
  /\ Release(c, [handler[c] EXCEPT !.pc = "gone"])
  /\ UNCHANGED <<mainVars, managerVars, listenerVars, fd, closed, shown,
                 misled, crashed>>

\* write_ui() for the first time, without the mutex.
FirstTest(c) ==
  /\ handler[c].pc = "first"
  /\ LET h == handler[c]
     IN handler' = [handler EXCEPT ![c] =
          IF h.terminating THEN [h EXCEPT !.pc = "loop"]
          ELSE [h EXCEPT !.pc = "write", !.writing = h.text]]
  /\ UNCHANGED <<mainVars, managerVars, listenerVars, netVars, crashed>>

\* wait_until_notifying(), and write_ui() under the mutex that it leaves held.
Wait(c) ==
  /\ handler[c].pc = "loop"
  /\ LET h == handler[c]
     IN handler' = [handler EXCEPT ![c] =
          IF h.terminating THEN [h EXCEPT !.pc = "gone"]
          ELSE IF ~h.notified THEN [h EXCEPT !.pc = "asleep"]
          ELSE [h EXCEPT !.pc = "update", !.notified = FALSE,
                         !.writing = h.text]]
  /\ UNCHANGED <<mainVars, managerVars, listenerVars, netVars, crashed>>

\* Whose connection has the number of c now, and has not been closed there.
Reader(c) == owner[fd[c]]

Written(c) ==
  /\ handler[c].pc \in {"write", "update"}
  /\ handler' = [handler EXCEPT ![c].pc = "loop", ![c].writing = <<>>]
  /\ shown' = IF Reader(c) = c /\ c \notin closed
              THEN [shown EXCEPT ![c] = handler[c].writing] ELSE shown
  /\ misled' = misled \cup ({Reader(c)} \ {c, None})
  /\ UNCHANGED <<mainVars, managerVars, listenerVars, fd, owner, closed,
                 crashed>>

\* Nobody handles SIGPIPE.
BrokenPipe(c) ==
  /\ handler[c].pc \in {"write", "update"} /\ Reader(c) \in closed
  /\ crashed' = TRUE
  /\ UNCHANGED <<mainVars, managerVars, listenerVars, handler, netVars>>

HandlerStep(c) == FirstTest(c) \/ Wait(c)

\* The codes receiver reads the end of the connection and terminates the
\* handler, which needs its mutex.
MayTerminateUnlocked(c) == TRUE
MayTerminate(c) == ~HandlerHolds(c)

TerminateHandler(c) ==
  /\ c \in closed \/ handler[c].released
  /\ handler[c].pc # "none" /\ ~handler[c].terminating
  /\ MayTerminate(c)
  /\ Release(c, [handler[c] EXCEPT !.terminating = TRUE,
                                   !.pc = IF @ = "asleep" THEN "loop" ELSE @])
  /\ UNCHANGED <<mainVars, managerVars, listenerVars, fd, closed, shown,
                 misled, crashed>>

ClientCloses(c) ==
  /\ c \in Leaving /\ fd[c] # 0
  /\ closed' = closed \cup {c}
  /\ shown' = [shown EXCEPT ![c] = None]
  /\ UNCHANGED <<mainVars, managerVars, listenerVars, handler, fd, owner,
                 misled, crashed>>

-----------------------------------------------------------------------------
TcpNext ==
  /\ ~crashed
  /\ \/ MainChangesStations \/ UpdateTcpClients
     \/ ManagerStep
     \/ CheckCount \/ AddHandler
     \/ \E c \in Clients :
          \/ Accept(c) \/ ConfigureThrows(c) \/ HandlerStep(c) \/ Written(c)
          \/ BrokenPipe(c) \/ TerminateHandler(c) \/ ClientCloses(c)

TcpSpec == TcpInit /\ [][TcpNext]_vars

\* The threads are scheduled and get a mutex that is free again and again; a
\* client that is not slow reads what it is sent.
FairTcpSpec ==
  /\ TcpSpec
  /\ SF_vars(~crashed /\ UpdateTcpClients)
  /\ WF_vars(~crashed /\ ManagerStep)
  /\ SF_vars(~crashed /\ AddHandler)
  /\ \A c \in Clients :
       /\ WF_vars(~crashed /\ HandlerStep(c))
       /\ c \notin Slow => WF_vars(~crashed /\ Written(c))

-----------------------------------------------------------------------------
\* The number of clients and the list agree whenever the mutex is free, and
\* the limit holds although it is tested before the client is accepted.
CountMatchesHandlers ==
  ~ManagerHolds => /\ clients_count = Len(clients_handlers)
                   /\ clients_count <= CLIENTS_MAX

\* A new menu is never written to a connection that was closed, and so not to
\* another client that was given its number: the handler is not told to end
\* while it writes.  (The first text can go astray so.)
UpdatesGoToTheirClient ==
  \A c \in Clients : handler[c].pc = "update" => Reader(c) = c

\* What a client should see of the stations.
Expected(list) ==
  [i \in 1 .. Len(list.channels) |-> <<list.channels[i], i = list.chosen>>]

\* Whoever was accepted and reads is in the end shown the stations as they
\* are, with the chosen one marked, and main is not held up by the interface,
\* whatever the other clients do: which the specification demands even if some
\* of them are slow.
ReadersAreServed ==
  \A c \in Clients \ Slow :
    []<>(\/ main_pc = "idle" /\ shown[c] = Expected(stations)
         \/ fd[c] = 0 \/ c \in closed \cup misled \/ crashed)
=============================================================================
