----------------------------- MODULE TcpUiProofs -----------------------------
(***************************************************************************)
(* Whose connection a handler writes to, and how many clients there are,   *)
(* for every number of connections, every limit of clients and every list  *)
(* of stations.                                                            *)
(***************************************************************************)
EXTENDS TcpUi, TLAPS

\* A handler is a record with these fields.
HasFields(h) ==
  h \in [pc : {h.pc}, text : {h.text}, writing : {h.writing},
         notified : {h.notified}, terminating : {h.terminating},
         released : {h.released}]

\* A connection whose handler has not been released is its client's, and so is
\* one that was accepted and has no handler yet.
IsOpen(c) ==
  \/ handler[c].pc # "none" /\ ~handler[c].released
  \/ listener = "add" /\ accepted = c

OwnInv ==
  /\ fd \in [Clients -> Descriptors \cup {0}]
  /\ owner \in [Descriptors -> Clients \cup {None}]
  /\ DOMAIN handler = Clients
  /\ handler = [c \in Clients |-> handler[c]]
  /\ listener = "add" => accepted \in Clients /\ handler[accepted].pc = "none"
  /\ \A c \in Clients :
       /\ HasFields(handler[c])
       /\ {handler[c].terminating, handler[c].released} \subseteq BOOLEAN
       /\ IsOpen(c) => fd[c] # 0 /\ owner[fd[c]] = c
       /\ fd[c] = 0 => handler[c].pc = "none"
       /\ handler[c].pc = "none"
            => ~handler[c].released /\ ~handler[c].terminating
       /\ handler[c].released => handler[c].terminating \/ handler[c].pc = "gone"
       /\ handler[c].pc = "update" => ~handler[c].terminating

-----------------------------------------------------------------------------
\* The invariant says what the property does.
LEMMA OwnInvImplies == OwnInv => UpdatesGoToTheirClient
BY DEF OwnInv, UpdatesGoToTheirClient, Reader, IsOpen

\* It speaks of the handlers, the numbers and the listener only.
LEMMA OwnInvUnchanged ==
  ASSUME OwnInv, UNCHANGED <<handler, fd, owner, listener, accepted>>
  PROVE  OwnInv'
BY DEF OwnInv, IsOpen, HasFields

\* A handler that has a number and goes on in its loop keeps it.
LEMMA HandlerGoesOn ==
  ASSUME OwnInv, NEW c, NEW h,
         UNCHANGED <<fd, owner, listener, accepted>>,
         handler' = [handler EXCEPT ![c] = h],
         c \in Clients =>
           /\ HasFields(h)
           /\ h.terminating = handler[c].terminating
           /\ h.released = handler[c].released
           /\ handler[c].pc = "none" <=> h.pc = "none"
           /\ handler[c].pc = "gone" => h.pc = "gone"
           /\ h.pc = "update" => ~h.terminating
  PROVE  OwnInv'
<1>1. \A x \in Clients : handler'[x] = IF x = c THEN h ELSE handler[x]
  BY DEF OwnInv
<1>2. /\ fd' = fd /\ owner' = owner /\ listener' = listener
      /\ accepted' = accepted
  OBVIOUS
<1>3. DOMAIN handler' = Clients /\ handler' = [x \in Clients |-> handler'[x]]
  BY DEF OwnInv
<1>4. listener' = "add" => accepted' \in Clients /\ handler'[accepted'].pc = "none"
  BY <1>1, <1>2 DEF OwnInv
<1>5. ASSUME NEW x \in Clients
      PROVE  /\ HasFields(handler'[x])
             /\ handler'[x].terminating = handler[x].terminating
             /\ handler'[x].released = handler[x].released
             /\ handler[x].pc = "none" <=> handler'[x].pc = "none"
             /\ handler[x].pc = "gone" => handler'[x].pc = "gone"
             /\ handler'[x].pc = "update" => ~handler'[x].terminating
  BY <1>1 DEF OwnInv
<1>. QED
  BY <1>2, <1>3, <1>4, <1>5 DEF OwnInv, IsOpen, HasFields

\* The release of a handler frees nothing but its own number.
LEMMA ReleaseKeepsOwnInv ==
  ASSUME OwnInv, NEW c \in Clients, NEW h, Release(c, h),
         UNCHANGED <<fd, listener, accepted>>,
         handler[c].pc # "none", HasFields(h), h.pc \notin {"none", "update"},
         h.terminating \in BOOLEAN, h.terminating \/ h.pc = "gone"
  PROVE  OwnInv'
<1>. DEFINE r == [h EXCEPT !.released = TRUE]
<1>1. HasFields(r) /\ r.released = TRUE /\ r.pc = h.pc
      /\ r.terminating = h.terminating
  BY DEF HasFields
<1>2. handler' = [handler EXCEPT ![c] = r]
  BY DEF Release
<1>. HIDE DEF r
<1>3. \A x \in Clients : handler'[x] = IF x = c THEN r ELSE handler[x]
  BY <1>2 DEF OwnInv
<1>4. DOMAIN handler' = Clients /\ handler' = [x \in Clients |-> handler'[x]]
  BY <1>2 DEF OwnInv
<1>5. fd' = fd /\ listener' = listener /\ accepted' = accepted
  OBVIOUS
<1>6. owner' \in [Descriptors -> Clients \cup {None}]
  BY DEF OwnInv, Release
<1>7. accepted # c \/ listener # "add"
  BY DEF OwnInv
<1>8. ASSUME NEW x \in Clients, IsOpen(x)' PROVE fd[x] # 0 /\ owner'[fd[x]] = x
  <2>1. x # c /\ IsOpen(x)
    BY <1>1, <1>3, <1>5, <1>7, <1>8 DEF IsOpen
  <2>2. fd[x] # 0 /\ owner[fd[x]] = x
    BY <2>1 DEF OwnInv
  <2>3. CASE handler[c].released
    BY <2>2, <2>3 DEF Release
  <2>4. CASE ~handler[c].released
    <3>1. owner[fd[c]] = c
      BY <2>4 DEF OwnInv, IsOpen
    <3>2. owner' = [owner EXCEPT ![fd[c]] = None]
      BY <2>4 DEF Release
    <3>. QED
      BY <2>1, <2>2, <3>1, <3>2 DEF OwnInv
  <2>. QED
    BY <2>3, <2>4
<1>9. listener' = "add" => accepted' \in Clients /\ handler'[accepted'].pc = "none"
  BY <1>3, <1>5, <1>7 DEF OwnInv
<1>10. ASSUME NEW x \in Clients
       PROVE  /\ HasFields(handler'[x])
              /\ {handler'[x].terminating, handler'[x].released} \subseteq BOOLEAN
              /\ fd'[x] = 0 => handler'[x].pc = "none"
              /\ handler'[x].pc = "none"
                   => ~handler'[x].released /\ ~handler'[x].terminating
              /\ handler'[x].released
                   => handler'[x].terminating \/ handler'[x].pc = "gone"
              /\ handler'[x].pc = "update" => ~handler'[x].terminating
  <2>1. CASE x = c
    <3>1. handler'[x] = r /\ fd' = fd
      BY <1>3, <1>5, <2>1
    <3>2. fd[x] # 0
      BY <2>1 DEF OwnInv
    <3>. QED
      BY <1>1, <3>1, <3>2
  <2>2. CASE x # c
    BY <1>3, <1>5, <2>2 DEF OwnInv
  <2>. QED
    BY <2>1, <2>2
<1>11. fd' \in [Clients -> Descriptors \cup {0}]
  BY <1>5 DEF OwnInv
<1>. QED
  BY <1>4, <1>5, <1>6, <1>8, <1>9, <1>10, <1>11 DEF OwnInv, HasFields

\* A client that is accepted gets a number that nobody has.
LEMMA AcceptKeepsOwnInv ==
  ASSUME OwnInv, NEW c \in Clients, Accept(c)
  PROVE  OwnInv'
<1>1. PICK d \in Descriptors : /\ owner[d] = None
                              /\ fd' = [fd EXCEPT ![c] = d]
                              /\ owner' = [owner EXCEPT ![d] = c]
  BY DEF Accept, IsLowestFree
<1>2. /\ fd[c] = 0 /\ listener = "accept"
      /\ listener' = "add" /\ accepted' = c /\ handler' = handler
  BY DEF Accept
<1>3. d # 0 /\ None \notin Clients
  BY TcpAssumption DEF TcpAssumption, Descriptors, Clients
<1>4. handler[c].pc = "none"
  BY <1>2 DEF OwnInv
<1>5. /\ fd' \in [Clients -> Descriptors \cup {0}]
      /\ owner' \in [Descriptors -> Clients \cup {None}]
  BY <1>1 DEF OwnInv
<1>6. ASSUME NEW x \in Clients, IsOpen(x)' PROVE fd'[x] # 0 /\ owner'[fd'[x]] = x
  <2>1. CASE x = c
    BY <1>1, <1>3, <2>1 DEF OwnInv
  <2>2. CASE x # c
    <3>1. IsOpen(x)
      BY <1>2, <1>6, <2>2 DEF IsOpen
    <3>2. fd[x] # 0 /\ owner[fd[x]] = x /\ fd'[x] = fd[x]
      BY <1>1, <2>2, <3>1 DEF OwnInv
    <3>3. fd[x] # d
      BY <1>1, <1>3, <3>2
    <3>. QED
      BY <1>1, <3>2, <3>3 DEF OwnInv
  <2>. QED
    BY <2>1, <2>2
<1>7. \A x \in Clients : fd'[x] = 0 => fd[x] = 0
  BY <1>1, <1>3 DEF OwnInv
<1>. QED
  BY <1>2, <1>4, <1>5, <1>6, <1>7 DEF OwnInv, HasFields

\* The handler of a client that was accepted begins.
LEMMA AddHandlerKeepsOwnInv ==
  ASSUME OwnInv, AddHandler
  PROVE  OwnInv'
<1>. DEFINE h == [handler[accepted] EXCEPT !.pc = "first", !.text = to_write]
<1>1. accepted \in Clients /\ handler[accepted].pc = "none"
      /\ HasFields(handler[accepted]) /\ IsOpen(accepted)
  BY DEF OwnInv, AddHandler, IsOpen
<1>2. /\ HasFields(h) /\ h.pc = "first"
      /\ h.terminating = handler[accepted].terminating
      /\ h.released = handler[accepted].released
  BY <1>1 DEF HasFields
<1>3. handler' = [handler EXCEPT ![accepted] = h]
  BY <1>1 DEF AddHandler, OwnInv
<1>. HIDE DEF h
<1>4. /\ listener' = "check" /\ fd' = fd /\ owner' = owner
  BY DEF AddHandler, netVars
<1>5. \A x \in Clients : handler'[x] = IF x = accepted THEN h ELSE handler[x]
  BY <1>1, <1>3 DEF OwnInv
<1>6. DOMAIN handler' = Clients /\ handler' = [x \in Clients |-> handler'[x]]
  BY <1>3 DEF OwnInv
<1>7. ASSUME NEW x \in Clients, IsOpen(x)' PROVE fd[x] # 0 /\ owner[fd[x]] = x
  <2>1. IsOpen(x)
    BY <1>1, <1>2, <1>4, <1>5, <1>7 DEF IsOpen
  <2>. QED
    BY <2>1 DEF OwnInv
<1>8. ASSUME NEW x \in Clients
      PROVE  /\ HasFields(handler'[x])
             /\ {handler'[x].terminating, handler'[x].released} \subseteq BOOLEAN
             /\ fd'[x] = 0 => handler'[x].pc = "none"
             /\ handler'[x].pc = "none"
                  => ~handler'[x].released /\ ~handler'[x].terminating
             /\ handler'[x].released
                  => handler'[x].terminating \/ handler'[x].pc = "gone"
             /\ handler'[x].pc = "update" => ~handler'[x].terminating
  <2>1. CASE x = accepted
    BY <1>1, <1>2, <1>4, <1>5, <2>1 DEF OwnInv
  <2>2. CASE x # accepted
    BY <1>4, <1>5, <2>2 DEF OwnInv
  <2>. QED
    BY <2>1, <2>2
<1>. QED
  BY <1>4, <1>6, <1>7, <1>8 DEF OwnInv, HasFields

\* The steps of a handler in its loop.
LEMMA HandlerStepKeepsOwnInv ==
  ASSUME OwnInv, NEW c \in Clients, FirstTest(c) \/ Wait(c) \/ Written(c)
  PROVE  OwnInv'
<1>. DEFINE h == handler[c]
            ended == [h EXCEPT !.pc = "loop"]
            first == [h EXCEPT !.pc = "write", !.writing = h.text]
            gone == [h EXCEPT !.pc = "gone"]
            asleep == [h EXCEPT !.pc = "asleep"]
            update == [h EXCEPT !.pc = "update", !.notified = FALSE,
                                !.writing = h.text]
            written == [h EXCEPT !.pc = "loop", !.writing = <<>>]
            SameEnd(g) == /\ HasFields(g) /\ g.terminating = h.terminating
                          /\ g.released = h.released
<1>1. HasFields(h)
  BY DEF OwnInv
<1>2. SameEnd(ended) /\ ended.pc = "loop" /\ SameEnd(first) /\ first.pc = "write"
  BY <1>1 DEF HasFields
<1>3. SameEnd(gone) /\ gone.pc = "gone" /\ SameEnd(asleep) /\ asleep.pc = "asleep"
  BY <1>1 DEF HasFields
<1>4. SameEnd(update) /\ update.pc = "update" /\ SameEnd(written) /\ written.pc = "loop"
  BY <1>1 DEF HasFields
<1>5. UNCHANGED <<fd, owner, listener, accepted>>
  BY DEF FirstTest, Wait, Written, netVars, listenerVars
<1>6. CASE FirstTest(c)
  <2>1. h.pc = "first" /\ \/ handler' = [handler EXCEPT ![c] = ended]
                          \/ handler' = [handler EXCEPT ![c] = first]
    BY <1>6 DEF FirstTest
  <2>. HIDE DEF ended, first
  <2>. QED
    BY <1>2, <1>5, <2>1, HandlerGoesOn
<1>7. CASE Wait(c)
  <2>1. h.pc = "loop" /\ \/ handler' = [handler EXCEPT ![c] = gone]
                         \/ handler' = [handler EXCEPT ![c] = asleep]
                         \/ ~h.terminating /\ handler' = [handler EXCEPT ![c] = update]
    BY <1>7 DEF Wait
  <2>. HIDE DEF gone, asleep, update
  <2>. QED
    BY <1>3, <1>4, <1>5, <2>1, HandlerGoesOn
<1>8. CASE Written(c)
  <2>1. h.pc \in {"write", "update"} /\ handler' = [handler EXCEPT ![c] = written]
    BY <1>8 DEF Written, OwnInv
  <2>. HIDE DEF written
  <2>. QED
    BY <1>4, <1>5, <2>1, HandlerGoesOn
<1>. QED
  BY <1>6, <1>7, <1>8

\* The end of a handler, of itself or by its codes receiver.
LEMMA EndKeepsOwnInv ==
  ASSUME OwnInv, NEW c \in Clients, ConfigureThrows(c) \/ TerminateHandler(c)
  PROVE  OwnInv'
<1>. DEFINE h == handler[c]
            thrown == [h EXCEPT !.pc = "gone"]
            told == [h EXCEPT !.terminating = TRUE,
                              !.pc = IF @ = "asleep" THEN "loop" ELSE @]
<1>1. HasFields(h) /\ h.terminating \in BOOLEAN
  BY DEF OwnInv
<1>2. HasFields(thrown) /\ thrown.pc = "gone" /\ thrown.terminating = h.terminating
  BY <1>1 DEF HasFields
<1>3. /\ HasFields(told) /\ told.terminating = TRUE
      /\ told.pc = IF h.pc = "asleep" THEN "loop" ELSE h.pc
  BY <1>1 DEF HasFields
<1>4. UNCHANGED <<fd, listener, accepted>>
  BY DEF ConfigureThrows, TerminateHandler, listenerVars
<1>5. CASE ConfigureThrows(c)
  <2>1. h.pc = "first" /\ Release(c, thrown)
    BY <1>5 DEF ConfigureThrows
  <2>. HIDE DEF thrown
  <2>. QED
    BY <1>1, <1>2, <1>4, <2>1, ReleaseKeepsOwnInv
<1>6. CASE TerminateHandler(c)
  <2>1. h.pc \notin {"none", "update"} /\ Release(c, told)
    BY <1>6 DEF TerminateHandler, MayTerminate, HandlerHolds
  <2>. HIDE DEF told
  <2>. QED
    BY <1>3, <1>4, <2>1, ReleaseKeepsOwnInv
<1>. QED
  BY <1>5, <1>6

\* The text that the manager hands to a handler.
LEMMA PassTextKeepsOwnInv ==
  ASSUME OwnInv, PassText
  PROVE  OwnInv'
<1>. DEFINE c == Head(manager.rest)
            h == GiveText(c)
<1>1. ASSUME c \in Clients
      PROVE  /\ HasFields(h)
             /\ h.terminating = handler[c].terminating
             /\ h.released = handler[c].released
             /\ h.pc = IF handler[c].pc = "asleep" THEN "loop" ELSE handler[c].pc
  <2>1. HasFields(handler[c])
    BY <1>1 DEF OwnInv
  <2>. QED
    BY <2>1 DEF HasFields, GiveText, Notified
<1>2. handler' = [handler EXCEPT ![c] = h] /\ ~HandlerHolds(c)
  BY DEF PassText
<1>3. UNCHANGED <<fd, owner, listener, accepted>>
  BY DEF PassText, netVars, listenerVars
<1>. HIDE DEF h, c
<1>. QED
  BY <1>1, <1>2, <1>3, HandlerGoesOn DEF HandlerHolds

\* At the beginning nobody has a number; every step keeps the invariant.
THEOREM OwnInvIsInvariant == TcpSpec => []OwnInv
<1>1. TcpInit => OwnInv
  <2>. SUFFICES ASSUME TcpInit PROVE OwnInv
    OBVIOUS
  <2>1. /\ HasFields(NoHandler) /\ NoHandler.pc = "none"
        /\ NoHandler.terminating = FALSE /\ NoHandler.released = FALSE
    BY DEF NoHandler, HasFields
  <2>2. /\ handler = [c \in Clients |-> NoHandler] /\ listener = "check"
        /\ fd = [c \in Clients |-> 0] /\ owner = [d \in Descriptors |-> None]
    BY DEF TcpInit
  <2>. QED
    BY <2>1, <2>2 DEF OwnInv, IsOpen, HasFields
<1>2. OwnInv /\ [TcpNext]_vars => OwnInv'
  <2>. SUFFICES ASSUME OwnInv, [TcpNext]_vars PROVE OwnInv'
    OBVIOUS
  <2>1. CASE MainChangesStations
    BY <2>1, OwnInvUnchanged DEF MainChangesStations, listenerVars, netVars
  <2>2. CASE UpdateTcpClients
    BY <2>2, OwnInvUnchanged DEF UpdateTcpClients, listenerVars, netVars
  <2>3. CASE ManagerWaits
    BY <2>3, OwnInvUnchanged DEF ManagerWaits, listenerVars, netVars
  <2>4. CASE SetWriteTo
    BY <2>4, OwnInvUnchanged DEF SetWriteTo, listenerVars, netVars
  <2>5. CASE VisitEnding
    BY <2>5, OwnInvUnchanged DEF VisitEnding, listenerVars, netVars
  <2>6. CASE VisitOther
    BY <2>6, OwnInvUnchanged DEF VisitOther, listenerVars, netVars
  <2>7. CASE PassText
    BY <2>7, PassTextKeepsOwnInv
  <2>8. CASE EndUpdate
    BY <2>8, OwnInvUnchanged DEF EndUpdate, listenerVars, netVars
  <2>9. CASE CheckCount
    <3>1. /\ listener = "check" /\ listener' = "accept"
          /\ UNCHANGED <<handler, fd, owner, accepted>>
      BY <2>9 DEF CheckCount, netVars
    <3>. QED
      BY <3>1 DEF OwnInv, IsOpen, HasFields
  <2>10. CASE AddHandler
    BY <2>10, AddHandlerKeepsOwnInv
  <2>11. ASSUME NEW c \in Clients, Accept(c) PROVE OwnInv'
    BY <2>11, AcceptKeepsOwnInv
  <2>12. ASSUME NEW c \in Clients, ConfigureThrows(c) \/ TerminateHandler(c)
         PROVE  OwnInv'
    BY <2>12, EndKeepsOwnInv
  <2>13. ASSUME NEW c \in Clients, HandlerStep(c) \/ Written(c) PROVE OwnInv'
    BY <2>13, HandlerStepKeepsOwnInv DEF HandlerStep
  <2>14. ASSUME NEW c \in Clients, BrokenPipe(c) \/ ClientCloses(c)
         PROVE  OwnInv'
    BY <2>14, OwnInvUnchanged DEF BrokenPipe, ClientCloses, listenerVars, netVars
  <2>15. CASE UNCHANGED vars
    BY <2>15, OwnInvUnchanged DEF vars, listenerVars, netVars
  <2>. QED
    BY <2>1, <2>2, <2>3, <2>4, <2>5, <2>6, <2>7, <2>8, <2>9, <2>10, <2>11,
       <2>12, <2>13, <2>14, <2>15 DEF TcpNext, ManagerStep
<1>. QED
  BY <1>1, <1>2, PTL DEF TcpSpec

\* However many clients come and go, a handler that writes a new menu writes it
\* to the connection of its own client.
THEOREM EveryUpdateIsItsClients == TcpSpec => []UpdatesGoToTheirClient
BY OwnInvIsInvariant, OwnInvImplies, PTL

-----------------------------------------------------------------------------
\* The listener looks at the number of the clients before it accepts one, and
\* only the manager makes it smaller in the meantime.  The manager, which holds
\* its mutex while it goes through the handlers, has at most those before it
\* that are in the list.
ListInv ==
  /\ clients_handlers \in Seq(Clients)
  /\ clients_count = Len(clients_handlers) /\ clients_count <= CLIENTS_MAX
  /\ listener \in {"check", "accept", "add"}
  /\ listener # "check" => clients_count < CLIENTS_MAX

ManagerInv ==
  /\ manager \in [pc : {"wait", "asleep", "visit", "lock"},
                  notified : BOOLEAN, rest : Seq(Clients)]
  /\ ManagerHolds => Len(manager.rest) <= Len(clients_handlers)
  /\ manager.pc = "lock" => manager.rest # <<>>

HandlerStates ==
  {"none", "first", "write", "loop", "asleep", "update", "gone"}

CountInv ==
  /\ OwnInv /\ ListInv /\ ManagerInv
  /\ main_pc \in {"idle", "update"}
  /\ \A c \in Clients : handler[c].pc \in HandlerStates

\* The invariant says what the properties do.
LEMMA CountInvImplies == CountInv => CountMatchesHandlers /\ TcpTypeOK
<1>. SUFFICES ASSUME CountInv PROVE CountMatchesHandlers /\ TcpTypeOK
  OBVIOUS
<1>1. Len(clients_handlers) \in Nat /\ CLIENTS_MAX \in Nat
  BY TcpAssumption DEF CountInv, ListInv, TcpAssumption
<1>2. CountMatchesHandlers
  BY DEF CountInv, ListInv, CountMatchesHandlers
<1>3. clients_count \in 0 .. CLIENTS_MAX
  BY <1>1 DEF CountInv, ListInv
<1>. QED
  BY <1>2, <1>3 DEF CountInv, OwnInv, ListInv, ManagerInv, HandlerStates, TcpTypeOK

\* The steps that leave the list, the manager and the listener alone.
LEMMA OthersKeepCountInv ==
  ASSUME CountInv, OwnInv', main_pc' \in {"idle", "update"},
         UNCHANGED <<clients_handlers, clients_count, listener, manager>>,
         \A c \in Clients : handler'[c].pc \in HandlerStates
  PROVE  CountInv'
BY DEF CountInv, ListInv, ManagerInv, ManagerHolds, HandlerStates

\* The handler of one client has a state again.
LEMMA StatesStay ==
  ASSUME CountInv, NEW c, NEW h, handler' = [handler EXCEPT ![c] = h],
         c \in Clients => h.pc \in HandlerStates
  PROVE  \A x \in Clients : handler'[x].pc \in HandlerStates
BY DEF CountInv, OwnInv

\* Without one of its elements a sequence is by one shorter.
LEMMA OneIsRemoved ==
  ASSUME NEW S, NEW s \in Seq(S), NEW i \in 1 .. Len(s)
  PROVE  RemoveAt(s, i) \in Seq(S) /\ Len(RemoveAt(s, i)) = Len(s) - 1
<1>. DEFINE before == SubSeq(s, 1, i - 1)
            after == SubSeq(s, i + 1, Len(s))
<1>1. before \in Seq(S) /\ Len(before) = i - 1
  OBVIOUS
<1>2. after \in Seq(S) /\ Len(after) = Len(s) - i
  OBVIOUS
<1>3. RemoveAt(s, i) = before \o after
  BY DEF RemoveAt
<1>. HIDE DEF before, after
<1>4. before \o after \in Seq(S)
      /\ Len(before \o after) = Len(before) + Len(after)
  BY <1>1, <1>2, SMTT(30)
<1>. QED
  BY <1>1, <1>2, <1>3, <1>4

\* The manager goes to sleep, wakes up, and goes on in its list.
LEMMA ManagerKeepsCountInv ==
  ASSUME CountInv, OwnInv', ManagerStep
  PROVE  CountInv'
<1>1. /\ manager.rest \in Seq(Clients) /\ manager.notified \in BOOLEAN
      /\ clients_handlers \in Seq(Clients)
      /\ Len(manager.rest) \in Nat /\ Len(clients_handlers) \in Nat
      /\ CLIENTS_MAX \in Nat
  BY TcpAssumption DEF CountInv, ManagerInv, ListInv, TcpAssumption
<1>2. manager.rest # <<>>
        => /\ Tail(manager.rest) \in Seq(Clients)
           /\ Len(Tail(manager.rest)) = Len(manager.rest) - 1
           /\ Len(manager.rest) >= 1 /\ Head(manager.rest) \in Clients
  BY <1>1
<1>3. main_pc' = main_pc /\ listener' = listener
  BY DEF ManagerStep, ManagerWaits, SetWriteTo, VisitEnding, VisitOther,
         PassText, EndUpdate, mainVars, listenerVars
<1>4. CASE ManagerWaits
  <2>1. manager' = [manager EXCEPT !.pc = "asleep"]
        /\ UNCHANGED <<handler, clients_handlers, clients_count>>
    BY <1>4 DEF ManagerWaits
  <2>2. ManagerInv'
    BY <1>1, <2>1 DEF CountInv, ManagerInv, ManagerHolds
  <2>. QED
    BY <1>3, <2>1, <2>2 DEF CountInv, ListInv, HandlerStates
<1>5. CASE SetWriteTo
  <2>1. manager' = [pc |-> "visit", notified |-> FALSE, rest |-> clients_handlers]
        /\ UNCHANGED <<handler, clients_handlers, clients_count>>
    BY <1>5 DEF SetWriteTo
  <2>2. ManagerInv'
    BY <1>1, <2>1 DEF CountInv, ManagerInv, ManagerHolds
  <2>. QED
    BY <1>3, <2>1, <2>2 DEF CountInv, ListInv, HandlerStates
<1>6. CASE VisitEnding
  <2>1. /\ manager.pc = "visit" /\ manager.rest # <<>>
        /\ manager' = [manager EXCEPT !.rest = Tail(@)]
        /\ clients_handlers' = RemoveAt(clients_handlers, Place)
        /\ clients_count' = clients_count - 1 /\ handler' = handler
    BY <1>6 DEF VisitEnding, CountWithout
  <2>2. /\ Len(manager.rest) <= Len(clients_handlers)
        /\ clients_count = Len(clients_handlers)
    BY <2>1 DEF CountInv, ManagerInv, ManagerHolds, ListInv
  <2>3. Place \in 1 .. Len(clients_handlers)
    BY <1>1, <1>2, <2>1, <2>2 DEF Place
  <2>4. /\ clients_handlers' \in Seq(Clients)
        /\ Len(clients_handlers') = Len(clients_handlers) - 1
    BY <1>1, <2>1, <2>3, OneIsRemoved
  <2>5. ManagerInv'
    <3>1. manager'.pc = "visit" /\ manager'.rest = Tail(manager.rest)
      BY <2>1 DEF CountInv, ManagerInv
    <3>2. manager' \in [pc : {"wait", "asleep", "visit", "lock"},
                        notified : BOOLEAN, rest : Seq(Clients)]
      BY <1>2, <2>1 DEF CountInv, ManagerInv
    <3>. QED
      BY <1>1, <1>2, <2>1, <2>2, <2>4, <3>1, <3>2 DEF ManagerInv, ManagerHolds
  <2>6. ListInv'
    <3>1. clients_count <= CLIENTS_MAX
          /\ (listener # "check" => clients_count < CLIENTS_MAX)
          /\ listener \in {"check", "accept", "add"}
      BY DEF CountInv, ListInv
    <3>. QED
      BY <1>1, <1>3, <2>1, <2>2, <2>4, <3>1 DEF ListInv
  <2>. QED
    BY <1>3, <2>1, <2>5, <2>6 DEF CountInv, HandlerStates
<1>7. CASE VisitOther
  <2>1. /\ manager.pc = "visit" /\ manager.rest # <<>>
        /\ manager' = [manager EXCEPT !.pc = "lock"]
        /\ UNCHANGED <<handler, clients_handlers, clients_count>>
    BY <1>7 DEF VisitOther
  <2>2. ManagerInv'
    BY <1>1, <2>1 DEF CountInv, ManagerInv, ManagerHolds
  <2>. QED
    BY <1>3, <2>1, <2>2 DEF CountInv, ListInv, HandlerStates
<1>8. CASE PassText
  <2>. DEFINE c == Head(manager.rest)
  <2>1. /\ manager.pc = "lock" /\ manager.rest # <<>>
        /\ manager' = [manager EXCEPT !.pc = "visit", !.rest = Tail(@)]
        /\ handler' = [handler EXCEPT ![c] = GiveText(c)]
        /\ UNCHANGED <<clients_handlers, clients_count>>
    BY <1>8 DEF PassText, CountInv, ManagerInv
  <2>2. ManagerInv'
    <3>1. manager'.pc = "visit" /\ manager'.rest = Tail(manager.rest)
      BY <2>1 DEF CountInv, ManagerInv
    <3>2. manager' \in [pc : {"wait", "asleep", "visit", "lock"},
                        notified : BOOLEAN, rest : Seq(Clients)]
      BY <1>2, <2>1 DEF CountInv, ManagerInv
    <3>. QED
      BY <1>1, <1>2, <2>1, <3>1, <3>2 DEF CountInv, ManagerInv, ManagerHolds
  <2>3. c \in Clients => GiveText(c).pc \in HandlerStates
    <3>. SUFFICES ASSUME c \in Clients PROVE GiveText(c).pc \in HandlerStates
      OBVIOUS
    <3>1. HasFields(handler[c]) /\ handler[c].pc \in HandlerStates
      BY DEF CountInv, OwnInv
    <3>2. GiveText(c).pc
            = IF handler[c].pc = "asleep" THEN "loop" ELSE handler[c].pc
      BY <3>1 DEF GiveText, Notified, HasFields
    <3>. QED
      BY <3>1, <3>2 DEF HandlerStates
  <2>. HIDE DEF c
  <2>4. \A x \in Clients : handler'[x].pc \in HandlerStates
    BY <2>1, <2>3, StatesStay
  <2>. QED
    BY <1>3, <2>1, <2>2, <2>4 DEF CountInv, ListInv
<1>9. CASE EndUpdate
  <2>1. /\ manager' = [manager EXCEPT !.pc = "wait"]
        /\ UNCHANGED <<handler, clients_handlers, clients_count>>
    BY <1>9 DEF EndUpdate
  <2>2. ManagerInv'
    BY <1>1, <2>1 DEF CountInv, ManagerInv, ManagerHolds
  <2>. QED
    BY <1>3, <2>1, <2>2 DEF CountInv, ListInv, HandlerStates
<1>. QED
  BY <1>4, <1>5, <1>6, <1>7, <1>8, <1>9 DEF ManagerStep

\* The listener accepts a client while there is room, and adds its handler.
LEMMA ListenerKeepsCountInv ==
  ASSUME CountInv, OwnInv',
         CheckCount \/ AddHandler \/ \E c \in Clients : Accept(c)
  PROVE  CountInv'
<1>1. /\ clients_handlers \in Seq(Clients)
      /\ Len(clients_handlers) \in Nat /\ CLIENTS_MAX \in Nat
  BY TcpAssumption DEF CountInv, ListInv, TcpAssumption
<1>2. main_pc' = main_pc /\ manager' = manager
  BY DEF CheckCount, AddHandler, Accept, mainVars, managerVars
<1>3. CASE CheckCount
  <2>1. /\ clients_count < CLIENTS_MAX /\ listener' = "accept"
        /\ UNCHANGED <<handler, clients_handlers, clients_count>>
    BY <1>3 DEF CheckCount, MayAccept, managerVars
  <2>2. ListInv' /\ ManagerInv'
    BY <1>2, <2>1 DEF CountInv, ListInv, ManagerInv, ManagerHolds
  <2>. QED
    BY <1>2, <2>1, <2>2 DEF CountInv, HandlerStates
<1>4. CASE AddHandler
  <2>. DEFINE h == [handler[accepted] EXCEPT !.pc = "first", !.text = to_write]
  <2>1. /\ listener = "add" /\ listener' = "check" /\ ~ManagerHolds
        /\ clients_handlers' = Append(clients_handlers, accepted)
        /\ clients_count' = clients_count + 1
    BY <1>4 DEF AddHandler
  <2>2. accepted \in Clients /\ HasFields(handler[accepted])
    BY <2>1 DEF CountInv, OwnInv
  <2>3. handler' = [handler EXCEPT ![accepted] = h] /\ h.pc = "first"
    BY <1>4, <2>2 DEF AddHandler, CountInv, OwnInv, HasFields
  <2>. HIDE DEF h
  <2>4. \A x \in Clients : handler'[x].pc \in HandlerStates
    BY <2>3, StatesStay DEF HandlerStates
  <2>5. ListInv'
    <3>1. clients_count = Len(clients_handlers) /\ clients_count < CLIENTS_MAX
      BY <2>1 DEF CountInv, ListInv
    <3>2. /\ clients_handlers' \in Seq(Clients)
          /\ Len(clients_handlers') = Len(clients_handlers) + 1
      BY <1>1, <2>1, <2>2
    <3>. QED
      BY <1>1, <2>1, <3>1, <3>2 DEF ListInv
  <2>6. ManagerInv'
    BY <1>2, <2>1 DEF CountInv, ManagerInv, ManagerHolds
  <2>. QED
    BY <1>2, <2>4, <2>5, <2>6 DEF CountInv
<1>5. ASSUME NEW c \in Clients, Accept(c) PROVE CountInv'
  <2>1. /\ listener = "accept" /\ listener' = "add"
        /\ UNCHANGED <<handler, clients_handlers, clients_count>>
    BY <1>5 DEF Accept, managerVars
  <2>2. ListInv' /\ ManagerInv'
    BY <1>2, <2>1 DEF CountInv, ListInv, ManagerInv, ManagerHolds
  <2>. QED
    BY <1>2, <2>1, <2>2 DEF CountInv, HandlerStates
<1>. QED
  BY <1>3, <1>4, <1>5

\* The steps of a handler, of its codes receiver too, leave it in a state of its.
LEMMA HandlerStepKeepsCountInv ==
  ASSUME CountInv, OwnInv', NEW c \in Clients,
         FirstTest(c) \/ Wait(c) \/ Written(c)
  PROVE  CountInv'
<1>1. UNCHANGED <<clients_handlers, clients_count, listener, manager, main_pc>>
  BY DEF FirstTest, Wait, Written, mainVars, managerVars, listenerVars
<1>2. HasFields(handler[c]) /\ handler[c].pc \in HandlerStates
  BY DEF CountInv, OwnInv
<1>3. \E h : /\ handler' = [handler EXCEPT ![c] = h]
             /\ h.pc \in {"loop", "write", "gone", "asleep", "update"}
  <2>1. CASE FirstTest(c)
    <3>. DEFINE ended == [handler[c] EXCEPT !.pc = "loop"]
                first == [handler[c] EXCEPT !.pc = "write",
                                            !.writing = handler[c].text]
    <3>1. \/ handler' = [handler EXCEPT ![c] = ended]
          \/ handler' = [handler EXCEPT ![c] = first]
      BY <2>1 DEF FirstTest
    <3>2. ended.pc = "loop" /\ first.pc = "write"
      BY <1>2 DEF HasFields
    <3>. QED
      BY <3>1, <3>2
  <2>2. CASE Wait(c)
    <3>. DEFINE gone == [handler[c] EXCEPT !.pc = "gone"]
                asleep == [handler[c] EXCEPT !.pc = "asleep"]
                update == [handler[c] EXCEPT !.pc = "update", !.notified = FALSE,
                                             !.writing = handler[c].text]
    <3>1. \/ handler' = [handler EXCEPT ![c] = gone]
          \/ handler' = [handler EXCEPT ![c] = asleep]
          \/ handler' = [handler EXCEPT ![c] = update]
      BY <2>2 DEF Wait
    <3>2. gone.pc = "gone" /\ asleep.pc = "asleep" /\ update.pc = "update"
      BY <1>2 DEF HasFields
    <3>. QED
      BY <3>1, <3>2
  <2>3. CASE Written(c)
    <3>. DEFINE h == [handler[c] EXCEPT !.pc = "loop", !.writing = <<>>]
    <3>1. handler' = [handler EXCEPT ![c] = h]
      BY <2>3 DEF Written, CountInv, OwnInv
    <3>2. h.pc = "loop"
      BY <1>2 DEF HasFields
    <3>. QED
      BY <3>1, <3>2
  <2>. QED
    BY <2>1, <2>2, <2>3
<1>4. \A x \in Clients : handler'[x].pc \in HandlerStates
  BY <1>3, StatesStay DEF HandlerStates
<1>. QED
  BY <1>1, <1>4, OthersKeepCountInv DEF CountInv

\* So does its end.
LEMMA EndKeepsCountInv ==
  ASSUME CountInv, OwnInv', NEW c \in Clients,
         ConfigureThrows(c) \/ TerminateHandler(c)
  PROVE  CountInv'
<1>1. UNCHANGED <<clients_handlers, clients_count, listener, manager, main_pc>>
  BY DEF ConfigureThrows, TerminateHandler, mainVars, managerVars, listenerVars
<1>2. HasFields(handler[c]) /\ handler[c].pc \in HandlerStates
  BY DEF CountInv, OwnInv
<1>3. \E h : /\ handler' = [handler EXCEPT ![c] = h]
             /\ h.pc \in HandlerStates
  <2>1. CASE ConfigureThrows(c)
    <3>. DEFINE h == [[handler[c] EXCEPT !.pc = "gone"] EXCEPT !.released = TRUE]
    <3>1. handler' = [handler EXCEPT ![c] = h]
      BY <2>1 DEF ConfigureThrows, Release
    <3>2. h.pc = "gone"
      BY <1>2 DEF HasFields
    <3>. QED
      BY <3>1, <3>2 DEF HandlerStates
  <2>2. CASE TerminateHandler(c)
    <3>. DEFINE told == [handler[c] EXCEPT
                           !.terminating = TRUE,
                           !.pc = IF @ = "asleep" THEN "loop" ELSE @]
                h == [told EXCEPT !.released = TRUE]
    <3>1. handler' = [handler EXCEPT ![c] = h]
      BY <2>2 DEF TerminateHandler, Release
    <3>2. h.pc = IF handler[c].pc = "asleep" THEN "loop" ELSE handler[c].pc
      BY <1>2 DEF HasFields
    <3>. QED
      BY <1>2, <3>1, <3>2 DEF HandlerStates
  <2>. QED
    BY <2>1, <2>2
<1>4. \A x \in Clients : handler'[x].pc \in HandlerStates
  BY <1>3, StatesStay
<1>. QED
  BY <1>1, <1>4, OthersKeepCountInv DEF CountInv

\* At the beginning nobody is listed; every step keeps the invariant.
THEOREM CountInvIsInvariant == TcpSpec => []CountInv
<1>1. TcpInit /\ OwnInv => CountInv
  <2>. SUFFICES ASSUME TcpInit, OwnInv PROVE CountInv
    OBVIOUS
  <2>1. /\ manager = [pc |-> "wait", notified |-> FALSE, rest |-> <<>>]
        /\ clients_handlers = <<>> /\ clients_count = 0
        /\ listener = "check" /\ main_pc = "idle"
        /\ handler = [c \in Clients |-> NoHandler]
    BY DEF TcpInit
  <2>2. ListInv /\ ManagerInv
    BY <2>1, TcpAssumption
    DEF ListInv, ManagerInv, ManagerHolds, TcpAssumption
  <2>3. \A c \in Clients : handler[c].pc \in HandlerStates
    BY <2>1 DEF NoHandler, HandlerStates
  <2>. QED
    BY <2>1, <2>2, <2>3 DEF CountInv
<1>2. CountInv /\ OwnInv' /\ [TcpNext]_vars => CountInv'
  <2>. SUFFICES ASSUME CountInv, OwnInv', [TcpNext]_vars PROVE CountInv'
    OBVIOUS
  <2>1. CASE MainChangesStations
    BY <2>1, OthersKeepCountInv DEF MainChangesStations, CountInv, managerVars,
       listenerVars
  <2>2. CASE UpdateTcpClients
    <3>1. /\ ~ManagerHolds /\ main_pc' = "idle"
          /\ manager' = Notified(manager, "wait")
          /\ UNCHANGED <<handler, clients_handlers, clients_count, listener>>
      BY <2>2 DEF UpdateTcpClients, listenerVars
    <3>2. ManagerInv'
      BY <3>1 DEF CountInv, ManagerInv, ManagerHolds, Notified
    <3>. QED
      BY <3>1, <3>2 DEF CountInv, ListInv, HandlerStates
  <2>3. CASE ManagerStep
    BY <2>3, ManagerKeepsCountInv
  <2>4. CASE CheckCount \/ AddHandler \/ \E c \in Clients : Accept(c)
    BY <2>4, ListenerKeepsCountInv
  <2>5. ASSUME NEW c \in Clients, ConfigureThrows(c) \/ TerminateHandler(c)
        PROVE  CountInv'
    BY <2>5, EndKeepsCountInv
  <2>6. ASSUME NEW c \in Clients, HandlerStep(c) \/ Written(c) PROVE CountInv'
    BY <2>6, HandlerStepKeepsCountInv DEF HandlerStep
  <2>7. ASSUME NEW c \in Clients, BrokenPipe(c) \/ ClientCloses(c)
        PROVE  CountInv'
    BY <2>7, OthersKeepCountInv DEF BrokenPipe, ClientCloses, CountInv,
       mainVars, managerVars, listenerVars
  <2>8. CASE UNCHANGED vars
    BY <2>8, OthersKeepCountInv DEF vars, CountInv, mainVars, managerVars,
       listenerVars
  <2>. QED
    BY <2>1, <2>2, <2>3, <2>4, <2>5, <2>6, <2>7, <2>8 DEF TcpNext
<1>. QED
  BY <1>1, <1>2, OwnInvIsInvariant, PTL DEF TcpSpec

\* However many clients come and go, the number of clients and the list agree
\* when the mutex is free, and the limit holds although it is tested before.
THEOREM CountIsRight == TcpSpec => []CountMatchesHandlers
BY CountInvIsInvariant, CountInvImplies, PTL

\* The state is what the code declares, for every limit of clients.
THEOREM TcpIsTyped == TcpSpec => []TcpTypeOK
BY CountInvIsInvariant, CountInvImplies, PTL
=============================================================================
