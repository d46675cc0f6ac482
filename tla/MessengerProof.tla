--------------------------- MODULE MessengerProof ---------------------------
(***************************************************************************)
(* Proofs about the gateways and about messages.  No connection is lost    *)
(* sight of, no entry outlives its handler, no route is left behind, and   *)
(* the route of a careful user follows the user: all are parts of          *)
(* GatewayInv, which every action of Gateway preserves, for any nodes,     *)
(* users, clients and crashes.  What messages do to the connections is     *)
(* what module Gateway allows, so all that is proved of the gateways holds *)
(* of the whole; no connection receives a message twice; and a user for    *)
(* whom nothing moves receives it.                                         *)
(***************************************************************************)
EXTENDS Messenger, SequenceTheorems, TLAPS

-----------------------------------------------------------------------------
(* The gateways. *)

\* Nil is none of the things it stands in for.
LEMMA Distinct == Nil \notin Conn \cup Node \cup User
BY GatewayAssumption DEF Conn

-----------------------------------------------------------------------------
(* Every action preserves the invariant. *)

\* A new connection has no entry; a careful user has no other under way.
LEMMA DialKeeps ==
    ASSUME GatewayInv, NEW c \in Conn, NEW u \in User, NEW n \in Node, Dial(c, u, n)
    PROVE  GatewayInv'
<1>1. GatewayTypes'
  BY Distinct DEF Dial, GatewayTypes, Phases, GatewayInv
<1>2. HandlersKnown'
  BY Distinct DEF Dial, HandlersKnown, GatewayTypes, GatewayInv
<1>3. ConnectingHasLock'
  BY Distinct DEF Dial, ConnectingHasLock, Entry, HandlersKnown, GatewayTypes, GatewayInv
<1>4. EntryHasHandler'
  BY Distinct DEF Dial, EntryHasHandler, HandlersKnown, GatewayTypes, GatewayInv
<1>5. OpenIsRegistered'
  BY Distinct DEF Dial, OpenIsRegistered, Entry, EntryHasHandler, HandlersKnown, GatewayTypes,
    GatewayInv
<1>6. NoStaleRoute'
  BY Distinct DEF Dial, NoStaleRoute, ConnectingHasLock, Entry, HandlersKnown, GatewayTypes,
    GatewayInv
<1>7. CarefulRoute'
  BY Distinct DEF Dial, CarefulRoute, UnderWay, HandlersKnown, GatewayTypes, MayDial, Of,
    GatewayInv
<1> QED
  BY <1>1, <1>2, <1>3, <1>4, <1>5, <1>6, <1>7 DEF GatewayInv

\* The invariant says nothing of the client ends.
LEMMA DropKeeps ==
    ASSUME GatewayInv, NEW c \in Conn, Drop(c)
    PROVE  GatewayInv'
<1>1. GatewayTypes'
  BY Distinct DEF Drop, handlerVars, GatewayTypes, Phases, GatewayInv
<1>2. HandlersKnown' /\ ConnectingHasLock' /\ EntryHasHandler' /\ OpenIsRegistered' /\ NoStaleRoute' /\ CarefulRoute'
  BY DEF Drop, handlerVars, HandlersKnown, ConnectingHasLock, Entry, EntryHasHandler,
    OpenIsRegistered, NoStaleRoute, CarefulRoute, UnderWay, GatewayInv
<1> QED
  BY <1>1, <1>2 DEF GatewayInv

\* Nobody is in OnConnect at the node, as the lock is free; the entry replaced is closed.
LEMMA AddConnKeeps ==
    ASSUME GatewayInv, NEW c \in Conn, AddConn(c)
    PROVE  GatewayInv'
<1>1. GatewayTypes'
  BY Distinct DEF AddConn, GatewayTypes, Phases, CloseOld, GatewayInv
<1>2. HandlersKnown'
  BY Distinct DEF AddConn, HandlersKnown, GatewayTypes, GatewayInv
<1>3. ConnectingHasLock'
  BY Distinct DEF AddConn, ConnectingHasLock, Entry, HandlersKnown, GatewayTypes, IsLocked,
    GatewayInv
<1>4. EntryHasHandler'
  BY Distinct DEF AddConn, EntryHasHandler, HandlersKnown, GatewayTypes, GatewayInv
<1>5. OpenIsRegistered'
  BY Distinct DEF AddConn, OpenIsRegistered, Entry, EntryHasHandler, HandlersKnown,
    GatewayTypes, CloseOld, GatewayInv
<1>6. NoStaleRoute'
  BY Distinct DEF AddConn, NoStaleRoute, ConnectingHasLock, Entry, HandlersKnown, GatewayTypes,
    GatewayInv
<1>7. CarefulRoute'
  BY Distinct DEF AddConn, CarefulRoute, UnderWay, HandlersKnown, GatewayTypes, GatewayInv
<1> QED
  BY <1>1, <1>2, <1>3, <1>4, <1>5, <1>6, <1>7 DEF GatewayInv

\* The new route names the node where the connection still has its entry.
LEMMA OnConnectKeeps ==
    ASSUME GatewayInv, NEW c \in Conn, OnConnect(c)
    PROVE  GatewayInv'
<1>1. GatewayTypes'
  BY Distinct DEF OnConnect, GatewayTypes, Phases, HandlersKnown, GatewayInv
<1>2. ConnectingHasLock'
  BY Distinct DEF OnConnect, ConnectingHasLock, Entry, HandlersKnown, GatewayTypes, GatewayInv
<1>3. EntryHasHandler'
  BY Distinct DEF OnConnect, EntryHasHandler, HandlersKnown, GatewayTypes, GatewayInv
<1>4. OpenIsRegistered'
  BY Distinct DEF OnConnect, OpenIsRegistered, Entry, EntryHasHandler, HandlersKnown,
    GatewayTypes, GatewayInv
<1>5. NoStaleRoute'
  BY Distinct DEF OnConnect, NoStaleRoute, ConnectingHasLock, Entry, HandlersKnown,
    GatewayTypes, GatewayInv
<1>6. CarefulRoute'
  BY Distinct DEF OnConnect, CarefulRoute, UnderWay, HandlersKnown, GatewayTypes, GatewayInv
<1>7. HandlersKnown'
  BY DEF OnConnect, HandlersKnown, GatewayInv
<1> QED
  BY <1>1, <1>2, <1>3, <1>4, <1>5, <1>6, <1>7 DEF GatewayInv

\* The handler keeps its entry until it removes it.
LEMMA ReadErrorKeeps ==
    ASSUME GatewayInv, NEW c \in Conn, ReadError(c)
    PROVE  GatewayInv'
<1>1. GatewayTypes'
  BY Distinct DEF ReadError, GatewayTypes, Phases, GatewayInv
<1>2. HandlersKnown'
  BY Distinct DEF ReadError, HandlersKnown, GatewayTypes, GatewayInv
<1>3. EntryHasHandler'
  BY Distinct DEF ReadError, EntryHasHandler, HandlersKnown, GatewayTypes, GatewayInv
<1>4. OpenIsRegistered'
  BY Distinct DEF ReadError, OpenIsRegistered, Entry, EntryHasHandler, HandlersKnown,
    GatewayTypes, GatewayInv
<1>5. CarefulRoute'
  BY Distinct DEF ReadError, CarefulRoute, UnderWay, HandlersKnown, GatewayTypes, GatewayInv
<1>6. ConnectingHasLock' /\ NoStaleRoute'
  BY DEF ReadError, ConnectingHasLock, Entry, NoStaleRoute, GatewayInv
<1> QED
  BY <1>1, <1>2, <1>3, <1>4, <1>5, <1>6 DEF GatewayInv

\* Whoever loses the entry is closed, and OnDisconnect is under way for the user.
LEMMA RemoveConnKeeps ==
    ASSUME GatewayInv, NEW c \in Conn, RemoveConn(c)
    PROVE  GatewayInv'
<1>1. GatewayTypes'
  BY Distinct DEF RemoveConn, GatewayTypes, Phases, GatewayInv
<1>2. HandlersKnown'
  BY Distinct DEF RemoveConn, HandlersKnown, GatewayTypes, GatewayInv
<1>3. ConnectingHasLock'
  BY Distinct DEF RemoveConn, ConnectingHasLock, Entry, HandlersKnown, GatewayTypes, IsLocked,
    GatewayInv
<1>4. EntryHasHandler'
  BY Distinct DEF RemoveConn, EntryHasHandler, HandlersKnown, GatewayTypes, GatewayInv
<1>5. OpenIsRegistered'
  BY Distinct DEF RemoveConn, OpenIsRegistered, Entry, EntryHasHandler, HandlersKnown,
    GatewayTypes, GatewayInv
<1>6. NoStaleRoute'
  BY Distinct DEF RemoveConn, NoStaleRoute, ConnectingHasLock, Entry, HandlersKnown,
    GatewayTypes, GatewayInv
<1>7. CarefulRoute'
  BY Distinct DEF RemoveConn, CarefulRoute, UnderWay, HandlersKnown, GatewayTypes, GatewayInv
<1> QED
  BY <1>1, <1>2, <1>3, <1>4, <1>5, <1>6, <1>7 DEF GatewayInv

\* The route is cleared; a careful user has no other connection.
LEMMA OnDisconnectKeeps ==
    ASSUME GatewayInv, NEW c \in Conn, OnDisconnect(c)
    PROVE  GatewayInv'
<1>1. GatewayTypes'
  BY Distinct DEF OnDisconnect, handlerVars, GatewayTypes, Phases, GatewayInv
<1>2. NoStaleRoute'
  BY Distinct DEF OnDisconnect, handlerVars, NoStaleRoute, ConnectingHasLock, Entry,
    HandlersKnown, GatewayTypes, GatewayInv
<1>3. CarefulRoute'
  BY Distinct DEF OnDisconnect, handlerVars, CarefulRoute, UnderWay, HandlersKnown,
    GatewayTypes, GatewayInv
<1>4. HandlersKnown' /\ ConnectingHasLock' /\ EntryHasHandler' /\ OpenIsRegistered'
  BY DEF OnDisconnect, handlerVars, HandlersKnown, ConnectingHasLock, Entry, EntryHasHandler,
    OpenIsRegistered, GatewayInv
<1> QED
  BY <1>1, <1>2, <1>3, <1>4 DEF GatewayInv

\* Only the readers of a lock change.
LEMMA BroadcastStartKeeps ==
    ASSUME GatewayInv, NEW n \in Node, NEW r \in Reader, BroadcastStart(n, r)
    PROVE  GatewayInv'
<1>1. GatewayTypes'
  BY Distinct DEF BroadcastStart, handlerVars, GatewayTypes, Phases, GatewayInv
<1>2. HandlersKnown' /\ ConnectingHasLock' /\ EntryHasHandler' /\ OpenIsRegistered' /\ NoStaleRoute' /\ CarefulRoute'
  BY DEF BroadcastStart, handlerVars, HandlersKnown, ConnectingHasLock, Entry, EntryHasHandler,
    OpenIsRegistered, NoStaleRoute, CarefulRoute, UnderWay, GatewayInv
<1> QED
  BY <1>1, <1>2 DEF GatewayInv

\* Only the readers of a lock change.
LEMMA BroadcastEndKeeps ==
    ASSUME GatewayInv, NEW n \in Node, NEW r \in Reader, BroadcastEnd(n, r)
    PROVE  GatewayInv'
<1>1. GatewayTypes'
  BY Distinct DEF BroadcastEnd, handlerVars, GatewayTypes, Phases, GatewayInv
<1>2. HandlersKnown' /\ ConnectingHasLock' /\ EntryHasHandler' /\ OpenIsRegistered' /\ NoStaleRoute' /\ CarefulRoute'
  BY DEF BroadcastEnd, handlerVars, HandlersKnown, ConnectingHasLock, Entry, EntryHasHandler,
    OpenIsRegistered, NoStaleRoute, CarefulRoute, UnderWay, GatewayInv
<1> QED
  BY <1>1, <1>2 DEF GatewayInv

\* One connection less is open.
LEMMA CloseBrokenKeeps ==
    ASSUME GatewayInv, NEW c \in Conn, CloseBroken(c)
    PROVE  GatewayInv'
<1>1. GatewayTypes'
  BY Distinct DEF CloseBroken, handlerVars, GatewayTypes, Phases, GatewayInv
<1>2. OpenIsRegistered'
  BY Distinct DEF CloseBroken, handlerVars, OpenIsRegistered, Entry, EntryHasHandler,
    HandlersKnown, GatewayTypes, GatewayInv
<1>3. HandlersKnown' /\ ConnectingHasLock' /\ EntryHasHandler' /\ NoStaleRoute' /\ CarefulRoute'
  BY DEF CloseBroken, handlerVars, HandlersKnown, ConnectingHasLock, Entry, EntryHasHandler,
    NoStaleRoute, CarefulRoute, UnderWay, GatewayInv
<1> QED
  BY <1>1, <1>2, <1>3 DEF GatewayInv

\* The user is neither careful nor one NoStaleRoute is about.
LEMMA LoginKeeps ==
    ASSUME GatewayInv, NEW u \in User, NEW n \in Node, Login(u, n)
    PROVE  GatewayInv'
<1>1. GatewayTypes'
  BY Distinct DEF Login, handlerVars, GatewayTypes, Phases, GatewayInv
<1>2. NoStaleRoute'
  BY Distinct DEF Login, handlerVars, NoStaleRoute, ConnectingHasLock, Entry, HandlersKnown,
    GatewayTypes, GatewayInv
<1>3. CarefulRoute'
  BY Distinct DEF Login, handlerVars, CarefulRoute, UnderWay, HandlersKnown, GatewayTypes,
    GatewayInv
<1>4. HandlersKnown' /\ ConnectingHasLock' /\ EntryHasHandler' /\ OpenIsRegistered'
  BY DEF Login, handlerVars, HandlersKnown, ConnectingHasLock, Entry, EntryHasHandler,
    OpenIsRegistered, GatewayInv
<1> QED
  BY <1>1, <1>2, <1>3, <1>4 DEF GatewayInv

\* The user is neither careful nor one NoStaleRoute is about.
LEMMA LogoutKeeps ==
    ASSUME GatewayInv, NEW u \in User, Logout(u)
    PROVE  GatewayInv'
<1>1. GatewayTypes'
  BY Distinct DEF Logout, handlerVars, GatewayTypes, Phases, GatewayInv
<1>2. NoStaleRoute'
  BY Distinct DEF Logout, handlerVars, NoStaleRoute, ConnectingHasLock, Entry, HandlersKnown,
    GatewayTypes, GatewayInv
<1>3. CarefulRoute'
  BY Distinct DEF Logout, handlerVars, CarefulRoute, UnderWay, HandlersKnown, GatewayTypes,
    GatewayInv
<1>4. HandlersKnown' /\ ConnectingHasLock' /\ EntryHasHandler' /\ OpenIsRegistered'
  BY DEF Logout, handlerVars, HandlersKnown, ConnectingHasLock, Entry, EntryHasHandler,
    OpenIsRegistered, GatewayInv
<1> QED
  BY <1>1, <1>2, <1>3, <1>4 DEF GatewayInv

\* Nothing of the node is left but its routes, which are excused.
LEMMA CrashKeeps ==
    ASSUME GatewayInv, NEW n \in Node, Crash(n)
    PROVE  GatewayInv'
<1>1. GatewayTypes'
  BY Distinct DEF Crash, GatewayTypes, Phases, GatewayInv
<1>2. HandlersKnown'
  BY Distinct DEF Crash, HandlersKnown, GatewayTypes, GatewayInv
<1>3. ConnectingHasLock'
  BY Distinct DEF Crash, ConnectingHasLock, Entry, HandlersKnown, GatewayTypes, GatewayInv
<1>4. EntryHasHandler'
  BY Distinct DEF Crash, EntryHasHandler, HandlersKnown, GatewayTypes, GatewayInv
<1>5. OpenIsRegistered'
  BY Distinct DEF Crash, OpenIsRegistered, Entry, EntryHasHandler, HandlersKnown, GatewayTypes,
    GatewayInv
<1>6. NoStaleRoute'
  BY Distinct DEF Crash, NoStaleRoute, ConnectingHasLock, Entry, HandlersKnown, GatewayTypes,
    GatewayInv
<1>7. CarefulRoute'
  BY Distinct DEF Crash, CarefulRoute, UnderWay, HandlersKnown, GatewayTypes, GatewayInv
<1> QED
  BY <1>1, <1>2, <1>3, <1>4, <1>5, <1>6, <1>7 DEF GatewayInv

-----------------------------------------------------------------------------
(* The invariant, and what follows from it. *)

\* Nobody is connected at first.
LEMMA GatewayInit_GatewayInv == GatewayInit => GatewayInv
<1> SUFFICES ASSUME GatewayInit PROVE GatewayInv
  OBVIOUS
<1>1. GatewayTypes
  BY GatewayAssumption DEF GatewayInit, GatewayTypes, Phases
<1>2. HandlersKnown /\ ConnectingHasLock /\ OpenIsRegistered /\ CarefulRoute
  BY DEF GatewayInit, HandlersKnown, ConnectingHasLock, OpenIsRegistered, CarefulRoute, UnderWay
<1>3. EntryHasHandler /\ NoStaleRoute
  BY DEF GatewayInit, EntryHasHandler, NoStaleRoute
<1> QED
  BY <1>1, <1>2, <1>3 DEF GatewayInv

LEMMA GatewayNext_GatewayInv == GatewayInv /\ [GatewayNext]_gatewayVars => GatewayInv'
<1> SUFFICES ASSUME GatewayInv, [GatewayNext]_gatewayVars PROVE GatewayInv'
  OBVIOUS
<1>1. ASSUME NEW c \in Conn, ClientStep(c) PROVE GatewayInv'
  BY <1>1, DialKeeps, DropKeeps DEF ClientStep
<1>2. ASSUME NEW c \in Conn, HandlerStep(c) PROVE GatewayInv'
  BY <1>2, AddConnKeeps, OnConnectKeeps, ReadErrorKeeps, RemoveConnKeeps, OnDisconnectKeeps
  DEF HandlerStep
<1>3. ASSUME NEW u \in User, ApiStep(u) PROVE GatewayInv'
  BY <1>3, LoginKeeps, LogoutKeeps DEF ApiStep
<1>4. CASE MessageEffect
  BY <1>4, BroadcastStartKeeps, BroadcastEndKeeps, CloseBrokenKeeps DEF MessageEffect
<1>5. ASSUME NEW n \in Node, Crash(n) PROVE GatewayInv'
  BY <1>5, CrashKeeps
<1>6. CASE UNCHANGED gatewayVars
  BY <1>6 DEF gatewayVars, handlerVars, GatewayInv, GatewayTypes, HandlersKnown,
    ConnectingHasLock, EntryHasHandler, OpenIsRegistered, NoStaleRoute, CarefulRoute, UnderWay,
    Entry
<1> QED
  BY <1>1, <1>2, <1>3, <1>4, <1>5, <1>6 DEF GatewayNext

\* The connections, the lock, the map and the routes fit together in every reachable
\* state, whatever messages do: the inductive invariant.
THEOREM GatewayInvariant == GatewaySpec => []GatewayInv
<1>1. GatewayInit => GatewayInv
  BY GatewayInit_GatewayInv
<1>2. GatewayInv /\ [GatewayNext]_gatewayVars => GatewayInv'
  BY GatewayNext_GatewayInv
<1> QED
  BY <1>1, <1>2, PTL DEF GatewaySpec

\* A connection the server has open is its user's entry or about to become it (addConn,
\* removeConn).
THEOREM NoConnectionLost == GatewaySpec => []OpenIsRegistered
<1>1. GatewayInv => OpenIsRegistered
  BY DEF GatewayInv
<1> QED
  BY <1>1, GatewayInvariant, PTL

\* A route is left behind only by a crash or by HTTP: otherwise its node has the user, or
\* has an OnDisconnect to run (addConn, removeConn).
THEOREM RoutesAreCleared == GatewaySpec => []NoStaleRoute
<1>1. GatewayInv => NoStaleRoute
  BY DEF GatewayInv
<1> QED
  BY <1>1, GatewayInvariant, PTL

\* The route of a user who waits for the last connection to be cleaned up names the node
\* of the connection, as soon as its handler reads (OnConnect, OnDisconnect).
LEMMA CarefulQuiet == GatewayInv => RouteFollowsCareful
<1> SUFFICES ASSUME GatewayInv, NEW u \in User, habit[u] = "careful", Quiet(u)
             PROVE  route[u] \in {node[c] : c \in Of(u) \cap open}
  BY DEF RouteFollowsCareful
<1>1. PICK c \in Of(u) : Established(c)
  BY DEF Quiet
<1>2. c \in Conn /\ user[c] = u /\ phase[c] = "reading" /\ c \in open
  BY <1>1 DEF Of, Established
<1>3. route[u] = node[c]
  BY <1>2 DEF GatewayInv, CarefulRoute, UnderWay
<1> QED
  BY <1>1, <1>2, <1>3

THEOREM RoutesFollowTheCareful == GatewaySpec => []RouteFollowsCareful
BY CarefulQuiet, GatewayInvariant, PTL

-----------------------------------------------------------------------------
(* The messages. *)

\* Messages are numbered within the bound, and the readers of a lock are messages.
LEMMA MessageIds == Message \subseteq Nat /\ Reader = Message
BY MessengerAssumption DEF Message

LEMMA SentWithinBound ==
    ASSUME MessengerInv, NEW t \in tasks
    PROVE  t.msg \in Message /\ t.msg \in 1 .. Len(messages) /\ t.node \in Node /\ t \in Task
BY MessengerAssumption DEF MessengerInv, TypeOK, Task, InOrder, Message

-----------------------------------------------------------------------------
(* What tasks do to the connections. *)

LEMMA AddresseeKnown ==
    ASSUME MessengerInv, NEW t \in tasks, t.step \in {"route", "send"}
    PROVE  To(t.msg) \in User
<1>1. messages[t.msg].to # {}
  BY DEF MessengerInv, InOrder
<1>2. messages[t.msg] \in [type : {"private", "broadcast"}, to : SUBSET User]
  <2>1. messages \in Seq([type : {"private", "broadcast"}, to : SUBSET User])
    BY DEF MessengerInv, TypeOK
  <2> QED
    BY <2>1, SentWithinBound, ElementOfSeq
<1> QED
  BY <1>1, <1>2 DEF To

\* A task leaves the connections alone, or starts or ends a broadcast, or closes one that
\* is broken.
LEMMA TaskEffect ==
    ASSUME MessengerInv, NEW t \in tasks, TaskStep(t)
    PROVE  [MessageEffect]_gatewayVars
<1>1. CASE LookUp(t) \/ Arrive(t) \/ LoseCall(t) \/ SendToUser(t) \/ NotFound(t) \/ NextConn(t)
  BY <1>1 DEF LookUp, Arrive, LoseCall, SendToUser, NotFound, NextConn
<1>2. CASE BroadcastLocal(t)
  BY <1>2, SentWithinBound, MessageIds DEF BroadcastLocal, MessageEffect
<1>3. CASE BroadcastDone(t)
  BY <1>3, SentWithinBound, MessageIds DEF BroadcastDone, MessageEffect
<1>4. CASE WriteJSON(t)
  <2>1. t.conn \in Conn
    BY <1>4, SentWithinBound DEF WriteJSON, MessengerInv, InOrder, Task
  <2> QED
    BY <1>4, <2>1 DEF WriteJSON, MessageEffect
<1> QED
  BY <1>1, <1>2, <1>3, <1>4 DEF TaskStep

LEMMA StepEffect == MessengerInv /\ [Next]_vars => [GatewayNext]_gatewayVars
<1> SUFFICES ASSUME MessengerInv, [Next]_vars PROVE [GatewayNext]_gatewayVars
  OBVIOUS
<1>1. ASSUME NEW n \in Node, NEW type, NEW U, OnMessage(n, type, U)
      PROVE  UNCHANGED gatewayVars
  BY <1>1 DEF OnMessage
<1>2. ASSUME NEW t \in tasks, TaskStep(t) PROVE [GatewayNext]_gatewayVars
  BY <1>2, TaskEffect DEF GatewayNext
<1>3. ASSUME NEW c \in Conn, ConnectionStep(c) PROVE GatewayNext
  BY <1>3 DEF ConnectionStep, GatewayNext
<1>4. ASSUME NEW u \in User, RouteStep(u) PROVE GatewayNext
  BY <1>4 DEF RouteStep, GatewayNext
<1>5. ASSUME NEW n \in Node, ProcessEnds(n) \/ Panic(n) PROVE GatewayNext
  BY <1>5 DEF ProcessEnds, Panic, GatewayNext
<1>6. CASE UNCHANGED vars
  BY <1>6 DEF vars
<1> QED
  BY <1>1, <1>2, <1>3, <1>4, <1>5, <1>6 DEF Next

-----------------------------------------------------------------------------
(* Steps that change the tasks. *)

\* What t may leave behind: tasks for its message that owe no connection more than t did,
\* at other nodes only when t was alone.
Successors(t, S) ==
    /\ \A s \in S : s \in Task /\ s.msg = t.msg /\ InOrder(s)
    /\ \A s \in S, c \in Conn : Due(s, c) => Due(t, c)
    /\ \A r, s \in S : Alone(r, s)
    /\ \A s \in S : \/ Origin(t) \/ IsPrivate(t)
                    \/ s.node = t.node /\ ~Origin(s)

LEMMA TasksChange ==
    ASSUME MessengerInv, GatewayInv', NEW t \in tasks, NEW S, Successors(t, S), Become(t, S),
           UNCHANGED <<messages, received, node, phase>>, calm' \subseteq calm
    PROVE  MessengerInv'
<1>1. TypeOK'
  BY DEF MessengerInv, TypeOK, GatewayInv, Become, Successors
<1>2. (\A s \in tasks : InOrder(s))'
  BY DEF MessengerInv, InOrder, Become, Successors
<1>3. (\A r, s \in tasks : r.msg = s.msg => Alone(r, s))'
  <2> SUFFICES ASSUME NEW r \in tasks', NEW s \in tasks', r.msg = s.msg
               PROVE  Alone(r, s)
    BY DEF Alone, IsPrivate, Origin
  <2>1. CASE r \in S /\ s \in S
    BY <2>1 DEF Successors
  <2>2. CASE r \in tasks /\ s \in tasks
    BY <2>2 DEF MessengerInv
  <2>3. ASSUME NEW x \in S, NEW y \in tasks, y # t, x.msg = y.msg
        PROVE  Alone(x, y) /\ Alone(y, x)
    BY <2>3 DEF MessengerInv, Successors, Alone, IsPrivate, Origin
  <2> QED
    BY <2>1, <2>2, <2>3 DEF Become
<1>4. (\A s \in tasks, c \in Conn : Due(s, c) => ~Has(c, s.msg))'
  BY DEF MessengerInv, Become, Successors, Due, Has, IsPrivate, Origin
<1>5. (\A c \in Conn, m \in Message : Has(c, m) => m <= Len(messages) /\ phase[c] # "none")'
  BY DEF MessengerInv, Has
<1>6. DeliveredOnce'
  BY DEF MessengerInv, DeliveredOnce
<1> QED
  BY <1>1, <1>2, <1>3, <1>4, <1>5, <1>6 DEF MessengerInv

\* A task may end.
LEMMA Abandoned == ASSUME MessengerInv, NEW t \in tasks PROVE Successors(t, {})
BY DEF Successors

\* A task may go on at its node, with no more to do.
LEMMA GoesOn ==
    ASSUME MessengerInv, NEW t \in tasks, NEW s \in Task, InOrder(s), s.msg = t.msg,
           s.node = t.node, Origin(s) => Origin(t), \A c \in Conn : Due(s, c) => Due(t, c)
    PROVE  Successors(t, {s})
BY DEF Successors, Alone

\* The only task of a private message may go anywhere.
LEMMA PrivateGoesOn ==
    ASSUME MessengerInv, NEW t \in tasks, IsPrivate(t), NEW s \in Task, InOrder(s), s.msg = t.msg
    PROVE  Successors(t, {s})
BY DEF Successors, Alone, Due

LEMMA LookUpKeeps ==
    ASSUME MessengerInv, GatewayInv', NEW t \in tasks, LookUp(t)
    PROVE  MessengerInv'
<1> DEFINE target == route[To(t.msg)]
           step   == IF target = t.node THEN "send" ELSE "forward"
           s      == [t EXCEPT !.step = step, !.node = target]
<1>1. target \in Node \cup {Nil}
  BY AddresseeKnown DEF LookUp, MessengerInv, GatewayInv, GatewayTypes
<1>2. t.step = "route" /\ InOrder(t) /\ t \in Task
  BY SentWithinBound DEF LookUp, MessengerInv
<1>3. ASSUME target # Nil PROVE Successors(t, {s})
  <2>1. s \in Task /\ s.msg = t.msg
    BY <1>1, <1>2, <1>3 DEF Task, Steps
  <2>2. InOrder(s)
    BY <1>2 DEF InOrder, Task
  <2> QED
    BY <1>2, <2>1, <2>2, PrivateGoesOn DEF InOrder, IsPrivate
<1>4. Successors(t, Routed(t, target))
  BY <1>3, Abandoned DEF Routed
<1> QED
  BY <1>4, TasksChange DEF LookUp, gatewayVars, handlerVars

LEMMA ArriveKeeps ==
    ASSUME MessengerInv, GatewayInv', NEW t \in tasks, Arrive(t)
    PROVE  MessengerInv'
<1> DEFINE s == [t EXCEPT !.step = IF @ = "forward" THEN "send" ELSE "broadcast", !.rpc = TRUE]
<1>1. t.step \in {"forward", "relay"} /\ InOrder(t) /\ t \in Task
  BY SentWithinBound DEF Arrive, MessengerInv
<1>2. s \in Task /\ s.msg = t.msg /\ s.node = t.node /\ InOrder(s)
  BY <1>1 DEF InOrder, Task, Steps
<1>3. ~Origin(s) /\ \A c \in Conn : Due(s, c) => Due(t, c)
  BY <1>1 DEF Origin, Due, IsPrivate, Task, InOrder
<1>4. Successors(t, {s})
  BY <1>2, <1>3, GoesOn
<1> QED
  BY <1>4, TasksChange DEF Arrive, gatewayVars, handlerVars

LEMMA LoseCallKeeps ==
    ASSUME MessengerInv, GatewayInv', NEW t \in tasks, LoseCall(t) \/ NotFound(t)
    PROVE  MessengerInv'
BY Abandoned, TasksChange DEF LoseCall, NotFound, gatewayVars, handlerVars

LEMMA SendToUserKeeps ==
    ASSUME MessengerInv, GatewayInv', NEW t \in tasks, SendToUser(t)
    PROVE  MessengerInv'
<1> DEFINE c == conns[t.node][To(t.msg)]
           s == IF c = Nil THEN [t EXCEPT !.step = "list"]
                ELSE [t EXCEPT !.step = "write", !.conn = c]
<1>1. t.step = "send" /\ InOrder(t) /\ t \in Task /\ t.node \in Node
  BY SentWithinBound DEF SendToUser, MessengerInv
<1>2. c \in Conn \cup {Nil} /\ (c # Nil => node[c] = t.node)
  BY <1>1, AddresseeKnown DEF MessengerInv, GatewayInv, GatewayTypes, EntryHasHandler
<1>3. s \in Task /\ s.msg = t.msg /\ InOrder(s)
  BY <1>1, <1>2 DEF InOrder, Task, Steps
<1>4. Successors(t, {s})
  BY <1>1, <1>3, PrivateGoesOn DEF InOrder, IsPrivate
<1> QED
  BY <1>4, TasksChange DEF SendToUser, gatewayVars, handlerVars

LEMMA BroadcastLocalKeeps ==
    ASSUME MessengerInv, GatewayInv', NEW t \in tasks, BroadcastLocal(t)
    PROVE  MessengerInv'
<1> DEFINE here == {conns[t.node][u] : u \in User} \ {Nil}
           s    == [t EXCEPT !.step = "iterate", !.todo = here]
<1>1. t.step = "broadcast" /\ InOrder(t) /\ t \in Task /\ t.node \in Node
  BY SentWithinBound DEF BroadcastLocal, MessengerInv
<1>2. here \subseteq Conn /\ \A c \in here : node[c] = t.node
  BY <1>1 DEF MessengerInv, GatewayInv, GatewayTypes, EntryHasHandler
<1>3. s \in Task /\ s.msg = t.msg /\ s.node = t.node /\ InOrder(s)
  BY <1>1, <1>2 DEF InOrder, Task, Steps
<1>4. (Origin(s) => Origin(t)) /\ \A c \in Conn : Due(s, c) => Due(t, c)
  BY <1>1, <1>2 DEF Origin, Due, IsPrivate, Task
<1>5. Successors(t, {s})
  BY <1>3, <1>4, GoesOn
<1> QED
  BY <1>5, TasksChange DEF BroadcastLocal, BroadcastStart, handlerVars

LEMMA NextConnKeeps ==
    ASSUME MessengerInv, GatewayInv', NEW t \in tasks, NextConn(t)
    PROVE  MessengerInv'
<1>1. t.step = "iterate" /\ InOrder(t) /\ t \in Task
  BY SentWithinBound DEF NextConn, MessengerInv
<1>2. PICK c \in t.todo : Become(t, {[t EXCEPT !.step = "write", !.conn = c, !.todo = @ \ {c}]})
  BY DEF NextConn
<1> DEFINE s == [t EXCEPT !.step = "write", !.conn = c, !.todo = @ \ {c}]
<1>3. s \in Task /\ s.msg = t.msg /\ s.node = t.node /\ InOrder(s)
  BY <1>1, Distinct DEF InOrder, Task, Steps
<1>4. (Origin(s) => Origin(t)) /\ \A d \in Conn : Due(s, d) => Due(t, d)
  BY <1>1 DEF Origin, Due, IsPrivate, Task
<1>5. Successors(t, {s})
  BY <1>3, <1>4, GoesOn
<1> QED
  BY <1>2, <1>5, TasksChange DEF NextConn, gatewayVars, handlerVars

LEMMA BroadcastDoneKeeps ==
    ASSUME MessengerInv, GatewayInv', NEW t \in tasks, BroadcastDone(t)
    PROVE  MessengerInv'
<1>1. t.step = "iterate" /\ t.todo = {} /\ InOrder(t) /\ t \in Task /\ t.node \in Node
  BY SentWithinBound DEF BroadcastDone, MessengerInv
<1>2. ASSUME ~t.rpc, NEW n \in Node \ {t.node}, NEW s, s = NewTask(t.msg, "relay", n, FALSE)
      PROVE  /\ s \in Task /\ s.msg = t.msg /\ InOrder(s) /\ ~Origin(s) /\ s.node = n
             /\ \A c \in Conn : Due(s, c) => Due(t, c)
  <2>1. s \in Task /\ s.msg = t.msg /\ s.node = n /\ ~Origin(s)
    BY <1>1, <1>2 DEF NewTask, Task, Steps, Origin
  <2>2. InOrder(s)
    BY <1>1, <1>2 DEF NewTask, InOrder
  <2>3. \A c \in Conn : Due(s, c) => Due(t, c)
    BY <1>1, <1>2, Distinct DEF NewTask, Due, IsPrivate, Origin
  <2> QED
    BY <2>1, <2>2, <2>3
<1>3. Successors(t, Relays(t))
  <2>1. CASE t.rpc
    BY <2>1, Abandoned DEF Relays
  <2>2. CASE ~t.rpc
    <3>1. Origin(t)
      BY <1>1, <2>2 DEF Origin
    <3>2. ASSUME NEW r \in Relays(t), NEW s \in Relays(t) PROVE Alone(r, s)
      <4>1. PICK k \in Node \ {t.node} : r = NewTask(t.msg, "relay", k, FALSE)
        BY <2>2 DEF Relays
      <4>2. PICK l \in Node \ {t.node} : s = NewTask(t.msg, "relay", l, FALSE)
        BY <2>2 DEF Relays
      <4>3. r.msg = t.msg /\ r.node = k /\ s.node = l /\ ~Origin(r)
        BY <4>1, <4>2 DEF NewTask, Origin
      <4>4. ~IsPrivate(r)
        BY <1>1, <4>3 DEF InOrder, IsPrivate
      <4>5. k = l => r = s
        BY <4>1, <4>2
      <4> QED
        BY <4>3, <4>4, <4>5 DEF Alone
    <3> QED
      BY <1>2, <2>2, <3>1, <3>2 DEF Relays, Successors
  <2> QED
    BY <2>1, <2>2
<1> QED
  BY <1>3, TasksChange DEF BroadcastDone, BroadcastEnd, handlerVars

\* A private message is alone, a broadcast goes on to the next connection.
LEMMA WrittenFollows ==
    ASSUME MessengerInv, NEW t \in tasks, t.step = "write"
    PROVE  /\ Successors(t, Written(t))
           /\ \A s \in Written(t) : ~Due(s, t.conn)
<1>1. InOrder(t) /\ t \in Task /\ t.conn \in Conn /\ t.node \in Node
  BY SentWithinBound DEF MessengerInv, InOrder, Task
<1>2. node[t.conn] = t.node
  BY <1>1, Distinct DEF InOrder
<1> DEFINE s == [t EXCEPT !.step = "iterate", !.conn = Nil]
<1>3. CASE IsPrivate(t)
  BY <1>3, Abandoned DEF Written, IsPrivate
<1>4. CASE ~IsPrivate(t)
  <2>1. messages[t.msg].type = "broadcast"
    <3>1. messages[t.msg] \in [type : {"private", "broadcast"}, to : SUBSET User]
      BY SentWithinBound, ElementOfSeq DEF MessengerInv, TypeOK
    <3> QED
      BY <1>4, <3>1 DEF IsPrivate
  <2>2. s \in Task /\ s.msg = t.msg /\ s.node = t.node
    BY <1>1 DEF Task, Steps
  <2>5. InOrder(s)
    <3>1. s.step = "iterate" /\ s.conn = Nil /\ s.todo = t.todo /\ t.todo \subseteq Conn
      BY <1>1 DEF Task
    <3> QED
      BY <1>1, <2>1, <2>2, <3>1, Distinct DEF InOrder
  <2>3. (Origin(s) => Origin(t)) /\ \A c \in Conn : Due(s, c) => Due(t, c)
    BY <1>1, Distinct DEF Origin, Due, IsPrivate, Task
  <2>4. ~Due(s, t.conn)
    BY <1>1, <1>2, <1>4, Distinct DEF Due, IsPrivate, InOrder, Task
  <2> QED
    BY <1>4, <2>2, <2>3, <2>4, <2>5, GoesOn DEF Written, IsPrivate
<1> QED
  BY <1>3, <1>4

\* Nobody else owes the connection the message.
LEMMA OthersNotDue ==
    ASSUME MessengerInv, NEW t \in tasks, t.step = "write", NEW s \in tasks, s.msg = t.msg, s # t
    PROVE  ~Due(s, t.conn)
<1>1. InOrder(t) /\ t.conn \in Conn /\ node[t.conn] = t.node
  BY Distinct, SentWithinBound DEF MessengerInv, InOrder, Task
<1>2. InOrder(s) /\ ~IsPrivate(s) /\ ~Origin(s) /\ s.node # t.node
  BY DEF MessengerInv, Alone
<1> QED
  BY <1>1, <1>2, Distinct DEF Due, InOrder

LEMMA WriteJSONKeeps ==
    ASSUME MessengerInv, GatewayInv', NEW t \in tasks, WriteJSON(t)
    PROVE  MessengerInv'
<1> DEFINE c == t.conn
<1>1. t.step = "write" /\ InOrder(t) /\ t \in Task /\ c \in Conn /\ t.msg \in 1 .. Len(messages)
      /\ t.msg \in Message
  BY SentWithinBound DEF WriteJSON, MessengerInv, InOrder, Task
<1>2. UNCHANGED <<messages, node, phase, calm>> /\ Become(t, Written(t))
  BY DEF WriteJSON, CloseBroken, gatewayVars, handlerVars
<1>3. CASE UNCHANGED received
  BY <1>1, <1>2, <1>3, WrittenFollows, TasksChange
<1>4. CASE received' = [received EXCEPT ![c] = Append(@, t.msg)] /\ c \in open
  <2>1. received \in [Conn -> Seq(Message)]
    BY DEF MessengerInv, TypeOK
  <2>2. \A d \in Conn, m \in Message : Has(d, m)' => Has(d, m) \/ (d = c /\ m = t.msg)
    BY <1>1, <1>4, <2>1 DEF Has
  <2>3. TypeOK'
    BY <1>1, <1>2, <1>4, <2>1, WrittenFollows
    DEF MessengerInv, TypeOK, GatewayInv, Become, Successors
  <2>4. (\A s \in tasks : InOrder(s))'
    BY <1>1, <1>2, WrittenFollows DEF MessengerInv, InOrder, Become, Successors
  <2>5. (\A r, s \in tasks : r.msg = s.msg => Alone(r, s))'
    <3>1. \A x \in Written(t), y \in tasks : y # t /\ x.msg = y.msg => Alone(x, y) /\ Alone(y, x)
      BY <1>1, WrittenFollows DEF MessengerInv, Successors, Alone, IsPrivate, Origin
    <3>2. \A x, y \in Written(t) : Alone(x, y)
      BY <1>1, WrittenFollows DEF Successors
    <3> QED
      BY <1>2, <3>1, <3>2 DEF MessengerInv, Become, Alone, IsPrivate, Origin
  <2>6. (\A s \in tasks, d \in Conn : Due(s, d) => ~Has(d, s.msg))'
    <3> SUFFICES ASSUME NEW s \in tasks', NEW d \in Conn, Due(s, d)
                 PROVE  ~Has(d, s.msg)'
      BY <1>2 DEF Due, IsPrivate, Origin
    <3>1. s.msg \in Message
      BY <2>3 DEF TypeOK, Task
    <3>2. CASE s \in Written(t)
      BY <1>1, <2>2, <3>1, <3>2, WrittenFollows DEF MessengerInv, Successors
    <3>3. CASE s \in tasks /\ s # t
      BY <1>1, <2>2, <3>1, <3>3, OthersNotDue DEF MessengerInv
    <3> QED
      BY <1>2, <3>2, <3>3 DEF Become
  <2>7. (\A d \in Conn, m \in Message : Has(d, m) => m <= Len(messages) /\ phase[d] # "none")'
    <3>1. phase[c] # "none"
      BY <1>1, <1>4, Distinct, SentWithinBound
      DEF MessengerInv, InOrder, GatewayInv, HandlersKnown
    <3> QED
      BY <1>1, <1>2, <2>2, <3>1 DEF MessengerInv
  <2>8. DeliveredOnce'
    <3>1. ~Has(c, t.msg)
      BY <1>1 DEF MessengerInv, Due
    <3> QED
      BY <1>1, <1>4, <2>1, <3>1 DEF MessengerInv, DeliveredOnce, Has
  <2> QED
    BY <2>3, <2>4, <2>5, <2>6, <2>7, <2>8 DEF MessengerInv
<1> QED
  BY <1>3, <1>4 DEF WriteJSON

-----------------------------------------------------------------------------
(* New messages, and the connections. *)

LEMMA OnMessageKeeps ==
    ASSUME MessengerInv, GatewayInv', NEW n \in Node, NEW U \in SUBSET User,
           NEW type \in {"private", "broadcast"}, type = "private" => U # {},
           OnMessage(n, type, U)
    PROVE  MessengerInv'
<1>0. PICK m \in Message, t \in Task :
          /\ m = Len(messages) + 1
          /\ t = NewTask(m, IF type = "private" THEN "route" ELSE "broadcast", n, FALSE)
  <2>1. Len(messages) + 1 \in Message
    BY DEF OnMessage
  <2>2. ASSUME NEW m \in Message, NEW step \in Steps PROVE NewTask(m, step, n, FALSE) \in Task
    BY DEF NewTask, Task
  <2>3. {"route", "broadcast"} \subseteq Steps
    BY DEF Steps
  <2> QED
    BY <2>1, <2>2, <2>3
<1>1. m \in Nat /\ messages \in Seq([type : {"private", "broadcast"}, to : SUBSET User])
  BY MessageIds DEF MessengerInv, TypeOK
<1>2. /\ messages' \in Seq([type : {"private", "broadcast"}, to : SUBSET User])
      /\ Len(messages') = m /\ messages'[m] = [type |-> type, to |-> U]
      /\ \A k \in 1 .. Len(messages) : messages'[k] = messages[k]
  BY <1>0, <1>1 DEF OnMessage
<1>3. tasks' = tasks \cup {t} /\ UNCHANGED <<received, node, phase>>
  BY <1>0 DEF OnMessage, gatewayVars, handlerVars
<1>4. t.msg = m /\ t.node = n
  BY <1>0 DEF NewTask
<1>5. \A s \in tasks : s.msg \in 1 .. Len(messages) /\ s.msg # m
  BY <1>0, <1>1, SentWithinBound
<1>6. TypeOK'
  <2>1. calm' \subseteq Message \X User
    BY <1>0 DEF OnMessage, MessengerInv, TypeOK
  <2> QED
    BY <1>2, <1>3, <1>4, <2>1 DEF MessengerInv, TypeOK, GatewayInv
<1>7. (\A s \in tasks : InOrder(s))'
  <2>1. InOrder(t)'
    <3>1. t.step \in {"route", "broadcast"} /\ (t.step = "route" <=> type = "private")
          /\ t.todo = {} /\ t.conn = Nil
      BY <1>0 DEF NewTask
    <3> QED
      BY <1>1, <1>2, <1>4, <3>1 DEF InOrder
  <2>2. ASSUME NEW s \in tasks PROVE InOrder(s)'
    <3>1. messages'[s.msg] = messages[s.msg] /\ s.msg <= Len(messages')
      BY <1>0, <1>1, <1>2, <1>5
    <3>2. InOrder(s)
      BY DEF MessengerInv
    <3> QED
      BY <1>3, <3>1, <3>2 DEF InOrder
  <2> QED
    BY <1>3, <2>1, <2>2
<1>8. (\A r, s \in tasks : r.msg = s.msg => Alone(r, s))'
  <2>1. ASSUME NEW r \in tasks, NEW s \in tasks, r.msg = s.msg PROVE Alone(r, s)'
    BY <1>2, <1>5, <2>1 DEF MessengerInv, Alone, IsPrivate, Origin
  <2>2. Alone(t, t)'
    BY DEF Alone
  <2> QED
    BY <1>3, <1>4, <1>5, <2>1, <2>2
<1>9. \A c \in Conn : ~Has(c, m)
  BY <1>0, <1>1 DEF MessengerInv
<1>10. (\A s \in tasks, c \in Conn : Due(s, c) => ~Has(c, s.msg))'
  <2>1. ASSUME NEW s \in tasks, NEW c \in Conn, Due(s, c)' PROVE ~Has(c, s.msg)'
    <3>1. Due(s, c)
      BY <1>2, <1>3, <1>5, <2>1 DEF Due, IsPrivate, Origin
    <3> QED
      BY <1>3, <3>1 DEF MessengerInv, Has
  <2>2. ASSUME NEW c \in Conn PROVE ~Has(c, t.msg)'
    BY <1>3, <1>4, <1>9 DEF Has
  <2> QED
    BY <1>3, <2>1, <2>2
<1>11. (\A c \in Conn, k \in Message : Has(c, k) => k <= Len(messages) /\ phase[c] # "none")'
  BY <1>0, <1>1, <1>2, <1>3, MessageIds DEF MessengerInv, Has
<1>12. DeliveredOnce'
  BY <1>3 DEF MessengerInv, DeliveredOnce
<1> QED
  BY <1>6, <1>7, <1>8, <1>10, <1>11, <1>12 DEF MessengerInv

\* Connections come and go under the tasks; only a new one gets a node.
LEMMA ConnectionsChange ==
    ASSUME MessengerInv, GatewayInv', tasks' \subseteq tasks, calm' \subseteq calm,
           UNCHANGED <<messages, received>>,
           \A c \in Conn : phase[c] # "none" => node'[c] = node[c] /\ phase'[c] # "none"
    PROVE  MessengerInv'
<1>1. TypeOK'
  BY DEF MessengerInv, TypeOK, GatewayInv
<1>2. ASSUME NEW t \in tasks, NEW c \in t.todo \cup ({t.conn} \ {Nil})
      PROVE  c \in Conn /\ phase[c] # "none" /\ node'[c] = t.node
  <2>1. c \in Conn /\ node[c] = t.node
    BY SentWithinBound DEF MessengerInv, InOrder, Task
  <2>2. phase[c] # "none"
    BY <2>1, Distinct, SentWithinBound DEF MessengerInv, GatewayInv, HandlersKnown
  <2> QED
    BY <2>1, <2>2
<1>3. (\A t \in tasks : InOrder(t))'
  BY <1>2 DEF MessengerInv, InOrder
<1>4. (\A s, t \in tasks : s.msg = t.msg => Alone(s, t))'
  BY DEF MessengerInv, Alone, IsPrivate, Origin
<1>5. (\A t \in tasks, c \in Conn : Due(t, c) => ~Has(c, t.msg))'
  BY SentWithinBound DEF MessengerInv, Due, Has, IsPrivate, Origin
<1>6. (\A c \in Conn, m \in Message : Has(c, m) => m <= Len(messages) /\ phase[c] # "none")'
  BY DEF MessengerInv, Has
<1>7. DeliveredOnce'
  BY DEF MessengerInv, DeliveredOnce
<1> QED
  BY <1>1, <1>3, <1>4, <1>5, <1>6, <1>7 DEF MessengerInv

LEMMA ConnectionStepKeeps ==
    ASSUME MessengerInv, GatewayInv', NEW c \in Conn, ConnectionStep(c)
    PROVE  MessengerInv'
<1>1. \A d \in Conn : phase[d] # "none" => node'[d] = node[d] /\ phase'[d] # "none"
  <2>1. phase \in [Conn -> Phases] /\ node \in [Conn -> Node \cup {Nil}]
    BY DEF MessengerInv, GatewayInv, GatewayTypes
  <2> QED
    BY <2>1 DEF ConnectionStep, ClientStep, HandlerStep, Dial, Drop, AddConn, OnConnect,
      ReadError, RemoveConn, OnDisconnect, handlerVars
<1> QED
  BY <1>1, ConnectionsChange DEF ConnectionStep, Undisturbed

LEMMA RouteStepKeeps ==
    ASSUME MessengerInv, GatewayInv', NEW u \in User, RouteStep(u)
    PROVE  MessengerInv'
BY ConnectionsChange DEF RouteStep, ApiStep, Login, Logout, handlerVars, Undisturbed

LEMMA ProcessEndsKeeps ==
    ASSUME MessengerInv, GatewayInv', NEW n \in Node, ProcessEnds(n)
    PROVE  MessengerInv'
BY ConnectionsChange DEF ProcessEnds, Crash, Undisturbed

-----------------------------------------------------------------------------
(* The invariant, and what follows from it. *)

LEMMA Init_MessengerInv == Init => MessengerInv
<1> SUFFICES ASSUME Init PROVE MessengerInv
  OBVIOUS
<1>1. GatewayInv
  BY GatewayInit_GatewayInv DEF Init
<1>2. TypeOK
  BY <1>1 DEF Init, TypeOK, GatewayInv
<1>3. DeliveredOnce /\ \A c \in Conn, m \in Message : ~Has(c, m)
  BY DEF Init, DeliveredOnce, Has
<1> QED
  BY <1>1, <1>2, <1>3 DEF MessengerInv, Init

LEMMA Next_MessengerInv == MessengerInv /\ [Next]_vars => MessengerInv'
<1> SUFFICES ASSUME MessengerInv, [Next]_vars PROVE MessengerInv'
  OBVIOUS
<1>1. GatewayInv'
  BY StepEffect, GatewayNext_GatewayInv DEF MessengerInv
<1>2. ASSUME NEW n \in Node, NEW u \in User, OnMessage(n, "private", {u}) PROVE MessengerInv'
  BY <1>1, <1>2, OnMessageKeeps
<1>3. ASSUME NEW n \in Node, OnMessage(n, "broadcast", User) PROVE MessengerInv'
  BY <1>1, <1>3, OnMessageKeeps
<1>4. ASSUME NEW t \in tasks, TaskStep(t) PROVE MessengerInv'
  BY <1>1, <1>4, LookUpKeeps, ArriveKeeps, LoseCallKeeps, SendToUserKeeps, BroadcastLocalKeeps,
    NextConnKeeps, WriteJSONKeeps, BroadcastDoneKeeps DEF TaskStep
<1>5. ASSUME NEW c \in Conn, ConnectionStep(c) PROVE MessengerInv'
  BY <1>1, <1>5, ConnectionStepKeeps
<1>6. ASSUME NEW u \in User, RouteStep(u) PROVE MessengerInv'
  BY <1>1, <1>6, RouteStepKeeps
<1>7. ASSUME NEW n \in Node, ProcessEnds(n) \/ Panic(n) PROVE MessengerInv'
  BY <1>1, <1>7, ProcessEndsKeeps DEF Panic
<1>8. CASE UNCHANGED vars
  BY <1>1, <1>8, ConnectionsChange DEF vars, messageVars, gatewayVars, handlerVars
<1> QED
  BY <1>2, <1>3, <1>4, <1>5, <1>6, <1>7, <1>8 DEF Next

\* Tasks know what they have to do and for whom, in every reachable state: the inductive
\* invariant.
THEOREM MessengerInvariant == Spec => []MessengerInv
<1>1. Init => MessengerInv
  BY Init_MessengerInv
<1>2. MessengerInv /\ [Next]_vars => MessengerInv'
  BY Next_MessengerInv
<1> QED
  BY <1>1, <1>2, PTL DEF Spec

\* No connection receives a message twice, whatever routes, crashes and lost calls do
\* (handleBroadcastMessage, handlePrivateMessage).
THEOREM MessagesDeliveredOnce == Spec => []DeliveredOnce
<1>1. MessengerInv => DeliveredOnce
  BY DEF MessengerInv
<1> QED
  BY <1>1, MessengerInvariant, PTL

\* The messages do to the connections what module Gateway allows.
THEOREM GatewayImplemented == Spec => ImplementsGateway
<1>1. Init => GatewayInit
  BY DEF Init
<1>2. MessengerInv /\ [Next]_vars => [GatewayNext]_gatewayVars
  BY StepEffect
<1> QED
  BY <1>1, <1>2, MessengerInvariant, PTL DEF Spec, GatewaySpec, ImplementsGateway

-----------------------------------------------------------------------------
(* Calm messages. *)

LEMMA CalmTypes ==
    ASSUME MessengerInv, CalmInv, NEW p \in calm
    PROVE  p[1] \in Message /\ p[1] \in 1 .. Len(messages) /\ p[2] \in User
BY MessengerAssumption DEF MessengerInv, TypeOK, CalmInv, Message

\* Of a user who is settled at c the map has the entry c.
LEMMA SettledEntry ==
    ASSUME MessengerInv, NEW u \in User, NEW c \in Of(u), Established(c)
    PROVE  c \in Conn /\ node[c] \in Node /\ Entry(c) = c /\ conns[node[c]][u] = c
<1>1. c \in Conn /\ user[c] = u /\ phase[c] = "reading" /\ c \in open
  BY DEF Of, Established
<1>2. node[c] \in Node
  BY <1>1 DEF MessengerInv, GatewayInv, HandlersKnown
<1>3. Entry(c) = c
  BY <1>1 DEF MessengerInv, GatewayInv, OpenIsRegistered
<1> QED
  BY <1>1, <1>2, <1>3 DEF Entry

\* A step of t, which leaves S, goes on bringing what t had to bring.
LEMMA TaskKeepsCalm ==
    ASSUME MessengerInv, CalmInv, NEW t \in tasks, NEW S, Become(t, S),
           UNCHANGED <<messages, user, node, phase, held, route>>, calm' \subseteq calm,
           open \cap held \subseteq open',
           \A c \in Conn, m \in Message : Has(c, m) => Has(c, m)',
           \A p \in calm' : \A c \in Of(p[2]) :
              p[1] = t.msg /\ Established(c) /\ route[p[2]] = node[c] /\ Brings(t, c) =>
                  Has(c, t.msg)' \/ \E s \in S : s.msg = t.msg /\ Brings(s, c)
    PROVE  CalmInv'
<1> SUFFICES ASSUME NEW p \in calm'
             PROVE  /\ p[1] <= Len(messages')
                    /\ messages'[p[1]].type = "private" => messages'[p[1]].to = {p[2]}
                    /\ \E c \in Of(p[2])' : /\ Established(c)' /\ route'[p[2]] = node'[c]
                                            /\ Served(c, p[1])'
  BY DEF CalmInv
<1>1. p \in calm /\ p[1] \in Message
  BY CalmTypes
<1>2. PICK c \in Of(p[2]) : Established(c) /\ route[p[2]] = node[c] /\ Served(c, p[1])
  BY <1>1 DEF CalmInv
<1>3. c \in Conn
  BY DEF Of
<1>4. Of(p[2])' = Of(p[2]) /\ Established(c)'
  BY <1>2 DEF Of, Established
<1>5. \A s : Brings(s, c)' <=> Brings(s, c)
  BY DEF Brings, IsPrivate, Origin
<1>6. Served(c, p[1])'
  <2>1. CASE Has(c, p[1])
    BY <1>1, <1>3, <2>1 DEF Served
  <2>2. ASSUME NEW s \in tasks, s.msg = p[1], Brings(s, c), s # t PROVE Served(c, p[1])'
    <3>1. s \in tasks'
      BY <2>2 DEF Become
    <3> QED
      BY <1>5, <2>2, <3>1 DEF Served
  <2>3. CASE t.msg = p[1] /\ Brings(t, c)
    <3>1. CASE Has(c, t.msg)'
      BY <2>3, <3>1 DEF Served
    <3>2. CASE \E s \in S : s.msg = t.msg /\ Brings(s, c)
      BY <1>5, <2>3, <3>2 DEF Served, Become
    <3> QED
      BY <1>2, <2>3, <3>1, <3>2
  <2> QED
    BY <1>2, <2>1, <2>2, <2>3 DEF Served
<1> QED
  BY <1>1, <1>2, <1>4, <1>6 DEF CalmInv

\* A step of the connections that leaves those of calm users alone.
LEMMA ConnectionsKeepCalm ==
    ASSUME MessengerInv, CalmInv, UNCHANGED <<messages, tasks, received>>,
           \A p \in calm' :
              /\ p \in calm
              /\ \A c \in Of(p[2]) : Established(c) /\ route[p[2]] = node[c] =>
                    /\ user'[c] = user[c] /\ node'[c] = node[c] /\ route'[p[2]] = route[p[2]]
                    /\ Established(c)'
    PROVE  CalmInv'
<1> SUFFICES ASSUME NEW p \in calm'
             PROVE  /\ p[1] <= Len(messages')
                    /\ messages'[p[1]].type = "private" => messages'[p[1]].to = {p[2]}
                    /\ \E c \in Of(p[2])' : /\ Established(c)' /\ route'[p[2]] = node'[c]
                                            /\ Served(c, p[1])'
  BY DEF CalmInv
<1>1. p \in calm
  OBVIOUS
<1>2. PICK c \in Of(p[2]) : Established(c) /\ route[p[2]] = node[c] /\ Served(c, p[1])
  BY <1>1 DEF CalmInv
<1>3. /\ user'[c] = user[c] /\ node'[c] = node[c] /\ route'[p[2]] = route[p[2]]
      /\ Established(c)'
  BY <1>2
<1>4. c \in Of(p[2])'
  BY <1>3 DEF Of
<1>5. \A s : Brings(s, c)' <=> Brings(s, c)
  BY <1>3 DEF Brings, IsPrivate, Origin
<1>6. Served(c, p[1])'
  BY <1>2, <1>5 DEF Served, Has
<1> QED
  BY <1>1, <1>2, <1>3, <1>4, <1>6 DEF CalmInv

\* A message to a settled user starts with a task that brings it.
LEMMA OnMessageKeepsCalm ==
    ASSUME MessengerInv, CalmInv, NEW n \in Node, NEW U \in SUBSET User,
           NEW type \in {"private", "broadcast"}, type = "private" => \E u \in User : U = {u},
           OnMessage(n, type, U)
    PROVE  CalmInv'
<1> SUFFICES ASSUME NEW p \in calm'
             PROVE  /\ p[1] <= Len(messages')
                    /\ messages'[p[1]].type = "private" => messages'[p[1]].to = {p[2]}
                    /\ \E c \in Of(p[2])' : /\ Established(c)' /\ route'[p[2]] = node'[c]
                                            /\ Served(c, p[1])'
  BY DEF CalmInv
<1>1. PICK m, t : /\ m = Len(messages) + 1 /\ m \in Message
                  /\ t = NewTask(m, IF type = "private" THEN "route" ELSE "broadcast", n, FALSE)
                  /\ messages' = Append(messages, [type |-> type, to |-> U])
                  /\ tasks' = tasks \cup {t}
                  /\ calm' = calm \cup {<<m, u>> : u \in {v \in U : Settled(v)}}
                  /\ UNCHANGED <<user, node, phase, open, held, route, received>>
  BY DEF OnMessage, gatewayVars, handlerVars
<1>2. m \in Nat /\ messages \in Seq([type : {"private", "broadcast"}, to : SUBSET User])
  BY <1>1, MessageIds DEF MessengerInv, TypeOK
<1>3. /\ Len(messages') = m /\ messages'[m] = [type |-> type, to |-> U]
      /\ \A k \in 1 .. Len(messages) : messages'[k] = messages[k]
  BY <1>1, <1>2
<1>4. (\A u : Of(u)' = Of(u)) /\ \A c : Established(c)' <=> Established(c)
  BY <1>1 DEF Of, Established
<1>5. CASE p \in calm
  <2>1. p[1] \in 1 .. Len(messages)
    BY <1>5, CalmTypes
  <2>2. PICK c \in Of(p[2]) : Established(c) /\ route[p[2]] = node[c] /\ Served(c, p[1])
    BY <1>5 DEF CalmInv
  <2>3. ASSUME NEW s \in tasks, s.msg = p[1], Brings(s, c) PROVE Brings(s, c)'
    BY <1>1, <1>3, <2>1, <2>3 DEF Brings, IsPrivate, Origin
  <2>4. Served(c, p[1])'
    BY <1>1, <2>2, <2>3 DEF Served, Has
  <2>5. messages'[p[1]] = messages[p[1]] /\ p[1] <= Len(messages')
    BY <1>1, <1>2, <1>3, <2>1
  <2> QED
    BY <1>1, <1>4, <1>5, <2>2, <2>4, <2>5 DEF CalmInv
<1>6. ASSUME NEW u \in U, Settled(u), p = <<m, u>>
      PROVE  /\ p[1] <= Len(messages')
             /\ messages'[p[1]].type = "private" => messages'[p[1]].to = {p[2]}
             /\ \E c \in Of(p[2])' : /\ Established(c)' /\ route'[p[2]] = node'[c]
                                     /\ Served(c, p[1])'
  <2>1. PICK c \in Of(u) : Established(c) /\ route[u] = node[c]
    BY <1>6 DEF Settled
  <2>2. /\ t.msg = m /\ t.node = n /\ t.rpc = FALSE
        /\ t.step = IF type = "private" THEN "route" ELSE "broadcast"
    BY <1>1 DEF NewTask
  <2>3. Brings(t, c)'
    BY <1>3, <2>2 DEF Brings, IsPrivate, Origin
  <2>4. Served(c, m)'
    BY <1>1, <2>2, <2>3 DEF Served
  <2> QED
    BY <1>1, <1>2, <1>3, <1>4, <1>6, <2>1, <2>4
<1> QED
  BY <1>1, <1>5, <1>6

\* In what follows, p is calm and t has its message to bring to c.
CalmTask(t, p, c) ==
    /\ p \in calm /\ p[1] = t.msg
    /\ c \in Of(p[2]) /\ Established(c) /\ route[p[2]] = node[c]
    /\ Brings(t, c)

LEMMA CalmTaskFacts ==
    ASSUME MessengerInv, CalmInv, NEW t \in tasks, NEW p, NEW c, CalmTask(t, p, c)
    PROVE  /\ t \in Task /\ InOrder(t) /\ t.msg \in Message
           /\ p[2] \in User /\ c \in Conn /\ c # Nil /\ node[c] \in Node /\ conns[node[c]][p[2]] = c
           /\ c \in open \cap held
           /\ IsPrivate(t) => To(t.msg) = p[2]
           /\ t.step \in {"broadcast", "iterate"} => ~IsPrivate(t)
           /\ Brings(t, c)
<1>1. t \in Task /\ InOrder(t) /\ t.msg \in Message
  BY SentWithinBound DEF MessengerInv
<1>2. p \in calm /\ c \in Of(p[2]) /\ p[1] = t.msg /\ Established(c)
  BY DEF CalmTask
<1>3. p[2] \in User
  BY <1>2, CalmTypes
<1>4. c \in Conn /\ node[c] \in Node /\ conns[node[c]][p[2]] = c
  BY <1>2, <1>3, SettledEntry
<1>5. IsPrivate(t) => To(t.msg) = p[2]
  BY <1>2 DEF IsPrivate, CalmInv, To
<1>6. t.step \in {"broadcast", "iterate"} => ~IsPrivate(t)
  BY <1>1 DEF InOrder, IsPrivate
<1> QED
  BY <1>1, <1>2, <1>3, <1>4, <1>5, <1>6, Distinct DEF Established, CalmTask

\* A step that changes nothing but the tasks.
LEMMA TaskAloneKeepsCalm ==
    ASSUME MessengerInv, CalmInv, NEW t \in tasks, NEW S, Become(t, S),
           UNCHANGED <<messages, gatewayVars, received, calm>>,
           \A p, c : CalmTask(t, p, c) => \E s \in S : s.msg = t.msg /\ Brings(s, c)
    PROVE  CalmInv'
<1>1. \A p \in calm' : \A c \in Of(p[2]) :
         p[1] = t.msg /\ Established(c) /\ route[p[2]] = node[c] /\ Brings(t, c) =>
             \E s \in S : s.msg = t.msg /\ Brings(s, c)
  BY DEF CalmTask
<1>2. \A c \in Conn, m \in Message : Has(c, m) => Has(c, m)'
  BY DEF Has
<1> QED
  BY <1>1, <1>2, TaskKeepsCalm DEF gatewayVars, handlerVars

LEMMA PrivateTasksKeepCalm ==
    ASSUME MessengerInv, CalmInv, NEW t \in tasks,
           LookUp(t) \/ Arrive(t) \/ SendToUser(t) \/ NotFound(t)
    PROVE  CalmInv'
<1>1. CASE LookUp(t)
  <2>1. ASSUME NEW p, NEW c, CalmTask(t, p, c)
        PROVE  \E s \in Routed(t, route[To(t.msg)]) : s.msg = t.msg /\ Brings(s, c)
    <3>1. t \in Task /\ IsPrivate(t) /\ t.step = "route"
      BY <1>1, <2>1, CalmTaskFacts DEF LookUp, InOrder, IsPrivate
    <3>2. route[To(t.msg)] = node[c] /\ node[c] \in Node
      BY <2>1, <3>1, CalmTaskFacts DEF CalmTask
    <3>3. PICK s : s = [t EXCEPT !.step = IF node[c] = t.node THEN "send" ELSE "forward",
                                 !.node = node[c]]
      OBVIOUS
    <3>4. s \in Routed(t, route[To(t.msg)])
      BY <3>2, <3>3, Distinct DEF Routed
    <3>5. s.msg = t.msg /\ s.step \in {"send", "forward"} /\ s.node = node[c]
      BY <3>1, <3>3 DEF Task
    <3>6. Brings(s, c)
      BY <3>1, <3>5 DEF Brings, IsPrivate
    <3> QED
      BY <3>4, <3>5, <3>6
  <2> QED
    BY <1>1, <2>1, TaskAloneKeepsCalm DEF LookUp
<1>2. CASE Arrive(t)
  <2>1. PICK s : s = [t EXCEPT !.step = IF @ = "forward" THEN "send" ELSE "broadcast", !.rpc = TRUE]
    OBVIOUS
  <2>2. ASSUME NEW p, NEW c, CalmTask(t, p, c) PROVE s.msg = t.msg /\ Brings(s, c)
    <3>1. t \in Task /\ InOrder(t) /\ c # Nil /\ Brings(t, c) /\ t.step \in {"forward", "relay"}
      BY <1>2, <2>2, CalmTaskFacts DEF Arrive, CalmTask
    <3>2. /\ s.msg = t.msg /\ s.node = t.node
          /\ s.step = IF t.step = "forward" THEN "send" ELSE "broadcast"
      BY <2>1, <3>1 DEF Task
    <3>3. t.todo = {} /\ t.conn = Nil
      BY <3>1 DEF InOrder
    <3>4. t.node = node[c]
      BY <3>1, <3>3 DEF Brings, Origin, InOrder, IsPrivate
    <3>5. IsPrivate(t) <=> t.step = "forward"
      BY <3>1 DEF InOrder, IsPrivate
    <3> QED
      BY <3>2, <3>4, <3>5, <3>1 DEF Brings, IsPrivate
  <2> QED
    BY <1>2, <2>1, <2>2, TaskAloneKeepsCalm DEF Arrive
<1>3. CASE SendToUser(t)
  <2>1. PICK d, s : /\ d = conns[t.node][To(t.msg)]
                    /\ s = IF d = Nil THEN [t EXCEPT !.step = "list"]
                           ELSE [t EXCEPT !.step = "write", !.conn = d]
    OBVIOUS
  <2>2. ASSUME NEW p, NEW c, CalmTask(t, p, c) PROVE s.msg = t.msg /\ Brings(s, c)
    <3>1. t \in Task /\ IsPrivate(t) /\ c # Nil /\ t.step = "send"
      BY <1>3, <2>2, CalmTaskFacts DEF SendToUser, InOrder, IsPrivate
    <3>2. t.node = node[c]
      BY <2>2, <3>1 DEF CalmTask, Brings
    <3>3. d = c
      BY <2>1, <2>2, <3>1, <3>2, CalmTaskFacts
    <3>4. s.msg = t.msg /\ s.step = "write" /\ s.conn = c
      BY <2>1, <3>1, <3>3 DEF Task
    <3> QED
      BY <3>1, <3>4 DEF Brings, IsPrivate
  <2>3. Become(t, {s})
    BY <1>3, <2>1 DEF SendToUser
  <2> QED
    BY <1>3, <2>2, <2>3, TaskAloneKeepsCalm DEF SendToUser
<1>4. CASE NotFound(t)
  <2>1. ASSUME NEW p, NEW c, CalmTask(t, p, c) PROVE FALSE
    BY <1>4, <2>1, CalmTaskFacts DEF NotFound, CalmTask, InOrder, IsPrivate, Brings
  <2> QED
    BY <1>4, <2>1, TaskAloneKeepsCalm DEF NotFound
<1> QED
  BY <1>1, <1>2, <1>3, <1>4

LEMMA LoseCallKeepsCalm ==
    ASSUME MessengerInv, CalmInv, NEW t \in tasks, LoseCall(t)
    PROVE  CalmInv'
<1>1. \A c \in Conn, m \in Message : Has(c, m) => Has(c, m)'
  BY DEF LoseCall, Has
<1>2. \A p \in calm' : p[1] # t.msg
  BY DEF LoseCall
<1> QED
  BY <1>1, <1>2, TaskKeepsCalm DEF LoseCall, gatewayVars, handlerVars

LEMMA BroadcastKeepsCalm ==
    ASSUME MessengerInv, CalmInv, NEW t \in tasks,
           BroadcastLocal(t) \/ NextConn(t) \/ BroadcastDone(t)
    PROVE  CalmInv'
<1>0. \A c \in Conn, m \in Message : UNCHANGED received => (Has(c, m) => Has(c, m)')
  BY DEF Has
<1>1. CASE BroadcastLocal(t)
  <2>1. PICK s : s = [t EXCEPT !.step = "iterate", !.todo = {conns[t.node][u] : u \in User} \ {Nil}]
    OBVIOUS
  <2>2. ASSUME NEW p, NEW c, CalmTask(t, p, c) PROVE s.msg = t.msg /\ Brings(s, c)
    <3>1. /\ t \in Task /\ InOrder(t) /\ ~IsPrivate(t) /\ c # Nil /\ t.step = "broadcast"
          /\ p[2] \in User /\ conns[node[c]][p[2]] = c /\ Brings(t, c)
      <4>1. t.step = "broadcast"
        BY <1>1 DEF BroadcastLocal
      <4> QED
        BY <2>2, <4>1, CalmTaskFacts
    <3>2. /\ s.msg = t.msg /\ s.node = t.node /\ s.rpc = t.rpc /\ s.step = "iterate"
          /\ s.todo = {conns[t.node][u] : u \in User} \ {Nil}
      BY <2>1, <3>1 DEF Task
    <3>3. t.todo = {} /\ t.conn = Nil
      BY <3>1 DEF InOrder
    <3>4. CASE t.node = node[c]
      <4>1. c \in s.todo
        BY <3>1, <3>2, <3>4
      <4> QED
        BY <3>1, <3>2, <4>1 DEF Brings, IsPrivate
    <3>5. CASE t.node # node[c]
      <4>1. Origin(s)
        BY <3>1, <3>2, <3>3, <3>5 DEF Brings, Origin
      <4> QED
        BY <3>1, <3>2, <3>5, <4>1 DEF Brings, IsPrivate
    <3> QED
      BY <3>4, <3>5
  <2>3. /\ Become(t, {s})
        /\ UNCHANGED <<messages, user, node, phase, held, open, route, received, calm>>
    BY <1>1, <2>1 DEF BroadcastLocal, BroadcastStart, handlerVars
  <2> QED
    BY <1>0, <2>2, <2>3, TaskKeepsCalm DEF CalmTask
<1>2. CASE NextConn(t)
  <2>1. PICK d \in t.todo : Become(t, {[t EXCEPT !.step = "write", !.conn = d, !.todo = @ \ {d}]})
    BY <1>2 DEF NextConn
  <2>2. PICK s : s = [t EXCEPT !.step = "write", !.conn = d, !.todo = @ \ {d}]
    OBVIOUS
  <2>3. ASSUME NEW p, NEW c, CalmTask(t, p, c) PROVE s.msg = t.msg /\ Brings(s, c)
    <3>1. t \in Task /\ InOrder(t) /\ ~IsPrivate(t) /\ c # Nil /\ t.step = "iterate" /\ Brings(t, c)
      <4>1. t.step = "iterate"
        BY <1>2 DEF NextConn
      <4> QED
        BY <2>3, <4>1, CalmTaskFacts
    <3>2. /\ s.msg = t.msg /\ s.node = t.node /\ s.rpc = t.rpc /\ s.step = "write"
          /\ s.conn = d /\ s.todo = t.todo \ {d}
      BY <2>2, <3>1 DEF Task
    <3>3. t.conn = Nil
      BY <3>1 DEF InOrder
    <3> QED
      BY <3>1, <3>2, <3>3 DEF Brings, IsPrivate, Origin
  <2> QED
    BY <1>2, <2>1, <2>2, <2>3, TaskAloneKeepsCalm DEF NextConn
<1>3. CASE BroadcastDone(t)
  <2>1. ASSUME NEW p, NEW c, CalmTask(t, p, c)
        PROVE  \E s \in Relays(t) : s.msg = t.msg /\ Brings(s, c)
    <3>1. /\ t \in Task /\ InOrder(t) /\ ~IsPrivate(t) /\ c # Nil /\ Brings(t, c)
          /\ t.step = "iterate" /\ t.todo = {} /\ node[c] \in Node
      <4>1. t.step = "iterate" /\ t.todo = {}
        BY <1>3 DEF BroadcastDone
      <4> QED
        BY <2>1, <4>1, CalmTaskFacts
    <3>2. t.conn = Nil
      BY <3>1 DEF InOrder
    <3>3. Origin(t) /\ t.node # node[c]
      BY <3>1, <3>2 DEF Brings
    <3>4. PICK s : s = NewTask(t.msg, "relay", node[c], FALSE)
      OBVIOUS
    <3>5. s \in Relays(t)
      BY <3>1, <3>3, <3>4 DEF Relays, Origin
    <3>6. s.msg = t.msg /\ s.step = "relay" /\ s.node = node[c]
      BY <3>4 DEF NewTask
    <3> QED
      BY <3>1, <3>5, <3>6 DEF Brings, IsPrivate
  <2>2. /\ Become(t, Relays(t))
        /\ UNCHANGED <<messages, user, node, phase, held, open, route, received, calm>>
    BY <1>3 DEF BroadcastDone, BroadcastEnd, handlerVars
  <2> QED
    BY <1>0, <2>1, <2>2, TaskKeepsCalm DEF CalmTask
<1> QED
  BY <1>1, <1>2, <1>3

LEMMA WriteJSONKeepsCalm ==
    ASSUME MessengerInv, CalmInv, NEW t \in tasks, WriteJSON(t)
    PROVE  CalmInv'
<1>1. PICK d : d = t.conn
  OBVIOUS
<1>2. /\ t.step = "write" /\ Become(t, Written(t)) /\ UNCHANGED <<messages, calm>>
      /\ UNCHANGED <<user, node, phase, held, route>>
      /\ \/ /\ d \in open \cap held /\ UNCHANGED open
            /\ received' = [received EXCEPT ![d] = Append(@, t.msg)]
         \/ /\ d \notin open \cap held /\ UNCHANGED received
            /\ UNCHANGED open \/ open' = open \ {d}
  BY <1>1 DEF WriteJSON, CloseBroken, gatewayVars, handlerVars
<1>3. /\ t \in Task /\ InOrder(t) /\ d \in Conn /\ t.msg \in Message
      /\ received \in [Conn -> Seq(Message)]
  BY <1>1, <1>2, SentWithinBound DEF MessengerInv, TypeOK, InOrder, Task
<1>4. \A c \in Conn : \/ received'[c] = received[c]
                      \/ c = d /\ received'[c] = Append(received[c], t.msg)
  BY <1>2, <1>3
<1>5. \A c \in Conn, m \in Message : Has(c, m) => Has(c, m)'
  <2> SUFFICES ASSUME NEW c \in Conn, NEW m \in Message, Has(c, m) PROVE Has(c, m)'
    OBVIOUS
  <2>1. PICK k \in 1 .. Len(received[c]) : received[c][k] = m
    BY DEF Has
  <2>2. received[c] \in Seq(Message)
    BY <1>3
  <2>3. k \in 1 .. Len(received'[c]) /\ received'[c][k] = m
    <3>1. CASE received'[c] = received[c]
      BY <2>1, <3>1
    <3>2. CASE received'[c] = Append(received[c], t.msg)
      <4>1. PICK r : r = received[c]
        OBVIOUS
      <4>2. Len(Append(r, t.msg)) = Len(r) + 1 /\ Append(r, t.msg)[k] = r[k] /\ Len(r) \in Nat
        BY <1>3, <2>1, <2>2, <4>1, AppendProperties
      <4> QED
        BY <2>1, <3>2, <4>1, <4>2
    <3> QED
      BY <1>4, <3>1, <3>2
  <2> QED
    BY <2>3 DEF Has
<1>6. d \in open \cap held => Has(d, t.msg)'
  <2> SUFFICES ASSUME d \in open \cap held PROVE Has(d, t.msg)'
    OBVIOUS
  <2>1. received[d] \in Seq(Message)
    BY <1>3
  <2>2. received'[d] = Append(received[d], t.msg)
    BY <1>2, <1>3
  <2>3. /\ Len(received[d]) + 1 \in 1 .. Len(received'[d])
        /\ received'[d][Len(received[d]) + 1] = t.msg
    BY <1>3, <2>1, <2>2
  <2> QED
    BY <2>3 DEF Has
<1>7. ASSUME NEW p, NEW c, CalmTask(t, p, c)
      PROVE  Has(c, t.msg)' \/ \E s \in Written(t) : s.msg = t.msg /\ Brings(s, c)
  <2>1. c \in open \cap held /\ Brings(t, c) /\ c # Nil
    BY <1>7, CalmTaskFacts
  <2>2. CASE c = d
    BY <1>6, <2>1, <2>2
  <2>3. CASE c # d
    <3>1. ~IsPrivate(t)
      BY <1>1, <1>2, <2>1, <2>3 DEF Brings
    <3>2. PICK s : s = [t EXCEPT !.step = "iterate", !.conn = Nil]
      OBVIOUS
    <3>3. s \in Written(t)
      BY <3>1, <3>2 DEF Written, IsPrivate
    <3>4. s.msg = t.msg /\ s.node = t.node /\ s.rpc = t.rpc /\ s.step = "iterate" /\ s.todo = t.todo
      BY <1>3, <3>2 DEF Task
    <3>5. Brings(s, c)
      BY <1>1, <1>2, <2>1, <2>3, <3>1, <3>4 DEF Brings, IsPrivate, Origin
    <3> QED
      BY <3>3, <3>4, <3>5
  <2> QED
    BY <2>2, <2>3
<1>8. open \cap held \subseteq open'
  BY <1>2
<1> QED
  BY <1>2, <1>5, <1>7, <1>8, TaskKeepsCalm DEF CalmTask

\* What the connections of one user do, and a route set by HTTP, is no matter to the others.
LEMMA ConnectionStepKeepsCalm ==
    ASSUME MessengerInv, CalmInv, NEW d \in Conn, ConnectionStep(d)
    PROVE  CalmInv'
<1>1. /\ phase \in [Conn -> Phases] /\ user \in [Conn -> User \cup {Nil}]
      /\ node \in [Conn -> Node \cup {Nil}] /\ route \in [User -> Node \cup {Nil}]
  BY DEF MessengerInv, GatewayInv, GatewayTypes
<1>2. ASSUME NEW u \in User, u # user'[d], NEW c \in Of(u), Established(c)
      PROVE  /\ user'[c] = user[c] /\ node'[c] = node[c] /\ route'[u] = route[u]
             /\ Established(c)'
  <2>1. c \in Conn /\ user[c] = u /\ phase[c] = "reading" /\ c \in open /\ c \in held
    BY <1>2 DEF Of, Established
  <2>2. CASE \E v \in User, n \in Node : Dial(d, v, n)
    <3>1. phase[d] = "none" /\ phase' = [phase EXCEPT ![d] = "upgraded"]
          /\ open' = open \cup {d} /\ held' = held \cup {d} /\ UNCHANGED route
          /\ (\E v \in User : user' = [user EXCEPT ![d] = v])
          /\ (\E n \in Node : node' = [node EXCEPT ![d] = n])
      BY <2>2 DEF Dial
    <3>2. c # d
      BY <2>1, <3>1
    <3> QED
      BY <1>1, <2>1, <3>1, <3>2 DEF Established
  <2>3. CASE ~\E v \in User, n \in Node : Dial(d, v, n)
    <3>1. UNCHANGED <<user, node>>
      BY <2>3 DEF ConnectionStep, ClientStep, HandlerStep, Drop, AddConn, OnConnect, ReadError,
                  RemoveConn, OnDisconnect, handlerVars
    <3>2. c # d /\ u # user[d]
      BY <1>2, <2>1, <3>1
    <3>3. phase' = phase \/ \E x : phase' = [phase EXCEPT ![d] = x]
      BY <2>3 DEF ConnectionStep, ClientStep, HandlerStep, Drop, AddConn, OnConnect, ReadError,
                  RemoveConn, OnDisconnect, handlerVars
    <3>4. held' = held \/ held' = held \ {d}
      BY <2>3 DEF ConnectionStep, ClientStep, HandlerStep, Drop, AddConn, OnConnect, ReadError,
                  RemoveConn, OnDisconnect
    <3>5. open' = open \/ (open' = open \ {Entry(d)} /\ phase[d] # "none")
      BY <2>3 DEF ConnectionStep, ClientStep, HandlerStep, Drop, AddConn, OnConnect, ReadError,
                  RemoveConn, OnDisconnect, CloseOld
    <3>6. route' = route \/ (phase[d] # "none" /\ \E x : route' = [route EXCEPT ![user[d]] = x])
      <4>1. d \in cleaning => phase[d] # "none"
        BY DEF MessengerInv, GatewayInv, HandlersKnown
      <4> QED
        BY <2>3, <4>1 DEF ConnectionStep, ClientStep, HandlerStep, Drop, AddConn, OnConnect,
                          ReadError, RemoveConn, OnDisconnect
    <3>7. c \in open'
      <4>1. ASSUME phase[d] # "none" PROVE c # Entry(d)
        <5>1. user[d] \in User /\ node[d] \in Node
          BY <4>1 DEF MessengerInv, GatewayInv, HandlersKnown
        <5>2. Entry(d) # Nil => user[Entry(d)] = user[d]
          BY <5>1 DEF MessengerInv, GatewayInv, EntryHasHandler, Entry
        <5> QED
          BY <2>1, <3>2, <5>2, Distinct
      <4> QED
        BY <2>1, <3>5, <4>1
    <3>8. phase'[c] = "reading" /\ c \in held' /\ route'[u] = route[u]
      BY <1>1, <2>1, <3>2, <3>3, <3>4, <3>6
    <3> QED
      BY <2>1, <3>1, <3>7, <3>8 DEF Established
  <2> QED
    BY <2>2, <2>3
<1>3. \A p \in calm' : p \in calm /\ p[2] \in User /\ p[2] # user'[d]
  BY CalmTypes DEF ConnectionStep, Undisturbed
<1>4. UNCHANGED <<messages, tasks, received>>
  BY DEF ConnectionStep
<1> QED
  BY <1>2, <1>3, <1>4, ConnectionsKeepCalm

LEMMA RouteStepKeepsCalm ==
    ASSUME MessengerInv, CalmInv, NEW u \in User, RouteStep(u)
    PROVE  CalmInv'
<1>1. /\ UNCHANGED <<user, node, phase, open, held>> /\ UNCHANGED <<messages, tasks, received>>
      /\ \E x : route' = [route EXCEPT ![u] = x]
  BY DEF RouteStep, ApiStep, Login, Logout, handlerVars
<1>2. \A v \in User \ {u} : route'[v] = route[v]
  BY <1>1 DEF MessengerInv, GatewayInv, GatewayTypes
<1>3. \A p \in calm' : p \in calm /\ p[2] \in User \ {u}
  BY CalmTypes DEF RouteStep, Undisturbed
<1> QED
  BY <1>1, <1>2, <1>3, ConnectionsKeepCalm DEF Established

LEMMA ProcessEndsKeepsCalm ==
    ASSUME MessengerInv, CalmInv, NEW n \in Node, ProcessEnds(n)
    PROVE  CalmInv'
<1>1. calm' = {}
  BY CalmTypes DEF ProcessEnds, Undisturbed
<1> QED
  BY <1>1 DEF CalmInv

LEMMA Next_CalmInv == MessengerInv /\ CalmInv /\ [Next]_vars => CalmInv'
<1> SUFFICES ASSUME MessengerInv, CalmInv, [Next]_vars PROVE CalmInv'
  OBVIOUS
<1>1. ASSUME NEW n \in Node, NEW u \in User, OnMessage(n, "private", {u}) PROVE CalmInv'
  BY <1>1, OnMessageKeepsCalm
<1>2. ASSUME NEW n \in Node, OnMessage(n, "broadcast", User) PROVE CalmInv'
  BY <1>2, OnMessageKeepsCalm
<1>3. ASSUME NEW t \in tasks, TaskStep(t) PROVE CalmInv'
  BY <1>3, PrivateTasksKeepCalm, LoseCallKeepsCalm, BroadcastKeepsCalm, WriteJSONKeepsCalm
     DEF TaskStep
<1>4. ASSUME NEW c \in Conn, ConnectionStep(c) PROVE CalmInv'
  BY <1>4, ConnectionStepKeepsCalm
<1>5. ASSUME NEW u \in User, RouteStep(u) PROVE CalmInv'
  BY <1>5, RouteStepKeepsCalm
<1>6. ASSUME NEW n \in Node, ProcessEnds(n) \/ Panic(n) PROVE CalmInv'
  BY <1>6, ProcessEndsKeepsCalm DEF Panic
<1>7. CASE UNCHANGED vars
  BY <1>7, ConnectionsKeepCalm DEF vars, messageVars, gatewayVars, handlerVars, Established
<1> QED
  BY <1>1, <1>2, <1>3, <1>4, <1>5, <1>6, <1>7 DEF Next

\* A message to a user who stays connected, with the route in place, arrives unless a call
\* fails or a process ends: SendToUser finds the connection that the route promises, and
\* the relays of a broadcast serve every node once its sender's node is served.
THEOREM CalmMessagesDelivered == Spec => []CalmIsDelivered
<1>1. Init => CalmInv
  BY DEF Init, CalmInv
<1>2. MessengerInv /\ CalmInv /\ [Next]_vars => CalmInv'
  BY Next_CalmInv
<1>3. CalmInv => CalmIsDelivered
  BY DEF CalmInv, CalmIsDelivered, Served, Has, Carried
<1> QED
  BY <1>1, <1>2, <1>3, MessengerInvariant, PTL DEF Spec
=============================================================================
