------------------------------ MODULE Gateway ------------------------------
(***************************************************************************)
(* The gateways of im/gateway.go with the callbacks im/server.go gives     *)
(* them: the WebSocket connections of every node, the handler goroutine of *)
(* each, the map from users to connections with its lock, and the route of *)
(* every user, which OnConnect and OnDisconnect keep in the key-value      *)
(* service.  The route is an atomic register, the promise of module KV.    *)
(*                                                                         *)
(* What messages do to all this is left open: SendToUser and BroadcastLocal *)
(* close a connection they cannot write to, and BroadcastLocal holds the   *)
(* lock for reading.  Module Messenger says when.                          *)
(***************************************************************************)
EXTENDS Integers, FiniteSets

CONSTANTS
    Node,          \* the nodes, each with one gateway
    User,          \* the users whose connections are followed
    Habit,         \* what clients there are, a subset of Habits
    Reader,        \* the goroutines that may call BroadcastLocal
    Nil,           \* no node, no user, no connection
    MaxConns,      \* bound: connections made in a behaviour
    MaxCrashes     \* bound: processes that end in a behaviour, none of them twice

(***************************************************************************)
(* How the clients of a user dial.  "careful": when the last connection is *)
(* cleaned up.  "roaming": at once when the client has lost the last one,  *)
(* as the TUI does.  "twice": also while another client of the user is     *)
(* connected.  "api": careful, but also logs in and out by HTTP.           *)
(***************************************************************************)
Habits == {"careful", "roaming", "twice", "api"}

ASSUME GatewayAssumption ==
    /\ Habit \subseteq Habits
    /\ Nil \notin Node \cup User \cup Nat
    /\ {MaxConns, MaxCrashes} \subseteq Nat

VARIABLES
    habit,         \* the habit of each user, chosen once
    phase,         \* where the handler of each connection is
    user, node,    \* user_id of each connection, and the node it was dialled at
    open,          \* the connections whose server end is not closed
    held,          \* the connections whose client end is alive
    conns,         \* g.conns of each node: the connection of each user, or Nil
    lock,          \* g.mu locked for writing: the connection whose handler holds it
    readers,       \* g.mu locked for reading: the goroutines that hold it
    cleaning,      \* the connections whose handler has left a pending OnDisconnect
    route,         \* "route:" + user in the key-value service; Nil is the empty route
    crashed        \* history: the nodes whose process has ended, and started again

handlerVars == <<phase, user, node>>
gatewayVars == <<habit, handlerVars, open, held, conns, lock, readers, cleaning, route, crashed>>

Conn == 1 .. MaxConns

\* The connections of u.
Of(u) == {c \in Conn : user[c] = u}

Entry(c) == conns[node[c]][user[c]]

IsLocked(n) == lock[n] # Nil \/ readers[n] # {}

-----------------------------------------------------------------------------
(* Clients. *)

MayDial(u) ==
    /\ habit[u] = "roaming" => Of(u) \cap held = {}
    /\ habit[u] \in {"careful", "api"} => \A c \in Of(u) : phase[c] = "ended" /\ c \notin cleaning

\* A client of u dials the node n, which upgrades the connection.
Dial(c, u, n) ==
    /\ phase[c] = "none"
    /\ \A d \in 1 .. c - 1 : phase[d] # "none"
    /\ MayDial(u)
    /\ phase' = [phase EXCEPT ![c] = "upgraded"]
    /\ user' = [user EXCEPT ![c] = u]
    /\ node' = [node EXCEPT ![c] = n]
    /\ open' = open \cup {c}
    /\ held' = held \cup {c}
    /\ UNCHANGED <<habit, conns, lock, readers, cleaning, route, crashed>>

\* The client leaves, loses the network, or has found its connection closed.
Drop(c) ==
    /\ c \in held
    /\ held' = held \ {c}
    /\ UNCHANGED <<habit, handlerVars, open, conns, lock, readers, cleaning, route, crashed>>

-----------------------------------------------------------------------------
(* The handler of a connection: HandleWebSocket. *)

\* Variant: a replaced connection is not closed.
LeaveOldOpen(c) == UNCHANGED open

CloseOld(c) == open' = open \ {Entry(c)}

\* Variant: addConn does not wait for OnConnect.
AddConnOnly(c) ==
    /\ phase[c] = "upgraded"
    /\ ~IsLocked(node[c])
    /\ phase' = [phase EXCEPT ![c] = "connecting"]
    /\ CloseOld(c)
    /\ conns' = [conns EXCEPT ![node[c]][user[c]] = c]
    /\ UNCHANGED <<habit, user, node, held, lock, readers, cleaning, route, crashed>>

\* addConn takes the lock, which it keeps while OnConnect runs.
AddConn(c) ==
    /\ phase[c] = "upgraded"
    /\ ~IsLocked(node[c])
    /\ phase' = [phase EXCEPT ![c] = "connecting"]
    /\ CloseOld(c)
    /\ conns' = [conns EXCEPT ![node[c]][user[c]] = c]
    /\ lock' = [lock EXCEPT ![node[c]] = c]
    /\ UNCHANGED <<habit, user, node, held, readers, cleaning, route, crashed>>

\* Variant: only a user without a route gets one.
OnFirstConnect(c) ==
    /\ phase[c] = "connecting"
    /\ phase' = [phase EXCEPT ![c] = "reading"]
    /\ route' = [route EXCEPT ![user[c]] = IF @ = Nil THEN node[c] ELSE @]
    /\ lock' = [lock EXCEPT ![node[c]] = Nil]
    /\ UNCHANGED <<habit, user, node, open, held, conns, readers, cleaning, crashed>>

\* The Put of OnConnect returns, and addConn with it.
OnConnect(c) ==
    /\ phase[c] = "connecting"
    /\ phase' = [phase EXCEPT ![c] = "reading"]
    /\ route' = [route EXCEPT ![user[c]] = node[c]]
    /\ lock' = [lock EXCEPT ![node[c]] = Nil]
    /\ UNCHANGED <<habit, user, node, open, held, conns, readers, cleaning, crashed>>

\* ReadMessage fails: an end of the connection is closed, or the network broke it.
ReadError(c) ==
    /\ phase[c] = "reading"
    /\ phase' = [phase EXCEPT ![c] = "leaving"]
    /\ UNCHANGED <<habit, user, node, open, held, conns, lock, readers, cleaning, route, crashed>>

\* Variant: the handler of a connection closed already removes nothing.
RemoveOpenConn(c) ==
    /\ phase[c] = "leaving"
    /\ ~IsLocked(node[c])
    /\ phase' = [phase EXCEPT ![c] = "ended"]
    /\ IF c \in open
       THEN /\ open' = open \ {c}
            /\ conns' = [conns EXCEPT ![node[c]][user[c]] = Nil]
            /\ cleaning' = cleaning \cup {c}
       ELSE UNCHANGED <<open, conns, cleaning>>
    /\ UNCHANGED <<habit, user, node, held, lock, readers, route, crashed>>

\* The deferred removeConn, which removes the user's entry, whosever connection it is.
RemoveConn(c) ==
    /\ phase[c] = "leaving"
    /\ ~IsLocked(node[c])
    /\ phase' = [phase EXCEPT ![c] = "ended"]
    /\ open' = open \ {Entry(c)}
    /\ conns' = [conns EXCEPT ![node[c]][user[c]] = Nil]
    /\ cleaning' = IF Entry(c) = Nil THEN cleaning ELSE cleaning \cup {c}
    /\ UNCHANGED <<habit, user, node, held, lock, readers, route, crashed>>

\* The Put of OnDisconnect, in the goroutine that removeConn of c has started.
OnDisconnect(c) ==
    /\ c \in cleaning
    /\ cleaning' = cleaning \ {c}
    /\ route' = [route EXCEPT ![user[c]] = Nil]
    /\ UNCHANGED <<habit, handlerVars, open, held, conns, lock, readers, crashed>>

-----------------------------------------------------------------------------
(* What messages do to the gateway. *)

\* BroadcastLocal takes g.mu for reading.
BroadcastStart(n, r) ==
    /\ lock[n] = Nil
    /\ readers' = [readers EXCEPT ![n] = @ \cup {r}]
    /\ UNCHANGED <<habit, handlerVars, open, held, conns, lock, cleaning, route, crashed>>

\* Variant: it keeps the lock.
KeepReadLock(n, r) == UNCHANGED gatewayVars

\* BroadcastLocal returns and gives g.mu back.
BroadcastEnd(n, r) ==
    /\ readers' = [readers EXCEPT ![n] = @ \ {r}]
    /\ UNCHANGED <<habit, handlerVars, open, held, conns, lock, cleaning, route, crashed>>

\* WriteJSON fails and its caller closes the connection.
CloseBroken(c) ==
    /\ phase[c] \notin {"none", "upgraded"}
    /\ open' = open \ {c}
    /\ UNCHANGED <<habit, handlerVars, held, conns, lock, readers, cleaning, route, crashed>>

-----------------------------------------------------------------------------
(* The rest of a node. *)

\* handleLogin and handleLogout.
Login(u, n) ==
    /\ habit[u] = "api"
    /\ route' = [route EXCEPT ![u] = n]
    /\ UNCHANGED <<habit, handlerVars, open, held, conns, lock, readers, cleaning, crashed>>

Logout(u) ==
    /\ habit[u] = "api"
    /\ route' = [route EXCEPT ![u] = Nil]
    /\ UNCHANGED <<habit, handlerVars, open, held, conns, lock, readers, cleaning, crashed>>

\* The process of n ends, with its goroutines and connections, and starts again.
Crash(n) ==
    LET Here == {c \in Conn : node[c] = n}
    IN  /\ n \notin crashed
        /\ Cardinality(crashed) < MaxCrashes
        /\ crashed' = crashed \cup {n}
        /\ phase' = [c \in Conn |-> IF c \in Here THEN "ended" ELSE phase[c]]
        /\ open' = open \ Here
        /\ conns' = [conns EXCEPT ![n] = [u \in User |-> Nil]]
        /\ lock' = [lock EXCEPT ![n] = Nil]
        /\ readers' = [readers EXCEPT ![n] = {}]
        /\ cleaning' = cleaning \ Here
        /\ UNCHANGED <<habit, user, node, held, route>>

-----------------------------------------------------------------------------
GatewayInit ==
    /\ habit \in [User -> Habit]
    /\ phase = [c \in Conn |-> "none"]
    /\ user = [c \in Conn |-> Nil]
    /\ node = [c \in Conn |-> Nil]
    /\ open = {}
    /\ held = {}
    /\ conns = [n \in Node |-> [u \in User |-> Nil]]
    /\ lock = [n \in Node |-> Nil]
    /\ readers = [n \in Node |-> {}]
    /\ cleaning = {}
    /\ route = [u \in User |-> Nil]
    /\ crashed = {}

ClientStep(c) ==
    \/ \E u \in User, n \in Node : Dial(c, u, n)
    \/ Drop(c)

HandlerStep(c) ==
    \/ AddConn(c)
    \/ OnConnect(c)
    \/ ReadError(c)
    \/ RemoveConn(c)
    \/ OnDisconnect(c)

ApiStep(u) == Logout(u) \/ \E n \in Node : Login(u, n)

MessageEffect ==
    \/ \E n \in Node, r \in Reader : BroadcastStart(n, r) \/ BroadcastEnd(n, r)
    \/ \E c \in Conn : CloseBroken(c)

GatewayNext ==
    \/ \E c \in Conn : ClientStep(c) \/ HandlerStep(c)
    \/ \E u \in User : ApiStep(u)
    \/ MessageEffect
    \/ \E n \in Node : Crash(n)

GatewaySpec == GatewayInit /\ [][GatewayNext]_gatewayVars

-----------------------------------------------------------------------------
(* Properties. *)

Phases == {"none", "upgraded", "connecting", "reading", "leaving", "ended"}

\* Every variable holds a value of its Go type.
GatewayTypes ==
    /\ habit \in [User -> Habits]
    /\ phase \in [Conn -> Phases]
    /\ user \in [Conn -> User \cup {Nil}]
    /\ node \in [Conn -> Node \cup {Nil}]
    /\ open \subseteq Conn
    /\ held \subseteq Conn
    /\ conns \in [Node -> [User -> Conn \cup {Nil}]]
    /\ lock \in [Node -> Conn \cup {Nil}]
    /\ readers \in [Node -> SUBSET Reader]
    /\ cleaning \subseteq Conn
    /\ route \in [User -> Node \cup {Nil}]
    /\ crashed \subseteq Node

\* No connection is lost sight of: one that the server has not closed is the entry of its
\* user, or has its addConn ahead.  Otherwise it would take messages for nobody, or stay
\* open for ever after its handler has returned (addConn, removeConn).
OpenIsRegistered ==
    \A c \in open : phase[c] = "upgraded" \/ (phase[c] # "none" /\ Entry(c) = c)

\* An entry of the map belongs to a handler that is still there to remove it (removeConn).
EntryHasHandler ==
    \A n \in Node, u \in User : conns[n][u] # Nil =>
        LET c == conns[n][u]
        IN  node[c] = n /\ user[c] = u /\ phase[c] \in {"connecting", "reading", "leaving"}

\* A route names a node that has the user, or that is about to clear the route, unless
\* its process has ended or the route was set by HTTP (addConn calls OnConnect under the
\* lock for this).
NoStaleRoute ==
    \A u \in User : route[u] # Nil /\ habit[u] # "api" =>
        \/ conns[route[u]][u] # Nil
        \/ \E c \in cleaning : user[c] = u /\ node[c] = route[u]
        \/ route[u] \in crashed

Established(c) == phase[c] = "reading" /\ c \in open \cap held

\* u is connected, and nothing is under way for any other connection of u.
Quiet(u) ==
    /\ \E c \in Of(u) : Established(c)
    /\ \A c \in Of(u) : Established(c) \/ (phase[c] = "ended" /\ c \notin cleaning)

\* The route of a user who is connected, with nothing under way, names a node the user
\* is connected to.
RouteFollowsUser ==
    \A u \in User : Quiet(u) => route[u] \in {node[c] : c \in Of(u) \cap open}

\* So it is for clients who wait for their last connection to be cleaned up.
RouteFollowsCareful ==
    \A u \in User : habit[u] = "careful" /\ Quiet(u) =>
        route[u] \in {node[c] : c \in Of(u) \cap open}

(***************************************************************************)
(* Why they hold.  A handler has its user and its node; one in OnConnect   *)
(* has the lock and the entry, because everybody else who changes the map  *)
(* waits for the lock; a pending OnDisconnect has left its handler; and a  *)
(* careful user has one connection under way, which sets the route before  *)
(* its handler reads.                                                      *)
(***************************************************************************)
HandlersKnown ==
    \A c \in Conn :
        /\ IF phase[c] = "none" THEN user[c] = Nil /\ node[c] = Nil
                               ELSE user[c] \in User /\ node[c] \in Node
        /\ c \in cleaning => phase[c] = "ended"

ConnectingHasLock ==
    \A c \in Conn : phase[c] = "connecting" => lock[node[c]] = c /\ Entry(c) = c

UnderWay(c) == phase[c] \notin {"none", "ended"} \/ c \in cleaning

CarefulRoute ==
    \A c \in Conn : UnderWay(c) /\ habit[user[c]] = "careful" =>
        /\ \A d \in Conn : UnderWay(d) /\ user[d] = user[c] => d = c
        /\ phase[c] = "reading" => route[user[c]] = node[c]

\* The inductive invariant behind the four properties above but RouteFollowsUser.
GatewayInv ==
    /\ GatewayTypes
    /\ HandlersKnown
    /\ ConnectingHasLock
    /\ EntryHasHandler
    /\ OpenIsRegistered
    /\ NoStaleRoute
    /\ CarefulRoute
=============================================================================
