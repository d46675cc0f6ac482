----------------------------- MODULE Messenger -----------------------------
(***************************************************************************)
(* Messages: OnMessage, private messages and their forwarding, and         *)
(* broadcasts of im/server.go, with SendToUser and BroadcastLocal of       *)
(* im/gateway.go, over the connections and routes of module Gateway.       *)
(*                                                                         *)
(* Every goroutine that carries a message is a task.  A message enters at  *)
(* any node: its sender may be any user connected there.                   *)
(***************************************************************************)
EXTENDS Gateway, Sequences

CONSTANTS MaxMessages      \* bound: messages sent in a behaviour

Message == 1 .. MaxMessages

ASSUME MessengerAssumption == MaxMessages \in Nat /\ Reader = Message

VARIABLES
    messages,      \* the messages sent, each with its type and addressees
    tasks,         \* the goroutines that carry them
    received,      \* history: what the client of each connection has received
    calm           \* history: <<m, u>> when u was connected since m came, and nothing moved

messageVars == <<messages, tasks, received, calm>>
vars == <<gatewayVars, messageVars>>

(***************************************************************************)
(* A task is at a node, carries msg, and came there by a call or not.      *)
(* While step is "write" it runs WriteJSON on conn; a broadcast has the    *)
(* connections in todo still to write to.                                  *)
(***************************************************************************)
Steps == {"route", "forward", "send", "list", "relay", "broadcast", "iterate", "write"}

NewTask(m, step, n, rpc) ==
    [msg |-> m, step |-> step, node |-> n, rpc |-> rpc, todo |-> {}, conn |-> Nil]

Become(t, S) == tasks' = (tasks \ {t}) \cup S

To(m) == CHOOSE u \in messages[m].to : TRUE

Settled(u) == \E c \in Of(u) : Established(c) /\ route[u] = node[c]

-----------------------------------------------------------------------------
\* A handler of n has read a message for the users U and starts OnMessage.
OnMessage(n, type, U) ==
    LET m == Len(messages) + 1
    IN  /\ m \in Message
        /\ messages' = Append(messages, [type |-> type, to |-> U])
        /\ tasks' = tasks \cup
               {NewTask(m, IF type = "private" THEN "route" ELSE "broadcast", n, FALSE)}
        /\ calm' = calm \cup {<<m, u>> : u \in {v \in U : Settled(v)}}
        /\ UNCHANGED <<gatewayVars, received>>

\* Variant: a message for another node is dropped.
LocalOnly(t, target) == IF target = t.node THEN {[t EXCEPT !.step = "send"]} ELSE {}

\* What handlePrivateMessage does with the route it has read.
Routed(t, target) ==
    IF target = Nil THEN {}
    ELSE {[t EXCEPT !.step = IF target = t.node THEN "send" ELSE "forward", !.node = target]}

\* handlePrivateMessage reads the route of the addressee.
LookUp(t) ==
    /\ t.step = "route"
    /\ Become(t, Routed(t, route[To(t.msg)]))
    /\ UNCHANGED <<gatewayVars, messages, received, calm>>

\* The call of forwardPrivateMessage or sendBroadcastToPeer reaches its node.
Arrive(t) ==
    /\ t.step \in {"forward", "relay"}
    /\ Become(t, {[t EXCEPT !.step = IF @ = "forward" THEN "send" ELSE "broadcast", !.rpc = TRUE]})
    /\ UNCHANGED <<gatewayVars, messages, received, calm>>

\* The call fails or takes more than two seconds; the error is only logged.
LoseCall(t) ==
    /\ t.step \in {"forward", "relay"}
    /\ Become(t, {})
    /\ calm' = {p \in calm : p[1] # t.msg}
    /\ UNCHANGED <<gatewayVars, messages, received>>

\* SendToUser reads the map under the lock; without an entry it lists the users, unlocked.
SendToUser(t) ==
    LET c == conns[t.node][To(t.msg)]
    IN  /\ t.step = "send"
        /\ lock[t.node] = Nil
        /\ Become(t, {IF c = Nil THEN [t EXCEPT !.step = "list"]
                      ELSE [t EXCEPT !.step = "write", !.conn = c]})
        /\ UNCHANGED <<gatewayVars, messages, received, calm>>

\* SendToUser returns, having found nobody.
NotFound(t) ==
    /\ t.step = "list"
    /\ Become(t, {})
    /\ UNCHANGED <<gatewayVars, messages, received, calm>>

\* BroadcastLocal takes the lock for reading.
BroadcastLocal(t) ==
    /\ t.step = "broadcast"
    /\ BroadcastStart(t.node, t.msg)
    /\ Become(t, {[t EXCEPT !.step = "iterate",
                            !.todo = {conns[t.node][u] : u \in User} \ {Nil}]})
    /\ UNCHANGED <<messages, received, calm>>

\* BroadcastLocal turns to the next connection.
NextConn(t) ==
    /\ t.step = "iterate"
    /\ \E c \in t.todo : Become(t, {[t EXCEPT !.step = "write", !.conn = c, !.todo = @ \ {c}]})
    /\ UNCHANGED <<gatewayVars, messages, received, calm>>

\* The writer of a private message is done; that of a broadcast goes on.
Written(t) ==
    IF messages[t.msg].type = "private" THEN {} ELSE {[t EXCEPT !.step = "iterate", !.conn = Nil]}

\* Variant: a connection that cannot be written to leaves the map.
WriteOrForget(t) ==
    LET c == t.conn
    IN  /\ t.step = "write"
        /\ Become(t, Written(t))
        /\ IF c \in open \cap held
           THEN /\ received' = [received EXCEPT ![c] = Append(@, t.msg)]
                /\ UNCHANGED gatewayVars
           ELSE /\ open' = open \ {c}
                /\ conns' = [conns EXCEPT ![node[c]][user[c]] = Nil]
                /\ UNCHANGED <<habit, handlerVars, held, lock, readers, cleaning, route, crashed,
                               received>>
        /\ UNCHANGED <<messages, calm>>

\* WriteJSON returns: the client has the message, or the message is lost with the
\* connection, with an error or without.
WriteJSON(t) ==
    LET c == t.conn
    IN  /\ t.step = "write"
        /\ Become(t, Written(t))
        /\ \/ /\ c \in open \cap held
              /\ received' = [received EXCEPT ![c] = Append(@, t.msg)]
              /\ UNCHANGED gatewayVars
           \/ /\ c \in open \ held
              /\ UNCHANGED <<gatewayVars, received>>
           \/ /\ c \notin open \cap held
              /\ CloseBroken(c)
              /\ UNCHANGED received
        /\ UNCHANGED <<messages, calm>>

\* Variant: the node relays a broadcast to itself, too.
RelayToAll(t) == IF t.rpc THEN {} ELSE {NewTask(t.msg, "relay", n, FALSE) : n \in Node}

\* Variant: a node that is called relays the broadcast in turn.
RelayAgain(t) == {NewTask(t.msg, "relay", n, FALSE) : n \in Node \ {t.node}}

\* The goroutines that handleBroadcastMessage starts when its own users are served.
Relays(t) == IF t.rpc THEN {} ELSE {NewTask(t.msg, "relay", n, FALSE) : n \in Node \ {t.node}}

\* BroadcastLocal returns.
BroadcastDone(t) ==
    /\ t.step = "iterate"
    /\ t.todo = {}
    /\ BroadcastEnd(t.node, t.msg)
    /\ Become(t, Relays(t))
    /\ UNCHANGED <<messages, received, calm>>

-----------------------------------------------------------------------------
(* The connections, while messages are on their way. *)

Undisturbed(U) == calm' = {p \in calm : p[2] \notin U}

ConnectionStep(c) ==
    /\ ClientStep(c) \/ HandlerStep(c)
    /\ Undisturbed({user'[c]})
    /\ UNCHANGED <<messages, tasks, received>>

RouteStep(u) ==
    /\ ApiStep(u)
    /\ Undisturbed({u})
    /\ UNCHANGED <<messages, tasks, received>>

\* The process of n ends, and its tasks with it, but for the calls on their way to it.
ProcessEnds(n) ==
    /\ Crash(n)
    /\ tasks' = {t \in tasks : t.node # n \/ t.step \in {"forward", "relay"}}
    /\ Undisturbed(User)
    /\ UNCHANGED <<messages, received>>

\* Two goroutines write to one connection, which makes gorilla/websocket panic.
WriteConflict(n) ==
    \E s, t \in tasks : s # t /\ s.step = "write" /\ t.step = "write" /\ s.conn = t.conn
                        /\ s.node = n

\* A handler is about to write the map that SendToUser iterates over without the lock,
\* which makes the runtime panic when it notices.
MapConflict(n) ==
    /\ \E t \in tasks : t.step = "list" /\ t.node = n
    /\ \E c \in Conn : node[c] = n /\ phase[c] \in {"upgraded", "leaving"} /\ ~IsLocked(n)

Panic(n) ==
    /\ WriteConflict(n) \/ MapConflict(n)
    /\ ProcessEnds(n)

-----------------------------------------------------------------------------
Init ==
    /\ GatewayInit
    /\ messages = << >>
    /\ tasks = {}
    /\ received = [c \in Conn |-> << >>]
    /\ calm = {}

TaskStep(t) ==
    \/ LookUp(t)
    \/ Arrive(t)
    \/ LoseCall(t)
    \/ SendToUser(t)
    \/ NotFound(t)
    \/ BroadcastLocal(t)
    \/ NextConn(t)
    \/ WriteJSON(t)
    \/ BroadcastDone(t)

Next ==
    \/ \E n \in Node, u \in User : OnMessage(n, "private", {u})
    \/ \E n \in Node : OnMessage(n, "broadcast", User)
    \/ \E t \in tasks : TaskStep(t)
    \/ \E c \in Conn : ConnectionStep(c)
    \/ \E u \in User : RouteStep(u)
    \/ \E n \in Node : ProcessEnds(n) \/ Panic(n)

Spec == Init /\ [][Next]_vars

(***************************************************************************)
(* Fairness: goroutines run; a Put of a route returns, as the Clerk tries  *)
(* until the key-value service answers; a write ends, with an error when   *)
(* the peer is dead; both ends of a connection learn that it is closed.    *)
(* The RWMutex lets no waiting handler starve.  Nobody has to dial, to     *)
(* leave, to send or to crash.                                             *)
(***************************************************************************)
HandlerGoesOn(c) ==
    /\ \/ AddConn(c) \/ OnConnect(c) \/ RemoveConn(c) \/ OnDisconnect(c)
       \/ c \notin open \cap held /\ ReadError(c)
       \/ c \notin open /\ Drop(c)
    /\ ConnectionStep(c)

FairSpec ==
    /\ Spec
    /\ \A c \in Conn : WF_vars(HandlerGoesOn(c))
    /\ \A m \in Message : WF_vars(\E t \in tasks : t.msg = m /\ TaskStep(t))

-----------------------------------------------------------------------------
(* Properties. *)

Task == [msg : Message, step : Steps, node : Node, rpc : BOOLEAN, todo : SUBSET Conn,
         conn : Conn \cup {Nil}]

\* Every variable holds a value of its Go type.
TypeOK ==
    /\ GatewayTypes
    /\ messages \in Seq([type : {"private", "broadcast"}, to : SUBSET User])
    /\ tasks \subseteq Task
    /\ received \in [Conn -> Seq(Message)]
    /\ calm \subseteq Message \X User

\* The messages do to the connections what Gateway allows.
ImplementsGateway == GatewaySpec

Carried(m) == \E t \in tasks : t.msg = m

\* A message to a user who is connected with the route in place, while neither the user's
\* connections nor the processes change and no call fails, reaches the user, from every
\* node and for both types (handlePrivateMessage, Forward, Broadcast).
CalmIsDelivered ==
    \A p \in calm : ~Carried(p[1]) =>
        \E c \in Of(p[2]) : \E k \in 1 .. Len(received[c]) : received[c][k] = p[1]

\* No connection receives a message twice (handleBroadcastMessage serves its own users
\* itself and calls only the others).
DeliveredOnce ==
    \A c \in Conn : \A k, l \in 1 .. Len(received[c]) : received[c][k] = received[c][l] => k = l

(***************************************************************************)
(* Why no message is delivered twice.  A task that still has all to do is  *)
(* the only one for its message; the tasks of a broadcast are at different *)
(* nodes; and no connection that is still due has the message already.     *)
(***************************************************************************)
InOrder(t) ==
    /\ t.msg <= Len(messages)
    /\ t.step \in {"route", "forward", "send", "list"} =>
           messages[t.msg].type = "private" /\ messages[t.msg].to # {}
    /\ t.step \in {"broadcast", "relay", "iterate"} => messages[t.msg].type = "broadcast"
    /\ t.step = "write" <=> t.conn # Nil
    /\ t.todo # {} => t.step \in {"iterate", "write"}
    /\ t.conn \notin t.todo
    /\ \A c \in t.todo \cup ({t.conn} \ {Nil}) : node[c] = t.node

IsPrivate(t) == messages[t.msg].type = "private"

Origin(t) == ~t.rpc /\ t.step # "relay"

Alone(s, t) == (s.node = t.node \/ IsPrivate(s) \/ Origin(s)) => s = t

Due(t, c) ==
    \/ IsPrivate(t)
    \/ Origin(t) /\ node[c] # t.node
    \/ t.step \in {"relay", "broadcast"} /\ node[c] = t.node
    \/ c \in t.todo \cup {t.conn}

Has(c, m) == \E k \in 1 .. Len(received[c]) : received[c][k] = m

\* The inductive invariant behind DeliveredOnce.
MessengerInv ==
    /\ GatewayInv
    /\ TypeOK
    /\ \A t \in tasks : InOrder(t)
    /\ \A s, t \in tasks : s.msg = t.msg => Alone(s, t)
    /\ \A t \in tasks, c \in Conn : Due(t, c) => ~Has(c, t.msg)
    /\ \A c \in Conn, m \in Message : Has(c, m) => m <= Len(messages) /\ phase[c] # "none"
    /\ DeliveredOnce

(***************************************************************************)
(* Why calm messages are delivered.  A user for whom nothing moves keeps a *)
(* connection at the node the route names, and until that connection has   *)
(* the message there is a task that will bring it there.                   *)
(***************************************************************************)
Brings(t, c) ==
    IF IsPrivate(t)
    THEN \/ t.step = "route"
         \/ t.step \in {"forward", "send"} /\ t.node = node[c]
         \/ t.step = "write" /\ t.conn = c
    ELSE \/ Origin(t) /\ t.node # node[c]
         \/ t.step \in {"relay", "broadcast"} /\ t.node = node[c]
         \/ c \in t.todo \cup {t.conn}

Served(c, m) == Has(c, m) \/ \E t \in tasks : t.msg = m /\ Brings(t, c)

\* The inductive invariant behind CalmIsDelivered.
CalmInv ==
    \A p \in calm :
        /\ p[1] <= Len(messages)
        /\ messages[p[1]].type = "private" => messages[p[1]].to = {p[2]}
        /\ \E c \in Of(p[2]) : Established(c) /\ route[p[2]] = node[c] /\ Served(c, p[1])

\* A handler that adds or removes its connection does not wait for the lock for ever,
\* though OnConnect and BroadcastLocal hold it while they wait for others.
HandlersGoOn ==
    \A c \in Conn : phase[c] \in {"upgraded", "connecting", "leaving"} ~>
                       phase[c] \in {"reading", "ended"}

\* Every message is delivered or given up.
MessagesEnd == \A m \in Message : Carried(m) ~> ~Carried(m)

\* When the last client of a user is gone, the route is cleared in the end, unless another
\* comes, its node has crashed, or it was set by HTTP.
GoneIsForgotten ==
    \A u \in User : (habit[u] # "api" /\ Of(u) \cap held = {}) ~>
        (Of(u) \cap held # {} \/ route[u] \in crashed \cup {Nil})
=============================================================================
