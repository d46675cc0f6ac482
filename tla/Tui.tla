-------------------------------- MODULE Tui --------------------------------
(***************************************************************************)
(* The terminal client of cmd/tui.go as a Bubble Tea program: Update runs  *)
(* one message at a time and may return a command, a goroutine of its own  *)
(* whose result is a later message.  connectWebSocket dials until a server *)
(* answers; waitForMessage reads once.  The client goes on receiving only  *)
(* as long as every result makes Update return the next command.           *)
(*                                                                         *)
(* The server end is the gateway: it writes to a connection and may end    *)
(* it; the network may break it.  Messages of one session are shown; the   *)
(* sidebar, typing and what is sent are left out.                          *)
(***************************************************************************)
EXTENDS Integers, Sequences, FiniteSets

CONSTANTS
    Habit,         \* what the user does, a subset of Habits
    Nil,           \* no connection, no command
    MaxHistory,    \* how many messages of a session are kept: 50 in the code
    MaxConns,      \* bound: connections known at a time
    MaxPresses,    \* bound: how often Enter is pressed with a user name
    MaxMessages,   \* bound: messages the server sends
    MaxBreaks      \* bound: how often a connection breaks

(***************************************************************************)
(* "patient": presses Enter once and opens no popup.  "popup": uses the    *)
(* New Chat popup.  "impatient": presses Enter again while the client is   *)
(* connecting.                                                             *)
(***************************************************************************)
Habits == {"patient", "popup", "impatient"}

ASSUME TuiAssumption ==
    /\ Habit \subseteq Habits
    /\ {MaxHistory, MaxConns, MaxPresses, MaxMessages, MaxBreaks} \subseteq Nat
    /\ MaxHistory > 0 /\ MaxPresses > 0
    /\ Nil \notin Nat

VARIABLES
    habit,         \* the habit of the user, chosen once
    state,         \* m.state
    conn,          \* m.conn
    showNewChat,   \* m.showNewChat: the popup is open
    shown,         \* m.chatHistory of the session
    cmds,          \* the commands that run, or whose result Update has not seen
    presses,       \* how often Enter has started connectWebSocket
    alive,         \* the connections the client has not closed
    ended,         \* the connections whose server end is closed or unreachable
    inbox,         \* what each connection still has to read
    sent,          \* the number of messages sent
    lost,          \* history: the messages a break took
    breaks         \* the number of breaks so far

modelVars == <<state, conn, showNewChat, shown>>
netVars   == <<alive, ended, inbox, sent, lost, breaks>>
vars == <<habit, modelVars, cmds, presses, netVars>>

Conn    == 1 .. MaxConns
Message == 1 .. MaxMessages
Slot    == 1 .. MaxPresses

Dialling     == [step |-> "dial", conn |-> Nil, msg |-> 0]
Connected(c) == [step |-> "connectedMsg", conn |-> c, msg |-> 0]
Reading(c)   == [step |-> "read", conn |-> c, msg |-> 0]
Received(m)  == [step |-> "wsMsg", conn |-> Nil, msg |-> m]
Failed       == [step |-> "errMsg", conn |-> Nil, msg |-> 0]

\* Connections that nothing refers to; their numbers are used again.
Unused == {c \in Conn : c \notin alive /\ c # conn /\ \A s \in Slot : cmds[s].conn # c}

-----------------------------------------------------------------------------
(* The user. *)

\* Enter in the login form.
PressEnter ==
    /\ state = "login"
    /\ presses < (IF habit = "impatient" THEN MaxPresses ELSE 1)
    /\ presses' = presses + 1
    /\ cmds' = [cmds EXCEPT ![presses + 1] = Dialling]
    /\ UNCHANGED <<habit, modelVars, netVars>>

OpenNewChat ==
    /\ habit = "popup"
    /\ state = "chat"
    /\ ~showNewChat
    /\ showNewChat' = TRUE
    /\ UNCHANGED <<habit, state, conn, shown, cmds, presses, netVars>>

CloseNewChat ==
    /\ showNewChat
    /\ showNewChat' = FALSE
    /\ UNCHANGED <<habit, state, conn, shown, cmds, presses, netVars>>

-----------------------------------------------------------------------------
(* The commands. *)

\* A server answers; its gateway may end the user's older connections.
Dial(s) ==
    LET c == CHOOSE d \in Unused : \A e \in Unused : d <= e
    IN  /\ cmds[s].step = "dial"
        /\ Unused # {}
        /\ cmds' = [cmds EXCEPT ![s] = Connected(c)]
        /\ inbox' = [inbox EXCEPT ![c] = << >>]
        /\ alive' = alive \cup {c}
        /\ ended' \in {ended \ {c}, alive}
        /\ UNCHANGED <<habit, modelVars, presses, sent, lost, breaks>>

\* ReadMessage returns, with what has arrived before the end of the connection.
ReadMessage(s) ==
    LET c == cmds[s].conn
    IN  /\ cmds[s].step = "read"
        /\ IF c \in alive /\ inbox[c] # << >>
           THEN /\ cmds' = [cmds EXCEPT ![s] = Received(Head(inbox[c]))]
                /\ inbox' = [inbox EXCEPT ![c] = Tail(@)]
           ELSE /\ c \in alive => c \in ended
                /\ cmds' = [cmds EXCEPT ![s] = Failed]
                /\ UNCHANGED inbox
        /\ UNCHANGED <<habit, modelVars, presses, alive, ended, sent, lost, breaks>>

-----------------------------------------------------------------------------
(* Update, with the result of the command s. *)

Then(s, cmd) == cmds' = [cmds EXCEPT ![s] = cmd]

NoCommand == [step |-> "none", conn |-> Nil, msg |-> 0]

LastN(h, n) == SubSeq(h, Len(h) - n + 1, Len(h))

\* Variant: the history may hold one message too many.
KeptLong(h) == IF Len(h) > MaxHistory + 1 THEN LastN(h, MaxHistory) ELSE h

\* Variant: the history keeps the oldest messages.
KeptOldest(h) == IF Len(h) > MaxHistory THEN SubSeq(h, 1, MaxHistory) ELSE h

\* appendMessage.
Kept(h) == IF Len(h) > MaxHistory THEN LastN(h, MaxHistory) ELSE h

\* The popup takes every message there is.
SwallowResult(s) ==
    /\ showNewChat
    /\ cmds[s].step \in {"connectedMsg", "wsMsg", "errMsg"}
    /\ Then(s, NoCommand)
    /\ UNCHANGED <<habit, modelVars, presses, netVars>>

\* connectedMsg, in both states.
HandleConnected(s) ==
    /\ cmds[s].step = "connectedMsg"
    /\ ~showNewChat
    /\ state' = "chat"
    /\ conn' = cmds[s].conn
    /\ Then(s, Reading(conn'))
    /\ UNCHANGED <<habit, showNewChat, shown, presses, netVars>>

\* Variant: a new message is shown before the others.
HandleReceivedFirst(s) ==
    /\ cmds[s].step = "wsMsg"
    /\ ~showNewChat
    /\ shown' = Kept(<<cmds[s].msg>> \o shown)
    /\ Then(s, Reading(conn))
    /\ UNCHANGED <<habit, state, conn, showNewChat, presses, netVars>>

\* wsMsg, while chatting.
HandleReceived(s) ==
    /\ cmds[s].step = "wsMsg"
    /\ ~showNewChat
    /\ shown' = Kept(Append(shown, cmds[s].msg))
    /\ Then(s, Reading(conn))
    /\ UNCHANGED <<habit, state, conn, showNewChat, presses, netVars>>

\* Variant: the old connection is not closed.
HandleFailedOpen(s) ==
    /\ cmds[s].step = "errMsg"
    /\ ~showNewChat
    /\ conn' = Nil
    /\ Then(s, Dialling)
    /\ UNCHANGED <<habit, state, showNewChat, shown, presses, netVars>>

\* Variant: nobody connects again.
HandleFailedQuietly(s) ==
    /\ cmds[s].step = "errMsg"
    /\ ~showNewChat
    /\ alive' = alive \ {conn}
    /\ conn' = Nil
    /\ Then(s, NoCommand)
    /\ UNCHANGED <<habit, state, showNewChat, shown, presses, ended, inbox, sent, lost, breaks>>

\* errMsg, while chatting: close and connect again.
HandleFailed(s) ==
    /\ cmds[s].step = "errMsg"
    /\ ~showNewChat
    /\ alive' = alive \ {conn}
    /\ conn' = Nil
    /\ Then(s, Dialling)
    /\ UNCHANGED <<habit, state, showNewChat, shown, presses, ended, inbox, sent, lost, breaks>>

-----------------------------------------------------------------------------
(* The server and the network. *)

ServerSends(c) ==
    /\ c \in alive \ ended
    /\ sent < MaxMessages
    /\ sent' = sent + 1
    /\ inbox' = [inbox EXCEPT ![c] = Append(@, sent')]
    /\ UNCHANGED <<habit, modelVars, cmds, presses, alive, ended, lost, breaks>>

\* The connection ends; what has not arrived is lost.
Break(c) ==
    /\ c \in alive \ ended
    /\ breaks < MaxBreaks
    /\ breaks' = breaks + 1
    /\ ended' = ended \cup {c}
    /\ \E k \in 0 .. Len(inbox[c]) :
          /\ inbox' = [inbox EXCEPT ![c] = SubSeq(@, 1, k)]
          /\ lost' = lost \cup {inbox[c][n] : n \in k + 1 .. Len(inbox[c])}
    /\ UNCHANGED <<habit, modelVars, cmds, presses, alive, sent>>

-----------------------------------------------------------------------------
Init ==
    /\ habit \in Habit
    /\ state = "login"
    /\ conn = Nil
    /\ showNewChat = FALSE
    /\ shown = << >>
    /\ cmds = [s \in Slot |-> NoCommand]
    /\ presses = 0
    /\ alive = {}
    /\ ended = {}
    /\ inbox = [c \in Conn |-> << >>]
    /\ sent = 0
    /\ lost = {}
    /\ breaks = 0

Update(s) == SwallowResult(s) \/ HandleConnected(s) \/ HandleReceived(s) \/ HandleFailed(s)

Command(s) == Dial(s) \/ ReadMessage(s)

Next ==
    \/ PressEnter
    \/ OpenNewChat
    \/ CloseNewChat
    \/ \E s \in Slot : Command(s) \/ Update(s)
    \/ \E c \in Conn : ServerSends(c) \/ Break(c)

Spec == Init /\ [][Next]_vars

(***************************************************************************)
(* Fairness: goroutines run, Update is called with every result, some      *)
(* server answers in the end, and popups are closed.                       *)
(***************************************************************************)
FairSpec ==
    /\ Spec
    /\ WF_vars(CloseNewChat)
    /\ \A s \in Slot : WF_vars(Command(s)) /\ WF_vars(Update(s))

-----------------------------------------------------------------------------
(* Properties. *)

Outstanding == {s \in Slot : cmds[s].step # "none"}

\* Every variable holds a value of its Go type.
TypeOK ==
    /\ habit \in Habits
    /\ state \in {"login", "chat"}
    /\ conn \in Conn \cup {Nil}
    /\ showNewChat \in BOOLEAN
    /\ shown \in Seq(Message) /\ Len(shown) <= MaxHistory
    /\ cmds \in [Slot -> [step : {"none", "dial", "read", "connectedMsg", "wsMsg", "errMsg"},
                          conn : Conn \cup {Nil}, msg : Nat]]
    /\ presses \in 0 .. MaxPresses
    /\ alive \subseteq Conn
    /\ ended \subseteq Conn
    /\ inbox \in [Conn -> Seq(Message)]
    /\ lost \subseteq Message
    /\ {sent, breaks} \subseteq Nat

\* Every Enter starts a chain of commands that never ends and never forks, so a client
\* whose popup stays closed always has someone reading or connecting (updateChat).
ChainsGoOn == habit # "popup" => Cardinality(Outstanding) = presses

\* The connection in m.conn, or on its way there, is the only one the client holds, when
\* it was started once; an older one is closed before the next is dialled.
OneConnection ==
    habit = "patient" =>
        alive = ({conn} \ {Nil}) \cup
                    {cmds[s].conn : s \in {r \in Slot : cmds[r].step = "connectedMsg"}}

Pending == {cmds[s].msg : s \in {r \in Slot : cmds[r].step = "wsMsg"}}

Unread == UNION {{inbox[c][k] : k \in 1 .. Len(inbox[c])} : c \in alive}

\* A message is lost only with its connection: otherwise it is on its way, or shown, or
\* has been followed by more than the history keeps (appendMessage).
NothingSwallowed ==
    habit = "patient" =>
        \A m \in 1 .. sent :
            \/ m \in lost \cup Unread \cup Pending \cup {shown[k] : k \in 1 .. Len(shown)}
            \/ Len(shown) = MaxHistory /\ m < shown[1]

\* Messages are shown in the order they were sent, across reconnections.
ShownInOrder ==
    habit # "impatient" => \A k, l \in 1 .. Len(shown) : k < l => shown[k] < shown[l]

(***************************************************************************)
(* Why these hold.  Without an impatient user only the first slot is used, *)
(* so at most one command or result is under way; what it is says which    *)
(* connection the client holds, and what is shown, under way and unread is *)
(* one ascending run of messages.                                          *)
(***************************************************************************)

\* A slot holds a command or result from its Enter on; only the popup empties it again.
SlotsFollowUser ==
    /\ showNewChat => habit = "popup"
    /\ habit # "impatient" => presses <= 1
    /\ \A s \in Slot :
          /\ s > presses => cmds[s].step = "none"
          /\ habit # "popup" /\ s <= presses => cmds[s].step # "none"

\* What the command or result in slot s says of the connection in m.conn.
Holds(s) ==
    /\ cmds[s].step = "dial" => conn = Nil /\ alive = {}
    /\ cmds[s].step = "connectedMsg" => conn = Nil /\ alive = {cmds[s].conn}
    /\ cmds[s].step = "read" => cmds[s].conn = conn
    /\ cmds[s].step \in {"read", "wsMsg", "errMsg"} => conn # Nil /\ alive = {conn}
    /\ cmds[s].step = "errMsg" => conn \in ended /\ inbox[conn] = << >>

OneChain ==
    habit # "impatient" =>
        /\ presses = 0 => conn = Nil /\ alive = {}
        /\ \A s \in Slot : Holds(s)

Ascending(q) == \A k, l \in 1 .. Len(q) : k < l => q[k] < q[l]

ShownBefore(m) == m <= sent /\ \A k \in 1 .. Len(shown) : shown[k] < m

PendingBefore(m) == \A s \in Slot : cmds[s].step = "wsMsg" => cmds[s].msg < m

\* Shown, then under way, then unread.
OneRun ==
    habit # "impatient" =>
        /\ Ascending(shown)
        /\ \A k \in 1 .. Len(shown) : shown[k] <= sent
        /\ \A s \in Slot : cmds[s].step = "wsMsg" => ShownBefore(cmds[s].msg)
        /\ \A c \in alive :
              /\ Ascending(inbox[c])
              /\ \A n \in 1 .. Len(inbox[c]) :
                    ShownBefore(inbox[c][n]) /\ PendingBefore(inbox[c][n])

\* A result carries what Update reads from it.
ResultsCarry ==
    \A s \in Slot :
        /\ cmds[s].step = "connectedMsg" => cmds[s].conn \in Conn
        /\ cmds[s].step = "wsMsg" => cmds[s].msg \in Message

\* The client of every user: types, and one chain of commands for each Enter; of a user who
\* connects once, the connection that chain holds and the order of messages (Update).
TuiInv == TypeOK /\ ResultsCarry /\ SlotsFollowUser /\ OneChain /\ OneRun /\ NothingSwallowed

Live == conn \in alive \ ended /\ \E s \in Slot : cmds[s] = Reading(conn)

\* Once the connection has stopped breaking, the client ends up connected and reading.
\* report.md says it of every user; it is true of the patient.
Reconnects == (state = "chat") ~> Live

PatientReconnects == (habit = "patient" /\ presses > 0) ~> Live
=============================================================================
