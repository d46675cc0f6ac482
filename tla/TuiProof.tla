------------------------------ MODULE TuiProof ------------------------------
(***************************************************************************)
(* Proofs about the terminal client: every Enter starts one chain of       *)
(* commands that neither ends nor forks, a client started once holds one   *)
(* connection, and its messages are shown in order and none is dropped.    *)
(* All follow from TuiInv, which every action preserves.                   *)
(***************************************************************************)
EXTENDS Tui, NaturalsInduction, WellFoundedInduction, FiniteSetTheorems, TLAPS

LEMMA Constants ==
    /\ MaxHistory \in Nat /\ MaxHistory > 0
    /\ MaxPresses \in Nat /\ MaxPresses > 0
    /\ MaxConns \in Nat /\ MaxMessages \in Nat /\ MaxBreaks \in Nat
    /\ Nil \notin Nat /\ Nil \notin Conn
    /\ Habit \subseteq Habits
BY TuiAssumption DEF Conn

-----------------------------------------------------------------------------
(* The least number, the history, and the slots. *)

LEMMA Smallest ==
    ASSUME NEW S \in SUBSET Nat, S # {}
    PROVE  \E n \in S : \A k \in S : n <= k
<1> DEFINE less == {p \in Nat \X Nat : p[1] < p[2]}
<1>1. IsWellFoundedOn(less, Nat)
  <2>1. less = OpToRel(<, Nat)
    BY Zenon DEF OpToRel
  <2> QED
    BY <2>1, NatLessThanWellFounded, Zenon
<1>2. \A x, y \in Nat : x < y => <<x, y>> \in less
  OBVIOUS
<1> HIDE DEF less
<1>3. \E n \in S : \A k \in S : ~(<<k, n>> \in less)
  BY <1>1, WFMin, Zenon
<1>4. \A n \in S : \A k \in S : n \in Nat /\ k \in Nat
  OBVIOUS
<1>5. \A n, k \in Nat : n <= k \/ k < n
  OBVIOUS
<1> QED
  BY <1>2, <1>3, <1>4, <1>5, Zenon

\* Dial takes an unused connection.
LEMMA LeastUnused ==
    ASSUME Unused # {}
    PROVE  (CHOOSE d \in Unused : \A e \in Unused : d <= e) \in Unused
<1>1. Unused \in SUBSET Nat
  BY DEF Unused, Conn
<1> QED
  BY <1>1, Smallest, Zenon

\* appendMessage adds m behind and drops at most one message, the oldest of a full history.
LEMMA KeptIs ==
    ASSUME NEW h \in Seq(Message), Len(h) <= MaxHistory, NEW m \in Message
    PROVE  \E d \in {0, 1} :
              /\ d = 1 => Len(h) = MaxHistory
              /\ Kept(Append(h, m)) \in Seq(Message)
              /\ Len(Kept(Append(h, m))) = Len(h) + 1 - d
              /\ Len(h) + 1 - d <= MaxHistory
              /\ \A k \in 1 .. Len(h) - d : Kept(Append(h, m))[k] = h[k + d]
              /\ Kept(Append(h, m))[Len(h) + 1 - d] = m
<1> DEFINE a == Append(h, m)
<1>1. /\ a \in Seq(Message) /\ Len(a) = Len(h) + 1 /\ Len(h) \in Nat
      /\ \A k \in 1 .. Len(h) : a[k] = h[k]
      /\ a[Len(h) + 1] = m
  OBVIOUS
<1> HIDE DEF a
<1>2. CASE Len(a) > MaxHistory
  <2>1. Kept(a) = SubSeq(a, 2, Len(a)) /\ Len(h) = MaxHistory
    BY <1>1, <1>2, Constants DEF Kept, LastN
  <2>2. /\ SubSeq(a, 2, Len(a)) \in Seq(Message)
        /\ Len(SubSeq(a, 2, Len(a))) = Len(h)
        /\ \A k \in 1 .. Len(h) : SubSeq(a, 2, Len(a))[k] = a[k + 1]
    BY <1>1
  <2> QED
    BY <1>1, <2>1, <2>2, Constants DEF a
<1>3. CASE ~(Len(a) > MaxHistory)
  <2>1. Kept(a) = a
    BY <1>3 DEF Kept
  <2> QED
    BY <1>1, <1>3, <2>1, Constants DEF a
<1> QED
  BY <1>2, <1>3

\* Messages are numbers.
LEMMA Numbers ==
    /\ \A m \in Message : m \in Nat
    /\ \A q \in Seq(Message) : \A k \in 1 .. Len(q) : q[k] \in Nat
<1>1. \A m \in Message : m \in Nat
  BY DEF Message
<1>2. \A q \in Seq(Message) : \A k \in 1 .. Len(q) : q[k] \in Message
  OBVIOUS
<1> QED
  BY <1>1, <1>2

\* Only the first slot is used without an impatient user.
LEMMA OnlyOne ==
    ASSUME TuiInv, habit # "impatient", NEW s \in Slot, cmds[s].step # "none"
    PROVE  /\ presses = 1
           /\ \A r \in Slot : r # s => cmds[r].step = "none"
<1>1. presses \in Nat /\ presses <= 1 /\ s \in Nat /\ ~(s > presses) /\ s >= 1
  BY DEF TuiInv, TypeOK, SlotsFollowUser, Slot
<1>2. s = 1 /\ presses = 1
  BY <1>1
<1>3. \A r \in Slot : r # s => r > presses
  BY <1>2 DEF Slot
<1> QED
  BY <1>2, <1>3 DEF TuiInv, SlotsFollowUser

-----------------------------------------------------------------------------
(* NothingSwallowed, one message at a time. *)

IsUnread(m)  == \E c \in alive : \E n \in 1 .. Len(inbox[c]) : inbox[c][n] = m
IsPending(m) == \E s \in Slot : cmds[s].step = "wsMsg" /\ cmds[s].msg = m
IsShown(m)   == \E k \in 1 .. Len(shown) : shown[k] = m
IsPast(m)    == Len(shown) = MaxHistory /\ m < shown[1]

Accounted(m) == m \in lost \/ IsUnread(m) \/ IsPending(m) \/ IsShown(m) \/ IsPast(m)

LEMMA AccountedIs == NothingSwallowed <=> (habit = "patient" => \A m \in 1 .. sent : Accounted(m))
<1>1. \A m : m \in Unread <=> IsUnread(m)
  BY DEF Unread, IsUnread
<1>2. \A m : m \in Pending <=> IsPending(m)
  BY DEF Pending, IsPending
<1>3. \A m : m \in {shown[k] : k \in 1 .. Len(shown)} <=> IsShown(m)
  BY DEF IsShown
<1>4. \A m : Accounted(m) <=> \/ m \in lost \cup Unread \cup Pending \cup {shown[k] : k \in 1 .. Len(shown)}
                              \/ Len(shown) = MaxHistory /\ m < shown[1]
  BY <1>1, <1>2, <1>3, Zenon DEF Accounted, IsPast
<1> QED
  BY <1>4, Zenon DEF NothingSwallowed

LEMMA AccountedNext ==
    (NothingSwallowed <=> (habit = "patient" => \A m \in 1 .. sent : Accounted(m)))'
BY AccountedIs, PTL

-----------------------------------------------------------------------------
(* Every action preserves the invariant. *)

LEMMA InitInv == Init => TuiInv
<1> SUFFICES ASSUME Init PROVE TuiInv
  OBVIOUS
<1>1. TypeOK
  <2>1. habit \in Habits /\ state \in {"login", "chat"} /\ conn \in Conn \cup {Nil} /\ showNewChat \in BOOLEAN
    BY Constants DEF Init
  <2>2. shown \in Seq(Message) /\ Len(shown) <= MaxHistory /\ inbox \in [Conn -> Seq(Message)]
    BY Constants DEF Init
  <2>3. cmds \in [Slot -> [step : {"none", "dial", "read", "connectedMsg", "wsMsg", "errMsg"},
                          conn : Conn \cup {Nil}, msg : Nat]]
    BY DEF Init, NoCommand
  <2>4. presses \in 0 .. MaxPresses /\ {sent, breaks} \subseteq Nat
    BY Constants DEF Init
  <2>5. alive \subseteq Conn /\ ended \subseteq Conn /\ lost \subseteq Message
    BY DEF Init
  <2> QED
    BY <2>1, <2>2, <2>3, <2>4, <2>5 DEF TypeOK
<1>2. ResultsCarry /\ SlotsFollowUser
  BY DEF Init, ResultsCarry, SlotsFollowUser, NoCommand, Slot
<1>3. OneChain /\ OneRun
  BY DEF Init, OneChain, Holds, OneRun, Ascending, NoCommand
<1>4. NothingSwallowed
  <2>1. 1 .. 0 = {}
    OBVIOUS
  <2> QED
    BY <2>1, AccountedIs DEF Init
<1> QED
  BY <1>1, <1>2, <1>3, <1>4 DEF TuiInv

\* The chain of a user who connects once begins here.
LEMMA PressEnterKeeps ==
    ASSUME TuiInv, PressEnter
    PROVE  TuiInv'
<1>1. presses \in Nat /\ presses < MaxPresses /\ presses' = presses + 1
  BY Constants DEF PressEnter, TuiInv, TypeOK
<1>2. presses + 1 \in Slot
  BY <1>1, Constants DEF Slot
<1>3. cmds' = [cmds EXCEPT ![presses + 1] = Dialling] /\ UNCHANGED <<habit, modelVars, netVars>>
  BY DEF PressEnter
<1>4. cmds[presses + 1].step = "none"
  BY <1>1, <1>2 DEF TuiInv, SlotsFollowUser
<1>5. habit # "impatient" => presses = 0
  BY <1>1 DEF PressEnter
<1>6. /\ cmds'[presses + 1].step = "dial"
      /\ \A s \in Slot : s # presses + 1 => cmds'[s] = cmds[s]
  BY <1>2, <1>3 DEF TuiInv, TypeOK, Dialling
<1>7. TypeOK'
  BY <1>1, <1>3, <1>2, Constants DEF TuiInv, TypeOK, Dialling, modelVars, netVars
<1>8. ResultsCarry'
  BY <1>6 DEF TuiInv, ResultsCarry
<1>9. SlotsFollowUser'
  <2>1. \A s \in Slot : s \in Nat /\ (s > presses + 1 => s > presses) /\ (s <= presses + 1 /\ s # presses + 1 => s <= presses)
    BY <1>1 DEF Slot
  <2>2. (showNewChat => habit = "popup")' /\ (habit # "impatient" => presses <= 1)'
    BY <1>1, <1>3, <1>5 DEF TuiInv, SlotsFollowUser, modelVars
  <2> QED
    BY <1>1, <1>3, <1>6, <2>1, <2>2 DEF TuiInv, SlotsFollowUser
<1>10. OneChain'
  BY <1>1, <1>3, <1>5, <1>6 DEF TuiInv, OneChain, Holds, modelVars, netVars
<1>11. OneRun'
  BY <1>3, <1>6 DEF TuiInv, OneRun, Ascending, ShownBefore, PendingBefore, modelVars, netVars
<1>12. NothingSwallowed'
  <2>1. \A m : Accounted(m) => Accounted(m)'
    BY <1>3, <1>4, <1>6 DEF Accounted, IsUnread, IsPending, IsShown, IsPast, modelVars, netVars
  <2> QED
    BY <1>3, <2>1, AccountedIs, AccountedNext DEF TuiInv, netVars
<1> QED
  BY <1>7, <1>8, <1>9, <1>10, <1>11, <1>12 DEF TuiInv

\* Nothing but the popup changes, and only for the user who opens it.
LEMMA PopupKeeps ==
    ASSUME TuiInv, OpenNewChat \/ CloseNewChat
    PROVE  TuiInv'
<1>1. /\ showNewChat' \in BOOLEAN /\ (showNewChat' => habit = "popup")
      /\ UNCHANGED <<habit, state, conn, shown, cmds, presses, netVars>>
  BY DEF OpenNewChat, CloseNewChat, TuiInv, SlotsFollowUser
<1>2. TypeOK'
  BY <1>1 DEF TuiInv, TypeOK, netVars
<1>3. ResultsCarry' /\ SlotsFollowUser'
  BY <1>1 DEF TuiInv, ResultsCarry, SlotsFollowUser
<1>4. OneChain' /\ OneRun'
  BY <1>1 DEF TuiInv, OneChain, Holds, OneRun, Ascending, ShownBefore, PendingBefore, netVars
<1>5. NothingSwallowed'
  BY <1>1 DEF TuiInv, NothingSwallowed, Unread, Pending, netVars
<1> QED
  BY <1>2, <1>3, <1>4, <1>5 DEF TuiInv

\* A chain held no connection while it dialled; the new one has nothing unread.
LEMMA DialKeeps ==
    ASSUME TuiInv, NEW s \in Slot, Dial(s)
    PROVE  TuiInv'
<1> DEFINE c == CHOOSE d \in Unused : \A e \in Unused : d <= e
<1>1. c \in Unused
  BY LeastUnused DEF Dial
<1>2. c \in Conn /\ c \notin alive /\ c # conn
  BY <1>1 DEF Unused
<1>3. /\ cmds[s].step = "dial"
      /\ cmds' = [cmds EXCEPT ![s] = Connected(c)]
      /\ inbox' = [inbox EXCEPT ![c] = << >>]
      /\ alive' = alive \cup {c}
      /\ ended' \in {ended \ {c}, alive}
      /\ UNCHANGED <<habit, modelVars, presses, sent, lost, breaks>>
  BY DEF Dial
<1> HIDE DEF c
<1>4. /\ cmds'[s].step = "connectedMsg" /\ cmds'[s].conn = c
      /\ \A r \in Slot : r # s => cmds'[r] = cmds[r]
      /\ inbox'[c] = << >>
      /\ \A d \in alive : inbox'[d] = inbox[d]
  BY <1>2, <1>3 DEF TuiInv, TypeOK, Connected
<1>5. TypeOK'
  BY <1>2, <1>3 DEF TuiInv, TypeOK, Connected, modelVars
<1>6. ResultsCarry'
  BY <1>2, <1>4 DEF TuiInv, ResultsCarry
<1>7. SlotsFollowUser'
  BY <1>3, <1>4 DEF TuiInv, SlotsFollowUser, modelVars
<1>8. OneChain'
  <2> SUFFICES ASSUME habit # "impatient"
               PROVE  (presses = 0 => conn = Nil /\ alive = {})' /\ \A r \in Slot : Holds(r)'
    BY <1>3 DEF OneChain
  <2>1. presses = 1 /\ \A r \in Slot : r # s => cmds[r].step = "none"
    BY <1>3, OnlyOne
  <2>2. conn' = Nil /\ alive' = {c}
    BY <1>3 DEF TuiInv, OneChain, Holds, modelVars
  <2> QED
    BY <1>3, <1>4, <2>1, <2>2 DEF Holds
<1>9. OneRun'
  BY <1>3, <1>4 DEF TuiInv, OneRun, Ascending, ShownBefore, PendingBefore, modelVars
<1>10. NothingSwallowed'
  <2>1. \A m : Accounted(m) => Accounted(m)'
    BY <1>3, <1>4 DEF Accounted, IsUnread, IsPending, IsShown, IsPast, modelVars
  <2> QED
    BY <1>3, <2>1, AccountedIs, AccountedNext DEF TuiInv
<1> QED
  BY <1>5, <1>6, <1>7, <1>8, <1>9, <1>10 DEF TuiInv

\* What was unread first is under way.
LEMMA ReadKeeps ==
    ASSUME TuiInv, NEW s \in Slot, ReadMessage(s), inbox' # inbox
    PROVE  TuiInv'
<1> PICK c : c = cmds[s].conn
  OBVIOUS
<1> PICK q : q = inbox[c]
  OBVIOUS
<1>1. /\ cmds[s].step = "read"
      /\ c \in alive /\ q # << >>
      /\ cmds' = [cmds EXCEPT ![s] = Received(Head(q))]
      /\ inbox' = [inbox EXCEPT ![c] = Tail(q)]
      /\ UNCHANGED <<habit, modelVars, presses, alive, ended, sent, lost, breaks>>
  BY DEF ReadMessage
<1>2. c \in Conn /\ q \in Seq(Message)
  BY <1>1 DEF TuiInv, TypeOK
<1>3. /\ Len(q) \in Nat /\ Len(q) > 0
      /\ Head(q) = q[1] /\ q[1] \in Message
      /\ Tail(q) \in Seq(Message) /\ Len(Tail(q)) = Len(q) - 1
      /\ \A n \in 1 .. Len(q) - 1 : Tail(q)[n] = q[n + 1]
  BY <1>1, <1>2
<1>4. /\ cmds'[s].step = "wsMsg" /\ cmds'[s].msg = q[1]
      /\ \A r \in Slot : r # s => cmds'[r] = cmds[r]
      /\ inbox'[c] = Tail(q)
      /\ \A d \in alive : d # c => inbox'[d] = inbox[d]
  BY <1>1, <1>2, <1>3 DEF TuiInv, TypeOK, Received
<1>5. inbox[c] = q
  OBVIOUS
<1>6. TypeOK'
  <2>1. Received(Head(q)) \in [step : {"none", "dial", "read", "connectedMsg", "wsMsg", "errMsg"},
                               conn : Conn \cup {Nil}, msg : Nat]
    BY <1>3 DEF Received, Message
  <2> QED
    BY <1>1, <1>2, <1>3, <2>1 DEF TuiInv, TypeOK, modelVars
<1>7. ResultsCarry'
  BY <1>3, <1>4 DEF TuiInv, ResultsCarry
<1>8. SlotsFollowUser'
  BY <1>1, <1>4 DEF TuiInv, SlotsFollowUser, modelVars
<1>9. OneChain'
  <2> SUFFICES ASSUME habit # "impatient"
               PROVE  (presses = 0 => conn = Nil /\ alive = {})' /\ \A r \in Slot : Holds(r)'
    BY <1>1 DEF OneChain
  <2>1. presses = 1 /\ \A r \in Slot : r # s => cmds[r].step = "none"
    BY <1>1, OnlyOne
  <2>2. conn # Nil /\ alive = {conn}
    BY <1>1 DEF TuiInv, OneChain, Holds
  <2> QED
    BY <1>1, <1>4, <2>1, <2>2 DEF Holds, modelVars
<1>10. OneRun'
  <2> SUFFICES ASSUME habit # "impatient" PROVE OneRun'
    BY <1>1 DEF OneRun
  <2>1. \A r \in Slot : r # s => cmds[r].step = "none"
    BY <1>1, OnlyOne
  <2>2. alive = {c}
    BY <1>1 DEF TuiInv, OneChain, Holds
  <2>3. Ascending(q) /\ \A n \in 1 .. Len(q) : ShownBefore(q[n])
    BY <1>1, <1>5 DEF TuiInv, OneRun
  <2>4. Ascending(shown) /\ \A k \in 1 .. Len(shown) : shown[k] <= sent
    BY DEF TuiInv, OneRun
  <2>5. \A m : ShownBefore(m)' <=> ShownBefore(m)
    BY <1>1 DEF ShownBefore, modelVars
  <2>6. ShownBefore(q[1])
    BY <1>3, <2>3
  <2>7. Ascending(Tail(q))
    BY <1>3, <2>3 DEF Ascending
  <2>8. \A n \in 1 .. Len(Tail(q)) : ShownBefore(Tail(q)[n])'
    <3>1. \A n \in 1 .. Len(Tail(q)) : ShownBefore(Tail(q)[n])
      BY <1>3, <2>3
    <3> QED
      BY <1>1, <3>1 DEF ShownBefore, modelVars
  <2>9. \A n \in 1 .. Len(Tail(q)) : q[1] < Tail(q)[n]
    BY <1>3, <2>3 DEF Ascending
  <2>10. \A n \in 1 .. Len(Tail(q)) : PendingBefore(Tail(q)[n])'
    BY <1>4, <2>1, <2>9 DEF PendingBefore
  <2>11. \A r \in Slot : cmds'[r].step = "wsMsg" => cmds'[r].msg = q[1]
    BY <1>4, <2>1
  <2>12. Ascending(shown)' /\ \A k \in 1 .. Len(shown') : shown'[k] <= sent'
    BY <1>1, <2>4 DEF Ascending, modelVars
  <2>13. \A r \in Slot : cmds'[r].step = "wsMsg" => ShownBefore(cmds[r].msg)'
    BY <1>1, <2>6, <2>11 DEF ShownBefore, modelVars
  <2>14. \A d \in alive' : d = c /\ inbox'[d] = Tail(q)
    BY <1>1, <1>4, <2>2
  <2>15. \A d \in alive' : Ascending(inbox[d])'
    BY <2>7, <2>14 DEF Ascending
  <2>16. \A d \in alive' : \A n \in 1 .. Len(inbox'[d]) :
            ShownBefore(inbox[d][n])' /\ PendingBefore(inbox[d][n])'
    BY <2>8, <2>10, <2>14 DEF ShownBefore, PendingBefore
  <2> QED
    BY <2>12, <2>13, <2>15, <2>16 DEF OneRun
<1>11. NothingSwallowed'
  <2> SUFFICES ASSUME NEW m, Accounted(m) PROVE Accounted(m)'
    BY <1>1, AccountedIs, AccountedNext DEF TuiInv
  <2>1. CASE IsUnread(m)
    <3>1. PICK d \in alive : \E n \in 1 .. Len(inbox[d]) : inbox[d][n] = m
      BY <2>1 DEF IsUnread
    <3>2. PICK n \in 1 .. Len(inbox[d]) : inbox[d][n] = m
      BY <3>1
    <3>3. CASE d = c /\ n = 1
      BY <1>4, <1>5, <3>2, <3>3 DEF Accounted, IsPending
    <3>4. CASE d = c /\ n # 1
      <4>1. n - 1 \in 1 .. Len(Tail(q)) /\ Tail(q)[n - 1] = m
        BY <1>3, <1>5, <3>2, <3>4
      <4> QED
        BY <1>1, <1>4, <4>1 DEF Accounted, IsUnread
    <3>5. CASE d # c
      BY <1>1, <1>4, <3>2, <3>5 DEF Accounted, IsUnread
    <3> QED
      BY <3>3, <3>4, <3>5
  <2>2. CASE IsPending(m)
    BY <1>1, <1>4, <2>2 DEF Accounted, IsPending
  <2>3. CASE m \in lost \/ IsShown(m) \/ IsPast(m)
    BY <1>1, <2>3 DEF Accounted, IsShown, IsPast, modelVars
  <2> QED
    BY <2>1, <2>2, <2>3 DEF Accounted
<1> QED
  BY <1>6, <1>7, <1>8, <1>9, <1>10, <1>11 DEF TuiInv

\* The read failed because the connection ended and had nothing unread.
LEMMA ReadErrorKeeps ==
    ASSUME TuiInv, NEW s \in Slot, ReadMessage(s), inbox' = inbox
    PROVE  TuiInv'
<1> DEFINE c == cmds[s].conn
<1>1. /\ cmds[s].step = "read"
      /\ cmds' = [cmds EXCEPT ![s] = Failed]
      /\ c \in alive => c \in ended /\ inbox[c] = << >>
      /\ UNCHANGED <<habit, modelVars, presses, alive, ended, inbox, sent, lost, breaks>>
  <2>1. ASSUME c \in alive, inbox[c] # << >> PROVE FALSE
    <3>1. inbox' = [inbox EXCEPT ![c] = Tail(@)]
      BY <2>1 DEF ReadMessage
    <3>2. c \in Conn /\ inbox[c] \in Seq(Message)
      BY <2>1 DEF TuiInv, TypeOK
    <3>3. inbox'[c] = Tail(inbox[c])
      BY <3>1, <3>2 DEF TuiInv, TypeOK
    <3>4. Len(Tail(inbox[c])) # Len(inbox[c])
      BY <2>1, <3>2
    <3> QED
      BY <3>3, <3>4
  <2> QED
    BY <2>1 DEF ReadMessage
<1>2. /\ cmds'[s].step = "errMsg"
      /\ \A r \in Slot : r # s => cmds'[r] = cmds[r]
  BY <1>1 DEF TuiInv, TypeOK, Failed
<1>3. TypeOK'
  BY <1>1 DEF TuiInv, TypeOK, Failed, modelVars
<1>4. ResultsCarry' /\ SlotsFollowUser'
  BY <1>1, <1>2 DEF TuiInv, ResultsCarry, SlotsFollowUser, modelVars
<1>5. OneChain'
  <2> SUFFICES ASSUME habit # "impatient"
               PROVE  (presses = 0 => conn = Nil /\ alive = {})' /\ \A r \in Slot : Holds(r)'
    BY <1>1 DEF OneChain
  <2>1. presses = 1 /\ \A r \in Slot : r # s => cmds[r].step = "none"
    BY <1>1, OnlyOne
  <2>2. conn # Nil /\ alive = {conn} /\ c = conn
    BY <1>1 DEF TuiInv, OneChain, Holds
  <2> QED
    BY <1>1, <1>2, <2>1, <2>2 DEF Holds, modelVars
<1>6. OneRun'
  BY <1>1, <1>2 DEF TuiInv, OneRun, Ascending, ShownBefore, PendingBefore, modelVars
<1>7. NothingSwallowed'
  <2>1. \A m : Accounted(m) => Accounted(m)'
    BY <1>1, <1>2 DEF Accounted, IsUnread, IsPending, IsShown, IsPast, modelVars
  <2> QED
    BY <1>1, <2>1, AccountedIs, AccountedNext DEF TuiInv
<1> QED
  BY <1>3, <1>4, <1>5, <1>6, <1>7 DEF TuiInv

\* A result is lost only to the popup, of a user who may have a chain too few.
LEMMA SwallowKeeps ==
    ASSUME TuiInv, NEW s \in Slot, SwallowResult(s)
    PROVE  TuiInv'
<1>1. /\ showNewChat /\ habit = "popup"
      /\ cmds[s].step # "none"
      /\ cmds' = [cmds EXCEPT ![s] = NoCommand]
      /\ UNCHANGED <<habit, modelVars, presses, netVars>>
  BY DEF SwallowResult, Then, TuiInv, SlotsFollowUser
<1>2. /\ cmds'[s].step = "none"
      /\ \A r \in Slot : r # s => cmds'[r] = cmds[r]
  BY <1>1 DEF TuiInv, TypeOK, NoCommand
<1>3. TypeOK'
  BY <1>1 DEF TuiInv, TypeOK, NoCommand, modelVars, netVars
<1>4. ResultsCarry' /\ SlotsFollowUser'
  BY <1>1, <1>2 DEF TuiInv, ResultsCarry, SlotsFollowUser, modelVars
<1>5. OneChain'
  BY <1>1, <1>2 DEF TuiInv, OneChain, Holds, modelVars, netVars
<1>6. OneRun'
  BY <1>1, <1>2 DEF TuiInv, OneRun, Ascending, ShownBefore, PendingBefore, modelVars, netVars
<1>7. NothingSwallowed'
  BY <1>1 DEF NothingSwallowed
<1> QED
  BY <1>3, <1>4, <1>5, <1>6, <1>7 DEF TuiInv

\* The connection on its way is the client's now.
LEMMA ConnectedKeeps ==
    ASSUME TuiInv, NEW s \in Slot, HandleConnected(s)
    PROVE  TuiInv'
<1>1. /\ cmds[s].step = "connectedMsg" /\ cmds[s].conn \in Conn
      /\ state' = "chat"
      /\ conn' = cmds[s].conn
      /\ cmds' = [cmds EXCEPT ![s] = Reading(conn')]
      /\ UNCHANGED <<habit, showNewChat, shown, presses, netVars>>
  BY DEF HandleConnected, Then, TuiInv, ResultsCarry
<1>2. /\ cmds'[s].step = "read" /\ cmds'[s].conn = conn'
      /\ \A r \in Slot : r # s => cmds'[r] = cmds[r]
  BY <1>1 DEF TuiInv, TypeOK, Reading
<1>3. TypeOK'
  <2>1. Reading(conn') \in [step : {"none", "dial", "read", "connectedMsg", "wsMsg", "errMsg"},
                            conn : Conn \cup {Nil}, msg : Nat]
    BY <1>1 DEF Reading
  <2> QED
    BY <1>1, <2>1 DEF TuiInv, TypeOK, netVars
<1>4. ResultsCarry' /\ SlotsFollowUser'
  BY <1>1, <1>2 DEF TuiInv, ResultsCarry, SlotsFollowUser
<1>5. OneChain'
  <2> SUFFICES ASSUME habit # "impatient"
               PROVE  (presses = 0 => conn = Nil /\ alive = {})' /\ \A r \in Slot : Holds(r)'
    BY <1>1 DEF OneChain
  <2>1. presses = 1 /\ \A r \in Slot : r # s => cmds[r].step = "none"
    BY <1>1, OnlyOne
  <2>2. conn' # Nil /\ alive = {conn'}
    BY <1>1, Constants DEF TuiInv, OneChain, Holds
  <2> QED
    BY <1>1, <1>2, <2>1, <2>2 DEF Holds, netVars
<1>6. OneRun'
  BY <1>1, <1>2 DEF TuiInv, OneRun, Ascending, ShownBefore, PendingBefore, netVars
<1>7. NothingSwallowed'
  <2>1. \A m : Accounted(m) => Accounted(m)'
    BY <1>1, <1>2 DEF Accounted, IsUnread, IsPending, IsShown, IsPast, netVars
  <2> QED
    BY <1>1, <2>1, AccountedIs, AccountedNext DEF TuiInv, netVars
<1> QED
  BY <1>3, <1>4, <1>5, <1>6, <1>7 DEF TuiInv

\* What was under way is shown last; what it pushes out is older than the rest.
LEMMA ReceivedKeeps ==
    ASSUME TuiInv, NEW s \in Slot, HandleReceived(s)
    PROVE  TuiInv'
<1> PICK m : m = cmds[s].msg
  OBVIOUS
<1> PICK h : h = shown
  OBVIOUS
<1>1. /\ cmds[s].step = "wsMsg" /\ m \in Message
      /\ ~showNewChat
      /\ shown' = Kept(Append(h, m))
      /\ cmds' = [cmds EXCEPT ![s] = Reading(conn)]
      /\ UNCHANGED <<habit, state, conn, showNewChat, presses, netVars>>
  BY DEF HandleReceived, Then, TuiInv, ResultsCarry
<1>2. h \in Seq(Message) /\ Len(h) <= MaxHistory /\ Len(h) \in Nat
  BY DEF TuiInv, TypeOK
<1>3. PICK d \in {0, 1} :
         /\ d = 1 => Len(h) = MaxHistory
         /\ shown' \in Seq(Message)
         /\ Len(shown') = Len(h) + 1 - d
         /\ Len(h) + 1 - d <= MaxHistory
         /\ \A k \in 1 .. Len(h) - d : shown'[k] = h[k + d]
         /\ shown'[Len(h) + 1 - d] = m
  <2> DEFINE r == Kept(Append(h, m))
  <2>1. \E d \in {0, 1} :
           /\ d = 1 => Len(h) = MaxHistory
           /\ r \in Seq(Message)
           /\ Len(r) = Len(h) + 1 - d
           /\ Len(h) + 1 - d <= MaxHistory
           /\ \A k \in 1 .. Len(h) - d : r[k] = h[k + d]
           /\ r[Len(h) + 1 - d] = m
    BY <1>1, <1>2, KeptIs
  <2>2. shown' = r
    BY <1>1
  <2> HIDE DEF r
  <2> QED
    BY <2>1, <2>2
<1> PICK g : g = shown'
  OBVIOUS
<1>4. /\ cmds'[s].step = "read" /\ cmds'[s].conn = conn
      /\ \A r \in Slot : r # s => cmds'[r] = cmds[r]
  BY <1>1 DEF TuiInv, TypeOK, Reading
<1>5. TypeOK'
  <2>1. Reading(conn) \in [step : {"none", "dial", "read", "connectedMsg", "wsMsg", "errMsg"},
                           conn : Conn \cup {Nil}, msg : Nat]
    BY DEF Reading, TuiInv, TypeOK
  <2>2. shown' \in Seq(Message) /\ Len(shown') <= MaxHistory
    BY <1>3
  <2> QED
    BY <1>1, <2>1, <2>2 DEF TuiInv, TypeOK, netVars
<1>6. ResultsCarry' /\ SlotsFollowUser'
  BY <1>1, <1>4 DEF TuiInv, ResultsCarry, SlotsFollowUser
<1>7. OneChain'
  <2> SUFFICES ASSUME habit # "impatient"
               PROVE  (presses = 0 => conn = Nil /\ alive = {})' /\ \A r \in Slot : Holds(r)'
    BY <1>1 DEF OneChain
  <2>1. presses = 1 /\ \A r \in Slot : r # s => cmds[r].step = "none"
    BY <1>1, OnlyOne
  <2>2. conn # Nil /\ alive = {conn}
    BY <1>1 DEF TuiInv, OneChain, Holds
  <2> QED
    BY <1>1, <1>4, <2>1, <2>2 DEF Holds, netVars
<1>8. ASSUME habit # "impatient"
      PROVE  /\ Ascending(h) /\ m <= sent
             /\ \A k \in 1 .. Len(h) : h[k] < m
             /\ \A c \in alive : \A n \in 1 .. Len(inbox[c]) : m < inbox[c][n]
  BY <1>1, <1>8 DEF TuiInv, OneRun, ShownBefore, PendingBefore
<1>9. \A k \in 1 .. Len(h) : h[k] \in Nat
  BY <1>2, Numbers
<1>10. m \in Nat /\ Len(g) = Len(h) + 1 - d
       /\ \A k \in 1 .. Len(g) : IF k = Len(g) THEN g[k] = m
                                  ELSE k + d \in 1 .. Len(h) /\ g[k] = h[k + d]
  BY <1>1, <1>2, <1>3 DEF Message
<1>11. OneRun'
  <2> SUFFICES ASSUME habit # "impatient" PROVE OneRun'
    BY <1>1 DEF OneRun
  <2>1. \A r \in Slot : cmds'[r].step # "wsMsg"
    BY <1>1, <1>4, OnlyOne
  <2>2. Ascending(g)
    BY <1>2, <1>8, <1>9, <1>10 DEF Ascending
  <2>3. \A k \in 1 .. Len(g) : g[k] = m \/ \E l \in 1 .. Len(h) : g[k] = h[l]
    BY <1>10
  <2>4. \A k \in 1 .. Len(g) : g[k] <= sent
    BY <1>8, <2>3 DEF TuiInv, OneRun
  <2>5. \A c \in alive : Ascending(inbox[c]) /\ \A n \in 1 .. Len(inbox[c]) :
           inbox[c][n] <= sent /\ \A k \in 1 .. Len(g) : g[k] < inbox[c][n]
    BY <1>8, <2>3 DEF TuiInv, OneRun, ShownBefore
  <2> QED
    BY <1>1, <2>1, <2>2, <2>4, <2>5 DEF OneRun, Ascending, ShownBefore, PendingBefore, netVars
<1>12. NothingSwallowed'
  <2> SUFFICES ASSUME habit = "patient", NEW x \in 1 .. sent, Accounted(x) PROVE Accounted(x)'
    BY <1>1, AccountedIs, AccountedNext DEF TuiInv, netVars
  <2>1. Len(g) >= 1 /\ Len(g) \in Nat
    <3>1. d = 1 => Len(h) > 0
      BY <1>3, Constants
    <3> QED
      BY <1>2, <1>10, <3>1
  <2>2. ASSUME d = 1 PROVE Len(g) = MaxHistory /\ h[1] < g[1] /\ 1 \in 1 .. Len(h) /\ g[1] \in Nat
    <3>1. Len(h) = MaxHistory /\ 1 \in 1 .. Len(h)
      BY <1>3, <2>2, <1>2, Constants
    <3>2. Len(g) = MaxHistory
      BY <1>2, <1>10, <2>2, <3>1
    <3>3. h[1] < g[1] /\ g[1] \in Nat
      BY <1>8, <1>9, <1>10, <2>1, <2>2, <3>1, <3>2 DEF Ascending
    <3> QED
      BY <3>1, <3>2, <3>3
  <2>3. CASE IsShown(x)
    <3>1. PICK k \in 1 .. Len(h) : h[k] = x
      BY <2>3 DEF IsShown
    <3>2. CASE k > d
      <4>1. k - d \in 1 .. Len(g) /\ g[k - d] = x
        BY <1>2, <1>10, <3>1, <3>2
      <4> QED
        BY <4>1 DEF Accounted, IsShown
    <3>3. CASE ~(k > d)
      <4>1. d = 1 /\ k = 1
        BY <3>3
      <4> QED
        BY <2>2, <3>1, <4>1 DEF Accounted, IsPast
    <3> QED
      BY <3>2, <3>3
  <2>4. CASE IsPast(x)
    <3>1. Len(h) = MaxHistory /\ x < h[1]
      BY <2>4 DEF IsPast
    <3>2. d = 1
      BY <1>2, <1>3, <3>1, Constants
    <3>3. x < g[1]
      BY <1>9, <2>2, <3>1, <3>2
    <3> QED
      BY <2>2, <3>2, <3>3 DEF Accounted, IsPast
  <2>5. CASE IsPending(x)
    <3>1. PICK r \in Slot : cmds[r].step = "wsMsg" /\ cmds[r].msg = x
      BY <2>5 DEF IsPending
    <3>2. CASE r = s
      <4>1. Len(g) \in 1 .. Len(g) /\ g[Len(g)] = x
        BY <1>10, <2>1, <3>1, <3>2
      <4> QED
        BY <4>1 DEF Accounted, IsShown
    <3>3. CASE r # s
      BY <1>4, <3>1, <3>3 DEF Accounted, IsPending
    <3> QED
      BY <3>2, <3>3
  <2>6. CASE x \in lost \/ IsUnread(x)
    BY <1>1, <2>6 DEF Accounted, IsUnread, netVars
  <2> QED
    BY <2>3, <2>4, <2>5, <2>6 DEF Accounted
<1> QED
  BY <1>5, <1>6, <1>7, <1>11, <1>12 DEF TuiInv

\* The connection closed has nothing unread.
LEMMA FailedKeeps ==
    ASSUME TuiInv, NEW s \in Slot, HandleFailed(s)
    PROVE  TuiInv'
<1>1. /\ cmds[s].step = "errMsg"
      /\ ~showNewChat
      /\ alive' = alive \ {conn}
      /\ conn' = Nil
      /\ cmds' = [cmds EXCEPT ![s] = Dialling]
      /\ UNCHANGED <<habit, state, showNewChat, shown, presses, ended, inbox, sent, lost, breaks>>
  BY DEF HandleFailed, Then
<1>2. /\ cmds'[s].step = "dial"
      /\ \A r \in Slot : r # s => cmds'[r] = cmds[r]
  BY <1>1 DEF TuiInv, TypeOK, Dialling
<1>3. ASSUME habit # "impatient"
      PROVE  alive' = {} /\ inbox[conn] = << >> /\ alive = {conn}
  BY <1>1, <1>3 DEF TuiInv, OneChain, Holds
<1>4. TypeOK'
  BY <1>1 DEF TuiInv, TypeOK, Dialling
<1>5. ResultsCarry' /\ SlotsFollowUser'
  BY <1>1, <1>2 DEF TuiInv, ResultsCarry, SlotsFollowUser
<1>6. OneChain'
  <2> SUFFICES ASSUME habit # "impatient"
               PROVE  (presses = 0 => conn = Nil /\ alive = {})' /\ \A r \in Slot : Holds(r)'
    BY <1>1 DEF OneChain
  <2>1. presses = 1 /\ \A r \in Slot : r # s => cmds[r].step = "none"
    BY <1>1, OnlyOne
  <2> QED
    BY <1>1, <1>2, <1>3, <2>1 DEF Holds
<1>7. OneRun'
  BY <1>1, <1>2, <1>3 DEF TuiInv, OneRun, Ascending, ShownBefore, PendingBefore
<1>8. NothingSwallowed'
  <2> SUFFICES ASSUME habit = "patient", NEW x \in 1 .. sent, Accounted(x) PROVE Accounted(x)'
    BY <1>1, AccountedIs, AccountedNext DEF TuiInv
  <2>1. ~IsUnread(x)
    BY <1>3 DEF IsUnread
  <2> QED
    BY <1>1, <1>2, <2>1 DEF Accounted, IsPending, IsShown, IsPast
<1> QED
  BY <1>4, <1>5, <1>6, <1>7, <1>8 DEF TuiInv

\* A new message comes after all there are.
LEMMA SendKeeps ==
    ASSUME TuiInv, NEW c \in Conn, ServerSends(c)
    PROVE  TuiInv'
<1> PICK q : q = inbox[c]
  OBVIOUS
<1> PICK m : m = sent + 1
  OBVIOUS
<1>1. /\ c \in alive /\ c \notin ended
      /\ sent \in Nat /\ sent < MaxMessages /\ sent' = m
      /\ inbox' = [inbox EXCEPT ![c] = Append(q, m)]
      /\ UNCHANGED <<habit, modelVars, cmds, presses, alive, ended, lost, breaks>>
  BY DEF ServerSends, TuiInv, TypeOK
<1>2. q \in Seq(Message) /\ Len(q) \in Nat /\ m \in Message
  BY <1>1, Constants DEF TuiInv, TypeOK, Message
<1>3. /\ Append(q, m) \in Seq(Message)
      /\ Len(Append(q, m)) = Len(q) + 1
      /\ \A n \in 1 .. Len(q) : Append(q, m)[n] = q[n]
      /\ Append(q, m)[Len(q) + 1] = m
  BY <1>2
<1>4. /\ inbox'[c] = Append(q, m)
      /\ \A d \in alive : d # c => inbox'[d] = inbox[d]
      /\ c # conn \/ ~(conn \in ended)
      /\ conn # c => inbox'[conn] = inbox[conn]
  BY <1>1 DEF TuiInv, TypeOK
<1>5. TypeOK'
  BY <1>1, <1>2, <1>3 DEF TuiInv, TypeOK, modelVars
<1>6. ResultsCarry' /\ SlotsFollowUser'
  BY <1>1 DEF TuiInv, ResultsCarry, SlotsFollowUser, modelVars
<1>7. OneChain'
  BY <1>1, <1>4 DEF TuiInv, OneChain, Holds, modelVars
<1>8. OneRun'
  <2> SUFFICES ASSUME habit # "impatient" PROVE OneRun'
    BY <1>1 DEF OneRun
  <2>1. /\ \A k \in 1 .. Len(shown) : shown[k] \in Nat
        /\ \A s \in Slot : cmds[s].step = "wsMsg" => cmds[s].msg \in Nat
        /\ \A n \in 1 .. Len(q) : q[n] \in Nat
    BY <1>2, Numbers DEF TuiInv, TypeOK, ResultsCarry
  <2>2. Ascending(q) /\ \A n \in 1 .. Len(q) : ShownBefore(q[n]) /\ PendingBefore(q[n])
    BY <1>1 DEF TuiInv, OneRun
  <2>3. Ascending(Append(q, m))
    <3>1. \A n \in 1 .. Len(q) : q[n] < m
      BY <1>1, <2>1, <2>2 DEF ShownBefore
    <3> QED
      BY <1>2, <1>3, <2>2, <3>1 DEF Ascending
  <2>4. \A x \in Nat : ShownBefore(x) => ShownBefore(x)'
    BY <1>1 DEF ShownBefore, modelVars
  <2>5. ShownBefore(m)' /\ PendingBefore(m)'
    BY <1>1, <2>1 DEF ShownBefore, PendingBefore, modelVars, TuiInv, OneRun
  <2>6. \A n \in 1 .. Len(q) + 1 : ShownBefore(Append(q, m)[n])' /\ PendingBefore(Append(q, m)[n])'
    <3>1. \A n \in 1 .. Len(q) : ShownBefore(q[n])' /\ PendingBefore(q[n])'
      BY <1>1, <2>1, <2>2 DEF ShownBefore, PendingBefore, modelVars
    <3> QED
      BY <1>2, <1>3, <2>5, <3>1 DEF ShownBefore, PendingBefore
  <2>7. \A d \in alive : d # c => Ascending(inbox[d])' /\ \A n \in 1 .. Len(inbox'[d]) :
           ShownBefore(inbox[d][n])' /\ PendingBefore(inbox[d][n])'
    <3> SUFFICES ASSUME NEW d \in alive, d # c
                 PROVE  Ascending(inbox[d])' /\ \A n \in 1 .. Len(inbox'[d]) :
                          ShownBefore(inbox[d][n])' /\ PendingBefore(inbox[d][n])'
      OBVIOUS
    <3>1. inbox'[d] = inbox[d] /\ \A n \in 1 .. Len(inbox[d]) : inbox[d][n] \in Nat
      BY <1>4, Numbers DEF TuiInv, TypeOK
    <3> QED
      BY <1>1, <3>1 DEF TuiInv, OneRun, Ascending, ShownBefore, PendingBefore, modelVars
  <2>8. /\ Ascending(shown)'
        /\ \A k \in 1 .. Len(shown') : shown'[k] <= sent'
        /\ \A s \in Slot : cmds'[s].step = "wsMsg" => ShownBefore(cmds[s].msg)'
    BY <1>1, <2>1 DEF TuiInv, OneRun, Ascending, ShownBefore, modelVars
  <2>9. Ascending(inbox[c])' /\ \A n \in 1 .. Len(inbox'[c]) :
           ShownBefore(inbox[c][n])' /\ PendingBefore(inbox[c][n])'
    BY <1>3, <1>4, <2>3, <2>6 DEF Ascending, ShownBefore, PendingBefore
  <2> QED
    BY <1>1, <2>7, <2>8, <2>9 DEF OneRun
<1>9. NothingSwallowed'
  <2> SUFFICES ASSUME habit = "patient", NEW x \in 1 .. sent + 1 PROVE Accounted(x)'
    BY <1>1, AccountedNext
  <2>1. CASE x = m
    <3>1. Len(q) + 1 \in 1 .. Len(Append(q, m))
      BY <1>2, <1>3
    <3> QED
      BY <1>1, <1>3, <1>4, <2>1, <3>1 DEF Accounted, IsUnread
  <2>2. CASE x # m
    <3>1. Accounted(x)
      BY <1>1, <2>2, AccountedIs DEF TuiInv
    <3>2. CASE IsUnread(x)
      <4>1. PICK d \in alive : \E n \in 1 .. Len(inbox[d]) : inbox[d][n] = x
        BY <3>2 DEF IsUnread
      <4>2. CASE d = c
        BY <1>1, <1>2, <1>3, <1>4, <4>1, <4>2 DEF Accounted, IsUnread
      <4>3. CASE d # c
        BY <1>1, <1>4, <4>1, <4>3 DEF Accounted, IsUnread
      <4> QED
        BY <4>2, <4>3
    <3>3. CASE ~IsUnread(x)
      BY <1>1, <3>1, <3>3 DEF Accounted, IsPending, IsShown, IsPast, modelVars
    <3> QED
      BY <3>2, <3>3
  <2> QED
    BY <2>1, <2>2
<1> QED
  BY <1>5, <1>6, <1>7, <1>8, <1>9 DEF TuiInv

\* What was unread stays unread or is lost, and the failed read was of another connection.
LEMMA BreakKeeps ==
    ASSUME TuiInv, NEW c \in Conn, Break(c)
    PROVE  TuiInv'
<1>0. PICK q : /\ q = inbox[c]
               /\ \E k \in 0 .. Len(q) :
                     /\ inbox' = [inbox EXCEPT ![c] = SubSeq(q, 1, k)]
                     /\ lost' = lost \cup {q[n] : n \in k + 1 .. Len(q)}
  <2>1. \E k \in 0 .. Len(inbox[c]) :
           /\ inbox' = [inbox EXCEPT ![c] = SubSeq(inbox[c], 1, k)]
           /\ lost' = lost \cup {inbox[c][n] : n \in k + 1 .. Len(inbox[c])}
    BY Zenon DEF Break
  <2> QED
    BY <2>1, Zenon
<1>1. PICK k \in 0 .. Len(q) :
         /\ inbox' = [inbox EXCEPT ![c] = SubSeq(q, 1, k)]
         /\ lost' = lost \cup {q[n] : n \in k + 1 .. Len(q)}
  BY <1>0, Zenon
<1>2. /\ c \in alive /\ c \notin ended
      /\ breaks' = breaks + 1
      /\ ended' = ended \cup {c}
      /\ UNCHANGED <<habit, modelVars, cmds, presses, alive, sent>>
  BY DEF Break
<1>3. q = inbox[c] /\ q \in Seq(Message) /\ Len(q) \in Nat
  BY <1>0 DEF TuiInv, TypeOK
<1> PICK p : p = SubSeq(q, 1, k)
  OBVIOUS
<1>4. /\ p \in Seq(Message) /\ Len(p) = k
      /\ \A n \in 1 .. k : p[n] = q[n] /\ n \in 1 .. Len(q)
  BY <1>3
<1>5. /\ inbox'[c] = p
      /\ \A d \in Conn : d # c => inbox'[d] = inbox[d]
  BY <1>1 DEF TuiInv, TypeOK
<1>6. TypeOK'
  <2>1. lost' \subseteq Message
    BY <1>1, <1>3 DEF TuiInv, TypeOK
  <2>2. inbox' \in [Conn -> Seq(Message)]
    BY <1>1, <1>4 DEF TuiInv, TypeOK
  <2> QED
    BY <1>2, <2>1, <2>2 DEF TuiInv, TypeOK, modelVars
<1>7. ResultsCarry' /\ SlotsFollowUser'
  BY <1>2 DEF TuiInv, ResultsCarry, SlotsFollowUser, modelVars
<1>8. OneChain'
  <2>1. conn \in ended => inbox'[conn] = inbox[conn]
    BY <1>2, <1>5 DEF TuiInv, TypeOK
  <2> QED
    BY <1>2, <2>1 DEF TuiInv, OneChain, Holds, modelVars
<1>9. OneRun'
  <2> SUFFICES ASSUME habit # "impatient" PROVE OneRun'
    BY <1>2 DEF OneRun
  <2>1. Ascending(q) /\ \A n \in 1 .. Len(q) : ShownBefore(q[n]) /\ PendingBefore(q[n])
    BY <1>2, <1>3 DEF TuiInv, OneRun
  <2>2. Ascending(p) /\ \A n \in 1 .. Len(p) : ShownBefore(p[n]) /\ PendingBefore(p[n])
    BY <1>3, <1>4, <2>1 DEF Ascending
  <2>3. \A d \in alive : d # c => inbox'[d] = inbox[d]
    BY <1>5 DEF TuiInv, TypeOK
  <2> QED
    BY <1>2, <1>5, <2>2, <2>3 DEF TuiInv, OneRun, Ascending, ShownBefore, PendingBefore, modelVars
<1>10. NothingSwallowed'
  <2> SUFFICES ASSUME NEW x, Accounted(x) PROVE Accounted(x)'
    BY <1>2, AccountedIs, AccountedNext DEF TuiInv
  <2>1. CASE IsUnread(x)
    <3>1. PICK d \in alive : \E n \in 1 .. Len(inbox[d]) : inbox[d][n] = x
      BY <2>1 DEF IsUnread
    <3>2. PICK n \in 1 .. Len(inbox[d]) : inbox[d][n] = x
      BY <3>1
    <3>3. CASE d = c /\ n <= k
      <4>1. n \in 1 .. Len(p) /\ p[n] = x
        BY <1>3, <1>4, <3>2, <3>3
      <4> QED
        BY <1>2, <1>5, <4>1 DEF Accounted, IsUnread
    <3>4. CASE d = c /\ ~(n <= k)
      <4>1. n \in k + 1 .. Len(q) /\ q[n] = x
        BY <1>3, <3>2, <3>4
      <4> QED
        BY <1>1, <4>1 DEF Accounted
    <3>5. CASE d # c
      <4>1. inbox'[d] = inbox[d]
        BY <1>5, <3>5 DEF TuiInv, TypeOK
      <4> QED
        BY <1>2, <3>1, <4>1 DEF Accounted, IsUnread
    <3> QED
      BY <3>3, <3>4, <3>5
  <2>2. CASE ~IsUnread(x)
    BY <1>1, <1>2, <2>2 DEF Accounted, IsPending, IsShown, IsPast, modelVars
  <2> QED
    BY <2>1, <2>2
<1> QED
  BY <1>6, <1>7, <1>8, <1>9, <1>10 DEF TuiInv

LEMMA StutterKeeps ==
    ASSUME TuiInv, UNCHANGED vars
    PROVE  TuiInv'
<1>1. TypeOK' /\ ResultsCarry' /\ SlotsFollowUser'
  BY DEF TuiInv, vars, modelVars, netVars, TypeOK, ResultsCarry, SlotsFollowUser
<1>2. OneChain' /\ OneRun'
  BY DEF TuiInv, vars, modelVars, netVars, OneChain, Holds, OneRun, Ascending, ShownBefore, PendingBefore
<1>3. NothingSwallowed'
  BY DEF TuiInv, vars, modelVars, netVars, NothingSwallowed, Unread, Pending
<1> QED
  BY <1>1, <1>2, <1>3 DEF TuiInv

\* TuiInv holds whatever the user, the server and the network do, and in whatever order
\* Bubble Tea delivers the results of the commands.
THEOREM TuiInvariant == Spec => []TuiInv
<1>1. ASSUME TuiInv, [Next]_vars PROVE TuiInv'
  <2>1. CASE PressEnter
    BY <1>1, <2>1, PressEnterKeeps
  <2>2. CASE OpenNewChat \/ CloseNewChat
    BY <1>1, <2>2, PopupKeeps
  <2>3. ASSUME NEW s \in Slot, Command(s) PROVE TuiInv'
    BY <1>1, <2>3, DialKeeps, ReadKeeps, ReadErrorKeeps DEF Command
  <2>4. ASSUME NEW s \in Slot, Update(s) PROVE TuiInv'
    BY <1>1, <2>4, SwallowKeeps, ConnectedKeeps, ReceivedKeeps, FailedKeeps DEF Update
  <2>5. ASSUME NEW c \in Conn, ServerSends(c) \/ Break(c) PROVE TuiInv'
    BY <1>1, <2>5, SendKeeps, BreakKeeps
  <2>6. CASE UNCHANGED vars
    BY <1>1, <2>6, StutterKeeps
  <2> QED
    BY <1>1, <2>1, <2>2, <2>3, <2>4, <2>5, <2>6 DEF Next
<1> QED
  BY <1>1, InitInv, PTL DEF Spec

-----------------------------------------------------------------------------
(* What follows. *)

\* For a user without the popup the slots in use are those of the Enters so far.
LEMMA ChainsCounted == TuiInv => ChainsGoOn
<1> SUFFICES ASSUME TuiInv, habit # "popup" PROVE Cardinality(Outstanding) = presses
  BY DEF ChainsGoOn
<1>1. presses \in Nat /\ presses <= MaxPresses
  BY Constants DEF TuiInv, TypeOK
<1>2. Outstanding = 1 .. presses
  <2>1. \A s \in Slot : s \in Outstanding <=> s <= presses
    BY <1>1 DEF Outstanding, TuiInv, SlotsFollowUser, Slot
  <2>2. \A s : s \in 1 .. presses <=> s \in Slot /\ s <= presses
    BY <1>1, Constants DEF Slot
  <2>3. Outstanding \subseteq Slot
    BY DEF Outstanding
  <2> QED
    BY <2>1, <2>2, <2>3
<1>3. Cardinality(1 .. presses) = presses
  <2>1. Cardinality(1 .. presses) = IF 1 > presses THEN 0 ELSE presses - 1 + 1
    BY <1>1, FS_Interval
  <2> QED
    BY <1>1, <2>1
<1> QED
  BY <1>2, <1>3

\* The first slot says which connection a patient user's client holds.
LEMMA OneIsHeld == TuiInv => OneConnection
<1> DEFINE Coming == {cmds[s].conn : s \in {r \in Slot : cmds[r].step = "connectedMsg"}}
<1> SUFFICES ASSUME TuiInv, habit = "patient" PROVE alive = ({conn} \ {Nil}) \cup Coming
  BY DEF OneConnection
<1>1. presses \in Nat /\ presses <= 1 /\ presses <= MaxPresses
  BY Constants DEF TuiInv, TypeOK, SlotsFollowUser
<1>2. CASE presses = 0
  <2>1. \A s \in Slot : cmds[s].step = "none"
    BY <1>2 DEF TuiInv, SlotsFollowUser, Slot
  <2> QED
    BY <1>2, <2>1 DEF TuiInv, OneChain
<1>3. CASE presses = 1
  <2>1. 1 \in Slot /\ cmds[1].step # "none"
    BY <1>3, Constants DEF TuiInv, SlotsFollowUser, Slot
  <2>2. \A r \in Slot : r # 1 => cmds[r].step = "none"
    BY <2>1, OnlyOne
  <2>3. Holds(1)
    BY <2>1 DEF TuiInv, OneChain
  <2>4. CASE cmds[1].step = "connectedMsg"
    <3>1. Coming = {cmds[1].conn}
      BY <2>1, <2>2, <2>4
    <3> QED
      BY <2>3, <2>4, <3>1 DEF Holds
  <2>5. CASE cmds[1].step # "connectedMsg"
    <3>1. Coming = {}
      BY <2>2, <2>5
    <3>2. cmds[1].step \in {"dial", "read", "wsMsg", "errMsg"}
      BY <2>1, <2>5 DEF TuiInv, TypeOK
    <3> QED
      BY <2>3, <3>1, <3>2 DEF Holds
  <2> QED
    BY <2>4, <2>5
<1> QED
  BY <1>1, <1>2, <1>3

\* A chain of commands goes on from every Enter, one and no more, for every user who does
\* not open the popup and any number of Enters.
THEOREM ChainsNeverEnd == Spec => []ChainsGoOn
BY TuiInvariant, ChainsCounted, PTL

\* A client started once holds exactly the connection it shows or is about to show.
THEOREM OldOnesAreClosed == Spec => []OneConnection
BY TuiInvariant, OneIsHeld, PTL

\* No message vanishes between the socket and the screen of a patient user.
THEOREM AllAreShown == Spec => []NothingSwallowed
<1>1. TuiInv => NothingSwallowed
  BY DEF TuiInv
<1> QED
  BY <1>1, TuiInvariant, PTL

\* A client started once shows messages in the order they were sent.
THEOREM OrderIsKept == Spec => []ShownInOrder
<1>1. TuiInv => ShownInOrder
  BY DEF TuiInv, OneRun, Ascending, ShownInOrder
<1> QED
  BY <1>1, TuiInvariant, PTL
=============================================================================
