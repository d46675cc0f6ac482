--------------------------------- MODULE KV ---------------------------------
(***************************************************************************)
(* The replicated key-value service: the handlers of Put and Get and the   *)
(* applier goroutine of kvraft/server.go, and the Clerk of                 *)
(* kvraft/client.go with the goroutines that call it, over the replicated  *)
(* log of module RaftLog.                                                  *)
(*                                                                         *)
(* There is one key: Puts of different keys share nothing but the request  *)
(* numbers and the log, and both are here.  The value of a Put names its   *)
(* caller and its place among the caller's operations, so that no two Puts *)
(* have the same.                                                          *)
(***************************************************************************)
EXTENDS Integers, Sequences, FiniteSets

CONSTANTS
    Node,              \* the key-value servers
    Servers,           \* ck.servers: Node as a sequence
    Caller,            \* the goroutines that use a Clerk
    ClerkOf,           \* the Clerk of each; im/server.go gives all its goroutines one
    Nil,               \* no value, no handler, no result
    Compaction,        \* maxraftstate # -1
    Operations,        \* bound: what the callers call: "Put", "Get" or both
    MaxElections,      \* bound: leaders elected in a behaviour
    MaxIndex,          \* bound: the length of a log
    MaxOps,            \* bound: operations of a caller
    MaxAttempts,       \* bound: calls a caller makes, for all its operations
    MaxRestarts        \* bound: restarts in a behaviour

ASSUME ServersAssumption ==
    Servers \in Seq(Node) /\ Servers # << >> /\ {Servers[k] : k \in 1 .. Len(Servers)} = Node
ASSUME ClerkAssumption == DOMAIN ClerkOf = Caller
ASSUME BoundsAssumption ==
    /\ Compaction \in BOOLEAN
    /\ Operations \subseteq {"Put", "Get"}
    /\ {MaxElections, MaxIndex, MaxOps, MaxAttempts, MaxRestarts} \subseteq Nat

VARIABLES
    leaders, logs, offered, committed, delivered,   \* the replicated log: see RaftLog
    db,            \* kv.db at the key: the value, or Nil when there is none
    lastApplied,   \* kv.lastApplied: 0 when the client has no entry
    waitCh,        \* kv.waitCh: at each index the call whose handler waits there
    snapshot,      \* the snapshot Raft keeps for the service, and its index
    executed,      \* history: the Puts that have changed the state of a server
    reqId,         \* ck.reqId
    leaderId,      \* ck.leaderId, counted from 1
    pc,            \* where each calling goroutine is
    opType,        \* args: Put or Get
    request,       \* args.RequestId; while reqId++ runs, what it has read
    done,          \* the number of operations it has begun
    attempt,       \* the number of calls it has made
    before,        \* history: the Puts that had returned when its operation began
    call,          \* the calls, each with its handler's variables
    acked,         \* history: the values of the Puts that have returned
    elections,     \* the number of leaders elected so far
    restarts       \* the number of restarts so far

raftVars    == <<leaders, logs, offered, committed, delivered>>
serverVars  == <<db, lastApplied, snapshot, executed>>
clerkVars   == <<reqId, leaderId>>
callerVars  == <<pc, opType, request, done, attempt, before, acked>>
boundVars   == <<elections, restarts>>

vars == <<raftVars, serverVars, waitCh, clerkVars, callerVars, call, boundVars>>

Clerk  == {ClerkOf[c] : c \in Caller}
Value  == Caller \X (1 .. MaxOps)
Index  == 1 .. MaxIndex
CallId == Caller \X (1 .. MaxAttempts)

ASSUME NilAssumption == Nil \notin Value

Op     == [type : {"Put", "Get"}, value : Value, client : Clerk, request : Nat]
Result == [err : {"OK", "ErrNoKey", "ErrWrongLeader", "ErrTimeout"}, value : Value \cup {Nil}]

R == INSTANCE RaftLog WITH Command <- Op

-----------------------------------------------------------------------------
(* The Clerk. *)

\* ck.reqId++ begins: the goroutine has read ck.reqId.
BeginOp(c, type) ==
    /\ pc[c] = "idle"
    /\ done[c] < MaxOps
    /\ pc' = [pc EXCEPT ![c] = "increment"]
    /\ opType' = [opType EXCEPT ![c] = type]
    /\ request' = [request EXCEPT ![c] = reqId[ClerkOf[c]]]
    /\ done' = [done EXCEPT ![c] = @ + 1]
    /\ before' = [before EXCEPT ![c] = acked]
    /\ UNCHANGED <<raftVars, serverVars, waitCh, clerkVars, attempt, acked, call, boundVars>>

\* ck.reqId++ ends: the goroutine stores what it read, plus one.
Increment(c) ==
    /\ pc[c] = "increment"
    /\ pc' = [pc EXCEPT ![c] = "args"]
    /\ reqId' = [reqId EXCEPT ![ClerkOf[c]] = request[c] + 1]
    /\ UNCHANGED <<raftVars, serverVars, waitCh, leaderId, opType, request, done, attempt, before,
                   acked, call, boundVars>>

\* The arguments are built from what ck.reqId is by now.
MakeArgs(c) ==
    /\ pc[c] = "args"
    /\ pc' = [pc EXCEPT ![c] = "ready"]
    /\ request' = [request EXCEPT ![c] = reqId[ClerkOf[c]]]
    /\ UNCHANGED <<raftVars, serverVars, waitCh, clerkVars, opType, done, attempt, before,
                   acked, call, boundVars>>

NoCall == [phase |-> "none", server |-> Nil, op |-> Nil, index |-> 0, res |-> Nil]

\* The operation c is performing, as its server will see it.
OpOf(c) == [type |-> opType[c], value |-> <<c, done[c]>>,
            client |-> ClerkOf[c], request |-> request[c]]

CurrentCall(c) == <<c, attempt[c]>>

\* One round of the Clerk's loop: the call leaves for the supposed leader.
SendCall(c) ==
    /\ pc[c] = "ready"
    /\ attempt[c] < MaxAttempts
    /\ pc' = [pc EXCEPT ![c] = "waiting"]
    /\ attempt' = [attempt EXCEPT ![c] = @ + 1]
    /\ call' = [call EXCEPT ![<<c, attempt[c] + 1>>] =
                   [phase |-> "sent", server |-> Servers[leaderId[ClerkOf[c]]],
                    op |-> OpOf(c), index |-> 0, res |-> Nil]]
    /\ UNCHANGED <<raftVars, serverVars, waitCh, clerkVars, opType, request, done, before,
                   acked, boundVars>>

ChangeLeader(k) == leaderId' = [leaderId EXCEPT ![k] = (@ % Len(Servers)) + 1]

Answered(c) == pc[c] = "waiting" /\ call[CurrentCall(c)].phase = "replied"

Success(res) == res.err \in {"OK", "ErrNoKey"}

\* Put or Get returns.
Return(c) ==
    /\ Answered(c)
    /\ Success(call[CurrentCall(c)].res)
    /\ pc' = [pc EXCEPT ![c] = "idle"]
    /\ before' = [before EXCEPT ![c] = {}]
    /\ acked' = acked \cup (IF opType[c] = "Put" THEN {OpOf(c).value} ELSE {})
    /\ call' = [call EXCEPT ![CurrentCall(c)] = NoCall]
    /\ UNCHANGED <<raftVars, serverVars, waitCh, clerkVars, opType, request, done, attempt,
                   boundVars>>

\* The server answered that it is not the leader or that it timed out.
Retry(c) ==
    /\ Answered(c)
    /\ ~Success(call[CurrentCall(c)].res)
    /\ pc' = [pc EXCEPT ![c] = "ready"]
    /\ ChangeLeader(ClerkOf[c])
    /\ call' = [call EXCEPT ![CurrentCall(c)] = NoCall]
    /\ UNCHANGED <<raftVars, serverVars, waitCh, reqId, opType, request, done, attempt, before,
                   acked, boundVars>>

\* The call fails or its deadline of a second passes; its handler may still run.
GiveUp(c) ==
    /\ pc[c] = "waiting"
    /\ call[CurrentCall(c)].phase # "replied"
    /\ pc' = [pc EXCEPT ![c] = "ready"]
    /\ ChangeLeader(ClerkOf[c])
    /\ UNCHANGED <<raftVars, serverVars, waitCh, reqId, opType, request, done, attempt, before,
                   acked, call, boundVars>>

-----------------------------------------------------------------------------
(* The handlers of Put and Get; k is the call. *)

\* The handler's call after it returns res: gone, when nobody waits for the reply.
Reply(k, res) ==
    LET c == k[1]
    IN  IF pc[c] = "waiting" /\ CurrentCall(c) = k
        THEN [phase |-> "replied", server |-> Nil, op |-> call[k].op, index |-> 0, res |-> res]
        ELSE NoCall

Error(err) == [err |-> err, value |-> Nil]

\* Variant: any server answers a Get from its own data.
ReadAnywhere(k) ==
    LET i == call[k].server
    IN  /\ call[k].phase = "sent"
        /\ UNCHANGED <<serverVars, waitCh, clerkVars, callerVars, boundVars>>
        /\ IF call[k].op.type = "Get"
           THEN /\ call' = [call EXCEPT ![k] = Reply(k, [err |-> "OK", value |-> db[i]])]
                /\ UNCHANGED raftVars
           ELSE /\ R!Propose(i, call[k].op)
                /\ call' = [call EXCEPT ![k] = [phase |-> "started", server |-> i, op |-> call[k].op,
                                                index |-> Len(logs[i]) + 1, res |-> Nil]]

\* The handler calls Start.
HandleCall(k) ==
    LET i == call[k].server
    IN  /\ call[k].phase = "sent"
        /\ \/ /\ i \notin leaders
              /\ call' = [call EXCEPT ![k] = Reply(k, Error("ErrWrongLeader"))]
              /\ UNCHANGED raftVars
           \/ /\ Len(logs[i]) < MaxIndex
              /\ R!Propose(i, call[k].op)
              /\ call' = [call EXCEPT ![k] = [phase |-> "started", server |-> i, op |-> call[k].op,
                                              index |-> Len(logs[i]) + 1, res |-> Nil]]
        /\ UNCHANGED <<serverVars, waitCh, clerkVars, callerVars, boundVars>>

\* The handler makes its channel and enters it in waitCh.
Register(k) ==
    LET i == call[k].server
    IN  /\ call[k].phase = "started"
        /\ waitCh' = [waitCh EXCEPT ![i][call[k].index] = k]
        /\ call' = [call EXCEPT ![k].phase = "waiting"]
        /\ UNCHANGED <<raftVars, serverVars, clerkVars, callerVars, boundVars>>

\* The handler's channel holds a result.
ReceiveResult(k) ==
    /\ call[k].phase = "waiting"
    /\ call[k].res # Nil
    /\ call' = [call EXCEPT ![k] = Reply(k, call[k].res)]
    /\ UNCHANGED <<raftVars, serverVars, waitCh, clerkVars, callerVars, boundVars>>

\* Variant: the channel stays in waitCh.
KeepWaitCh(i, n) == UNCHANGED waitCh

DeleteWaitCh(i, n) == waitCh' = [waitCh EXCEPT ![i][n] = Nil]

\* 500 ms have passed since the handler began to wait.
TimeOut(k) ==
    /\ call[k].phase = "waiting"
    /\ DeleteWaitCh(call[k].server, call[k].index)
    /\ call' = [call EXCEPT ![k] = Reply(k, Error("ErrTimeout"))]
    /\ UNCHANGED <<raftVars, serverVars, clerkVars, callerVars, boundVars>>

-----------------------------------------------------------------------------
(* The applier goroutine. *)

\* Variant: a repeated request is executed again.
DuplicateIfOlder(i, op) == lastApplied[i][op.client] > op.request

Duplicate(i, op) == lastApplied[i][op.client] >= op.request

Changes(i, op) == op.type = "Put" /\ ~Duplicate(i, op)

Execute(i, op) ==
    IF Changes(i, op)
    THEN /\ db' = [db EXCEPT ![i] = op.value]
         /\ lastApplied' = [lastApplied EXCEPT ![i][op.client] = op.request]
         /\ executed' = [executed EXCEPT ![i] = Append(@, op)]
    ELSE UNCHANGED <<db, lastApplied, executed>>

Outcome(i, op) ==
    IF op.type = "Put" THEN [err |-> "OK", value |-> Nil]
    ELSE [err |-> IF db[i] = Nil THEN "ErrNoKey" ELSE "OK", value |-> db[i]]

\* Variant: the waiter at the next index is told.
NotifyNext(i, n, res) ==
    LET k == IF n < MaxIndex THEN waitCh[i][n + 1] ELSE Nil
    IN  /\ waitCh' = [waitCh EXCEPT ![i] = [m \in Index |-> IF m = n + 1 THEN Nil ELSE @[m]]]
        /\ call' = IF k = Nil THEN call ELSE [call EXCEPT ![k].res = res]

\* Whoever waits at index n, if its channel is empty, gets res.
Notify(i, n, res) ==
    LET k == waitCh[i][n]
    IN  /\ waitCh' = [waitCh EXCEPT ![i][n] = Nil]
        /\ call' = IF k = Nil THEN call
                   ELSE [call EXCEPT ![k].res = IF @ = Nil THEN res ELSE @]

\* Variant: the table is the one before the command.
EncodedOldTable(i, n) ==
    [index |-> n, db |-> db'[i], lastApplied |-> lastApplied[i], executed |-> executed'[i]]

\* encodeSnapshot, after the command at index n.
Encoded(i, n) ==
    [index |-> n, db |-> db'[i], lastApplied |-> lastApplied'[i], executed |-> executed'[i]]

\* The applier receives the next command; the state Raft keeps may be too large then.
Apply(i) ==
    LET n  == delivered[i] + 1
        op == logs[i][n]
    IN  /\ R!Deliver(i)
        /\ Execute(i, op)
        /\ Notify(i, n, Outcome(i, op))
        /\ \/ UNCHANGED snapshot
           \/ Compaction /\ snapshot' = [snapshot EXCEPT ![i] = Encoded(i, n)]
        /\ UNCHANGED <<clerkVars, callerVars, boundVars>>

\* Variant: the table of request numbers is not restored.
RestoreDataOnly(i, s) ==
    /\ db' = [db EXCEPT ![i] = s.db]
    /\ executed' = [executed EXCEPT ![i] = s.executed]
    /\ UNCHANGED lastApplied

\* readSnapshot.
RestoreFrom(i, s) ==
    /\ db' = [db EXCEPT ![i] = s.db]
    /\ lastApplied' = [lastApplied EXCEPT ![i] = s.lastApplied]
    /\ executed' = [executed EXCEPT ![i] = s.executed]

\* The applier of j receives the snapshot of i, which is or was a leader.
ApplySnapshot(i, j) ==
    /\ offered[i] # {}
    /\ i # j
    /\ R!Install(j, snapshot[i].index)
    /\ snapshot' = [snapshot EXCEPT ![j] = snapshot[i]]
    /\ RestoreFrom(j, snapshot[i])
    /\ UNCHANGED <<waitCh, clerkVars, callerVars, call, boundVars>>

-----------------------------------------------------------------------------
(* The replicated log, and crashes. *)

Elect(i) ==
    /\ elections < MaxElections
    /\ elections' = elections + 1
    /\ R!Elect(i)
    /\ UNCHANGED <<serverVars, waitCh, clerkVars, callerVars, call, restarts>>

RaftStep(i) ==
    /\ \/ R!StepDown(i)
       \/ \E j \in Node : \E s \in offered[i] : R!Replicate(i, j, s)
       \/ \E n \in 1 .. Len(logs[i]) : R!Commit(i, n)
    /\ UNCHANGED <<serverVars, waitCh, clerkVars, callerVars, call, boundVars>>

\* The state NewKVServer makes before it reads a snapshot.
Blank == [index |-> 0, db |-> Nil, lastApplied |-> [k \in Clerk |-> 0], executed |-> << >>]

\* The process of i ends, its handlers with it, and NewKVServer reads the snapshot.
Restart(i) ==
    /\ restarts < MaxRestarts
    /\ restarts' = restarts + 1
    /\ R!Restart(i, snapshot[i].index)
    /\ RestoreFrom(i, snapshot[i])
    /\ waitCh' = [waitCh EXCEPT ![i] = [n \in Index |-> Nil]]
    /\ call' = [k \in CallId |->
                   IF call[k].server = i /\ call[k].phase \in {"started", "waiting"}
                   THEN NoCall ELSE call[k]]
    /\ UNCHANGED <<snapshot, clerkVars, callerVars, elections>>

-----------------------------------------------------------------------------
Init ==
    /\ R!Init
    /\ db = [i \in Node |-> Nil]
    /\ lastApplied = [i \in Node |-> Blank.lastApplied]
    /\ waitCh = [i \in Node |-> [n \in Index |-> Nil]]
    /\ snapshot = [i \in Node |-> Blank]
    /\ executed = [i \in Node |-> << >>]
    /\ reqId = [k \in Clerk |-> 0]
    /\ leaderId = [k \in Clerk |-> 1]
    /\ pc = [c \in Caller |-> "idle"]
    /\ opType = [c \in Caller |-> "Put"]
    /\ request = [c \in Caller |-> 0]
    /\ done = [c \in Caller |-> 0]
    /\ attempt = [c \in Caller |-> 0]
    /\ before = [c \in Caller |-> {}]
    /\ call = [k \in CallId |-> NoCall]
    /\ acked = {}
    /\ elections = 0
    /\ restarts = 0

ClerkStep(c) ==
    \/ \E type \in Operations : BeginOp(c, type)
    \/ Increment(c)
    \/ MakeArgs(c)
    \/ SendCall(c)
    \/ Return(c)
    \/ Retry(c)
    \/ GiveUp(c)

HandlerStep(k) == HandleCall(k) \/ Register(k) \/ ReceiveResult(k) \/ TimeOut(k)

ServerStep(i) ==
    \/ Apply(i)
    \/ \E j \in Node : ApplySnapshot(i, j)
    \/ Elect(i)
    \/ RaftStep(i)
    \/ Restart(i)

Next ==
    \/ \E c \in Caller : ClerkStep(c)
    \/ \E k \in CallId : HandlerStep(k)
    \/ \E i \in Node : ServerStep(i)

Spec == Init /\ [][Next]_vars

-----------------------------------------------------------------------------
(* Properties. *)

Snapshot == [index : Nat, db : Value \cup {Nil}, lastApplied : [Clerk -> Nat], executed : Seq(Op)]

CallRecord == [phase : {"none", "sent", "started", "waiting", "replied"},
               server : Node \cup {Nil}, op : Op \cup {Nil}, index : Nat,
               res : Result \cup {Nil}]

RaftTypes ==
    /\ leaders \subseteq Node
    /\ logs \in [Node -> Seq(Op)]
    /\ offered \in [Node -> SUBSET Seq(Op)]
    /\ committed \in Seq(Op)
    /\ delivered \in [Node -> Nat]

ServerTypes ==
    /\ db \in [Node -> Value \cup {Nil}]
    /\ lastApplied \in [Node -> [Clerk -> Nat]]
    /\ snapshot \in [Node -> Snapshot]
    /\ executed \in [Node -> Seq(Op)]

ClientTypes ==
    /\ reqId \in [Clerk -> Nat]
    /\ leaderId \in [Clerk -> 1 .. Len(Servers)]
    /\ pc \in [Caller -> {"idle", "increment", "args", "ready", "waiting"}]
    /\ opType \in [Caller -> {"Put", "Get"}]
    /\ request \in [Caller -> Nat]
    /\ done \in [Caller -> 0 .. MaxOps]
    /\ attempt \in [Caller -> 0 .. MaxAttempts]
    /\ before \in [Caller -> SUBSET Value]
    /\ acked \subseteq Value

\* Every variable holds a value of its Go type.
TypeOK ==
    /\ RaftTypes
    /\ ServerTypes
    /\ ClientTypes
    /\ waitCh \in [Node -> [Index -> CallId \cup {Nil}]]
    /\ call \in [CallId -> CallRecord]
    /\ elections \in Nat
    /\ restarts \in Nat

\* No server executes a Put twice, nor one its client has sent before another that the
\* server has executed, though Clerks retry and abandoned calls arrive late (the
\* deduplication of KVServer.applier).
ExactlyOnce ==
    \A i \in Node : \A p, q \in 1 .. Len(executed[i]) :
        p < q /\ executed[i][p].client = executed[i][q].client =>
            executed[i][p].request < executed[i][q].request

(***************************************************************************)
(* Why ExactlyOnce holds.  The table of request numbers bounds everything  *)
(* executed, in a server and in a snapshot alike, so a Put that passes the *)
(* test of Duplicate is newer than all of its client's before it.          *)
(***************************************************************************)
InOrder(s) ==
    \A p, q \in 1 .. Len(s) : p < q /\ s[p].client = s[q].client => s[p].request < s[q].request

BoundedBy(s, table) == \A p \in 1 .. Len(s) : s[p].request <= table[s[p].client]

TableBoundsExecuted ==
    \A i \in Node :
        /\ InOrder(executed[i]) /\ BoundedBy(executed[i], lastApplied[i])
        /\ InOrder(snapshot[i].executed) /\ BoundedBy(snapshot[i].executed, snapshot[i].lastApplied)

\* A handler on its way has its operation and its server; a caller that is not idle is
\* at one of its operations.
CallsInProgress ==
    /\ \A k \in CallId : call[k].phase \in {"sent", "started", "waiting"} =>
          call[k].op \in Op /\ call[k].server \in Node
    /\ \A c \in Caller :
          /\ pc[c] # "idle" => done[c] > 0
          /\ pc[c] = "waiting" => attempt[c] > 0

\* The inductive invariant behind ExactlyOnce.
ExecutionInv == TypeOK /\ CallsInProgress /\ TableBoundsExecuted

(***************************************************************************)
(* Why SameState holds.  Commands are executed one by one, from the blank  *)
(* state, and what they do depends on nothing but the state before them.   *)
(***************************************************************************)
ServerState(i) == [index |-> delivered[i], db |-> db[i], lastApplied |-> lastApplied[i],
                   executed |-> executed[i]]

\* What op makes of the state s.
After(s, op) ==
    IF op.type = "Put" /\ s.lastApplied[op.client] < op.request
    THEN [index |-> s.index + 1, db |-> op.value,
          lastApplied |-> [s.lastApplied EXCEPT ![op.client] = op.request],
          executed |-> Append(s.executed, op)]
    ELSE [s EXCEPT !.index = @ + 1]

\* The state after each of the committed entries.
Replay[n \in 0 .. Len(committed)] ==
    IF n = 0 THEN Blank ELSE After(Replay[n - 1], committed[n])

\* The state of every server, and every snapshot, is what the committed entries up to its
\* index make of the blank state, through any elections, snapshots and restarts.
Replayed ==
    \A i \in Node :
        /\ delivered[i] <= Len(committed)
        /\ ServerState(i) = Replay[delivered[i]]
        /\ snapshot[i].index <= Len(committed)
        /\ snapshot[i] = Replay[snapshot[i].index]

\* Servers that have applied the same part of the log hold the same data and drop the
\* same requests, whether they got there by commands, by a snapshot or by a restart.
SameState ==
    \A i, j \in Node : delivered[i] = delivered[j] =>
        db[i] = db[j] /\ lastApplied[i] = lastApplied[j]

\* A channel in waitCh belongs to a handler that still waits at that index for its first
\* result; every way out of a handler takes its channel away.
WaitersWait ==
    \A i \in Node : \A n \in Index : waitCh[i][n] # Nil =>
        LET h == call[waitCh[i][n]]
        IN  h.phase = "waiting" /\ h.server = i /\ h.index = n /\ h.res = Nil

\* A handler has no result before it waits, and a call not yet made no record.
CallsUnused ==
    /\ \A k \in CallId : call[k].phase = "started" => call[k].res = Nil
    /\ \A c \in Caller : \A a \in 1 .. MaxAttempts : a > attempt[c] => call[<<c, a>>] = NoCall

\* The applier asks waitCh for no index beyond its bound.
LogsFit ==
    /\ Len(committed) <= MaxIndex
    /\ \A i \in Node : Len(logs[i]) <= MaxIndex
    /\ \A i \in Node : \A s \in offered[i] : Len(s) <= MaxIndex

\* With ExecutionInv, the inductive invariant behind WaitersWait.
WaitersInv == LogsFit /\ CallsUnused /\ WaitersWait

ReplayedValues(n) == {Replay[n].executed[p].value : p \in 1 .. Len(Replay[n].executed)}

\* A Put that has returned is executed by every server that gets as far as the committed
\* entries go: it survives restarts (the handler answers OK once the applier is done).
AcknowledgedPut == acked \subseteq ReplayedValues(Len(committed))

\* The committed entries execute the Put of w after that of v; Nil is the state before any.
Newer(w, v) ==
    LET puts == Replay[Len(committed)].executed
    IN  \E q \in 1 .. Len(puts) : /\ puts[q].value = w
                                  /\ v = Nil \/ \E p \in 1 .. q - 1 : puts[p].value = v

\* A Get returns nothing older than a Put that had returned before the Get was called.
ReadsAreFresh ==
    \A c \in Caller :
        Answered(c) /\ opType[c] = "Get" /\ Success(call[CurrentCall(c)].res) =>
            \A w \in before[c] : ~Newer(w, call[CurrentCall(c)].res.value)

(***************************************************************************)
(* Why both hold while one leader serves callers that have a Clerk each.   *)
(* The entry a handler waits for stays where Start put it, so the result   *)
(* at its index is the result of its own operation; and as a caller counts *)
(* its operations one after the other, a request that is dropped as a      *)
(* repetition has been executed.  Two leaders, or two callers with one     *)
(* Clerk, break the one and the other.                                     *)
(***************************************************************************)
StableService ==
    /\ MaxElections <= 1
    /\ \A c, d \in Caller : ClerkOf[c] = ClerkOf[d] => c = d

\* Only the one leader has offered anybody a log, and its own is never replaced.
OneLeader ==
    /\ elections <= 1
    /\ elections = 0 => committed = << >>
    /\ \A i \in Node : offered[i] # {} => elections = 1
    /\ \A i, j \in Node : offered[i] # {} /\ offered[j] # {} => i = j
    /\ \A i \in leaders : offered[i] # {} /\ Len(committed) <= Len(logs[i])

\* Nobody but the one leader has handlers that wait, each for its own entry.
CallsInLog ==
    \A k \in CallId : call[k].phase \in {"started", "waiting"} =>
        /\ offered[call[k].server] # {}
        /\ call[k].index \in 1 .. Len(logs[call[k].server])
        /\ logs[call[k].server][call[k].index] = call[k].op

\* A caller's operations have the numbers 1, 2, ...
Counted ==
    \A c \in Caller :
        IF pc[c] = "increment"
        THEN request[c] = reqId[ClerkOf[c]] /\ reqId[ClerkOf[c]] + 1 = done[c]
        ELSE /\ reqId[ClerkOf[c]] = done[c]
             /\ pc[c] \in {"ready", "waiting"} => request[c] = done[c]

\* The operation op is one that a caller has begun; if the caller has ended it, and it is
\* a Put, it has been executed.
Begun(op) ==
    \E c \in Caller :
        /\ op.client = ClerkOf[c] /\ op.value = <<c, op.request>>
        /\ op.request \in 1 .. done[c]
        /\ op.request = done[c] => op.type = opType[c] /\ pc[c] \in {"idle", "ready", "waiting"}
        /\ op.type = "Put" /\ (op.request < done[c] \/ pc[c] = "idle") => op.value \in acked

OperationsBegun ==
    /\ \A k \in CallId : call[k].phase # "none" => Begun(call[k].op)
    /\ \A i \in Node : \A n \in 1 .. Len(logs[i]) : Begun(logs[i][n])
    /\ \A i \in Node : \A s \in offered[i] : \A n \in 1 .. Len(s) : Begun(s[n])
    /\ \A n \in 1 .. Len(committed) : Begun(committed[n])

\* The state after n entries shows what had returned when the operation of c began.
Shows(n, c) == before[c] \subseteq ReplayedValues(n)

HasResult(h) ==
    \/ h.phase = "waiting" /\ h.res # Nil
    \/ h.phase = "replied" /\ Success(h.res)

\* What the call of a waiting caller has found, or will find at its index.
Right(c, h) ==
    /\ h.phase # "none" => h.op = OpOf(c)
    /\ h.phase \in {"started", "waiting"} =>
           \E n \in 0 .. Len(committed) : n < h.index /\ Shows(n, c)
    /\ HasResult(h) =>
           IF opType[c] = "Put" THEN OpOf(c).value \in ReplayedValues(Len(committed))
           ELSE \E n \in 0 .. Len(committed) : h.res.value = Replay[n].db /\ Shows(n, c)

\* With ExecutionInv, Replayed and WaitersInv, the inductive invariant behind
\* AcknowledgedPut and ReadsAreFresh.
AnswersInv ==
    /\ OneLeader
    /\ CallsInLog
    /\ Counted
    /\ OperationsBegun
    /\ \A c \in Caller : before[c] \subseteq acked
    /\ \A c \in Caller : pc[c] = "waiting" => Right(c, call[CurrentCall(c)])
    /\ AcknowledgedPut
=============================================================================
