------------------------------ MODULE KVProof ------------------------------
(***************************************************************************)
(* The key-value service of module KV: its types, and that no server       *)
(* executes a Put twice or late, for every number of servers, callers,     *)
(* Clerks, elections, snapshots and restarts.                              *)
(***************************************************************************)
EXTENDS KV, TLAPS, WellFoundedInduction

-----------------------------------------------------------------------------
(* The replicated log. *)

\* SubSeq of a log, as Commit and Install use it.
LEMMA PrefixType ==
    ASSUME NEW s \in Seq(Op), NEW n \in 0 .. Len(s)
    PROVE  SubSeq(s, 1, n) \in Seq(Op)
  OBVIOUS

\* The steps of the log alone keep its types.
LEMMA RaftStepTypes ==
    ASSUME RaftTypes, NEW i \in Node, R!Elect(i) \/ RaftStep(i)
    PROVE  RaftTypes'
<1>1. CASE R!Elect(i)
  BY <1>1 DEF RaftTypes, R!Elect
<1>2. CASE RaftStep(i)
  <2>1. CASE R!StepDown(i)
    BY <2>1 DEF RaftTypes, R!StepDown
  <2>2. ASSUME NEW j \in Node, NEW s \in offered[i], R!Replicate(i, j, s)
        PROVE  RaftTypes'
    <3>1. s \in Seq(Op)
      BY DEF RaftTypes
    <3> QED
      BY <2>2, <3>1 DEF RaftTypes, R!Replicate
  <2>3. ASSUME NEW n \in 1 .. Len(logs[i]), R!Commit(i, n)
        PROVE  RaftTypes'
    <3>1. logs[i] \in Seq(Op)
      BY DEF RaftTypes
    <3>2. SubSeq(logs[i], 1, n) \in Seq(Op)
      BY <3>1, PrefixType
    <3> QED
      BY <2>3, <3>2 DEF RaftTypes, R!Commit
  <2> QED
    BY <1>2, <2>1, <2>2, <2>3 DEF RaftStep
<1> QED
  BY <1>1, <1>2

LEMMA ProposeTypes ==
    ASSUME RaftTypes, NEW i \in Node, NEW op \in Op, R!Propose(i, op)
    PROVE  RaftTypes'
<1>1. /\ logs \in [Node -> Seq(Op)] /\ logs' = [logs EXCEPT ![i] = Append(@, op)]
      /\ offered \in [Node -> SUBSET Seq(Op)]
      /\ offered' = [offered EXCEPT ![i] = @ \cup {logs'[i]}]
  BY DEF RaftTypes, R!Propose
<1>2. Append(logs[i], op) \in Seq(Op)
  BY <1>1
<1>3. logs' \in [Node -> Seq(Op)] /\ logs'[i] \in Seq(Op)
  BY <1>1, <1>2
<1>4. offered' \in [Node -> SUBSET Seq(Op)]
  BY <1>1, <1>3
<1> QED
  BY <1>3, <1>4 DEF RaftTypes, R!Propose

\* What the applier receives is an operation.
LEMMA DeliverTypes ==
    ASSUME RaftTypes, NEW i \in Node, R!Deliver(i)
    PROVE  RaftTypes' /\ logs[i][delivered[i] + 1] \in Op
  BY DEF RaftTypes, R!Deliver, R!Agrees

LEMMA InstallTypes ==
    ASSUME RaftTypes, NEW j \in Node, NEW n \in Nat, R!Install(j, n)
    PROVE  RaftTypes'
<1>1. SubSeq(committed, 1, n) \in Seq(Op)
  <2>1. n \in 0 .. Len(committed)
    BY DEF R!Install, RaftTypes
  <2> QED
    BY <2>1, PrefixType DEF RaftTypes
<1> QED
  BY <1>1 DEF R!Install, RaftTypes

LEMMA RestartTypes ==
    ASSUME RaftTypes, NEW j \in Node, NEW n \in Nat, R!Restart(j, n)
    PROVE  RaftTypes'
  BY DEF R!Restart, RaftTypes

-----------------------------------------------------------------------------
(* The Clerk. *)

\* A call to which a reply is given is in order again.
LEMMA ReplyType ==
    ASSUME TypeOK, NEW k \in CallId, NEW res \in Result
    PROVE  /\ Reply(k, res) \in CallRecord
           /\ Reply(k, res).phase \in {"none", "replied"}
  BY DEF TypeOK, Reply, NoCall, CallRecord

\* The next server is one of the servers.
LEMMA ChangeLeaderType ==
    ASSUME leaderId \in [Clerk -> 1 .. Len(Servers)], NEW k \in Clerk, ChangeLeader(k)
    PROVE  leaderId' \in [Clerk -> 1 .. Len(Servers)]
<1>1. Len(Servers) \in Nat
  BY ServersAssumption
<1>2. ASSUME NEW x \in 1 .. Len(Servers)
      PROVE  (x % Len(Servers)) + 1 \in 1 .. Len(Servers)
  BY <1>1
<1> QED
  BY <1>2 DEF ChangeLeader

LEMMA ClerkOfType == \A c \in Caller : ClerkOf[c] \in Clerk
  BY DEF Clerk

\* A step that changes one call, to a record that is in order, keeps all in order.
LEMMA CallChange ==
    ASSUME TypeOK, CallsInProgress, NEW k \in CallId, NEW r \in CallRecord,
           r.phase \in {"sent", "started", "waiting"} => r.op \in Op /\ r.server \in Node,
           call' = [call EXCEPT ![k] = r]
    PROVE  /\ call' \in [CallId -> CallRecord]
           /\ \A h \in CallId : call'[h].phase \in {"sent", "started", "waiting"} =>
                 call'[h].op \in Op /\ call'[h].server \in Node
  BY DEF TypeOK, CallsInProgress

LEMMA NoCallType == NoCall \in CallRecord /\ NoCall.phase = "none"
  BY DEF NoCall, CallRecord

LEMMA CurrentCallType ==
    ASSUME TypeOK, CallsInProgress, NEW c \in Caller, pc[c] = "waiting"
    PROVE  CurrentCall(c) \in CallId
  BY BoundsAssumption DEF TypeOK, ClientTypes, CallsInProgress, CurrentCall, CallId

LEMMA OpOfType ==
    ASSUME TypeOK, CallsInProgress, NEW c \in Caller, pc[c] # "idle"
    PROVE  OpOf(c) \in Op
  BY BoundsAssumption, ClerkOfType DEF TypeOK, ClientTypes, CallsInProgress, OpOf, Op, Value

LEMMA BeginOpTypes ==
    ASSUME TypeOK, CallsInProgress, NEW c \in Caller, NEW type \in {"Put", "Get"},
           BeginOp(c, type)
    PROVE  TypeOK' /\ CallsInProgress'
<1>1. /\ pc' \in [Caller -> {"idle", "increment", "args", "ready", "waiting"}]
      /\ opType' \in [Caller -> {"Put", "Get"}]
      /\ request' \in [Caller -> Nat]
      /\ before' \in [Caller -> SUBSET Value]
  BY ClerkOfType DEF BeginOp, TypeOK, ClientTypes
<1>2. done[c] \in Nat /\ MaxOps \in Nat /\ done[c] + 1 \in 1 .. MaxOps
  BY BoundsAssumption DEF BeginOp, TypeOK, ClientTypes
<1>3. /\ done' \in [Caller -> 0 .. MaxOps]
      /\ \A d \in Caller : /\ pc'[d] # "idle" => done'[d] > 0
                           /\ pc'[d] = "waiting" => pc[d] = "waiting"
  BY <1>2 DEF BeginOp, TypeOK, ClientTypes, CallsInProgress
<1>4. UNCHANGED <<raftVars, serverVars, waitCh, clerkVars, attempt, acked, call, boundVars>>
  BY DEF BeginOp
<1> QED
  BY <1>1, <1>3, <1>4
  DEF TypeOK, CallsInProgress, RaftTypes, ServerTypes, ClientTypes, raftVars, serverVars,
      clerkVars, boundVars

LEMMA IncrementTypes ==
    ASSUME TypeOK, CallsInProgress, NEW c \in Caller, Increment(c)
    PROVE  TypeOK' /\ CallsInProgress'
  BY ClerkOfType
  DEF TypeOK, CallsInProgress, RaftTypes, ServerTypes, ClientTypes, Increment, raftVars,
      serverVars, boundVars

LEMMA MakeArgsTypes ==
    ASSUME TypeOK, CallsInProgress, NEW c \in Caller, MakeArgs(c)
    PROVE  TypeOK' /\ CallsInProgress'
  BY ClerkOfType
  DEF TypeOK, CallsInProgress, RaftTypes, ServerTypes, ClientTypes, MakeArgs, raftVars,
      serverVars, clerkVars, boundVars

LEMMA SendCallTypes ==
    ASSUME TypeOK, CallsInProgress, NEW c \in Caller, SendCall(c)
    PROVE  TypeOK' /\ CallsInProgress'
<1> DEFINE k == <<c, attempt[c] + 1>>
           r == [phase |-> "sent", server |-> Servers[leaderId[ClerkOf[c]]],
                 op |-> OpOf(c), index |-> 0, res |-> Nil]
<1>1. attempt[c] \in Nat /\ MaxAttempts \in Nat /\ attempt[c] + 1 \in 1 .. MaxAttempts
  BY BoundsAssumption DEF SendCall, TypeOK, ClientTypes
<1>2. k \in CallId
  BY <1>1 DEF CallId
<1>3. OpOf(c) \in Op
  BY OpOfType DEF SendCall
<1>4. Servers[leaderId[ClerkOf[c]]] \in Node
  BY ServersAssumption, ClerkOfType DEF TypeOK, ClientTypes
<1>5. r \in CallRecord /\ r.op = OpOf(c) /\ r.server = Servers[leaderId[ClerkOf[c]]]
  BY <1>3, <1>4 DEF CallRecord
<1>6. call' = [call EXCEPT ![k] = r]
  BY DEF SendCall
<1> HIDE DEF k, r
<1>7. /\ call' \in [CallId -> CallRecord]
      /\ \A h \in CallId : call'[h].phase \in {"sent", "started", "waiting"} =>
            call'[h].op \in Op /\ call'[h].server \in Node
  BY <1>2, <1>3, <1>4, <1>5, <1>6, CallChange
<1>8. ClientTypes'
  BY <1>1 DEF SendCall, TypeOK, ClientTypes, clerkVars
<1>9. \A d \in Caller : /\ pc'[d] # "idle" => done'[d] > 0
                        /\ pc'[d] = "waiting" => attempt'[d] > 0
  BY <1>1 DEF SendCall, TypeOK, ClientTypes, CallsInProgress
<1> QED
  BY <1>7, <1>8, <1>9
  DEF SendCall, TypeOK, CallsInProgress, RaftTypes, ServerTypes, raftVars, serverVars, boundVars

\* Return and Retry end a call; GiveUp leaves it.
LEMMA EndCallTypes ==
    ASSUME TypeOK, CallsInProgress, NEW c \in Caller, Return(c) \/ Retry(c) \/ GiveUp(c)
    PROVE  TypeOK' /\ CallsInProgress'
<1>1. pc[c] = "waiting"
  BY DEF Return, Retry, GiveUp, Answered
<1>2. /\ call' \in [CallId -> CallRecord]
      /\ \A h \in CallId : call'[h].phase \in {"sent", "started", "waiting"} =>
            call'[h].op \in Op /\ call'[h].server \in Node
  <2>1. CASE Return(c) \/ Retry(c)
    <3>1. call' = [call EXCEPT ![CurrentCall(c)] = NoCall]
      BY <2>1 DEF Return, Retry
    <3> QED
      BY <1>1, <3>1, CurrentCallType, NoCallType, CallChange
  <2>2. CASE GiveUp(c)
    BY <2>2 DEF GiveUp, TypeOK, CallsInProgress
  <2> QED
    BY <2>1, <2>2
<1>3. leaderId' \in [Clerk -> 1 .. Len(Servers)]
  <2>1. CASE Return(c)
    BY <2>1 DEF Return, clerkVars, TypeOK, ClientTypes
  <2>2. CASE Retry(c) \/ GiveUp(c)
    BY <2>2, ChangeLeaderType, ClerkOfType DEF Retry, GiveUp, TypeOK, ClientTypes
  <2> QED
    BY <2>1, <2>2
<1>4. acked' \subseteq Value
  <2>1. OpOf(c).value \in Value
    BY <1>1, OpOfType DEF Op
  <2>2. acked' = acked \/ acked' = acked \cup {OpOf(c).value}
    BY DEF Return, Retry, GiveUp
  <2> QED
    BY <2>1, <2>2 DEF TypeOK, ClientTypes
<1>5. /\ pc' \in [Caller -> {"idle", "increment", "args", "ready", "waiting"}]
      /\ \A d \in Caller : /\ pc'[d] # "idle" => pc[d] # "idle"
                           /\ pc'[d] = "waiting" => pc[d] = "waiting"
  BY <1>1 DEF Return, Retry, GiveUp, TypeOK, ClientTypes
<1>6. before' \in [Caller -> SUBSET Value]
  BY DEF Return, Retry, GiveUp, TypeOK, ClientTypes
<1>7. /\ UNCHANGED <<raftVars, serverVars, waitCh, reqId, opType, request, done, attempt>>
      /\ UNCHANGED boundVars
  BY DEF Return, Retry, GiveUp, clerkVars
<1> QED
  BY <1>2, <1>3, <1>4, <1>5, <1>6, <1>7
  DEF TypeOK, CallsInProgress, RaftTypes, ServerTypes, ClientTypes, raftVars, serverVars,
      boundVars

-----------------------------------------------------------------------------
(* The handlers. *)

LEMMA ErrorType == \A err \in {"ErrWrongLeader", "ErrTimeout"} : Error(err) \in Result
  BY DEF Error, Result

LEMMA HandleCallTypes ==
    ASSUME TypeOK, CallsInProgress, NEW k \in CallId, HandleCall(k)
    PROVE  TypeOK' /\ CallsInProgress'
<1> DEFINE i == call[k].server
           r == [phase |-> "started", server |-> i, op |-> call[k].op,
                 index |-> Len(logs[i]) + 1, res |-> Nil]
<1>1. call[k].op \in Op /\ i \in Node
  BY DEF HandleCall, CallsInProgress
<1>2. Len(logs[i]) \in Nat
  BY <1>1 DEF TypeOK, RaftTypes
<1>3. r \in CallRecord /\ r.op = call[k].op /\ r.server = i
  BY <1>1, <1>2 DEF CallRecord
<1>4. \/ call' = [call EXCEPT ![k] = Reply(k, Error("ErrWrongLeader"))] /\ UNCHANGED raftVars
      \/ call' = [call EXCEPT ![k] = r] /\ R!Propose(i, call[k].op)
  BY DEF HandleCall
<1> HIDE DEF r
<1>5. /\ call' \in [CallId -> CallRecord]
      /\ \A h \in CallId : call'[h].phase \in {"sent", "started", "waiting"} =>
            call'[h].op \in Op /\ call'[h].server \in Node
  <2>1. CASE call' = [call EXCEPT ![k] = Reply(k, Error("ErrWrongLeader"))]
    <3>1. Error("ErrWrongLeader") \in Result
      BY ErrorType
    <3>2. /\ Reply(k, Error("ErrWrongLeader")) \in CallRecord
          /\ Reply(k, Error("ErrWrongLeader")).phase \in {"none", "replied"}
      BY <3>1, ReplyType
    <3> QED
      BY <2>1, <3>2, CallChange
  <2>2. CASE call' = [call EXCEPT ![k] = r]
    BY <1>1, <1>3, <2>2, CallChange
  <2> QED
    BY <1>4, <2>1, <2>2
<1>6. RaftTypes'
  <2>1. CASE UNCHANGED raftVars
    BY <2>1 DEF TypeOK, RaftTypes, raftVars
  <2>2. CASE R!Propose(i, call[k].op)
    BY <1>1, <2>2, ProposeTypes DEF TypeOK
  <2> QED
    BY <1>4, <2>1, <2>2
<1> QED
  BY <1>5, <1>6
  DEF HandleCall, TypeOK, CallsInProgress, ServerTypes, ClientTypes, serverVars, clerkVars,
      callerVars, boundVars

LEMMA RegisterTypes ==
    ASSUME TypeOK, CallsInProgress, NEW k \in CallId, Register(k)
    PROVE  TypeOK' /\ CallsInProgress'
<1>1. waitCh' \in [Node -> [Index -> CallId \cup {Nil}]]
  BY DEF Register, TypeOK, CallsInProgress
<1>2. /\ call' \in [CallId -> CallRecord]
      /\ \A h \in CallId : call'[h].phase \in {"sent", "started", "waiting"} =>
            call'[h].op \in Op /\ call'[h].server \in Node
  BY DEF Register, TypeOK, CallsInProgress, CallRecord
<1> QED
  BY <1>1, <1>2
  DEF Register, TypeOK, CallsInProgress, RaftTypes, ServerTypes, ClientTypes, raftVars,
      serverVars, clerkVars, callerVars, boundVars

LEMMA ReceiveResultTypes ==
    ASSUME TypeOK, CallsInProgress, NEW k \in CallId, ReceiveResult(k)
    PROVE  TypeOK' /\ CallsInProgress'
<1>1. call[k].res \in Result
  BY DEF ReceiveResult, TypeOK, CallRecord
<1>2. Reply(k, call[k].res) \in CallRecord /\ Reply(k, call[k].res).phase \in {"none", "replied"}
  BY <1>1, ReplyType
<1>3. call' = [call EXCEPT ![k] = Reply(k, call[k].res)]
  BY DEF ReceiveResult
<1>4. /\ call' \in [CallId -> CallRecord]
      /\ \A h \in CallId : call'[h].phase \in {"sent", "started", "waiting"} =>
            call'[h].op \in Op /\ call'[h].server \in Node
  BY <1>2, <1>3, CallChange
<1> QED
  BY <1>4
  DEF ReceiveResult, TypeOK, CallsInProgress, RaftTypes, ServerTypes, ClientTypes, raftVars,
      serverVars, clerkVars, callerVars, boundVars

LEMMA TimeOutTypes ==
    ASSUME TypeOK, CallsInProgress, NEW k \in CallId, TimeOut(k)
    PROVE  TypeOK' /\ CallsInProgress'
<1>1. Error("ErrTimeout") \in Result
  BY ErrorType
<1>2. /\ Reply(k, Error("ErrTimeout")) \in CallRecord
      /\ Reply(k, Error("ErrTimeout")).phase \in {"none", "replied"}
  BY <1>1, ReplyType
<1>3. call' = [call EXCEPT ![k] = Reply(k, Error("ErrTimeout"))]
  BY DEF TimeOut
<1>4. /\ call' \in [CallId -> CallRecord]
      /\ \A h \in CallId : call'[h].phase \in {"sent", "started", "waiting"} =>
            call'[h].op \in Op /\ call'[h].server \in Node
  BY <1>2, <1>3, CallChange
<1>5. waitCh' \in [Node -> [Index -> CallId \cup {Nil}]]
  BY DEF TimeOut, DeleteWaitCh, TypeOK
<1> QED
  BY <1>4, <1>5
  DEF TimeOut, TypeOK, CallsInProgress, RaftTypes, ServerTypes, ClientTypes, raftVars,
      serverVars, clerkVars, callerVars, boundVars

-----------------------------------------------------------------------------
(* The applier. *)

LEMMA ExecuteTypes ==
    ASSUME ServerTypes, NEW i \in Node, NEW op \in Op, Execute(i, op)
    PROVE  /\ db' \in [Node -> Value \cup {Nil}]
           /\ lastApplied' \in [Node -> [Clerk -> Nat]]
           /\ executed' \in [Node -> Seq(Op)]
<1>1. op.value \in Value /\ op.client \in Clerk /\ op.request \in Nat
  BY DEF Op
<1>2. CASE Changes(i, op)
  <2>1. db' \in [Node -> Value \cup {Nil}]
    BY <1>1, <1>2 DEF ServerTypes, Execute
  <2>2. lastApplied' \in [Node -> [Clerk -> Nat]]
    <3>1. lastApplied' = [lastApplied EXCEPT ![i][op.client] = op.request]
      BY <1>2 DEF Execute
    <3>2. [lastApplied[i] EXCEPT ![op.client] = op.request] \in [Clerk -> Nat]
      BY <1>1 DEF ServerTypes
    <3> QED
      BY <3>1, <3>2 DEF ServerTypes
  <2>3. executed' \in [Node -> Seq(Op)]
    <3>1. executed' = [executed EXCEPT ![i] = Append(@, op)]
      BY <1>2 DEF Execute
    <3>2. Append(executed[i], op) \in Seq(Op)
      BY DEF ServerTypes
    <3> QED
      BY <3>1, <3>2 DEF ServerTypes
  <2> QED
    BY <2>1, <2>2, <2>3
<1>3. CASE ~Changes(i, op)
  BY <1>3 DEF ServerTypes, Execute
<1> QED
  BY <1>2, <1>3

LEMMA OutcomeType ==
    ASSUME ServerTypes, NEW i \in Node, NEW op \in Op
    PROVE  Outcome(i, op) \in Result
  BY DEF ServerTypes, Outcome, Result

LEMMA NotifyTypes ==
    ASSUME TypeOK, CallsInProgress, NEW i \in Node, NEW n \in Nat, NEW res \in Result,
           Notify(i, n, res)
    PROVE  /\ waitCh' \in [Node -> [Index -> CallId \cup {Nil}]]
           /\ call' \in [CallId -> CallRecord]
           /\ \A h \in CallId : call'[h].phase \in {"sent", "started", "waiting"} =>
                 call'[h].op \in Op /\ call'[h].server \in Node
<1>1. waitCh' \in [Node -> [Index -> CallId \cup {Nil}]]
  BY DEF TypeOK, Notify
<1> DEFINE k == waitCh[i][n]
<1>2. CASE k = Nil
  BY <1>1, <1>2 DEF TypeOK, CallsInProgress, Notify
<1>3. CASE k # Nil
  <2>1. call' = [call EXCEPT ![k].res = IF @ = Nil THEN res ELSE @]
    BY <1>3 DEF Notify
  <2> HIDE DEF k
  <2>2. call' \in [CallId -> CallRecord]
    BY <2>1 DEF TypeOK, CallRecord
  <2>3. \A h \in CallId : /\ call'[h].phase = call[h].phase
                          /\ call'[h].op = call[h].op
                          /\ call'[h].server = call[h].server
    BY <2>1 DEF TypeOK, CallRecord
  <2> QED
    BY <1>1, <2>2, <2>3 DEF CallsInProgress
<1> QED
  BY <1>2, <1>3

\* What encodeSnapshot encodes is a snapshot.
LEMMA EncodedType ==
    ASSUME NEW i \in Node, NEW n \in Nat,
           db' \in [Node -> Value \cup {Nil}],
           lastApplied' \in [Node -> [Clerk -> Nat]],
           executed' \in [Node -> Seq(Op)]
    PROVE  Encoded(i, n) \in Snapshot
  BY DEF Encoded, Snapshot

LEMMA ApplyTypes ==
    ASSUME TypeOK, CallsInProgress, NEW i \in Node, Apply(i)
    PROVE  TypeOK' /\ CallsInProgress'
<1> DEFINE n  == delivered[i] + 1
           op == logs[i][n]
<1>1. R!Deliver(i) /\ Execute(i, op) /\ Notify(i, n, Outcome(i, op))
  BY DEF Apply
<1>2. RaftTypes' /\ op \in Op
  BY <1>1, DeliverTypes DEF TypeOK
<1>3. n \in Nat
  BY DEF TypeOK, RaftTypes
<1>4. UNCHANGED snapshot \/ snapshot' = [snapshot EXCEPT ![i] = Encoded(i, n)]
  BY DEF Apply
<1> HIDE DEF op, n
<1>5. /\ db' \in [Node -> Value \cup {Nil}]
      /\ lastApplied' \in [Node -> [Clerk -> Nat]]
      /\ executed' \in [Node -> Seq(Op)]
  BY <1>1, <1>2, ExecuteTypes DEF TypeOK
<1>6. Outcome(i, op) \in Result
  BY <1>2, OutcomeType DEF TypeOK
<1>7. /\ waitCh' \in [Node -> [Index -> CallId \cup {Nil}]]
      /\ call' \in [CallId -> CallRecord]
      /\ \A h \in CallId : call'[h].phase \in {"sent", "started", "waiting"} =>
            call'[h].op \in Op /\ call'[h].server \in Node
  BY <1>1, <1>3, <1>6, NotifyTypes
<1>8. Encoded(i, n) \in Snapshot
  BY <1>3, <1>5, EncodedType
<1>9. snapshot' \in [Node -> Snapshot]
  BY <1>4, <1>8 DEF TypeOK, ServerTypes
<1>10. UNCHANGED <<clerkVars, callerVars, boundVars>>
  BY DEF Apply
<1> QED
  BY <1>2, <1>5, <1>7, <1>9, <1>10
  DEF TypeOK, CallsInProgress, ServerTypes, ClientTypes, clerkVars, callerVars, boundVars

LEMMA RestoreTypes ==
    ASSUME ServerTypes, NEW i \in Node, NEW s \in Snapshot, RestoreFrom(i, s)
    PROVE  /\ db' \in [Node -> Value \cup {Nil}]
           /\ lastApplied' \in [Node -> [Clerk -> Nat]]
           /\ executed' \in [Node -> Seq(Op)]
  BY DEF ServerTypes, Snapshot, RestoreFrom

LEMMA ApplySnapshotTypes ==
    ASSUME TypeOK, CallsInProgress, NEW i \in Node, NEW j \in Node, ApplySnapshot(i, j)
    PROVE  TypeOK' /\ CallsInProgress'
<1>1. snapshot[i] \in Snapshot /\ snapshot[i].index \in Nat
  BY DEF TypeOK, ServerTypes, Snapshot
<1>2. RaftTypes'
  BY <1>1, InstallTypes DEF ApplySnapshot, TypeOK
<1>3. /\ db' \in [Node -> Value \cup {Nil}]
      /\ lastApplied' \in [Node -> [Clerk -> Nat]]
      /\ executed' \in [Node -> Seq(Op)]
  BY <1>1, RestoreTypes DEF ApplySnapshot, TypeOK
<1>4. snapshot' \in [Node -> Snapshot]
  BY <1>1 DEF ApplySnapshot, TypeOK, ServerTypes
<1>5. UNCHANGED <<waitCh, clerkVars, callerVars, call, boundVars>>
  BY DEF ApplySnapshot
<1> QED
  BY <1>2, <1>3, <1>4, <1>5
  DEF TypeOK, CallsInProgress, ServerTypes, ClientTypes, clerkVars, callerVars, boundVars

-----------------------------------------------------------------------------
(* The replicated log, and crashes. *)

LEMMA LogStepTypes ==
    ASSUME TypeOK, CallsInProgress, NEW i \in Node, Elect(i) \/ RaftStep(i)
    PROVE  TypeOK' /\ CallsInProgress'
<1>1. RaftTypes'
  BY RaftStepTypes DEF Elect, TypeOK
<1>2. /\ UNCHANGED <<serverVars, waitCh, clerkVars, callerVars, call, restarts>>
      /\ elections' \in Nat
  BY DEF Elect, RaftStep, TypeOK, boundVars
<1> QED
  BY <1>1, <1>2
  DEF TypeOK, CallsInProgress, ServerTypes, ClientTypes, serverVars, clerkVars, callerVars

LEMMA RestartStepTypes ==
    ASSUME TypeOK, CallsInProgress, NEW i \in Node, Restart(i)
    PROVE  TypeOK' /\ CallsInProgress'
<1>1. snapshot[i] \in Snapshot /\ snapshot[i].index \in Nat
  BY DEF TypeOK, ServerTypes, Snapshot
<1>2. RaftTypes'
  BY <1>1, RestartTypes DEF Restart, TypeOK
<1>3. /\ db' \in [Node -> Value \cup {Nil}]
      /\ lastApplied' \in [Node -> [Clerk -> Nat]]
      /\ executed' \in [Node -> Seq(Op)]
  BY <1>1, RestoreTypes DEF Restart, TypeOK
<1>4. waitCh' \in [Node -> [Index -> CallId \cup {Nil}]]
  BY DEF Restart, TypeOK
<1>5. /\ call' \in [CallId -> CallRecord]
      /\ \A h \in CallId : call'[h].phase \in {"sent", "started", "waiting"} =>
            call'[h].op \in Op /\ call'[h].server \in Node
  BY NoCallType DEF Restart, TypeOK, CallsInProgress
<1>6. /\ UNCHANGED <<snapshot, clerkVars, callerVars, elections>>
      /\ restarts' \in Nat
  BY DEF Restart, TypeOK
<1> QED
  BY <1>2, <1>3, <1>4, <1>5, <1>6
  DEF TypeOK, CallsInProgress, ServerTypes, ClientTypes, clerkVars, callerVars

-----------------------------------------------------------------------------
(* The order of execution. *)

\* A Put newer than all of its client's in s may follow s.
LEMMA AppendInOrder ==
    ASSUME NEW s \in Seq(Op), NEW table \in [Clerk -> Nat], NEW op \in Op,
           InOrder(s), BoundedBy(s, table), ~(table[op.client] >= op.request)
    PROVE  /\ InOrder(Append(s, op))
           /\ BoundedBy(Append(s, op), [table EXCEPT ![op.client] = op.request])
<1> DEFINE t == Append(s, op)
<1>1. /\ Len(t) = Len(s) + 1 /\ t[Len(s) + 1] = op
      /\ \A p \in 1 .. Len(s) : t[p] = s[p]
      /\ Len(s) \in Nat
  OBVIOUS
<1>2. \A p \in 1 .. Len(s) : s[p] \in Op
  OBVIOUS
<1>3. op.client \in Clerk /\ op.request \in Nat /\ table[op.client] < op.request
  BY DEF Op
<1>4. \A p \in 1 .. Len(s) : s[p].client \in Clerk /\ s[p].request \in Nat
  BY <1>2 DEF Op
<1>5. \A p \in 1 .. Len(s) : s[p].request <= table[s[p].client]
  BY DEF BoundedBy
<1> HIDE DEF t
<1>6. InOrder(t)
  <2> SUFFICES ASSUME NEW p \in 1 .. Len(t), NEW q \in 1 .. Len(t), p < q,
                      t[p].client = t[q].client
               PROVE  t[p].request < t[q].request
    BY DEF InOrder
  <2>1. p \in 1 .. Len(s)
    BY <1>1
  <2>2. CASE q \in 1 .. Len(s)
    BY <1>1, <2>1, <2>2 DEF InOrder
  <2>3. CASE q = Len(s) + 1
    <3>1. t[q] = op /\ t[p] = s[p] /\ s[p].client = op.client
      BY <1>1, <2>1, <2>3
    <3>2. s[p].request <= table[op.client]
      BY <1>5, <2>1, <3>1
    <3>3. table[op.client] \in Nat /\ s[p].request \in Nat
      BY <1>3, <1>4, <2>1
    <3> QED
      BY <1>3, <3>1, <3>2, <3>3
  <2> QED
    BY <1>1, <2>2, <2>3
<1>7. BoundedBy(t, [table EXCEPT ![op.client] = op.request])
  <2> SUFFICES ASSUME NEW p \in 1 .. Len(t)
               PROVE  t[p].request <= [table EXCEPT ![op.client] = op.request][t[p].client]
    BY DEF BoundedBy
  <2>1. CASE p = Len(s) + 1
    BY <1>1, <1>3, <2>1
  <2>2. CASE p \in 1 .. Len(s)
    <3>1. t[p] = s[p] /\ s[p].request <= table[s[p].client] /\ table[s[p].client] \in Nat
      BY <1>1, <1>4, <1>5, <2>2
    <3>2. CASE s[p].client = op.client
      BY <1>3, <1>4, <2>2, <3>1, <3>2
    <3>3. CASE s[p].client # op.client
      BY <1>4, <2>2, <3>1, <3>3
    <3> QED
      BY <3>2, <3>3
  <2> QED
    BY <1>1, <2>1, <2>2
<1> QED
  BY <1>6, <1>7 DEF t

LEMMA ExecuteOrder ==
    ASSUME ServerTypes, TableBoundsExecuted, NEW i \in Node, NEW op \in Op, Execute(i, op)
    PROVE  \A j \in Node : InOrder(executed'[j]) /\ BoundedBy(executed'[j], lastApplied'[j])
<1>1. \A j \in Node : InOrder(executed[j]) /\ BoundedBy(executed[j], lastApplied[j])
  BY DEF TableBoundsExecuted
<1>2. CASE Changes(i, op)
  <2>1. executed[i] \in Seq(Op) /\ lastApplied[i] \in [Clerk -> Nat]
    BY DEF ServerTypes
  <2>2. ~(lastApplied[i][op.client] >= op.request)
    BY <1>2 DEF Changes, Duplicate
  <2>3. /\ InOrder(Append(executed[i], op))
        /\ BoundedBy(Append(executed[i], op), [lastApplied[i] EXCEPT ![op.client] = op.request])
    BY <1>1, <2>1, <2>2, AppendInOrder
  <2>4. /\ executed' = [executed EXCEPT ![i] = Append(@, op)]
        /\ lastApplied' = [lastApplied EXCEPT ![i][op.client] = op.request]
    BY <1>2 DEF Execute
  <2>5. \A j \in Node :
          /\ executed'[j] = IF j = i THEN Append(executed[i], op) ELSE executed[j]
          /\ lastApplied'[j] = IF j = i THEN [lastApplied[i] EXCEPT ![op.client] = op.request]
                               ELSE lastApplied[j]
    BY <2>4 DEF ServerTypes
  <2> QED
    BY <1>1, <2>3, <2>5
<1>3. CASE ~Changes(i, op)
  BY <1>1, <1>3 DEF Execute
<1> QED
  BY <1>2, <1>3

LEMMA ApplyOrder ==
    ASSUME TypeOK, TableBoundsExecuted, NEW i \in Node, Apply(i)
    PROVE  TableBoundsExecuted'
<1> DEFINE n  == delivered[i] + 1
           op == logs[i][n]
<1>1. op \in Op
  BY DeliverTypes DEF Apply, TypeOK
<1>2. Execute(i, op)
  BY DEF Apply
<1>3. UNCHANGED snapshot \/ snapshot' = [snapshot EXCEPT ![i] = Encoded(i, n)]
  BY DEF Apply
<1>4. /\ Encoded(i, n).executed = executed'[i]
      /\ Encoded(i, n).lastApplied = lastApplied'[i]
  BY DEF Encoded
<1> HIDE DEF op, n
<1>5. \A j \in Node : InOrder(executed'[j]) /\ BoundedBy(executed'[j], lastApplied'[j])
  BY <1>1, <1>2, ExecuteOrder DEF TypeOK
<1>6. \A j \in Node : snapshot'[j] = snapshot[j] \/ (j = i /\ snapshot'[j] = Encoded(i, n))
  BY <1>3 DEF TypeOK, ServerTypes
<1>7. \A j \in Node : /\ InOrder(snapshot'[j].executed)
                      /\ BoundedBy(snapshot'[j].executed, snapshot'[j].lastApplied)
  BY <1>4, <1>5, <1>6 DEF TableBoundsExecuted
<1> QED
  BY <1>5, <1>7 DEF TableBoundsExecuted, InOrder, BoundedBy

\* A snapshot brings its own table.
LEMMA RestoreOrder ==
    ASSUME TypeOK, TableBoundsExecuted, NEW i \in Node, NEW j \in Node,
           RestoreFrom(j, snapshot[i]),
           \A h \in Node : snapshot'[h] = snapshot[h] \/ snapshot'[h] = snapshot[i]
    PROVE  TableBoundsExecuted'
<1>1. \A h \in Node : \/ /\ executed'[h] = executed[h]
                         /\ lastApplied'[h] = lastApplied[h]
                      \/ /\ executed'[h] = snapshot[i].executed
                         /\ lastApplied'[h] = snapshot[i].lastApplied
  BY DEF RestoreFrom, TypeOK, ServerTypes
<1>2. \A h \in Node : InOrder(executed'[h]) /\ BoundedBy(executed'[h], lastApplied'[h])
  BY <1>1 DEF TableBoundsExecuted
<1>3. \A h \in Node : /\ InOrder(snapshot'[h].executed)
                      /\ BoundedBy(snapshot'[h].executed, snapshot'[h].lastApplied)
  BY DEF TableBoundsExecuted
<1> QED
  BY <1>2, <1>3 DEF TableBoundsExecuted, InOrder, BoundedBy

-----------------------------------------------------------------------------
(* The invariant. *)

LEMMA InitExecution == Init => ExecutionInv
<1> SUFFICES ASSUME Init PROVE ExecutionInv
  OBVIOUS
<1>1. RaftTypes
  BY DEF Init, R!Init, RaftTypes
<1>2. Blank.executed = << >> /\ Blank \in Snapshot
  BY DEF Blank, Snapshot
<1>3. ServerTypes
  <2>1. Blank.lastApplied \in [Clerk -> Nat]
    BY DEF Blank
  <2> QED
    BY <1>2, <2>1 DEF Init, ServerTypes
<1>4. ClientTypes
  <2>1. 1 \in 1 .. Len(Servers)
    BY ServersAssumption
  <2> QED
    BY <2>1, BoundsAssumption DEF Init, ClientTypes
<1>5. NoCall \in CallRecord /\ NoCall.phase = "none"
  BY NoCallType
<1>6. TypeOK
  BY <1>1, <1>3, <1>4, <1>5 DEF Init, TypeOK
<1>7. CallsInProgress
  BY <1>5 DEF Init, CallsInProgress
<1>8. TableBoundsExecuted
  BY <1>2 DEF Init, TableBoundsExecuted, InOrder, BoundedBy
<1> QED
  BY <1>6, <1>7, <1>8 DEF ExecutionInv

\* A step that is not the applier's executes nothing.
LEMMA NothingExecuted ==
    ASSUME TableBoundsExecuted, UNCHANGED serverVars
    PROVE  TableBoundsExecuted'
  BY DEF TableBoundsExecuted, InOrder, BoundedBy, serverVars

LEMMA StepExecution == ExecutionInv /\ [Next]_vars => ExecutionInv'
<1> SUFFICES ASSUME ExecutionInv, [Next]_vars PROVE ExecutionInv'
  OBVIOUS
<1> USE DEF ExecutionInv
<1>1. ASSUME NEW c \in Caller, ClerkStep(c) PROVE ExecutionInv'
  <2>1. TypeOK' /\ CallsInProgress'
    <3>1. Operations \subseteq {"Put", "Get"}
      BY BoundsAssumption
    <3> QED
      BY <1>1, <3>1, BeginOpTypes, IncrementTypes, MakeArgsTypes, SendCallTypes, EndCallTypes
      DEF ClerkStep
  <2>2. UNCHANGED serverVars
    BY <1>1 DEF ClerkStep, BeginOp, Increment, MakeArgs, SendCall, Return, Retry, GiveUp
  <2> QED
    BY <2>1, <2>2, NothingExecuted
<1>2. ASSUME NEW k \in CallId, HandlerStep(k) PROVE ExecutionInv'
  <2>1. TypeOK' /\ CallsInProgress'
    BY <1>2, HandleCallTypes, RegisterTypes, ReceiveResultTypes, TimeOutTypes DEF HandlerStep
  <2>2. UNCHANGED serverVars
    BY <1>2 DEF HandlerStep, HandleCall, Register, ReceiveResult, TimeOut
  <2> QED
    BY <2>1, <2>2, NothingExecuted
<1>3. ASSUME NEW i \in Node, ServerStep(i) PROVE ExecutionInv'
  <2>1. CASE Apply(i)
    BY <2>1, ApplyTypes, ApplyOrder
  <2>2. ASSUME NEW j \in Node, ApplySnapshot(i, j) PROVE ExecutionInv'
    <3>1. \A h \in Node : snapshot'[h] = snapshot[h] \/ snapshot'[h] = snapshot[i]
      BY <2>2 DEF ApplySnapshot, TypeOK, ServerTypes
    <3>2. TableBoundsExecuted'
      BY <2>2, <3>1, RestoreOrder DEF ApplySnapshot
    <3> QED
      BY <2>2, <3>2, ApplySnapshotTypes
  <2>3. CASE Elect(i) \/ RaftStep(i)
    <3>1. UNCHANGED serverVars
      BY <2>3 DEF Elect, RaftStep
    <3> QED
      BY <2>3, <3>1, LogStepTypes, NothingExecuted
  <2>4. CASE Restart(i)
    <3>1. RestoreFrom(i, snapshot[i]) /\ UNCHANGED snapshot
      BY <2>4 DEF Restart
    <3>2. TableBoundsExecuted'
      BY <3>1, RestoreOrder
    <3> QED
      BY <2>4, <3>2, RestartStepTypes
  <2> QED
    BY <1>3, <2>1, <2>2, <2>3, <2>4 DEF ServerStep
<1>4. CASE UNCHANGED vars
  <2>1. UNCHANGED serverVars
    BY <1>4 DEF vars
  <2>2. TypeOK' /\ CallsInProgress'
    BY <1>4
    DEF vars, raftVars, serverVars, clerkVars, callerVars, boundVars, TypeOK, CallsInProgress,
        RaftTypes, ServerTypes, ClientTypes
  <2> QED
    BY <2>1, <2>2, NothingExecuted
<1> QED
  BY <1>1, <1>2, <1>3, <1>4 DEF Next

\* Types, the calls in progress, and the table of request numbers that bounds what a
\* server and its snapshot have executed.
THEOREM ExecutionInvariant == Spec => []ExecutionInv
  BY InitExecution, StepExecution, PTL DEF Spec

\* No server executes a Put twice, nor an older one of a client after a newer one.
THEOREM PutsExecutedOnce == Spec => []ExactlyOnce
<1>1. ExecutionInv => ExactlyOnce
  BY DEF ExecutionInv, TableBoundsExecuted, InOrder, ExactlyOnce
<1> QED
  BY <1>1, ExecutionInvariant, PTL

-----------------------------------------------------------------------------
(* Replaying the committed entries. *)

\* The least number principle, which stands for induction below.
LEMMA Smallest ==
    ASSUME NEW S \in SUBSET Nat, S # {}
    PROVE  \E n \in S : \A k \in S : n <= k
<1> DEFINE less == {p \in Nat \X Nat : p[1] < p[2]}
<1>1. IsWellFoundedOn(less, Nat)
  <2>1. less = OpToRel(<, Nat)
    BY Zenon DEF OpToRel
  <2> QED
    BY <2>1, NatLessThanWellFounded, Zenon
<1>2. \A x, y \in Nat : x < y => <<x, y>> \in less
  OBVIOUS
<1> HIDE DEF less
<1>3. \E n \in S : \A k \in S : ~(<<k, n>> \in less)
  BY <1>1, WFMin, Zenon
<1>4. \A n \in S : \A k \in S : n \in Nat /\ k \in Nat
  OBVIOUS
<1>5. \A n, k \in Nat : n <= k \/ k < n
  OBVIOUS
<1> QED
  BY <1>2, <1>3, <1>4, <1>5, Zenon

\* f holds the states that the first N entries of c make of the blank state.
ReplayOf(f, c, N) == f = [n \in 0 .. N |-> IF n = 0 THEN Blank ELSE After(f[n - 1], c[n])]

\* There is one for every sequence: were there none for some length, there would be a
\* least such length, and the function for the length before it could be extended.
LEMMA ReplayExists ==
    ASSUME NEW c, NEW N \in Nat
    PROVE  \E f : ReplayOf(f, c, N)
<1> DEFINE S == {n \in Nat : ~\E f : ReplayOf(f, c, n)}
<1> SUFFICES ASSUME S # {} PROVE FALSE
  OBVIOUS
<1>1. PICK n \in S : \A k \in S : n <= k
  <2>1. S \in SUBSET Nat
    OBVIOUS
  <2> HIDE DEF S
  <2> QED
    BY <2>1, Smallest
<1>2. n \in Nat /\ ~\E f : ReplayOf(f, c, n)
  BY <1>1
<1>3. n # 0
  <2> SUFFICES ASSUME n = 0 PROVE FALSE
    OBVIOUS
  <2> DEFINE g == [k \in 0 .. 0 |-> Blank]
  <2>1. g = [k \in 0 .. 0 |-> IF k = 0 THEN Blank ELSE After(g[k - 1], c[k])]
    OBVIOUS
  <2> HIDE DEF g
  <2> QED
    BY <1>2, <2>1 DEF ReplayOf
<1>4. n - 1 \in Nat /\ n - 1 \notin S
  BY <1>1, <1>2, <1>3
<1>5. PICK f : ReplayOf(f, c, n - 1)
  BY <1>4
<1> HIDE DEF S
<1> DEFINE g == [k \in 0 .. n |-> IF k = n THEN After(f[n - 1], c[n]) ELSE f[k]]
<1>6. \A k \in 0 .. n - 1 : f[k] = IF k = 0 THEN Blank ELSE After(f[k - 1], c[k])
  BY <1>5, <1>4, Zenon DEF ReplayOf
<1>7. \A k \in 0 .. n : k \in Nat /\ (k # n => k \in 0 .. n - 1) /\ (k # 0 => k - 1 \in 0 .. n - 1)
  BY <1>2
<1>8. \A k \in 0 .. n - 1 : k \in 0 .. n /\ k # n
  BY <1>2
<1>9. \A k \in 0 .. n : g[k] = IF k = 0 THEN Blank ELSE After(g[k - 1], c[k])
  <2> SUFFICES ASSUME NEW k \in 0 .. n
               PROVE  g[k] = IF k = 0 THEN Blank ELSE After(g[k - 1], c[k])
    OBVIOUS
  <2>1. k # 0 => g[k - 1] = f[k - 1]
    BY <1>7, <1>8
  <2>2. CASE k = n
    BY <1>3, <2>1, <2>2
  <2>3. CASE k # n
    BY <1>6, <1>7, <2>1, <2>3
  <2> QED
    BY <2>2, <2>3
<1>10. ReplayOf(g, c, n)
  <2>1. g = [k \in 0 .. n |-> g[k]]
    OBVIOUS
  <2> HIDE DEF g
  <2> QED
    BY <1>9, <2>1 DEF ReplayOf
<1> QED
  BY <1>2, <1>10

\* Sequences that begin alike are replayed alike.
LEMMA ReplayUnique ==
    ASSUME NEW c, NEW d, NEW N \in Nat, NEW M \in Nat, N <= M,
           \A n \in 1 .. N : c[n] = d[n],
           NEW f, NEW g, ReplayOf(f, c, N), ReplayOf(g, d, M)
    PROVE  \A n \in 0 .. N : f[n] = g[n]
<1> DEFINE S == {n \in 0 .. N : f[n] # g[n]}
<1> SUFFICES ASSUME S # {} PROVE FALSE
  OBVIOUS
<1>1. PICK n \in S : \A k \in S : n <= k
  <2>1. S \in SUBSET Nat
    OBVIOUS
  <2> HIDE DEF S
  <2> QED
    BY <2>1, Smallest
<1>2. n \in 0 .. N /\ n \in 0 .. M /\ f[n] # g[n]
  BY <1>1
<1>3. f[n] = IF n = 0 THEN Blank ELSE After(f[n - 1], c[n])
  BY <1>2, Zenon DEF ReplayOf
<1>4. g[n] = IF n = 0 THEN Blank ELSE After(g[n - 1], d[n])
  BY <1>2, Zenon DEF ReplayOf
<1>5. n # 0
  BY <1>2, <1>3, <1>4
<1>6. n - 1 \in 0 .. N /\ n - 1 \notin S
  BY <1>1, <1>2, <1>5
<1>7. f[n - 1] = g[n - 1] /\ c[n] = d[n]
  BY <1>2, <1>5, <1>6
<1> QED
  BY <1>2, <1>3, <1>4, <1>5, <1>7

LEMMA ReplayDefined ==
    committed \in Seq(Op) => ReplayOf(Replay, committed, Len(committed))
<1> SUFFICES ASSUME committed \in Seq(Op) PROVE ReplayOf(Replay, committed, Len(committed))
  OBVIOUS
<1>1. Len(committed) \in Nat
  OBVIOUS
<1>2. \E f : ReplayOf(f, committed, Len(committed))
  BY <1>1, ReplayExists
<1>3. Replay = CHOOSE f : ReplayOf(f, committed, Len(committed))
  BY Zenon DEF Replay, ReplayOf
<1> QED
  BY <1>2, <1>3, Zenon

\* What has been replayed stays as it is while committed grows.
LEMMA ReplayKept ==
    ASSUME committed \in Seq(Op), committed' \in Seq(Op), Len(committed) <= Len(committed'),
           \A n \in 1 .. Len(committed) : committed'[n] = committed[n]
    PROVE  \A n \in 0 .. Len(committed) : Replay'[n] = Replay[n]
<1>1. ReplayOf(Replay, committed, Len(committed))
  BY ReplayDefined
<1>2. (committed \in Seq(Op) => ReplayOf(Replay, committed, Len(committed)))'
  BY ReplayDefined, PTL
<1>3. ReplayOf(Replay', committed', Len(committed'))
  BY <1>2
<1>4. Len(committed) \in Nat /\ Len(committed') \in Nat
  OBVIOUS
<1> QED
  BY <1>1, <1>3, <1>4, ReplayUnique

LEMMA ReplayStep ==
    ASSUME committed \in Seq(Op), NEW n \in 0 .. Len(committed)
    PROVE  Replay[n] = IF n = 0 THEN Blank ELSE After(Replay[n - 1], committed[n])
  BY ReplayDefined, Zenon DEF ReplayOf

\* Committing an entry leaves those before it.
LEMMA CommittedGrows ==
    ASSUME RaftTypes, NEW i \in Node, NEW n \in 1 .. Len(logs[i]), R!Commit(i, n)
    PROVE  /\ committed' \in Seq(Op)
           /\ Len(committed) <= Len(committed')
           /\ \A m \in 1 .. Len(committed) : committed'[m] = committed[m]
<1> DEFINE s == logs[i]
<1>1. s \in Seq(Op) /\ committed \in Seq(Op) /\ n \in 0 .. Len(s)
  BY DEF RaftTypes
<1>2. /\ committed' = SubSeq(s, 1, n)
      /\ Len(committed) < n
      /\ SubSeq(s, 1, Len(committed)) = SubSeq(committed, 1, Len(committed))
  BY DEF R!Commit, R!Agrees
<1> HIDE DEF s
<1>3. committed' \in Seq(Op) /\ Len(committed') = n
  BY <1>1, <1>2
<1>4. Len(committed) \in Nat /\ Len(committed) <= Len(s)
  BY <1>1, <1>2
<1>5. \A m \in 1 .. Len(committed) : SubSeq(s, 1, n)[m] = s[m]
  BY <1>1, <1>2, <1>4
<1>6. \A m \in 1 .. Len(committed) : /\ SubSeq(s, 1, Len(committed))[m] = s[m]
                                     /\ SubSeq(committed, 1, Len(committed))[m] = committed[m]
  BY <1>1, <1>4
<1> QED
  BY <1>2, <1>3, <1>4, <1>5, <1>6

\* A server executes a command as Replay does.
LEMMA ExecuteIsAfter ==
    ASSUME TypeOK, NEW i \in Node, NEW op \in Op, Execute(i, op),
           delivered' = [delivered EXCEPT ![i] = @ + 1]
    PROVE  /\ ServerState(i)' = After(ServerState(i), op)
           /\ \A j \in Node \ {i} : ServerState(j)' = ServerState(j)
<1>1. op.client \in Clerk /\ op.request \in Nat /\ lastApplied[i][op.client] \in Nat
  BY DEF Op, TypeOK, ServerTypes
<1>2. Changes(i, op) <=> op.type = "Put" /\ lastApplied[i][op.client] < op.request
  BY <1>1 DEF Changes, Duplicate
<1>3. /\ db \in [Node -> Value \cup {Nil}]
      /\ lastApplied \in [Node -> [Clerk -> Nat]]
      /\ executed \in [Node -> Seq(Op)]
      /\ delivered \in [Node -> Nat]
  BY DEF TypeOK, RaftTypes, ServerTypes
<1>4. CASE Changes(i, op)
  <2>1. /\ db' = [db EXCEPT ![i] = op.value]
        /\ lastApplied' = [lastApplied EXCEPT ![i][op.client] = op.request]
        /\ executed' = [executed EXCEPT ![i] = Append(@, op)]
    BY <1>4 DEF Execute
  <2> QED
    BY <1>2, <1>3, <1>4, <2>1 DEF ServerState, After
<1>5. CASE ~Changes(i, op)
  BY <1>2, <1>3, <1>5 DEF Execute, ServerState, After
<1> QED
  BY <1>4, <1>5

\* The next entry of a log that the applier receives is the next committed one.
LEMMA DeliversCommitted ==
    ASSUME RaftTypes, NEW i \in Node, R!Deliver(i)
    PROVE  /\ delivered[i] + 1 \in 1 .. Len(committed)
           /\ logs[i][delivered[i] + 1] = committed[delivered[i] + 1]
<1>1. logs[i] \in Seq(Op) /\ committed \in Seq(Op) /\ delivered[i] \in Nat
  BY DEF RaftTypes
<1>2. PICK n \in Nat : n = delivered[i] + 1
  BY <1>1
<1>3. /\ delivered[i] < Len(committed)
      /\ n <= Len(logs[i])
      /\ SubSeq(logs[i], 1, n) = SubSeq(committed, 1, n)
  BY <1>2 DEF R!Deliver, R!Agrees
<1>4. n \in 1 .. Len(committed)
  BY <1>1, <1>2, <1>3
<1>5. SubSeq(logs[i], 1, n)[n] = logs[i][n] /\ SubSeq(committed, 1, n)[n] = committed[n]
  BY <1>1, <1>3, <1>4
<1> QED
  BY <1>2, <1>3, <1>4, <1>5

\* What RestoreFrom restores is the snapshot.
LEMMA RestoreIsSnapshot ==
    ASSUME TypeOK, NEW j \in Node, NEW s \in Snapshot, RestoreFrom(j, s),
           delivered' = [delivered EXCEPT ![j] = s.index]
    PROVE  /\ ServerState(j)' = s
           /\ \A h \in Node \ {j} : ServerState(h)' = ServerState(h)
<1>1. /\ db \in [Node -> Value \cup {Nil}]
      /\ lastApplied \in [Node -> [Clerk -> Nat]]
      /\ executed \in [Node -> Seq(Op)]
      /\ delivered \in [Node -> Nat]
  BY DEF TypeOK, RaftTypes, ServerTypes
<1>2. s = [index |-> s.index, db |-> s.db, lastApplied |-> s.lastApplied, executed |-> s.executed]
  BY DEF Snapshot
<1> QED
  BY <1>1, <1>2 DEF RestoreFrom, ServerState

\* A step after which the state of each server and each snapshot is one that was
\* replayed before, or its server has applied the next entry.
LEMMA ReplayedStep ==
    ASSUME TypeOK, Replayed, committed' \in Seq(Op), Len(committed) <= Len(committed'),
           \A n \in 1 .. Len(committed) : committed'[n] = committed[n],
           \A i \in Node :
               /\ \E n \in 0 .. Len(committed) :
                      delivered'[i] = n /\ ServerState(i)' = Replay[n]
               /\ \E n \in 0 .. Len(committed) :
                      snapshot'[i].index = n /\ snapshot'[i] = Replay[n]
    PROVE  Replayed'
<1>1. committed \in Seq(Op) /\ Len(committed) \in Nat /\ Len(committed') \in Nat
  BY DEF TypeOK, RaftTypes
<1>2. \A n \in 0 .. Len(committed) : Replay'[n] = Replay[n]
  BY <1>1, ReplayKept
<1> SUFFICES ASSUME NEW i \in Node
             PROVE  /\ delivered'[i] <= Len(committed')
                    /\ ServerState(i)' = Replay'[delivered'[i]]
                    /\ snapshot'[i].index <= Len(committed')
                    /\ snapshot'[i] = Replay'[snapshot'[i].index]
  BY DEF Replayed
<1>3. PICK n \in 0 .. Len(committed) : delivered'[i] = n /\ ServerState(i)' = Replay[n]
  OBVIOUS
<1>4. PICK m \in 0 .. Len(committed) : snapshot'[i].index = m /\ snapshot'[i] = Replay[m]
  OBVIOUS
<1> QED
  BY <1>1, <1>2, <1>3, <1>4

\* Each server and each snapshot before the step, as ReplayedStep wants them.
LEMMA ReplayedNow ==
    ASSUME TypeOK, Replayed, NEW i \in Node
    PROVE  /\ delivered[i] \in 0 .. Len(committed)
           /\ ServerState(i) = Replay[delivered[i]]
           /\ snapshot[i].index \in 0 .. Len(committed)
           /\ snapshot[i] = Replay[snapshot[i].index]
           /\ snapshot[i] \in Snapshot
  BY DEF Replayed, TypeOK, RaftTypes, ServerTypes, Snapshot

\* A step that is not the applier's leaves what has been replayed.
LEMMA NothingReplayed ==
    ASSUME TypeOK, Replayed, committed' \in Seq(Op), Len(committed) <= Len(committed'),
           \A n \in 1 .. Len(committed) : committed'[n] = committed[n],
           UNCHANGED <<delivered, serverVars>>
    PROVE  Replayed'
<1>1. \A i \in Node : /\ delivered'[i] = delivered[i]
                      /\ ServerState(i)' = ServerState(i)
                      /\ snapshot'[i] = snapshot[i]
  BY DEF serverVars, ServerState
<1>2. \A i \in Node :
        /\ \E n \in 0 .. Len(committed) : delivered'[i] = n /\ ServerState(i)' = Replay[n]
        /\ \E n \in 0 .. Len(committed) : snapshot'[i].index = n /\ snapshot'[i] = Replay[n]
  BY <1>1, ReplayedNow
<1> QED
  BY <1>2, ReplayedStep

LEMMA ApplyReplays ==
    ASSUME TypeOK, Replayed, NEW i \in Node, Apply(i)
    PROVE  Replayed'
<1> DEFINE n  == delivered[i] + 1
           op == logs[i][n]
<1>1. RaftTypes /\ committed \in Seq(Op)
  BY DEF TypeOK, RaftTypes
<1>2. R!Deliver(i) /\ Execute(i, op)
  BY DEF Apply
<1>3. op \in Op /\ n \in 1 .. Len(committed) /\ op = committed[n]
  BY <1>1, <1>2, DeliverTypes, DeliversCommitted
<1>4. delivered' = [delivered EXCEPT ![i] = @ + 1] /\ UNCHANGED committed
  BY <1>2 DEF R!Deliver
<1>5. /\ ServerState(i)' = After(ServerState(i), op)
      /\ \A j \in Node \ {i} : ServerState(j)' = ServerState(j)
  BY <1>2, <1>3, <1>4, ExecuteIsAfter
<1>6. delivered[i] \in 0 .. Len(committed) /\ ServerState(i) = Replay[delivered[i]]
  BY ReplayedNow
<1>7. Len(committed) \in Nat
  BY <1>1
<1>8. delivered'[i] = n /\ \A j \in Node \ {i} : delivered'[j] = delivered[j]
  BY <1>1, <1>4 DEF RaftTypes
<1>9. n \in 0 .. Len(committed) /\ n # 0 /\ n - 1 = delivered[i]
  BY <1>3, <1>6, <1>7
<1>10. Replay[n] = After(Replay[n - 1], committed[n])
  BY <1>1, <1>9, ReplayStep
<1>11. ServerState(i)' = Replay[n]
  BY <1>3, <1>5, <1>6, <1>9, <1>10
<1>12. ServerState(i)' = Encoded(i, delivered'[i])
  BY DEF ServerState, Encoded
<1>13. UNCHANGED snapshot \/ snapshot' = [snapshot EXCEPT ![i] = Encoded(i, n)]
  BY DEF Apply
<1> HIDE DEF n, op
<1>14. \A j \in Node : snapshot'[j] = snapshot[j] \/ (j = i /\ snapshot'[j] = Replay[n])
  BY <1>8, <1>11, <1>12, <1>13 DEF TypeOK, ServerTypes
<1>15. Encoded(i, n).index = n
  BY DEF Encoded
<1>16. Replay[n].index = n
  BY <1>8, <1>11, <1>12, <1>15
<1>17. \A j \in Node :
        /\ \E m \in 0 .. Len(committed) : delivered'[j] = m /\ ServerState(j)' = Replay[m]
        /\ \E m \in 0 .. Len(committed) : snapshot'[j].index = m /\ snapshot'[j] = Replay[m]
  BY <1>5, <1>8, <1>9, <1>11, <1>14, <1>16, ReplayedNow
<1>18. /\ committed' \in Seq(Op)
       /\ Len(committed) <= Len(committed')
       /\ \A m \in 1 .. Len(committed) : committed'[m] = committed[m]
  BY <1>1, <1>4
<1> QED
  BY <1>17, <1>18, ReplayedStep

\* A server takes its own snapshot, or another's.
LEMMA RestoreReplays ==
    ASSUME TypeOK, Replayed, NEW i \in Node, NEW j \in Node, RestoreFrom(j, snapshot[i]),
           delivered' = [delivered EXCEPT ![j] = snapshot[i].index], UNCHANGED committed,
           \A h \in Node : snapshot'[h] = snapshot[h] \/ snapshot'[h] = snapshot[i]
    PROVE  Replayed'
<1>1. snapshot[i] \in Snapshot
  BY ReplayedNow
<1>2. /\ ServerState(j)' = snapshot[i]
      /\ \A h \in Node \ {j} : ServerState(h)' = ServerState(h)
  BY <1>1, RestoreIsSnapshot
<1>3. delivered'[j] = snapshot[i].index /\ \A h \in Node \ {j} : delivered'[h] = delivered[h]
  BY DEF TypeOK, RaftTypes
<1>4. \A h \in Node :
        /\ \E m \in 0 .. Len(committed) : delivered'[h] = m /\ ServerState(h)' = Replay[m]
        /\ \E m \in 0 .. Len(committed) : snapshot'[h].index = m /\ snapshot'[h] = Replay[m]
  BY <1>2, <1>3, ReplayedNow
<1>5. /\ committed' \in Seq(Op)
      /\ Len(committed) <= Len(committed')
      /\ \A m \in 1 .. Len(committed) : committed'[m] = committed[m]
  BY DEF TypeOK, RaftTypes
<1> QED
  BY <1>4, <1>5, ReplayedStep

LEMMA InitReplayed == Init => Replayed
<1> SUFFICES ASSUME Init, NEW i \in Node
             PROVE  /\ delivered[i] <= Len(committed)
                    /\ ServerState(i) = Replay[delivered[i]]
                    /\ snapshot[i].index <= Len(committed)
                    /\ snapshot[i] = Replay[snapshot[i].index]
  BY DEF Replayed
<1>1. committed = << >> /\ delivered[i] = 0 /\ committed \in Seq(Op) /\ Len(committed) = 0
  BY DEF Init, R!Init
<1>2. Replay[0] = Blank
  BY <1>1, ReplayStep
<1>3. snapshot[i] = Blank /\ Blank.index = 0
  BY DEF Init, Blank
<1>4. ServerState(i) = Blank
  BY <1>1 DEF Init, ServerState, Blank
<1> QED
  BY <1>1, <1>2, <1>3, <1>4

LEMMA StepReplayed == ExecutionInv /\ Replayed /\ [Next]_vars => Replayed'
<1> SUFFICES ASSUME ExecutionInv, Replayed, [Next]_vars PROVE Replayed'
  OBVIOUS
<1>1. TypeOK /\ RaftTypes /\ committed \in Seq(Op) /\ Len(committed) \in Nat
  BY DEF ExecutionInv, TypeOK, RaftTypes
<1>2. ASSUME UNCHANGED committed, UNCHANGED <<delivered, serverVars>> PROVE Replayed'
  BY <1>1, <1>2, NothingReplayed
<1>3. ASSUME NEW c \in Caller, ClerkStep(c) PROVE Replayed'
  <2>1. UNCHANGED <<raftVars, serverVars>>
    BY <1>3 DEF ClerkStep, BeginOp, Increment, MakeArgs, SendCall, Return, Retry, GiveUp
  <2> QED
    BY <1>2, <2>1 DEF raftVars
<1>4. ASSUME NEW k \in CallId, HandlerStep(k) PROVE Replayed'
  <2>1. UNCHANGED serverVars
    BY <1>4 DEF HandlerStep, HandleCall, Register, ReceiveResult, TimeOut
  <2>2. UNCHANGED <<committed, delivered>>
    BY <1>4 DEF HandlerStep, HandleCall, Register, ReceiveResult, TimeOut, R!Propose, raftVars
  <2> QED
    BY <1>2, <2>1, <2>2
<1>5. ASSUME NEW i \in Node, ServerStep(i) PROVE Replayed'
  <2>1. CASE Apply(i)
    BY <1>1, <2>1, ApplyReplays
  <2>2. ASSUME NEW j \in Node, ApplySnapshot(i, j) PROVE Replayed'
    <3>1. /\ RestoreFrom(j, snapshot[i])
          /\ delivered' = [delivered EXCEPT ![j] = snapshot[i].index]
          /\ UNCHANGED committed
      BY <2>2 DEF ApplySnapshot, R!Install
    <3>2. \A h \in Node : snapshot'[h] = snapshot[h] \/ snapshot'[h] = snapshot[i]
      BY <1>1, <2>2 DEF ApplySnapshot, TypeOK, ServerTypes
    <3> QED
      BY <1>1, <3>1, <3>2, RestoreReplays
  <2>3. CASE Elect(i)
    BY <1>2, <2>3 DEF Elect, R!Elect
  <2>4. CASE RaftStep(i)
    <3>1. UNCHANGED serverVars
      BY <2>4 DEF RaftStep
    <3>2. CASE R!StepDown(i) \/ \E j \in Node : \E s \in offered[i] : R!Replicate(i, j, s)
      BY <1>2, <3>1, <3>2 DEF R!StepDown, R!Replicate
    <3>3. ASSUME NEW n \in 1 .. Len(logs[i]), R!Commit(i, n) PROVE Replayed'
      <4>1. /\ committed' \in Seq(Op)
            /\ Len(committed) <= Len(committed')
            /\ \A m \in 1 .. Len(committed) : committed'[m] = committed[m]
        BY <1>1, <3>3, CommittedGrows
      <4>2. UNCHANGED delivered
        BY <3>3 DEF R!Commit
      <4> QED
        BY <1>1, <3>1, <4>1, <4>2, NothingReplayed
    <3> QED
      BY <2>4, <3>2, <3>3 DEF RaftStep
  <2>5. CASE Restart(i)
    <3>1. /\ RestoreFrom(i, snapshot[i])
          /\ delivered' = [delivered EXCEPT ![i] = snapshot[i].index]
          /\ UNCHANGED <<committed, snapshot>>
      BY <2>5 DEF Restart, R!Restart
    <3> QED
      BY <1>1, <3>1, RestoreReplays
  <2> QED
    BY <1>5, <2>1, <2>2, <2>3, <2>4, <2>5 DEF ServerStep
<1>6. CASE UNCHANGED vars
  BY <1>2, <1>6 DEF vars, raftVars
<1> QED
  BY <1>3, <1>4, <1>5, <1>6 DEF Next

\* Every server and every snapshot holds what replaying the committed entries gives, for
\* every number of servers, Clerks, elections, snapshots and restarts.
THEOREM ServersReplay == Spec => []Replayed
<1>1. ExecutionInv /\ Replayed /\ [Next]_vars => ExecutionInv' /\ Replayed'
  BY StepExecution, StepReplayed
<1>2. Init => ExecutionInv /\ Replayed
  BY InitExecution, InitReplayed
<1> QED
  BY <1>1, <1>2, PTL DEF Spec

\* Servers that have applied the same part of the log are in the same state.
THEOREM StatesMatch == Spec => []SameState
<1>1. Replayed => SameState
  <2> SUFFICES ASSUME Replayed, NEW i \in Node, NEW j \in Node, delivered[i] = delivered[j]
               PROVE  db[i] = db[j] /\ lastApplied[i] = lastApplied[j]
    BY DEF SameState
  <2>1. ServerState(i) = ServerState(j)
    BY DEF Replayed
  <2> QED
    BY <2>1 DEF ServerState
<1> QED
  BY <1>1, ServersReplay, PTL
=============================================================================
