---------------------------- MODULE KVAnswersProof ----------------------------
(***************************************************************************)
(* What the callers of the key-value service are told.  Each channel in    *)
(* waitCh belongs to a handler that still waits at its index for a first   *)
(* result; and while one leader serves callers that have a Clerk each, a   *)
(* Put that has returned is never lost, and a Get returns nothing stale.   *)
(***************************************************************************)
EXTENDS KVProof

-----------------------------------------------------------------------------
(* The waiters. *)

\* A step that leaves waitCh alone, and every record that waitCh points to.
LEMMA WaitersUndisturbed ==
    ASSUME TypeOK, WaitersWait, UNCHANGED waitCh,
           \A h \in CallId : call[h].phase = "waiting" /\ call[h].res = Nil => call'[h] = call[h]
    PROVE  WaitersWait'
  BY DEF TypeOK, WaitersWait

\* A step that ends call k, or moves it from sent to started.
LEMMA UnusedKept ==
    ASSUME TypeOK, CallsUnused, NEW k \in CallId, NEW r \in CallRecord,
           call[k].phase # "none",
           r.phase = "started" => r.res = Nil,
           call' = [call EXCEPT ![k] = r], UNCHANGED attempt
    PROVE  CallsUnused'
<1>1. \A h \in CallId : call'[h] = IF h = k THEN r ELSE call[h]
  BY DEF TypeOK
<1>2. \A h \in CallId : call'[h].phase = "started" => call'[h].res = Nil
  BY <1>1 DEF CallsUnused
<1>3. ASSUME NEW c \in Caller, NEW a \in 1 .. MaxAttempts, a > attempt[c]
      PROVE  call'[<<c, a>>] = NoCall
  <2>1. call[<<c, a>>] = NoCall /\ <<c, a>> \in CallId
    BY <1>3 DEF CallsUnused, CallId
  <2>2. k # <<c, a>>
    BY <2>1, NoCallType
  <2> QED
    BY <1>1, <2>1, <2>2
<1> QED
  BY <1>2, <1>3 DEF CallsUnused

LEMMA ClerkStepWaiters ==
    ASSUME TypeOK, CallsInProgress, WaitersInv, NEW c \in Caller, ClerkStep(c)
    PROVE  CallsUnused' /\ WaitersWait'
<1> USE DEF WaitersInv
<1>1. CASE \/ \E type \in Operations : BeginOp(c, type)
           \/ Increment(c) \/ MakeArgs(c) \/ GiveUp(c)
  <2>1. UNCHANGED <<waitCh, call, attempt>>
    BY <1>1 DEF BeginOp, Increment, MakeArgs, GiveUp
  <2> QED
    BY <2>1, WaitersUndisturbed DEF CallsUnused
<1>2. CASE SendCall(c)
  <2> DEFINE k == <<c, attempt[c] + 1>>
             r == [phase |-> "sent", server |-> Servers[leaderId[ClerkOf[c]]],
                   op |-> OpOf(c), index |-> 0, res |-> Nil]
  <2>1. attempt[c] \in Nat /\ attempt[c] + 1 \in 1 .. MaxAttempts
    BY <1>2, BoundsAssumption DEF SendCall, TypeOK, ClientTypes
  <2>2. k \in CallId /\ call[k] = NoCall
    BY <2>1 DEF CallId, CallsUnused
  <2>3. call' = [call EXCEPT ![k] = r] /\ r.phase = "sent"
    BY <1>2 DEF SendCall
  <2>4. attempt' = [attempt EXCEPT ![c] = @ + 1] /\ UNCHANGED waitCh
    BY <1>2 DEF SendCall
  <2>5. \A d \in Caller : \A a \in 1 .. MaxAttempts :
           a > attempt'[d] => a > attempt[d] /\ <<d, a>> # k
    BY <2>1, <2>4 DEF TypeOK, ClientTypes
  <2> HIDE DEF k, r
  <2>6. \A h \in CallId : call'[h] = IF h = k THEN r ELSE call[h]
    BY <2>3 DEF TypeOK
  <2>7. WaitersWait'
    BY <2>2, <2>4, <2>6, NoCallType, WaitersUndisturbed
  <2>8. \A h \in CallId : call'[h].phase = "started" => call'[h].res = Nil
    BY <2>3, <2>6 DEF CallsUnused
  <2>9. \A d \in Caller : \A a \in 1 .. MaxAttempts : a > attempt'[d] => call'[<<d, a>>] = NoCall
    BY <2>5, <2>6 DEF CallsUnused, CallId
  <2> QED
    BY <2>7, <2>8, <2>9 DEF CallsUnused
<1>3. CASE Return(c) \/ Retry(c)
  <2> DEFINE k == CurrentCall(c)
  <2>1. k \in CallId /\ call[k].phase = "replied"
    BY <1>3, CurrentCallType DEF Return, Retry, Answered
  <2>2. call' = [call EXCEPT ![k] = NoCall] /\ UNCHANGED <<waitCh, attempt>>
    BY <1>3 DEF Return, Retry
  <2> HIDE DEF k
  <2>3. CallsUnused'
    BY <2>1, <2>2, NoCallType, UnusedKept
  <2>4. \A h \in CallId : h # k => call'[h] = call[h]
    BY <2>2 DEF TypeOK
  <2> QED
    BY <2>1, <2>2, <2>3, <2>4, WaitersUndisturbed
<1> QED
  BY <1>1, <1>2, <1>3 DEF ClerkStep

LEMMA HandlerStepWaiters ==
    ASSUME TypeOK, CallsInProgress, WaitersInv, NEW k \in CallId, HandlerStep(k)
    PROVE  CallsUnused' /\ WaitersWait'
<1> USE DEF WaitersInv
<1>1. CASE HandleCall(k) \/ ReceiveResult(k)
  <2>1. \E r \in CallRecord : /\ call' = [call EXCEPT ![k] = r]
                              /\ r.phase = "started" => r.res = Nil
    <3>1. CASE HandleCall(k)
      <4> DEFINE i == call[k].server
                 r == [phase |-> "started", server |-> i, op |-> call[k].op,
                       index |-> Len(logs[i]) + 1, res |-> Nil]
      <4>1. \/ call' = [call EXCEPT ![k] = Reply(k, Error("ErrWrongLeader"))]
            \/ call' = [call EXCEPT ![k] = r]
        BY <3>1 DEF HandleCall
      <4>2. /\ Reply(k, Error("ErrWrongLeader")) \in CallRecord
            /\ Reply(k, Error("ErrWrongLeader")).phase # "started"
        <5>1. Error("ErrWrongLeader") \in Result
          BY ErrorType
        <5> QED
          BY <5>1, ReplyType
      <4>3. r \in CallRecord /\ r.res = Nil
        <5>1. call[k].op \in Op /\ i \in Node
          BY <3>1 DEF HandleCall, CallsInProgress
        <5>2. Len(logs[i]) \in Nat
          BY <5>1 DEF TypeOK, RaftTypes
        <5> QED
          BY <5>1, <5>2 DEF CallRecord
      <4> HIDE DEF r
      <4> QED
        BY <4>1, <4>2, <4>3
    <3>2. CASE ReceiveResult(k)
      <4>1. call[k].res \in Result /\ call' = [call EXCEPT ![k] = Reply(k, call[k].res)]
        BY <3>2 DEF ReceiveResult, TypeOK, CallRecord
      <4>2. /\ Reply(k, call[k].res) \in CallRecord
            /\ Reply(k, call[k].res).phase # "started"
        BY <4>1, ReplyType
      <4> QED
        BY <4>1, <4>2
    <3> QED
      BY <1>1, <3>1, <3>2
  <2>2. call[k].phase # "none" /\ ~(call[k].phase = "waiting" /\ call[k].res = Nil)
    BY <1>1 DEF HandleCall, ReceiveResult
  <2>3. UNCHANGED <<waitCh, attempt>>
    BY <1>1 DEF HandleCall, ReceiveResult, callerVars
  <2>4. CallsUnused'
    BY <2>1, <2>2, <2>3, UnusedKept
  <2>5. \A h \in CallId : h # k => call'[h] = call[h]
    BY <2>1 DEF TypeOK
  <2> QED
    BY <2>2, <2>3, <2>4, <2>5, WaitersUndisturbed
<1>2. CASE Register(k)
  <2> DEFINE s == call[k].server
             n == call[k].index
  <2>1. /\ call[k].phase = "started" /\ call[k].res = Nil /\ s \in Node
        /\ waitCh' = [waitCh EXCEPT ![s][n] = k]
        /\ call' = [call EXCEPT ![k].phase = "waiting"]
        /\ UNCHANGED attempt
    BY <1>2 DEF Register, CallsUnused, CallsInProgress, callerVars
  <2>2. /\ call'[k].phase = "waiting" /\ call'[k].server = s /\ call'[k].index = n
        /\ call'[k].res = Nil
    BY <2>1 DEF TypeOK, CallRecord
  <2>3. \A h \in CallId : h # k => call'[h] = call[h]
    BY <2>1 DEF TypeOK
  <2>4. \A i \in Node : \A m \in Index :
           waitCh'[i][m] = waitCh[i][m] \/ (i = s /\ m = n /\ waitCh'[i][m] = k)
    BY <2>1 DEF TypeOK
  <2> HIDE DEF s, n
  <2>5. WaitersWait'
    <3> SUFFICES ASSUME NEW i \in Node, NEW m \in Index, waitCh'[i][m] # Nil
                 PROVE  LET h == call'[waitCh'[i][m]]
                        IN  h.phase = "waiting" /\ h.server = i /\ h.index = m /\ h.res = Nil
      BY DEF WaitersWait
    <3>1. CASE i = s /\ m = n /\ waitCh'[i][m] = k
      BY <2>2, <3>1
    <3>2. CASE waitCh'[i][m] = waitCh[i][m]
      <4>1. waitCh[i][m] \in CallId
        BY <3>2 DEF TypeOK
      <4>2. call[waitCh[i][m]].phase = "waiting"
        BY <3>2 DEF WaitersWait
      <4>3. waitCh[i][m] # k
        BY <2>1, <4>2
      <4> QED
        BY <2>3, <3>2, <4>1, <4>3 DEF WaitersWait
    <3> QED
      BY <2>4, <3>1, <3>2
  <2>6. CallsUnused'
    <3>1. \A h \in CallId : call'[h].phase = "started" => call'[h].res = Nil
      BY <2>2, <2>3 DEF CallsUnused
    <3>2. ASSUME NEW c \in Caller, NEW a \in 1 .. MaxAttempts, a > attempt[c]
          PROVE  call'[<<c, a>>] = NoCall
      <4>1. call[<<c, a>>] = NoCall /\ <<c, a>> \in CallId
        BY <3>2 DEF CallsUnused, CallId
      <4> QED
        BY <2>1, <2>3, <4>1, NoCallType
    <3> QED
      BY <2>1, <3>1, <3>2 DEF CallsUnused
  <2> QED
    BY <2>5, <2>6
<1>3. CASE TimeOut(k)
  <2> DEFINE s == call[k].server
             n == call[k].index
             r == Reply(k, Error("ErrTimeout"))
  <2>1. /\ call[k].phase = "waiting"
        /\ waitCh' = [waitCh EXCEPT ![s][n] = Nil]
        /\ call' = [call EXCEPT ![k] = r]
        /\ UNCHANGED attempt
    BY <1>3 DEF TimeOut, DeleteWaitCh, callerVars
  <2>2. r \in CallRecord /\ r.phase # "started"
    <3>1. Error("ErrTimeout") \in Result
      BY ErrorType
    <3> QED
      BY <3>1, ReplyType
  <2>3. \A h \in CallId : h # k => call'[h] = call[h]
    BY <2>1 DEF TypeOK
  <2>4. \A i \in Node : \A m \in Index :
           waitCh'[i][m] # Nil => waitCh'[i][m] = waitCh[i][m] /\ ~(i = s /\ m = n)
    BY <2>1 DEF TypeOK
  <2> HIDE DEF r
  <2>5. CallsUnused'
    BY <2>1, <2>2, UnusedKept
  <2>6. WaitersWait'
    <3> SUFFICES ASSUME NEW i \in Node, NEW m \in Index, waitCh'[i][m] # Nil
                 PROVE  LET h == call'[waitCh'[i][m]]
                        IN  h.phase = "waiting" /\ h.server = i /\ h.index = m /\ h.res = Nil
      BY DEF WaitersWait
    <3>1. waitCh'[i][m] = waitCh[i][m] /\ ~(i = s /\ m = n)
      BY <2>4
    <3>2. waitCh[i][m] \in CallId
      BY <3>1 DEF TypeOK
    <3>3. call[waitCh[i][m]].server = i /\ call[waitCh[i][m]].index = m
      BY <3>1 DEF WaitersWait
    <3>4. waitCh[i][m] # k
      BY <3>1, <3>3
    <3> QED
      BY <2>3, <3>1, <3>2, <3>4 DEF WaitersWait
  <2> QED
    BY <2>5, <2>6
<1> QED
  BY <1>1, <1>2, <1>3 DEF HandlerStep

\* The applier takes the channel out of waitCh when it fills it.
LEMMA NotifyWaiters ==
    ASSUME TypeOK, WaitersInv, NEW i \in Node, NEW n \in Index, NEW res, Notify(i, n, res),
           UNCHANGED attempt
    PROVE  CallsUnused' /\ WaitersWait'
<1> USE DEF WaitersInv
<1> DEFINE k == waitCh[i][n]
<1>1. \A j \in Node : \A m \in Index :
         waitCh'[j][m] # Nil => waitCh'[j][m] = waitCh[j][m] /\ ~(j = i /\ m = n)
  BY DEF Notify, TypeOK
<1>2. \A h \in CallId : h # k => call'[h] = call[h]
  BY DEF Notify, TypeOK
<1>3. k # Nil => /\ k \in CallId
                 /\ call[k].phase = "waiting" /\ call[k].server = i /\ call[k].index = n
  BY DEF TypeOK, WaitersWait
<1>4. k \in CallId => call'[k].phase = call[k].phase
  BY DEF Notify, TypeOK, CallRecord
<1>5. k \in CallId /\ call'[k] # call[k] => k # Nil
  BY DEF Notify
<1> HIDE DEF k
<1>6. WaitersWait'
  <2> SUFFICES ASSUME NEW j \in Node, NEW m \in Index, waitCh'[j][m] # Nil
               PROVE  LET h == call'[waitCh'[j][m]]
                      IN  h.phase = "waiting" /\ h.server = j /\ h.index = m /\ h.res = Nil
    BY DEF WaitersWait
  <2>1. waitCh'[j][m] = waitCh[j][m] /\ ~(j = i /\ m = n) /\ waitCh[j][m] \in CallId
    BY <1>1 DEF TypeOK
  <2>2. /\ call[waitCh[j][m]].phase = "waiting" /\ call[waitCh[j][m]].res = Nil
        /\ call[waitCh[j][m]].server = j /\ call[waitCh[j][m]].index = m
    BY <2>1 DEF WaitersWait
  <2>3. call'[waitCh[j][m]] = call[waitCh[j][m]]
    BY <1>2, <1>3, <1>5, <2>1, <2>2
  <2> QED
    BY <2>1, <2>2, <2>3
<1>7. CallsUnused'
  <2>1. \A h \in CallId : call'[h] # call[h] =>
           call'[h].phase = "waiting" /\ call[h].phase = "waiting"
    BY <1>2, <1>3, <1>4, <1>5
  <2>2. \A h \in CallId : call'[h].phase = "started" => call'[h].res = Nil
    BY <2>1 DEF CallsUnused
  <2>3. \A c \in Caller : \A a \in 1 .. MaxAttempts : a > attempt[c] => call'[<<c, a>>] = NoCall
    <3> SUFFICES ASSUME NEW c \in Caller, NEW a \in 1 .. MaxAttempts, a > attempt[c]
                 PROVE  call'[<<c, a>>] = NoCall
      OBVIOUS
    <3>1. <<c, a>> \in CallId /\ call[<<c, a>>] = NoCall
      BY DEF CallsUnused, CallId
    <3> QED
      BY <2>1, <3>1, NoCallType
  <2> QED
    BY <2>2, <2>3 DEF CallsUnused
<1> QED
  BY <1>6, <1>7

\* The handlers of a server end with its process, and its channels with them.
LEMMA RestartWaiters ==
    ASSUME TypeOK, WaitersInv, NEW i \in Node, Restart(i)
    PROVE  CallsUnused' /\ WaitersWait'
<1> USE DEF WaitersInv
<1>1. /\ waitCh' = [waitCh EXCEPT ![i] = [n \in Index |-> Nil]]
      /\ UNCHANGED attempt
      /\ \A h \in CallId :
            call'[h] = IF call[h].server = i /\ call[h].phase \in {"started", "waiting"}
                       THEN NoCall ELSE call[h]
  BY DEF Restart, callerVars
<1>2. CallsUnused'
  <2>1. \A h \in CallId : call'[h].phase = "started" => call'[h].res = Nil
    BY <1>1, NoCallType DEF CallsUnused
  <2>2. \A c \in Caller : \A a \in 1 .. MaxAttempts : a > attempt[c] => call'[<<c, a>>] = NoCall
    BY <1>1 DEF CallsUnused, CallId
  <2> QED
    BY <1>1, <2>1, <2>2 DEF CallsUnused
<1>3. WaitersWait'
  <2> SUFFICES ASSUME NEW j \in Node, NEW m \in Index, waitCh'[j][m] # Nil
               PROVE  LET h == call'[waitCh'[j][m]]
                      IN  h.phase = "waiting" /\ h.server = j /\ h.index = m /\ h.res = Nil
    BY DEF WaitersWait
  <2>1. j # i /\ waitCh'[j][m] = waitCh[j][m] /\ waitCh[j][m] \in CallId
    BY <1>1 DEF TypeOK
  <2>2. /\ call[waitCh[j][m]].phase = "waiting" /\ call[waitCh[j][m]].res = Nil
        /\ call[waitCh[j][m]].server = j /\ call[waitCh[j][m]].index = m
    BY <2>1 DEF WaitersWait
  <2> QED
    BY <1>1, <2>1, <2>2
<1> QED
  BY <1>2, <1>3

\* The steps of the log alone.
LEMMA LogUndisturbed ==
    ASSUME TypeOK, WaitersInv, UNCHANGED <<waitCh, call, attempt>>
    PROVE  CallsUnused' /\ WaitersWait'
  BY WaitersUndisturbed DEF WaitersInv, CallsUnused

LEMMA ServerStepWaiters ==
    ASSUME TypeOK, CallsInProgress, WaitersInv, NEW i \in Node, ServerStep(i)
    PROVE  CallsUnused' /\ WaitersWait'
<1>1. CASE Apply(i)
  <2>1. delivered[i] + 1 \in Index
    <3>1. /\ delivered[i] \in Nat /\ delivered[i] < Len(committed)
          /\ Len(committed) \in Nat /\ MaxIndex \in Nat
      BY <1>1, BoundsAssumption DEF Apply, R!Deliver, TypeOK, RaftTypes
    <3> QED
      BY <3>1 DEF WaitersInv, LogsFit, Index
  <2>2. UNCHANGED attempt
    BY <1>1 DEF Apply, callerVars
  <2> QED
    BY <1>1, <2>1, <2>2, NotifyWaiters DEF Apply
<1>2. CASE \E j \in Node : ApplySnapshot(i, j)
  BY <1>2, LogUndisturbed DEF ApplySnapshot, callerVars
<1>3. CASE Elect(i) \/ RaftStep(i)
  BY <1>3, LogUndisturbed DEF Elect, RaftStep, callerVars
<1>4. CASE Restart(i)
  BY <1>4, RestartWaiters
<1> QED
  BY <1>1, <1>2, <1>3, <1>4 DEF ServerStep

-----------------------------------------------------------------------------
(* The length of the logs. *)

LEMMA PrefixLength ==
    ASSUME NEW s \in Seq(Op), NEW n \in 0 .. Len(s)
    PROVE  Len(SubSeq(s, 1, n)) <= Len(s)
  OBVIOUS

\* A log grows where a handler calls Start, and is copied by all else.
LEMMA RaftFit ==
    ASSUME TypeOK, LogsFit,
           \/ UNCHANGED <<logs, offered, committed>>
           \/ \E i \in Node : R!Elect(i)
           \/ \E i \in Node, op \in Op : R!Propose(i, op) /\ Len(logs[i]) < MaxIndex
           \/ \E i, j \in Node : \E s \in offered[i] : R!Replicate(i, j, s)
           \/ \E i \in Node : \E n \in 1 .. Len(logs[i]) : R!Commit(i, n)
           \/ \E j \in Node : \E n \in Nat : R!Install(j, n)
    PROVE  LogsFit'
<1>1. MaxIndex \in Nat /\ Len(committed) \in Nat /\ \A i \in Node : Len(logs[i]) \in Nat
  BY BoundsAssumption DEF TypeOK, RaftTypes
<1>2. CASE UNCHANGED <<logs, offered, committed>>
  BY <1>2 DEF LogsFit
<1>3. ASSUME NEW i \in Node, NEW op \in Op, R!Propose(i, op), Len(logs[i]) < MaxIndex
      PROVE  LogsFit'
  <2>1. Len(Append(logs[i], op)) = Len(logs[i]) + 1
    BY DEF TypeOK, RaftTypes
  <2>2. Len(Append(logs[i], op)) <= MaxIndex
    BY <1>1, <1>3, <2>1
  <2>3. /\ logs \in [Node -> Seq(Op)] /\ offered \in [Node -> SUBSET Seq(Op)]
        /\ logs' = [logs EXCEPT ![i] = Append(@, op)] /\ UNCHANGED committed
        /\ offered' = [offered EXCEPT ![i] = @ \cup {logs'[i]}]
    BY <1>3 DEF R!Propose, TypeOK, RaftTypes
  <2>4. Len(logs'[i]) <= MaxIndex /\ \A j \in Node : Len(logs'[j]) <= MaxIndex
    BY <2>2, <2>3 DEF LogsFit
  <2> QED
    BY <2>3, <2>4 DEF LogsFit
<1>4. ASSUME NEW i \in Node, NEW j \in Node, NEW s \in offered[i], R!Replicate(i, j, s)
      PROVE  LogsFit'
  BY <1>4 DEF R!Replicate, LogsFit, TypeOK, RaftTypes
<1>5. ASSUME NEW i \in Node, NEW n \in 1 .. Len(logs[i]), R!Commit(i, n)
      PROVE  LogsFit'
  <2>1. Len(SubSeq(logs[i], 1, n)) <= Len(logs[i]) /\ Len(SubSeq(logs[i], 1, n)) \in Nat
    BY PrefixLength, PrefixType DEF TypeOK, RaftTypes
  <2>2. Len(SubSeq(logs[i], 1, n)) <= MaxIndex
    BY <1>1, <2>1 DEF LogsFit
  <2> QED
    BY <1>5, <2>2 DEF R!Commit, LogsFit
<1>6. ASSUME NEW j \in Node, NEW n \in Nat, R!Install(j, n)
      PROVE  LogsFit'
  <2>1. n \in 0 .. Len(committed)
    BY <1>6, <1>1 DEF R!Install
  <2>2. /\ Len(SubSeq(committed, 1, n)) <= Len(committed)
        /\ Len(SubSeq(committed, 1, n)) \in Nat
    BY <2>1, PrefixLength, PrefixType DEF TypeOK, RaftTypes
  <2>3. Len(SubSeq(committed, 1, n)) <= MaxIndex
    BY <1>1, <2>2 DEF LogsFit
  <2> QED
    BY <1>6, <2>3 DEF R!Install, LogsFit, TypeOK, RaftTypes
<1>7. ASSUME NEW i \in Node, R!Elect(i)
      PROVE  LogsFit'
  BY <1>7 DEF R!Elect, LogsFit, TypeOK, RaftTypes
<1> QED
  BY <1>2, <1>3, <1>4, <1>5, <1>6, <1>7

LEMMA StepFit ==
    ASSUME TypeOK, CallsInProgress, LogsFit, [Next]_vars
    PROVE  LogsFit'
<1>1. ASSUME NEW c \in Caller, ClerkStep(c) PROVE LogsFit'
  <2>1. UNCHANGED raftVars
    BY <1>1 DEF ClerkStep, BeginOp, Increment, MakeArgs, SendCall, Return, Retry, GiveUp
  <2> QED
    BY <2>1, RaftFit DEF raftVars
<1>2. ASSUME NEW k \in CallId, HandlerStep(k) PROVE LogsFit'
  <2>1. CASE HandleCall(k)
    <3>1. call[k].op \in Op /\ call[k].server \in Node
      BY <2>1 DEF HandleCall, CallsInProgress
    <3> QED
      BY <2>1, <3>1, RaftFit DEF HandleCall, raftVars
  <2>2. CASE Register(k) \/ ReceiveResult(k) \/ TimeOut(k)
    BY <2>2, RaftFit DEF Register, ReceiveResult, TimeOut, raftVars
  <2> QED
    BY <1>2, <2>1, <2>2 DEF HandlerStep
<1>3. ASSUME NEW i \in Node, ServerStep(i) PROVE LogsFit'
  <2>1. CASE Apply(i) \/ Elect(i) \/ Restart(i)
    BY <2>1, RaftFit DEF Apply, Elect, Restart, R!Deliver, R!Elect, R!Restart
  <2>2. ASSUME NEW j \in Node, ApplySnapshot(i, j) PROVE LogsFit'
    <3>1. snapshot[i].index \in Nat
      BY DEF TypeOK, ServerTypes, Snapshot
    <3> QED
      BY <2>2, <3>1, RaftFit DEF ApplySnapshot
  <2>3. CASE RaftStep(i)
    BY <2>3, RaftFit DEF RaftStep, R!StepDown
  <2> QED
    BY <1>3, <2>1, <2>2, <2>3 DEF ServerStep
<1>4. CASE UNCHANGED vars
  BY <1>4, RaftFit DEF vars, raftVars
<1> QED
  BY <1>1, <1>2, <1>3, <1>4 DEF Next

-----------------------------------------------------------------------------
LEMMA InitWaiters == Init => WaitersInv
<1> SUFFICES ASSUME Init PROVE WaitersInv
  OBVIOUS
<1>1. LogsFit
  BY BoundsAssumption DEF Init, R!Init, LogsFit
<1>2. CallsUnused
  BY NoCallType DEF Init, CallsUnused, CallId
<1>3. WaitersWait
  BY DEF Init, WaitersWait
<1> QED
  BY <1>1, <1>2, <1>3 DEF WaitersInv

LEMMA StepWaiters == ExecutionInv /\ WaitersInv /\ [Next]_vars => WaitersInv'
<1> SUFFICES ASSUME ExecutionInv, WaitersInv, [Next]_vars PROVE WaitersInv'
  OBVIOUS
<1> USE DEF ExecutionInv
<1>1. LogsFit'
  BY StepFit DEF WaitersInv
<1>2. CallsUnused' /\ WaitersWait'
  <2>1. ASSUME NEW c \in Caller, ClerkStep(c) PROVE CallsUnused' /\ WaitersWait'
    BY <2>1, ClerkStepWaiters
  <2>2. ASSUME NEW k \in CallId, HandlerStep(k) PROVE CallsUnused' /\ WaitersWait'
    BY <2>2, HandlerStepWaiters
  <2>3. ASSUME NEW i \in Node, ServerStep(i) PROVE CallsUnused' /\ WaitersWait'
    BY <2>3, ServerStepWaiters
  <2>4. CASE UNCHANGED vars
    BY <2>4, LogUndisturbed DEF vars, callerVars
  <2> QED
    BY <2>1, <2>2, <2>3, <2>4 DEF Next
<1> QED
  BY <1>1, <1>2 DEF WaitersInv

\* A channel in waitCh belongs to a handler that still waits for its first result: no
\* handler leaves it there when it returns, times out or ends with its process.
THEOREM WaitersStillWait == Spec => []WaitersWait
<1>1. Spec => []WaitersInv
  BY ExecutionInvariant, InitWaiters, StepWaiters, PTL DEF Spec
<1>2. WaitersInv => WaitersWait
  BY DEF WaitersInv
<1> QED
  BY <1>1, <1>2, PTL

-----------------------------------------------------------------------------
(* What the committed entries make of the blank state. *)

\* What holds of the state s that the first n entries of c make of the blank state.
Sound(s, c, n) ==
    /\ s \in Snapshot
    /\ InOrder(s.executed) /\ BoundedBy(s.executed, s.lastApplied)
    /\ \A p \in 1 .. Len(s.executed) :
           s.executed[p].type = "Put" /\ \E m \in 1 .. n : s.executed[p] = c[m]
    /\ \A k \in Clerk : s.lastApplied[k] > 0 =>
           \E p \in 1 .. Len(s.executed) : /\ s.executed[p].client = k
                                           /\ s.executed[p].request = s.lastApplied[k]
    /\ s.db = IF Len(s.executed) = 0 THEN Nil ELSE s.executed[Len(s.executed)].value

LEMMA BlankSound == ASSUME NEW c PROVE Sound(Blank, c, 0)
  BY DEF Sound, Blank, Snapshot, InOrder, BoundedBy

LEMMA IndexChange ==
    ASSUME NEW s \in Snapshot, NEW i \in Nat
    PROVE  [s EXCEPT !.index = i] = [index |-> i, db |-> s.db, lastApplied |-> s.lastApplied,
                                     executed |-> s.executed]
  BY DEF Snapshot

LEMMA AfterSound ==
    ASSUME NEW c \in Seq(Op), NEW n \in 1 .. Len(c), NEW s, Sound(s, c, n - 1)
    PROVE  Sound(After(s, c[n]), c, n)
<1> DEFINE op == c[n]
           t  == After(s, op)
           e  == s.executed
           la == s.lastApplied
<1>1. op \in Op /\ op.client \in Clerk /\ op.request \in Nat /\ op.value \in Value
  <2>1. c[n] \in Op
    OBVIOUS
  <2> QED
    BY <2>1 DEF Op
<1>2. /\ s \in Snapshot /\ e \in Seq(Op) /\ la \in [Clerk -> Nat] /\ s.index \in Nat
      /\ s.db \in Value \cup {Nil} /\ Len(e) \in Nat /\ la[op.client] \in Nat
  BY <1>1 DEF Sound, Snapshot
<1>3. \A p \in 1 .. Len(e) : e[p].type = "Put" /\ \E m \in 1 .. n : e[p] = c[m]
  <2>1. \A p \in 1 .. Len(e) : e[p].type = "Put" /\ \E m \in 1 .. n - 1 : e[p] = c[m]
    BY Zenon DEF Sound
  <2>2. \A m \in 1 .. n - 1 : m \in 1 .. n
    OBVIOUS
  <2> QED
    BY <2>1, <2>2, Zenon
<1>4. CASE op.type = "Put" /\ la[op.client] < op.request
  <2>1. t = [index |-> s.index + 1, db |-> op.value,
             lastApplied |-> [la EXCEPT ![op.client] = op.request], executed |-> Append(e, op)]
    BY <1>4 DEF After
  <2>2. /\ t.executed = Append(e, op) /\ t.db = op.value /\ t.index = s.index + 1
        /\ t.lastApplied = [la EXCEPT ![op.client] = op.request]
    BY <2>1
  <2>3. Append(e, op) \in Seq(Op) /\ [la EXCEPT ![op.client] = op.request] \in [Clerk -> Nat]
    BY <1>1, <1>2
  <2>4. t \in Snapshot
    BY <1>1, <1>2, <2>1, <2>3 DEF Snapshot
  <2>5. InOrder(e) /\ BoundedBy(e, la) /\ ~(la[op.client] >= op.request)
    BY <1>1, <1>2, <1>4 DEF Sound
  <2>6. InOrder(t.executed) /\ BoundedBy(t.executed, t.lastApplied)
    <3> HIDE DEF t, e, la, op
    <3>1. /\ InOrder(Append(e, op))
          /\ BoundedBy(Append(e, op), [la EXCEPT ![op.client] = op.request])
      BY <1>1, <1>2, <2>5, AppendInOrder
    <3> QED
      BY <2>2, <3>1
  <2>7. /\ Len(t.executed) = Len(e) + 1
        /\ t.executed[Len(e) + 1] = op
        /\ \A p \in 1 .. Len(e) : t.executed[p] = e[p]
    BY <1>2, <2>2
  <2>8. \A k \in Clerk : la[k] > 0 => \E p \in 1 .. Len(e) : e[p].client = k /\ e[p].request = la[k]
    BY DEF Sound
  <2> HIDE DEF t, e, la, op
  <2>9. \A p \in 1 .. Len(t.executed) : p \in 1 .. Len(e) \/ p = Len(e) + 1
    BY <1>2, <2>7
  <2>10. op = c[n] /\ n \in 1 .. n
    BY DEF op
  <2>11. \A p \in 1 .. Len(t.executed) :
           t.executed[p].type = "Put" /\ \E m \in 1 .. n : t.executed[p] = c[m]
    BY <1>3, <1>4, <2>7, <2>9, <2>10
  <2>12. ASSUME NEW k \in Clerk, t.lastApplied[k] > 0
         PROVE  \E p \in 1 .. Len(t.executed) : /\ t.executed[p].client = k
                                                /\ t.executed[p].request = t.lastApplied[k]
    <3>1. Len(e) + 1 \in 1 .. Len(t.executed) /\ \A p \in 1 .. Len(e) : p \in 1 .. Len(t.executed)
      BY <1>2, <2>7
    <3>2. CASE k = op.client
      BY <1>2, <2>2, <2>7, <2>12, <3>1, <3>2
    <3>3. CASE k # op.client
      <4>1. t.lastApplied[k] = la[k]
        BY <1>2, <2>2, <2>12, <3>3
      <4> QED
        BY <2>7, <2>8, <2>12, <3>1, <4>1
    <3> QED
      BY <3>2, <3>3
  <2>13. t.db = IF Len(t.executed) = 0 THEN Nil ELSE t.executed[Len(t.executed)].value
    BY <1>2, <2>2, <2>7
  <2>14. Sound(t, c, n)
    BY <2>4, <2>6, <2>11, <2>12, <2>13 DEF Sound
  <2> QED
    BY <2>14 DEF t, op
<1>5. CASE ~(op.type = "Put" /\ la[op.client] < op.request)
  <2>1. t = [s EXCEPT !.index = s.index + 1]
    BY <1>5 DEF After
  <2>2. /\ t = [index |-> s.index + 1, db |-> s.db, lastApplied |-> la, executed |-> e]
        /\ s.index + 1 \in Nat
    BY <1>2, <2>1, IndexChange
  <2>3. InOrder(e) /\ BoundedBy(e, la)
    BY DEF Sound
  <2>4. \A k \in Clerk : la[k] > 0 => \E p \in 1 .. Len(e) : e[p].client = k /\ e[p].request = la[k]
    BY DEF Sound
  <2>5. s.db = IF Len(e) = 0 THEN Nil ELSE e[Len(e)].value
    BY DEF Sound
  <2> DEFINE db0 == s.db
  <2>6. db0 \in Value \cup {Nil} /\ db0 = s.db
    BY <1>2
  <2> HIDE DEF t, op, e, la, db0
  <2>7. t \in Snapshot /\ t.db = db0 /\ t.lastApplied = la /\ t.executed = e
    BY <1>2, <2>2, <2>6 DEF Snapshot
  <2>8. Sound(t, c, n)
    BY <1>3, <2>3, <2>4, <2>5, <2>6, <2>7 DEF Sound
  <2> QED
    BY <2>8 DEF t, op
<1> QED
  BY <1>4, <1>5

LEMMA ReplaySound ==
    ASSUME committed \in Seq(Op)
    PROVE  \A n \in 0 .. Len(committed) : Sound(Replay[n], committed, n)
<1> DEFINE S == {n \in 0 .. Len(committed) : ~Sound(Replay[n], committed, n)}
<1> SUFFICES ASSUME S # {} PROVE FALSE
  OBVIOUS
<1>1. PICK n \in S : \A k \in S : n <= k
  <2>1. S \in SUBSET Nat
    OBVIOUS
  <2> HIDE DEF S
  <2> QED
    BY <2>1, Smallest
<1>2. n \in 0 .. Len(committed) /\ ~Sound(Replay[n], committed, n)
  BY <1>1
<1>3. Replay[n] = IF n = 0 THEN Blank ELSE After(Replay[n - 1], committed[n])
  BY <1>2, ReplayStep
<1>4. n # 0
  BY <1>2, <1>3, BlankSound
<1>5. n \in 1 .. Len(committed) /\ n - 1 \in 0 .. Len(committed) /\ n - 1 \notin S
  BY <1>1, <1>2, <1>4
<1>6. Sound(Replay[n - 1], committed, n - 1)
  BY <1>5
<1> QED
  BY <1>2, <1>3, <1>4, <1>5, <1>6, AfterSound

\* s begins with r.
Begins(r, s) == Len(r) <= Len(s) /\ \A p \in 1 .. Len(r) : s[p] = r[p]

\* What has been executed stays executed.
LEMMA ReplayExtends ==
    ASSUME committed \in Seq(Op), NEW m \in 0 .. Len(committed)
    PROVE  \A n \in m .. Len(committed) : Begins(Replay[m].executed, Replay[n].executed)
<1> DEFINE S == {n \in m .. Len(committed) : ~Begins(Replay[m].executed, Replay[n].executed)}
<1> SUFFICES ASSUME S # {} PROVE FALSE
  OBVIOUS
<1>1. PICK n \in S : \A k \in S : n <= k
  <2>1. S \in SUBSET Nat
    OBVIOUS
  <2> HIDE DEF S
  <2> QED
    BY <2>1, Smallest
<1>2. n \in m .. Len(committed) /\ ~Begins(Replay[m].executed, Replay[n].executed)
  BY <1>1
<1>3. n # m
  <2>1. Sound(Replay[m], committed, m)
    BY ReplaySound
  <2>2. Len(Replay[m].executed) \in Nat
    BY <2>1 DEF Sound, Snapshot
  <2> QED
    BY <1>2, <2>2 DEF Begins
<1>4. n \in 1 .. Len(committed) /\ n - 1 \in m .. Len(committed) /\ n - 1 \notin S
  BY <1>1, <1>2, <1>3
<1>5. Begins(Replay[m].executed, Replay[n - 1].executed)
  BY <1>4
<1>6. n - 1 \in 0 .. Len(committed) /\ n \in 0 .. Len(committed) /\ n # 0
  BY <1>4
<1> DEFINE s == Replay[n - 1]
           r == Replay[m].executed
<1>7. Replay[n] = After(s, committed[n])
  BY <1>6, ReplayStep
<1>8. Sound(s, committed, n - 1) /\ Sound(Replay[m], committed, m)
  BY <1>6, ReplaySound
<1>9. s \in Snapshot /\ s.executed \in Seq(Op) /\ r \in Seq(Op)
  BY <1>8 DEF Sound, Snapshot
<1> HIDE DEF S, s, r
<1>10. After(s, committed[n]).executed \in {s.executed, Append(s.executed, committed[n])}
  BY <1>9 DEF After, Snapshot
<1>11. Begins(r, s.executed)
  BY <1>5 DEF r, s
<1>12. \A q : Begins(r, Append(s.executed, q))
  BY <1>9, <1>11 DEF Begins
<1>13. Begins(r, Replay[n].executed)
  BY <1>7, <1>10, <1>11, <1>12
<1> QED
  BY <1>2, <1>13 DEF r

\* More entries, more values.
LEMMA ValuesGrow ==
    ASSUME committed \in Seq(Op), NEW m \in 0 .. Len(committed), NEW n \in m .. Len(committed)
    PROVE  ReplayedValues(m) \subseteq ReplayedValues(n)
<1>1. Begins(Replay[m].executed, Replay[n].executed)
  BY ReplayExtends
<1>2. Sound(Replay[m], committed, m) /\ Sound(Replay[n], committed, n)
  <2>1. n \in 0 .. Len(committed)
    OBVIOUS
  <2> QED
    BY <2>1, ReplaySound
<1>3. Len(Replay[m].executed) \in Nat /\ Len(Replay[n].executed) \in Nat
  BY <1>2 DEF Sound, Snapshot
<1> SUFFICES ASSUME NEW p \in 1 .. Len(Replay[m].executed)
             PROVE  Replay[m].executed[p].value \in ReplayedValues(n)
  BY DEF ReplayedValues
<1>4. p \in 1 .. Len(Replay[n].executed) /\ Replay[n].executed[p] = Replay[m].executed[p]
  BY <1>1, <1>3 DEF Begins
<1> QED
  BY <1>4, Zenon DEF ReplayedValues

-----------------------------------------------------------------------------
(* What stays as it is while the committed entries grow. *)

Grows ==
    /\ committed \in Seq(Op) /\ committed' \in Seq(Op)
    /\ Len(committed) <= Len(committed')
    /\ \A n \in 1 .. Len(committed) : committed'[n] = committed[n]

LEMMA SameGrows == ASSUME TypeOK, UNCHANGED committed PROVE Grows
  BY DEF TypeOK, RaftTypes, Grows

LEMMA ValuesGrowAll ==
    committed \in Seq(Op) =>
        \A m \in 0 .. Len(committed) : \A n \in m .. Len(committed) :
            ReplayedValues(m) \subseteq ReplayedValues(n)
  BY ValuesGrow

LEMMA ValuesKept ==
    ASSUME Grows, NEW n \in 0 .. Len(committed)
    PROVE  Replay'[n] = Replay[n] /\ ReplayedValues(n)' = ReplayedValues(n)
<1>1. Replay'[n] = Replay[n]
  BY ReplayKept DEF Grows
<1> QED
  BY <1>1 DEF ReplayedValues

\* What the committed entries have executed by now stays executed.
LEMMA ValuesLast ==
    ASSUME Grows
    PROVE  ReplayedValues(Len(committed)) \subseteq ReplayedValues(Len(committed))'
<1>1. PICK N \in Nat : N = Len(committed)
  BY DEF Grows
<1>2. PICK M \in Nat : M = Len(committed')
  BY DEF Grows
<1>3. N \in 0 .. M /\ M \in N .. M /\ N \in 0 .. N
  BY <1>1, <1>2 DEF Grows
<1>4. (committed \in Seq(Op) =>
          \A m \in 0 .. Len(committed) : \A n \in m .. Len(committed) :
              ReplayedValues(m) \subseteq ReplayedValues(n))'
  BY ValuesGrowAll, PTL
<1>5. ReplayedValues(N)' \subseteq ReplayedValues(M)'
  BY <1>2, <1>3, <1>4 DEF Grows
<1>6. ReplayedValues(N)' = ReplayedValues(N)
  BY <1>1, <1>3, ValuesKept
<1>7. ReplayedValues(Len(committed))' = ReplayedValues(M)'
  BY <1>2 DEF ReplayedValues
<1> QED
  BY <1>1, <1>5, <1>6, <1>7

LEMMA ShowsKept ==
    ASSUME Grows, NEW c \in Caller, NEW n \in 0 .. Len(committed), Shows(n, c),
           before'[c] = before[c]
    PROVE  Shows(n, c)'
  BY ValuesKept DEF Shows

\* What a call has found stays right while its caller waits.
LEMMA RightKept ==
    ASSUME Grows, NEW c \in Caller, NEW h, Right(c, h),
           before'[c] = before[c], opType'[c] = opType[c], OpOf(c)' = OpOf(c)
    PROVE  Right(c, h)'
<1>1. \A n \in 0 .. Len(committed) : n \in 0 .. Len(committed')
  BY DEF Grows
<1>2. ASSUME NEW n \in 0 .. Len(committed), Shows(n, c)
      PROVE  n \in 0 .. Len(committed') /\ Shows(n, c)' /\ Replay'[n].db = Replay[n].db
  BY <1>1, <1>2, ShowsKept, ValuesKept
<1>3. h.phase # "none" => h.op = OpOf(c)'
  BY DEF Right
<1>4. h.phase \in {"started", "waiting"} =>
          \E n \in 0 .. Len(committed') : n < h.index /\ Shows(n, c)'
  BY <1>2 DEF Right
<1>5. HasResult(h) =>
          IF opType'[c] = "Put" THEN OpOf(c)'.value \in ReplayedValues(Len(committed))'
          ELSE \E n \in 0 .. Len(committed') : h.res.value = Replay'[n].db /\ Shows(n, c)'
  <2>1. CASE opType[c] = "Put"
    BY <2>1, ValuesLast DEF Right
  <2>2. CASE opType[c] # "Put"
    BY <1>2, <2>2 DEF Right
  <2> QED
    BY <2>1, <2>2
<1> QED
  BY <1>3, <1>4, <1>5 DEF Right, HasResult

\* An operation that has begun, while no caller does anything.
LEMMA BegunKept ==
    ASSUME UNCHANGED callerVars, NEW op, Begun(op)
    PROVE  Begun(op)'
  BY DEF Begun, callerVars

-----------------------------------------------------------------------------
(* The Clerk's steps. *)

\* The calls of different callers are different.
LEMMA OtherCall ==
    ASSUME NEW c \in Caller, NEW d \in Caller, c # d, NEW a
    PROVE  CurrentCall(d) # <<c, a>>
  BY DEF CurrentCall

\* An operation that has begun, through a step of a caller: BeginOp starts another one
\* of a caller whose Puts have all returned.
LEMMA BegunWhileCalling ==
    ASSUME TypeOK, AnswersInv, NEW c \in Caller, ClerkStep(c), NEW op, Begun(op)
    PROVE  Begun(op)'
<1>1. PICK d \in Caller :
        /\ op.client = ClerkOf[d] /\ op.value = <<d, op.request>>
        /\ op.request \in 1 .. done[d]
        /\ op.request = done[d] => op.type = opType[d] /\ pc[d] \in {"idle", "ready", "waiting"}
        /\ op.type = "Put" /\ (op.request < done[d] \/ pc[d] = "idle") => op.value \in acked
  BY DEF Begun
<1>2. acked \subseteq acked'
  BY DEF ClerkStep, BeginOp, Increment, MakeArgs, SendCall, Return, Retry, GiveUp
<1>3. done[d] \in Nat /\ op.request \in Nat
  BY <1>1 DEF TypeOK, ClientTypes
<1>4. SUFFICES /\ op.request \in 1 .. done'[d]
               /\ op.request = done'[d] =>
                      op.type = opType'[d] /\ pc'[d] \in {"idle", "ready", "waiting"}
               /\ op.type = "Put" /\ (op.request < done'[d] \/ pc'[d] = "idle") =>
                      op.value \in acked'
  BY <1>1 DEF Begun
<1>5. CASE UNCHANGED <<done, opType>> /\ pc'[d] = pc[d]
  BY <1>1, <1>2, <1>5
<1>6. CASE d # c
  <2>1. done'[d] = done[d] /\ opType'[d] = opType[d] /\ pc'[d] = pc[d]
    BY <1>6
    DEF ClerkStep, BeginOp, Increment, MakeArgs, SendCall, Return, Retry, GiveUp, TypeOK,
        ClientTypes
  <2> QED
    BY <1>1, <1>2, <2>1
<1>7. CASE d = c /\ \E type \in Operations : BeginOp(c, type)
  <2>1. pc[d] = "idle" /\ done'[d] = done[d] + 1 /\ pc'[d] = "increment"
    BY <1>7 DEF BeginOp, TypeOK, ClientTypes
  <2> QED
    BY <1>1, <1>2, <1>3, <2>1
<1>8. CASE d = c /\ (Increment(c) \/ MakeArgs(c) \/ SendCall(c) \/ Retry(c) \/ GiveUp(c))
  <2>1. /\ done'[d] = done[d] /\ opType'[d] = opType[d]
        /\ pc[d] # "idle" /\ pc'[d] # "idle"
        /\ pc[d] \in {"ready", "waiting"} => pc'[d] \in {"ready", "waiting"}
    BY <1>8 DEF Increment, MakeArgs, SendCall, Retry, GiveUp, Answered, TypeOK, ClientTypes
  <2> QED
    BY <1>1, <1>2, <2>1
<1>9. CASE d = c /\ Return(c)
  <2>1. /\ done'[d] = done[d] /\ opType'[d] = opType[d] /\ pc'[d] = "idle"
        /\ acked' = acked \cup (IF opType[d] = "Put" THEN {OpOf(d).value} ELSE {})
    BY <1>9 DEF Return, TypeOK, ClientTypes
  <2>2. OpOf(d).value = <<d, done[d]>>
    BY DEF OpOf
  <2> QED
    BY <1>1, <1>3, <2>1, <2>2
<1> QED
  BY <1>6, <1>7, <1>8, <1>9 DEF ClerkStep

LEMMA CountedKept ==
    ASSUME TypeOK, Counted, StableService, NEW c \in Caller, ClerkStep(c)
    PROVE  Counted'
<1> SUFFICES ASSUME NEW d \in Caller
             PROVE  IF pc'[d] = "increment"
                    THEN request'[d] = reqId'[ClerkOf[d]] /\ reqId'[ClerkOf[d]] + 1 = done'[d]
                    ELSE /\ reqId'[ClerkOf[d]] = done'[d]
                         /\ pc'[d] \in {"ready", "waiting"} => request'[d] = done'[d]
  BY DEF Counted
<1>1. IF pc[d] = "increment"
      THEN request[d] = reqId[ClerkOf[d]] /\ reqId[ClerkOf[d]] + 1 = done[d]
      ELSE /\ reqId[ClerkOf[d]] = done[d]
           /\ pc[d] \in {"ready", "waiting"} => request[d] = done[d]
  BY DEF Counted
<1>2. ClerkOf[d] \in Clerk /\ ClerkOf[c] \in Clerk /\ (d # c => ClerkOf[d] # ClerkOf[c])
  BY ClerkOfType DEF StableService
<1>3. CASE d # c
  <2>1. /\ pc'[d] = pc[d] /\ request'[d] = request[d] /\ done'[d] = done[d]
        /\ reqId'[ClerkOf[d]] = reqId[ClerkOf[d]]
    BY <1>2, <1>3
    DEF ClerkStep, BeginOp, Increment, MakeArgs, SendCall, Return, Retry, GiveUp, TypeOK,
        ClientTypes, clerkVars
  <2> QED
    BY <1>1, <2>1
<1>4. CASE d = c
  <2>1. CASE \E type \in Operations : BeginOp(c, type)
    BY <1>1, <1>2, <1>4, <2>1 DEF BeginOp, TypeOK, ClientTypes, clerkVars
  <2>2. CASE Increment(c)
    BY <1>1, <1>2, <1>4, <2>2 DEF Increment, TypeOK, ClientTypes
  <2>3. CASE MakeArgs(c)
    BY <1>1, <1>2, <1>4, <2>3 DEF MakeArgs, TypeOK, ClientTypes, clerkVars
  <2>4. CASE SendCall(c)
    BY <1>1, <1>2, <1>4, <2>4 DEF SendCall, TypeOK, ClientTypes, clerkVars
  <2>5. CASE Return(c) \/ Retry(c) \/ GiveUp(c)
    BY <1>1, <1>2, <1>4, <2>5 DEF Return, Retry, GiveUp, Answered, TypeOK, ClientTypes, clerkVars
  <2> QED
    BY <2>1, <2>2, <2>3, <2>4, <2>5 DEF ClerkStep
<1> QED
  BY <1>3, <1>4

\* The operation that SendCall sends has begun.
LEMMA SentBegun ==
    ASSUME TypeOK, CallsInProgress, Counted, NEW c \in Caller, pc[c] \in {"ready", "waiting"}
    PROVE  Begun(OpOf(c))
<1>1. request[c] = done[c] /\ done[c] \in Nat /\ done[c] > 0
  BY DEF Counted, CallsInProgress, TypeOK, ClientTypes
<1>2. /\ OpOf(c).client = ClerkOf[c] /\ OpOf(c).value = <<c, done[c]>>
      /\ OpOf(c).request = done[c] /\ OpOf(c).type = opType[c]
  BY <1>1 DEF OpOf
<1>3. /\ OpOf(c).client = ClerkOf[c] /\ OpOf(c).value = <<c, OpOf(c).request>>
      /\ OpOf(c).request \in 1 .. done[c]
      /\ ~(OpOf(c).request < done[c])
  BY <1>1, <1>2
<1> QED
  BY <1>2, <1>3, Zenon DEF Begun

\* What a step of c does to the calls: it sends one, ends the current one, or neither.
LEMMA ClerkCalls ==
    ASSUME TypeOK, CallsInProgress, NEW c \in Caller, ClerkStep(c)
    PROVE  \A k \in CallId :
             \/ call'[k] = call[k]
             \/ k[1] = c /\ call'[k] = NoCall
             \/ /\ SendCall(c) /\ k = <<c, attempt[c] + 1>>
                /\ call'[k].phase = "sent" /\ call'[k].op = OpOf(c)
<1>1. CASE SendCall(c)
  BY <1>1 DEF SendCall, TypeOK
<1>2. CASE Return(c) \/ Retry(c)
  BY <1>2 DEF Return, Retry, CurrentCall, TypeOK
<1>3. CASE \E type \in Operations : BeginOp(c, type)
  BY <1>3 DEF BeginOp
<1>4. CASE Increment(c) \/ MakeArgs(c) \/ GiveUp(c)
  BY <1>4 DEF Increment, MakeArgs, GiveUp
<1> QED
  BY <1>1, <1>2, <1>3, <1>4 DEF ClerkStep

LEMMA ClerkAnswers ==
    ASSUME ExecutionInv, WaitersInv, AnswersInv, StableService, NEW c \in Caller, ClerkStep(c)
    PROVE  AnswersInv'
<1>1. TypeOK /\ CallsInProgress
  BY DEF ExecutionInv
<1>2. UNCHANGED <<leaders, logs, offered, committed, elections>>
  BY DEF ClerkStep, BeginOp, Increment, MakeArgs, SendCall, Return, Retry, GiveUp, raftVars,
         boundVars
<1>3. Grows
  BY <1>1, <1>2, SameGrows
<1>4. NoCall.phase = "none"
  BY NoCallType
<1>5. OneLeader'
  BY <1>2 DEF AnswersInv, OneLeader
<1>6. CallsInLog'
  <2>1. \A k \in CallId : call'[k].phase \in {"started", "waiting"} => call'[k] = call[k]
    BY <1>1, <1>4, ClerkCalls
  <2> QED
    BY <1>2, <2>1 DEF AnswersInv, CallsInLog
<1>7. Counted'
  BY <1>1, CountedKept DEF AnswersInv
<1>8. OperationsBegun'
  <2>1. \A op : Begun(op) => Begun(op)'
    BY <1>1, BegunWhileCalling
  <2>2. SendCall(c) => Begun(OpOf(c))
    BY <1>1, SentBegun DEF SendCall, AnswersInv
  <2>3. ASSUME NEW k \in CallId, call'[k].phase # "none"
        PROVE  Begun(call[k].op)'
    <3>1. PICK op : op = call'[k].op
      OBVIOUS
    <3>2. Begun(op)
      BY <1>1, <1>4, <2>2, <2>3, <3>1, ClerkCalls DEF AnswersInv, OperationsBegun
    <3>3. Begun(op)'
      BY <2>1, <3>2
    <3> QED
      BY <3>1, <3>3 DEF Begun
  <2>4. ASSUME NEW i \in Node, NEW n \in 1 .. Len(logs[i]) PROVE Begun(logs[i][n])'
    <3>1. PICK op : op = logs[i][n]
      OBVIOUS
    <3>2. Begun(op)'
      BY <2>1, <3>1 DEF AnswersInv, OperationsBegun
    <3> QED
      BY <1>2, <3>1, <3>2 DEF Begun
  <2>5. ASSUME NEW n \in 1 .. Len(committed) PROVE Begun(committed[n])'
    <3>1. PICK op : op = committed[n]
      OBVIOUS
    <3>2. Begun(op)'
      BY <2>1, <3>1 DEF AnswersInv, OperationsBegun
    <3> QED
      BY <1>2, <3>1, <3>2 DEF Begun
  <2>6. ASSUME NEW i \in Node, NEW s \in offered[i], NEW n \in 1 .. Len(s) PROVE Begun(s[n])'
    <3>1. PICK op : op = s[n]
      OBVIOUS
    <3>2. Begun(op)'
      BY <2>1, <3>1 DEF AnswersInv, OperationsBegun
    <3> QED
      BY <3>1, <3>2 DEF Begun
  <2> QED
    BY <1>2, <2>3, <2>4, <2>5, <2>6 DEF OperationsBegun
<1>9. \A d \in Caller : before'[d] \subseteq acked'
  BY <1>1
  DEF AnswersInv, ClerkStep, BeginOp, Increment, MakeArgs, SendCall, Return, Retry, GiveUp,
      TypeOK, ClientTypes
<1>10. ASSUME NEW d \in Caller, pc'[d] = "waiting"
       PROVE  Right(d, call[CurrentCall(d)])'
  <2>1. PICK h : h = call'[CurrentCall(d)']
    OBVIOUS
  <2>2. SUFFICES Right(d, h)'
    BY <2>1 DEF Right, HasResult
  <2>3. CASE SendCall(c) /\ d = c
    <3>1. /\ CurrentCall(d)' = <<c, attempt[c] + 1>>
          /\ OpOf(d)' = OpOf(c)
      BY <1>1, <2>3 DEF SendCall, CurrentCall, OpOf, TypeOK, ClientTypes
    <3>2. <<c, attempt[c] + 1>> \in CallId
      BY <1>1, <2>3, BoundsAssumption DEF SendCall, CallId, TypeOK, ClientTypes
    <3>3. h.phase = "sent" /\ h.op = OpOf(d)'
      BY <1>1, <2>1, <2>3, <3>1, <3>2 DEF SendCall, TypeOK
    <3> QED
      BY <3>3 DEF Right, HasResult
  <2>4. CASE ~(SendCall(c) /\ d = c)
    <3>1. /\ pc[d] = "waiting" /\ attempt'[d] = attempt[d]
          /\ before'[d] = before[d] /\ opType'[d] = opType[d]
          /\ done'[d] = done[d] /\ request'[d] = request[d]
      BY <1>1, <2>4, <1>10
      DEF ClerkStep, BeginOp, Increment, MakeArgs, SendCall, Return, Retry, GiveUp, TypeOK,
          ClientTypes
    <3>2. OpOf(d)' = OpOf(d) /\ CurrentCall(d)' = CurrentCall(d)
      BY <3>1 DEF OpOf, CurrentCall
    <3>3. CurrentCall(d) \in CallId
      BY <1>1, <3>1, CurrentCallType
    <3>4. call'[CurrentCall(d)] = call[CurrentCall(d)]
      <4>1. CASE d # c
        <5>1. CurrentCall(d)[1] # c
          BY <4>1 DEF CurrentCall
        <5>2. CurrentCall(d) # <<c, attempt[c] + 1>>
          BY <4>1, OtherCall
        <5> QED
          BY <1>1, <3>3, <5>1, <5>2, ClerkCalls
      <4>2. CASE d = c
        <5>1. UNCHANGED call
          BY <1>1, <1>10, <2>4, <4>2
          DEF ClerkStep, BeginOp, Increment, MakeArgs, Return, Retry, GiveUp, TypeOK, ClientTypes
        <5> QED
          BY <5>1
      <4> QED
        BY <4>1, <4>2
    <3>5. Right(d, h)
      BY <2>1, <3>1, <3>2, <3>4 DEF AnswersInv
    <3> QED
      BY <1>3, <3>1, <3>2, <3>5, RightKept
  <2> QED
    BY <2>3, <2>4
<1>11. AcknowledgedPut'
  <2>1. ReplayedValues(Len(committed)) \subseteq ReplayedValues(Len(committed))'
    BY <1>3, ValuesLast
  <2>2. acked' \subseteq ReplayedValues(Len(committed))
    <3>1. CASE Return(c)
      <4>1. pc[c] = "waiting" /\ HasResult(call[CurrentCall(c)])
        BY <3>1 DEF Return, Answered, HasResult
      <4>2. opType[c] = "Put" => OpOf(c).value \in ReplayedValues(Len(committed))
        BY <4>1 DEF AnswersInv, Right
      <4>3. acked' = acked \cup (IF opType[c] = "Put" THEN {OpOf(c).value} ELSE {})
        BY <3>1 DEF Return
      <4> QED
        BY <4>2, <4>3 DEF AnswersInv, AcknowledgedPut
    <3>2. CASE ~Return(c)
      BY <3>2
      DEF AnswersInv, AcknowledgedPut, ClerkStep, BeginOp, Increment, MakeArgs, SendCall, Retry,
          GiveUp
    <3> QED
      BY <3>1, <3>2
  <2> QED
    BY <2>1, <2>2 DEF AcknowledgedPut
<1> QED
  BY <1>5, <1>6, <1>7, <1>8, <1>9, <1>10, <1>11 DEF AnswersInv

-----------------------------------------------------------------------------
(* The servers' steps. *)

\* A step that no caller takes: the callers' operations stay as they are.
LEMMA ServedAnswers ==
    ASSUME AnswersInv, Grows, UNCHANGED <<clerkVars, callerVars>>, OneLeader', CallsInLog',
           \A k \in CallId : call'[k].phase # "none" =>
               call[k].phase # "none" /\ call'[k].op = call[k].op,
           \A i \in Node : \A n \in 1 .. Len(logs'[i]) : Begun(logs'[i][n]),
           \A i \in Node : \A s \in offered'[i] : s \in offered[i] \/ \E j \in Node : s = logs'[j],
           \A n \in 1 .. Len(committed') : Begun(committed'[n]),
           \A d \in Caller : pc[d] = "waiting" => Right(d, call'[CurrentCall(d)])
    PROVE  AnswersInv'
<1>1. \A op : Begun(op) => Begun(op)'
  BY BegunKept
<1>2. OperationsBegun'
  <2>1. ASSUME NEW k \in CallId, call'[k].phase # "none" PROVE Begun(call[k].op)'
    <3>1. PICK op : op = call'[k].op
      OBVIOUS
    <3>2. Begun(op)'
      BY <1>1, <2>1, <3>1 DEF AnswersInv, OperationsBegun
    <3> QED
      BY <3>1, <3>2 DEF Begun
  <2>2. ASSUME NEW i \in Node, NEW n \in 1 .. Len(logs'[i]) PROVE Begun(logs[i][n])'
    <3>1. PICK op : op = logs'[i][n]
      OBVIOUS
    <3>2. Begun(op)'
      BY <1>1, <3>1
    <3> QED
      BY <3>1, <3>2 DEF Begun
  <2>3. ASSUME NEW n \in 1 .. Len(committed') PROVE Begun(committed[n])'
    <3>1. PICK op : op = committed'[n]
      OBVIOUS
    <3>2. Begun(op)'
      BY <1>1, <3>1
    <3> QED
      BY <3>1, <3>2 DEF Begun
  <2>4. ASSUME NEW i \in Node, NEW s \in offered'[i], NEW n \in 1 .. Len(s) PROVE Begun(s[n])'
    <3>1. PICK op : op = s[n]
      OBVIOUS
    <3>2. Begun(op)
      BY <3>1 DEF AnswersInv, OperationsBegun
    <3>3. Begun(op)'
      BY <1>1, <3>2
    <3> QED
      BY <3>1, <3>3 DEF Begun
  <2> QED
    BY <2>1, <2>2, <2>3, <2>4 DEF OperationsBegun
<1>3. ASSUME NEW d \in Caller, pc'[d] = "waiting" PROVE Right(d, call[CurrentCall(d)])'
  <2>1. CurrentCall(d)' = CurrentCall(d) /\ OpOf(d)' = OpOf(d) /\ pc[d] = "waiting"
    BY <1>3 DEF CurrentCall, OpOf, callerVars
  <2>2. PICK h : h = call'[CurrentCall(d)]
    OBVIOUS
  <2>3. Right(d, h)
    BY <2>1, <2>2
  <2>4. Right(d, h)'
    BY <2>1, <2>3, RightKept DEF callerVars
  <2> QED
    BY <2>1, <2>2, <2>4 DEF Right, HasResult
<1>4. AcknowledgedPut'
  BY ValuesLast DEF AnswersInv, AcknowledgedPut, callerVars
<1>5. Counted' /\ \A c \in Caller : before'[c] \subseteq acked'
  BY DEF AnswersInv, Counted, callerVars, clerkVars
<1> QED
  BY <1>2, <1>3, <1>4, <1>5 DEF AnswersInv

\* A reply to a call has the call's operation, or goes to nobody.
LEMMA ReplyRight ==
    ASSUME NEW d \in Caller, NEW k \in CallId, NEW res, Right(d, call[k]),
           call[k].phase # "none",
           ~Success(res) \/ (HasResult(call[k]) /\ res = call[k].res)
    PROVE  Right(d, Reply(k, res))
<1>1. /\ Reply(k, res) = NoCall
      \/ /\ Reply(k, res).phase = "replied"
         /\ Reply(k, res).op = call[k].op
         /\ Reply(k, res).res = res
  BY DEF Reply
<1>2. NoCall.phase = "none"
  BY NoCallType
<1>3. CASE Reply(k, res) = NoCall
  BY <1>2, <1>3 DEF Right, HasResult
<1>4. CASE /\ Reply(k, res).phase = "replied"
           /\ Reply(k, res).op = call[k].op
           /\ Reply(k, res).res = res
  BY <1>4 DEF Right, HasResult
<1> QED
  BY <1>1, <1>3, <1>4

LEMMA ReplyPhase ==
    ASSUME NEW k \in CallId, NEW res
    PROVE  /\ Reply(k, res).phase \in {"none", "replied"}
           /\ Reply(k, res).phase # "none" => Reply(k, res).op = call[k].op
  BY NoCallType DEF Reply

\* A step of the handler of k that gives its record the value r.
LEMMA CallAnswers ==
    ASSUME ExecutionInv, AnswersInv, NEW k \in CallId, NEW r,
           call[k].phase # "none", call' = [call EXCEPT ![k] = r],
           r.phase # "none" => r.op = call[k].op,
           UNCHANGED <<committed, leaders, elections, clerkVars, callerVars>>,
           OneLeader', \A i \in Node : offered[i] # {} => offered'[i] # {},
           \A i \in Node : \A s \in offered'[i] : s \in offered[i] \/ \E j \in Node : s = logs'[j],
           \A i \in Node : \A n \in 1 .. Len(logs[i]) :
               n \in 1 .. Len(logs'[i]) /\ logs'[i][n] = logs[i][n],
           \A i \in Node : \A n \in 1 .. Len(logs'[i]) :
               n \in 1 .. Len(logs[i]) \/ logs'[i][n] = call[k].op,
           r.phase \in {"started", "waiting"} =>
               /\ r.server \in Node /\ offered[r.server] # {}
               /\ r.index \in 1 .. Len(logs'[r.server])
               /\ logs'[r.server][r.index] = r.op,
           \A d \in Caller : pc[d] = "waiting" /\ k = CurrentCall(d) => Right(d, r)
    PROVE  AnswersInv'
<1>1. TypeOK /\ CallsInProgress
  BY DEF ExecutionInv
<1>2. \A h \in CallId : call'[h] = IF h = k THEN r ELSE call[h]
  BY <1>1 DEF TypeOK
<1>3. Grows
  BY <1>1, SameGrows
<1>4. CallsInLog'
  <2> SUFFICES ASSUME NEW h \in CallId, call'[h].phase \in {"started", "waiting"}
               PROVE  /\ offered'[call'[h].server] # {}
                      /\ call'[h].index \in 1 .. Len(logs'[call'[h].server])
                      /\ logs'[call'[h].server][call'[h].index] = call'[h].op
    BY DEF CallsInLog
  <2>1. CASE h = k
    BY <1>2, <2>1
  <2>2. CASE h # k
    <3>1. call'[h] = call[h] /\ call[h].server \in Node
      BY <1>1, <1>2, <2>2 DEF CallsInProgress
    <3>2. /\ offered[call[h].server] # {}
          /\ call[h].index \in 1 .. Len(logs[call[h].server])
          /\ logs[call[h].server][call[h].index] = call[h].op
      BY <3>1 DEF AnswersInv, CallsInLog
    <3> QED
      BY <3>1, <3>2
  <2> QED
    BY <2>1, <2>2
<1>5. \A h \in CallId : call'[h].phase # "none" =>
          call[h].phase # "none" /\ call'[h].op = call[h].op
  BY <1>2
<1>6. \A i \in Node : \A n \in 1 .. Len(logs'[i]) : Begun(logs'[i][n])
  <2>1. Begun(call[k].op)
    BY DEF AnswersInv, OperationsBegun
  <2> SUFFICES ASSUME NEW i \in Node, NEW n \in 1 .. Len(logs'[i]) PROVE Begun(logs'[i][n])
    OBVIOUS
  <2>2. CASE n \in 1 .. Len(logs[i])
    BY <2>2 DEF AnswersInv, OperationsBegun
  <2>3. CASE n \notin 1 .. Len(logs[i])
    BY <2>1, <2>3
  <2> QED
    BY <2>2, <2>3
<1>7. \A n \in 1 .. Len(committed') : Begun(committed'[n])
  BY DEF AnswersInv, OperationsBegun
<1>8. ASSUME NEW d \in Caller, pc[d] = "waiting" PROVE Right(d, call'[CurrentCall(d)])
  <2>1. CurrentCall(d) \in CallId
    BY <1>1, <1>8, CurrentCallType
  <2>2. Right(d, call[CurrentCall(d)])
    BY <1>8 DEF AnswersInv
  <2> QED
    BY <1>2, <1>8, <2>1, <2>2
<1> QED
  BY <1>3, <1>4, <1>5, <1>6, <1>7, <1>8, ServedAnswers

LEMMA HandlerAnswers ==
    ASSUME ExecutionInv, WaitersInv, AnswersInv, NEW k \in CallId, HandlerStep(k)
    PROVE  AnswersInv'
<1>1. TypeOK /\ CallsInProgress /\ CallsUnused
  BY DEF ExecutionInv, WaitersInv
<1>2. /\ UNCHANGED <<committed, leaders, elections, clerkVars, callerVars>>
      /\ call[k].phase # "none"
  BY DEF HandlerStep, HandleCall, Register, ReceiveResult, TimeOut, R!Propose, raftVars, boundVars
<1>3. ASSUME NEW res, call' = [call EXCEPT ![k] = Reply(k, res)], UNCHANGED <<logs, offered>>,
             ~Success(res) \/ (HasResult(call[k]) /\ res = call[k].res)
      PROVE  AnswersInv'
  <2> DEFINE r == Reply(k, res)
  <2>1. r.phase \in {"none", "replied"} /\ (r.phase # "none" => r.op = call[k].op)
    BY ReplyPhase
  <2>2. \A d \in Caller : pc[d] = "waiting" /\ k = CurrentCall(d) => Right(d, r)
    BY <1>2, <1>3, ReplyRight DEF AnswersInv
  <2>3. OneLeader'
    BY <1>2, <1>3 DEF AnswersInv, OneLeader
  <2>4. /\ \A i \in Node : \A n \in 1 .. Len(logs[i]) :
             n \in 1 .. Len(logs'[i]) /\ logs'[i][n] = logs[i][n]
        /\ \A i \in Node : \A n \in 1 .. Len(logs'[i]) :
             n \in 1 .. Len(logs[i]) \/ logs'[i][n] = call[k].op
        /\ \A i \in Node : offered'[i] = offered[i]
    BY <1>3
  <2>5. call' = [call EXCEPT ![k] = r]
    BY <1>3
  <2> HIDE DEF r
  <2> QED
    BY <1>2, <2>1, <2>2, <2>3, <2>4, <2>5, CallAnswers
<1>4. CASE HandleCall(k)
  <2> DEFINE i == call[k].server
  <2>1. CASE call' = [call EXCEPT ![k] = Reply(k, Error("ErrWrongLeader"))] /\ UNCHANGED raftVars
    <3>1. ~Success(Error("ErrWrongLeader"))
      BY DEF Success, Error
    <3> QED
      BY <1>3, <2>1, <3>1 DEF raftVars
  <2>2. CASE /\ R!Propose(i, call[k].op)
             /\ call' = [call EXCEPT ![k] = [phase |-> "started", server |-> i,
                                             op |-> call[k].op, index |-> Len(logs[i]) + 1,
                                             res |-> Nil]]
    <3> DEFINE r == [phase |-> "started", server |-> i, op |-> call[k].op,
                     index |-> Len(logs[i]) + 1, res |-> Nil]
    <3>1. /\ r.phase = "started" /\ r.server = i /\ r.op = call[k].op
          /\ r.index = Len(logs[i]) + 1 /\ r.res = Nil
      OBVIOUS
    <3>2. call' = [call EXCEPT ![k] = r]
      BY <2>2
    <3>3. /\ i \in leaders /\ i \in Node /\ logs' = [logs EXCEPT ![i] = Append(@, call[k].op)]
          /\ offered' = [offered EXCEPT ![i] = @ \cup {logs'[i]}]
      BY <1>1, <1>4, <2>2 DEF R!Propose, HandleCall, CallsInProgress
    <3>4. call[k].op \in Op
      BY <1>1, <1>4 DEF HandleCall, CallsInProgress
    <3> HIDE DEF r, i
    <3>5. \A j \in Node : logs[j] \in Seq(Op) /\ Len(logs[j]) \in Nat
      BY <1>1 DEF TypeOK, RaftTypes
    <3>6. \A j \in Node : logs'[j] = IF j = i THEN Append(logs[i], call[k].op) ELSE logs[j]
      BY <1>1, <3>3 DEF TypeOK, RaftTypes
    <3>7. /\ Len(logs'[i]) = Len(logs[i]) + 1
          /\ logs'[i][Len(logs[i]) + 1] = call[k].op
          /\ \A n \in 1 .. Len(logs[i]) : logs'[i][n] = logs[i][n]
      <4>1. PICK log \in Seq(Op) : log = logs[i]
        BY <3>3, <3>5
      <4>2. PICK op \in Op : op = call[k].op
        BY <3>4
      <4>3. /\ Len(Append(log, op)) = Len(log) + 1
            /\ Append(log, op)[Len(log) + 1] = op
            /\ \A n \in 1 .. Len(log) : Append(log, op)[n] = log[n]
        OBVIOUS
      <4> QED
        BY <3>3, <3>6, <4>1, <4>2, <4>3
    <3>8. \A j \in Node : \A n \in 1 .. Len(logs[j]) :
             n \in 1 .. Len(logs'[j]) /\ logs'[j][n] = logs[j][n]
      BY <3>3, <3>5, <3>6, <3>7
    <3>9. \A j \in Node : \A n \in 1 .. Len(logs'[j]) :
             n \in 1 .. Len(logs[j]) \/ logs'[j][n] = call[k].op
      BY <3>3, <3>5, <3>6, <3>7
    <3>10. /\ leaders \subseteq {i} /\ offered[i] # {} /\ Len(committed) <= Len(logs[i])
           /\ \A j \in Node : offered[j] # {} => j = i
           /\ leaders \subseteq Node
      BY <1>1, <3>3 DEF AnswersInv, OneLeader, TypeOK, RaftTypes
    <3>15. \A j \in Node : offered'[j] = IF j = i THEN offered[i] \cup {logs'[i]} ELSE offered[j]
      BY <1>1, <3>3 DEF TypeOK, RaftTypes
    <3>16. /\ \A j \in Node : offered'[j] # {} <=> offered[j] # {}
           /\ \A j \in Node : \A s \in offered'[j] :
                 s \in offered[j] \/ \E h \in Node : s = logs'[h]
      BY <3>3, <3>10, <3>15
    <3>11. Len(committed) \in Nat
      BY <1>1 DEF TypeOK, RaftTypes
    <3>12. OneLeader'
      <4>1. \A j \in leaders : Len(committed) <= Len(logs'[j])
        BY <3>3, <3>5, <3>7, <3>10, <3>11
      <4> QED
        BY <1>2, <3>10, <3>16, <4>1 DEF AnswersInv, OneLeader
    <3>13. ASSUME NEW d \in Caller, pc[d] = "waiting", k = CurrentCall(d) PROVE Right(d, r)
      <4>1. Right(d, call[k])
        BY <3>13 DEF AnswersInv
      <4>2. r.op = OpOf(d)
        BY <1>2, <3>1, <4>1 DEF Right
      <4>3. Shows(Len(committed), d)
        BY DEF AnswersInv, AcknowledgedPut, Shows
      <4>4. Len(committed) \in 0 .. Len(committed) /\ Len(committed) < r.index
        BY <3>1, <3>3, <3>5, <3>10, <3>11
      <4> QED
        BY <3>1, <4>2, <4>3, <4>4 DEF Right, HasResult
    <3>14. r.server \in Node /\ r.index \in 1 .. Len(logs'[r.server])
           /\ logs'[r.server][r.index] = r.op
      BY <3>1, <3>3, <3>5, <3>7
    <3> QED
      BY <1>2, <3>1, <3>2, <3>8, <3>9, <3>10, <3>12, <3>13, <3>14, <3>16, CallAnswers
  <2> QED
    BY <1>4, <2>1, <2>2 DEF HandleCall
<1>5. CASE Register(k)
  <2>1. /\ call[k].phase = "started" /\ call' = [call EXCEPT ![k].phase = "waiting"]
        /\ UNCHANGED <<logs, offered>>
    BY <1>5 DEF Register, raftVars
  <2>2. PICK r : r = [call[k] EXCEPT !.phase = "waiting"]
    OBVIOUS
  <2>3. call[k] \in CallRecord
    BY <1>1 DEF TypeOK
  <2>4. /\ r.phase = "waiting" /\ r.op = call[k].op /\ r.server = call[k].server
        /\ r.index = call[k].index /\ r.res = call[k].res
    BY <2>2, <2>3 DEF CallRecord
  <2>5. call' = [call EXCEPT ![k] = r]
    BY <1>1, <2>1, <2>2 DEF TypeOK
  <2>6. call[k].res = Nil /\ call[k].server \in Node
    BY <1>1, <2>1 DEF CallsUnused, CallsInProgress
  <2>7. OneLeader'
    BY <1>2, <2>1 DEF AnswersInv, OneLeader
  <2>8. /\ offered[r.server] # {}
        /\ r.index \in 1 .. Len(logs[r.server])
        /\ logs[r.server][r.index] = r.op
    BY <2>1, <2>4 DEF AnswersInv, CallsInLog
  <2>9. ASSUME NEW d \in Caller, pc[d] = "waiting", k = CurrentCall(d) PROVE Right(d, r)
    <3>1. Right(d, call[k])
      BY <2>9 DEF AnswersInv
    <3> QED
      BY <2>1, <2>4, <2>6, <3>1 DEF Right, HasResult
  <2>10. /\ \A i \in Node : \A n \in 1 .. Len(logs[i]) :
              n \in 1 .. Len(logs'[i]) /\ logs'[i][n] = logs[i][n]
         /\ \A i \in Node : \A n \in 1 .. Len(logs'[i]) :
              n \in 1 .. Len(logs[i]) \/ logs'[i][n] = call[k].op
         /\ r.index \in 1 .. Len(logs'[r.server]) /\ logs'[r.server][r.index] = r.op
         /\ \A i \in Node : offered'[i] = offered[i]
    BY <2>1, <2>8
  <2> QED
    BY <1>2, <2>4, <2>5, <2>6, <2>7, <2>8, <2>9, <2>10, CallAnswers
<1>6. CASE ReceiveResult(k)
  <2>1. /\ call' = [call EXCEPT ![k] = Reply(k, call[k].res)]
        /\ UNCHANGED <<logs, offered>>
        /\ HasResult(call[k])
    BY <1>6 DEF ReceiveResult, HasResult, raftVars
  <2> QED
    BY <1>3, <2>1
<1>7. CASE TimeOut(k)
  <2>1. ~Success(Error("ErrTimeout"))
    BY DEF Success, Error
  <2> QED
    BY <1>3, <1>7, <2>1 DEF TimeOut, raftVars
<1> QED
  BY <1>4, <1>5, <1>6, <1>7 DEF HandlerStep

\* Two Puts with the same number are the same Put, and have the same value.
LEMMA SameRequest ==
    ASSUME TypeOK, StableService, NEW op \in Op, NEW q \in Op, Begun(op), Begun(q),
           q.client = op.client, q.request >= op.request, op.type = "Put", op.value \notin acked
    PROVE  q.value = op.value
<1>1. PICK c \in Caller :
        /\ op.client = ClerkOf[c] /\ op.value = <<c, op.request>>
        /\ op.type = "Put" /\ (op.request < done[c] \/ pc[c] = "idle") => op.value \in acked
  BY DEF Begun
<1>2. PICK d \in Caller :
        q.client = ClerkOf[d] /\ q.value = <<d, q.request>> /\ q.request \in 1 .. done[d]
  BY DEF Begun
<1>3. d = c
  BY <1>1, <1>2 DEF StableService
<1>4. op.request \in Nat /\ q.request \in Nat /\ done[c] \in Nat
  BY DEF Op, TypeOK, ClientTypes
<1>5. q.request = op.request
  BY <1>1, <1>2, <1>3, <1>4
<1> QED
  BY <1>1, <1>2, <1>3, <1>5

\* A Put at a committed index is executed there or before, or has returned.
LEMMA PutExecuted ==
    ASSUME TypeOK, AnswersInv, StableService,
           NEW n \in 1 .. Len(committed), committed[n].type = "Put"
    PROVE  committed[n].value \in ReplayedValues(Len(committed))
<1> DEFINE op == committed[n]
           s  == Replay[n - 1]
<1>1. committed \in Seq(Op) /\ Len(committed) \in Nat /\ op \in Op
  BY DEF TypeOK, RaftTypes
<1>2. n \in 0 .. Len(committed) /\ n # 0 /\ n - 1 \in 0 .. Len(committed)
  BY <1>1
<1>3. Replay[n] = After(s, op)
  BY <1>1, <1>2, ReplayStep
<1>4. Sound(s, committed, n - 1)
  BY <1>1, <1>2, ReplaySound
<1>5. s.executed \in Seq(Op) /\ s.lastApplied \in [Clerk -> Nat]
  BY <1>4 DEF Sound, Snapshot
<1>6. ReplayedValues(n) \subseteq ReplayedValues(Len(committed))
  BY <1>1, <1>2, ValuesGrow
<1>7. ReplayedValues(n - 1) \subseteq ReplayedValues(Len(committed))
  BY <1>1, <1>2, ValuesGrow
<1>8. op.client \in Clerk /\ op.request \in Nat
  BY <1>1 DEF Op
<1>9. op.type = "Put" /\ Begun(op)
  BY DEF AnswersInv, OperationsBegun
<1>10. \A m \in 1 .. Len(committed) : committed[m] \in Op /\ Begun(committed[m])
  BY <1>1 DEF AnswersInv, OperationsBegun
<1> HIDE DEF op, s
<1>11. CASE s.lastApplied[op.client] < op.request
  <2>1. Replay[n].executed = Append(s.executed, op)
    BY <1>3, <1>9, <1>11 DEF After
  <2>2. PICK e \in Seq(Op) : e = s.executed
    BY <1>5
  <2>3. /\ Len(Append(e, op)) = Len(e) + 1
        /\ Append(e, op)[Len(e) + 1] = op
        /\ Len(e) + 1 \in 1 .. Len(e) + 1
    BY <1>1 DEF op
  <2>4. op.value \in ReplayedValues(n)
    BY <2>1, <2>2, <2>3 DEF ReplayedValues
  <2> QED
    BY <1>6, <2>4 DEF op
<1>12. CASE ~(s.lastApplied[op.client] < op.request) /\ op.value \notin acked
  <2>1. op.request > 0
    BY <1>8, <1>9 DEF Begun
  <2>2. s.lastApplied[op.client] > 0 /\ s.lastApplied[op.client] >= op.request
    BY <1>5, <1>8, <1>12, <2>1
  <2>3. PICK p \in 1 .. Len(s.executed) : /\ s.executed[p].client = op.client
                                          /\ s.executed[p].request = s.lastApplied[op.client]
    BY <1>4, <1>8, <2>2 DEF Sound
  <2>4. PICK m \in 1 .. n - 1 : s.executed[p] = committed[m]
    BY <1>4, <2>3 DEF Sound
  <2>5. PICK q : q = s.executed[p]
    OBVIOUS
  <2>6. m \in 1 .. Len(committed)
    BY <1>1, <1>2
  <2>7. q \in Op /\ Begun(q) /\ q.client = op.client /\ q.request >= op.request
    BY <1>10, <2>2, <2>3, <2>4, <2>5, <2>6
  <2>8. op \in Op
    BY <1>10 DEF op
  <2>9. q.value = op.value
    BY <1>9, <1>12, <2>7, <2>8, SameRequest
  <2>10. q.value \in ReplayedValues(n - 1)
    BY <2>3, <2>5 DEF ReplayedValues, s
  <2> QED
    BY <1>7, <2>9, <2>10 DEF op
<1>13. CASE op.value \in acked
  BY <1>13 DEF op, AnswersInv, AcknowledgedPut
<1> QED
  BY <1>11, <1>12, <1>13

\* The result at the index of a call is the result of its own operation, in a state that
\* shows what had returned when the operation began.
LEMMA OutcomeRight ==
    ASSUME ExecutionInv, Replayed, AnswersInv, StableService, NEW i \in Node, R!Deliver(i),
           NEW d \in Caller, NEW h, NEW r, Right(d, h), h.phase = "waiting",
           h.index = delivered[i] + 1, h.op = logs[i][delivered[i] + 1], r.phase = h.phase,
           r.op = h.op, r.index = h.index, r.res = Outcome(i, h.op)
    PROVE  Right(d, r)
<1>1. TypeOK /\ RaftTypes /\ committed \in Seq(Op)
  BY DEF ExecutionInv, TypeOK, RaftTypes
<1>2. PICK n \in 1 .. Len(committed) : n = delivered[i] + 1
  BY <1>1, DeliversCommitted
<1>3. h.op = committed[n] /\ h.op = OpOf(d) /\ OpOf(d).type = opType[d]
  BY <1>1, <1>2, DeliversCommitted DEF Right, OpOf
<1>4. PICK m \in 0 .. Len(committed) : m < n /\ Shows(m, d)
  BY <1>2 DEF Right
<1>5. Len(committed) \in Nat
  BY <1>1
<1>6. CASE opType[d] = "Put"
  <2>1. OpOf(d).value \in ReplayedValues(Len(committed))
    BY <1>1, <1>3, <1>6, PutExecuted
  <2> QED
    BY <1>2, <1>3, <1>4, <1>6, <2>1 DEF Right, HasResult
<1>7. CASE opType[d] # "Put"
  <2>1. Outcome(i, h.op).value = db[i]
    BY <1>3, <1>7 DEF Outcome
  <2>2. delivered[i] \in 0 .. Len(committed) /\ ServerState(i) = Replay[delivered[i]]
    BY <1>1, ReplayedNow
  <2>3. n - 1 = delivered[i] /\ n - 1 \in m .. Len(committed)
    BY <1>2, <1>4, <1>5, <2>2
  <2>4. db[i] = Replay[n - 1].db
    BY <2>2, <2>3 DEF ServerState
  <2>5. Shows(n - 1, d)
    BY <1>1, <1>4, <2>3, ValuesGrow DEF Shows
  <2>6. n - 1 \in 0 .. Len(committed) /\ r.res.value = Replay[n - 1].db /\ Shows(n - 1, d)
    BY <2>1, <2>2, <2>3, <2>4, <2>5
  <2>7. r.phase # "none" => r.op = OpOf(d)
    BY <1>3
  <2>8. m < r.index
    BY <1>2, <1>4
  <2> QED
    BY <1>4, <1>7, <2>6, <2>7, <2>8 DEF Right
<1> QED
  BY <1>6, <1>7

LEMMA ApplyAnswers ==
    ASSUME ExecutionInv, Replayed, WaitersInv, AnswersInv, StableService,
           NEW i \in Node, Apply(i)
    PROVE  AnswersInv'
<1> DEFINE n  == delivered[i] + 1
           op == logs[i][n]
           k  == waitCh[i][n]
<1>1. TypeOK /\ RaftTypes /\ committed \in Seq(Op)
  BY DEF ExecutionInv, TypeOK, RaftTypes
<1>2. R!Deliver(i) /\ UNCHANGED <<leaders, logs, offered, committed>>
  BY DEF Apply, R!Deliver
<1>3. UNCHANGED <<clerkVars, callerVars, elections>>
  BY DEF Apply, boundVars
<1>4. n \in 1 .. Len(committed)
  BY <1>1, <1>2, DeliversCommitted
<1>5. n \in Index
  BY <1>1, <1>4, BoundsAssumption DEF WaitersInv, LogsFit, Index
<1>6. call' = IF k = Nil THEN call
              ELSE [call EXCEPT ![k].res = IF @ = Nil THEN Outcome(i, op) ELSE @]
  BY DEF Apply, Notify
<1>7. k # Nil => /\ k \in CallId /\ call[k].phase = "waiting" /\ call[k].server = i
                 /\ call[k].index = n /\ call[k].res = Nil
  BY <1>1, <1>5 DEF WaitersInv, WaitersWait, TypeOK
<1> HIDE DEF k, n, op
<1>8. \A h \in CallId :
        /\ call'[h].phase = call[h].phase /\ call'[h].op = call[h].op
        /\ call'[h].server = call[h].server /\ call'[h].index = call[h].index
        /\ h # k => call'[h] = call[h]
  BY <1>1, <1>6 DEF TypeOK, CallRecord
<1>9. Grows
  BY <1>1, <1>2, SameGrows
<1>10. OneLeader'
  BY <1>2, <1>3 DEF AnswersInv, OneLeader
<1>11. CallsInLog'
  BY <1>2, <1>3, <1>8 DEF AnswersInv, CallsInLog
<1>12. ASSUME NEW d \in Caller, pc[d] = "waiting" PROVE Right(d, call'[CurrentCall(d)])
  <2>1. CurrentCall(d) \in CallId /\ Right(d, call[CurrentCall(d)])
    BY <1>12, CurrentCallType DEF AnswersInv, ExecutionInv
  <2>2. CASE k = Nil \/ CurrentCall(d) # k
    BY <1>6, <1>8, <2>1, <2>2
  <2>3. CASE k # Nil /\ CurrentCall(d) = k
    <3>1. call[k].op = logs[i][n]
      <4>1. logs[call[k].server][call[k].index] = call[k].op
        BY <1>7, <2>3 DEF AnswersInv, CallsInLog
      <4> QED
        BY <1>7, <2>3, <4>1
    <3>2. call'[k].res = Outcome(i, call[k].op)
      BY <1>1, <1>6, <1>7, <2>3, <3>1 DEF TypeOK, CallRecord, op
    <3>3. PICK h : h = call[k]
      OBVIOUS
    <3>4. PICK r : r = call'[k]
      OBVIOUS
    <3>5. /\ Right(d, h) /\ h.phase = "waiting" /\ h.index = delivered[i] + 1
          /\ h.op = logs[i][delivered[i] + 1] /\ r.phase = h.phase
          /\ r.op = h.op /\ r.index = h.index /\ r.res = Outcome(i, h.op)
      BY <1>7, <1>8, <2>1, <2>3, <3>1, <3>2, <3>3, <3>4 DEF n
    <3>6. Right(d, r)
      BY <1>2, <3>5, OutcomeRight
    <3> QED
      BY <2>3, <3>4, <3>6
  <2> QED
    BY <2>2, <2>3
<1>13. /\ \A j \in Node : \A m \in 1 .. Len(logs'[j]) : Begun(logs'[j][m])
       /\ \A m \in 1 .. Len(committed') : Begun(committed'[m])
  BY <1>2 DEF AnswersInv, OperationsBegun
<1> QED
  BY <1>2, <1>3, <1>8, <1>9, <1>10, <1>11, <1>12, <1>13, ServedAnswers

\* Another node's log follows the leader's, or takes in a snapshot: no handler waits there.
LEMMA CopyAnswers ==
    ASSUME ExecutionInv, AnswersInv, NEW i \in Node, offered[i] # {}, NEW j \in Node, i # j,
           \A h \in Node \ {j} : logs'[h] = logs[h],
           \A n \in 1 .. Len(logs'[j]) : Begun(logs'[j][n]),
           leaders' = leaders \ {j},
           UNCHANGED <<offered, committed, elections, call, clerkVars, callerVars>>
    PROVE  AnswersInv'
<1>1. TypeOK /\ CallsInProgress /\ leaders \subseteq Node
  BY DEF ExecutionInv, TypeOK, RaftTypes
<1>2. Grows
  BY <1>1, SameGrows
<1>3. OneLeader'
  BY <1>1 DEF AnswersInv, OneLeader
<1>4. CallsInLog'
  <2> SUFFICES ASSUME NEW k \in CallId, call[k].phase \in {"started", "waiting"}
               PROVE  /\ offered'[call[k].server] # {}
                      /\ call[k].index \in 1 .. Len(logs'[call[k].server])
                      /\ logs'[call[k].server][call[k].index] = call[k].op
    BY DEF CallsInLog
  <2>1. /\ offered[call[k].server] # {}
        /\ call[k].index \in 1 .. Len(logs[call[k].server])
        /\ logs[call[k].server][call[k].index] = call[k].op
    BY DEF AnswersInv, CallsInLog
  <2>2. call[k].server \in Node \ {j}
    BY <1>1, <2>1 DEF CallsInProgress, AnswersInv, OneLeader
  <2> QED
    BY <2>1, <2>2
<1>5. \A h \in Node : \A n \in 1 .. Len(logs'[h]) : Begun(logs'[h][n])
  BY DEF AnswersInv, OperationsBegun
<1>6. \A n \in 1 .. Len(committed') : Begun(committed'[n])
  BY DEF AnswersInv, OperationsBegun
<1>7. \A d \in Caller : pc[d] = "waiting" => Right(d, call'[CurrentCall(d)])
  BY DEF AnswersInv
<1> QED
  BY <1>2, <1>3, <1>4, <1>5, <1>6, <1>7, ServedAnswers

\* The entries of a prefix are entries.
LEMMA PrefixEntries ==
    ASSUME NEW s \in Seq(Op), NEW n \in 0 .. Len(s)
    PROVE  /\ Len(SubSeq(s, 1, n)) = n
           /\ \A m \in 1 .. n : m \in 1 .. Len(s) /\ SubSeq(s, 1, n)[m] = s[m]
  OBVIOUS

\* A step that changes who leads, or what is committed.
LEMMA LogAnswers ==
    ASSUME ExecutionInv, AnswersInv, Grows, OneLeader', leaders' \subseteq leaders,
           UNCHANGED <<logs, offered, elections, clerkVars, callerVars>>,
           \A k \in CallId : call'[k] = call[k] \/ call'[k] = NoCall,
           \A n \in 1 .. Len(committed') : Begun(committed'[n])
    PROVE  AnswersInv'
<1>1. NoCall.phase = "none"
  BY NoCallType
<1>2. CallsInLog'
  BY <1>1 DEF AnswersInv, CallsInLog
<1>3. \A i \in Node : \A n \in 1 .. Len(logs'[i]) : Begun(logs'[i][n])
  BY DEF AnswersInv, OperationsBegun
<1>4. ASSUME NEW d \in Caller, pc[d] = "waiting" PROVE Right(d, call'[CurrentCall(d)])
  <2>1. CurrentCall(d) \in CallId /\ Right(d, call[CurrentCall(d)])
    BY <1>4, CurrentCallType DEF AnswersInv, ExecutionInv
  <2>2. Right(d, NoCall)
    BY <1>1 DEF Right, HasResult
  <2> QED
    BY <2>1, <2>2
<1> QED
  BY <1>1, <1>2, <1>3, <1>4, ServedAnswers

LEMMA RaftAnswers ==
    ASSUME ExecutionInv, AnswersInv, NEW i \in Node, RaftStep(i)
    PROVE  AnswersInv'
<1>1. TypeOK /\ RaftTypes
  BY DEF ExecutionInv, TypeOK
<1>2. UNCHANGED <<elections, call, clerkVars, callerVars>>
  BY DEF RaftStep, boundVars
<1>3. \A h \in Node : logs[h] \in Seq(Op)
  BY <1>1 DEF RaftTypes
<1>4. CASE R!StepDown(i)
  <2>1. leaders' \subseteq leaders /\ UNCHANGED <<logs, offered, committed>>
    BY <1>4 DEF R!StepDown
  <2>2. OneLeader'
    BY <1>2, <2>1 DEF AnswersInv, OneLeader
  <2>3. \A n \in 1 .. Len(committed') : Begun(committed'[n])
    BY <2>1 DEF AnswersInv, OperationsBegun
  <2>4. Grows
    BY <1>1, <2>1, SameGrows
  <2> QED
    BY <1>2, <2>1, <2>2, <2>3, <2>4, LogAnswers
<1>5. ASSUME NEW j \in Node, NEW s \in offered[i], R!Replicate(i, j, s)
      PROVE  AnswersInv'
  <2>1. /\ i # j /\ leaders' = leaders \ {j} /\ UNCHANGED <<offered, committed>>
        /\ logs' = [logs EXCEPT ![j] = s]
    BY <1>5 DEF R!Replicate
  <2>2. \A h \in Node : logs'[h] = IF h = j THEN s ELSE logs[h]
    BY <1>1, <2>1 DEF RaftTypes
  <2>3. \A m \in 1 .. Len(logs'[j]) : Begun(logs'[j][m])
    BY <2>2 DEF AnswersInv, OperationsBegun
  <2> QED
    BY <1>2, <2>1, <2>2, <2>3, CopyAnswers
<1>6. ASSUME NEW n \in 1 .. Len(logs[i]), R!Commit(i, n)
      PROVE  AnswersInv'
  <2>1. /\ i \in leaders /\ committed' = SubSeq(logs[i], 1, n)
        /\ UNCHANGED <<leaders, logs, offered>>
    BY <1>6 DEF R!Commit
  <2>2. n \in 0 .. Len(logs[i]) /\ n \in Nat /\ n <= Len(logs[i])
    BY <1>3
  <2>3. /\ Len(committed') = n
        /\ \A m \in 1 .. n : m \in 1 .. Len(logs[i]) /\ committed'[m] = logs[i][m]
    BY <1>3, <2>1, <2>2, PrefixEntries
  <2>4. Grows
    BY <1>1, <1>6, CommittedGrows DEF Grows, RaftTypes
  <2>5. OneLeader'
    <3>1. /\ leaders \subseteq Node /\ \A h \in leaders : h = i
          /\ offered[i] # {} /\ elections = 1
      BY <1>1, <2>1 DEF AnswersInv, OneLeader, RaftTypes
    <3>2. \A h \in leaders' : offered'[h] # {} /\ Len(committed') <= Len(logs'[h])
      BY <2>1, <2>2, <2>3, <3>1
    <3> QED
      BY <1>2, <2>1, <3>1, <3>2 DEF AnswersInv, OneLeader
  <2>6. \A m \in 1 .. Len(committed') : Begun(committed'[m])
    BY <2>3 DEF AnswersInv, OperationsBegun
  <2> QED
    BY <1>2, <2>1, <2>4, <2>5, <2>6, LogAnswers
<1> QED
  BY <1>4, <1>5, <1>6 DEF RaftStep

LEMMA ServerAnswers ==
    ASSUME ExecutionInv, Replayed, WaitersInv, AnswersInv, StableService,
           NEW i \in Node, ServerStep(i)
    PROVE  AnswersInv'
<1>1. TypeOK /\ RaftTypes /\ CallsInProgress
  BY DEF ExecutionInv, TypeOK
<1>2. CASE Apply(i)
  BY <1>2, ApplyAnswers
<1>3. ASSUME NEW j \in Node, ApplySnapshot(i, j) PROVE AnswersInv'
  <2>1. PICK n \in Nat : n = snapshot[i].index
    BY <1>1 DEF TypeOK, ServerTypes, Snapshot
  <2>2. /\ offered[i] # {} /\ i # j /\ leaders' = leaders \ {j}
        /\ n <= Len(committed)
        /\ logs' = [logs EXCEPT ![j] = SubSeq(committed, 1, n)]
        /\ UNCHANGED <<offered, committed, elections, call, clerkVars, callerVars>>
    BY <1>3, <2>1 DEF ApplySnapshot, R!Install, boundVars
  <2>3. \A h \in Node : logs'[h] = IF h = j THEN SubSeq(committed, 1, n) ELSE logs[h]
    BY <1>1, <2>2 DEF RaftTypes
  <2>4. \A m \in 1 .. Len(logs'[j]) : Begun(logs'[j][m])
    <3>1. committed \in Seq(Op) /\ n \in 0 .. Len(committed)
      BY <1>1, <2>2 DEF RaftTypes
    <3>2. /\ Len(SubSeq(committed, 1, n)) = n
          /\ \A m \in 1 .. n :
                m \in 1 .. Len(committed) /\ SubSeq(committed, 1, n)[m] = committed[m]
      BY <3>1, PrefixEntries
    <3> QED
      BY <2>3, <3>2 DEF AnswersInv, OperationsBegun
  <2> QED
    BY <2>2, <2>3, <2>4, CopyAnswers
<1>4. CASE Elect(i)
  <2>1. /\ elections < MaxElections /\ elections' = elections + 1
        /\ leaders' = leaders \cup {i}
        /\ offered' = [offered EXCEPT ![i] = @ \cup {logs[i]}]
        /\ UNCHANGED <<logs, committed, call, clerkVars, callerVars>>
    BY <1>4 DEF Elect, R!Elect
  <2>2. /\ elections = 0 /\ elections' = 1 /\ leaders = {} /\ committed = << >>
        /\ leaders \subseteq Node /\ \A j \in Node : offered[j] = {}
    BY <1>1, <2>1, BoundsAssumption DEF StableService, AnswersInv, OneLeader, TypeOK, RaftTypes
  <2>3. Grows
    BY <1>1, <2>1, SameGrows
  <2>7. \A j \in Node : offered'[j] = IF j = i THEN {logs[i]} ELSE {}
    BY <1>1, <2>1, <2>2 DEF RaftTypes
  <2>4. OneLeader'
    <3>1. Len(committed') <= Len(logs'[i])
      <4>1. logs[i] \in Seq(Op) /\ Len(committed) = 0
        BY <1>1, <2>2 DEF RaftTypes
      <4>2. Len(logs[i]) \in Nat /\ 0 <= Len(logs[i])
        BY <4>1
      <4> QED
        BY <2>1, <4>1, <4>2
    <3>2. leaders' = {i}
      BY <2>1, <2>2
    <3>3. offered'[i] # {} /\ \A j \in Node : offered'[j] # {} => j = i
      <4>1. {logs[i]} # {}
        BY Zenon
      <4> QED
        BY <2>7, <4>1, Zenon
    <3> QED
      BY <2>2, <3>1, <3>2, <3>3 DEF OneLeader
  <2>5. CallsInLog'
    <3>1. \A k \in CallId : call[k].phase \notin {"started", "waiting"}
      BY <1>1, <2>2 DEF AnswersInv, CallsInLog, CallsInProgress
    <3> QED
      BY <2>1, <3>1 DEF CallsInLog
  <2>6. /\ \A h \in Node : \A n \in 1 .. Len(logs'[h]) : Begun(logs'[h][n])
        /\ \A n \in 1 .. Len(committed') : Begun(committed'[n])
        /\ \A d \in Caller : pc[d] = "waiting" => Right(d, call'[CurrentCall(d)])
    BY <2>1 DEF AnswersInv, OperationsBegun
  <2> QED
    BY <2>1, <2>3, <2>4, <2>5, <2>6, <2>7, ServedAnswers
<1>5. CASE RaftStep(i)
  BY <1>5, RaftAnswers
<1>6. CASE Restart(i)
  <2>1. /\ leaders' \subseteq leaders
        /\ UNCHANGED <<logs, offered, committed, elections, clerkVars, callerVars>>
    BY <1>6 DEF Restart, R!Restart
  <2>2. \A k \in CallId : call'[k] = call[k] \/ call'[k] = NoCall
    BY <1>6 DEF Restart
  <2>3. Grows
    BY <1>1, <2>1, SameGrows
  <2>4. OneLeader'
    BY <2>1 DEF AnswersInv, OneLeader
  <2>5. \A n \in 1 .. Len(committed') : Begun(committed'[n])
    BY <2>1 DEF AnswersInv, OperationsBegun
  <2> QED
    BY <2>1, <2>2, <2>3, <2>4, <2>5, LogAnswers
<1> QED
  BY <1>2, <1>3, <1>4, <1>5, <1>6 DEF ServerStep

-----------------------------------------------------------------------------
(* The answers. *)

LEMMA InitAnswers == Init => AnswersInv
<1> SUFFICES ASSUME Init PROVE AnswersInv
  OBVIOUS
<1>1. NoCall.phase = "none"
  BY NoCallType
<1>2. OneLeader /\ CallsInLog /\ OperationsBegun
  BY <1>1 DEF Init, R!Init, OneLeader, CallsInLog, OperationsBegun
<1>3. Counted
  BY ClerkOfType DEF Init, Counted
<1>4. \A c \in Caller : before[c] \subseteq acked /\ pc[c] # "waiting"
  BY DEF Init
<1>5. AcknowledgedPut
  BY DEF Init, AcknowledgedPut
<1> QED
  BY <1>2, <1>3, <1>4, <1>5 DEF AnswersInv

\* Everything the answers rest on.
ServiceInv == ExecutionInv /\ Replayed /\ WaitersInv /\ AnswersInv

LEMMA StepAnswers == StableService /\ ServiceInv /\ [Next]_vars => AnswersInv'
<1> SUFFICES ASSUME StableService, ServiceInv, [Next]_vars PROVE AnswersInv'
  OBVIOUS
<1> USE DEF ServiceInv
<1>1. ASSUME NEW c \in Caller, ClerkStep(c) PROVE AnswersInv'
  BY <1>1, ClerkAnswers
<1>2. ASSUME NEW k \in CallId, HandlerStep(k) PROVE AnswersInv'
  BY <1>2, HandlerAnswers
<1>3. ASSUME NEW i \in Node, ServerStep(i) PROVE AnswersInv'
  BY <1>3, ServerAnswers
<1>4. CASE UNCHANGED vars
  <2>1. /\ UNCHANGED <<logs, offered, leaders, committed, elections, call, clerkVars, callerVars>>
    BY <1>4 DEF vars, raftVars, boundVars
  <2>2. Grows
    BY <2>1, SameGrows DEF ExecutionInv
  <2>3. OneLeader'
    BY <2>1 DEF AnswersInv, OneLeader
  <2>4. \A n \in 1 .. Len(committed') : Begun(committed'[n])
    BY <2>1 DEF AnswersInv, OperationsBegun
  <2> QED
    BY <2>1, <2>2, <2>3, <2>4, LogAnswers
<1> QED
  BY <1>1, <1>2, <1>3, <1>4 DEF Next

\* While one leader serves callers with a Clerk each: who waits for which entry, which
\* operations have begun, and what every answer shows, through retries, abandoned calls,
\* time-outs, snapshots and restarts.
THEOREM AnswersInvariant == StableService /\ Spec => []AnswersInv
<1> SUFFICES ASSUME StableService PROVE Spec => []AnswersInv
  OBVIOUS
<1>1. Init => ServiceInv
  BY InitExecution, InitReplayed, InitWaiters, InitAnswers DEF ServiceInv
<1>2. ServiceInv /\ [Next]_vars => ServiceInv'
  BY StepExecution, StepReplayed, StepWaiters, StepAnswers DEF ServiceInv
<1>3. ServiceInv => AnswersInv
  BY DEF ServiceInv
<1> QED
  BY <1>1, <1>2, <1>3, PTL DEF Spec

\* While one leader serves callers with a Clerk each, a Put that has returned is executed
\* by the committed entries, and so is never lost.
THEOREM AcknowledgedPutsKept == StableService /\ Spec => []AcknowledgedPut
<1>1. AnswersInv => AcknowledgedPut
  BY DEF AnswersInv
<1> QED
  BY <1>1, AnswersInvariant, PTL

\* No value is put twice.
LEMMA ValuesDiffer ==
    ASSUME TypeOK, AnswersInv, NEW puts, puts = Replay[Len(committed)].executed,
           NEW p \in 1 .. Len(puts), NEW q \in 1 .. Len(puts), puts[p].value = puts[q].value
    PROVE  p = q
<1>1. committed \in Seq(Op) /\ Len(committed) \in 0 .. Len(committed)
  BY DEF TypeOK, RaftTypes
<1>2. Sound(Replay[Len(committed)], committed, Len(committed))
  BY <1>1, ReplaySound
<1>3. puts \in Seq(Op) /\ InOrder(puts) /\ Len(puts) \in Nat
  BY <1>2 DEF Sound, Snapshot
<1>4. \A r \in 1 .. Len(puts) : \E n \in 1 .. Len(committed) : puts[r] = committed[n]
  BY <1>2, Zenon DEF Sound
<1>5. ASSUME NEW r \in 1 .. Len(puts)
      PROVE  \E c \in Caller :
                 puts[r].client = ClerkOf[c] /\ puts[r].value = <<c, puts[r].request>>
  <2>1. PICK op : op = puts[r]
    OBVIOUS
  <2>2. Begun(op)
    BY <1>4, <2>1 DEF AnswersInv, OperationsBegun
  <2> QED
    BY <2>1, <2>2, Zenon DEF Begun
<1>6. puts[p].client = puts[q].client /\ puts[p].request = puts[q].request
  <2>1. PICK c \in Caller :
          puts[p].client = ClerkOf[c] /\ puts[p].value = <<c, puts[p].request>>
    BY <1>5
  <2>2. PICK d \in Caller :
          puts[q].client = ClerkOf[d] /\ puts[q].value = <<d, puts[q].request>>
    BY <1>5
  <2>3. <<c, puts[p].request>> = <<d, puts[q].request>>
    BY <2>1, <2>2, Zenon
  <2>4. c = d /\ puts[p].request = puts[q].request
    BY <2>3
  <2> QED
    BY <2>1, <2>2, <2>4, Zenon
<1>7. puts[p] \in Op /\ puts[q] \in Op
  BY <1>3
<1>8. puts[p].request \in Nat /\ puts[q].request \in Nat
  BY <1>7 DEF Op
<1>9. ~(p < q) /\ ~(q < p)
  BY <1>3, <1>6, <1>8 DEF InOrder
<1> QED
  BY <1>3, <1>9

\* No Put that a state shows comes after the last that it has executed.
LEMMA NothingNewer ==
    ASSUME TypeOK, AnswersInv, NEW n \in 0 .. Len(committed), NEW w \in ReplayedValues(n)
    PROVE  ~Newer(w, Replay[n].db)
<1>1. PICK puts : puts = Replay[Len(committed)].executed
  OBVIOUS
<1>2. PICK seen : seen = Replay[n].executed
  OBVIOUS
<1>3. committed \in Seq(Op) /\ Len(committed) \in n .. Len(committed)
  BY DEF TypeOK, RaftTypes
<1>4. Sound(Replay[n], committed, n)
  BY <1>3, ReplaySound
<1>5. Len(seen) <= Len(puts) /\ \A p \in 1 .. Len(seen) : puts[p] = seen[p]
  BY <1>1, <1>2, <1>3, ReplayExtends DEF Begins
<1>6. Sound(Replay[Len(committed)], committed, Len(committed))
  BY <1>3, ReplaySound
<1>7. seen \in Seq(Op) /\ Len(seen) \in Nat /\ Len(puts) \in Nat
  BY <1>1, <1>2, <1>4, <1>6 DEF Sound, Snapshot
<1>8. PICK at \in 1 .. Len(seen) : seen[at].value = w
  BY <1>2, <1>7 DEF ReplayedValues
<1>9. Len(seen) \in 1 .. Len(seen) /\ Len(seen) # 0
  BY <1>7, <1>8
<1>10. Replay[n].db = seen[Len(seen)].value
  BY <1>2, <1>4, <1>9 DEF Sound
<1>11. Replay[n].db # Nil
  <2>1. seen[Len(seen)] \in Op
    BY <1>7, <1>9
  <2> QED
    BY <1>10, <2>1, NilAssumption DEF Op
<1> SUFFICES ASSUME Newer(w, Replay[n].db) PROVE FALSE
  OBVIOUS
<1>12. PICK q \in 1 .. Len(puts) :
         /\ puts[q].value = w
         /\ \E p \in 1 .. q - 1 : puts[p].value = Replay[n].db
  BY <1>1, <1>11 DEF Newer
<1>13. PICK p \in 1 .. q - 1 : puts[p].value = Replay[n].db
  BY <1>12
<1>14. at \in 1 .. Len(puts) /\ p \in 1 .. Len(puts) /\ Len(seen) \in 1 .. Len(puts)
  BY <1>5, <1>7, <1>8, <1>9, <1>12
<1>15. puts[at].value = w /\ puts[Len(seen)].value = Replay[n].db
  BY <1>5, <1>8, <1>9, <1>10
<1>16. at = q
  BY <1>1, <1>12, <1>14, <1>15, ValuesDiffer
<1>17. p = Len(seen)
  BY <1>1, <1>13, <1>14, <1>15, ValuesDiffer
<1> QED
  BY <1>7, <1>8, <1>12, <1>13, <1>16, <1>17

\* While one leader serves callers with a Clerk each, a Get returns nothing older than a
\* Put that had returned before it was called: Get goes through the log as Put does.
THEOREM GetsAreFresh == StableService /\ Spec => []ReadsAreFresh
<1>1. TypeOK /\ AnswersInv => ReadsAreFresh
  <2> SUFFICES ASSUME TypeOK, AnswersInv, NEW c \in Caller, Answered(c), opType[c] = "Get",
                      Success(call[CurrentCall(c)].res), NEW w \in before[c]
               PROVE  ~Newer(w, call[CurrentCall(c)].res.value)
    BY DEF ReadsAreFresh
  <2>1. PICK h : h = call[CurrentCall(c)]
    OBVIOUS
  <2>2. pc[c] = "waiting" /\ HasResult(h)
    BY <2>1 DEF Answered, HasResult
  <2>3. Right(c, h)
    BY <2>1, <2>2 DEF AnswersInv
  <2>4. PICK n \in 0 .. Len(committed) : h.res.value = Replay[n].db /\ Shows(n, c)
    BY <2>2, <2>3 DEF Right
  <2> QED
    BY <2>1, <2>4, NothingNewer DEF Shows
<1>2. ExecutionInv => TypeOK
  BY DEF ExecutionInv
<1> QED
  BY <1>1, <1>2, ExecutionInvariant, AnswersInvariant, PTL
=============================================================================
