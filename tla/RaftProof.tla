----------------------------- MODULE RaftProof -----------------------------
(***************************************************************************)
(* The types of Raft; its elections, with at most one leader per term when *)
(* a restarted node finds what Save wrote; and what its snapshots hold.    *)
(***************************************************************************)
EXTENDS Raft, FiniteSetTheorems, SequenceTheorems, TLAPS

-----------------------------------------------------------------------------
(* Sequences. *)

\* A part of a log, as goes into an AppendEntries call or survives compaction.
LEMMA SubSeqType ==
    ASSUME NEW S, NEW s \in Seq(S), NEW m \in Nat \ {0}, NEW n \in Int, n <= Len(s)
    PROVE  /\ SubSeq(s, m, n) \in Seq(S)
           /\ Len(SubSeq(s, m, n)) = IF m <= n THEN n - m + 1 ELSE 0
<1>1. \A i \in m .. n : s[i] \in S
    BY ElementOfSeq, LenProperties
<1> QED BY <1>1, SubSeqProperties

\* A log that is not empty stays so when entries are appended.
LEMMA LongerLog ==
    ASSUME NEW s \in Seq(Entry), NEW t \in Seq(Entry), Len(s) # 0
    PROVE  s \o t \in Log
<1>1. s \o t \in Seq(Entry) /\ Len(s \o t) = Len(s) + Len(t)
    BY ConcatProperties
<1>2. Len(s) \in Nat /\ Len(t) \in Nat
    BY LenProperties
<1> HIDE DEF Log
<1>3. Len(s \o t) # 0
    BY <1>1, <1>2
<1>4. s \o t # << >>
    BY <1>1, <1>3, EmptySeq
<1> QED BY <1>1, <1>4 DEF Log

-----------------------------------------------------------------------------
(* Types. *)

LEMMA EntryTypes ==
    ASSUME TypeOK, NEW i \in Node
    PROVE  /\ Len(log[i]) \in Nat \ {0}
           /\ LastLogIndex(i) \in Nat
           /\ LastLogTerm(i) \in Nat
           /\ \A k \in 1 .. Len(log[i]) : log[i][k] \in Entry
           /\ \A n \in Int : LogTerm(i, n) \in Int
<1>1. log[i] \in Seq(Entry) /\ log[i] # << >>
    BY DEF TypeOK, Log
<1>2. Len(log[i]) \in Nat \ {0}
    BY <1>1, EmptySeq
<1>3. \A k \in 1 .. Len(log[i]) : log[i][k] \in Entry
    BY <1>1, ElementOfSeq
<1>4. LastLogIndex(i) \in Nat
    BY <1>2 DEF LastLogIndex, TypeOK
<1>5. LastLogTerm(i) \in Nat
    BY <1>2, <1>3 DEF LastLogTerm, Entry
<1>6. \A n \in Int : LogTerm(i, n) \in Int
    <2> SUFFICES ASSUME NEW n \in Int PROVE LogTerm(i, n) \in Int
        OBVIOUS
    <2>1. lastIncludedIndex[i] \in Nat /\ lastIncludedTerm[i] \in Nat
        BY DEF TypeOK
    <2>2. n \in Held(i) => EntryAt(i, n) \in Entry
        <3> SUFFICES ASSUME n \in Held(i) PROVE EntryAt(i, n) \in Entry
            OBVIOUS
        <3>1. n - lastIncludedIndex[i] + 1 \in 1 .. Len(log[i])
            BY <2>1, <1>2 DEF Held, LastLogIndex
        <3> QED BY <3>1, <1>3 DEF EntryAt
    <2> QED BY <2>1, <2>2 DEF LogTerm, Entry
<1> QED BY <1>2, <1>3, <1>4, <1>5, <1>6

LEMMA DummyLog == \A t \in Nat : <<Dummy(t)>> \in Log
<1> SUFFICES ASSUME NEW t \in Nat PROVE <<Dummy(t)>> \in Log
    OBVIOUS
<1>1. Dummy(t) \in Entry
    BY DEF Dummy, Entry
<1>2. <<Dummy(t)>> \in Seq(Entry) /\ <<Dummy(t)>> # << >>
    BY <1>1
<1> QED BY <1>2 DEF Log

\* A call keeps its type on the way from request to reply.
LEMMA RpcTypes ==
    ASSUME NEW m \in Rpc
    PROVE  /\ m.from \in Node /\ m.to \in Node /\ m.slot \in Slots
           /\ m.type = "RequestVote" => m \in RequestVoteRpc
           /\ m.type = "AppendEntries" => m \in AppendEntriesRpc
           /\ m.type = "InstallSnapshot" => m \in InstallSnapshotRpc
           /\ m.type = "SnapshotMsg" => m \in SnapshotMsgRpc
           /\ m.type = "RequestVoteReply" => m \in RequestVoteReplyRpc
           /\ m.type = "AppendEntriesReply" => m \in AppendEntriesReplyRpc
           /\ m.type = "InstallSnapshotReply" => m \in InstallSnapshotReplyRpc
BY DEF Rpc, RequestVoteRpc, AppendEntriesRpc, InstallSnapshotRpc, SnapshotMsgRpc,
       RequestVoteReplyRpc, AppendEntriesReplyRpc, InstallSnapshotReplyRpc

\* Every handler answers with a reply of its call's kind.
LEMMA ReplyTypes ==
    ASSUME NEW t \in Nat
    PROVE  /\ \A m \in RequestVoteRpc, ok \in BOOLEAN :
                 RequestVoteReply(m, t, ok) \in RequestVoteReplyRpc
           /\ \A m \in AppendEntriesRpc, ok \in BOOLEAN, c \in Nat :
                 AppendEntriesReply(m, t, ok, c) \in AppendEntriesReplyRpc
           /\ \A m \in InstallSnapshotRpc \cup SnapshotMsgRpc :
                 InstallSnapshotReply(m, t) \in InstallSnapshotReplyRpc
           /\ \A m \in InstallSnapshotRpc : SnapshotMsg(m, t) \in SnapshotMsgRpc
<1>1. \A m \in RequestVoteRpc, ok \in BOOLEAN :
          RequestVoteReply(m, t, ok) \in RequestVoteReplyRpc
    BY DEF RequestVoteRpc, RequestVoteReplyRpc, RequestVoteReply
<1>2. \A m \in AppendEntriesRpc, ok \in BOOLEAN, c \in Nat :
          AppendEntriesReply(m, t, ok, c) \in AppendEntriesReplyRpc
    <2> SUFFICES ASSUME NEW m \in AppendEntriesRpc, NEW ok \in BOOLEAN, NEW c \in Nat
                 PROVE  AppendEntriesReply(m, t, ok, c) \in AppendEntriesReplyRpc
        OBVIOUS
    <2>1. m.prevLogIndex \in Nat /\ m.entries \in Seq(Entry)
        BY DEF AppendEntriesRpc
    <2>2. m.prevLogIndex + Len(m.entries) \in Nat
        BY <2>1, LenProperties
    <2> QED BY <2>2 DEF AppendEntriesRpc, AppendEntriesReplyRpc, AppendEntriesReply
<1>3. \A m \in InstallSnapshotRpc \cup SnapshotMsgRpc :
          InstallSnapshotReply(m, t) \in InstallSnapshotReplyRpc
    BY DEF InstallSnapshotRpc, SnapshotMsgRpc, InstallSnapshotReplyRpc, InstallSnapshotReply
<1>4. \A m \in InstallSnapshotRpc : SnapshotMsg(m, t) \in SnapshotMsgRpc
    BY DEF InstallSnapshotRpc, SnapshotMsgRpc, SnapshotMsg
<1> QED BY <1>1, <1>2, <1>3, <1>4

\* One element of nextIndex or matchIndex is assigned.
LEMMA PeerIndexType ==
    ASSUME NEW f \in [Node -> [Node -> Nat]], NEW i \in Node, NEW j \in Node, NEW n \in Nat
    PROVE  [f EXCEPT ![i][j] = n] \in [Node -> [Node -> Nat]]
<1>1. [f EXCEPT ![i][j] = n] = [f EXCEPT ![i] = [f[i] EXCEPT ![j] = n]]
    OBVIOUS
<1>2. [f[i] EXCEPT ![j] = n] \in [Node -> Nat]
    OBVIOUS
<1> QED BY <1>1, <1>2

LEMMA PersistType ==
    ASSUME TypeOK, NEW i \in Node, NEW data \in SUBSET Position,
           PersistSnapshot(i, data),
           currentTerm' \in [Node -> Nat],
           votedFor' \in [Node -> Node \cup {Nil}],
           log' \in [Node -> Log],
           lastIncludedIndex' \in [Node -> Nat],
           lastIncludedTerm' \in [Node -> Nat]
    PROVE  disk' \in [Node -> DiskState]
<1>1. Encoded(i, data) \in DiskState
    BY DEF Encoded, DiskState
<1> QED BY <1>1 DEF TypeOK, PersistSnapshot, Save

\* persist() leaves the snapshot alone.
LEMMA PersistedSnapshot ==
    ASSUME TypeOK, NEW i \in Node
    PROVE  disk[i].snapshot \in SUBSET Position
BY DEF TypeOK, DiskState

LEMMA PersistKeepsType ==
    ASSUME TypeOK, NEW i \in Node, Persist(i),
           currentTerm' \in [Node -> Nat],
           votedFor' \in [Node -> Node \cup {Nil}],
           log' \in [Node -> Log],
           lastIncludedIndex' \in [Node -> Nat],
           lastIncludedTerm' \in [Node -> Nat]
    PROVE  disk' \in [Node -> DiskState]
BY PersistType, PersistedSnapshot DEF Persist

LEMMA RespondType ==
    ASSUME TypeOK, NEW m, NEW r \in Rpc, Respond(m, r)
    PROVE  rpcs' \subseteq Rpc
BY DEF TypeOK, Respond

LEMMA UpdateCommitIndexType ==
    ASSUME TypeOK, NEW i \in Node, UpdateCommitIndex(i),
           log' \in [Node -> Log],
           lastIncludedIndex' \in [Node -> Nat],
           matchIndex' \in [Node -> [Node -> Nat]]
    PROVE  commitIndex' \in [Node -> Nat]
<1>1. LastLogIndex(i)' \in Nat
    <2>1. log'[i] \in Seq(Entry) /\ log'[i] # << >>
        BY DEF Log
    <2>2. Len(log'[i]) \in Nat \ {0}
        BY <2>1, EmptySeq
    <2> QED BY <2>2 DEF LastLogIndex
<1> DEFINE match == [matchIndex'[i] EXCEPT ![i] = LastLogIndex(i)']
<1>2. \A j \in Node : match[j] \in Nat
    BY <1>1
<1>3. PICK n \in {match[j] : j \in Node} :
          commitIndex' = [commitIndex EXCEPT ![i] = IF MayCommit(i, n) THEN n ELSE @]
    BY DEF UpdateCommitIndex
<1>4. n \in Nat
    BY <1>2, <1>3
<1> QED BY <1>3, <1>4 DEF TypeOK

LEMMA BecomeLeaderType ==
    ASSUME TypeOK, NEW i \in Node, BecomeLeader(i)
    PROVE  /\ state' \in [Node -> {"Follower", "Candidate", "Leader"}]
           /\ nextIndex' \in [Node -> [Node -> Nat]]
           /\ matchIndex' \in [Node -> [Node -> Nat]]
<1>1. LastLogIndex(i) \in Nat
    BY EntryTypes
<1>2. [j \in Node |-> LastLogIndex(i) + 1] \in [Node -> Nat]
    BY <1>1
<1>3. [j \in Node |-> IF j = i THEN LastLogIndex(i) ELSE 0] \in [Node -> Nat]
    BY <1>1
<1> QED BY <1>2, <1>3 DEF TypeOK, BecomeLeader

LEMMA BecomeFollowerType ==
    ASSUME TypeOK, NEW i \in Node, NEW t \in Nat, BecomeFollower(i, t)
    PROVE  /\ state' \in [Node -> {"Follower", "Candidate", "Leader"}]
           /\ currentTerm' \in [Node -> Nat]
           /\ votedFor' \in [Node -> Node \cup {Nil}]
BY DEF TypeOK, BecomeFollower

\* A new call takes one of the slots of its link.
LEMMA NextSlotType == \A i, j \in Node : NextSlot(i, j) \in Slots
<1> SUFFICES ASSUME NEW i \in Node, NEW j \in Node PROVE NextSlot(i, j) \in Slots
    OBVIOUS
<1>1. \E s \in Slots : FreeSlots(i, j) # {} => s \in FreeSlots(i, j)
    <2>1. 1 \in Slots
        BY BoundsAssumption DEF Slots
    <2>2. FreeSlots(i, j) \subseteq Slots
        BY DEF FreeSlots
    <2> QED BY <2>1, <2>2
<1> QED BY <1>1 DEF NextSlot

LEMMA CompactType ==
    ASSUME TypeOK, NEW i \in Node, NEW index \in Nat, NEW data \in SUBSET Position,
           index > lastIncludedIndex[i], Compact(i, index, data)
    PROVE  /\ log' \in [Node -> Log]
           /\ lastIncludedIndex' \in [Node -> Nat]
           /\ lastIncludedTerm' \in [Node -> Nat]
           /\ disk' \in [Node -> DiskState]
           /\ UNCHANGED <<currentTerm, votedFor>>
<1> DEFINE offset == index - lastIncludedIndex[i]
           known == offset < Len(log[i])
           t == IF known THEN log[i][offset + 1].term ELSE lastIncludedTerm[i]
           rest == IF known THEN SubSeq(log[i], offset + 2, Len(log[i])) ELSE << >>
<1>1. /\ lastIncludedTerm' = [lastIncludedTerm EXCEPT ![i] = t]
      /\ lastIncludedIndex' = [lastIncludedIndex EXCEPT ![i] = index]
      /\ log' = [log EXCEPT ![i] = <<Dummy(t)>> \o rest]
      /\ UNCHANGED <<currentTerm, votedFor>>
      /\ PersistSnapshot(i, data)
    BY DEF Compact
<1>2. /\ offset \in Nat /\ log[i] \in Seq(Entry) /\ Len(log[i]) \in Nat
      /\ \A k \in 1 .. Len(log[i]) : log[i][k] \in Entry
    BY EntryTypes DEF TypeOK, Log
<1>3. t \in Nat
    <2>1. known => log[i][offset + 1] \in Entry
        BY <1>2
    <2>2. lastIncludedTerm[i] \in Nat
        BY DEF TypeOK
    <2> QED BY <2>1, <2>2 DEF Entry
<1>4. rest \in Seq(Entry)
    <2>1. SubSeq(log[i], offset + 2, Len(log[i])) \in Seq(Entry)
        <3>1. offset + 2 \in Nat \ {0}
            BY <1>2
        <3> QED BY <1>2, <3>1, SubSeqType
    <2> QED BY <2>1
<1> HIDE DEF t, rest
<1>5. <<Dummy(t)>> \o rest \in Log
    <2>1. Dummy(t) \in Entry
        BY <1>3 DEF Dummy, Entry
    <2>2. <<Dummy(t)>> \in Seq(Entry) /\ Len(<<Dummy(t)>>) # 0
        BY <2>1
    <2> QED BY <1>4, <2>2, LongerLog
<1>6. /\ log' \in [Node -> Log]
      /\ lastIncludedIndex' \in [Node -> Nat]
      /\ lastIncludedTerm' \in [Node -> Nat]
      /\ currentTerm' \in [Node -> Nat]
      /\ votedFor' \in [Node -> Node \cup {Nil}]
    BY <1>1, <1>3, <1>5 DEF TypeOK
<1>7. disk' \in [Node -> DiskState]
    BY <1>1, <1>6, PersistType
<1> QED BY <1>1, <1>6, <1>7

\* A crash only turns calls into orphans.
LEMMA AfterCrashType ==
    ASSUME TypeOK, NEW i \in Node
    PROVE  AfterCrash(i) \subseteq Rpc
<1> SUFFICES ASSUME NEW m \in rpcs,
                    m.type \in {"RequestVote", "AppendEntries", "InstallSnapshot", "SnapshotMsg"}
             PROVE  [m EXCEPT !.live = FALSE] \in Rpc
    BY DEF AfterCrash, TypeOK
<1>1. m \in Rpc
    BY DEF TypeOK
<1>2. CASE m.type = "RequestVote"
    <2>1. m \in RequestVoteRpc
        BY <1>1, <1>2, RpcTypes
    <2>2. [m EXCEPT !.live = FALSE] \in RequestVoteRpc
        BY <2>1 DEF RequestVoteRpc
    <2> QED BY <2>2 DEF Rpc
<1>3. CASE m.type = "AppendEntries"
    <2>1. m \in AppendEntriesRpc
        BY <1>1, <1>3, RpcTypes
    <2>2. [m EXCEPT !.live = FALSE] \in AppendEntriesRpc
        BY <2>1 DEF AppendEntriesRpc
    <2> QED BY <2>2 DEF Rpc
<1>4. CASE m.type = "InstallSnapshot"
    <2>1. m \in InstallSnapshotRpc
        BY <1>1, <1>4, RpcTypes
    <2>2. [m EXCEPT !.live = FALSE] \in InstallSnapshotRpc
        BY <2>1 DEF InstallSnapshotRpc
    <2> QED BY <2>2 DEF Rpc
<1>5. CASE m.type = "SnapshotMsg"
    <2>1. m \in SnapshotMsgRpc
        BY <1>1, <1>5, RpcTypes
    <2>2. [m EXCEPT !.live = FALSE] \in SnapshotMsgRpc
        BY <2>1 DEF SnapshotMsgRpc
    <2> QED BY <2>2 DEF Rpc
<1> QED BY <1>2, <1>3, <1>4, <1>5

LEMMA InitType == Init => TypeOK
<1> SUFFICES ASSUME Init PROVE TypeOK
    OBVIOUS
<1>1. /\ state \in [Node -> {"Follower", "Candidate", "Leader"}]
      /\ currentTerm \in [Node -> Nat]
      /\ votedFor \in [Node -> Node \cup {Nil}]
      /\ lastIncludedIndex \in [Node -> Nat]
      /\ lastIncludedTerm \in [Node -> Nat]
      /\ commitIndex \in [Node -> Nat]
      /\ lastApplied \in [Node -> Nat]
      /\ nextIndex \in [Node -> [Node -> Nat]]
      /\ matchIndex \in [Node -> [Node -> Nat]]
      /\ received \in [Node -> BOOLEAN]
      /\ votes \in [Node -> SUBSET Node]
      /\ up \in [Node -> BOOLEAN]
      /\ applied \in [Node -> SUBSET Position]
      /\ rpcs \subseteq Rpc
      /\ elections \in Nat
      /\ restarts \in Nat
    BY DEF Init
<1>2. <<Dummy(0)>> \in Log
    BY DummyLog
<1>3. log \in [Node -> Log] /\ disk \in [Node -> DiskState]
    BY <1>2 DEF Init, BlankDisk, DiskState
<1>4. /\ applyChan \in [Node -> Seq(Position)]
      /\ compacting \in [Node -> Seq(PendingSnapshot)]
    BY DEF Init
<1> QED BY <1>1, <1>3, <1>4 DEF TypeOK

\* Every step keeps the types.
LEMMA TypeStep == TypeOK /\ [Next]_vars => TypeOK'
<1> SUFFICES ASSUME TypeOK, [Next]_vars PROVE TypeOK'
    OBVIOUS
<1> USE DEF persistentVars, roleVars, commitVars, leaderVars, serviceVars, processVars
<1>1. ASSUME NEW i \in Node, ElectionTimeout(i) PROVE TypeOK'
    <2>1. /\ currentTerm' \in [Node -> Nat]
          /\ votedFor' \in [Node -> Node \cup {Nil}]
          /\ votes' \in [Node -> SUBSET Node]
        <3>1. /\ currentTerm' = [currentTerm EXCEPT ![i] = @ + 1]
              /\ votedFor' = [votedFor EXCEPT ![i] = i]
              /\ votes' = [votes EXCEPT ![i] = {i}]
            BY <1>1 DEF ElectionTimeout
        <3> QED BY <3>1 DEF TypeOK
    <2>2. UNCHANGED <<log, lastIncludedIndex, lastIncludedTerm, received, commitVars,
                      serviceVars, up, restarts>>
        BY <1>1 DEF ElectionTimeout
    <2>3. disk' \in [Node -> DiskState]
        <3>1. Persist(i)
            BY <1>1 DEF ElectionTimeout
        <3>2. /\ log' \in [Node -> Log]
              /\ lastIncludedIndex' \in [Node -> Nat]
              /\ lastIncludedTerm' \in [Node -> Nat]
            BY <2>2 DEF TypeOK
        <3> QED BY <2>1, <3>1, <3>2, PersistKeepsType
    <2>4. /\ state' \in [Node -> {"Follower", "Candidate", "Leader"}]
          /\ nextIndex' \in [Node -> [Node -> Nat]]
          /\ matchIndex' \in [Node -> [Node -> Nat]]
        BY <1>1, BecomeLeaderType DEF ElectionTimeout, TypeOK
    <2>5. rpcs' \subseteq Rpc
        <3>1. \A j \in Node : RequestVoteCall(i, j) \in RequestVoteRpc
            <4>1. LastLogIndex(i) \in Nat /\ LastLogTerm(i) \in Nat
                BY EntryTypes
            <4>2. currentTerm[i] + 1 \in Nat
                BY DEF TypeOK
            <4> QED BY <4>1, <4>2, NextSlotType DEF RequestVoteCall, RequestVoteRpc
        <3>2. CASE rpcs' = rpcs
            BY <3>2 DEF TypeOK
        <3>3. CASE \E peers \in SUBSET (Node \ {i}) : Send({RequestVoteCall(i, j) : j \in peers})
            <4>1. PICK peers \in SUBSET (Node \ {i}) :
                      rpcs' = rpcs \cup {RequestVoteCall(i, j) : j \in peers}
                BY <3>3 DEF Send
            <4>2. {RequestVoteCall(i, j) : j \in peers} \subseteq RequestVoteRpc
                BY <3>1
            <4> QED BY <4>1, <4>2 DEF TypeOK, Rpc
        <3> QED BY <1>1, <3>2, <3>3 DEF ElectionTimeout
    <2>6. elections' \in Nat
        BY <1>1 DEF ElectionTimeout, TypeOK
    <2> QED BY <2>1, <2>2, <2>3, <2>4, <2>5, <2>6 DEF TypeOK
<1>2. ASSUME NEW i \in Node, QuietTick(i) PROVE TypeOK'
    BY <1>2 DEF QuietTick, TypeOK
<1>3. ASSUME NEW i \in Node, NEW j \in Node, SendAppendEntries(i, j) PROVE TypeOK'
    <2>1. AppendEntriesCall(i, j) \in AppendEntriesRpc
        <3> DEFINE prev == nextIndex[i][j] - 1
        <3>1. nextIndex[i][j] \in Nat /\ lastIncludedIndex[i] \in Nat /\ log[i] \in Seq(Entry)
            BY DEF TypeOK, Log
        <3>2. nextIndex[i][j] > lastIncludedIndex[i]
            BY <1>3 DEF SendAppendEntries
        <3>3. prev \in Nat /\ prev - lastIncludedIndex[i] + 2 \in Nat \ {0}
            BY <3>1, <3>2
        <3> HIDE DEF prev
        <3>4. LogTerm(i, prev) \in Int
            <4>1. \A n \in Int : LogTerm(i, n) \in Int
                BY EntryTypes
            <4> QED BY <4>1, <3>3
        <3>5. SubSeq(log[i], prev - lastIncludedIndex[i] + 2, Len(log[i])) \in Seq(Entry)
            <4>1. Len(log[i]) \in Int
                BY EntryTypes
            <4> QED BY <3>1, <3>3, <4>1, SubSeqType
        <3>6. currentTerm[i] \in Nat /\ commitIndex[i] \in Nat
            BY DEF TypeOK
        <3> QED BY <3>3, <3>4, <3>5, <3>6, NextSlotType DEF AppendEntriesCall, AppendEntriesRpc, prev
    <2>2. rpcs' \subseteq Rpc
        BY <1>3, <2>1 DEF SendAppendEntries, Send, TypeOK, Rpc
    <2> QED BY <1>3, <2>2 DEF SendAppendEntries, TypeOK
<1>4. ASSUME NEW i \in Node, NEW j \in Node, SendInstallSnapshot(i, j) PROVE TypeOK'
    <2>1. InstallSnapshotCall(i, j) \in InstallSnapshotRpc
        BY NextSlotType, PersistedSnapshot DEF InstallSnapshotCall, InstallSnapshotRpc, TypeOK
    <2>2. rpcs' \subseteq Rpc
        BY <1>4, <2>1 DEF SendInstallSnapshot, Send, TypeOK, Rpc
    <2> QED BY <1>4, <2>2 DEF SendInstallSnapshot, TypeOK
<1>5. ASSUME NEW i \in Node, NEW command \in Value, Start(i, command) PROVE TypeOK'
    <2>1. log' \in [Node -> Log]
        <3>1. log[i] \in Seq(Entry) /\ currentTerm[i] \in Nat
            BY DEF TypeOK, Log
        <3>2. [term |-> currentTerm[i], command |-> command] \in Entry
            BY <3>1 DEF Entry
        <3>3. Append(log[i], [term |-> currentTerm[i], command |-> command]) \in Log
            BY <3>1, <3>2, AppendProperties DEF Log
        <3> QED BY <1>5, <3>3 DEF Start, TypeOK
    <2>2. UNCHANGED <<currentTerm, votedFor, lastIncludedIndex, lastIncludedTerm, leaderVars>>
        BY <1>5 DEF Start
    <2>3. disk' \in [Node -> DiskState]
        <3>1. Persist(i)
            BY <1>5 DEF Start
        <3>2. /\ currentTerm' \in [Node -> Nat]
              /\ votedFor' \in [Node -> Node \cup {Nil}]
              /\ lastIncludedIndex' \in [Node -> Nat]
              /\ lastIncludedTerm' \in [Node -> Nat]
            BY <2>2 DEF TypeOK
        <3> QED BY <2>1, <3>1, <3>2, PersistKeepsType
    <2>4. commitIndex' \in [Node -> Nat]
        <3>1. UpdateCommitIndex(i)
            BY <1>5 DEF Start
        <3>2. lastIncludedIndex' \in [Node -> Nat] /\ matchIndex' \in [Node -> [Node -> Nat]]
            BY <2>2 DEF TypeOK
        <3> QED BY <2>1, <3>1, <3>2, UpdateCommitIndexType
    <2> QED BY <1>5, <2>1, <2>2, <2>3, <2>4 DEF Start, TypeOK
<1>6. ASSUME NEW m \in rpcs, RejectStale(m) PROVE TypeOK'
    <2> DEFINE t == currentTerm[m.to]
    <2>1. m \in Rpc /\ t \in Nat
        BY RpcTypes DEF TypeOK
    <2> HIDE DEF t
    <2>2. PICK r : /\ Respond(m, r)
                   /\ \/ m.type = "RequestVote" /\ r = RequestVoteReply(m, t, FALSE)
                      \/ m.type = "AppendEntries" /\ r = AppendEntriesReply(m, t, FALSE, 0)
                      \/ m.type = "InstallSnapshot" /\ r = InstallSnapshotReply(m, t)
        BY <1>6 DEF RejectStale, t
    <2>3. r \in Rpc
        BY <2>1, <2>2, RpcTypes, ReplyTypes DEF Rpc
    <2>4. rpcs' \subseteq Rpc
        BY <2>2, <2>3, RespondType
    <2> QED BY <1>6, <2>4 DEF RejectStale, TypeOK
<1>7. ASSUME NEW m \in rpcs, HandleRequestVote(m) PROVE TypeOK'
    <2> DEFINE i == m.to
               granted == MayGrant(m, i)
    <2>1. m \in RequestVoteRpc /\ i \in Node /\ m.from \in Node
        BY <1>7, RpcTypes DEF HandleRequestVote, TypeOK
    <2>2. m.term \in Nat /\ granted \in BOOLEAN
        BY <2>1 DEF RequestVoteRpc, MayGrant, UpToDate
    <2>3. VoteIn(m, i) \in Node \cup {Nil}
        BY <2>1 DEF VoteIn, TypeOK
    <2>4. /\ state' = [state EXCEPT ![i] = IF m.term > currentTerm[i] THEN "Follower" ELSE @]
          /\ currentTerm' = [currentTerm EXCEPT ![i] = m.term]
          /\ votedFor' = [votedFor EXCEPT ![i] = IF granted THEN m.from ELSE VoteIn(m, i)]
          /\ received' = [received EXCEPT ![i] = @ \/ granted]
          /\ UNCHANGED <<log, lastIncludedIndex, lastIncludedTerm>>
          /\ Persist(i)
          /\ Respond(m, RequestVoteReply(m, m.term, granted))
          /\ UNCHANGED <<votes, commitVars, leaderVars, serviceVars, processVars>>
        BY <1>7 DEF HandleRequestVote
    <2> HIDE DEF i, granted
    <2>5. /\ state' \in [Node -> {"Follower", "Candidate", "Leader"}]
          /\ currentTerm' \in [Node -> Nat]
          /\ votedFor' \in [Node -> Node \cup {Nil}]
          /\ received' \in [Node -> BOOLEAN]
          /\ log' \in [Node -> Log]
          /\ lastIncludedIndex' \in [Node -> Nat]
          /\ lastIncludedTerm' \in [Node -> Nat]
        <3>1. state' \in [Node -> {"Follower", "Candidate", "Leader"}]
            BY <2>4 DEF TypeOK
        <3>2. currentTerm' \in [Node -> Nat]
            BY <2>2, <2>4 DEF TypeOK
        <3>3. votedFor' \in [Node -> Node \cup {Nil}]
            BY <2>1, <2>3, <2>4 DEF TypeOK
        <3>4. received' \in [Node -> BOOLEAN]
            BY <2>2, <2>4 DEF TypeOK
        <3> QED BY <2>4, <3>1, <3>2, <3>3, <3>4 DEF TypeOK
    <2>6. disk' \in [Node -> DiskState]
        BY <2>1, <2>4, <2>5, PersistKeepsType
    <2>7. rpcs' \subseteq Rpc
        <3>1. RequestVoteReply(m, m.term, granted) \in Rpc
            BY <2>1, <2>2, ReplyTypes DEF Rpc
        <3> QED BY <2>4, <3>1, RespondType
    <2> QED BY <2>4, <2>5, <2>6, <2>7 DEF TypeOK
<1>8. ASSUME NEW m \in rpcs, HandleAppendEntries(m) PROVE TypeOK'
    <2> DEFINE i == m.to
    <2>1. HearLeader(m)
        BY <1>8 DEF HandleAppendEntries, RejectAppendEntries, AcceptAppendEntries
    <2>2. m \in AppendEntriesRpc /\ i \in Node
        BY <2>1, RpcTypes DEF HearLeader, TypeOK
    <2>3. m.term \in Nat /\ m.prevLogIndex \in Nat /\ m.entries \in Seq(Entry)
              /\ m.leaderCommit \in Nat
        BY <2>2 DEF AppendEntriesRpc
    <2>4. /\ received' = [received EXCEPT ![i] = TRUE]
          /\ BecomeFollower(i, m.term)
          /\ UNCHANGED <<lastIncludedIndex, lastIncludedTerm>>
        BY <2>1 DEF HearLeader
    <2> HIDE DEF i
    <2>5. /\ state' \in [Node -> {"Follower", "Candidate", "Leader"}]
          /\ currentTerm' \in [Node -> Nat]
          /\ votedFor' \in [Node -> Node \cup {Nil}]
        BY <2>2, <2>3, <2>4, BecomeFollowerType
    <2>6. /\ received' \in [Node -> BOOLEAN]
          /\ lastIncludedIndex' \in [Node -> Nat]
          /\ lastIncludedTerm' \in [Node -> Nat]
        BY <2>4 DEF TypeOK
    <2>7. CASE RejectAppendEntries(m)
        <3>1. /\ UNCHANGED log
              /\ Persist(i)
              /\ UNCHANGED <<votes, commitVars, leaderVars, serviceVars, processVars>>
            BY <2>7 DEF RejectAppendEntries, i
        <3>2. log' \in [Node -> Log]
            BY <3>1 DEF TypeOK
        <3>3. disk' \in [Node -> DiskState]
            BY <2>2, <2>5, <2>6, <3>1, <3>2, PersistKeepsType
        <3>4. \E c \in Nat : Respond(m, AppendEntriesReply(m, m.term, FALSE, c))
            <4>1. LastLogIndex(i) + 1 \in Nat
                BY <2>2, EntryTypes
            <4>2. 0 .. m.prevLogIndex \subseteq Nat
                OBVIOUS
            <4> QED BY <2>7, <4>1, <4>2 DEF RejectAppendEntries, i
        <3>5. rpcs' \subseteq Rpc
            <4>1. PICK c \in Nat : Respond(m, AppendEntriesReply(m, m.term, FALSE, c))
                BY <3>4
            <4>2. AppendEntriesReply(m, m.term, FALSE, c) \in Rpc
                BY <2>2, <2>3, ReplyTypes DEF Rpc
            <4> QED BY <4>1, <4>2, RespondType
        <3> QED BY <2>5, <2>6, <3>1, <3>2, <3>3, <3>5 DEF TypeOK
    <2>8. CASE AcceptAppendEntries(m)
        <3>1. /\ m.prevLogIndex \in lastIncludedIndex[i] .. LastLogIndex(i)
              /\ log' = [log EXCEPT ![i] = NewLog(m, i)]
              /\ Persist(i)
              /\ commitIndex' = [commitIndex EXCEPT ![i] = NewCommitIndex(m, i)]
              /\ Respond(m, AppendEntriesReply(m, m.term, TRUE, 0))
              /\ UNCHANGED <<votes, lastApplied, leaderVars, serviceVars, processVars>>
            BY <2>8 DEF AcceptAppendEntries, i
        <3>2. NewLog(m, i) \in Log
            <4> DEFINE kept == m.prevLogIndex + 1 - lastIncludedIndex[i]
            <4>1. log[i] \in Seq(Entry) /\ lastIncludedIndex[i] \in Nat /\ Len(log[i]) \in Nat
                BY <2>2, EntryTypes DEF TypeOK, Log
            <4>2. kept \in Nat \ {0} /\ kept <= Len(log[i])
                BY <2>3, <3>1, <4>1 DEF LastLogIndex
            <4> HIDE DEF kept
            <4>3. SubSeq(log[i], 1, kept) \in Seq(Entry) /\ Len(SubSeq(log[i], 1, kept)) = kept
                BY <4>1, <4>2, SubSeqType
            <4>4. SubSeq(log[i], 1, kept) \o m.entries \in Log
                BY <2>3, <4>2, <4>3, LongerLog
            <4> QED BY <4>4 DEF NewLog, kept
        <3>3. log' \in [Node -> Log]
            BY <3>1, <3>2 DEF TypeOK
        <3>4. disk' \in [Node -> DiskState]
            BY <2>2, <2>5, <2>6, <3>1, <3>3, PersistKeepsType
        <3>5. commitIndex' \in [Node -> Nat]
            <4>1. Len(log'[i]) \in Nat \ {0}
                BY <2>2, <3>3, EmptySeq DEF Log
            <4>2. LastLogIndex(i)' \in Nat
                BY <2>2, <2>6, <4>1 DEF LastLogIndex
            <4>3. NewCommitIndex(m, i) \in Nat
                BY <2>2, <2>3, <4>2 DEF NewCommitIndex, TypeOK
            <4> QED BY <3>1, <4>3 DEF TypeOK
        <3>6. rpcs' \subseteq Rpc
            <4>1. AppendEntriesReply(m, m.term, TRUE, 0) \in Rpc
                BY <2>2, <2>3, ReplyTypes DEF Rpc
            <4> QED BY <3>1, <4>1, RespondType
        <3> QED BY <2>5, <2>6, <3>1, <3>3, <3>4, <3>5, <3>6 DEF TypeOK
    <2> QED BY <1>8, <2>7, <2>8 DEF HandleAppendEntries
<1>9. ASSUME NEW m \in rpcs, HandleInstallSnapshot(m) PROVE TypeOK'
    <2> DEFINE i == m.to
               index == m.lastIncludedIndex
               newer == m.term > currentTerm[i]
    <2>1. m \in InstallSnapshotRpc /\ i \in Node
        BY <1>9, RpcTypes DEF HandleInstallSnapshot, TypeOK
    <2>2. /\ m.term \in Nat /\ index \in Nat /\ m.lastIncludedTerm \in Nat
          /\ m.data \in SUBSET Position
        BY <2>1 DEF InstallSnapshotRpc
    <2>3. /\ state' = [state EXCEPT ![i] = IF newer THEN "Follower" ELSE @]
          /\ currentTerm' = [currentTerm EXCEPT ![i] = m.term]
          /\ votedFor' = [votedFor EXCEPT ![i] = IF newer THEN Nil ELSE @]
          /\ received' = [received EXCEPT ![i] = TRUE]
          /\ UNCHANGED <<votes, leaderVars, serviceVars, processVars>>
        BY <1>9 DEF HandleInstallSnapshot
    <2>4. CASE /\ UNCHANGED <<log, lastIncludedIndex, lastIncludedTerm, commitVars>>
               /\ Persist(i)
               /\ Respond(m, InstallSnapshotReply(m, m.term))
        <3>1. /\ currentTerm' \in [Node -> Nat]
              /\ votedFor' \in [Node -> Node \cup {Nil}]
              /\ log' \in [Node -> Log]
              /\ lastIncludedIndex' \in [Node -> Nat]
              /\ lastIncludedTerm' \in [Node -> Nat]
            BY <2>2, <2>3, <2>4 DEF TypeOK
        <3>2. disk' \in [Node -> DiskState]
            BY <2>1, <2>4, <3>1, PersistKeepsType
        <3>3. InstallSnapshotReply(m, m.term) \in Rpc
            BY <2>1, <2>2, ReplyTypes DEF Rpc
        <3>4. rpcs' \subseteq Rpc
            BY <2>4, <3>3, RespondType
        <3> QED BY <2>3, <2>4, <3>1, <3>2, <3>4 DEF TypeOK
    <2>5. CASE /\ lastIncludedIndex' = [lastIncludedIndex EXCEPT ![i] = index]
               /\ lastIncludedTerm' = [lastIncludedTerm EXCEPT ![i] = m.lastIncludedTerm]
               /\ log' = [log EXCEPT ![i] = <<Dummy(m.lastIncludedTerm)>>]
               /\ commitIndex' = AtLeast(commitIndex, i, index)
               /\ lastApplied' = AtLeast(lastApplied, i, index)
               /\ PersistSnapshot(i, m.data)
               /\ rpcs' = (rpcs \ {m}) \cup {SnapshotMsg(m, m.term)}
        <3>1. <<Dummy(m.lastIncludedTerm)>> \in Log
            BY <2>2, DummyLog
        <3>2. /\ currentTerm' \in [Node -> Nat]
              /\ votedFor' \in [Node -> Node \cup {Nil}]
              /\ log' \in [Node -> Log]
              /\ lastIncludedIndex' \in [Node -> Nat]
              /\ lastIncludedTerm' \in [Node -> Nat]
            BY <2>2, <2>3, <2>5, <3>1 DEF TypeOK
        <3>3. commitIndex' \in [Node -> Nat] /\ lastApplied' \in [Node -> Nat]
            BY <2>2, <2>5 DEF AtLeast, TypeOK
        <3>4. disk' \in [Node -> DiskState]
            BY <2>1, <2>2, <2>5, <3>2, PersistType
        <3>5. SnapshotMsg(m, m.term) \in Rpc
            BY <2>1, <2>2, ReplyTypes DEF Rpc
        <3>6. rpcs' \subseteq Rpc
            BY <2>5, <3>5 DEF TypeOK
        <3> QED BY <2>3, <3>2, <3>3, <3>4, <3>6 DEF TypeOK
    <2> QED BY <1>9, <2>4, <2>5 DEF HandleInstallSnapshot
<1>10. ASSUME NEW m \in rpcs, HandleNewerTerm(m) PROVE TypeOK'
    <2> DEFINE i == m.from
    <2>1. i \in Node /\ m.replyTerm \in Nat
        BY <1>10, RpcTypes DEF HandleNewerTerm, TypeOK, RequestVoteReplyRpc,
                               AppendEntriesReplyRpc, InstallSnapshotReplyRpc
    <2>2. /\ BecomeFollower(i, m.replyTerm)
          /\ UNCHANGED <<log, lastIncludedIndex, lastIncludedTerm>>
          /\ Persist(i)
          /\ UNCHANGED <<received, votes, commitVars, leaderVars, serviceVars, processVars>>
          /\ rpcs' = rpcs \ {m}
        BY <1>10 DEF HandleNewerTerm, StepDown, Done
    <2> HIDE DEF i
    <2>3. /\ state' \in [Node -> {"Follower", "Candidate", "Leader"}]
          /\ currentTerm' \in [Node -> Nat]
          /\ votedFor' \in [Node -> Node \cup {Nil}]
        BY <2>1, <2>2, BecomeFollowerType
    <2>4. /\ log' \in [Node -> Log]
          /\ lastIncludedIndex' \in [Node -> Nat]
          /\ lastIncludedTerm' \in [Node -> Nat]
        BY <2>2 DEF TypeOK
    <2>5. disk' \in [Node -> DiskState]
        BY <2>1, <2>2, <2>3, <2>4, PersistKeepsType
    <2> QED BY <2>2, <2>3, <2>4, <2>5 DEF TypeOK
<1>11. ASSUME NEW m \in rpcs, HandleRequestVoteReply(m) PROVE TypeOK'
    <2> DEFINE i == m.from
    <2>1. i \in Node /\ m.to \in Node
        BY RpcTypes DEF TypeOK
    <2>2. /\ rpcs' = rpcs \ {m}
          /\ UNCHANGED <<persistentVars, received, commitVars, serviceVars, processVars>>
          /\ votes' = votes \/ votes' = [votes EXCEPT ![i] = votes[i] \cup {m.to}]
          /\ BecomeLeader(i) \/ UNCHANGED <<state, leaderVars>>
        BY <1>11 DEF HandleRequestVoteReply, Done
    <2> HIDE DEF i
    <2>3. votes' \in [Node -> SUBSET Node]
        <3>1. votes \in [Node -> SUBSET Node]
            BY DEF TypeOK
        <3>2. votes[i] \cup {m.to} \in SUBSET Node
            BY <2>1, <3>1
        <3> QED BY <2>1, <2>2, <3>1, <3>2
    <2>4. /\ state' \in [Node -> {"Follower", "Candidate", "Leader"}]
          /\ nextIndex' \in [Node -> [Node -> Nat]]
          /\ matchIndex' \in [Node -> [Node -> Nat]]
        BY <2>1, <2>2, BecomeLeaderType DEF TypeOK
    <2> QED BY <2>2, <2>3, <2>4 DEF TypeOK
<1>12. ASSUME NEW m \in rpcs, HandleAppendEntriesReply(m) PROVE TypeOK'
    <2> DEFINE i == m.from
               j == m.to
    <2>1. m \in AppendEntriesReplyRpc /\ i \in Node /\ j \in Node
        BY <1>12, RpcTypes DEF HandleAppendEntriesReply, TypeOK
    <2>2. m.match \in Nat /\ m.conflictIndex \in Nat
        BY <2>1 DEF AppendEntriesReplyRpc
    <2>3. Backoff(m, i) \in Nat
        <3>1. nextIndex[i][j] \in Nat
            BY <2>1 DEF TypeOK
        <3> QED BY <2>2, <3>1 DEF Backoff
    <2>4. /\ rpcs' = rpcs \ {m}
          /\ UNCHANGED <<persistentVars, roleVars, lastApplied, serviceVars, processVars>>
          /\ \/ UNCHANGED <<leaderVars, commitIndex>>
             \/ /\ matchIndex' = [matchIndex EXCEPT ![i][j] = m.match]
                /\ nextIndex' = [nextIndex EXCEPT ![i][j] = m.match + 1]
                /\ UpdateCommitIndex(i)
             \/ /\ nextIndex' = [nextIndex EXCEPT ![i][j] = Backoff(m, i)]
                /\ UNCHANGED <<matchIndex, commitIndex>>
        BY <1>12 DEF HandleAppendEntriesReply, Done
    <2> HIDE DEF i, j
    <2>5. nextIndex' \in [Node -> [Node -> Nat]] /\ matchIndex' \in [Node -> [Node -> Nat]]
        <3>1. nextIndex \in [Node -> [Node -> Nat]] /\ matchIndex \in [Node -> [Node -> Nat]]
            BY DEF TypeOK
        <3>2. m.match + 1 \in Nat
            BY <2>2
        <3>3. [matchIndex EXCEPT ![i][j] = m.match] \in [Node -> [Node -> Nat]]
            BY <2>1, <2>2, <3>1, PeerIndexType
        <3>4. [nextIndex EXCEPT ![i][j] = m.match + 1] \in [Node -> [Node -> Nat]]
            BY <2>1, <3>1, <3>2, PeerIndexType
        <3>5. [nextIndex EXCEPT ![i][j] = Backoff(m, i)] \in [Node -> [Node -> Nat]]
            BY <2>1, <2>3, <3>1, PeerIndexType
        <3> QED BY <2>4, <3>1, <3>3, <3>4, <3>5
    <2>6. commitIndex' \in [Node -> Nat]
        <3>1. log' \in [Node -> Log] /\ lastIncludedIndex' \in [Node -> Nat]
            BY <2>4 DEF TypeOK
        <3>2. UpdateCommitIndex(i) => commitIndex' \in [Node -> Nat]
            BY <2>1, <2>5, <3>1, UpdateCommitIndexType
        <3>3. commitIndex' = commitIndex => commitIndex' \in [Node -> Nat]
            BY DEF TypeOK
        <3> QED BY <2>4, <3>2, <3>3
    <2> QED BY <2>4, <2>5, <2>6 DEF TypeOK
<1>13. ASSUME NEW m \in rpcs, HandleInstallSnapshotReply(m) PROVE TypeOK'
    <2> DEFINE i == m.from
               j == m.to
               index == m.lastIncludedIndex
    <2>1. m \in InstallSnapshotReplyRpc /\ i \in Node /\ j \in Node
        BY <1>13, RpcTypes DEF HandleInstallSnapshotReply, TypeOK
    <2>2. index \in Nat
        BY <2>1 DEF InstallSnapshotReplyRpc
    <2>3. /\ rpcs' = rpcs \ {m}
          /\ UNCHANGED <<persistentVars, roleVars, lastApplied, serviceVars, processVars>>
          /\ \/ UNCHANGED <<leaderVars, commitIndex>>
             \/ /\ matchIndex' = [matchIndex EXCEPT ![i][j] = index]
                /\ nextIndex' = [nextIndex EXCEPT ![i][j] = index + 1]
                /\ UpdateCommitIndex(i)
        BY <1>13 DEF HandleInstallSnapshotReply, Done
    <2> HIDE DEF i, j, index
    <2>4. nextIndex' \in [Node -> [Node -> Nat]] /\ matchIndex' \in [Node -> [Node -> Nat]]
        <3>1. nextIndex \in [Node -> [Node -> Nat]] /\ matchIndex \in [Node -> [Node -> Nat]]
            BY DEF TypeOK
        <3>2. index + 1 \in Nat
            BY <2>2
        <3>3. [matchIndex EXCEPT ![i][j] = index] \in [Node -> [Node -> Nat]]
            BY <2>1, <2>2, <3>1, PeerIndexType
        <3>4. [nextIndex EXCEPT ![i][j] = index + 1] \in [Node -> [Node -> Nat]]
            BY <2>1, <3>1, <3>2, PeerIndexType
        <3> QED BY <2>3, <3>1, <3>3, <3>4
    <2>5. commitIndex' \in [Node -> Nat]
        <3>1. log' \in [Node -> Log] /\ lastIncludedIndex' \in [Node -> Nat]
            BY <2>3 DEF TypeOK
        <3>2. UpdateCommitIndex(i) => commitIndex' \in [Node -> Nat]
            BY <2>1, <2>4, <3>1, UpdateCommitIndexType
        <3>3. commitIndex' = commitIndex => commitIndex' \in [Node -> Nat]
            BY DEF TypeOK
        <3> QED BY <2>3, <3>2, <3>3
    <2> QED BY <2>3, <2>4, <2>5 DEF TypeOK
<1>14. ASSUME NEW i \in Node, ApplierTake(i) PROVE TypeOK'
    <2> DEFINE n == lastApplied[i] + 1
               offset == n - lastIncludedIndex[i]
    <2>1. n \in Nat /\ offset \in Int
        BY DEF TypeOK
    <2>2. offset \in 0 .. Len(log[i]) - 1 =>
              <<[index |-> n, entry |-> log[i][offset + 1]]>> \in Seq(Position)
        <3> SUFFICES ASSUME offset \in 0 .. Len(log[i]) - 1
                     PROVE  [index |-> n, entry |-> log[i][offset + 1]] \in Position
            OBVIOUS
        <3>1. /\ Len(log[i]) \in Nat
              /\ \A k \in 1 .. Len(log[i]) : log[i][k] \in Entry
            BY EntryTypes
        <3>2. offset + 1 \in 1 .. Len(log[i])
            BY <3>1
        <3>3. log[i][offset + 1] \in Entry
            BY <3>1, <3>2
        <3> QED BY <2>1, <3>3 DEF Position
    <2>3. /\ lastApplied' = [lastApplied EXCEPT ![i] = n]
          /\ \/ /\ offset \in 0 .. Len(log[i]) - 1
                /\ applyChan' = [applyChan EXCEPT ![i] =
                                    <<[index |-> n, entry |-> log[i][offset + 1]]>>]
                /\ UNCHANGED up
             \/ /\ up' = [up EXCEPT ![i] = FALSE]
                /\ UNCHANGED applyChan
          /\ UNCHANGED <<persistentVars, roleVars, commitIndex, leaderVars, applied, compacting,
                         elections, restarts, rpcs>>
        BY <1>14 DEF ApplierTake
    <2> HIDE DEF n, offset
    <2>4. applyChan' \in [Node -> Seq(Position)] /\ up' \in [Node -> BOOLEAN]
        <3>1. applyChan \in [Node -> Seq(Position)] /\ up \in [Node -> BOOLEAN]
            BY DEF TypeOK
        <3> QED BY <2>2, <2>3, <3>1
    <2>5. lastApplied' \in [Node -> Nat]
        BY <2>1, <2>3 DEF TypeOK
    <2> QED BY <2>3, <2>4, <2>5 DEF TypeOK
<1>15. ASSUME NEW i \in Node, ServiceApply(i) PROVE TypeOK'
    <2> DEFINE msg == applyChan[i][1]
               result == applied[i] \cup {m \in {msg} : m.entry.command # Nil}
    <2>1. msg \in Position
        <3>1. applyChan[i] \in Seq(Position) /\ applyChan[i] # << >>
            BY <1>15 DEF ServiceApply, TypeOK
        <3> QED BY <3>1
    <2>2. /\ applied' = [applied EXCEPT ![i] = result]
          /\ \/ UNCHANGED compacting
             \/ compacting' = [compacting EXCEPT ![i] = <<[index |-> msg.index, data |-> result]>>]
          /\ applyChan' = [applyChan EXCEPT ![i] = << >>]
          /\ UNCHANGED <<persistentVars, roleVars, commitVars, leaderVars, processVars, rpcs>>
        BY <1>15 DEF ServiceApply
    <2> HIDE DEF msg
    <2>3. result \in SUBSET Position
        <3>1. applied[i] \in SUBSET Position
            BY DEF TypeOK
        <3> QED BY <2>1, <3>1
    <2> HIDE DEF result
    <2>4. <<[index |-> msg.index, data |-> result]>> \in Seq(PendingSnapshot)
        <3>1. msg.index \in Nat
            BY <2>1 DEF Position
        <3>2. [index |-> msg.index, data |-> result] \in PendingSnapshot
            BY <2>3, <3>1 DEF PendingSnapshot
        <3> QED BY <3>2
    <2>5. applied' \in [Node -> SUBSET Position]
        BY <2>2, <2>3 DEF TypeOK
    <2>6. compacting' \in [Node -> Seq(PendingSnapshot)]
        <3>1. compacting \in [Node -> Seq(PendingSnapshot)]
            BY DEF TypeOK
        <3> QED BY <2>2, <2>4, <3>1
    <2>7. applyChan' \in [Node -> Seq(Position)]
        <3>1. applyChan \in [Node -> Seq(Position)]
            BY DEF TypeOK
        <3>2. << >> \in Seq(Position)
            OBVIOUS
        <3> QED BY <2>2, <3>1, <3>2
    <2> QED BY <2>2, <2>5, <2>6, <2>7 DEF TypeOK
<1>16. ASSUME NEW m \in rpcs, ServiceRestore(m) PROVE TypeOK'
    <2> DEFINE i == m.to
    <2>1. m \in SnapshotMsgRpc /\ i \in Node
        BY <1>16, RpcTypes DEF ServiceRestore, TypeOK
    <2>2. m.data \in SUBSET Position /\ m.replyTerm \in Nat
        BY <2>1 DEF SnapshotMsgRpc
    <2>3. /\ applied' = [applied EXCEPT ![i] = m.data]
          /\ Respond(m, InstallSnapshotReply(m, m.replyTerm))
          /\ UNCHANGED <<persistentVars, roleVars, commitVars, leaderVars, applyChan,
                         compacting, processVars>>
        BY <1>16 DEF ServiceRestore
    <2>4. InstallSnapshotReply(m, m.replyTerm) \in Rpc
        BY <2>1, <2>2, ReplyTypes DEF Rpc
    <2>5. rpcs' \subseteq Rpc
        BY <2>3, <2>4, RespondType
    <2> QED BY <2>2, <2>3, <2>5 DEF TypeOK
<1>17. ASSUME NEW i \in Node, Snapshot(i) PROVE TypeOK'
    <2> DEFINE call == compacting[i][1]
    <2>1. call.index \in Nat /\ call.data \in SUBSET Position
        <3>1. /\ compacting[i] \in Seq(PendingSnapshot)
              /\ compacting[i] # << >>
            BY <1>17 DEF Snapshot, TypeOK
        <3>2. Len(compacting[i]) \in Nat \ {0}
            BY <3>1, EmptySeq, LenProperties
        <3>3. call \in PendingSnapshot
            BY <3>1, <3>2, ElementOfSeq
        <3> QED BY <3>3 DEF PendingSnapshot
    <2>2. /\ \/ UNCHANGED persistentVars
             \/ /\ call.index > lastIncludedIndex[i]
                /\ Compact(i, call.index, call.data)
          /\ compacting' = [compacting EXCEPT ![i] = << >>]
          /\ UNCHANGED <<roleVars, commitVars, leaderVars, applyChan, applied, processVars, rpcs>>
        BY <1>17 DEF Snapshot
    <2> HIDE DEF call
    <2>3. compacting' \in [Node -> Seq(PendingSnapshot)]
        <3>1. compacting \in [Node -> Seq(PendingSnapshot)]
            BY DEF TypeOK
        <3>2. << >> \in Seq(PendingSnapshot)
            OBVIOUS
        <3> QED BY <2>2, <3>1, <3>2
    <2>4. CASE UNCHANGED persistentVars
        BY <2>2, <2>3, <2>4 DEF TypeOK
    <2>5. CASE call.index > lastIncludedIndex[i] /\ Compact(i, call.index, call.data)
        <3>1. /\ log' \in [Node -> Log]
              /\ lastIncludedIndex' \in [Node -> Nat]
              /\ lastIncludedTerm' \in [Node -> Nat]
              /\ disk' \in [Node -> DiskState]
              /\ UNCHANGED <<currentTerm, votedFor>>
            BY <2>1, <2>5, CompactType
        <3> QED BY <2>2, <2>3, <3>1 DEF TypeOK
    <2> QED BY <2>2, <2>4, <2>5
<1>18. ASSUME NEW m \in rpcs, Lose(m) PROVE TypeOK'
    BY <1>18 DEF Lose, Done, TypeOK
<1>19. ASSUME NEW i \in Node, Restart(i) PROVE TypeOK'
    <2> DEFINE d == IF StorageSurvives THEN disk[i] ELSE BlankDisk
    <2>1. d \in DiskState
        <3>1. disk[i] \in DiskState
            BY DEF TypeOK
        <3>2. BlankDisk \in DiskState
            <4>1. <<Dummy(0)>> \in Log
                BY DummyLog
            <4> QED BY <4>1 DEF BlankDisk, DiskState
        <3> QED BY <3>1, <3>2
    <2>2. /\ disk' = [disk EXCEPT ![i] = d]
          /\ restarts' = restarts + 1
          /\ UNCHANGED elections
          /\ up' = [up EXCEPT ![i] = TRUE]
          /\ currentTerm' = [currentTerm EXCEPT ![i] = d.currentTerm]
          /\ votedFor' = [votedFor EXCEPT ![i] = d.votedFor]
          /\ log' = [log EXCEPT ![i] = d.log]
          /\ lastIncludedIndex' = [lastIncludedIndex EXCEPT ![i] = d.lastIncludedIndex]
          /\ lastIncludedTerm' = [lastIncludedTerm EXCEPT ![i] = d.lastIncludedTerm]
          /\ applied' = [applied EXCEPT ![i] = d.snapshot]
          /\ state' = [state EXCEPT ![i] = "Follower"]
          /\ received' = [received EXCEPT ![i] = FALSE]
          /\ votes' = [votes EXCEPT ![i] = {}]
          /\ commitIndex' = [commitIndex EXCEPT ![i] = 0]
          /\ lastApplied' = [lastApplied EXCEPT ![i] = 0]
          /\ nextIndex' = [nextIndex EXCEPT ![i] = [j \in Node |-> 0]]
          /\ matchIndex' = [matchIndex EXCEPT ![i] = [j \in Node |-> 0]]
          /\ applyChan' = [applyChan EXCEPT ![i] = << >>]
          /\ compacting' = [compacting EXCEPT ![i] = << >>]
          /\ rpcs' = AfterCrash(i)
        BY <1>19 DEF Restart, Save
    <2> HIDE DEF d
    <2>3. /\ currentTerm' \in [Node -> Nat]
          /\ votedFor' \in [Node -> Node \cup {Nil}]
          /\ log' \in [Node -> Log]
          /\ lastIncludedIndex' \in [Node -> Nat]
          /\ lastIncludedTerm' \in [Node -> Nat]
          /\ applied' \in [Node -> SUBSET Position]
          /\ disk' \in [Node -> DiskState]
        <3>1. /\ d.currentTerm \in Nat /\ d.votedFor \in Node \cup {Nil} /\ d.log \in Log
              /\ d.lastIncludedIndex \in Nat /\ d.lastIncludedTerm \in Nat
              /\ d.snapshot \in SUBSET Position
            BY <2>1 DEF DiskState
        <3> QED BY <2>1, <2>2, <3>1 DEF TypeOK
    <2>4. /\ state' \in [Node -> {"Follower", "Candidate", "Leader"}]
          /\ received' \in [Node -> BOOLEAN]
          /\ votes' \in [Node -> SUBSET Node]
          /\ up' \in [Node -> BOOLEAN]
          /\ commitIndex' \in [Node -> Nat]
          /\ lastApplied' \in [Node -> Nat]
        BY <2>2 DEF TypeOK
    <2>5. /\ nextIndex' \in [Node -> [Node -> Nat]]
          /\ matchIndex' \in [Node -> [Node -> Nat]]
        <3>1. [j \in Node |-> 0] \in [Node -> Nat]
            OBVIOUS
        <3> QED BY <2>2, <3>1 DEF TypeOK
    <2>6. /\ applyChan' \in [Node -> Seq(Position)]
          /\ compacting' \in [Node -> Seq(PendingSnapshot)]
        <3>1. /\ applyChan \in [Node -> Seq(Position)]
              /\ compacting \in [Node -> Seq(PendingSnapshot)]
            BY DEF TypeOK
        <3>2. << >> \in Seq(Position) /\ << >> \in Seq(PendingSnapshot)
            OBVIOUS
        <3> QED BY <2>2, <3>1, <3>2
    <2>7. rpcs' \subseteq Rpc
        BY <2>2, AfterCrashType
    <2>8. elections' \in Nat /\ restarts' \in Nat
        BY <2>2 DEF TypeOK
    <2> QED BY <2>3, <2>4, <2>5, <2>6, <2>7, <2>8 DEF TypeOK
<1>20. CASE UNCHANGED vars
    BY <1>20 DEF vars, TypeOK
<1> QED BY <1>1, <1>2, <1>3, <1>4, <1>5, <1>6, <1>7, <1>8, <1>9, <1>10, <1>11, <1>12, <1>13,
           <1>14, <1>15, <1>16, <1>17, <1>18, <1>19, <1>20 DEF Next, NodeStep, CallStep

\* rf.log has its dummy entry, and every variable a value of its Go type, in every
\* reachable state: getLastLogTerm and the slices of rf.log never meet an empty log.
THEOREM TypeCorrect == Spec => []TypeOK
<1>1. Init => TypeOK
    BY InitType
<1>2. TypeOK /\ [Next]_vars => TypeOK'
    BY TypeStep
<1> QED BY <1>1, <1>2, PTL DEF Spec

-----------------------------------------------------------------------------
(***************************************************************************)
(* Elections.  ElectionInv is the inductive invariant: the voter remembers *)
(* every vote that a candidate has counted or that is on its way to one.   *)
(* Three steps touch a grant: an election starts, a vote is cast, a vote   *)
(* is counted.  Every other step only moves terms forward, ends campaigns  *)
(* and loses replies, and KeptByQuietStep deals with all of them at once.  *)
(***************************************************************************)

\* What a step does to the terms and votes: no node forgets a vote within its term.
VoteKept ==
    \A j \in Node :
        /\ currentTerm[j] <= currentTerm'[j]
        /\ currentTerm'[j] = currentTerm[j] /\ votedFor[j] # Nil => votedFor'[j] = votedFor[j]

\* A node that campaigns after the step did so before it, with the same votes.
CampaignKept ==
    \A j \in Node :
        Campaigning(j)' => /\ state'[j] = state[j]
                           /\ currentTerm'[j] = currentTerm[j]
                           /\ votes'[j] = votes[j]

NoNewGrant == \A m \in rpcs' : Grant(m) => m \in rpcs

QuietStep == VoteKept /\ CampaignKept /\ NoNewGrant

ElectionParts == GrantsRemembered /\ GrantsUnique /\ LeadersElected

-----------------------------------------------------------------------------
(* Votes are remembered. *)

LEMMA StandsByVote ==
    ASSUME TypeOK, TypeOK', VoteKept,
           NEW j \in Node, NEW i \in Node, NEW t \in Nat, Remembers(j, i, t)
    PROVE  Remembers(j, i, t)'
<1>1. /\ currentTerm[j] \in Nat /\ currentTerm'[j] \in Nat
      /\ currentTerm[j] <= currentTerm'[j]
      /\ currentTerm'[j] = currentTerm[j] /\ votedFor[j] # Nil => votedFor'[j] = votedFor[j]
    BY DEF TypeOK, VoteKept
<1>2. t <= currentTerm[j] /\ (t = currentTerm[j] => votedFor[j] = i)
    BY DEF Remembers
<1>3. t <= currentTerm'[j]
    BY <1>1, <1>2
<1>4. t = currentTerm'[j] => votedFor'[j] = i
    <2> SUFFICES ASSUME t = currentTerm'[j] PROVE votedFor'[j] = i
        OBVIOUS
    <2>1. t = currentTerm[j]
        BY <1>1, <1>2
    <2>2. votedFor[j] = i /\ i # Nil
        BY <1>2, <2>1, NilAssumption
    <2> QED BY <1>1, <2>1, <2>2
<1> QED BY <1>3, <1>4 DEF Remembers

\* The fields of a vote on its way.
LEMMA GrantType ==
    ASSUME TypeOK, NEW m \in rpcs, Grant(m)
    PROVE  m \in RequestVoteReplyRpc /\ m.from \in Node /\ m.to \in Node /\ m.term \in Nat
<1>1. m \in RequestVoteReplyRpc
    BY RpcTypes DEF TypeOK, Grant
<1> QED BY <1>1 DEF RequestVoteReplyRpc

LEMMA KeptByQuietStep ==
    ASSUME TypeOK, TypeOK', ElectionParts, QuietStep
    PROVE  ElectionParts'
<1> USE DEF ElectionParts, QuietStep
<1>1. GrantsRemembered'
    <2>1. ASSUME NEW i \in Node, Campaigning(i)', NEW j \in votes'[i]
          PROVE  Remembers(j, i, currentTerm[i])'
        <3>1. /\ Campaigning(i) /\ j \in votes[i]
              /\ currentTerm'[i] = currentTerm[i] /\ currentTerm[i] \in Nat /\ j \in Node
            BY <2>1 DEF CampaignKept, Campaigning, TypeOK
        <3>2. PICK t \in Nat : t = currentTerm[i]
            BY <3>1
        <3>3. Remembers(j, i, t)
            BY <3>1, <3>2 DEF GrantsRemembered
        <3>4. Remembers(j, i, t)'
            BY <3>1, <3>2, <3>3, StandsByVote
        <3> QED BY <3>1, <3>2, <3>4 DEF Remembers
    <2>2. ASSUME NEW m \in rpcs', Grant(m) PROVE Remembers(m.to, m.from, m.term)'
        <3>1. m \in rpcs
            BY <2>2 DEF NoNewGrant
        <3>2. m.from \in Node /\ m.to \in Node /\ m.term \in Nat
            BY <2>2, <3>1, GrantType
        <3>3. Remembers(m.to, m.from, m.term)
            BY <2>2, <3>1 DEF GrantsRemembered
        <3> QED BY <3>2, <3>3, StandsByVote
    <2> QED BY <2>1, <2>2 DEF GrantsRemembered, Grant
<1>2. GrantsUnique'
    <2>1. \A i \in Node : Campaigning(i)' => /\ Campaigning(i)
                                             /\ currentTerm'[i] = currentTerm[i]
                                             /\ votes'[i] = votes[i]
        BY DEF CampaignKept, Campaigning
    <2>2. \A m \in rpcs' : Grant(m) => m \in rpcs
        BY DEF NoNewGrant
    <2> QED BY <2>1, <2>2 DEF GrantsUnique, Campaigning, Grant
<1>3. LeadersElected'
    BY DEF CampaignKept, Campaigning, LeadersElected, IsMajority
<1> QED BY <1>1, <1>2, <1>3

-----------------------------------------------------------------------------
(* Storage keeps up with memory. *)

LEMMA DurableKept ==
    ASSUME Durable, UNCHANGED persistentVars
    PROVE  Durable'
BY DEF Durable, InMemory, persistentVars

LEMMA PersistDurable ==
    ASSUME TypeOK, Durable, NEW i \in Node, NEW data, PersistSnapshot(i, data),
           \A j \in Node \ {i} : /\ currentTerm'[j] = currentTerm[j]
                                /\ votedFor'[j] = votedFor[j]
                                /\ log'[j] = log[j]
                                /\ lastIncludedIndex'[j] = lastIncludedIndex[j]
                                /\ lastIncludedTerm'[j] = lastIncludedTerm[j]
    PROVE  Durable'
<1>1. disk' = [disk EXCEPT ![i] = Encoded(i, data)]
    BY DEF PersistSnapshot, Save
<1>2. disk'[i] = Encoded(i, data)
    BY <1>1 DEF TypeOK
<1>3. disk'[i] = InMemory(i)'
    BY <1>2 DEF Encoded, InMemory
<1>4. ASSUME NEW j \in Node \ {i} PROVE disk'[j] = InMemory(j)'
    <2>1. disk'[j] = disk[j]
        BY <1>1 DEF TypeOK
    <2>2. disk[j] = InMemory(j)
        BY DEF Durable
    <2> QED BY <2>1, <2>2 DEF InMemory
<1> QED BY <1>3, <1>4 DEF Durable

-----------------------------------------------------------------------------
(* The quiet steps. *)

\* i moves to a term that is not lower, or stays in its own with its vote.
MovesTo(i, t) ==
    /\ t >= currentTerm[i]
    /\ currentTerm' = [currentTerm EXCEPT ![i] = t]
    /\ votedFor' = [votedFor EXCEPT ![i] = IF t > currentTerm[i] THEN Nil ELSE @]

LEMMA MovesKeepVotes ==
    ASSUME TypeOK, NEW i \in Node, NEW t \in Nat, MovesTo(i, t)
    PROVE  VoteKept
<1>1. currentTerm[i] \in Nat /\ t >= currentTerm[i]
    BY DEF MovesTo, TypeOK
<1>2. /\ currentTerm'[i] = t
      /\ votedFor'[i] = IF t > currentTerm[i] THEN Nil ELSE votedFor[i]
    BY DEF MovesTo, TypeOK
<1>3. ASSUME NEW j \in Node, j # i
      PROVE  /\ currentTerm'[j] = currentTerm[j] /\ currentTerm[j] \in Nat
             /\ votedFor'[j] = votedFor[j]
    BY <1>3 DEF MovesTo, TypeOK
<1>4. ASSUME NEW j \in Node, j # i
      PROVE  currentTerm[j] <= currentTerm'[j]
    BY <1>3, <1>4
<1>5. currentTerm[i] <= currentTerm'[i]
    BY <1>1, <1>2
<1>6. currentTerm'[i] = currentTerm[i] => votedFor'[i] = votedFor[i]
    BY <1>1, <1>2
<1> QED BY <1>3, <1>4, <1>5, <1>6 DEF VoteKept

LEMMA StillKeepsVotes ==
    ASSUME TypeOK, UNCHANGED <<currentTerm, votedFor>>
    PROVE  VoteKept
BY DEF VoteKept, TypeOK

\* A handler's answer that grants no vote.
LEMMA RespondNoGrant ==
    ASSUME NEW m, NEW r, Respond(m, r), ~Grant(r)
    PROVE  NoNewGrant
BY DEF NoNewGrant, Respond

\* Calls are requests: issuing them grants nothing.
LEMMA SendNoGrant ==
    ASSUME NEW new, Send(new), \A m \in new : ~Grant(m)
    PROVE  NoNewGrant
BY DEF NoNewGrant, Send

LEMMA NodeStepQuiet ==
    ASSUME TypeOK, Durable, NEW i \in Node,
           \/ QuietTick(i)
           \/ \E j \in Node : SendAppendEntries(i, j) \/ SendInstallSnapshot(i, j)
           \/ \E command \in Value : Start(i, command)
           \/ ApplierTake(i)
           \/ ServiceApply(i)
           \/ Snapshot(i)
    PROVE  Durable' /\ QuietStep
<1> USE DEF persistentVars, roleVars
<1>1. UNCHANGED <<currentTerm, votedFor, state, votes>> /\ NoNewGrant => QuietStep
    BY StillKeepsVotes DEF QuietStep, CampaignKept
<1>2. CASE QuietTick(i)
    BY <1>1, <1>2, DurableKept DEF QuietTick, NoNewGrant
<1>3. ASSUME NEW j \in Node, SendAppendEntries(i, j) PROVE Durable' /\ QuietStep
    <2>1. NoNewGrant
        BY <1>3, SendNoGrant DEF SendAppendEntries, AppendEntriesCall, Grant
    <2> QED BY <1>1, <1>3, <2>1, DurableKept DEF SendAppendEntries
<1>4. ASSUME NEW j \in Node, SendInstallSnapshot(i, j) PROVE Durable' /\ QuietStep
    <2>1. NoNewGrant
        BY <1>4, SendNoGrant DEF SendInstallSnapshot, InstallSnapshotCall, Grant
    <2> QED BY <1>1, <1>4, <2>1, DurableKept DEF SendInstallSnapshot
<1>5. ASSUME NEW command \in Value, Start(i, command) PROVE Durable' /\ QuietStep
    <2>1. Persist(i) /\ UNCHANGED <<currentTerm, votedFor, lastIncludedIndex, lastIncludedTerm,
                                    state, votes, rpcs>>
        BY <1>5 DEF Start
    <2>2. \A j \in Node \ {i} : log'[j] = log[j]
        BY <1>5 DEF Start, TypeOK
    <2>3. Durable'
        BY <2>1, <2>2, PersistDurable DEF Persist
    <2> QED BY <1>1, <2>1, <2>3 DEF NoNewGrant
<1>6. CASE ApplierTake(i)
    BY <1>1, <1>6, DurableKept DEF ApplierTake, NoNewGrant
<1>7. CASE ServiceApply(i)
    BY <1>1, <1>7, DurableKept DEF ServiceApply, NoNewGrant
<1>8. CASE Snapshot(i)
    <2>1. UNCHANGED <<state, votes, rpcs>>
        BY <1>8 DEF Snapshot
    <2>2. CASE UNCHANGED persistentVars
        BY <1>1, <2>1, <2>2, DurableKept DEF NoNewGrant
    <2>3. CASE \E index, data : Compact(i, index, data)
        <3>1. PICK index, data : Compact(i, index, data)
            BY <2>3
        <3>2. /\ UNCHANGED <<currentTerm, votedFor>>
              /\ PersistSnapshot(i, data)
              /\ \A j \in Node \ {i} : /\ log'[j] = log[j]
                                       /\ lastIncludedIndex'[j] = lastIncludedIndex[j]
                                       /\ lastIncludedTerm'[j] = lastIncludedTerm[j]
            BY <3>1 DEF Compact, TypeOK
        <3>3. Durable'
            BY <3>2, PersistDurable
        <3> QED BY <1>1, <2>1, <3>2, <3>3 DEF NoNewGrant
    <2> QED BY <1>8, <2>2, <2>3 DEF Snapshot
<1> QED BY <1>2, <1>3, <1>4, <1>5, <1>6, <1>7, <1>8

LEMMA CallStepQuiet ==
    ASSUME TypeOK, Durable, NEW m \in rpcs,
           \/ RejectStale(m)
           \/ HandleAppendEntries(m)
           \/ HandleInstallSnapshot(m)
           \/ HandleNewerTerm(m)
           \/ HandleAppendEntriesReply(m)
           \/ HandleInstallSnapshotReply(m)
           \/ ServiceRestore(m)
           \/ Lose(m)
    PROVE  Durable' /\ QuietStep
<1> USE DEF persistentVars, roleVars
<1>1. UNCHANGED <<currentTerm, votedFor, state, votes>> /\ NoNewGrant => QuietStep
    BY StillKeepsVotes DEF QuietStep, CampaignKept
<1>2. m \in Rpc
    BY DEF TypeOK
<1>3. \A S : rpcs' = rpcs \ S => NoNewGrant
    BY DEF NoNewGrant
<1>4. CASE RejectStale(m)
    <2>1. PICK r : Respond(m, r) /\ ~Grant(r)
        BY <1>4 DEF RejectStale, RequestVoteReply, AppendEntriesReply, InstallSnapshotReply, Grant
    <2> QED BY <1>1, <1>4, <2>1, RespondNoGrant, DurableKept DEF RejectStale
<1>5. CASE HandleAppendEntries(m)
    <2> DEFINE i == m.to
               t == m.term
    <2>1. HearLeader(m)
        BY <1>5 DEF HandleAppendEntries, RejectAppendEntries, AcceptAppendEntries
    <2>2. i \in Node /\ t \in Nat
        BY <1>2, <2>1, RpcTypes DEF HearLeader, AppendEntriesRpc
    <2>3. /\ t >= currentTerm[i]
          /\ state' = [state EXCEPT ![i] = "Follower"]
          /\ currentTerm' = [currentTerm EXCEPT ![i] = IF t > @ THEN t ELSE @]
          /\ votedFor' = [votedFor EXCEPT ![i] = IF t > currentTerm[i] THEN Nil ELSE @]
          /\ UNCHANGED <<lastIncludedIndex, lastIncludedTerm>>
        BY <2>1 DEF HearLeader, BecomeFollower
    <2>4. /\ Persist(i)
          /\ UNCHANGED votes
          /\ \A j \in Node \ {i} : log'[j] = log[j]
          /\ \E r : Respond(m, r) /\ ~Grant(r)
        <3>1. \A ok, c : ~Grant(AppendEntriesReply(m, m.term, ok, c))
            BY DEF AppendEntriesReply, Grant
        <3>2. CASE RejectAppendEntries(m)
            <4>1. Persist(i) /\ UNCHANGED <<votes, log>>
                BY <3>2 DEF RejectAppendEntries
            <4>2. \E c : Respond(m, AppendEntriesReply(m, m.term, FALSE, c))
                BY <3>2 DEF RejectAppendEntries
            <4> QED BY <3>1, <4>1, <4>2
        <3>3. CASE AcceptAppendEntries(m)
            <4>1. /\ Persist(i) /\ UNCHANGED votes
                  /\ log' = [log EXCEPT ![i] = NewLog(m, i)]
                  /\ Respond(m, AppendEntriesReply(m, m.term, TRUE, 0))
                BY <3>3 DEF AcceptAppendEntries
            <4>2. \A j \in Node \ {i} : log'[j] = log[j]
                BY <4>1 DEF TypeOK
            <4> QED BY <3>1, <4>1, <4>2
        <3> QED BY <1>5, <3>2, <3>3 DEF HandleAppendEntries
    <2> HIDE DEF i, t
    <2>5. (IF t > currentTerm[i] THEN t ELSE currentTerm[i]) = t
        BY <2>2, <2>3 DEF TypeOK
    <2>6. MovesTo(i, t)
        BY <2>3, <2>5 DEF MovesTo, TypeOK
    <2>7. VoteKept
        BY <2>2, <2>6, MovesKeepVotes
    <2>8. CampaignKept
        <3>1. \A j \in Node \ {i} : state'[j] = state[j] /\ currentTerm'[j] = currentTerm[j]
            BY <2>3 DEF TypeOK
        <3>2. state'[i] = "Follower"
            BY <2>2, <2>3 DEF TypeOK
        <3> QED BY <2>4, <3>1, <3>2 DEF CampaignKept, Campaigning
    <2>9. Durable'
        <3>1. \A j \in Node \ {i} : /\ currentTerm'[j] = currentTerm[j]
                                   /\ votedFor'[j] = votedFor[j]
            BY <2>3 DEF TypeOK
        <3> QED BY <2>2, <2>3, <2>4, <3>1, PersistDurable DEF Persist
    <2>10. NoNewGrant
        BY <2>4, RespondNoGrant
    <2> QED BY <2>7, <2>8, <2>9, <2>10 DEF QuietStep
<1>6. CASE HandleInstallSnapshot(m)
    <2> DEFINE i == m.to
               t == m.term
    <2>1. i \in Node /\ t \in Nat
        BY <1>2, <1>6, RpcTypes DEF HandleInstallSnapshot, InstallSnapshotRpc
    <2>2. /\ t >= currentTerm[i]
          /\ state' = [state EXCEPT ![i] = IF t > currentTerm[i] THEN "Follower" ELSE @]
          /\ currentTerm' = [currentTerm EXCEPT ![i] = t]
          /\ votedFor' = [votedFor EXCEPT ![i] = IF t > currentTerm[i] THEN Nil ELSE @]
          /\ UNCHANGED votes
        BY <1>6 DEF HandleInstallSnapshot
    <2>3. /\ \E data : PersistSnapshot(i, data)
          /\ \A j \in Node \ {i} : /\ log'[j] = log[j]
                                   /\ lastIncludedIndex'[j] = lastIncludedIndex[j]
                                   /\ lastIncludedTerm'[j] = lastIncludedTerm[j]
        BY <1>6 DEF HandleInstallSnapshot, Persist, TypeOK
    <2>4. NoNewGrant
        BY <1>6, RespondNoGrant DEF HandleInstallSnapshot, InstallSnapshotReply, SnapshotMsg,
                                    Grant, NoNewGrant
    <2> HIDE DEF i, t
    <2>5. VoteKept
        BY <2>1, <2>2, MovesKeepVotes DEF MovesTo
    <2>6. CampaignKept
        <3>1. \A j \in Node \ {i} : state'[j] = state[j] /\ currentTerm'[j] = currentTerm[j]
            BY <2>2 DEF TypeOK
        <3>2. /\ currentTerm'[i] = t /\ currentTerm[i] \in Nat
              /\ state'[i] = IF t > currentTerm[i] THEN "Follower" ELSE state[i]
            BY <2>1, <2>2 DEF TypeOK
        <3>3. Campaigning(i)' => state'[i] = state[i] /\ currentTerm'[i] = currentTerm[i]
            BY <2>1, <2>2, <3>2 DEF Campaigning
        <3> QED BY <2>2, <3>1, <3>3 DEF CampaignKept
    <2>7. Durable'
        <3>1. \A j \in Node \ {i} : /\ currentTerm'[j] = currentTerm[j]
                                   /\ votedFor'[j] = votedFor[j]
            BY <2>2 DEF TypeOK
        <3> QED BY <2>1, <2>3, <3>1, PersistDurable
    <2> QED BY <2>4, <2>5, <2>6, <2>7 DEF QuietStep
<1>7. CASE HandleNewerTerm(m)
    <2> DEFINE i == m.from
               t == m.replyTerm
    <2>1. i \in Node /\ t \in Nat
        BY <1>2, <1>7, RpcTypes DEF HandleNewerTerm, RequestVoteReplyRpc, AppendEntriesReplyRpc,
                                    InstallSnapshotReplyRpc
    <2>2. /\ t > currentTerm[i]
          /\ state' = [state EXCEPT ![i] = "Follower"]
          /\ currentTerm' = [currentTerm EXCEPT ![i] = IF t > @ THEN t ELSE @]
          /\ votedFor' = [votedFor EXCEPT ![i] = IF t > currentTerm[i] THEN Nil ELSE @]
          /\ UNCHANGED <<log, lastIncludedIndex, lastIncludedTerm, votes>>
          /\ Persist(i)
          /\ rpcs' = rpcs \ {m}
        BY <1>7 DEF HandleNewerTerm, StepDown, BecomeFollower, Done
    <2> HIDE DEF i, t
    <2>3. MovesTo(i, t)
        BY <2>1, <2>2 DEF MovesTo, TypeOK
    <2>4. VoteKept
        BY <2>1, <2>3, MovesKeepVotes
    <2>5. CampaignKept
        <3>1. \A j \in Node \ {i} : state'[j] = state[j] /\ currentTerm'[j] = currentTerm[j]
            BY <2>2 DEF TypeOK
        <3>2. state'[i] = "Follower"
            BY <2>1, <2>2 DEF TypeOK
        <3> QED BY <2>2, <3>1, <3>2 DEF CampaignKept, Campaigning
    <2>6. Durable'
        <3>1. \A j \in Node \ {i} : /\ currentTerm'[j] = currentTerm[j]
                                   /\ votedFor'[j] = votedFor[j]
            BY <2>2 DEF TypeOK
        <3> QED BY <2>1, <2>2, <3>1, PersistDurable DEF Persist
    <2> QED BY <1>3, <2>2, <2>4, <2>5, <2>6 DEF QuietStep
<1>8. CASE HandleAppendEntriesReply(m)
    BY <1>1, <1>3, <1>8, DurableKept DEF HandleAppendEntriesReply, Done
<1>9. CASE HandleInstallSnapshotReply(m)
    BY <1>1, <1>3, <1>9, DurableKept DEF HandleInstallSnapshotReply, Done
<1>10. CASE ServiceRestore(m)
    <2>1. NoNewGrant
        BY <1>10, RespondNoGrant DEF ServiceRestore, InstallSnapshotReply, Grant
    <2> QED BY <1>1, <1>10, <2>1, DurableKept DEF ServiceRestore
<1>11. CASE Lose(m)
    BY <1>1, <1>3, <1>11, DurableKept DEF Lose, Done
<1> QED BY <1>4, <1>5, <1>6, <1>7, <1>8, <1>9, <1>10, <1>11

\* A node that finds what it saved comes back with its term and its vote.
LEMMA RestartQuiet ==
    ASSUME StorageSurvives, TypeOK, Durable, NEW i \in Node, Restart(i)
    PROVE  Durable' /\ QuietStep
<1> DEFINE d == disk[i]
<1>1. /\ d.currentTerm = currentTerm[i]
      /\ d.votedFor = votedFor[i]
      /\ d.log = log[i]
      /\ d.lastIncludedIndex = lastIncludedIndex[i]
      /\ d.lastIncludedTerm = lastIncludedTerm[i]
    <2>1. disk[i] = InMemory(i)
        BY DEF Durable
    <2> QED BY <2>1 DEF InMemory
<1>2. /\ disk' = [disk EXCEPT ![i] = d]
      /\ currentTerm' = [currentTerm EXCEPT ![i] = d.currentTerm]
      /\ votedFor' = [votedFor EXCEPT ![i] = d.votedFor]
      /\ log' = [log EXCEPT ![i] = d.log]
      /\ lastIncludedIndex' = [lastIncludedIndex EXCEPT ![i] = d.lastIncludedIndex]
      /\ lastIncludedTerm' = [lastIncludedTerm EXCEPT ![i] = d.lastIncludedTerm]
      /\ state' = [state EXCEPT ![i] = "Follower"]
      /\ votes' = [votes EXCEPT ![i] = {}]
      /\ rpcs' = AfterCrash(i)
    BY DEF Restart, Save
<1>3. UNCHANGED persistentVars
    BY <1>1, <1>2 DEF persistentVars, TypeOK
<1>4. VoteKept
    BY <1>3, StillKeepsVotes DEF persistentVars
<1>5. CampaignKept
    <2>1. \A j \in Node \ {i} : state'[j] = state[j] /\ votes'[j] = votes[j]
        BY <1>2 DEF TypeOK
    <2>2. state'[i] = "Follower"
        BY <1>2 DEF TypeOK
    <2> QED BY <1>3, <2>1, <2>2 DEF CampaignKept, Campaigning, persistentVars
<1>6. NoNewGrant
    <2> DEFINE orphan(n) == [n EXCEPT !.live = FALSE]
    <2>1. ASSUME NEW n \in rpcs, n.type \in {"RequestVote", "AppendEntries", "InstallSnapshot",
                                            "SnapshotMsg"}
          PROVE  orphan(n).type = n.type
        <3>1. n \in Rpc
            BY DEF TypeOK
        <3> QED BY <2>1, <3>1, RpcTypes DEF RequestVoteRpc, AppendEntriesRpc, InstallSnapshotRpc,
                                            SnapshotMsgRpc
    <2> HIDE DEF orphan
    <2>2. \A m \in rpcs' :
              \/ m \in rpcs
              \/ \E n \in rpcs : /\ n.type \in {"RequestVote", "AppendEntries",
                                              "InstallSnapshot", "SnapshotMsg"}
                                /\ m = orphan(n)
        BY <1>2 DEF AfterCrash, orphan
    <2> QED BY <2>1, <2>2 DEF NoNewGrant, Grant
<1> QED BY <1>3, <1>4, <1>5, <1>6, DurableKept DEF QuietStep

-----------------------------------------------------------------------------
(* The three steps that touch a grant. *)

\* A node that starts an election votes for itself in a term nobody has seen it in.
LEMMA ElectionTimeoutStep ==
    ASSUME TypeOK, TypeOK', Durable, ElectionParts, NEW i \in Node, ElectionTimeout(i)
    PROVE  Durable' /\ VoteKept /\ ElectionParts'
<1> DEFINE t == currentTerm[i] + 1
<1>1. /\ currentTerm' = [currentTerm EXCEPT ![i] = t]
      /\ votedFor' = [votedFor EXCEPT ![i] = i]
      /\ votes' = [votes EXCEPT ![i] = {i}]
      /\ UNCHANGED <<log, lastIncludedIndex, lastIncludedTerm>>
      /\ Persist(i)
    BY DEF ElectionTimeout
<1>2. \/ IsMajority({i})
      \/ state' = [state EXCEPT ![i] = "Candidate"]
    BY DEF ElectionTimeout
<1>3. \E role : state' = [state EXCEPT ![i] = role]
    BY DEF ElectionTimeout, BecomeLeader
<1>4. NoNewGrant
    <2>1. \A j : ~Grant(RequestVoteCall(i, j))
        BY DEF RequestVoteCall, Grant
    <2>2. rpcs' = rpcs => NoNewGrant
        BY DEF NoNewGrant
    <2>3. \A peers : Send({RequestVoteCall(i, j) : j \in peers}) => NoNewGrant
        BY <2>1, SendNoGrant
    <2> QED BY <2>2, <2>3 DEF ElectionTimeout
<1>5. /\ t \in Nat /\ currentTerm[i] \in Nat /\ currentTerm'[i] = t /\ t > currentTerm[i]
      /\ votedFor'[i] = i /\ votes'[i] = {i}
    BY <1>1 DEF TypeOK
<1> HIDE DEF t
<1>6. ASSUME NEW j \in Node, j # i
      PROVE  /\ currentTerm'[j] = currentTerm[j] /\ currentTerm[j] \in Nat
             /\ votedFor'[j] = votedFor[j] /\ votes'[j] = votes[j] /\ state'[j] = state[j]
    BY <1>1, <1>3, <1>6 DEF TypeOK
<1>7. Durable'
    BY <1>1, <1>6, PersistDurable DEF Persist
<1>8. VoteKept
    <2>1. ASSUME NEW j \in Node, j # i
          PROVE  currentTerm[j] <= currentTerm'[j] /\ votedFor'[j] = votedFor[j]
        BY <1>6, <2>1
    <2>2. currentTerm[i] <= currentTerm'[i] /\ currentTerm'[i] # currentTerm[i]
        BY <1>5
    <2> QED BY <2>1, <2>2 DEF VoteKept
<1>9. GrantsRemembered'
    <2>1. ASSUME NEW k \in Node, Campaigning(k)', NEW j \in votes'[k]
          PROVE  Remembers(j, k, currentTerm[k])'
        <3>1. CASE k = i
            BY <1>5, <2>1, <3>1 DEF Remembers
        <3>2. CASE k # i
            <4>1. /\ Campaigning(k) /\ j \in votes[k] /\ j \in Node
                  /\ currentTerm'[k] = currentTerm[k] /\ currentTerm[k] \in Nat
                BY <1>6, <2>1, <3>2 DEF Campaigning, TypeOK
            <4>2. PICK u \in Nat : u = currentTerm[k]
                BY <4>1
            <4>3. Remembers(j, k, u)
                BY <4>1, <4>2 DEF ElectionParts, GrantsRemembered
            <4>4. Remembers(j, k, u)'
                BY <1>8, <4>1, <4>2, <4>3, StandsByVote
            <4> QED BY <4>1, <4>2, <4>4 DEF Remembers
        <3> QED BY <3>1, <3>2
    <2>2. ASSUME NEW m \in rpcs', Grant(m) PROVE Remembers(m.to, m.from, m.term)'
        <3>1. m \in rpcs
            BY <1>4, <2>2 DEF NoNewGrant
        <3>2. m.from \in Node /\ m.to \in Node /\ m.term \in Nat
            BY <2>2, <3>1, GrantType
        <3>3. Remembers(m.to, m.from, m.term)
            BY <2>2, <3>1 DEF ElectionParts, GrantsRemembered
        <3> QED BY <1>8, <3>2, <3>3, StandsByVote
    <2> QED BY <2>1, <2>2 DEF GrantsRemembered, Grant
<1>10. GrantsUnique'
    \* No vote of i in its new term has been counted or is on its way.
    <2>1. ASSUME NEW k \in Node, k # i, Campaigning(k), currentTerm[k] = t PROVE i \notin votes[k]
        <3>1. i \in votes[k] => Remembers(i, k, t)
            BY <2>1 DEF ElectionParts, GrantsRemembered
        <3>2. ~(t <= currentTerm[i])
            BY <1>5, <1>6, <2>1
        <3> QED BY <3>1, <3>2 DEF Remembers
    <2>2. ASSUME NEW m \in rpcs, Grant(m), m.term = t PROVE m.to # i
        <3>1. Remembers(m.to, m.from, t)
            BY <2>2 DEF ElectionParts, GrantsRemembered
        <3>2. t \in Nat /\ ~(t <= currentTerm[i])
            BY <1>5, <2>2, GrantType
        <3> QED BY <3>1, <3>2 DEF Remembers
    <2>3. \A k \in Node : k # i => /\ Campaigning(k)' = Campaigning(k)
                                  /\ currentTerm'[k] = currentTerm[k] /\ votes'[k] = votes[k]
        BY <1>6 DEF Campaigning
    <2>4. \A m \in rpcs' : Grant(m) => m \in rpcs
        BY <1>4 DEF NoNewGrant
    <2>5. ASSUME NEW j \in Node, NEW k \in Node, Campaigning(j)', Campaigning(k)',
                 currentTerm'[j] = currentTerm'[k], j # k
          PROVE  votes'[j] \cap votes'[k] = {}
        <3>1. CASE j = i
            BY <1>5, <2>1, <2>3, <2>5, <3>1
        <3>2. CASE k = i
            BY <1>5, <2>1, <2>3, <2>5, <3>2
        <3>3. CASE j # i /\ k # i
            BY <2>3, <2>5, <3>3 DEF ElectionParts, GrantsUnique
        <3> QED BY <3>1, <3>2, <3>3
    <2>6. ASSUME NEW k \in Node, NEW m \in rpcs', Campaigning(k)', Grant(m),
                 m.term = currentTerm'[k], m.from # k
          PROVE  m.to \notin votes'[k]
        <3>1. CASE k = i
            BY <1>5, <2>2, <2>4, <2>6, <3>1
        <3>2. CASE k # i
            BY <2>3, <2>4, <2>6, <3>2 DEF ElectionParts, GrantsUnique
        <3> QED BY <3>1, <3>2
    <2>7. ASSUME NEW m \in rpcs', NEW n \in rpcs', Grant(m), Grant(n), m.to = n.to, m.term = n.term
          PROVE  m.from = n.from
        BY <2>4, <2>7 DEF ElectionParts, GrantsUnique
    <2> QED BY <2>5, <2>6, <2>7 DEF GrantsUnique, Grant
<1>11. LeadersElected'
    <2>1. state'[i] = "Leader" => IsMajority(votes'[i])
        BY <1>2, <1>5 DEF TypeOK
    <2>2. ASSUME NEW j \in Node, j # i, state'[j] = "Leader" PROVE IsMajority(votes'[j])
        BY <1>6, <2>2 DEF ElectionParts, LeadersElected
    <2> QED BY <2>1, <2>2 DEF LeadersElected, IsMajority
<1> QED BY <1>7, <1>8, <1>9, <1>10, <1>11 DEF ElectionParts

\* A voter that grants has not voted for anyone else in the term.
LEMMA HandleRequestVoteStep ==
    ASSUME TypeOK, TypeOK', Durable, ElectionParts, NEW m \in rpcs, HandleRequestVote(m)
    PROVE  Durable' /\ VoteKept /\ ElectionParts'
<1> DEFINE i == m.to
           c == m.from
           t == m.term
           granted == MayGrant(m, i)
           r == RequestVoteReply(m, t, granted)
<1>1. i \in Node /\ c \in Node /\ t \in Nat
    BY RpcTypes DEF HandleRequestVote, TypeOK, RequestVoteRpc
<1>2. /\ t >= currentTerm[i]
      /\ state' = [state EXCEPT ![i] = IF t > currentTerm[i] THEN "Follower" ELSE @]
      /\ currentTerm' = [currentTerm EXCEPT ![i] = t]
      /\ votedFor' = [votedFor EXCEPT ![i] = IF granted THEN c ELSE VoteIn(m, i)]
      /\ UNCHANGED <<log, lastIncludedIndex, lastIncludedTerm, votes>>
      /\ Persist(i)
      /\ Respond(m, r)
    BY DEF HandleRequestVote
<1>3. granted => VoteIn(m, i) \in {Nil, c}
    BY DEF MayGrant
<1>4. VoteIn(m, i) = IF t > currentTerm[i] THEN Nil ELSE votedFor[i]
    BY DEF VoteIn
<1>5. /\ Grant(r) <=> granted
      /\ r.from = c /\ r.to = i /\ r.term = t
    BY DEF Grant, RequestVoteReply, MayGrant, UpToDate
<1>6. \A n \in rpcs' : n \in rpcs \/ n = r
    BY <1>2 DEF Respond
<1> HIDE DEF granted, r, i, c, t
<1>7. /\ currentTerm[i] \in Nat /\ currentTerm'[i] = t
      /\ votedFor'[i] = IF granted THEN c ELSE VoteIn(m, i)
      /\ state'[i] = IF t > currentTerm[i] THEN "Follower" ELSE state[i]
    BY <1>1, <1>2 DEF TypeOK
<1>8. ASSUME NEW j \in Node, j # i
      PROVE  /\ currentTerm'[j] = currentTerm[j] /\ currentTerm[j] \in Nat
             /\ votedFor'[j] = votedFor[j] /\ state'[j] = state[j]
    BY <1>2, <1>8 DEF TypeOK
<1>9. Durable'
    BY <1>1, <1>2, <1>8, PersistDurable DEF Persist
<1>10. VoteKept
    <2>1. currentTerm'[i] = currentTerm[i] /\ votedFor[i] # Nil => votedFor'[i] = votedFor[i]
        BY <1>1, <1>3, <1>4, <1>7
    <2>2. currentTerm[i] <= currentTerm'[i]
        BY <1>1, <1>2, <1>7
    <2>3. ASSUME NEW j \in Node, j # i
          PROVE  currentTerm[j] <= currentTerm'[j] /\ votedFor'[j] = votedFor[j]
        BY <1>8, <2>3
    <2> QED BY <2>1, <2>2, <2>3 DEF VoteKept
<1>11. \A j \in Node : Campaigning(j)' => /\ Campaigning(j) /\ state'[j] = state[j]
                                         /\ currentTerm'[j] = currentTerm[j]
                                         /\ votes'[j] = votes[j]
    <2>1. Campaigning(i)' => state'[i] = state[i] /\ currentTerm'[i] = currentTerm[i]
        BY <1>1, <1>2, <1>7 DEF Campaigning
    <2> QED BY <1>2, <1>8, <2>1 DEF Campaigning
<1>12. GrantsRemembered'
    <2>1. ASSUME NEW k \in Node, Campaigning(k)', NEW j \in votes'[k]
          PROVE  Remembers(j, k, currentTerm[k])'
        <3>1. /\ Campaigning(k) /\ j \in votes[k] /\ j \in Node
              /\ currentTerm'[k] = currentTerm[k] /\ currentTerm[k] \in Nat
            BY <1>11, <2>1 DEF TypeOK
        <3>2. PICK u \in Nat : u = currentTerm[k]
            BY <3>1
        <3>3. Remembers(j, k, u)
            BY <3>1, <3>2 DEF ElectionParts, GrantsRemembered
        <3>4. Remembers(j, k, u)'
            BY <1>10, <3>1, <3>2, <3>3, StandsByVote
        <3> QED BY <3>1, <3>2, <3>4 DEF Remembers
    <2>2. ASSUME NEW n \in rpcs', Grant(n) PROVE Remembers(n.to, n.from, n.term)'
        <3>1. CASE n \in rpcs
            <4>1. n.from \in Node /\ n.to \in Node /\ n.term \in Nat
                BY <2>2, <3>1, GrantType
            <4>2. Remembers(n.to, n.from, n.term)
                BY <2>2, <3>1 DEF ElectionParts, GrantsRemembered
            <4> QED BY <1>10, <4>1, <4>2, StandsByVote
        <3>2. CASE n = r
            BY <1>1, <1>5, <1>7, <2>2, <3>2 DEF Remembers
        <3> QED BY <1>6, <3>1, <3>2
    <2> QED BY <2>1, <2>2 DEF GrantsRemembered, Grant
<1>13. GrantsUnique'
    \* Whoever holds a vote of i in term t is the candidate that i grants now.
    <2>1. ASSUME granted, NEW k \in Node, Remembers(i, k, t) PROVE k = c
        <3>1. t = currentTerm[i] /\ votedFor[i] = k
            BY <1>1, <1>2, <1>7, <2>1 DEF Remembers
        <3>2. VoteIn(m, i) = k
            BY <1>4, <1>7, <3>1
        <3> QED BY <1>3, <2>1, <3>2, NilAssumption
    <2>2. ASSUME granted, NEW k \in Node, Campaigning(k), currentTerm[k] = t, i \in votes[k]
          PROVE  k = c
        BY <2>1, <2>2 DEF ElectionParts, GrantsRemembered
    <2>3. ASSUME granted, NEW n \in rpcs, Grant(n), n.to = i, n.term = t PROVE n.from = c
        <3>1. Remembers(i, n.from, t)
            BY <2>3 DEF ElectionParts, GrantsRemembered
        <3> QED BY <2>1, <2>3, <3>1, GrantType
    <2>4. ASSUME NEW j \in Node, NEW k \in Node, Campaigning(j)', Campaigning(k)',
                 currentTerm'[j] = currentTerm'[k], j # k
          PROVE  votes'[j] \cap votes'[k] = {}
        BY <1>11, <2>4 DEF ElectionParts, GrantsUnique
    <2>5. ASSUME NEW k \in Node, NEW n \in rpcs', Campaigning(k)', Grant(n),
                 n.term = currentTerm'[k], n.from # k
          PROVE  n.to \notin votes'[k]
        <3>1. CASE n \in rpcs
            BY <1>11, <2>5, <3>1 DEF ElectionParts, GrantsUnique
        <3>2. CASE n = r
            BY <1>5, <1>11, <2>2, <2>5, <3>2
        <3> QED BY <1>6, <3>1, <3>2
    <2>6. ASSUME NEW n \in rpcs', NEW o \in rpcs', Grant(n), Grant(o), n.to = o.to, n.term = o.term
          PROVE  n.from = o.from
        <3>1. CASE n \in rpcs /\ o \in rpcs
            BY <2>6, <3>1 DEF ElectionParts, GrantsUnique
        <3>2. CASE n \in rpcs /\ o = r
            BY <1>5, <2>3, <2>6, <3>2
        <3>3. CASE n = r /\ o \in rpcs
            BY <1>5, <2>3, <2>6, <3>3
        <3>4. CASE n = r /\ o = r
            BY <3>4
        <3> QED BY <1>6, <3>1, <3>2, <3>3, <3>4
    <2> QED BY <2>4, <2>5, <2>6 DEF GrantsUnique, Grant
<1>14. LeadersElected'
    BY <1>11 DEF ElectionParts, LeadersElected, Campaigning, IsMajority
<1> QED BY <1>9, <1>10, <1>12, <1>13, <1>14 DEF ElectionParts

\* A vote that is counted moves from its reply into votes.
LEMMA HandleRequestVoteReplyStep ==
    ASSUME TypeOK, TypeOK', Durable, ElectionParts, NEW m \in rpcs, HandleRequestVoteReply(m)
    PROVE  Durable' /\ VoteKept /\ ElectionParts'
<1> DEFINE i == m.from
           j == m.to
           ballot == votes[i] \cup {j}
           counted == state[i] = "Candidate" /\ m.term = currentTerm[i] /\ m.voteGranted
<1>1. /\ m.type = "RequestVoteReply"
      /\ UNCHANGED persistentVars
      /\ rpcs' = rpcs \ {m}
      /\ \/ /\ counted
            /\ votes' = [votes EXCEPT ![i] = ballot]
            /\ \/ IsMajority(ballot) /\ state' = [state EXCEPT ![i] = "Leader"]
               \/ UNCHANGED state
         \/ UNCHANGED <<state, votes>>
    BY DEF HandleRequestVoteReply, Done, BecomeLeader
<1>2. UNCHANGED <<currentTerm, votedFor>>
    BY <1>1 DEF persistentVars
<1>3. Durable' /\ VoteKept /\ NoNewGrant
    BY <1>1, <1>2, DurableKept, StillKeepsVotes DEF NoNewGrant
<1>4. CASE UNCHANGED <<state, votes>>
    <2>1. QuietStep
        BY <1>2, <1>3, <1>4 DEF QuietStep, CampaignKept
    <2> QED BY <1>3, <2>1, KeptByQuietStep
<1>5. CASE /\ counted
           /\ votes' = [votes EXCEPT ![i] = ballot]
           /\ \/ IsMajority(ballot) /\ state' = [state EXCEPT ![i] = "Leader"]
              \/ UNCHANGED state
    <2>1. /\ i \in Node /\ j \in Node /\ Grant(m) /\ m.term = currentTerm[i]
          /\ state[i] = "Candidate" /\ Campaigning(i)
        BY <1>1, <1>5, RpcTypes DEF TypeOK, Grant, Campaigning
    <2>2. /\ votes'[i] = ballot
          /\ \A k \in Node : k # i => votes'[k] = votes[k] /\ state'[k] = state[k]
        <3>1. votes' = [votes EXCEPT ![i] = ballot]
            BY <1>5
        <3>2. state' = state \/ state' = [state EXCEPT ![i] = "Leader"]
            BY <1>5
        <3> HIDE DEF ballot, i
        <3>3. votes'[i] = ballot /\ \A k \in Node : k # i => votes'[k] = votes[k]
            BY <2>1, <3>1 DEF TypeOK
        <3>4. \A k \in Node : k # i => state'[k] = state[k]
            BY <3>2 DEF TypeOK
        <3> QED BY <3>3, <3>4
    <2>3. \A k \in Node : Campaigning(k)' => Campaigning(k)
        BY <2>1, <2>2 DEF Campaigning
    <2>4. \A n \in rpcs' : n \in rpcs
        BY <1>1
    <2> HIDE DEF ballot, counted, i, j
    <2>5. \A k, l, u : Remembers(k, l, u)' <=> Remembers(k, l, u)
        BY <1>2 DEF Remembers
    <2>6. ballot = votes[i] \cup {j}
        BY DEF ballot
    <2>7. m.from = i /\ m.to = j
        BY DEF i, j
    <2>8. GrantsRemembered'
        <3>1. ASSUME NEW k \in Node, Campaigning(k)', NEW v \in votes'[k]
              PROVE  Remembers(v, k, currentTerm[k])
            <4>1. CASE v \in votes[k]
                BY <2>3, <3>1, <4>1 DEF ElectionParts, GrantsRemembered
            <4>2. CASE k = i /\ v = j
                BY <2>1, <2>7, <4>2 DEF ElectionParts, GrantsRemembered
            <4> QED BY <2>2, <2>6, <3>1, <4>1, <4>2
        <3>2. ASSUME NEW n \in rpcs', Grant(n) PROVE Remembers(n.to, n.from, n.term)
            BY <2>4, <3>2 DEF ElectionParts, GrantsRemembered
        <3> QED BY <1>2, <3>1, <3>2 DEF GrantsRemembered, Grant, Remembers
    <2>9. GrantsUnique'
        <3>1. ASSUME NEW k \in Node, k # i, Campaigning(k), currentTerm[k] = currentTerm[i]
              PROVE  ballot \cap votes[k] = {}
            <4>1. votes[i] \cap votes[k] = {}
                BY <2>1, <3>1 DEF ElectionParts, GrantsUnique
            <4>2. j \notin votes[k]
                BY <2>1, <2>7, <3>1 DEF ElectionParts, GrantsUnique
            <4> QED BY <2>6, <4>1, <4>2
        <3>2. ASSUME NEW n \in rpcs, Grant(n), n.term = currentTerm[i], n.from # i
              PROVE  n.to \notin ballot
            <4>1. n.to \notin votes[i]
                BY <2>1, <3>2 DEF ElectionParts, GrantsUnique
            <4>2. n.to # j
                BY <2>1, <2>7, <3>2 DEF ElectionParts, GrantsUnique
            <4> QED BY <2>6, <4>1, <4>2
        <3>3. ASSUME NEW k \in Node, NEW l \in Node, Campaigning(k)', Campaigning(l)',
                     currentTerm'[k] = currentTerm'[l], k # l
              PROVE  votes'[k] \cap votes'[l] = {}
            <4>1. currentTerm[k] = currentTerm[l] /\ Campaigning(k) /\ Campaigning(l)
                BY <1>2, <2>3, <3>3
            <4>2. CASE k = i
                BY <2>2, <3>1, <3>3, <4>1, <4>2
            <4>3. CASE l = i
                BY <2>2, <3>1, <3>3, <4>1, <4>3
            <4>4. CASE k # i /\ l # i
                BY <2>2, <3>3, <4>1, <4>4 DEF ElectionParts, GrantsUnique
            <4> QED BY <4>2, <4>3, <4>4
        <3>4. ASSUME NEW k \in Node, NEW n \in rpcs', Campaigning(k)', Grant(n),
                     n.term = currentTerm'[k], n.from # k
              PROVE  n.to \notin votes'[k]
            <4>1. n.term = currentTerm[k] /\ Campaigning(k) /\ n \in rpcs
                BY <1>2, <2>3, <2>4, <3>4
            <4>2. CASE k = i
                BY <2>2, <3>2, <3>4, <4>1, <4>2
            <4>3. CASE k # i
                BY <2>2, <3>4, <4>1, <4>3 DEF ElectionParts, GrantsUnique
            <4> QED BY <4>2, <4>3
        <3>5. ASSUME NEW n \in rpcs', NEW o \in rpcs', Grant(n), Grant(o), n.to = o.to, n.term = o.term
              PROVE  n.from = o.from
            BY <2>4, <3>5 DEF ElectionParts, GrantsUnique
        <3> QED BY <3>3, <3>4, <3>5 DEF GrantsUnique, Grant
    <2>10. LeadersElected'
        <3>1. state'[i] = "Leader" => IsMajority(votes'[i])
            BY <1>5, <2>1, <2>2
        <3>2. ASSUME NEW k \in Node, k # i, state'[k] = "Leader" PROVE IsMajority(votes'[k])
            BY <2>2, <3>2 DEF ElectionParts, LeadersElected
        <3> QED BY <3>1, <3>2 DEF LeadersElected, IsMajority
    <2> QED BY <1>3, <2>8, <2>9, <2>10 DEF ElectionParts
<1> QED BY <1>1, <1>4, <1>5

-----------------------------------------------------------------------------
(* The theorems. *)

LEMMA InitInv == Init => ElectionInv
<1> SUFFICES ASSUME Init PROVE ElectionInv
    OBVIOUS
<1>1. TypeOK
    BY InitType
<1>2. Durable
    BY DEF Init, Durable, InMemory, BlankDisk
<1>3. GrantsRemembered /\ GrantsUnique /\ LeadersElected
    BY DEF Init, GrantsRemembered, GrantsUnique, LeadersElected, Campaigning
<1> QED BY <1>1, <1>2, <1>3 DEF ElectionInv

\* Every step keeps the invariant, and every vote.
LEMMA InvStep ==
    ASSUME StorageSurvives, ElectionInv, [Next]_vars
    PROVE  ElectionInv' /\ VoteKept
<1>1. TypeOK /\ Durable /\ ElectionParts
    BY DEF ElectionInv, ElectionParts
<1>2. TypeOK'
    BY <1>1, TypeStep
<1>3. Durable' /\ QuietStep => Durable' /\ VoteKept /\ ElectionParts'
    BY <1>1, <1>2, KeptByQuietStep DEF QuietStep
<1>4. ASSUME NEW i \in Node, NodeStep(i) PROVE Durable' /\ VoteKept /\ ElectionParts'
    <2>1. CASE ElectionTimeout(i)
        BY <1>1, <1>2, <2>1, ElectionTimeoutStep
    <2>2. CASE Restart(i)
        BY <1>1, <1>3, <2>2, RestartQuiet
    <2>3. CASE ~ElectionTimeout(i) /\ ~Restart(i)
        BY <1>1, <1>3, <1>4, <2>3, NodeStepQuiet DEF NodeStep
    <2> QED BY <2>1, <2>2, <2>3
<1>5. ASSUME NEW m \in rpcs, CallStep(m) PROVE Durable' /\ VoteKept /\ ElectionParts'
    <2>1. CASE HandleRequestVote(m)
        BY <1>1, <1>2, <2>1, HandleRequestVoteStep
    <2>2. CASE HandleRequestVoteReply(m)
        BY <1>1, <1>2, <2>2, HandleRequestVoteReplyStep
    <2>3. CASE ~HandleRequestVote(m) /\ ~HandleRequestVoteReply(m)
        BY <1>1, <1>3, <1>5, <2>3, CallStepQuiet DEF CallStep
    <2> QED BY <2>1, <2>2, <2>3
<1>6. ASSUME UNCHANGED vars PROVE Durable' /\ VoteKept /\ ElectionParts'
    <2>1. Durable'
        BY <1>1, <1>6, DurableKept DEF vars
    <2>2. QuietStep
        BY <1>1, <1>6, StillKeepsVotes DEF vars, persistentVars, roleVars, QuietStep, CampaignKept,
                                           NoNewGrant
    <2> QED BY <1>3, <2>1, <2>2
<1>7. Durable' /\ VoteKept /\ ElectionParts'
    BY <1>4, <1>5, <1>6 DEF Next
<1> QED BY <1>2, <1>7 DEF ElectionInv, ElectionParts

LEMMA InvImpliesSafety == ElectionInv => ElectionSafety
<1> SUFFICES ASSUME ElectionInv, NEW i \in Node, NEW j \in Node, i # j,
                    state[i] = "Leader", state[j] = "Leader", currentTerm[i] = currentTerm[j]
             PROVE  FALSE
    BY DEF ElectionSafety
<1>1. votes[i] \subseteq Node /\ votes[j] \subseteq Node
    BY DEF ElectionInv, TypeOK
<1>2. votes[i] \cap votes[j] = {}
    BY DEF ElectionInv, GrantsUnique, Campaigning
<1>3. IsMajority(votes[i]) /\ IsMajority(votes[j])
    BY DEF ElectionInv, LeadersElected
<1>4. /\ IsFiniteSet(Node) /\ Cardinality(Node) \in Nat
      /\ Cardinality(votes[i]) \in Nat /\ Cardinality(votes[j]) \in Nat
    BY <1>1, NodeAssumption, FS_Subset, FS_CardinalityType
<1>5. Cardinality(votes[i]) + Cardinality(votes[j]) > Cardinality(Node)
    BY <1>3, <1>4 DEF IsMajority
<1> QED BY <1>1, <1>2, <1>4, <1>5, FS_MajoritiesIntersect

\* ElectionInv is inductive: votes cast, counted and on their way agree with what the
\* voters remember, in memory and on disk, between any two critical sections.
THEOREM ElectionInvariant == StorageSurvives /\ Spec => []ElectionInv
<1> SUFFICES ASSUME StorageSurvives PROVE Spec => []ElectionInv
    OBVIOUS
<1>1. ElectionInv /\ [Next]_vars => ElectionInv'
    BY InvStep
<1> QED BY <1>1, InitInv, PTL DEF Spec

\* No two nodes lead the same term, for any number of nodes, terms, calls in flight and
\* restarts: startElection counts a majority and RequestVote grants one vote per term.
THEOREM OneLeaderPerTerm == StorageSurvives /\ Spec => []ElectionSafety
BY ElectionInvariant, InvImpliesSafety, PTL

\* No node takes back a vote within its term or falls back to an earlier term, across
\* restarts too: persist runs before the reply to RequestVote leaves.
THEOREM VotesAreFinal == StorageSurvives /\ Spec => VoteOnce
<1> SUFFICES ASSUME StorageSurvives PROVE Spec => VoteOnce
    OBVIOUS
<1> DEFINE Kept ==
        \A i \in Node :
          /\ currentTerm'[i] >= currentTerm[i]
          /\ currentTerm'[i] = currentTerm[i] /\ votedFor[i] # Nil => votedFor'[i] = votedFor[i]
<1>1. ElectionInv /\ ElectionInv' /\ [Next]_vars => [Kept]_vars
    <2> SUFFICES ASSUME ElectionInv, ElectionInv', [Next]_vars PROVE Kept
        OBVIOUS
    <2>1. VoteKept
        BY InvStep
    <2>2. \A i \in Node : currentTerm[i] \in Nat /\ currentTerm'[i] \in Nat
        BY DEF ElectionInv, TypeOK
    <2> QED BY <2>1, <2>2 DEF VoteKept
<1> QED BY <1>1, ElectionInvariant, PTL DEF Spec, VoteOnce

-----------------------------------------------------------------------------
(***************************************************************************)
(* Snapshots.  Only the applier, InstallSnapshot, Snapshot and a restart   *)
(* move what SnapshotInv is about; every other step saves the snapshot it  *)
(* finds (KeptByStillSnapshots).                                           *)
(***************************************************************************)

SnapshotWithin(i) ==
    /\ NotBeyond(disk[i].snapshot, disk[i].lastIncludedIndex)
    /\ disk[i].lastIncludedIndex <= lastIncludedIndex[i]

IsBehind(i) ==
    /\ Reached(i, applied[i], lastApplied[i])
    /\ applyChan[i] # << >> => /\ applyChan[i][1].index <= lastApplied[i]
                               /\ Reached(i, applied[i], applyChan[i][1].index)
    /\ compacting[i] # << >> => /\ compacting[i][1].index <= lastApplied[i]
                                /\ Reached(i, compacting[i][1].data, compacting[i][1].index)

SentWithin(m) ==
    /\ m.type \in {"InstallSnapshot", "SnapshotMsg"} => NotBeyond(m.data, m.lastIncludedIndex)
    /\ m.type = "SnapshotMsg" => m.lastIncludedIndex <= lastIncludedIndex[m.to]

PartsHold ==
    /\ \A i \in Node : SnapshotWithin(i) /\ IsBehind(i)
    /\ \A m \in rpcs : SentWithin(m)

LEMMA SnapshotParts == SnapshotInv <=> PartsHold
BY DEF PartsHold, SnapshotInv, SnapshotsWithin, ServiceBehind, SnapshotsSentWithin,
       SnapshotWithin, IsBehind, SentWithin

\* A step of i alone.
LEMMA KeptByOthers ==
    ASSUME SnapshotInv, NEW i \in Node, SnapshotWithin(i)', IsBehind(i)',
           \A j \in Node \ {i} : /\ lastIncludedIndex'[j] = lastIncludedIndex[j]
                                 /\ disk'[j] = disk[j] /\ lastApplied'[j] = lastApplied[j]
                                 /\ applied'[j] = applied[j] /\ applyChan'[j] = applyChan[j]
                                 /\ compacting'[j] = compacting[j],
           \A m \in rpcs' : SentWithin(m)'
    PROVE  SnapshotInv'
<1>1. \A j \in Node \ {i} : SnapshotWithin(j)'
    BY SnapshotParts DEF PartsHold, SnapshotWithin
<1>2. ASSUME NEW j \in Node \ {i} PROVE IsBehind(j)'
    <2>1. IsBehind(j)
        BY SnapshotParts DEF PartsHold
    <2> QED BY <2>1 DEF IsBehind, Reached
<1>3. \A j \in Node : SnapshotWithin(j)' /\ IsBehind(j)'
    BY <1>1, <1>2
<1>4. (SnapshotInv <=> PartsHold)'
    BY SnapshotParts, PTL
<1>5. PartsHold'
    BY <1>3 DEF PartsHold
<1> QED BY <1>4, <1>5

\* A call stays a call while the index of its receiver's snapshot does not fall.
LEMMA SentStays ==
    ASSUME SnapshotInv, TypeOK, TypeOK', NEW k \in rpcs, NEW m, m.type = k.type, m.to = k.to,
           k.type \in {"InstallSnapshot", "SnapshotMsg"} =>
               m.data = k.data /\ m.lastIncludedIndex = k.lastIncludedIndex,
           k.type = "SnapshotMsg" => lastIncludedIndex[k.to] <= lastIncludedIndex'[k.to]
    PROVE  SentWithin(m)'
<1>1. SentWithin(k) /\ k \in Rpc
    BY SnapshotParts DEF PartsHold, TypeOK
<1>2. CASE k.type = "SnapshotMsg"
    <2>1. k.to \in Node /\ k.lastIncludedIndex \in Nat
        BY <1>1, <1>2, RpcTypes DEF SnapshotMsgRpc
    <2>2. lastIncludedIndex[k.to] \in Nat /\ lastIncludedIndex'[k.to] \in Nat
        BY <2>1 DEF TypeOK
    <2>3. m.lastIncludedIndex <= lastIncludedIndex'[m.to]
        BY <1>1, <1>2, <2>1, <2>2 DEF SentWithin
    <2> QED BY <1>1, <1>2, <2>3 DEF SentWithin
<1> QED BY <1>1, <1>2 DEF SentWithin

\* What persist() leaves as it is.
StillSnapshots ==
    /\ UNCHANGED <<lastIncludedIndex, lastApplied, applyChan, applied, compacting>>
    /\ \A i \in Node : /\ disk'[i].snapshot = disk[i].snapshot
                       /\ disk'[i].lastIncludedIndex \in
                              {disk[i].lastIncludedIndex, lastIncludedIndex[i]}

NoSnapshotSent ==
    \A m \in rpcs' : m \in rpcs \/ m.type \notin {"InstallSnapshot", "SnapshotMsg"}

LEMMA DiskIndexType ==
    ASSUME TypeOK, NEW i \in Node
    PROVE  /\ lastIncludedIndex[i] \in Nat /\ disk[i].lastIncludedIndex \in Nat
           /\ lastApplied[i] \in Nat /\ applied[i] \in SUBSET Position
           /\ disk[i].snapshot \in SUBSET Position
           /\ \A p \in Position : p.index \in Nat
BY DEF TypeOK, DiskState, Position

LEMMA PendingTypes ==
    ASSUME TypeOK, NEW i \in Node
    PROVE  /\ applyChan[i] # << >> => applyChan[i][1] \in Position /\ applyChan[i][1].index \in Nat
           /\ compacting[i] # << >> => /\ compacting[i][1].index \in Nat
                                       /\ \A p \in compacting[i][1].data : p.index \in Nat
<1>1. applyChan[i] \in Seq(Position) /\ compacting[i] \in Seq(PendingSnapshot)
    BY DEF TypeOK
<1>2. applyChan[i] # << >> => applyChan[i][1] \in Position
    BY <1>1, ElementOfSeq, EmptySeq, LenProperties
<1>3. compacting[i] # << >> => compacting[i][1] \in PendingSnapshot
    BY <1>1, ElementOfSeq, EmptySeq, LenProperties
<1> QED BY <1>2, <1>3 DEF Position, PendingSnapshot

LEMMA KeptByStillSnapshots ==
    ASSUME SnapshotInv, TypeOK, TypeOK', StillSnapshots, NoSnapshotSent
    PROVE  SnapshotInv'
<1>1. ASSUME NEW i \in Node PROVE SnapshotWithin(i)'
    <2>1. SnapshotWithin(i)
        BY SnapshotParts DEF PartsHold
    <2>2. disk'[i].lastIncludedIndex = disk[i].lastIncludedIndex
          \/ disk'[i].lastIncludedIndex = lastIncludedIndex[i]
        BY DEF StillSnapshots
    <2>3. lastIncludedIndex'[i] = lastIncludedIndex[i] /\ disk'[i].snapshot = disk[i].snapshot
        BY DEF StillSnapshots
    <2> QED BY <2>1, <2>2, <2>3, DiskIndexType DEF SnapshotWithin, NotBeyond
<1>2. ASSUME NEW i \in Node PROVE IsBehind(i)'
    <2>1. IsBehind(i)
        BY SnapshotParts DEF PartsHold
    <2> QED BY <2>1 DEF IsBehind, Reached, StillSnapshots
<1>3. ASSUME NEW m \in rpcs' PROVE SentWithin(m)'
    <2>1. CASE m \in rpcs
        <3>1. m.to \in Node
            BY <2>1, RpcTypes DEF TypeOK
        <3>2. lastIncludedIndex[m.to] <= lastIncludedIndex'[m.to]
            BY <3>1, DiskIndexType DEF StillSnapshots
        <3> QED BY <2>1, <3>2, SentStays
    <2>2. CASE m.type \notin {"InstallSnapshot", "SnapshotMsg"}
        BY <2>2 DEF SentWithin
    <2> QED BY <2>1, <2>2 DEF NoSnapshotSent
<1>4. (SnapshotInv <=> PartsHold)'
    BY SnapshotParts, PTL
<1>5. PartsHold'
    BY <1>1, <1>2, <1>3 DEF PartsHold
<1> QED BY <1>4, <1>5

LEMMA PersistStill ==
    ASSUME TypeOK, NEW i \in Node, Persist(i), UNCHANGED lastIncludedIndex,
           UNCHANGED <<lastApplied, applyChan, applied, compacting>>
    PROVE  StillSnapshots
<1>1. Encoded(i, disk[i].snapshot).snapshot = disk[i].snapshot
      /\ Encoded(i, disk[i].snapshot).lastIncludedIndex = lastIncludedIndex[i]
    BY DEF Encoded
<1>2. disk' = [disk EXCEPT ![i] = Encoded(i, disk[i].snapshot)]
    BY DEF Persist, PersistSnapshot, Save
<1>3. disk'[i] = Encoded(i, disk[i].snapshot) /\ \A j \in Node \ {i} : disk'[j] = disk[j]
    BY <1>2 DEF TypeOK
<1>4. ASSUME NEW j \in Node
      PROVE  /\ disk'[j].snapshot = disk[j].snapshot
             /\ disk'[j].lastIncludedIndex \in {disk[j].lastIncludedIndex, lastIncludedIndex[j]}
    BY <1>1, <1>3
<1> QED BY <1>4 DEF StillSnapshots

LEMMA DiskStill ==
    ASSUME UNCHANGED <<lastIncludedIndex, disk, lastApplied, applyChan, applied, compacting>>
    PROVE  StillSnapshots
BY DEF StillSnapshots

\* A step of i that sends no call, and may end some.
LEMMA CallsStay ==
    ASSUME SnapshotInv, TypeOK, TypeOK', rpcs' \subseteq rpcs,
           \A j \in Node : lastIncludedIndex[j] <= lastIncludedIndex'[j],
           NEW m \in rpcs'
    PROVE  SentWithin(m)'
<1>1. m \in rpcs /\ m.to \in Node
    BY RpcTypes DEF TypeOK
<1> QED BY <1>1, SentStays

LEMMA QuietNodeStep ==
    ASSUME TypeOK, NEW i \in Node,
           \/ ElectionTimeout(i)
           \/ QuietTick(i)
           \/ \E j \in Node : SendAppendEntries(i, j)
           \/ \E command \in Value : Start(i, command)
    PROVE  StillSnapshots /\ NoSnapshotSent
<1> USE DEF persistentVars, roleVars, commitVars, serviceVars, leaderVars
<1>1. CASE ElectionTimeout(i)
    <2>1. StillSnapshots
        BY <1>1, PersistStill DEF ElectionTimeout
    <2>2. \A peers : Send({RequestVoteCall(i, j) : j \in peers}) => NoSnapshotSent
        BY DEF Send, NoSnapshotSent, RequestVoteCall
    <2>3. UNCHANGED rpcs => NoSnapshotSent
        BY DEF NoSnapshotSent
    <2> QED BY <1>1, <2>1, <2>2, <2>3 DEF ElectionTimeout
<1>2. CASE QuietTick(i)
    BY <1>2, DiskStill DEF QuietTick, NoSnapshotSent
<1>3. ASSUME NEW j \in Node, SendAppendEntries(i, j) PROVE StillSnapshots /\ NoSnapshotSent
    <2>1. AppendEntriesCall(i, j).type = "AppendEntries"
        BY DEF AppendEntriesCall
    <2> QED BY <1>3, <2>1, DiskStill DEF SendAppendEntries, Send, NoSnapshotSent
<1>4. ASSUME NEW command \in Value, Start(i, command) PROVE StillSnapshots /\ NoSnapshotSent
    <2>1. /\ Persist(i) /\ UNCHANGED lastIncludedIndex
          /\ UNCHANGED <<lastApplied, applyChan, applied, compacting>> /\ UNCHANGED rpcs
        BY <1>4 DEF Start
    <2> QED BY <2>1, PersistStill DEF NoSnapshotSent
<1> QED BY <1>1, <1>2, <1>3, <1>4

LEMMA QuietCallStep ==
    ASSUME TypeOK, NEW m \in rpcs,
           \/ RejectStale(m)
           \/ HandleRequestVote(m)
           \/ HandleAppendEntries(m)
           \/ HandleNewerTerm(m)
           \/ HandleRequestVoteReply(m)
           \/ HandleAppendEntriesReply(m)
           \/ HandleInstallSnapshotReply(m)
           \/ Lose(m)
    PROVE  StillSnapshots /\ NoSnapshotSent
<1> USE DEF persistentVars, roleVars, commitVars, serviceVars, leaderVars
<1>1. m.from \in Node /\ m.to \in Node
    BY RpcTypes DEF TypeOK
<1>2. Done(m) => NoSnapshotSent
    BY DEF Done, NoSnapshotSent
<1>3. \A r : Respond(m, r) /\ r.type \notin {"InstallSnapshot", "SnapshotMsg"} => NoSnapshotSent
    BY DEF Respond, NoSnapshotSent
<1>4. /\ \A t, g : RequestVoteReply(m, t, g).type = "RequestVoteReply"
      /\ \A t, ok, c : AppendEntriesReply(m, t, ok, c).type = "AppendEntriesReply"
      /\ \A t : InstallSnapshotReply(m, t).type = "InstallSnapshotReply"
    BY DEF RequestVoteReply, AppendEntriesReply, InstallSnapshotReply
<1>5. CASE RejectStale(m)
    <2>1. NoSnapshotSent
        BY <1>3, <1>4, <1>5 DEF RejectStale
    <2> QED BY <1>5, <2>1, DiskStill DEF RejectStale
<1>6. CASE HandleRequestVote(m)
    <2>1. /\ Persist(m.to) /\ UNCHANGED lastIncludedIndex
          /\ UNCHANGED <<lastApplied, applyChan, applied, compacting>>
          /\ \E g : Respond(m, RequestVoteReply(m, m.term, g))
        BY <1>6 DEF HandleRequestVote
    <2> QED BY <1>1, <1>3, <1>4, <2>1, PersistStill
<1>7. CASE HandleAppendEntries(m)
    <2>1. /\ Persist(m.to) /\ UNCHANGED lastIncludedIndex
          /\ UNCHANGED <<lastApplied, applyChan, applied, compacting>>
          /\ \E ok, c : Respond(m, AppendEntriesReply(m, m.term, ok, c))
        <3>1. CASE RejectAppendEntries(m)
            BY <3>1 DEF RejectAppendEntries, HearLeader
        <3>2. CASE AcceptAppendEntries(m)
            BY <3>2 DEF AcceptAppendEntries, HearLeader
        <3> QED BY <1>7, <3>1, <3>2 DEF HandleAppendEntries
    <2> QED BY <1>1, <1>3, <1>4, <2>1, PersistStill
<1>8. CASE HandleNewerTerm(m)
    <2>1. /\ Persist(m.from) /\ UNCHANGED lastIncludedIndex
          /\ UNCHANGED <<lastApplied, applyChan, applied, compacting>> /\ Done(m)
        BY <1>8 DEF HandleNewerTerm, StepDown
    <2> QED BY <1>1, <1>2, <2>1, PersistStill
<1>9. CASE HandleRequestVoteReply(m)
    BY <1>2, <1>9, DiskStill DEF HandleRequestVoteReply
<1>10. CASE HandleAppendEntriesReply(m)
    BY <1>2, <1>10, DiskStill DEF HandleAppendEntriesReply
<1>11. CASE HandleInstallSnapshotReply(m)
    BY <1>2, <1>11, DiskStill DEF HandleInstallSnapshotReply
<1>12. CASE Lose(m)
    BY <1>2, <1>12, DiskStill DEF Lose
<1> QED BY <1>5, <1>6, <1>7, <1>8, <1>9, <1>10, <1>11, <1>12

\* A leader sends the snapshot it has on disk, with the index it has in memory.
LEMMA SendInstallSnapshotStep ==
    ASSUME SnapshotInv, TypeOK, TypeOK', NEW i \in Node, NEW j \in Node, SendInstallSnapshot(i, j)
    PROVE  SnapshotInv'
<1>0. PICK c : c = InstallSnapshotCall(i, j)
    OBVIOUS
<1>1. /\ UNCHANGED <<lastIncludedIndex, disk, lastApplied, applied, applyChan, compacting>>
      /\ rpcs' = rpcs \cup {c}
    BY <1>0 DEF SendInstallSnapshot, Send, persistentVars, commitVars, serviceVars
<1>2. SnapshotWithin(i) /\ IsBehind(i)
    BY SnapshotParts DEF PartsHold
<1>3. SnapshotWithin(i)' /\ IsBehind(i)'
    BY <1>1, <1>2 DEF SnapshotWithin, IsBehind, Reached
<1>4. ASSUME NEW m \in rpcs PROVE SentWithin(m)'
    BY <1>1, SnapshotParts DEF PartsHold, SentWithin
<1>5. /\ c.type = "InstallSnapshot" /\ c.data = disk[i].snapshot
      /\ c.lastIncludedIndex = lastIncludedIndex[i]
    BY <1>0 DEF InstallSnapshotCall
<1>6. NotBeyond(c.data, c.lastIncludedIndex)
    BY <1>2, <1>5, DiskIndexType DEF SnapshotWithin, NotBeyond
<1>7. SentWithin(c)'
    BY <1>5, <1>6 DEF SentWithin
<1>8. \A m \in rpcs' : SentWithin(m)'
    BY <1>1, <1>4, <1>7
<1> QED BY <1>1, <1>3, <1>8, KeptByOthers

\* What InstallSnapshot saves came with its index; the service gets it later.
LEMMA HandleInstallSnapshotStep ==
    ASSUME SnapshotInv, TypeOK, TypeOK', NEW m \in rpcs, HandleInstallSnapshot(m)
    PROVE  SnapshotInv'
<1> DEFINE i     == m.to
           index == m.lastIncludedIndex
           msg   == SnapshotMsg(m, m.term)
<1>1. /\ m.type = "InstallSnapshot"
      /\ UNCHANGED <<applyChan, applied, compacting>>
      /\ \/ /\ UNCHANGED lastIncludedIndex /\ UNCHANGED lastApplied
            /\ Persist(i)
            /\ Respond(m, InstallSnapshotReply(m, m.term))
         \/ /\ index > lastIncludedIndex[i]
            /\ lastIncludedIndex' = [lastIncludedIndex EXCEPT ![i] = index]
            /\ lastApplied' = AtLeast(lastApplied, i, index)
            /\ PersistSnapshot(i, m.data)
            /\ rpcs' = (rpcs \ {m}) \cup {msg}
    BY DEF HandleInstallSnapshot, commitVars, serviceVars
<1>2. i \in Node /\ index \in Nat
    BY <1>1, RpcTypes DEF TypeOK, InstallSnapshotRpc
<1> HIDE DEF i, index, msg
<1>3. CASE UNCHANGED lastIncludedIndex /\ UNCHANGED lastApplied /\ Persist(i)
           /\ Respond(m, InstallSnapshotReply(m, m.term))
    <2>1. StillSnapshots
        BY <1>1, <1>2, <1>3, PersistStill
    <2>2. NoSnapshotSent
        BY <1>3 DEF NoSnapshotSent, Respond, InstallSnapshotReply
    <2> QED BY <2>1, <2>2, KeptByStillSnapshots
<1>4. CASE /\ index > lastIncludedIndex[i]
           /\ lastIncludedIndex' = [lastIncludedIndex EXCEPT ![i] = index]
           /\ lastApplied' = AtLeast(lastApplied, i, index)
           /\ PersistSnapshot(i, m.data)
           /\ rpcs' = (rpcs \ {m}) \cup {msg}
    <2>1. /\ lastIncludedIndex'[i] = index
          /\ \A j \in Node \ {i} : lastIncludedIndex'[j] = lastIncludedIndex[j]
        BY <1>2, <1>4 DEF TypeOK
    <2>2. /\ lastApplied'[i] \in {lastApplied[i], index} /\ lastApplied'[i] >= lastApplied[i]
          /\ \A j \in Node \ {i} : lastApplied'[j] = lastApplied[j]
        <3>1. lastApplied \in [Node -> Nat]
            BY DEF TypeOK
        <3> QED BY <1>2, <1>4, <3>1 DEF AtLeast
    <2>3. /\ disk'[i].snapshot = m.data /\ disk'[i].lastIncludedIndex = index
          /\ \A j \in Node \ {i} : disk'[j] = disk[j]
        <3>1. disk' = [disk EXCEPT ![i] = Encoded(i, m.data)]
            BY <1>4 DEF PersistSnapshot, Save
        <3>2. disk'[i] = Encoded(i, m.data) /\ \A j \in Node \ {i} : disk'[j] = disk[j]
            BY <1>2, <3>1 DEF TypeOK
        <3> QED BY <2>1, <3>2 DEF Encoded
    <2>4. SentWithin(m) /\ SnapshotWithin(i) /\ IsBehind(i)
        BY <1>2, SnapshotParts DEF PartsHold
    <2>5. NotBeyond(m.data, index)
        BY <1>1, <2>4 DEF SentWithin, index
    <2>6. SnapshotWithin(i)'
        BY <1>2, <2>1, <2>3, <2>5 DEF SnapshotWithin
    <2>7. IsBehind(i)'
        <3>1. \A j \in Node : lastIncludedIndex[j] \in Nat /\ lastApplied[j] \in Nat
            BY DEF TypeOK
        <3>2. \A p \in applied[i] : p.index \in Nat
            BY <1>2, DiskIndexType
        <3>3. Reached(i, applied[i], lastApplied[i])'
            BY <1>1, <1>2, <1>4, <2>1, <2>2, <2>4, <3>1, <3>2 DEF IsBehind, Reached
        <3>4. applyChan[i] # << >> => /\ applyChan[i][1].index <= lastApplied'[i]
                                      /\ Reached(i, applied[i], applyChan[i][1].index)'
            BY <1>1, <1>2, <1>4, <2>1, <2>2, <2>4, <3>1, <3>2, PendingTypes DEF IsBehind, Reached
        <3>5. compacting[i] # << >> => /\ compacting[i][1].index <= lastApplied'[i]
                                       /\ Reached(i, compacting[i][1].data, compacting[i][1].index)'
            BY <1>1, <1>2, <1>4, <2>1, <2>2, <2>4, <3>1, <3>2, PendingTypes DEF IsBehind, Reached
        <3> QED BY <1>1, <3>3, <3>4, <3>5 DEF IsBehind
    <2>8. ASSUME NEW k \in rpcs PROVE SentWithin(k)'
        <3>1. k.to \in Node
            BY RpcTypes DEF TypeOK
        <3>2. lastIncludedIndex[k.to] <= lastIncludedIndex'[k.to]
            BY <1>2, <1>4, <2>1, <3>1, DiskIndexType
        <3> QED BY <3>2, SentStays
    <2>9. SentWithin(msg)'
        <3>1. msg.data = m.data /\ msg.lastIncludedIndex = index /\ msg.to = i
            BY DEF msg, SnapshotMsg, i, index
        <3> QED BY <1>2, <2>1, <2>5, <3>1 DEF SentWithin
    <2>10. \A k \in rpcs' : SentWithin(k)'
        BY <1>4, <2>8, <2>9
    <2> QED BY <1>1, <1>2, <2>1, <2>2, <2>3, <2>6, <2>7, <2>10, KeptByOthers
<1> QED BY <1>1, <1>3, <1>4

\* A crash changes no call, but for whether its caller waits.
LEMMA CrashedSnapshot ==
    ASSUME TypeOK, NEW i \in Node, NEW m \in AfterCrash(i)
    PROVE  \E k \in rpcs :
              /\ k.to = m.to /\ k.type = m.type /\ ~(k.type = "SnapshotMsg" /\ k.to = i)
              /\ k.type \in {"InstallSnapshot", "SnapshotMsg"} =>
                     m.data = k.data /\ m.lastIncludedIndex = k.lastIncludedIndex
<1>1. CASE m \in rpcs /\ ~(m.type = "SnapshotMsg" /\ m.to = i)
    BY <1>1
<1>2. CASE \E k \in rpcs : /\ k.type \in {"RequestVote", "AppendEntries", "InstallSnapshot",
                                          "SnapshotMsg"}
                           /\ ~(k.type = "SnapshotMsg" /\ k.to = i)
                           /\ m = [k EXCEPT !.live = FALSE]
    <2>1. PICK k \in rpcs : /\ k.type \in {"RequestVote", "AppendEntries", "InstallSnapshot",
                                           "SnapshotMsg"}
                            /\ ~(k.type = "SnapshotMsg" /\ k.to = i)
                            /\ m = [k EXCEPT !.live = FALSE]
        BY <1>2
    <2>2. k \in RequestVoteRpc \cup AppendEntriesRpc \cup InstallSnapshotRpc \cup SnapshotMsgRpc
        BY <2>1, RpcTypes DEF TypeOK
    <2>3. k.to = m.to /\ k.type = m.type
        BY <2>1, <2>2 DEF RequestVoteRpc, AppendEntriesRpc, InstallSnapshotRpc, SnapshotMsgRpc
    <2>4. k.type \in {"InstallSnapshot", "SnapshotMsg"} =>
              m.data = k.data /\ m.lastIncludedIndex = k.lastIncludedIndex
        <3>1. CASE k.type = "InstallSnapshot"
            <4>1. k \in InstallSnapshotRpc
                BY <3>1, RpcTypes DEF TypeOK
            <4> QED BY <2>1, <4>1 DEF InstallSnapshotRpc
        <3>2. CASE k.type = "SnapshotMsg"
            <4>1. k \in SnapshotMsgRpc
                BY <3>2, RpcTypes DEF TypeOK
            <4> QED BY <2>1, <4>1 DEF SnapshotMsgRpc
        <3> QED BY <3>1, <3>2
    <2> QED BY <2>1, <2>3, <2>4
<1> QED BY <1>1, <1>2 DEF AfterCrash

\* The applier only goes forward.
LEMMA ApplierTakeStep ==
    ASSUME SnapshotInv, TypeOK, TypeOK', NEW i \in Node, ApplierTake(i)
    PROVE  SnapshotInv'
<1>1. /\ UNCHANGED <<lastIncludedIndex, disk, applied, compacting, rpcs>>
      /\ lastApplied' = [lastApplied EXCEPT ![i] = lastApplied[i] + 1]
      /\ \/ UNCHANGED applyChan
         \/ \E e : applyChan' = [applyChan EXCEPT ![i] =
                                     <<[index |-> lastApplied[i] + 1, entry |-> e]>>]
      /\ applyChan[i] = << >>
    BY DEF ApplierTake, persistentVars
<1>2. SnapshotWithin(i) /\ IsBehind(i)
    BY SnapshotParts DEF PartsHold
<1>3. lastApplied'[i] = lastApplied[i] + 1 /\ lastApplied[i] \in Nat
      /\ \A j \in Node \ {i} : lastApplied'[j] = lastApplied[j]
    BY <1>1 DEF TypeOK
<1>4. /\ applyChan'[i] # << >> => applyChan'[i][1].index = lastApplied[i] + 1
      /\ \A j \in Node \ {i} : applyChan'[j] = applyChan[j]
    <2>1. applyChan \in [Node -> Seq(Position)]
        BY DEF TypeOK
    <2> QED BY <1>1, <2>1
<1>5. SnapshotWithin(i)'
    BY <1>1, <1>2 DEF SnapshotWithin
<1>6. IsBehind(i)'
    <2>2. \A p \in applied[i] : p.index <= lastApplied[i] + 1 \/ p.index <= lastIncludedIndex[i]
        <3>1. \A p \in applied[i] : p.index \in Nat
            BY DiskIndexType
        <3> QED BY <1>2, <1>3, <3>1 DEF IsBehind, Reached
    <2>3. compacting[i] # << >> => compacting[i][1].index <= lastApplied'[i]
        BY <1>2, <1>3, PendingTypes DEF IsBehind
    <2> QED BY <1>1, <1>2, <1>3, <1>4, <2>2, <2>3 DEF IsBehind, Reached
<1>7. \A m \in rpcs' : SentWithin(m)'
    BY <1>1, SnapshotParts DEF PartsHold, SentWithin
<1> QED BY <1>1, <1>3, <1>4, <1>5, <1>6, <1>7, KeptByOthers

\* The state the service is about to save is the one after the command it has executed.
LEMMA ServiceApplyStep ==
    ASSUME SnapshotInv, TypeOK, TypeOK', NEW i \in Node, ServiceApply(i)
    PROVE  SnapshotInv'
<1>1. PICK msg, result :
         /\ applyChan[i] # << >> /\ compacting[i] = << >>
         /\ msg = applyChan[i][1]
         /\ result = applied[i] \cup {m \in {msg} : m.entry.command # Nil}
         /\ applied' = [applied EXCEPT ![i] = result]
         /\ \/ UNCHANGED compacting
            \/ compacting' = [compacting EXCEPT ![i] = <<[index |-> msg.index, data |-> result]>>]
         /\ applyChan' = [applyChan EXCEPT ![i] = << >>]
         /\ UNCHANGED <<lastIncludedIndex, disk, lastApplied, rpcs>>
    BY DEF ServiceApply, persistentVars, commitVars
<1>2. SnapshotWithin(i) /\ IsBehind(i)
    BY SnapshotParts DEF PartsHold
<1>3. msg.index \in Nat /\ lastApplied[i] \in Nat /\ msg.index <= lastApplied[i]
    BY <1>1, <1>2, PendingTypes, DiskIndexType DEF IsBehind
<1>4. /\ applied'[i] = result /\ applyChan'[i] = << >>
      /\ compacting'[i] # << >> => /\ compacting'[i][1].index = msg.index
                                   /\ compacting'[i][1].data = result
      /\ \A j \in Node \ {i} : /\ applied'[j] = applied[j] /\ applyChan'[j] = applyChan[j]
                               /\ compacting'[j] = compacting[j]
    BY <1>1 DEF TypeOK
<1>5. \A p \in result : p.index <= msg.index \/ p.index <= lastIncludedIndex[i]
    <2>1. \A p \in applied[i] : p.index <= msg.index \/ p.index <= lastIncludedIndex[i]
        BY <1>1, <1>2 DEF IsBehind, Reached
    <2> QED BY <1>1, <1>3, <2>1
<1>6. \A p \in result : p.index <= lastApplied[i] \/ p.index <= lastIncludedIndex[i]
    <2>1. \A p \in result : p.index \in Nat
        BY <1>1, <1>3, DiskIndexType
    <2> QED BY <1>3, <1>5, <2>1
<1>7. SnapshotWithin(i)'
    BY <1>1, <1>2 DEF SnapshotWithin
<1>8. IsBehind(i)'
    BY <1>1, <1>3, <1>4, <1>5, <1>6 DEF IsBehind, Reached
<1>9. \A m \in rpcs' : SentWithin(m)'
    BY <1>1, SnapshotParts DEF PartsHold, SentWithin
<1> QED BY <1>1, <1>4, <1>7, <1>8, <1>9, KeptByOthers

\* The state a service takes from InstallSnapshot is one that Raft has dropped entries for.
LEMMA ServiceRestoreStep ==
    ASSUME SnapshotInv, TypeOK, TypeOK', NEW m \in rpcs, ServiceRestore(m)
    PROVE  SnapshotInv'
<1>1. PICK i : i = m.to
    OBVIOUS
<1>2. /\ m.type = "SnapshotMsg" /\ compacting[i] = << >>
      /\ applied' = [applied EXCEPT ![i] = m.data]
      /\ Respond(m, InstallSnapshotReply(m, m.replyTerm))
      /\ UNCHANGED <<lastIncludedIndex, disk, lastApplied, applyChan, compacting>>
    BY <1>1 DEF ServiceRestore, persistentVars, commitVars
<1>3. i \in Node /\ m.lastIncludedIndex \in Nat /\ m.data \in SUBSET Position
    BY <1>1, <1>2, RpcTypes DEF TypeOK, SnapshotMsgRpc
<1>4. applied'[i] = m.data /\ \A j \in Node \ {i} : applied'[j] = applied[j]
    BY <1>2, <1>3 DEF TypeOK
<1>5. SentWithin(m) /\ SnapshotWithin(i) /\ IsBehind(i)
    BY <1>3, SnapshotParts DEF PartsHold
<1>6. \A p \in m.data : p.index <= lastIncludedIndex[i]
    <2>1. \A p \in m.data : p.index \in Nat /\ p.index <= m.lastIncludedIndex
        BY <1>2, <1>3, <1>5, DiskIndexType DEF SentWithin, NotBeyond
    <2>2. m.lastIncludedIndex <= lastIncludedIndex[i] /\ lastIncludedIndex[i] \in Nat
        BY <1>1, <1>2, <1>3, <1>5, DiskIndexType DEF SentWithin
    <2> QED BY <1>3, <2>1, <2>2
<1>7. SnapshotWithin(i)'
    BY <1>2, <1>5 DEF SnapshotWithin
<1>8. IsBehind(i)'
    BY <1>2, <1>4, <1>5, <1>6 DEF IsBehind, Reached
<1>9. ASSUME NEW k \in rpcs' PROVE SentWithin(k)'
    <2>1. CASE k \in rpcs
        BY <1>2, <2>1, SnapshotParts DEF PartsHold, SentWithin
    <2>2. CASE k.type = "InstallSnapshotReply"
        BY <2>2 DEF SentWithin
    <2> QED BY <1>2, <2>1, <2>2 DEF Respond, InstallSnapshotReply
<1> QED BY <1>2, <1>3, <1>4, <1>7, <1>8, <1>9, KeptByOthers

\* Snapshot saves a state that is no further than its index.
LEMMA SnapshotStep ==
    ASSUME SnapshotInv, TypeOK, TypeOK', NEW i \in Node, Snapshot(i)
    PROVE  SnapshotInv' /\ (lastIncludedIndex'[i] = lastIncludedIndex[i]
                            \/ lastIncludedIndex'[i] <= lastApplied[i])
<1>1. PICK index, data :
         /\ compacting[i] # << >>
         /\ index = compacting[i][1].index /\ data = compacting[i][1].data
         /\ compacting' = [compacting EXCEPT ![i] = << >>]
         /\ UNCHANGED <<lastApplied, applyChan, applied, rpcs>>
         /\ \/ UNCHANGED lastIncludedIndex /\ UNCHANGED disk
            \/ /\ index > lastIncludedIndex[i]
               /\ lastIncludedIndex' = [lastIncludedIndex EXCEPT ![i] = index]
               /\ PersistSnapshot(i, data)
    BY DEF Snapshot, Compact, persistentVars, commitVars
<1>2. /\ compacting'[i] = << >>
      /\ \A j \in Node \ {i} : compacting'[j] = compacting[j]
    BY <1>1 DEF TypeOK
<1>3. SnapshotWithin(i) /\ IsBehind(i)
    BY SnapshotParts DEF PartsHold
<1>4. index \in Nat /\ \A p \in data : p.index \in Nat
    BY <1>1, PendingTypes
<1>5. CASE UNCHANGED lastIncludedIndex /\ UNCHANGED disk
    <2>1. SnapshotWithin(i)' /\ IsBehind(i)'
        BY <1>1, <1>2, <1>3, <1>5 DEF SnapshotWithin, IsBehind, Reached
    <2>2. \A m \in rpcs' : SentWithin(m)'
        BY <1>1, <1>5, SnapshotParts DEF PartsHold, SentWithin
    <2> QED BY <1>1, <1>2, <1>5, <2>1, <2>2, KeptByOthers
<1>6. CASE /\ index > lastIncludedIndex[i]
           /\ lastIncludedIndex' = [lastIncludedIndex EXCEPT ![i] = index]
           /\ PersistSnapshot(i, data)
    <2>1. /\ lastIncludedIndex'[i] = index
          /\ \A j \in Node \ {i} : lastIncludedIndex'[j] = lastIncludedIndex[j]
        BY <1>6 DEF TypeOK
    <2>2. /\ disk'[i].snapshot = data /\ disk'[i].lastIncludedIndex = index
          /\ \A j \in Node \ {i} : disk'[j] = disk[j]
        <3>1. disk' = [disk EXCEPT ![i] = Encoded(i, data)]
            BY <1>6 DEF PersistSnapshot, Save
        <3>2. disk'[i] = Encoded(i, data) /\ \A j \in Node \ {i} : disk'[j] = disk[j]
            BY <3>1 DEF TypeOK
        <3> QED BY <2>1, <3>2 DEF Encoded
    <2>3. index <= lastApplied[i] /\ Reached(i, data, index)
        BY <1>1, <1>3 DEF IsBehind
    <2>4. lastIncludedIndex[i] \in Nat /\ lastApplied[i] \in Nat
        BY DiskIndexType
    <2>5. \A p \in data : p.index <= index
        BY <1>4, <1>6, <2>3, <2>4 DEF Reached
    <2>6. SnapshotWithin(i)'
        BY <1>4, <2>1, <2>2, <2>5 DEF SnapshotWithin, NotBeyond
    <2>7. IsBehind(i)'
        <3>1. \A p \in applied[i] : p.index \in Nat
            BY DiskIndexType
        <3>2. \A p \in applied[i] :
                  p.index <= lastIncludedIndex[i] => p.index <= lastIncludedIndex'[i]
            BY <1>4, <1>6, <2>1, <2>4, <3>1
        <3> QED BY <1>1, <1>2, <1>3, <3>2 DEF IsBehind, Reached
    <2>8. \A j \in Node : lastIncludedIndex[j] <= lastIncludedIndex'[j]
        BY <1>4, <1>6, <2>1, DiskIndexType
    <2>9. \A m \in rpcs' : SentWithin(m)'
        BY <1>1, <2>8, CallsStay
    <2>10. SnapshotInv'
        BY <1>1, <1>2, <2>1, <2>2, <2>6, <2>7, <2>9, KeptByOthers
    <2> QED BY <2>1, <2>3, <2>10
<1> QED BY <1>1, <1>5, <1>6

\* A service that is started again has the state on disk, and the calls of
\* InstallSnapshot that waited for it are gone.
LEMMA RestartStep ==
    ASSUME SnapshotInv, TypeOK, TypeOK', NEW i \in Node, Restart(i)
    PROVE  SnapshotInv'
<1>1. PICK d : d = IF StorageSurvives THEN disk[i] ELSE BlankDisk
    OBVIOUS
<1>2. /\ disk' = [disk EXCEPT ![i] = d]
      /\ lastIncludedIndex' = [lastIncludedIndex EXCEPT ![i] = d.lastIncludedIndex]
      /\ applied' = [applied EXCEPT ![i] = d.snapshot]
      /\ lastApplied' = [lastApplied EXCEPT ![i] = 0]
      /\ applyChan' = [applyChan EXCEPT ![i] = << >>]
      /\ compacting' = [compacting EXCEPT ![i] = << >>]
      /\ rpcs' = AfterCrash(i)
    BY <1>1 DEF Restart, Save
<1>3. /\ disk'[i] = d /\ lastIncludedIndex'[i] = d.lastIncludedIndex /\ applied'[i] = d.snapshot
      /\ lastApplied'[i] = 0 /\ applyChan'[i] = << >> /\ compacting'[i] = << >>
      /\ \A j \in Node \ {i} : /\ lastIncludedIndex'[j] = lastIncludedIndex[j]
                               /\ disk'[j] = disk[j] /\ lastApplied'[j] = lastApplied[j]
                               /\ applied'[j] = applied[j] /\ applyChan'[j] = applyChan[j]
                               /\ compacting'[j] = compacting[j]
    BY <1>2 DEF TypeOK
<1>4. NotBeyond(d.snapshot, d.lastIncludedIndex) /\ d.lastIncludedIndex \in Nat
    <2>1. SnapshotWithin(i)
        BY SnapshotParts DEF PartsHold
    <2> QED BY <1>1, <2>1, DiskIndexType DEF SnapshotWithin, NotBeyond, BlankDisk
<1>5. SnapshotWithin(i)' /\ IsBehind(i)'
    BY <1>3, <1>4 DEF SnapshotWithin, IsBehind, Reached, NotBeyond
<1>6. ASSUME NEW m \in rpcs' PROVE SentWithin(m)'
    <2>1. PICK k \in rpcs :
             /\ k.to = m.to /\ k.type = m.type /\ ~(k.type = "SnapshotMsg" /\ k.to = i)
             /\ k.type \in {"InstallSnapshot", "SnapshotMsg"} =>
                    m.data = k.data /\ m.lastIncludedIndex = k.lastIncludedIndex
        BY <1>2, CrashedSnapshot
    <2>2. k.to \in Node
        BY RpcTypes DEF TypeOK
    <2>3. k.type = "SnapshotMsg" => lastIncludedIndex[k.to] <= lastIncludedIndex'[k.to]
        BY <1>3, <2>1, <2>2, DiskIndexType
    <2> QED BY <2>1, <2>3, SentStays
<1> QED BY <1>3, <1>5, <1>6, KeptByOthers

LEMMA SnapshotInvStep ==
    ASSUME SnapshotInv, TypeOK, TypeOK', [Next]_vars
    PROVE  SnapshotInv'
<1>1. ASSUME NEW i \in Node, NodeStep(i) PROVE SnapshotInv'
    BY <1>1, QuietNodeStep, KeptByStillSnapshots, SendInstallSnapshotStep, ApplierTakeStep,
       ServiceApplyStep, SnapshotStep, RestartStep DEF NodeStep
<1>2. ASSUME NEW m \in rpcs, CallStep(m) PROVE SnapshotInv'
    BY <1>2, QuietCallStep, KeptByStillSnapshots, HandleInstallSnapshotStep, ServiceRestoreStep
       DEF CallStep
<1>3. CASE UNCHANGED vars
    BY <1>3, DiskStill, KeptByStillSnapshots
       DEF vars, persistentVars, commitVars, serviceVars, NoSnapshotSent
<1> QED BY <1>1, <1>2, <1>3 DEF Next

\* Whatever is compacted, sent and restored in whatever order, and however often nodes
\* restart, no snapshot goes beyond the index it is saved with.
THEOREM SnapshotInvariant == Spec => []SnapshotInv
<1>1. Init => SnapshotInv
    BY DEF Init, BlankDisk, SnapshotInv, SnapshotsWithin, ServiceBehind, SnapshotsSentWithin,
           NotBeyond, Reached
<1>2. TypeOK /\ TypeOK' /\ SnapshotInv /\ [Next]_vars => SnapshotInv'
    BY SnapshotInvStep
<1> QED BY <1>1, <1>2, TypeCorrect, PTL DEF Spec

\* What has been dropped has been handed to the service before, or came as a snapshot.
AppliedBeyond == \A i \in Node : lastIncludedIndex[i] <= lastApplied[i]

LEMMA AppliedBeyondStep ==
    ASSUME MaxRestarts = 0, AppliedBeyond, SnapshotInv, TypeOK, TypeOK', [Next]_vars
    PROVE  AppliedBeyond'
<1>1. \A i \in Node : lastIncludedIndex[i] \in Nat /\ lastApplied[i] \in Nat
    BY DEF TypeOK
<1>2. ASSUME UNCHANGED lastIncludedIndex, \A i \in Node : lastApplied'[i] >= lastApplied[i]
      PROVE  AppliedBeyond'
    <2>1. \A i \in Node : lastApplied'[i] \in Nat
        BY DEF TypeOK
    <2> QED BY <1>1, <1>2, <2>1 DEF AppliedBeyond
<1>3. UNCHANGED <<lastIncludedIndex, lastApplied>> => AppliedBeyond'
    BY DEF AppliedBeyond
<1>4. StillSnapshots => AppliedBeyond'
    BY <1>3 DEF StillSnapshots
<1>5. ASSUME NEW i \in Node, NodeStep(i) PROVE AppliedBeyond'
    <2>1. ASSUME NEW j \in Node, SendInstallSnapshot(i, j) PROVE AppliedBeyond'
        BY <1>3, <2>1 DEF SendInstallSnapshot, persistentVars, commitVars
    <2>2. CASE ApplierTake(i)
        <3>1. /\ UNCHANGED lastIncludedIndex
              /\ lastApplied' = [lastApplied EXCEPT ![i] = lastApplied[i] + 1]
            BY <2>2 DEF ApplierTake, persistentVars
        <3>2. lastApplied'[i] = lastApplied[i] + 1
              /\ \A j \in Node \ {i} : lastApplied'[j] = lastApplied[j]
            BY <3>1 DEF TypeOK
        <3>3. \A j \in Node : lastApplied'[j] >= lastApplied[j]
            BY <1>1, <3>2
        <3> QED BY <1>2, <3>1, <3>3
    <2>3. CASE ServiceApply(i)
        BY <1>3, <2>3 DEF ServiceApply, persistentVars, commitVars
    <2>4. CASE Snapshot(i)
        <3>1. /\ UNCHANGED lastApplied
              /\ \/ UNCHANGED lastIncludedIndex
                 \/ \E n : lastIncludedIndex' = [lastIncludedIndex EXCEPT ![i] = n]
            BY <2>4 DEF Snapshot, Compact, persistentVars, commitVars
        <3>2. \A j \in Node \ {i} : lastIncludedIndex'[j] = lastIncludedIndex[j]
            BY <3>1 DEF TypeOK
        <3>3. \/ lastIncludedIndex'[i] = lastIncludedIndex[i]
              \/ lastIncludedIndex'[i] <= lastApplied[i]
            BY <2>4, SnapshotStep
        <3> QED BY <3>1, <3>2, <3>3 DEF AppliedBeyond
    <2>5. ~Restart(i)
        <3>1. restarts \in Nat
            BY DEF TypeOK
        <3> QED BY <3>1 DEF Restart
    <2>6. CASE \/ ElectionTimeout(i) \/ QuietTick(i)
               \/ \E j \in Node : SendAppendEntries(i, j)
               \/ \E command \in Value : Start(i, command)
        BY <1>4, <2>6, QuietNodeStep
    <2> QED BY <1>5, <2>1, <2>2, <2>3, <2>4, <2>5, <2>6 DEF NodeStep
<1>6. ASSUME NEW m \in rpcs, CallStep(m) PROVE AppliedBeyond'
    <2>1. CASE HandleInstallSnapshot(m)
        <3>1. PICK i, index : i = m.to /\ index = m.lastIncludedIndex
            OBVIOUS
        <3>2. i \in Node /\ index \in Nat
            BY <2>1, <3>1, RpcTypes DEF HandleInstallSnapshot, TypeOK, InstallSnapshotRpc
        <3>3. \/ UNCHANGED <<lastIncludedIndex, lastApplied>>
              \/ /\ lastIncludedIndex' = [lastIncludedIndex EXCEPT ![i] = index]
                 /\ lastApplied' = AtLeast(lastApplied, i, index)
            BY <2>1, <3>1 DEF HandleInstallSnapshot, commitVars
        <3>4. CASE /\ lastIncludedIndex' = [lastIncludedIndex EXCEPT ![i] = index]
                   /\ lastApplied' = AtLeast(lastApplied, i, index)
            <4>1. lastIncludedIndex \in [Node -> Nat] /\ lastApplied \in [Node -> Nat]
                BY DEF TypeOK
            <4>2. /\ lastIncludedIndex'[i] = index /\ lastApplied'[i] >= index
                  /\ \A j \in Node \ {i} : /\ lastIncludedIndex'[j] = lastIncludedIndex[j]
                                           /\ lastApplied'[j] = lastApplied[j]
                BY <3>2, <3>4, <4>1 DEF AtLeast
            <4> QED BY <3>2, <4>2 DEF AppliedBeyond
        <3> QED BY <1>3, <3>3, <3>4
    <2>2. CASE ServiceRestore(m)
        BY <1>3, <2>2 DEF ServiceRestore, persistentVars, commitVars
    <2>3. CASE ~HandleInstallSnapshot(m) /\ ~ServiceRestore(m)
        BY <1>4, <1>6, <2>3, QuietCallStep DEF CallStep
    <2> QED BY <2>1, <2>2, <2>3
<1>7. CASE UNCHANGED vars
    BY <1>3, <1>7 DEF vars, persistentVars, commitVars
<1> QED BY <1>5, <1>6, <1>7 DEF Next

\* Until a node restarts, its applier never indexes rf.log before the snapshot: Snapshot
\* drops only what applyChan has handed over, and InstallSnapshot raises lastApplied.
THEOREM NoCompactedApplied == MaxRestarts = 0 /\ Spec => []AppliesNoCompacted
<1> SUFFICES ASSUME MaxRestarts = 0 PROVE Spec => []AppliesNoCompacted
    OBVIOUS
<1>1. Init => AppliedBeyond
    BY DEF Init, AppliedBeyond
<1>2. TypeOK /\ TypeOK' /\ SnapshotInv /\ AppliedBeyond /\ [Next]_vars => AppliedBeyond'
    BY AppliedBeyondStep
<1>3. AppliedBeyond /\ TypeOK => AppliesNoCompacted
    <2> SUFFICES ASSUME AppliedBeyond, TypeOK, NEW i \in Node
                 PROVE  lastApplied[i] >= lastIncludedIndex[i]
        BY DEF AppliesNoCompacted
    <2>1. lastIncludedIndex[i] \in Nat /\ lastApplied[i] \in Nat
        BY DEF TypeOK
    <2> QED BY <2>1 DEF AppliedBeyond
<1> QED BY <1>1, <1>2, <1>3, TypeCorrect, SnapshotInvariant, PTL DEF Spec
=============================================================================
