-------------------------------- MODULE Raft --------------------------------
(***************************************************************************)
(* The Raft node of raft/raft.go: elections, log replication, commitment,  *)
(* the applier goroutine, log compaction and InstallSnapshot, persistence  *)
(* through raft.Storage, and restarts.                                     *)
(*                                                                         *)
(* Every critical section of rf.mu is one action.  A gRPC call is a record *)
(* in rpcs: first the request, then, once the callee's handler has run,    *)
(* the reply that waits for the caller's goroutine to take rf.mu.  The     *)
(* network may delay, reorder and lose calls; gRPC never duplicates one.   *)
(*                                                                         *)
(* Entry k of the Go slice rf.log is log[i][k + 1] here: the first element *)
(* is the dummy entry that stands for the snapshot.                        *)
(***************************************************************************)
EXTENDS Integers, Sequences, FiniteSets

CONSTANTS
    Node,              \* the indices of peersAddr
    Value,             \* the commands the service passes to Start
    Nil,               \* votedFor = -1, and the nil command of a dummy entry
    StorageSurvives,   \* a restart finds what Save wrote (raft_test.go reuses
                       \* saved[i]); FALSE: NewMemoryStorage() at every start,
                       \* as cmd/server.go and cmd/kvraft.go do
    Compaction,        \* maxraftstate # -1: the service may call Snapshot
    MaxElections,      \* bound: election timeouts in a behaviour, so terms too
    MaxIndex,          \* bound: no Start beyond this log index
    MaxApplied,        \* bound: the applier takes no entry beyond this log index
    MaxOutstanding,    \* bound: calls in flight from one node to another; 1 is
                       \* a network in which the calls of a link never overlap
    MaxCalls,          \* bound: calls in flight in the whole cluster
    LateReplies,       \* a reply may wait until its caller has followed another leader
                       \* and leads again; FALSE: the deadline of 100 ms is over by
                       \* then, as ticker sleeps 150 ms before it starts an election
    MaxRestarts        \* bound: restarts in a behaviour

ASSUME NodeAssumption == IsFiniteSet(Node) /\ Node # {}
ASSUME NilAssumption == Nil \notin Node /\ Nil \notin Value
ASSUME EnvironmentAssumption ==
    StorageSurvives \in BOOLEAN /\ Compaction \in BOOLEAN /\ LateReplies \in BOOLEAN
ASSUME BoundsAssumption ==
    /\ MaxElections \in Nat
    /\ MaxIndex \in Nat
    /\ MaxApplied \in Nat
    /\ MaxOutstanding \in Nat \ {0}
    /\ MaxCalls \in Nat
    /\ MaxRestarts \in Nat

VARIABLES
    state,               \* rf.state
    currentTerm,         \* rf.currentTerm
    votedFor,            \* rf.votedFor
    log,                 \* rf.log, the dummy entry first
    lastIncludedIndex,   \* rf.lastIncludedIndex
    lastIncludedTerm,    \* rf.lastIncludedTerm
    commitIndex,         \* rf.commitIndex
    lastApplied,         \* rf.lastApplied
    nextIndex,           \* rf.nextIndex
    matchIndex,          \* rf.matchIndex
    received,            \* rf.received
    votes,               \* the peers counted by startElection's votes
    up,                  \* FALSE once an index out of range has ended the process
    disk,                \* what rf.persister holds
    applyChan,           \* the message applier is blocked on sending, if any
    applied,             \* the state of the service: the commands it has executed
    compacting,          \* the call of Snapshot the service is about to make, if any
    rpcs,                \* the calls in flight
    elections,           \* the number of election timeouts so far
    restarts             \* the number of restarts so far

persistentVars == <<currentTerm, votedFor, log, lastIncludedIndex, lastIncludedTerm, disk>>
roleVars       == <<state, received, votes>>
commitVars     == <<commitIndex, lastApplied>>
leaderVars     == <<nextIndex, matchIndex>>
serviceVars    == <<applyChan, applied, compacting>>
processVars    == <<up, elections, restarts>>

vars == <<persistentVars, roleVars, commitVars, leaderVars, serviceVars, processVars, rpcs>>

Entry == [term : Nat, command : Value \cup {Nil}]
Dummy(t) == [term |-> t, command |-> Nil]

-----------------------------------------------------------------------------
(* The log. *)

LastLogIndex(i) == lastIncludedIndex[i] + Len(log[i]) - 1

LastLogTerm(i) == log[i][Len(log[i])].term

\* The indices of the entries rf.log holds besides the dummy one.
Held(i) == (lastIncludedIndex[i] + 1) .. LastLogIndex(i)

EntryAt(i, n) == log[i][n - lastIncludedIndex[i] + 1]

LogTerm(i, n) ==
    IF n = lastIncludedIndex[i] THEN lastIncludedTerm[i]
    ELSE IF n \in Held(i) THEN EntryAt(i, n).term
    ELSE -1

(***************************************************************************)
(* c is the conflictIndex the loop of AppendEntries ends with: the first   *)
(* index after the snapshot of the run of equal terms that ends at prev,   *)
(* and prev itself when prev is not after the snapshot.                    *)
(***************************************************************************)
IsConflictIndex(i, prev, c) ==
    LET Run(k) == \A n \in k .. prev :
                      n > lastIncludedIndex[i] /\ LogTerm(i, n) = LogTerm(i, prev)
    IN  IF prev <= lastIncludedIndex[i] THEN c = prev
        ELSE c <= prev /\ Run(c) /\ ~Run(c - 1)

-----------------------------------------------------------------------------
(* Storage.  persist() runs before rf.mu is released, so a crash finds     *)
(* either all or nothing of a critical section on disk.                    *)

BlankDisk ==
    [currentTerm |-> 0, votedFor |-> Nil, log |-> <<Dummy(0)>>,
     lastIncludedIndex |-> 0, lastIncludedTerm |-> 0, snapshot |-> {}]

\* What persistSnapshot encodes, with the snapshot data.
Encoded(i, data) ==
    [currentTerm       |-> currentTerm'[i],
     votedFor          |-> votedFor'[i],
     log               |-> log'[i],
     lastIncludedIndex |-> lastIncludedIndex'[i],
     lastIncludedTerm  |-> lastIncludedTerm'[i],
     snapshot          |-> data]

Save(i, saved) == disk' = [disk EXCEPT ![i] = saved]

PersistSnapshot(i, data) == Save(i, Encoded(i, data))

\* Variants: VotedFor, or Log, missing from PersistentState.
PersistWithoutVote(i) == Save(i, [Encoded(i, disk[i].snapshot) EXCEPT !.votedFor = Nil])
PersistWithoutLog(i)  == Save(i, [Encoded(i, disk[i].snapshot) EXCEPT !.log = disk[i].log])

Persist(i) == PersistSnapshot(i, disk[i].snapshot)

-----------------------------------------------------------------------------
(* The calls in flight. *)

Slots == 1 .. MaxOutstanding

FreeSlots(i, j) ==
    {s \in Slots : \A m \in rpcs : m.from = i /\ m.to = j => m.slot # s}

\* The slot a new call from i to j takes, when one is free.
NextSlot(i, j) == CHOOSE s \in Slots : FreeSlots(i, j) # {} => s \in FreeSlots(i, j)

\* The callers' goroutines issue the calls of the set new.
Send(new) ==
    /\ \A m \in new : m.slot \in FreeSlots(m.from, m.to)
    /\ Cardinality(rpcs) + Cardinality(new) <= MaxCalls
    /\ rpcs' = rpcs \cup new

\* The handler of m returns r, unless the caller's process is gone.
Respond(m, r) == rpcs' = (rpcs \ {m}) \cup {x \in {r} : m.live}

RequestVoteCall(i, j) ==
    [type |-> "RequestVote", from |-> i, to |-> j, slot |-> NextSlot(i, j), live |-> TRUE,
     term |-> currentTerm[i] + 1,
     lastLogIndex |-> LastLogIndex(i), lastLogTerm |-> LastLogTerm(i)]

AppendEntriesCall(i, j) ==
    LET prev == nextIndex[i][j] - 1
    IN  [type |-> "AppendEntries", from |-> i, to |-> j, slot |-> NextSlot(i, j), live |-> TRUE,
         term |-> currentTerm[i],
         prevLogIndex |-> prev, prevLogTerm |-> LogTerm(i, prev),
         entries |-> SubSeq(log[i], prev - lastIncludedIndex[i] + 2, Len(log[i])),
         leaderCommit |-> commitIndex[i]]

\* Variant: the state of the service, not what it has saved.
InstallStateCall(i, j) ==
    [type |-> "InstallSnapshot", from |-> i, to |-> j, slot |-> NextSlot(i, j), live |-> TRUE,
     term |-> currentTerm[i],
     lastIncludedIndex |-> lastIncludedIndex[i], lastIncludedTerm |-> lastIncludedTerm[i],
     data |-> applied[i]]

InstallSnapshotCall(i, j) ==
    [type |-> "InstallSnapshot", from |-> i, to |-> j, slot |-> NextSlot(i, j), live |-> TRUE,
     term |-> currentTerm[i],
     lastIncludedIndex |-> lastIncludedIndex[i], lastIncludedTerm |-> lastIncludedTerm[i],
     data |-> disk[i].snapshot]

RequestVoteReply(m, t, granted) ==
    [type |-> "RequestVoteReply", from |-> m.from, to |-> m.to, slot |-> m.slot,
     term |-> m.term, replyTerm |-> t, voteGranted |-> granted]

\* The caller's goroutine keeps args; match is args.PrevLogIndex + len(args.Entries).
AppendEntriesReply(m, t, ok, conflict) ==
    [type |-> "AppendEntriesReply", from |-> m.from, to |-> m.to, slot |-> m.slot,
     term |-> m.term, match |-> m.prevLogIndex + Len(m.entries),
     replyTerm |-> t, success |-> ok, conflictIndex |-> conflict]

InstallSnapshotReply(m, t) ==
    [type |-> "InstallSnapshotReply", from |-> m.from, to |-> m.to, slot |-> m.slot,
     term |-> m.term, lastIncludedIndex |-> m.lastIncludedIndex, replyTerm |-> t]

\* InstallSnapshot has released rf.mu and is blocked on applyChan.
SnapshotMsg(m, t) ==
    [type |-> "SnapshotMsg", from |-> m.from, to |-> m.to, slot |-> m.slot, live |-> m.live,
     term |-> m.term, lastIncludedIndex |-> m.lastIncludedIndex, data |-> m.data,
     replyTerm |-> t]

-----------------------------------------------------------------------------
(* Role changes. *)

\* Variant: half of the votes is enough.
IsHalf(S) == Cardinality(S) >= Cardinality(Node) \div 2

IsMajority(S) == Cardinality(S) > Cardinality(Node) \div 2

BecomeFollower(i, t) ==
    /\ state' = [state EXCEPT ![i] = "Follower"]
    /\ currentTerm' = [currentTerm EXCEPT ![i] = IF t > @ THEN t ELSE @]
    /\ votedFor' = [votedFor EXCEPT ![i] = IF t > currentTerm[i] THEN Nil ELSE @]

BecomeLeader(i) ==
    /\ state' = [state EXCEPT ![i] = "Leader"]
    /\ nextIndex' = [nextIndex EXCEPT ![i] = [j \in Node |-> LastLogIndex(i) + 1]]
    /\ matchIndex' = [matchIndex EXCEPT ![i] =
                         [j \in Node |-> IF j = i THEN LastLogIndex(i) ELSE 0]]

\* A reply with a newer term; every sender checks it first.
StepDown(i, t) ==
    /\ t > currentTerm[i]
    /\ BecomeFollower(i, t)
    /\ UNCHANGED <<log, lastIncludedIndex, lastIncludedTerm>>
    /\ Persist(i)
    /\ UNCHANGED <<received, votes, commitVars, leaderVars>>

\* Variant: the largest matchIndex.
AtLast(match, n) == \A j \in Node : match[j] <= n

(***************************************************************************)
(* updateCommitIndex, called after log and matchIndex have been assigned:  *)
(* n is the element at position len/2 of the sorted matchIndex.            *)
(***************************************************************************)
AtMiddle(match, n) ==
    LET middle == Cardinality(Node) \div 2
    IN  /\ Cardinality({j \in Node : match[j] < n}) <= middle
        /\ middle < Cardinality({j \in Node : match[j] <= n})

\* Variant: entries of earlier terms are committed by counting too.
MayCommitAnyTerm(i, n) == n > commitIndex[i]

MayCommit(i, n) == n > commitIndex[i] /\ LogTerm(i, n)' = currentTerm[i]

UpdateCommitIndex(i) ==
    LET match == [matchIndex'[i] EXCEPT ![i] = LastLogIndex(i)']
    IN  \E n \in {match[j] : j \in Node} :
            /\ AtMiddle(match, n)
            /\ commitIndex' = [commitIndex EXCEPT ![i] = IF MayCommit(i, n) THEN n ELSE @]

-----------------------------------------------------------------------------
(* The ticker goroutine and the service's calls. *)

\* ticker and startElection: no heartbeat or vote since the last tick.
ElectionTimeout(i) ==
    /\ up[i]
    /\ state[i] # "Leader"
    /\ ~received[i]
    /\ elections < MaxElections
    /\ elections' = elections + 1
    /\ currentTerm' = [currentTerm EXCEPT ![i] = @ + 1]
    /\ votedFor' = [votedFor EXCEPT ![i] = i]
    /\ votes' = [votes EXCEPT ![i] = {i}]
    /\ UNCHANGED <<log, lastIncludedIndex, lastIncludedTerm>>
    /\ Persist(i)
    /\ IF IsMajority({i})
       THEN BecomeLeader(i) /\ UNCHANGED rpcs
       ELSE /\ state' = [state EXCEPT ![i] = "Candidate"]
            /\ \E peers \in SUBSET (Node \ {i}) : Send({RequestVoteCall(i, j) : j \in peers})
            /\ UNCHANGED leaderVars
    /\ UNCHANGED <<received, commitVars, serviceVars, up, restarts>>

\* ticker of a node that has heard from a leader or granted a vote.  At the bound
\* on elections it also stands for the timeouts that would start the next election.
QuietTick(i) ==
    /\ up[i]
    /\ state[i] # "Leader"
    /\ received[i] \/ elections = MaxElections
    /\ received' = [received EXCEPT ![i] = FALSE]
    /\ UNCHANGED <<persistentVars, state, votes, commitVars, leaderVars, serviceVars,
                   processVars, rpcs>>

\* A goroutine of broadcastHeartbeats, once it holds rf.mu.
SendAppendEntries(i, j) ==
    /\ up[i]
    /\ i # j
    /\ state[i] = "Leader"
    /\ nextIndex[i][j] > lastIncludedIndex[i]
    /\ Send({AppendEntriesCall(i, j)})
    /\ UNCHANGED <<persistentVars, roleVars, commitVars, leaderVars, serviceVars, processVars>>

SendInstallSnapshot(i, j) ==
    /\ up[i]
    /\ i # j
    /\ state[i] = "Leader"
    /\ nextIndex[i][j] <= lastIncludedIndex[i]
    /\ Send({InstallSnapshotCall(i, j)})
    /\ UNCHANGED <<persistentVars, roleVars, commitVars, leaderVars, serviceVars, processVars>>

\* The service proposes a command.
Start(i, command) ==
    /\ up[i]
    /\ state[i] = "Leader"
    /\ LastLogIndex(i) < MaxIndex
    /\ log' = [log EXCEPT ![i] = Append(@, [term |-> currentTerm[i], command |-> command])]
    /\ UNCHANGED <<currentTerm, votedFor, lastIncludedIndex, lastIncludedTerm>>
    /\ Persist(i)
    /\ UNCHANGED leaderVars
    /\ UpdateCommitIndex(i)
    /\ UNCHANGED <<roleVars, lastApplied, serviceVars, processVars, rpcs>>

\* Variant: the dummy entry goes with the others.
CompactAll(i, index, data) ==
    /\ lastIncludedIndex' = [lastIncludedIndex EXCEPT ![i] = index]
    /\ log' = [log EXCEPT ![i] = SubSeq(@, index - lastIncludedIndex[i] + 2, Len(@))]
    /\ UNCHANGED <<currentTerm, votedFor, lastIncludedTerm>>
    /\ PersistSnapshot(i, data)

\* The part of Snapshot after its early return, at an index above lastIncludedIndex.
Compact(i, index, data) ==
    LET offset == index - lastIncludedIndex[i]
        known  == offset < Len(log[i])
        t      == IF known THEN log[i][offset + 1].term ELSE lastIncludedTerm[i]
    IN  /\ lastIncludedTerm' = [lastIncludedTerm EXCEPT ![i] = t]
        /\ lastIncludedIndex' = [lastIncludedIndex EXCEPT ![i] = index]
        /\ log' = [log EXCEPT ![i] =
                      <<Dummy(t)>> \o (IF known THEN SubSeq(@, offset + 2, Len(@)) ELSE << >>)]
        /\ UNCHANGED <<currentTerm, votedFor>>
        /\ PersistSnapshot(i, data)

-----------------------------------------------------------------------------
(* The handlers of the three calls. *)

\* A request of a past term is answered with the callee's term.
RejectStale(m) ==
    LET i == m.to
        t == currentTerm[i]
    IN  /\ m.type \in {"RequestVote", "AppendEntries", "InstallSnapshot"}
        /\ up[i]
        /\ m.term < t
        /\ Respond(m, CASE m.type = "RequestVote"     -> RequestVoteReply(m, t, FALSE)
                        [] m.type = "AppendEntries"   -> AppendEntriesReply(m, t, FALSE, 0)
                        [] m.type = "InstallSnapshot" -> InstallSnapshotReply(m, t))
        /\ UNCHANGED <<persistentVars, roleVars, commitVars, leaderVars, serviceVars, processVars>>

\* Variant: nothing is compared.
AnyLog(m, i) == TRUE

UpToDate(m, i) ==
    \/ m.lastLogTerm > LastLogTerm(i)
    \/ m.lastLogTerm = LastLogTerm(i) /\ m.lastLogIndex >= LastLogIndex(i)

\* Variant: votedFor is not consulted.
VoteForgotten(m, i) == Nil

\* The vote i has already cast in the term of m, once it has moved to that term.
VoteIn(m, i) == IF m.term > currentTerm[i] THEN Nil ELSE votedFor[i]

MayGrant(m, i) == UpToDate(m, i) /\ VoteIn(m, i) \in {Nil, m.from}

HandleRequestVote(m) ==
    LET i       == m.to
        granted == MayGrant(m, i)
    IN  /\ m.type = "RequestVote"
        /\ up[i]
        /\ m.term >= currentTerm[i]
        /\ state' = [state EXCEPT ![i] = IF m.term > currentTerm[i] THEN "Follower" ELSE @]
        /\ currentTerm' = [currentTerm EXCEPT ![i] = m.term]
        /\ votedFor' = [votedFor EXCEPT ![i] = IF granted THEN m.from ELSE VoteIn(m, i)]
        /\ received' = [received EXCEPT ![i] = @ \/ granted]
        /\ UNCHANGED <<log, lastIncludedIndex, lastIncludedTerm>>
        /\ Persist(i)
        /\ Respond(m, RequestVoteReply(m, m.term, granted))
        /\ UNCHANGED <<votes, commitVars, leaderVars, serviceVars, processVars>>

\* The receiver of a current AppendEntries, before it looks at the log.
HearLeader(m) ==
    /\ m.type = "AppendEntries"
    /\ up[m.to]
    /\ m.term >= currentTerm[m.to]
    /\ received' = [received EXCEPT ![m.to] = TRUE]
    /\ BecomeFollower(m.to, m.term)
    /\ UNCHANGED <<lastIncludedIndex, lastIncludedTerm>>

\* The log of i has the entry before the new ones.
Matches(m, i) == LogTerm(i, m.prevLogIndex) = m.prevLogTerm

\* The log does not contain the entry before the new ones.
RejectAppendEntries(m) ==
    LET i    == m.to
        prev == m.prevLogIndex
    IN  /\ HearLeader(m)
        /\ UNCHANGED log
        /\ Persist(i)
        /\ \/ /\ prev > LastLogIndex(i)
              /\ Respond(m, AppendEntriesReply(m, m.term, FALSE, LastLogIndex(i) + 1))
           \/ /\ prev <= LastLogIndex(i)
              /\ ~Matches(m, i)
              /\ \E c \in 0 .. prev :
                     /\ IsConflictIndex(i, prev, c)
                     /\ Respond(m, AppendEntriesReply(m, m.term, FALSE, c))
        /\ UNCHANGED <<votes, commitVars, leaderVars, serviceVars, processVars>>

\* Variant: nothing is cut off.
AppendOnly(m, i) == log[i] \o m.entries

\* rf.log[:PrevLogIndex+1-lastIncludedIndex] with the entries appended.
NewLog(m, i) == SubSeq(log[i], 1, m.prevLogIndex + 1 - lastIncludedIndex[i]) \o m.entries

NewCommitIndex(m, i) ==
    LET last == LastLogIndex(i)'
    IN  IF m.leaderCommit <= commitIndex[i] THEN commitIndex[i]
        ELSE IF m.leaderCommit < last THEN m.leaderCommit ELSE last

\* A match below lastIncludedIndex would take a prevLogTerm of -1, which no sender has.
AcceptAppendEntries(m) ==
    LET i    == m.to
        prev == m.prevLogIndex
    IN  /\ HearLeader(m)
        /\ prev \in lastIncludedIndex[i] .. LastLogIndex(i)
        /\ Matches(m, i)
        /\ log' = [log EXCEPT ![i] = NewLog(m, i)]
        /\ Persist(i)
        /\ commitIndex' = [commitIndex EXCEPT ![i] = NewCommitIndex(m, i)]
        /\ Respond(m, AppendEntriesReply(m, m.term, TRUE, 0))
        /\ UNCHANGED <<votes, lastApplied, leaderVars, serviceVars, processVars>>

HandleAppendEntries(m) ==
    RejectAppendEntries(m) \/ AcceptAppendEntries(m)

\* Variant: the indices stay behind the snapshot.
NotRaised(f, i, n) == f

AtLeast(f, i, n) == [f EXCEPT ![i] = IF n > @ THEN n ELSE @]

\* The term check and the snapshot's own early return; a candidate of the same
\* term stays a candidate.
HandleInstallSnapshot(m) ==
    LET i     == m.to
        index == m.lastIncludedIndex
        newer == m.term > currentTerm[i]
    IN  /\ m.type = "InstallSnapshot"
        /\ up[i]
        /\ m.term >= currentTerm[i]
        /\ state' = [state EXCEPT ![i] = IF newer THEN "Follower" ELSE @]
        /\ currentTerm' = [currentTerm EXCEPT ![i] = m.term]
        /\ votedFor' = [votedFor EXCEPT ![i] = IF newer THEN Nil ELSE @]
        /\ received' = [received EXCEPT ![i] = TRUE]
        /\ \/ /\ index <= lastIncludedIndex[i]
              /\ UNCHANGED <<log, lastIncludedIndex, lastIncludedTerm, commitVars>>
              /\ Persist(i)
              /\ Respond(m, InstallSnapshotReply(m, m.term))
           \/ /\ index > lastIncludedIndex[i]
              /\ lastIncludedIndex' = [lastIncludedIndex EXCEPT ![i] = index]
              /\ lastIncludedTerm' = [lastIncludedTerm EXCEPT ![i] = m.lastIncludedTerm]
              /\ log' = [log EXCEPT ![i] = <<Dummy(m.lastIncludedTerm)>>]
              /\ commitIndex' = AtLeast(commitIndex, i, index)
              /\ lastApplied' = AtLeast(lastApplied, i, index)
              /\ PersistSnapshot(i, m.data)
              /\ rpcs' = (rpcs \ {m}) \cup {SnapshotMsg(m, m.term)}
        /\ UNCHANGED <<votes, leaderVars, serviceVars, processVars>>

-----------------------------------------------------------------------------
(* The callers' goroutines, once the reply is there and they hold rf.mu. *)

Done(m) == rpcs' = rpcs \ {m}

\* reply.Term > rf.currentTerm, whatever the call.
HandleNewerTerm(m) ==
    /\ m.type \in {"RequestVoteReply", "AppendEntriesReply", "InstallSnapshotReply"}
    /\ up[m.from]
    /\ StepDown(m.from, m.replyTerm)
    /\ Done(m)
    /\ UNCHANGED <<serviceVars, processVars>>

HandleRequestVoteReply(m) ==
    LET i       == m.from
        counted == state[i] = "Candidate" /\ m.term = currentTerm[i] /\ m.voteGranted
        ballot  == votes[i] \cup {m.to}
    IN  /\ m.type = "RequestVoteReply"
        /\ up[i]
        /\ m.replyTerm <= currentTerm[i]
        /\ Done(m)
        /\ \/ /\ counted
              /\ votes' = [votes EXCEPT ![i] = ballot]
              /\ \/ IsMajority(ballot) /\ BecomeLeader(i)
                 \/ ~IsMajority(ballot) /\ UNCHANGED <<state, leaderVars>>
           \/ /\ ~counted
              /\ UNCHANGED <<state, votes, leaderVars>>
        /\ UNCHANGED <<persistentVars, received, commitVars, serviceVars, processVars>>

\* Variant: the index after the hint.
BackoffBehind(m, i) ==
    LET next == nextIndex[i][m.to]
    IN  IF m.conflictIndex # 0 THEN m.conflictIndex + 1 ELSE IF next > 2 THEN next - 1 ELSE 1

\* nextIndex after a rejection: the follower's hint, or one less than before.
Backoff(m, i) ==
    LET next == nextIndex[i][m.to]
    IN  IF m.conflictIndex # 0 THEN m.conflictIndex ELSE IF next > 2 THEN next - 1 ELSE 1

\* The call is of this term, or about entries its caller had when it was elected.
Timely(m) ==
    m.term = currentTerm[m.from] \/ LogTerm(m.from, m.match) \in 0 .. currentTerm[m.from] - 1

\* The goroutine checks rf.state, but not that rf.currentTerm is still args.Term.
HandleAppendEntriesReply(m) ==
    LET i == m.from
        j == m.to
    IN  /\ m.type = "AppendEntriesReply"
        /\ up[i]
        /\ m.replyTerm <= currentTerm[i]
        /\ state[i] = "Leader" => LateReplies \/ Timely(m)
        /\ Done(m)
        /\ UNCHANGED <<persistentVars, roleVars, lastApplied, serviceVars, processVars>>
        /\ \/ /\ state[i] # "Leader"
              /\ UNCHANGED <<leaderVars, commitIndex>>
           \/ /\ state[i] = "Leader" /\ m.success
              /\ matchIndex' = [matchIndex EXCEPT ![i][j] = m.match]
              /\ nextIndex' = [nextIndex EXCEPT ![i][j] = m.match + 1]
              /\ UpdateCommitIndex(i)
           \/ /\ state[i] = "Leader" /\ ~m.success
              /\ nextIndex' = [nextIndex EXCEPT ![i][j] = Backoff(m, i)]
              /\ UNCHANGED <<matchIndex, commitIndex>>

HandleInstallSnapshotReply(m) ==
    LET i      == m.from
        j      == m.to
        index  == m.lastIncludedIndex
        useful == /\ state[i] = "Leader"
                  /\ m.term = currentTerm[i]
                  /\ index > matchIndex[i][j]
    IN  /\ m.type = "InstallSnapshotReply"
        /\ up[i]
        /\ m.replyTerm <= currentTerm[i]
        /\ Done(m)
        /\ UNCHANGED <<persistentVars, roleVars, lastApplied, serviceVars, processVars>>
        /\ \/ /\ useful
              /\ matchIndex' = [matchIndex EXCEPT ![i][j] = index]
              /\ nextIndex' = [nextIndex EXCEPT ![i][j] = index + 1]
              /\ UpdateCommitIndex(i)
           \/ /\ ~useful
              /\ UNCHANGED <<leaderVars, commitIndex>>

-----------------------------------------------------------------------------
(* The applier goroutine and the service behind applyChan. *)

\* applier takes the next committed entry and blocks on applyChan with it; when
\* the entry is not in rf.log the index is out of range and the process ends.
ApplierTake(i) ==
    LET n      == lastApplied[i] + 1
        offset == n - lastIncludedIndex[i]
    IN  /\ up[i]
        /\ applyChan[i] = << >>
        /\ lastApplied[i] < commitIndex[i]
        /\ lastApplied[i] < MaxApplied
        /\ lastApplied' = [lastApplied EXCEPT ![i] = n]
        /\ \/ /\ offset \in 0 .. Len(log[i]) - 1
              /\ applyChan' = [applyChan EXCEPT ![i] =
                                  <<[index |-> n, entry |-> log[i][offset + 1]]>>]
              /\ UNCHANGED up
           \/ /\ offset \notin 0 .. Len(log[i]) - 1
              /\ up' = [up EXCEPT ![i] = FALSE]
              /\ UNCHANGED applyChan
        /\ UNCHANGED <<persistentVars, roleVars, commitIndex, leaderVars, applied, compacting,
                       elections, restarts, rpcs>>

\* KVServer.applier receives a command and executes it, unless it is the nil command
\* of a dummy entry; it may then find the state too large and go on to call Snapshot.
ServiceApply(i) ==
    /\ up[i]
    /\ applyChan[i] # << >>
    /\ compacting[i] = << >>
    /\ LET msg    == applyChan[i][1]
           result == applied[i] \cup {m \in {msg} : m.entry.command # Nil}
       IN  /\ applied' = [applied EXCEPT ![i] = result]
           /\ \/ UNCHANGED compacting
              \/ /\ Compaction
                 /\ msg.entry.command # Nil
                 /\ compacting' = [compacting EXCEPT ![i] =
                                      <<[index |-> msg.index, data |-> result]>>]
    /\ applyChan' = [applyChan EXCEPT ![i] = << >>]
    /\ UNCHANGED <<persistentVars, roleVars, commitVars, leaderVars, processVars, rpcs>>

\* KVServer.applier receives a snapshot and readSnapshot replaces its state;
\* InstallSnapshot, unblocked, returns.
ServiceRestore(m) ==
    LET i == m.to
    IN  /\ m.type = "SnapshotMsg"
        /\ up[i]
        /\ compacting[i] = << >>
        /\ applied' = [applied EXCEPT ![i] = m.data]
        /\ Respond(m, InstallSnapshotReply(m, m.replyTerm))
        /\ UNCHANGED <<persistentVars, roleVars, commitVars, leaderVars, applyChan,
                       compacting, processVars>>

\* Snapshot, called by KVServer.applier, which still holds kv.mu.
Snapshot(i) ==
    /\ up[i]
    /\ compacting[i] # << >>
    /\ LET index == compacting[i][1].index
       IN  \/ /\ index <= lastIncludedIndex[i]
              /\ UNCHANGED persistentVars
           \/ /\ index > lastIncludedIndex[i]
              /\ Compact(i, index, compacting[i][1].data)
    /\ compacting' = [compacting EXCEPT ![i] = << >>]
    /\ UNCHANGED <<roleVars, commitVars, leaderVars, applyChan, applied, processVars, rpcs>>

-----------------------------------------------------------------------------
(* Failures. *)

\* The network loses a request or a reply, or the caller's 100 ms deadline passes.
Lose(m) ==
    /\ m.type # "SnapshotMsg"
    /\ Done(m)
    /\ UNCHANGED <<persistentVars, roleVars, commitVars, leaderVars, serviceVars, processVars>>

\* The callers' and the handlers' goroutines of i are gone; a request of theirs that
\* is on its way is still handled, and its reply goes nowhere.
AfterCrash(i) ==
    LET requests == {m \in rpcs : m.type \in {"RequestVote", "AppendEntries",
                                              "InstallSnapshot", "SnapshotMsg"}}
        lost     == {m \in requests : m.to = i /\ m.type = "SnapshotMsg"}
        orphans  == {m \in requests \ lost : m.from = i}
    IN  {m \in rpcs \ lost : m.from # i} \cup {[m EXCEPT !.live = FALSE] : m \in orphans}

\* The process ends and is started again: Make, readPersist and NewKVServer.
Restart(i) ==
    LET d == IF StorageSurvives THEN disk[i] ELSE BlankDisk
    IN  /\ restarts < MaxRestarts
        /\ restarts' = restarts + 1
        /\ UNCHANGED elections
        /\ up' = [up EXCEPT ![i] = TRUE]
        /\ Save(i, d)
        /\ currentTerm' = [currentTerm EXCEPT ![i] = d.currentTerm]
        /\ votedFor' = [votedFor EXCEPT ![i] = d.votedFor]
        /\ log' = [log EXCEPT ![i] = d.log]
        /\ lastIncludedIndex' = [lastIncludedIndex EXCEPT ![i] = d.lastIncludedIndex]
        /\ lastIncludedTerm' = [lastIncludedTerm EXCEPT ![i] = d.lastIncludedTerm]
        /\ applied' = [applied EXCEPT ![i] = d.snapshot]
        /\ state' = [state EXCEPT ![i] = "Follower"]
        /\ received' = [received EXCEPT ![i] = FALSE]
        /\ votes' = [votes EXCEPT ![i] = {}]
        /\ commitIndex' = [commitIndex EXCEPT ![i] = 0]
        /\ lastApplied' = [lastApplied EXCEPT ![i] = 0]
        /\ nextIndex' = [nextIndex EXCEPT ![i] = [j \in Node |-> 0]]
        /\ matchIndex' = [matchIndex EXCEPT ![i] = [j \in Node |-> 0]]
        /\ applyChan' = [applyChan EXCEPT ![i] = << >>]
        /\ compacting' = [compacting EXCEPT ![i] = << >>]
        /\ rpcs' = AfterCrash(i)

-----------------------------------------------------------------------------
\* Make with an empty Storage on every node.
Init ==
    /\ state = [i \in Node |-> "Follower"]
    /\ currentTerm = [i \in Node |-> 0]
    /\ votedFor = [i \in Node |-> Nil]
    /\ log = [i \in Node |-> <<Dummy(0)>>]
    /\ lastIncludedIndex = [i \in Node |-> 0]
    /\ lastIncludedTerm = [i \in Node |-> 0]
    /\ commitIndex = [i \in Node |-> 0]
    /\ lastApplied = [i \in Node |-> 0]
    /\ nextIndex = [i \in Node |-> [j \in Node |-> 0]]
    /\ matchIndex = [i \in Node |-> [j \in Node |-> 0]]
    /\ received = [i \in Node |-> FALSE]
    /\ votes = [i \in Node |-> {}]
    /\ up = [i \in Node |-> TRUE]
    /\ disk = [i \in Node |-> BlankDisk]
    /\ applyChan = [i \in Node |-> << >>]
    /\ applied = [i \in Node |-> {}]
    /\ compacting = [i \in Node |-> << >>]
    /\ rpcs = {}
    /\ elections = 0
    /\ restarts = 0

NodeStep(i) ==
    \/ ElectionTimeout(i)
    \/ QuietTick(i)
    \/ \E j \in Node : SendAppendEntries(i, j) \/ SendInstallSnapshot(i, j)
    \/ \E command \in Value : Start(i, command)
    \/ ApplierTake(i)
    \/ ServiceApply(i)
    \/ Snapshot(i)
    \/ Restart(i)

CallStep(m) ==
    \/ RejectStale(m)
    \/ HandleRequestVote(m)
    \/ HandleAppendEntries(m)
    \/ HandleInstallSnapshot(m)
    \/ HandleNewerTerm(m)
    \/ HandleRequestVoteReply(m)
    \/ HandleAppendEntriesReply(m)
    \/ HandleInstallSnapshotReply(m)
    \/ ServiceRestore(m)
    \/ Lose(m)

Next ==
    \/ \E i \in Node : NodeStep(i)
    \/ \E m \in rpcs : CallStep(m)

Spec == Init /\ [][Next]_vars

-----------------------------------------------------------------------------
(* Types. *)

Position  == [index : Nat, entry : Entry]
Log       == Seq(Entry) \ {<< >>}
PendingSnapshot == [index : Nat, data : SUBSET Position]
DiskState == [currentTerm : Nat, votedFor : Node \cup {Nil}, log : Log,
              lastIncludedIndex : Nat, lastIncludedTerm : Nat, snapshot : SUBSET Position]

RequestVoteRpc ==
    [type : {"RequestVote"}, from : Node, to : Node, slot : Slots, live : BOOLEAN,
     term : Nat, lastLogIndex : Nat, lastLogTerm : Nat]
AppendEntriesRpc ==
    [type : {"AppendEntries"}, from : Node, to : Node, slot : Slots, live : BOOLEAN,
     term : Nat, prevLogIndex : Nat, prevLogTerm : Int, entries : Seq(Entry),
     leaderCommit : Nat]
InstallSnapshotRpc ==
    [type : {"InstallSnapshot"}, from : Node, to : Node, slot : Slots, live : BOOLEAN,
     term : Nat, lastIncludedIndex : Nat, lastIncludedTerm : Nat, data : SUBSET Position]
SnapshotMsgRpc ==
    [type : {"SnapshotMsg"}, from : Node, to : Node, slot : Slots, live : BOOLEAN,
     term : Nat, lastIncludedIndex : Nat, data : SUBSET Position, replyTerm : Nat]
RequestVoteReplyRpc ==
    [type : {"RequestVoteReply"}, from : Node, to : Node, slot : Slots,
     term : Nat, replyTerm : Nat, voteGranted : BOOLEAN]
AppendEntriesReplyRpc ==
    [type : {"AppendEntriesReply"}, from : Node, to : Node, slot : Slots,
     term : Nat, match : Nat, replyTerm : Nat, success : BOOLEAN, conflictIndex : Nat]
InstallSnapshotReplyRpc ==
    [type : {"InstallSnapshotReply"}, from : Node, to : Node, slot : Slots,
     term : Nat, lastIncludedIndex : Nat, replyTerm : Nat]

Rpc == RequestVoteRpc \cup AppendEntriesRpc \cup InstallSnapshotRpc \cup SnapshotMsgRpc
       \cup RequestVoteReplyRpc \cup AppendEntriesReplyRpc \cup InstallSnapshotReplyRpc

\* Every variable holds a value of its Go type, and rf.log always has its dummy entry.
TypeOK ==
    /\ state \in [Node -> {"Follower", "Candidate", "Leader"}]
    /\ currentTerm \in [Node -> Nat]
    /\ votedFor \in [Node -> Node \cup {Nil}]
    /\ log \in [Node -> Log]
    /\ lastIncludedIndex \in [Node -> Nat]
    /\ lastIncludedTerm \in [Node -> Nat]
    /\ commitIndex \in [Node -> Nat]
    /\ lastApplied \in [Node -> Nat]
    /\ nextIndex \in [Node -> [Node -> Nat]]
    /\ matchIndex \in [Node -> [Node -> Nat]]
    /\ received \in [Node -> BOOLEAN]
    /\ votes \in [Node -> SUBSET Node]
    /\ up \in [Node -> BOOLEAN]
    /\ disk \in [Node -> DiskState]
    /\ applyChan \in [Node -> Seq(Position)]
    /\ applied \in [Node -> SUBSET Position]
    /\ compacting \in [Node -> Seq(PendingSnapshot)]
    /\ rpcs \subseteq Rpc
    /\ elections \in Nat
    /\ restarts \in Nat

-----------------------------------------------------------------------------
(* Elections. *)

\* Two nodes that are leaders at the same time are leaders of different terms
\* (startElection counts a majority of votes; RequestVote grants one per term).
ElectionSafety ==
    \A i, j \in Node :
        state[i] = "Leader" /\ state[j] = "Leader" /\ currentTerm[i] = currentTerm[j] => i = j

\* A node's term never falls, and its vote of a term, once cast, stays until the term
\* ends, across crashes too (persist runs before the reply to RequestVote leaves).
VoteOnce ==
    [][\A i \in Node :
          /\ currentTerm'[i] >= currentTerm[i]
          /\ currentTerm'[i] = currentTerm[i] /\ votedFor[i] # Nil => votedFor'[i] = votedFor[i]
      ]_vars

(***************************************************************************)
(* Why ElectionSafety holds.  A grant is a vote that a candidate or leader *)
(* has counted, or one in a reply on its way.  The voter remembers every   *)
(* grant, on disk too; so two grants of a voter in a term go to the same   *)
(* candidate; and a leader has counted a majority.                         *)
(***************************************************************************)
InMemory(i) ==
    [currentTerm |-> currentTerm[i], votedFor |-> votedFor[i], log |-> log[i],
     lastIncludedIndex |-> lastIncludedIndex[i], lastIncludedTerm |-> lastIncludedTerm[i],
     snapshot |-> disk[i].snapshot]

Durable == \A i \in Node : disk[i] = InMemory(i)

Campaigning(i) == state[i] \in {"Candidate", "Leader"}

Grant(m) == m.type = "RequestVoteReply" /\ m.voteGranted

\* j still stands by the vote it gave to i in term t.
Remembers(j, i, t) == t <= currentTerm[j] /\ (t = currentTerm[j] => votedFor[j] = i)

GrantsRemembered ==
    /\ \A i \in Node : Campaigning(i) => \A j \in votes[i] : Remembers(j, i, currentTerm[i])
    /\ \A m \in rpcs : Grant(m) => Remembers(m.to, m.from, m.term)

GrantsUnique ==
    /\ \A i, k \in Node :
          Campaigning(i) /\ Campaigning(k) /\ currentTerm[i] = currentTerm[k] /\ i # k =>
              votes[i] \cap votes[k] = {}
    /\ \A i \in Node : \A m \in rpcs :
          Campaigning(i) /\ Grant(m) /\ m.term = currentTerm[i] /\ m.from # i =>
              m.to \notin votes[i]
    /\ \A m, n \in rpcs :
          Grant(m) /\ Grant(n) /\ m.to = n.to /\ m.term = n.term => m.from = n.from

LeadersElected == \A i \in Node : state[i] = "Leader" => IsMajority(votes[i])

\* The inductive invariant behind ElectionSafety: what RequestVote, the counting of
\* votes and persist keep true between any two critical sections.
ElectionInv == TypeOK /\ Durable /\ GrantsRemembered /\ GrantsUnique /\ LeadersElected

-----------------------------------------------------------------------------
(* The log. *)

\* Logs that agree on an entry's term agree on everything before it: the check of
\* PrevLogTerm in AppendEntries keeps every log a continuation of its leader's.
LogMatching ==
    \A i, j \in Node : \A n \in Held(i) \cap Held(j) :
        EntryAt(i, n).term = EntryAt(j, n).term =>
            \A k \in Held(i) \cap Held(j) : k <= n => EntryAt(i, k) = EntryAt(j, k)

(***************************************************************************)
(* Why LogMatching holds.  A chain is a stretch of a log: a node's rf.log, *)
(* or what an AppendEntries call carries.  Of the entry at its base only   *)
(* the term is known.  Any two chains agree; and the entries of a term     *)
(* come from one leader, whose log has all of them.                        *)
(***************************************************************************)
LogChain(i) ==
    [base |-> lastIncludedIndex[i], last |-> LastLogIndex(i),
     at |-> [n \in lastIncludedIndex[i] .. LastLogIndex(i) |->
                IF n = lastIncludedIndex[i] THEN Dummy(lastIncludedTerm[i]) ELSE EntryAt(i, n)]]

CallChain(m) ==
    LET last == m.prevLogIndex + Len(m.entries)
    IN  [base |-> m.prevLogIndex, last |-> last,
         at |-> [n \in m.prevLogIndex .. last |->
                    IF n = m.prevLogIndex THEN Dummy(m.prevLogTerm)
                    ELSE m.entries[n - m.prevLogIndex]]]

Calls == {m \in rpcs : m.type = "AppendEntries"}

Chains == {LogChain(i) : i \in Node} \cup {CallChain(m) : m \in Calls}

Span(c)  == c.base .. c.last
Owned(c) == (c.base + 1) .. c.last

\* Chains that have the same term at an index are the same up to there.
Agree(c, d) ==
    \A n \in Span(c) \cap Span(d) :
        c.at[n].term = d.at[n].term =>
            \A k \in Span(c) \cap Span(d) :
                k <= n => /\ c.at[k].term = d.at[k].term
                          /\ k \in Owned(c) \cap Owned(d) => c.at[k] = d.at[k]

ChainsAgree == \A c, d \in Chains : Agree(c, d)

\* j voted for i in term t, and for nobody else as far as anyone knows.
Pledged(j, i, t) ==
    /\ Remembers(j, i, t)
    /\ \A k \in Node : Campaigning(k) /\ currentTerm[k] = t /\ j \in votes[k] => k = i
    /\ \A m \in rpcs : Grant(m) /\ m.to = j /\ m.term = t => m.from = i

\* i is or was the leader of term t: a majority stands by its vote, and i will not
\* campaign in t again.
Led(i, t) ==
    /\ \E Q \in SUBSET Node : IsMajority(Q) /\ \A j \in Q : Pledged(j, i, t)
    /\ t <= currentTerm[i]
    /\ t = currentTerm[i] => state[i] # "Candidate"

\* Entries are of terms that had a leader, and so are the calls that only leaders make.
EntriesLed ==
    \A c \in Chains : \A n \in Owned(c) : \E i \in Node : Led(i, c.at[n].term)

CallsLed ==
    \A m \in rpcs : m.type \in {"AppendEntries", "InstallSnapshot"} =>
                      m.from # m.to /\ Led(m.from, m.term)

\* No entry of a leader's term is anywhere beyond the end of its log.
LeaderHasLast ==
    \A i \in Node : state[i] = "Leader" =>
        \A c \in Chains : \A n \in Owned(c) :
            c.at[n].term = currentTerm[i] => n <= LastLogIndex(i)

\* The inductive invariant behind LogMatching.
MatchingInv == ElectionInv /\ ChainsAgree /\ EntriesLed /\ CallsLed /\ LeaderHasLast

Committed(i) == {n \in Held(i) : n <= commitIndex[i]}

\* j has entry e at n, in its log or in its snapshot.
Stores(j, n, e) == n <= lastIncludedIndex[j] \/ (n \in Held(j) /\ EntryAt(j, n) = e)

\* A committed entry is on a majority, the promise of updateCommitIndex
\* ("Check if majority matches").
CommittedOnMajority ==
    \A i \in Node : \A n \in Committed(i) :
        IsMajority({j \in Node : Stores(j, n, EntryAt(i, n))})

\* A leader has every entry that any node of its term or of an earlier one knows to be
\* committed: the comparison of logs in RequestVote keeps every other candidate out.
LeaderCompleteness ==
    \A i, j \in Node :
        state[j] = "Leader" /\ currentTerm[j] >= currentTerm[i] =>
            \A n \in Committed(i) : Stores(j, n, EntryAt(i, n))

\* No step takes back an entry its node knows to be committed: AppendEntries cuts
\* rf.log after PrevLogIndex whatever it holds there.
CommittedStable ==
    [][\A i \in Node : \A n \in Committed(i) :
          n <= lastIncludedIndex'[i] \/ (n \in Held(i)' /\ EntryAt(i, n)' = EntryAt(i, n))
      ]_vars

-----------------------------------------------------------------------------
(* The service. *)

\* No two services execute different commands at the same index.
StateMachineSafety ==
    \A i, j \in Node : \A a \in applied[i], b \in applied[j] : a.index = b.index => a = b

Indices(positions) == {p.index : p \in positions}

\* When nothing waits on applyChan, the service has executed everything that Raft
\* counts as applied: the two senders on applyChan, applier and InstallSnapshot, leave
\* no gap between snapshots and commands.
ServiceCaughtUp ==
    \A i \in Node :
        up[i] /\ applyChan[i] = << >> /\ (\A m \in rpcs : m.to = i => m.type # "SnapshotMsg") =>
            1 .. lastApplied[i] \subseteq Indices(applied[i])

\* A snapshot on disk is the state after exactly the entries compaction has dropped.
\* It is not, once InstallSnapshot's older snapshot has replaced the state of a service
\* that had executed more, and Snapshot saves what the service has made of it.
SnapshotComplete ==
    \A i \in Node : Indices(disk[i].snapshot) = 1 .. lastIncludedIndex[i]

(***************************************************************************)
(* What does hold of snapshots: whatever Snapshot and InstallSnapshot save *)
(* is no further than the index they save it with, so that no entry is     *)
(* executed on top of a state which has it already.                        *)
(***************************************************************************)
NotBeyond(positions, n) == \A p \in positions : p.index <= n

SnapshotsWithin ==
    \A i \in Node : /\ NotBeyond(disk[i].snapshot, disk[i].lastIncludedIndex)
                    /\ disk[i].lastIncludedIndex <= lastIncludedIndex[i]

\* A state of the service of i has nothing beyond n but what a snapshot has brought.
Reached(i, positions, n) == \A p \in positions : p.index <= n \/ p.index <= lastIncludedIndex[i]

\* Neither the service nor the state it is about to save is ahead of the applier.
ServiceBehind ==
    \A i \in Node :
        /\ Reached(i, applied[i], lastApplied[i])
        /\ applyChan[i] # << >> => /\ applyChan[i][1].index <= lastApplied[i]
                                   /\ Reached(i, applied[i], applyChan[i][1].index)
        /\ compacting[i] # << >> => /\ compacting[i][1].index <= lastApplied[i]
                                    /\ Reached(i, compacting[i][1].data, compacting[i][1].index)

SnapshotsSentWithin ==
    \A m \in rpcs :
        /\ m.type \in {"InstallSnapshot", "SnapshotMsg"} => NotBeyond(m.data, m.lastIncludedIndex)
        /\ m.type = "SnapshotMsg" => m.lastIncludedIndex <= lastIncludedIndex[m.to]

\* No snapshot on disk, on its way or about to be saved goes beyond its index: maybeSnapshot
\* passes on the index of the command it has executed, while Raft goes on meanwhile.
SnapshotInv == SnapshotsWithin /\ ServiceBehind /\ SnapshotsSentWithin

\* The applier never asks rf.log for an entry the snapshot has replaced ...
AppliesNoCompacted == \A i \in Node : ~up[i] => lastApplied[i] >= lastIncludedIndex[i]

\* ... nor for one after its end; either index out of range ends the process.
AppliesWithinLog == \A i \in Node : ~up[i] => lastApplied[i] <= LastLogIndex(i)

=============================================================================
