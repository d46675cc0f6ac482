--------------------------- MODULE RaftRefinement ---------------------------
(***************************************************************************)
(* The nodes of module Raft implement the replicated log of module         *)
(* RaftLog, which the key-value service is built on.  Two variables record *)
(* what no node remembers: the logs each node has had as a leader, and the *)
(* entries that some node has known to be committed.                       *)
(***************************************************************************)
EXTENDS RaftCommit

VARIABLES
    offered,     \* history: the logs each node has had as a leader
    committed    \* history: the longest prefix that a node has known to be committed

historyVars == <<offered, committed>>

Entries(i) == SubSeq(log[i], 2, Len(log[i]))

\* What the node i knows to be committed.
CommittedEntries(i) == SubSeq(Entries(i), 1, commitIndex[i])

HistoryInit ==
    /\ Init
    /\ offered = [i \in Node |-> {}]
    /\ committed = << >>

HistoryNext ==
    /\ Next
    /\ offered' = [i \in Node |->
                      offered[i] \cup (IF state'[i] = "Leader" THEN {Entries(i)'} ELSE {})]
    /\ \/ /\ \A i \in Node : commitIndex'[i] <= Len(committed)
          /\ UNCHANGED committed
       \/ \E i \in Node :
             /\ Len(committed) < commitIndex'[i]
             /\ committed' = CommittedEntries(i)'

HistorySpec == HistoryInit /\ [][HistoryNext]_<<vars, historyVars>>

RL == INSTANCE RaftLog WITH
          Command   <- [term : 0 .. MaxElections, command : Value],
          leaders   <- {i \in Node : state[i] = "Leader"},
          logs      <- [i \in Node |-> Entries(i)],
          delivered <- lastApplied

\* As long as the calls of a link do not overlap, the log is not compacted and there is more
\* than one node, every critical section of raft.go is a step of the replicated log or
\* invisible to the service: a leader that lacks committed entries commits nothing, a
\* follower's log becomes one that a leader has had and keeps what the service has been
\* given, and the applier delivers the committed entries in order.
ImplementsRaftLog == RL!Spec

-----------------------------------------------------------------------------
(***************************************************************************)
(* Why it holds.  Every log there is was offered by a leader at some time, *)
(* and logs that were offered at any time agree with each other as those   *)
(* of one moment do.                                                       *)
(***************************************************************************)
Offers == {<< >>} \cup UNION {offered[i] : i \in Node}

LogsAgree(s, t) ==
    \A n \in 1 .. Len(s) :
        n <= Len(t) /\ s[n].term = t[n].term => \A k \in 1 .. n : s[k] = t[k]

OffersAgree == \A s, t \in Offers : LogsAgree(s, t)

OffersLed == \A s \in Offers : \A n \in 1 .. Len(s) : \E k \in Node : Led(k, s[n].term)

\* No entry of a leader's term was ever beyond the end of its log.
OffersWithin ==
    \A i \in Node : state[i] = "Leader" =>
        \A s \in Offers : \A n \in 1 .. Len(s) :
            s[n].term = currentTerm[i] => n <= LastLogIndex(i)

LogsOffered ==
    \A i \in Node : /\ Entries(i) \in Offers
                    /\ state[i] = "Leader" => Entries(i) \in offered[i]

\* The chain c is the end of the log s.
EndOf(c, s) ==
    /\ Len(s) = c.last
    /\ c.base > 0 => s[c.base].term = c.at[c.base].term
    /\ \A n \in Owned(c) : s[n] = c.at[n]

CallsOffered == \A m \in Calls : \E s \in offered[m.from] : EndOf(CallChain(m), s)

\* Nobody knows of more, and what was committed is secure, and was offered.
CommittedLasts ==
    /\ \A i \in Node : commitIndex[i] <= Len(committed)
    /\ \A m \in Calls : m.leaderCommit <= Len(committed)
    /\ committed # << >> => Secure(Len(committed), committed[Len(committed)])
    /\ \E s \in Offers : /\ Len(committed) <= Len(s)
                         /\ \A n \in 1 .. Len(committed) : s[n] = committed[n]

\* A leader commits what it can as soon as it hears of it, so Start commits nothing.
NothingToCount ==
    \A i \in Node : state[i] = "Leader" =>
        \A n \in Owned(LogChain(i)) :
            n > commitIndex[i] /\ LogChain(i).at[n].term = currentTerm[i] =>
                ~IsMajority({j \in Node : j = i \/ matchIndex[i][j] >= n})

\* Every term began with an election.
TermsBounded ==
    /\ elections <= MaxElections
    /\ \A i \in Node : currentTerm[i] <= elections
    /\ \A m \in rpcs : m.term <= elections
    /\ \A m \in rpcs :
          m.type \in {"RequestVoteReply", "AppendEntriesReply"} => m.replyTerm <= elections

HistoryTypes == offered \in [Node -> SUBSET Seq(Entry)] /\ committed \in Seq(Entry)

\* The inductive invariant behind ImplementsRaftLog.
HistoryInv ==
    /\ CommitInv
    /\ HistoryTypes
    /\ OffersAgree
    /\ OffersLed
    /\ OffersWithin
    /\ LogsOffered
    /\ CallsOffered
    /\ CommittedLasts
    /\ NothingToCount
    /\ TermsBounded
=============================================================================
