---------------------------- MODULE RaftCommit ----------------------------
(***************************************************************************)
(* Why committed entries stay: the inductive invariant behind              *)
(* LeaderCompleteness, CommittedStable, CommittedOnMajority and            *)
(* StateMachineSafety of Raft, in an environment in which they hold.       *)
(***************************************************************************)
EXTENDS Raft

(***************************************************************************)
(* The environment: a restart finds what Save wrote, nothing is compacted, *)
(* the calls of a link do not overlap, replies come in time, and the       *)
(* number of nodes is odd, so that the middle of the sorted matchIndex is  *)
(* reached by a majority.                                                  *)
(***************************************************************************)
OrderlyNetwork ==
    /\ StorageSurvives
    /\ ~Compaction
    /\ MaxOutstanding = 1
    /\ ~LateReplies
    /\ Cardinality(Node) % 2 = 1

-----------------------------------------------------------------------------
(* What the environment gives. *)

\* Without compaction there are no snapshots, and logs begin with the entry Make puts there.
NoSnapshots ==
    /\ \A i \in Node : lastIncludedIndex[i] = 0 /\ lastIncludedTerm[i] = 0 /\ log[i][1].term = 0
    /\ \A i \in Node : compacting[i] = << >> /\ disk[i].snapshot = {}
    /\ \A m \in rpcs : m.type \notin {"InstallSnapshot", "SnapshotMsg", "InstallSnapshotReply"}

OneCall ==
    /\ \A m, n \in rpcs : m.from = n.from /\ m.to = n.to => m = n
    /\ \A m, n \in Calls : m.term = n.term => m.from = n.from

-----------------------------------------------------------------------------
(* Terms, and what calls know of their callers. *)

Ascending(c) == \A k, n \in Span(c) : k <= n => c.at[k].term <= c.at[n].term

UpTo(c, t) == \A n \in Span(c) : c.at[n].term <= t

\* Terms never fall along a log or a call, and none is ahead of its holder.
TermsAscend ==
    /\ \A c \in Chains : Ascending(c)
    /\ \A i \in Node : UpTo(LogChain(i), currentTerm[i])
    /\ \A m \in Calls : UpTo(CallChain(m), m.term)

\* A candidate asks for votes with the log it has.
RequestsAreCurrent ==
    /\ \A m \in rpcs : m.type \in {"RequestVote", "RequestVoteReply"} => m.term <= currentTerm[m.from]
    /\ \A m \in rpcs :
          /\ m.type = "RequestVote"
          /\ state[m.from] = "Candidate"
          /\ m.term = currentTerm[m.from]
          => m.lastLogIndex = LastLogIndex(m.from) /\ m.lastLogTerm = LastLogTerm(m.from)

\* m is of the term its caller leads.
OfLeader(m) == state[m.from] = "Leader" /\ m.term = currentTerm[m.from]

\* c, or the log of i, has e at n.
Holds(c, n, e) == n \in Owned(c) /\ c.at[n] = e

Has(i, n, e) == Holds(LogChain(i), n, e)

\* A leader's call is a piece of its log, and what it knows of followers is within it.
CallsFromLog ==
    \A m \in Calls : OfLeader(m) =>
        LET c == CallChain(m)
            d == LogChain(m.from)
        IN  /\ c.last <= d.last
            /\ \A n \in Span(c) : c.at[n].term = d.at[n].term
            /\ \A n \in Owned(c) : c.at[n] = d.at[n]

FollowersWithin ==
    /\ \A i, j \in Node : state[i] = "Leader" =>
          /\ matchIndex[i][j] <= LastLogIndex(i)
          /\ nextIndex[i][j] \in 1 .. LastLogIndex(i) + 1
    /\ \A m \in rpcs : m.type = "AppendEntriesReply" =>
          /\ m.from # m.to
          /\ Led(m.from, m.term)
          /\ m.conflictIndex <= m.match
          /\ OfLeader(m) => m.match <= LastLogIndex(m.from)

-----------------------------------------------------------------------------
(* An entry e at index n that nothing of its term or a later one can lack. *)

\* A follower that joins c to its log has e at n then, if it had before.
Carries(c, n, e) == n <= c.last /\ (n \in Owned(c) => c.at[n] = e)

\* An entry of c after e, in the order in which elections compare logs, has e before it.
Respects(c, n, e) ==
    \A k \in Owned(c) :
        c.at[k].term > e.term \/ (c.at[k].term = e.term /\ k >= n) =>
            k >= n /\ (n \in Owned(c) => c.at[n] = e)

\* Leaders, logs and calls of e's term and of later ones have e at n.
Lasting(n, e) ==
    /\ \A i \in Node : state[i] = "Leader" /\ currentTerm[i] >= e.term => Has(i, n, e)
    /\ \A c \in Chains : Respects(c, n, e)
    /\ \A m \in Calls :
          LET c == CallChain(m)
          IN  /\ m.term > e.term => Carries(c, n, e)
              /\ m.term >= e.term /\ n <= c.base => c.at[c.base].term >= e.term

\* j has given its vote to the candidate i.
VotedFor(j, i) ==
    \/ j \in votes[i]
    \/ \E m \in rpcs : Grant(m) /\ m.to = j /\ m.from = i /\ m.term = currentTerm[i]

\* No call of e's term that j may accept takes e away.
NoCut(j, n, e) ==
    \A m \in Calls : m.to = j /\ m.term = e.term /\ currentTerm[j] <= m.term =>
        Carries(CallChain(m), n, e)

\* j has e at n, and gives its vote only to those who have it, too.
Keeps(j, n, e) ==
    /\ Has(j, n, e)
    /\ NoCut(j, n, e)
    /\ \A i \in Node :
          state[i] = "Candidate" /\ currentTerm[i] > e.term /\ VotedFor(j, i) => Has(i, n, e)

KeptByMajority(n, e) == \E Q \in SUBSET Node : IsMajority(Q) /\ \A j \in Q : Keeps(j, n, e)

Secure(n, e) == Lasting(n, e) /\ KeptByMajority(n, e)

-----------------------------------------------------------------------------
(* Entries become lasting before they are committed, as soon as too few    *)
(* nodes are left that could elect somebody without them.                  *)

\* The leader i knows that j has its log up to n, or a reply on its way says so.
Acked(i, j, n) ==
    \/ j = i
    \/ matchIndex[i][j] >= n
    \/ \E m \in rpcs :
          /\ m.type = "AppendEntriesReply" /\ m.success
          /\ m.from = i /\ m.to = j
          /\ m.term = currentTerm[i]
          /\ m.match >= n

MayBeCommitted(i, n) ==
    IsMajority({j \in Node : Acked(i, j, n) \/ currentTerm[j] <= currentTerm[i]})

AcksKept ==
    \A i \in Node : \A n \in Owned(LogChain(i)) :
        LET e == LogChain(i).at[n]
        IN  state[i] = "Leader" /\ e.term = currentTerm[i] /\ MayBeCommitted(i, n) =>
                Lasting(n, e) /\ \A j \in Node : Acked(i, j, n) => Keeps(j, n, e)

\* commitIndex is where a leader has committed an entry of its own term.
CommitsSecure ==
    \A i \in Node : commitIndex[i] > 0 =>
        LET n == commitIndex[i]
            e == LogChain(i).at[n]
        IN  Has(i, n, e) /\ NoCut(i, n, e) /\ Secure(n, e)

CallsSecure ==
    \A m \in Calls : m.leaderCommit > 0 =>
        \E e \in [term : 0 .. m.term, command : Value \cup {Nil}] :
            /\ Carries(CallChain(m), m.leaderCommit, e)
            /\ Secure(m.leaderCommit, e)

\* What a service has been given is committed.
AppliedCommitted ==
    \A i \in Node :
        /\ lastApplied[i] <= commitIndex[i]
        /\ \A p \in applied[i] \cup {applyChan[i][k] : k \in DOMAIN applyChan[i]} :
              p.index <= commitIndex[i] /\ Has(i, p.index, p.entry)

CommitInv ==
    /\ MatchingInv
    /\ NoSnapshots
    /\ OneCall
    /\ TermsAscend
    /\ RequestsAreCurrent
    /\ CallsFromLog
    /\ FollowersWithin
    /\ AcksKept
    /\ CommitsSecure
    /\ CallsSecure
    /\ AppliedCommitted
=============================================================================
