--------------------------- MODULE RaftProgress ---------------------------
(***************************************************************************)
(* Progress of Raft under a leader that stays: from the moment node        *)
(* Elected has become the leader, with logs left by earlier leaders, and   *)
(* no election timeout after it.                                           *)
(***************************************************************************)
EXTENDS Raft

CONSTANTS Elected, Voter, Other, Command

ASSUME RolesAssumption ==
    /\ Node = {Elected, Voter, Other} /\ Cardinality(Node) = 3
    /\ Command \in Value

\* A log of k entries of term t.
LogOf(k, t) == <<Dummy(0)>> \o [n \in 1 .. k |-> [term |-> t, command |-> Command]]

(***************************************************************************)
(* Two pasts that end with Voter's vote for Elected, in term T.            *)
(*   T = 2: Other led term 1.  Its entries have reached the two others in  *)
(*   part, no reply has come back, and Elected has as many as Voter.       *)
(*   T = 3: Elected led term 1, cut off from the others.  Other led term 2 *)
(*   by Voter's vote, and then was cut off itself.                         *)
(* Other has refused the vote if it had to, and granted it otherwise.      *)
(***************************************************************************)
Pasts ==
    [term : {2}, elected : 0 .. MaxIndex, voter : 0 .. MaxIndex, other : 0 .. MaxIndex]
        \cup [term : {3}, elected : 0 .. MaxIndex, voter : {0}, other : 0 .. MaxIndex]

IsPast(p) == p.voter <= p.elected /\ (p.term = 2 => p.elected <= p.other)

LogIn(p, i) ==
    CASE i = Elected -> LogOf(p.elected, 1)
      [] i = Voter   -> LogOf(p.voter, 1)
      [] i = Other   -> LogOf(p.other, p.term - 1)

VoteAfter(p, i) ==
    IF i = Other /\ (IF p.term = 2 THEN p.other > p.elected ELSE p.other > 0) THEN Nil ELSE Elected

InitElected ==
    /\ \E p \in Pasts :
        /\ IsPast(p)
        /\ log = [i \in Node |-> LogIn(p, i)]
        /\ currentTerm = [i \in Node |-> p.term]
        /\ votedFor = [i \in Node |-> VoteAfter(p, i)]
        /\ votes = [i \in Node |->
                       CASE i = Elected -> {Elected, Voter}
                         [] i = Voter   -> {}
                         [] i = Other   -> {Other, Voter}]
        /\ nextIndex = [i \in Node |-> [j \in Node |-> IF i = Elected THEN p.elected + 1 ELSE 1]]
        /\ matchIndex = [i \in Node |-> [j \in Node |-> IF i = Elected /\ j = i THEN p.elected ELSE 0]]
        /\ disk = [i \in Node |->
                      [currentTerm |-> p.term, votedFor |-> VoteAfter(p, i), log |-> LogIn(p, i),
                       lastIncludedIndex |-> 0, lastIncludedTerm |-> 0, snapshot |-> {}]]
    /\ state = [i \in Node |-> IF i = Elected THEN "Leader" ELSE "Follower"]
    /\ lastIncludedIndex = [i \in Node |-> 0]
    /\ lastIncludedTerm = [i \in Node |-> 0]
    /\ commitIndex = [i \in Node |-> 0]
    /\ lastApplied = [i \in Node |-> 0]
    /\ received = [i \in Node |-> i = Voter]
    /\ up = [i \in Node |-> TRUE]
    /\ applyChan = [i \in Node |-> << >>]
    /\ applied = [i \in Node |-> {}]
    /\ compacting = [i \in Node |-> << >>]
    /\ rpcs = {}
    /\ elections = MaxElections
    /\ restarts = MaxRestarts

HandleCall(m) == RejectStale(m) \/ HandleAppendEntries(m)
HandleReply(m) == HandleNewerTerm(m) \/ HandleAppendEntriesReply(m)

(***************************************************************************)
(* Fairness: the leader's ticker sends heartbeats as long as it leads, and *)
(* the network is fair-lossy: of the calls made to a node again and again, *)
(* it does not lose all, nor all replies.                                  *)
(***************************************************************************)
FairSpec ==
    /\ InitElected
    /\ [][Next]_vars
    /\ \A j \in Node \ {Elected} :
        /\ WF_vars(SendAppendEntries(Elected, j))
        /\ SF_vars(\E m \in rpcs : m.to = j /\ HandleCall(m))
        /\ SF_vars(\E m \in rpcs : m.to = j /\ HandleReply(m))

-----------------------------------------------------------------------------
\* An entry the leader has started in its own term is committed in the end, with all
\* before it, and every node learns so, whatever the logs of the followers held and
\* however many calls are lost (broadcastHeartbeats, its back-off, updateCommitIndex).
EntriesSpread ==
    \A n \in 1 .. MaxIndex :
        (n \in Held(Elected) /\ EntryAt(Elected, n).term = currentTerm[Elected]) ~>
            \A i \in Node : commitIndex[i] >= n

\* The leader learns in the end how far each follower's log agrees with its own, and
\* never has to leave office.
FollowersCatchUp ==
    \A i \in Node \ {Elected} :
        <>[](state[Elected] = "Leader" /\ matchIndex[Elected][i] = LastLogIndex(Elected))
=============================================================================
