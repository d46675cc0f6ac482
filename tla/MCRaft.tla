------------------------------- MODULE MCRaft -------------------------------
EXTENDS RaftCommit, TLC

Symmetry == Permutations(Node)

\* Equal for states that differ only in what no step reads again: nextIndex and
\* matchIndex of a node that is not a leader (becomeLeader overwrites them), the votes of
\* a candidate that has stepped down, and, when no election is left, received.
View ==
    LET If(p, v) == IF p THEN v ELSE "dead"
    IN  <<persistentVars, state, commitVars, serviceVars, processVars, rpcs,
          If(elections < MaxElections, received),
          [i \in Node |-> If(state[i] = "Leader", <<nextIndex[i], matchIndex[i]>>)],
          [i \in Node |-> If(state[i] # "Follower", votes[i])]>>
=============================================================================
