---------------------------- MODULE MCRefinement ----------------------------
EXTENDS RaftRefinement, TLC

Symmetry == Permutations(Node)

View ==
    LET If(p, v) == IF p THEN v ELSE "dead"
    IN  <<persistentVars, state, commitVars, serviceVars, processVars, rpcs, historyVars,
          If(elections < MaxElections, received),
          [i \in Node |-> If(state[i] = "Leader", <<nextIndex[i], matchIndex[i]>>)],
          [i \in Node |-> If(state[i] # "Follower", votes[i])]>>
=============================================================================
