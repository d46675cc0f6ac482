SPECIFICATION Spec
VIEW View
SYMMETRY Symmetry
CONSTANTS
    n1 = n1
    n2 = n2
    n3 = n3
    Node = {n1, n2, n3}
    cmd = cmd
    Value = {cmd}
    Nil = Nil
    StorageSurvives = TRUE
    Compaction = FALSE
    MaxElections = 2
    MaxIndex = 1
    MaxApplied = 0
    MaxOutstanding = 1
    MaxCalls = 3
    LateReplies = TRUE
    MaxRestarts = 1
INVARIANTS
    ElectionInv
    ElectionSafety
    CommittedOnMajority
PROPERTIES
    VoteOnce
