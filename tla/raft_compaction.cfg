SPECIFICATION Spec
VIEW View
SYMMETRY Symmetry
CONSTANTS
    n1 = n1
    n2 = n2
    n3 = n3
    Node = {n1, n2, n3}
    cmd = cmd
    Value = {cmd}
    Nil = Nil
    StorageSurvives = TRUE
    Compaction = TRUE
    MaxElections = 1
    MaxIndex = 2
    MaxApplied = 2
    MaxOutstanding = 1
    MaxCalls = 1
    LateReplies = TRUE
    MaxRestarts = 0
INVARIANTS
    TypeOK
    CommittedOnMajority
    AppliesNoCompacted
    SnapshotInv
