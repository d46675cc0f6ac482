SPECIFICATION HistorySpec
VIEW View
SYMMETRY Symmetry
CONSTANTS
    n1 = n1
    n2 = n2
    n3 = n3
    Node = {n1, n2, n3}
    cmd = cmd
    Value = {cmd}
    Nil = Nil
    StorageSurvives = TRUE
    Compaction = FALSE
    MaxElections = 2
    MaxIndex = 1
    MaxApplied = 1
    MaxOutstanding = 1
    MaxCalls = 2
    LateReplies = FALSE
    MaxRestarts = 0
INVARIANTS
    HistoryInv
PROPERTIES
    ImplementsRaftLog
