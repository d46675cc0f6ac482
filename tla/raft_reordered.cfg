SPECIFICATION Spec
VIEW View
SYMMETRY Symmetry
CONSTANTS
    n1 = n1
    n2 = n2
    n3 = n3
    Node = {n1, n2, n3}
    cmd = cmd
    Value = {cmd}
    Nil = Nil
    StorageSurvives = TRUE
    Compaction = FALSE
    MaxElections = 1
    MaxIndex = 1
    MaxApplied = 0
    MaxOutstanding = 2
    MaxCalls = 2
    LateReplies = TRUE
    MaxRestarts = 0
PROPERTIES
    CommittedStable
