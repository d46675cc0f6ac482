SPECIFICATION Spec
SYMMETRY Symmetry
CONSTANTS
    n1 = n1
    n2 = n2
    Node = {n1, n2}
    Servers <- MCServers
    c1 = c1
    c2 = c2
    Caller = {c1, c2}
    ClerkOf <- OwnClerks
    Nil = Nil
    Compaction = TRUE
    Operations = {"Put", "Get"}
    MaxElections = 1
    MaxIndex = 3
    MaxOps = 1
    MaxAttempts = 2
    MaxRestarts = 1
INVARIANTS
    AcknowledgedPut
    ReadsAreFresh
    AnswersInv
CHECK_DEADLOCK FALSE
