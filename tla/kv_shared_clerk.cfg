SPECIFICATION Spec
SYMMETRY Symmetry
CONSTANTS
    n1 = n1
    n2 = n2
    Node = {n1, n2}
    Servers <- MCServers
    c1 = c1
    c2 = c2
    Caller = {c1, c2}
    ClerkOf <- SharedClerk
    Nil = Nil
    Compaction = FALSE
    Operations = {"Put", "Get"}
    MaxElections = 1
    MaxIndex = 2
    MaxOps = 1
    MaxAttempts = 1
    MaxRestarts = 0
INVARIANTS
    AcknowledgedPut
CHECK_DEADLOCK FALSE
