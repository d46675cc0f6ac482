SPECIFICATION Spec
CONSTANTS
    n1 = n1
    n2 = n2
    Node = {n1, n2}
    Servers <- MCServers
    c1 = c1
    Caller = {c1}
    ClerkOf <- OwnClerks
    Nil = Nil
    Compaction = TRUE
    Operations = {"Put"}
    MaxElections = 2
    MaxIndex = 3
    MaxOps = 2
    MaxAttempts = 3
    MaxRestarts = 1
INVARIANTS
    ExactlyOnce
    
    WaitersWait
    ExecutionInv
    
CHECK_DEADLOCK FALSE
