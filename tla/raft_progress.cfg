SPECIFICATION FairSpec
CONSTANTS
    n1 = n1
    n2 = n2
    n3 = n3
    Node = {n1, n2, n3}
    Elected = n1
    Voter = n2
    Other = n3
    cmd = cmd
    Command = cmd
    Value = {cmd}
    Nil = Nil
    StorageSurvives = TRUE
    Compaction = FALSE
    MaxElections = 0
    MaxIndex = 2
    MaxApplied = 0
    MaxOutstanding = 1
    MaxCalls = 2
    LateReplies = TRUE
    MaxRestarts = 0
INVARIANTS LogMatching
PROPERTIES
    EntriesSpread
    FollowersCatchUp
