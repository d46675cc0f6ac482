SPECIFICATION FairSpec
CONSTANTS
    Habit = {"patient", "popup", "impatient"}
    Nil = Nil
    MaxHistory = 2
    MaxConns = 4
    MaxPresses = 2
    MaxMessages = 3
    MaxBreaks = 2
INVARIANTS
    TuiInv
    ChainsGoOn
    OneConnection
    NothingSwallowed
    ShownInOrder
PROPERTIES
    PatientReconnects
CHECK_DEADLOCK FALSE
