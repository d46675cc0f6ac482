SPECIFICATION FairSpec
CONSTANTS
    n1 = n1
    n2 = n2
    Node = {n1, n2}
    u1 = u1
    User = {u1}
    Habit = {"careful", "roaming", "twice", "api"}
    Reader = {1}
    Nil = Nil
    MaxConns = 2
    MaxCrashes = 1
    MaxMessages = 1
INVARIANTS
    OpenIsRegistered
    
    
    CalmIsDelivered
    MessengerInv
    DeliveredOnce
PROPERTIES
    ImplementsGateway
    HandlersGoOn
    MessagesEnd
    
CHECK_DEADLOCK FALSE
