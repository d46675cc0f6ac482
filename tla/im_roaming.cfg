SPECIFICATION GatewaySpec
CONSTANTS
    n1 = n1
    n2 = n2
    Node = {n1, n2}
    u1 = u1
    User = {u1}
    Habit = {"roaming"}
    Reader = {}
    Nil = Nil
    MaxConns = 2
    MaxCrashes = 0
INVARIANTS
    RouteFollowsUser
CHECK_DEADLOCK FALSE
