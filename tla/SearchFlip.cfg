SPECIFICATION SearchSpec
CONSTANTS
    u1 = u1
    u2 = u2
    c1 = c1
    c2 = c2
    c3 = c3
    p1 = p1
    p2 = p2
    NoUser = NoUser
    Users <- MCUsers
    Calls <- TwoCalls
    Registered <- AllRegistered
    MaxRetries = 1
    Phones <- OnePhone
PROPERTY TapFlips
CHECK_DEADLOCK FALSE
