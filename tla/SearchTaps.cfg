SPECIFICATION SearchSpec
CONSTANTS
    u1 = u1
    u2 = u2
    c1 = c1
    c2 = c2
    c3 = c3
    p1 = p1
    p2 = p2
    NoUser = NoUser
    Users <- MCUsers
    Calls <- ThreeCalls
    Registered <- OneRegistered
    MaxRetries = 1
    Phones <- OnePhone
SYMMETRY CallSymmetry
VIEW WithoutHistory
INVARIANT SelfFollowNeedsSwitch
INVARIANT CountNotNegative
INVARIANT ModelFollowsTaps
CHECK_DEADLOCK FALSE
