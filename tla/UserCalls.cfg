SPECIFICATION Spec
CONSTANTS
    u1 = u1
    u2 = u2
    c1 = c1
    c2 = c2
    c3 = c3
    c4 = c4
    NoUser = NoUser
    Users <- MCUsers
    Calls <- ThreeCalls
    Registered <- OneRegistered
    MaxRetries = 1
INVARIANT FollowsAreReal
INVARIANT CountWithinWrites
INVARIANT ExactUnlessRaced
INVARIANT FollowedIsCounted
INVARIANT WipeNeedsTwoSets
PROPERTY ImplementsSocialGraph
CHECK_DEADLOCK FALSE
