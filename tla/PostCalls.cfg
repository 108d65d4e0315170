SPECIFICATION Spec
CONSTANTS
    u1 = u1
    u2 = u2
    p1 = p1
    p2 = p2
    p3 = p3
    c1 = c1
    c2 = c2
    c3 = c3
    Phones <- MCPhones
    Users <- MCUsers
    UserOf <- MCUserOf
    Calls <- ThreeCalls
    MaxRetries = 1
    MaxCommits = 5
SYMMETRY CallSymmetry
INVARIANT TapsFlipTheLike
INVARIANT LikesAreOnesOwn
INVARIANT OneCommentPerCall
INVARIANT CountIsNeverAhead
INVARIANT LastCommentIsThere
CHECK_DEADLOCK FALSE
