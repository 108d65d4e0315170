SPECIFICATION FairSpec
CONSTANTS
    u1 = u1
    u2 = u2
    Users <- MCUsers
    MaxPendingWrites = 2
    MaxWrites = 3
    MaxFaults = 2
INVARIANT PipelineIsOfTheUser
INVARIANT AnswersMatch
INVARIANT StreamAssertions
INVARIANT NoWriteIsLost
INVARIANT LaterWritesWin
INVARIANT NoneIsSkipped
INVARIANT WritesKeepMoving
PROPERTY ImplementsWriteQueue
PROPERTY WritesSettle
CHECK_DEADLOCK FALSE
