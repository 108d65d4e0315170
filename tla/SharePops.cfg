SPECIFICATION Spec
CONSTANTS
    s1 = s1
    s2 = s2
    s3 = s3
    Shares <- TwoShares
    MaxRetries = 1
PROPERTY FirstPopDismissesSheet
CHECK_DEADLOCK FALSE
