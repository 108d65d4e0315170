SPECIFICATION FairSpec
CONSTANTS
    s1 = s1
    s2 = s2
    s3 = s3
    Shares <- TwoShares
    MaxRetries = 1
INVARIANT ImageIsStored
INVARIANT PostIsListed
INVARIANT SharedHasImage
INVARIANT SheetHasRun
PROPERTY SheetEnds
CHECK_DEADLOCK FALSE
