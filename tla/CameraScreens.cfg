SPECIFICATION FairSpec
CONSTANTS
    s1 = s1
    s2 = s2
    s3 = s3
    Screens <- ThreeScreens
INVARIANT ReadyWhileShown
INVARIANT FreezeNeedsALeaver
PROPERTY CameraBecomesReady
CHECK_DEADLOCK FALSE
