SPECIFICATION Spec
CONSTANTS
    s1 = s1
    s2 = s2
    s3 = s3
    Screens <- ThreeScreens
SYMMETRY ScreenSymmetry
INVARIANT ReadyMeansInitialized
CHECK_DEADLOCK FALSE
