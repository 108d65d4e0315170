SPECIFICATION Spec
CONSTANTS
    u1 = u1
    u2 = u2
    h1 = h1
    h2 = h2
    Null = Null
    Users <- MCUsers
    Handlers <- TwoHandlers
SYMMETRY UserHandlerSymmetry
INVARIANT SigninHasUser
INVARIANT ProgressEnds
INVARIANT AgreesWhenQuiet
INVARIANT ScreenShowsStatus
INVARIANT HomeIsOfTheSession
PROPERTY ImplementsPhoneSession
