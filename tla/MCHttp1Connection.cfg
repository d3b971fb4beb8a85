SPECIFICATION Spec
CONSTANTS
    Chunk = 4
    Numerals <- MCNumerals
    Routes <- MCRoutes
    Below <- MCBelow
    Verdicts <- MCVerdicts
    Inputs <- MCInputs
INVARIANT AnsweredOnce  AuthorisedOnly
PROPERTY LeavingEndsHandler
CHECK_DEADLOCK FALSE
