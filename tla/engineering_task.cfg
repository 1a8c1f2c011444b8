\* Three attempts on two tests, with runs that are cut off.
SPECIFICATION Spec
CONSTANTS
    NumTests = 2
    MaxAttempts = 3
    Timeouts = TRUE
INVARIANTS
    TypeOK
    DoneIsGreen
    CommitsAreFixes
    EveryEditLogged
    ProposedIsGreen
    RegressionsCaught
    VerifiedForAReason
    RisksWait
    AllOrNothing
    ClosedLeavesNoSandbox
PROPERTIES
    TaskEnds
CHECK_DEADLOCK FALSE
