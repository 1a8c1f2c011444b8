\* A repository whose suite passes, in a sandbox whose HEAD has a parent.
SPECIFICATION Spec
CONSTANTS
    NumTests = 2
    MaxAttempts = 4
    Timeouts = FALSE
INVARIANT
    NoChangeFails
CHECK_DEADLOCK FALSE
