\* A verification whose full run is cut off, and the merge that follows.
SPECIFICATION Spec
CONSTANTS
    NumTests = 2
    MaxAttempts = 4
    Timeouts = TRUE
INVARIANT
    PartialIsReviewed
CHECK_DEADLOCK FALSE
