\* Three repositories, of which a task may name two; one test, two attempts.
SPECIFICATION Spec
CONSTANTS
    NumTests = 1
    MaxAttempts = 2
    Timeouts = TRUE
    NumRepos = 3
    Shapes = {"code", "reason"}
INVARIANTS
    TypeOK
    ProposedTogether
    OpenedTogether
    NoneForgotten
    StatusTrue
PROPERTIES
    TaskEnds
CHECK_DEADLOCK FALSE
