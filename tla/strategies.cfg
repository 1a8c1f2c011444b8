\* Two tests of two modules, of every kind, on code with several things wrong.
SPECIFICATION GuidedSpec
CONSTANTS
    a = a
    b = b
    Modules = {a, b}
    MaxValue = 1000000
    NumTests = 2
    MaxAttempts = 4
    Timeouts = FALSE
    Suites <- MCSuites
    Repositories <- MCRepositories
INVARIANTS
    RegressionTestPasses
PROPERTIES
    StraightforwardIsFixed
CHECK_DEADLOCK FALSE
