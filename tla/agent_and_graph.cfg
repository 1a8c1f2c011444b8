\* A task or a trace of the graph, while the simulator runs twice.
SPECIFICATION Spec
CONSTANTS
    Seeds <- MCSeeds
    MaxSeedings = 2
    Focuses <- MCFocuses
    Objectives <- MCObjectives
    TopK = 2
INVARIANTS
    TypeOK
    TracesDoNotCycle
    NoReferenceLost
    IncidentLeadsToRegression
    EventsReachTheirRepository
    VerifiedAnswersCiteTheirSources
CHECK_DEADLOCK FALSE
