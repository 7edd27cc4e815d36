SPECIFICATION Spec
CONSTANTS
    Credentials = {"app", "pat"}
    AppTokens = {"app"}
    ReservedTokens = {"app"}
    CallLimit = 2
    EnoughCalls = 1
    CallRetries = 2
    OthersCalls = 1
    Calls = 2
    Executions = {1, 2}
    Aliases = {"r1", "r2"}
    Pilots = 2
    Disturbances = 1
    Judgements = 1
    Events = 4
    GateRuns = 3
    Tests = 2
    Edits = 1
    Revisions = 2
    Faults = 1
INVARIANTS
    WrittenOnce
    LimitsRespected
    
    
    BodySettles
    EvaluatedOnce
    ClosedAsJudged
    CommentsTrue
PROPERTIES
    VerdictsInOrder
CHECK_DEADLOCK FALSE
