SPECIFICATION Spec
CONSTANTS
    Commits = 3
    PostWorks = 3
    Writes = 1
    Orchestrators = {1, 2}
    Caps = {1}
    Edits = 2
    Instructions = {1, 2}
    Deliveries = {1, 2}
    Started = 2
    Tries = 2
    AgentOrder <- TwoAgents
    RouteExports <- ClaudeFirst
    SwitchCooldown = 1
    AgentRounds = 3
    AgentFaults = 1
    AgentChanges = 1
    Permissions = {"workflow"}
    KeepaliveRuns = 4
    Changes = 1
    Faults = 1
INVARIANTS
    
    
    WithinLimits
    
    ChoiceStands
    CallExplained
    
    ActsAsLastSeen
CHECK_DEADLOCK FALSE
