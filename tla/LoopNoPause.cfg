SPECIFICATION Spec
CONSTANTS
    MaxTasks = 1
    Surroundings <- Failing
PROPERTIES
    PausesAfterFailures
