SPECIFICATION Spec
CONSTANTS
    MaxTasks = 1
    Surroundings <- Rough
INVARIANTS
    BudgetCrossedOnce
PROPERTIES
    AuthorisedVerified
