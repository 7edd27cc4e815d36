SPECIFICATION LiveSpec
CONSTANTS
    MaxTasks = 1
    Surroundings <- Smooth
PROPERTIES
    StaleAuthorityWithdrawn
    CompletionAuthorised
    VerificationEndsOnceWorked
