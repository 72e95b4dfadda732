SPECIFICATION Spec
CONSTANTS
    A = a
    B = b
    MaxHellos = 3
    MaxReplies = 2
    MaxAttempts = 1
    MaxCandidateAttempts = 2
    MaxRecentHellos = 2
    MaxQueued = 1
    MaxConfigurations = 0
    MaxRestarts = 0
CHECK_DEADLOCK FALSE
INVARIANTS
    NeverExits
