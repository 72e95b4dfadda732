SPECIFICATION PeerSpec
CONSTANTS
    A = a
    B = b
    Talkers = {a, b}
    Traffic = {"Data", "Keepalive", "PathChallenge"}
    MaxEpoch = 1
    MaxSequence = 1
    KeyUpdatePacketLimit = 1
    KeyUpdateMaxAttempts = 2
    Retention = 1
    WindowBits = 2
    MaxAdvance = 3
    MaxHellos = 2
    MaxReplies = 2
    MaxAttempts = 1
    MaxCandidateAttempts = 1
    MaxRecentHellos = 1
    MaxQueued = 1
    MaxConfigurations = 1
    MaxRestarts = 1
SYMMETRY Ends
CHECK_DEADLOCK FALSE
INVARIANTS
    FreshNonce
    NeverReopened
    EpochsAdjacent
    FreshPacketsOpen
    KeyConfirmation
    HelloAcceptedOnce
    InstalledOnce
