SPECIFICATION PartsSpec
CONSTANTS
    A = a
    B = b
    Talkers = {a, b}
    Traffic = {}
    MaxEpoch = 1
    MaxSequence = 6
    KeyUpdatePacketLimit = 1
    KeyUpdateMaxAttempts = 2
    Retention = 8
    WindowBits = 4
    MaxAdvance = 7
    LossBudget = 2
    MaxHellos = 6
    MaxReplies = 6
    MaxAttempts = 2
    MaxCandidateAttempts = 2
    MaxRecentHellos = 6
    MaxQueued = 1
    MaxConfigurations = 1
    MaxRestarts = 1
    FaultBudget = 2
INVARIANTS
    ReceiverHoldsSenderEpoch
PROPERTIES
    RekeyCompletes
    EventuallyAgreed
    QueueDrains
