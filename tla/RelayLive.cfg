SPECIFICATION LiveSpec
CONSTANTS
    Node = {a}
    Places = {1, 2}
    LeaseId = {1, 2, 3, 4, 5, 6}
    RequestId = {1, 2, 3, 4, 5, 6}
    NoId = 0
    MaxLeases = 1
    MaxCached = 4
    QueuePackets = 1
    LeaseTicks = 4
    IdleTicks = 4
    MaxFrames = 0
    WindowBits = 2
    MaxAdvance = 8
    MaxAttempts = 2
    RenewalMargin = 1
    FailureTicks = 2
    MaxSequence = 6
    Talkers = {}
    FaultBudget = 2
INVARIANTS
    SequenceAhead
PROPERTIES
    GrantedOnce
    Reconnects
