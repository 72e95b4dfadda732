SPECIFICATION Spec
CONSTANTS
    Node = {a, b}
    Places = {1}
    LeaseId = {1, 2, 3, 4}
    RequestId = {1, 2, 3}
    NoId = 0
    MaxLeases = 2
    MaxCached = 3
    QueuePackets = 2
    LeaseTicks = 1
    IdleTicks = 1
    MaxFrames = 2
    WindowBits = 2
    MaxAdvance = 2
    MaxAttempts = 1
    RenewalMargin = 0
    FailureTicks = 1
    MaxSequence = 1
    Talkers = {a}
    FaultBudget = 1
CHECK_DEADLOCK FALSE
INVARIANTS
    LeaseIndex
    QueuesScheduled
    ForwardedOnce
