SPECIFICATION TimedSpec
CONSTANTS
    A = a
    B = b
    Talkers = {a}
    Traffic = {}
    MaxEpoch = 1
    MaxSequence = 6
    KeyUpdatePacketLimit = 1
    KeyUpdateMaxAttempts = 2
    Retention = 8
    WindowBits = 4
    MaxAdvance = 7
    LossBudget = 3
INVARIANTS
    ReceiverHoldsSenderEpoch
