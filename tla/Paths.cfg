SPECIFICATION PathsSpec
CONSTANTS
    Hosts = {"a", "b"}
    Places = {"p", "q", "x"}
    Relays <- TwoRelays
    Directories <- SmallDirectories
    FirstDirectory <- OneEach
    MaxProbeAttempts = 2
    MaxTokens = 4
    PathFaults = 1
INVARIANTS
    ProbeMeaning
PROPERTIES
    BestPathReturns
