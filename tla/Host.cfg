SPECIFICATION HostSpec
CONSTANTS
    Tun = "xs0"
    Lan = {"eth0", "eth1"}
    GatewayRoutes <- SmallGateway
    Prefixes = {"p", "q"}
    SystemRoutes = {"q"}
    NetworkFaults = 3
    Luids = {1, 2}
    WindowsPrefixes = {1, 2}
    RoutePlans <- SmallPlans
    ForeignRoutes <- SmallForeign
    MaxDadPolls = 2
    WindowsFaults = 3
    Files = {1, 2}
    Limits <- SmallLimits
    MaxPacketSize = 2
    LastSequence = 6
    PowerCycles = 1
    Releases = {2, 3}
    FirstVersion = 1
    MaxGeneration = 2
    OperatorActs = 1
    UpdateFaults = 1
    Words = 3
    WordBits = 3
    MaxAdvance = 10
    MaxSequence = 13
CHECK_DEADLOCK FALSE
INVARIANTS
    HostRecoverable
    MasqueradeBeforeForwarding
    ResourcesRecorded
    RunningProvisioned
    PacketsOfOwner
    ClientInStep
    PublishedComplete
    LinksInstalled
PROPERTIES
    ImplementsReceiver
    NeverDowngraded
