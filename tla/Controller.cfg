SPECIFICATION Spec
CONSTANTS
    Nodes = {n1, n2}
    Tokens = {t1}
    Addresses = {1, 2}
    MaxUses = 2
    MaxGeneration = 1
    Requests = {r1, r2}
    TokenRequests <- MCTokenRequests
    RouteRequests <- MCRouteRequests
    PolicyRequests <- MCPolicyRequests
    MaxVersion = 4
SYMMETRY Symmetries
INVARIANTS AddressesLeased EnrollmentsCounted WaitCycles
PROPERTIES CooldownKept ImplementsStore
CHECK_DEADLOCK FALSE
