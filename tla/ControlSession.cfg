SPECIFICATION LiveSpec
CONSTANTS
    Sockets = {1, 2}
    Self = a
    Peers = {p, q}
    Enrolled = {p}
    Endpoints = {e}
    NoEndpoint = none
    MaxVersion = 3
    MaxGeneration = 1
    MaxUnread = 0
    EventCapacity = 1
    FaultBudget = 1
CHECK_DEADLOCK FALSE
INVARIANTS
    NeverRolledBack
    AdvertisementsFresh
    AnnouncementPending
    OnlineWhileServed
PROPERTIES
    AgentConverges
    RevokedLeaves
