SPECIFICATION FairSpec
CONSTANTS
    c1 = c1
    c2 = c2
    Clients <- TwoClients
    QueueCap = 1
    SendCap = 1
    MaxEvents = 3
CHECK_DEADLOCK FALSE
INVARIANTS
    NoPanic
    ActiveClientsExact
    GapFree
PROPERTIES
    ConnectionsEnd
    QueueDrains
    ImplementsOrderedBroadcast
