\* The server may stop, after which nothing happens any more.
CHECK_DEADLOCK FALSE
SPECIFICATION ServerSpec
CONSTANTS
    c1 = c1  c2 = c2  c3 = c3
    h1 = h1  h2 = h2  h3 = h3
    p1 = p1
    None = None
    Connections <- ThreeConnections
    Handles <- ThreeHandles
    Publishers <- OnePublisher
    MaxConnections = 2
    MaxAttempts = 4
INVARIANTS
    ServerInv
    
PROPERTIES
    StopTerminates
    DeadPublisherIsFenced
