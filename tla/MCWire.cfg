\* A session whose client has closed does nothing more.
CHECK_DEADLOCK FALSE
SPECIFICATION WireSpec
CONSTANTS
    Boots = {"b1", "b2"}
    Conversations <- MCConversations
    Encode <- encode
    Decode <- decode
    Meant <- Said
    Admits <- Fits
    Readable <- DecodableType
    MaxItems = 1
    MaxPayload = 60
    CutSends = TRUE
    CutPoints = {0, 1, 3}
    StrayLengths = {0, 2, 100}
    MaxFaults = 2
INVARIANTS
    WireInv
    HandledAsSent
    ConcludesOwnAnswer
    
PROPERTIES
    ClosedSessionEnds
