\* A retired rack accepts nothing any more, so the system may stop.
CHECK_DEADLOCK FALSE
SPECIFICATION MembersSpec
CONSTANTS
    b1 = b1  b2 = b2
    w1 = w1  r1 = r1
    i1 = i1  i2 = i2
    m1 = m1  m2 = m2
    None = None
    Boots <- MCBoots
    Workers <- MCWorkers
    Racks <- MCRacks
    RackEpochs <- MCRackEpochs
    Epochs <- MCEpochs
    Members <- TwoMembers
    MaxMembers = 1
    MaxGen = 3
    MaxConnections = 2
    Lease = 0
SYMMETRY Symmetry
INVARIANTS
    MembersInv
PROPERTIES
    
    
    GenerationIdentifiesRecord
    MembersUnderAuthority
