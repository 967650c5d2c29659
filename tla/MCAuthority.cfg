\* A retired rack accepts nothing any more, so the system may stop.
CHECK_DEADLOCK FALSE
SPECIFICATION AuthoritySpec
CONSTANTS
    b1 = b1  b2 = b2  b3 = b3
    w1 = w1  w2 = w2
    r1 = r1  r2 = r2
    i1 = i1  i2 = i2
    None = None
    Boots <- MCBoots
    Workers <- MCWorkers
    Racks <- MCRacks
    RackEpochs <- MCRackEpochs
    Epochs <- MCEpochs
    MaxGen = 3
    MaxConnections = 2
    Lease = 1
SYMMETRY Symmetry
INVARIANTS
    AuthorityTypeOK
    
PROPERTIES
    FencingIsPermanent
    RetiredRackIsClosed
    BootContract
