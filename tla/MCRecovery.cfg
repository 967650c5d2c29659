\* A coordinator that has been started MaxStarts times is not started again.
CHECK_DEADLOCK FALSE
SPECIFICATION RecoverySpec
CONSTANTS
    b1 = b1  b2 = b2
    k1 = k1
    t1 = t1  t2 = t2
    None = None
    Corrupt = Corrupt
    Boots <- TwoBoots
    Records <- OneRecord
    Threads <- TwoThreads
    PersistModes <- EitherMode
    DiskFaults = TRUE
    MaxEpoch = 2
    MaxStarts = 3
SYMMETRY Symmetry
INVARIANTS
    RecoveryInv
    
