SPECIFICATION SnapshotsSpec
CONSTANTS
    e1 = e1  e2 = e2
    None = None
    RackEpochs <- TwoEpochs
    MaxRetained = 1
    MaxSnapshotGen = 2
    MaxGen = 2
    MaxChanges = 3
    MaxIssued = 2
    MaxRuns = 3
SYMMETRY Symmetry
CHECK_DEADLOCK FALSE
INVARIANTS
    SnapshotsInv
    RecoveredSnapshotsAreStale
    CurrentShowsTheRack
