\* An agent that has disconnected or failed to start does nothing more.
CHECK_DEADLOCK FALSE
SPECIFICATION SessionSpec
CONSTANTS
    Records = 2
    MaxGen = 5
    MaxRounds = 2
    TimeOuts = TRUE
INVARIANTS
    SessionInv
    UndisturbedIsNeverBehind

    
