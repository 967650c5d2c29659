\* An agent that has disconnected or failed to start does nothing more.
CHECK_DEADLOCK FALSE
SPECIFICATION SessionSpec
CONSTANTS
    Records = 2
    MaxGen = 8
    MaxRounds = 1
    TimeOuts = FALSE
INVARIANT RepublishIsAccepted
