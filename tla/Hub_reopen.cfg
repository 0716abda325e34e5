\* A restart opens the log again after a write to it has failed.
SPECIFICATION HubSpec
CONSTANTS
    c1 = c1
    c2 = c2
    Sizes = {1, 2}
    MaxBytes = 5
    BacklogCap = 4
    Prior = 0
    MaxSpawns = 2
    LogMayFail = TRUE
    StampMayFail = FALSE
    Legacy = {}
    Resuming <- MCResuming
INVARIANT OffsetsAreTrue
CHECK_DEADLOCK FALSE
