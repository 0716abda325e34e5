\* The log and the timestamps may fail at any time; one restart.
SPECIFICATION HubSpec
CONSTANTS
    c1 = c1
    c2 = c2
    Sizes = {1, 2}
    MaxBytes = 5
    BacklogCap = 2
    Prior = 1
    MaxSpawns = 2
    LogMayFail = TRUE
    StampMayFail = TRUE
    Legacy <- MCLegacy
    Resuming <- MCResuming
INVARIANTS HubTypeOK LegacyStream ReplayableRange StampsAreTrue
CHECK_DEADLOCK FALSE
