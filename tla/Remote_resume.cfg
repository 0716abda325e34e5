\* The connection is lost, the log may fail, the worker may end at any time.
SPECIFICATION FairSpec
CONSTANTS
    viewer = viewer
    Modes = {"visual", "plain", "once"}
    MaxCuts = 2
    Sizes = {1, 2}
    MaxBytes = 5
    BacklogCap = 2
    Prior = 1
    MaxSpawns = 1
    LogMayFail = TRUE
    StampMayFail = FALSE
    Legacy = {}
    Resuming <- MCResuming
INVARIANTS TypeOK ShownOnce CursorIsTrue ExitIsComplete
PROPERTY AttachEnds
