\* Every kind of poller, with a worker that may crash and a prune at any time.
SPECIFICATION FairSpec
CONSTANTS
    Cases <- MCCases
    Codes = {3}
    MayCrash = TRUE
    MayPrune = TRUE
INVARIANTS TypeOK SliceExact ExpectIsTrue FollowComplete RowsAreTrue
PROPERTIES WaitIsTrue PollersEnd
