\* A local and a remote run, a prune, a flag and a listing in any order.
\* The users may stop at any time.
SPECIFICATION MCSpec
CONSTANTS
    r1 = r1
    r2 = r2
    a = a
    long = long
    p1 = p1
    p2 = p2
    f1 = f1
    Runs <- MCRuns
    Remote <- MCRemote
    Pruners <- MCPruners
    Flaggers = {f1}
    Ids <- MCIds
    ShortIds <- MCShort
    NoId = NoId
    Wanted <- MCWanted
    None = None
INVARIANTS StoreTypeOK PruneComplete SocketKept ToldIsTrue RowIsTrue
PROPERTY LiveSpared
CHECK_DEADLOCK FALSE
