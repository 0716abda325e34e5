\* The environment behaves: processes die of SIGKILL in time, the files and
\* the socket work, replies reach their clients.  Under fairness.
SPECIFICATION FairSpec
CONSTANTS
    k1 = k1
    k2 = k2
    r1 = r1
    MaxPanes = 2
    Killers <- OneKiller
    Restarters <- MCRestarters
    LeaderKinds = {"polite", "stubborn"}
    MemberKinds = {"stubborn"}
    HasTimeout = FALSE
    HasIdleTimeout = TRUE
    SpawnFaults = {}
    BindMayFail = FALSE
    WriteMayFail = FALSE
    SlowDeath = FALSE
    SlowClient = FALSE
    KillMayTimeOut = TRUE
INVARIANTS EndIsTrue NoStaleSession KillDelivered
PROPERTIES ExitRecorded KillAnswered
