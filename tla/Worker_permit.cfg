\* A failed kill, because of a process of another user, racing the exit.
SPECIFICATION FairSpec
CONSTANTS
    k1 = k1
    k2 = k2
    r1 = r1
    MaxPanes = 2
    Killers <- OneKiller
    Restarters = {}
    LeaderKinds = {"polite"}
    MemberKinds = {"foreign"}
    HasTimeout = FALSE
    HasIdleTimeout = FALSE
    SpawnFaults = {}
    BindMayFail = FALSE
    WriteMayFail = FALSE
    SlowDeath = FALSE
    SlowClient = FALSE
    KillMayTimeOut = FALSE
PROPERTY ExitRecorded
CHECK_DEADLOCK FALSE
