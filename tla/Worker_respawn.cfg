\* A restart whose command cannot be spawned again.
SPECIFICATION Spec
CONSTANTS
    k1 = k1
    k2 = k2
    r1 = r1
    MaxPanes = 2
    Killers <- OneKiller
    Restarters <- MCRestarters
    LeaderKinds = {"polite"}
    MemberKinds = {"none"}
    HasTimeout = FALSE
    HasIdleTimeout = FALSE
    SpawnFaults = {"early"}
    BindMayFail = FALSE
    WriteMayFail = FALSE
    SlowDeath = FALSE
    SlowClient = FALSE
    KillMayTimeOut = FALSE
INVARIANT NoStaleSession
