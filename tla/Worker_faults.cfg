\* Everything that can fail fails: all kinds of processes, spawn and write
\* errors, an unusable control socket, expired waits.
SPECIFICATION Spec
CONSTANTS
    k1 = k1
    k2 = k2
    r1 = r1
    MaxPanes = 2
    Killers <- MCKillers
    Restarters <- MCRestarters
    LeaderKinds = {"polite", "foreign"}
    MemberKinds = {"stubborn", "foreign"}
    HasTimeout = TRUE
    HasIdleTimeout = FALSE
    SpawnFaults = {"early", "late"}
    BindMayFail = TRUE
    WriteMayFail = TRUE
    SlowDeath = TRUE
    SlowClient = TRUE
    KillMayTimeOut = FALSE
SYMMETRY KillersAlike
INVARIANTS TypeOK OneCommand KillConfirmed LoopAgrees ExitTold
PROPERTIES TerminalIsFinal LifecycleSpec
CHECK_DEADLOCK FALSE
