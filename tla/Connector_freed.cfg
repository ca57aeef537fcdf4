\* A back end stops a connection.
CONSTANTS
    Fds = {3}
    EndFd = 9
    kSingleRoundLoopNum = 2
    MaxNid = 3
    NumBackEnds = 1
    MaxPush = 1
    StartSeqs <- MCFirst
    DebugBuild = FALSE
    Stateful = FALSE
    Eager = FALSE
    MayStop = TRUE
    MayFail = FALSE
    MayIdle = FALSE
    MayPushFail = FALSE
CHECK_DEADLOCK FALSE
SPECIFICATION Spec
INVARIANTS StoppedSessionUnused
