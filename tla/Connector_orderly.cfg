\* One descriptor for two connections in a row, new or resumed clients, two back ends that may stop them.
CONSTANTS
    Fds = {3}
    EndFd = 9
    kSingleRoundLoopNum = 2
    MaxNid = 5
    NumBackEnds = 2
    MaxPush = 1
    StartSeqs <- MCResumed
    DebugBuild = FALSE
    Stateful = FALSE
    Eager = FALSE
    MayStop = TRUE
    MayFail = FALSE
    MayIdle = FALSE
    MayPushFail = FALSE
CHECK_DEADLOCK FALSE
SPECIFICATION FairSpec
INVARIANTS NoCrossTalk ReadyAfterAnswer ClientNotAhead SentIsInSequence
PROPERTIES ClosedForAReason HandshakeEnds PushIsAnswered
