\* One descriptor for two connections in a row; eager clients, failing pushes, idle closes, a back end that assigns session ids, refuses and crashes.
CONSTANTS
    Fds = {3}
    EndFd = 9
    kSingleRoundLoopNum = 2
    MaxNid = 4
    NumBackEnds = 1
    MaxPush = 2
    StartSeqs <- MCFirst
    DebugBuild = FALSE
    Stateful = TRUE
    Eager = TRUE
    MayStop = FALSE
    MayFail = TRUE
    MayIdle = TRUE
    MayPushFail = TRUE
CHECK_DEADLOCK FALSE
SPECIFICATION Spec
INVARIANTS AtMostOnce BackEndFindsStarted AnswersInOrder
PROPERTIES ImplementsEcho
