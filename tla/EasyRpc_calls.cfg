\* Three calls over two connections, two of them at a time; services answer at once or later.
CONSTANTS
    Rpcs = {r1, r2}
    k1 = k1
    k2 = k2
    k3 = k3
    Calls = {k1, k2, k3}
    Requested <- Mixes
    NoMsg = NoMsg
    CallbackCalls = FALSE
    Deferred = TRUE
    coroutine_max = 2
    MaxCid = 2
SPECIFICATION Spec
INVARIANTS OwnAnswerOnce ListedAreSuspended SlotsAreWaitingCalls
PROPERTIES LoopRegainsControl AnswerArrives
CHECK_DEADLOCK FALSE
