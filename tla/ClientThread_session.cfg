\* client_main.cpp: OnIncoming pops, and the calls of the main thread wait for the handshake.
\* Downs > Slots, so that recv_buf_ is recycled.
CONSTANTS
    Slots = 2
    Downs = 5
    Pushes = 2
    EarlyCalls = FALSE
    PopsInCallback = TRUE
SPECIFICATION Spec
INVARIANTS PoppedInOrder HandShakeThenData ListenerProtocol
PROPERTIES TerminateEnds ArrivedIsPopped CloseIsReported
CHECK_DEADLOCK FALSE
