\* cocos_connector.cpp: the main thread pops while the worker recycles the buffer.
CONSTANTS
    Slots = 2
    Downs = 3
    Pushes = 0
    EarlyCalls = FALSE
    PopsInCallback = FALSE
SPECIFICATION Spec
INVARIANTS PoppedInOrder
CHECK_DEADLOCK FALSE
