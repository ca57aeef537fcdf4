\* Two packets up and three down through buffers of five bytes; failures, two connects.
CONSTANTS
    buff_size = 5
    kMsgLenFieldSize = 1
    UpLens <- MCUp
    DownLens <- MCDown
    KernelRoom = 4
    MayFail = TRUE
    MaxConnects = 2
CHECK_DEADLOCK FALSE
SPECIFICATION FairSpec
INVARIANTS SendStreamIntact RecvStreamIntact DescriptorIsConnection
PROPERTIES SentIsTaken
