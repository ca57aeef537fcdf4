\* A table of two buckets that has to grow (tr1 starts with eleven).
CONSTANTS
    Fds = {3, 4, 5}
    EndFd = 9
    kSingleRoundLoopNum = 8
    MaxNid = 5
    max_idle = 1
    max_pkg_speed = 0
    max_traffic_speed = 0
    Bursts <- MCOneByOne
    MaxHandles = 0
    InitBuckets = 2
SPECIFICATION Spec
PROPERTIES WalkOnValidCursor
