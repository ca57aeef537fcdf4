\* Two descriptors for three connections, two answers under way, one entry per tick, all limits on.
CONSTANTS
    Fds = {3, 4}
    EndFd = 9
    kSingleRoundLoopNum = 1
    MaxNid = 4
    max_idle = 1
    max_pkg_speed = 1
    max_traffic_speed = 2
    Bursts <- MCBursts
    MaxHandles = 2
    InitBuckets = 11
SPECIFICATION FairSpec
INVARIANTS TypeOK AsyncLookupExact CursorInPool WalkLagBounded
PROPERTIES OverSpeedIsClosed IdleIsClosed
