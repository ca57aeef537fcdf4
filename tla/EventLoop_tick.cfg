\* Two timers with two periods, and commands between the ticks.
CONSTANTS
    Timers = {t1, t2}
    Steps = {1, 2}
    max_timer_num = 2
    MaxTime = 3
    Letters <- MCLetters
    Delimiters <- MCDelimiters
    Supported <- MCSupported
    Datagrams <- MCDatagrams
    MaxDatagrams = 3
    MAX_CTRL_MSG_LEN = 6
    BEHIND = 1
    MAX_ARGUMENTS_NUM = 2
CHECK_DEADLOCK FALSE
SPECIFICATION Spec
INVARIANTS ListSorted CommandReachesListener
PROPERTIES StopEndsWithoutTimers
