\* A daemon and a restart command.
CONSTANTS
    Procs = {1, 2}
    Modes = {"APP_START", "APP_RESTART"}
    MayInitFail = FALSE
CHECK_DEADLOCK FALSE
SPECIFICATION FairSpec
PROPERTIES RestartLeavesDaemon
