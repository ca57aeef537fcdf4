\* Three processes of the same application, in every mode.
CONSTANTS
    Procs = {1, 2, 3}
    Modes = {"APP_START", "APP_STOP", "APP_RESTART", "APP_RELOAD"}
    MayInitFail = TRUE
CHECK_DEADLOCK FALSE
SPECIFICATION FairSpec
INVARIANTS OneDaemon PidFileNamesDaemon KillHitsDaemon
PROPERTIES StopEnds ReloadIsHandled
