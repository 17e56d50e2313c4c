SPECIFICATION FairStatusSpec
CONSTANTS
    Updaters = {u1, u2}
    App = app
    Reported = {"", "Valid", "Interrupted", "Off"}
    Desired = "Valid"
    OutageLoggingTimeout = 1
    MaxUpdates = 3
INVARIANTS ListenerIsCurrent WaitForIsSound
PROPERTIES WaitForReturns OutageIsReported
CHECK_DEADLOCK FALSE
