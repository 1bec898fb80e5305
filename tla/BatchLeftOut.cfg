SPECIFICATION Spec
CONSTANTS
    NumSessions = 2
    MaxUploads = 2
    MaxRetries = 1
    MaxFaults = 0
    MaxCrashes = 0
    MaxFailures = 0
INVARIANT MinutesCoverEverySession
CHECK_DEADLOCK FALSE
