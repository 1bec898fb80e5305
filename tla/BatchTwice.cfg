SPECIFICATION Spec
CONSTANTS
    NumSessions = 1
    MaxUploads = 2
    MaxRetries = 2
    MaxFaults = 1
    MaxCrashes = 0
    MaxFailures = 1
INVARIANT SessionTranscribedOnce
CHECK_DEADLOCK FALSE
