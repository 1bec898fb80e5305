SPECIFICATION FairSpec
CONSTANTS
    NumSessions = 1
    MaxUploads = 1
    MaxRetries = 1
    MaxFaults = 1
    MaxCrashes = 1
    MaxFailures = 1
PROPERTY EndedMeetingCompletes
CHECK_DEADLOCK FALSE
