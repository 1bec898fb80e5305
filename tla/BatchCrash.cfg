SPECIFICATION Spec
CONSTANTS
    NumSessions = 1
    MaxUploads = 1
    MaxRetries = 1
    MaxFaults = 1
    MaxCrashes = 1
    MaxFailures = 2
INVARIANT AudioOrTranscript
INVARIANT OneAwsJobPerAudio
INVARIANT MinutesCoverEverySession
CHECK_DEADLOCK FALSE
