SPECIFICATION MeetingsSpec
CONSTANTS
    Tasks = {t1, t2}
    Instances = {i1}
    Prompts = {p, q}
    DefaultPrompt = p
    NoMeetingRow = NoMeetingRow
    NoMinutes = NoMinutes
    NoPrompt = NoPrompt
    MaxEvents = 2
    LastMeeting = 3
    Listed = {1, 2}
    Matching = {2}
    PageSize = 1
    MaxChanges = 3
    Renders = {1, 2, 3}
    Configured = 0
    Parallelism = 4
    MemorySlots = 3
    MaxBrowsers = 6
INVARIANTS
    RegenerationHoldsLock
    PromptOfMinutes
PROPERTIES
    RegenerationSettles
    ListFollowsServer
    EveryRenderEnds
CHECK_DEADLOCK FALSE
