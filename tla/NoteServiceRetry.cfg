SPECIFICATION Spec
CONSTANTS
    Requests = {r1, r2, r3}
    Contents = {a, b, c}
    MaxRevision = 2
    NoNote = NoNote
    NoRequest = NoRequest
    NoDocument = NoDocument
PROPERTIES
    RetryNeverConflicts
CHECK_DEADLOCK FALSE
