SPECIFICATION Spec
CONSTANTS
    MaxQueued = 2
    MaxRevision = 2
    MaxChanges = 1
    MaxPhases = 2
    MaxCalls = 1
    MaxSaid = 1
    MaxFaults = 1
    None = None
INVARIANTS
    NoProtocolError
    AnswersCovered
PROPERTIES
    ViewCatchesUp
CHECK_DEADLOCK FALSE
