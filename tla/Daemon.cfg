\* Two callers, each of whom may be in the middle of a call while the other
\* asks for the next, one fault, and one caller waiting for the turn.
SPECIFICATION LinksSpec
CONSTANTS
    Callers = {c1, c2}
    MaxAsks = 2
    MaxCalls = 2
    MaxFaults = 1
    MaxQueue = 1
    None = None
INVARIANTS
    NothingUnderUse
    ShownAndServed
PROPERTIES
    CloseEnds
CHECK_DEADLOCK FALSE
