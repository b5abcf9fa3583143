\* Three live actions of two attempts, two faults; two calls on a runtime over
\* an object three events are about; four arrivals at any stage of a message.
SPECIFICATION MCSpec
CONSTANTS
    Here = here
    Others = {r1}
    None = None
    MaxActions = 3
    Attempts = 2
    MaxQueue = 1
    MaxFaults = 2
    Calls = {"c1", "c2"}
    Objects = {"o"}
    Written = {"h", "f", "e"}
    Foreign = {"f"}
    MaxIssued = 2
    MaxRuined = 1
    MaxEvents = 4
INVARIANTS
    CallsAuthorised
    KeptIsRecorded
    CarriesOne
    RuntimeSound
PROPERTIES
    NoCallAfterOwnEnd
    VerdictsStand
