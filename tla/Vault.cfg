\* Two files, one runtime open at a time, three events and one fault; two
\* processes at one database file; two databases of a pool, with two temporary
\* files each; and two stores opening a mediator's database of each former shape.
CONSTANTS
    s1 = s1
    s2 = s2
    b1 = b1
    v1 = v1
    Stores = {s1, s2}
    Origin = s1
    Bodies = {b1}
    Envelopes = {v1}
    Attached = {b1}
    None = None
    MaxOpen = 1
    MaxAuthors = 2
    Budget = 3
    MaxFaults = 1
    MaxSnapshots = 1
    Users = {1, 2}
    MaxEvents = 1
    MaxTrace = 2
    MaxResets = 2
    MaxMishaps = 2
    Names = {1, 2}
    TemporaryFiles = 2
    MaxAsked = 2
    SqlStores = {1, 2}
    Nil = Nil
    MaxFailures = 1
    MaxRows = 2
SPECIFICATION MCSpec
INVARIANTS
    HeldPresent
    OwnIsOwn
    DriversSound
PROPERTIES
    NotOverKnownDamage
    IsReplicatedSet
