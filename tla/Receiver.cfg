\* An attachment and a direct post for one recipient; one may wait and one
\* be held and one be remembered, so that every limit is met.
SPECIFICATION Spec
CONSTANTS
    p1 = p1
    r1 = r1
    r2 = r1
    Pickups = {p1}
    Posts = {x1}
    Recipients = {r1}
    RecipientOf <- MCRecipientOf
    SizeOf <- MCSizeOf
    Tellers = {t1}
    MaxWaiting = 1
    MaxHeldBytes = 1
    EndedKept = 1
    MaxFaults = 1
    None = None
INVARIANTS
    NothingDropped
    NoLostWakeup
    KeptAccounted
