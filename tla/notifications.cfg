SPECIFICATION Spec
CONSTANTS
    Ids = {n1, n2}
    Processes = {old, new}
    MaxAttempts = 3
    SweepLimit = 1
    MaxStarts = 3
    MaxFaults = 1
    NoProcess = NoProcess
\* All notifications may be settled and no restart left.
CHECK_DEADLOCK FALSE
INVARIANTS
    TypeOK
    OnlyCommittedIsMailed
    EveryMailIsAccountedFor
    MailedOncePerStart
PROPERTIES
    SentIsFinal
    StartedDeliverySettles
