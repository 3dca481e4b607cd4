SPECIFICATION Spec
CONSTANTS
    Ids = {n1}
    Processes = {api}
    MaxAttempts = 5
    SweepLimit = 100
    MaxStarts = 3
    MaxFaults = 1
    NoProcess = NoProcess
\* All notifications may be settled and no restart left.
CHECK_DEADLOCK FALSE
PROPERTIES
    FailedIsDelivered
