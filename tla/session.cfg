SPECIFICATION Spec
CONSTANTS
    Boots = {b1}
    Calls = {q1}
    Logins = {l1}
    Logouts = {x1}
    Refreshes = {r1, r2}
    MaxReloads = 1
    None = None
CHECK_DEADLOCK FALSE
INVARIANTS
    TypeOK
    OneRefreshAtATime
    RetriesCarryANewToken
    RefreshIsSilent
    SessionSurvivesReload
PROPERTIES
    EveryCallSettles
