SPECIFICATION ObservedSpec
CONSTANTS
    veg = veg
    NoOrder = NoOrder
    MockMode = TRUE
    Orders = {o1}
    Payments = {p1}
    Cycles = {c1, c2}
    Categories <- MCCategories
    Category <- MCCategory
    Pinned = {c2}
    CustomerReq = {u1}
    AdminReq = {a1, a2}
SYMMETRY MCRequestSymmetry
\* Every order may end cancelled and every cycle closed: the system stops.
CHECK_DEADLOCK FALSE
INVARIANTS
    ProcuredOrdersAreInClosedCycle
PROPERTIES
    ImplementsCycleLifecycle
