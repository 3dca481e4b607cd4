SPECIFICATION ObservedSpec
CONSTANTS
    veg = veg
    NoOrder = NoOrder
    MockMode = FALSE
    Orders = {o1}
    Payments = {p1, p2}
    Cycles = {c1}
    Categories <- MCCategories
    Category <- MCCategory
    Pinned <- MCPinned
    CustomerReq = {u1, u2}
    AdminReq = {a1, a2}
SYMMETRY MCRequestSymmetry
\* Every order may end cancelled and every cycle closed: the system stops.
CHECK_DEADLOCK FALSE
INVARIANTS
    TypeOK
    AdvancedOrdersArePaid
    SuccessfulPaymentsAreCharged
    EachPaymentAppliesOnce
    SnapshotCountsPaidOrders
    UnracedHistoryIsAllowedPath
    ProcuredOrdersAreCounted
PROPERTIES
    TerminalPaymentsAreFinal
    ImplementsLifecycle
