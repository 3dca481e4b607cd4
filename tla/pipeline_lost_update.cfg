SPECIFICATION Spec
CONSTANTS
    veg = veg
    NoOrder = NoOrder
    MockMode = FALSE
    Orders = {o1}
    Payments = {p1}
    Cycles = {c1}
    Categories <- MCCategories
    Category <- MCCategory
    Pinned <- MCPinned
    CustomerReq = {u1}
    AdminReq = {a1}
SYMMETRY MCSymmetry
CHECK_DEADLOCK FALSE
INVARIANTS
    HistoryIsAllowedPath
