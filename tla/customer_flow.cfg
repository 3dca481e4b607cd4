SPECIFICATION Spec
CONSTANTS
    None = None
    Visits = {v1, v2}
    Orders = {o1, o2}
    Payments = {p1, p2}
\* The customer may stop, and visits and ids run out.
CHECK_DEADLOCK FALSE
INVARIANTS
    TypeOK
    ChargesHaveTheirPayment
    NoOrderIsChargedTwice
PROPERTIES
    ChargesReachTheirOrder
    PageSettles
