SPECIFICATION Spec
CONSTANTS
    c1 = c1
    c2 = c2
    c3 = c3
    Shoppers = {buyer}
    Admin = admin
    Nobody = Nobody
    Products = {rice, oil}
    Cycles = {c1, c2, c3}
    CategoryOf <- MCCategoryOf
    Orders = {o1}
    Payments = {p1, p2}
SYMMETRY MCSymmetry
INVARIANTS
    TypeOK
    AdvancedOrdersArePaid
    AggregatedOrdersAreInClosedCycle
