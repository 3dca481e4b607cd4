SPECIFICATION Spec
CONSTANTS
    Products = {rice}
    Lines = {l1, l2}
    Orders = {o1, o2}
    Addresses = {a1, a2}
    Home = a1
    Quantities = {50, 100}
    Offers <- MCOffers
    DeliveryFee = 100000
    ServicePermille = 25
    EditReq = {r1, r2}
    CheckoutReq = {r1, r2}
    AddressReq = {r1, r2}
SYMMETRY MCSymmetry
INVARIANTS
    TypeOK
    OrderedLinesLeaveTheCart
    OrdersCostWhatTheCartShows
    OrdersHaveAnAddress
