----------------------------- MODULE DemoBackend -----------------------------
(***************************************************************************)
(* Demo mode: the frontend's stand-in for the backend, which serves every  *)
(* route from one state object in the browser.  handleDemoRequest is       *)
(* synchronous, so each route is one step of the one tab that uses it; the *)
(* state is saved after each step and a reload reads it back.  The reset    *)
(* button starts again from Init and reloads the page.                     *)
(*                                                                         *)
(* Its rules are written a second time, not shared with the backend: an    *)
(* order is advanced with no table of allowed transitions, a product's     *)
(* availability is checked when it is put in the cart only, and closing a  *)
(* cycle leaves its orders AGGREGATING.                                    *)
(*                                                                         *)
(* Abstractions: a cart is a set of products, so a quantity and its MOQ    *)
(* only decide whether a change is refused; so does the order window of a  *)
(* cycle.  A category the administrator creates is one that has no product *)
(* and no cycle yet.  Routes that only read are left out, and a route that *)
(* fails or throws changes nothing.  A tab's token always names the        *)
(* session's user, who is the one it is refreshed from after a reload.     *)
(***************************************************************************)
EXTENDS Naturals, FiniteSets

CONSTANTS
    Shoppers,       \* the accounts that shop; the administrator may be one
    Admin,          \* the administrator's account
    Products,
    Cycles,
    CategoryOf,     \* the category of each cycle
    Orders,         \* ids of orders (bound)
    Payments,       \* payment references (bound)
    Nobody          \* no signed-in user

ASSUME DemoAssumption ==
    /\ Nobody \notin Shoppers \cup {Admin}
    /\ DOMAIN CategoryOf = Cycles

Users == Shoppers \cup {Admin}
Categories == {CategoryOf[c] : c \in Cycles}

VARIABLES
    account,        \* users: "none" before registration, "active" or
                    \* "inactive"
    hasAddress,     \* addresses: the shoppers who have one
    session,        \* sessionUserId, the user signed in
    cart,           \* carts: the products in each user's cart
    catalogue,      \* products: "none", "hidden" (not available), "shown"
                    \* or "deleted"
    category,       \* products: the category
    cycleStatus,    \* cycles: "none", "draft", "open" or "closed"
    owner,          \* orders: the customer, Nobody before it is placed
    lines,          \* orders: the cycles of the order's items
    status,         \* orders: the status, "none" before it is placed
    payment         \* payments: the order paid for, and the status

vars == <<account, hasAddress, session, cart, catalogue, category,
          cycleStatus, owner, lines, status, payment>>

userVars == <<account, hasAddress, session>>
productVars == <<catalogue, category>>
stockVars == <<catalogue, category, cycleStatus>>
orderVars == <<owner, lines, status>>

NoPayment == [status |-> "none"]

OrderStatuses == {"none", "PENDING_PAYMENT", "CONFIRMED", "AGGREGATING",
                  "CANCELLED", "REFUNDED"}

\* Types of the state object.
TypeOK ==
    /\ account \in [Users -> {"none", "active", "inactive"}]
    /\ hasAddress \subseteq Shoppers
    /\ session \in Users \cup {Nobody}
    /\ cart \in [Shoppers -> SUBSET Products]
    /\ catalogue \in [Products -> {"none", "hidden", "shown", "deleted"}]
    /\ category \in [Products -> Categories]
    /\ cycleStatus \in [Cycles -> {"none", "draft", "open", "closed"}]
    /\ owner \in [Orders -> Shoppers \cup {Nobody}]
    /\ lines \in [Orders -> SUBSET Cycles]
    /\ status \in [Orders -> OrderStatuses]
    /\ payment \in [Payments -> {NoPayment} \cup
                       [order : Orders, status : {"pending", "successful"}]]

\* createDemoState: some products are shown, and one cycle of each category is
\* open.  Its past orders are left out: no route relates them to the others.
Init ==
    /\ account \in [Users -> {"none", "active"}]
    /\ account[Admin] = "active"
    /\ hasAddress \in SUBSET {u \in Shoppers : account[u] = "active"}
    /\ session = Nobody
    /\ cart = [u \in Shoppers |-> {}]
    /\ catalogue \in [Products -> {"none", "shown"}]
    /\ category \in [Products -> Categories]
    /\ cycleStatus \in [Cycles -> {"none", "open"}]
    /\ \A k \in Categories :
          Cardinality({c \in Cycles : CategoryOf[c] = k
                                      /\ cycleStatus[c] = "open"}) = 1
    /\ owner = [o \in Orders |-> Nobody]
    /\ lines = [o \in Orders |-> {}]
    /\ status = [o \in Orders |-> "none"]
    /\ payment = [p \in Payments |-> NoPayment]

-----------------------------------------------------------------------------
(* Accounts and the session.                                               *)

\* authUser, required of every route from AddAddress on: the session's user,
\* while the account is active.
SignedIn(u) == session = u /\ account[u] = "active"

\* With an address or without; nobody is signed in by it.
Register(u, withAddress) ==
    /\ account[u] = "none"
    /\ account' = [account EXCEPT ![u] = "active"]
    /\ hasAddress' = IF withAddress THEN hasAddress \cup {u} ELSE hasAddress
    /\ UNCHANGED <<session, cart, stockVars, orderVars, payment>>

Login(u) ==
    /\ account[u] = "active"
    /\ session' = u
    /\ UNCHANGED <<account, hasAddress, cart, stockVars, orderVars, payment>>

Logout ==
    /\ session' = Nobody
    /\ UNCHANGED <<account, hasAddress, cart, stockVars, orderVars, payment>>

AddAddress(u) ==
    /\ SignedIn(u)
    /\ hasAddress' = hasAddress \cup {u}
    /\ UNCHANGED <<account, session, cart, stockVars, orderVars, payment>>

\* A session is not ended by it; refresh goes on giving tokens that authUser
\* refuses.  The administrator's own account can be deactivated, by which the
\* demo is left without one.
SetActive(u, active) ==
    /\ SignedIn(Admin)
    /\ account[u] # "none"
    /\ account' = [account EXCEPT ![u] = IF active THEN "active" ELSE "inactive"]
    /\ UNCHANGED <<hasAddress, session, cart, stockVars, orderVars, payment>>

-----------------------------------------------------------------------------
(* Cart, checkout and payment.                                             *)

AddToCart(u, p) ==
    /\ SignedIn(u)
    /\ catalogue[p] = "shown"
    /\ cart' = [cart EXCEPT ![u] = @ \cup {p}]
    /\ UNCHANGED <<userVars, stockVars, orderVars, payment>>

RemoveFromCart(u, p) ==
    /\ SignedIn(u)
    /\ cart' = [cart EXCEPT ![u] = @ \ {p}]
    /\ UNCHANGED <<userVars, stockVars, orderVars, payment>>

\* activeCycleFor
ActiveCycles(p) ==
    {c \in Cycles : CategoryOf[c] = category[p] /\ cycleStatus[c] = "open"}

\* A product that was deleted meanwhile makes the route throw.
Checkout(u, o) ==
    /\ SignedIn(u)
    /\ cart[u] # {} /\ u \in hasAddress
    /\ \A p \in cart[u] : catalogue[p] # "deleted" /\ ActiveCycles(p) # {}
    /\ owner[o] = Nobody
    /\ owner' = [owner EXCEPT ![o] = u]
    /\ \E cycle \in [cart[u] -> Cycles] :
          /\ \A p \in cart[u] : cycle[p] \in ActiveCycles(p)
          /\ lines' = [lines EXCEPT ![o] = {cycle[p] : p \in cart[u]}]
    /\ status' = [status EXCEPT ![o] = "PENDING_PAYMENT"]
    /\ cart' = [cart EXCEPT ![u] = {}]
    /\ UNCHANGED <<userVars, stockVars, payment>>

InitializePayment(u, p, o) ==
    /\ SignedIn(u)
    /\ owner[o] = u
    /\ status[o] = "PENDING_PAYMENT"
    /\ payment[p] = NoPayment
    /\ payment' = [payment EXCEPT ![p] = [order |-> o, status |-> "pending"]]
    /\ UNCHANGED <<userVars, cart, stockVars, orderVars>>

\* advance, with no check of the move.  PAID is passed through on the way to
\* CONFIRMED within one request.
Advance(o, to) == status' = [status EXCEPT ![o] = to]

\* Faulty variant: the payment's own status is not written.
VerifyUnrecorded(u, p) ==
    /\ SignedIn(u)
    /\ payment[p] # NoPayment
    /\ payment[p].status # "successful"
    /\ Advance(payment[p].order, "CONFIRMED")
    /\ UNCHANGED <<userVars, cart, stockVars, owner, lines, payment>>

\* Any signed-in user; the payment's status is looked at, the order's is not.
VerifyPayment(u, p) ==
    /\ SignedIn(u)
    /\ payment[p] # NoPayment
    /\ payment[p].status # "successful"
    /\ payment' = [payment EXCEPT ![p].status = "successful"]
    /\ Advance(payment[p].order, "CONFIRMED")
    /\ UNCHANGED <<userVars, cart, stockVars, owner, lines>>

-----------------------------------------------------------------------------
(* Administration.                                                         *)

\* A new product, or an update that may move it to another category.
SaveProduct(p, state, k) ==
    /\ SignedIn(Admin)
    /\ catalogue[p] # "deleted"
    /\ catalogue' = [catalogue EXCEPT ![p] = state]
    /\ category' = [category EXCEPT ![p] = k]
    /\ UNCHANGED <<userVars, cart, cycleStatus, orderVars, payment>>

\* The carts keep the lines of the product.
DeleteProduct(p) ==
    /\ SignedIn(Admin)
    /\ catalogue[p] # "none"
    /\ catalogue' = [catalogue EXCEPT ![p] = "deleted"]
    /\ UNCHANGED <<userVars, cart, category, cycleStatus, orderVars, payment>>

CreateCycle(c) ==
    /\ SignedIn(Admin)
    /\ cycleStatus[c] = "none"
    /\ cycleStatus' = [cycleStatus EXCEPT ![c] = "draft"]
    /\ UNCHANGED <<userVars, cart, productVars, orderVars, payment>>

OpenCycle(c) ==
    /\ SignedIn(Admin)
    /\ cycleStatus[c] = "draft"
    /\ \A d \in Cycles \ {c} :
          ~(cycleStatus[d] = "open" /\ CategoryOf[d] = CategoryOf[c])
    /\ cycleStatus' = [cycleStatus EXCEPT ![c] = "open"]
    /\ UNCHANGED <<userVars, cart, productVars, orderVars, payment>>

\* Faulty variant: orders with some item in the cycle are advanced.
CloseCycleForAnyLine(c) ==
    LET moving == {o \in Orders : status[o] = "CONFIRMED" /\ c \in lines[o]}
    IN  /\ SignedIn(Admin)
        /\ cycleStatus[c] = "open"
        /\ cycleStatus' = [cycleStatus EXCEPT ![c] = "closed"]
        /\ status' = [o \in Orders |->
                        IF o \in moving THEN "AGGREGATING" ELSE status[o]]
        /\ UNCHANGED <<userVars, cart, productVars, owner, lines, payment>>

CloseCycle(c) ==
    LET moving == {o \in Orders : status[o] = "CONFIRMED" /\ lines[o] = {c}}
    IN  /\ SignedIn(Admin)
        /\ cycleStatus[c] = "open"
        /\ cycleStatus' = [cycleStatus EXCEPT ![c] = "closed"]
        /\ status' = [o \in Orders |->
                        IF o \in moving THEN "AGGREGATING" ELSE status[o]]
        /\ UNCHANGED <<userVars, cart, productVars, owner, lines, payment>>

\* Faulty variant: the status is set to a name that no order has.
CancelUnknown(o, refund) ==
    /\ SignedIn(Admin)
    /\ status[o] # "none"
    /\ Advance(o, IF refund THEN "REFUND" ELSE "CANCELLED")
    /\ UNCHANGED <<userVars, cart, stockVars, owner, lines, payment>>

\* Of an order in whatever status.
Cancel(o, refund) ==
    /\ SignedIn(Admin)
    /\ status[o] # "none"
    /\ Advance(o, IF refund THEN "REFUNDED" ELSE "CANCELLED")
    /\ UNCHANGED <<userVars, cart, stockVars, owner, lines, payment>>

-----------------------------------------------------------------------------

Shop == \E u \in Shoppers :
    \/ \E withAddress \in BOOLEAN : Register(u, withAddress)
    \/ AddAddress(u)
    \/ \E p \in Products : AddToCart(u, p) \/ RemoveFromCart(u, p)
    \/ \E o \in Orders : Checkout(u, o)
    \/ \E p \in Payments, o \in Orders : InitializePayment(u, p, o)

Administer ==
    \/ \E p \in Products : DeleteProduct(p)
    \/ \E p \in Products, s \in {"hidden", "shown"}, k \in Categories :
          SaveProduct(p, s, k)
    \/ \E c \in Cycles : CreateCycle(c) \/ OpenCycle(c) \/ CloseCycle(c)
    \/ \E u \in Users, active \in BOOLEAN : SetActive(u, active)
    \/ \E o \in Orders, refund \in BOOLEAN : Cancel(o, refund)

Next ==
    \/ \E u \in Users : Login(u) \/ \E p \in Payments : VerifyPayment(u, p)
    \/ Logout
    \/ Shop
    \/ Administer

Spec == Init /\ [][Next]_vars

-----------------------------------------------------------------------------
(* Properties, of the orders placed in the demo.                           *)

Paying(o) ==
    {p \in Payments : payment[p] # NoPayment /\ payment[p].order = o
                      /\ payment[p].status = "successful"}

\* An order placed in the demo is confirmed and aggregated only with a
\* successful payment of its own, whatever was cancelled or closed before:
\* advance itself checks nothing.
AdvancedOrdersArePaid ==
    \A o \in Orders :
        status[o] \in {"CONFIRMED", "AGGREGATING"} => Paying(o) # {}

\* An order placed in the demo is aggregated only if all of it belongs to one
\* cycle and that cycle is closed.
AggregatedOrdersAreInClosedCycle ==
    \A o \in Orders :
        status[o] = "AGGREGATING" =>
            \E c \in Cycles : lines[o] = {c} /\ cycleStatus[c] = "closed"
=============================================================================
