---------------------------- MODULE CartCheckout -----------------------------
(***************************************************************************)
(* The cart of a customer, the addresses it can be delivered to, and the   *)
(* checkout that turns its lines into an order, while an administrator     *)
(* changes the products.                                                   *)
(*                                                                         *)
(* As in OrderPipeline, the state is what is committed, handlers are cut   *)
(* at their awaits, and flush + commit is one step.  Three things the ORM  *)
(* does matter here.  A session loads a row once: a product read with the  *)
(* cart is not read again, although the code selects it again.  An UPDATE  *)
(* is issued for the attributes that changed only, and it fails when its   *)
(* row is gone (StaleDataError); a DELETE of a row that is gone does not.  *)
(*                                                                         *)
(* Abstractions: one customer, as carts and addresses are per user; money  *)
(* and quantities are whole hundredths; that a line resolves to an open    *)
(* cycle is left to Rollback, since it only decides whether a checkout is  *)
(* refused.  A product in a cart or an order is never deleted (foreign     *)
(* keys).                                                                  *)
(***************************************************************************)
EXTENDS Integers, FiniteSets, FiniteSetsExt

CONSTANTS
    Products,
    Lines,          \* ids of cart items (bound)
    Orders,         \* ids of orders (bound)
    Addresses,      \* ids of addresses (bound)
    Home,           \* the address given at registration
    Quantities,     \* the quantities customers ask for (bound)
    Offers,         \* the [price, minimum, available] products take (bound)
    DeliveryFee,    \* settings.delivery_fee
    ServicePermille,\* ten times settings.service_fee_percent
    EditReq,        \* concurrent requests that may edit the cart
    CheckoutReq,    \* concurrent requests that may check out
    AddressReq      \* concurrent requests that may edit the addresses

ASSUME DataAssumption ==
    /\ Home \in Addresses
    /\ Quantities \subseteq Nat \ {0}
    /\ Offers \subseteq [price : Nat, minimum : Nat \ {0}, available : BOOLEAN]
    /\ DeliveryFee \in Nat
    /\ ServicePermille \in Nat

VARIABLES
    offer,          \* products.price, minimum_order_quantity, is_available
    hasCart,        \* the customer's row in carts exists
    cart,           \* cart_items: NoLine, or the line's product and quantity
    usedLines,      \* the ids of cart_items that were ever inserted
    addresses,      \* "none", "plain", "default", or "deleted"
    orders,         \* NoOrder, or the order's address, lines and total
    req             \* the local state of each request's handler

vars == <<offer, hasCart, cart, usedLines, addresses, orders, req>>

cartVars == <<hasCart, cart, usedLines>>

Req == EditReq \cup CheckoutReq \cup AddressReq

NoLine == [product |-> "none"]
NoOrder == [total |-> "none"]

\* The product of a line that was loaded without it.
NotLoaded == [price |-> "not loaded"]

-----------------------------------------------------------------------------
(* Money.                                                                  *)

\* Decimal.quantize rounds a half to the even neighbour.
HalfEven(n, d) ==
    LET k == n \div d
        r == n % d
    IN  IF 2 * r < d \/ (2 * r = d /\ k % 2 = 0) THEN k ELSE k + 1

LineTotal(l) == HalfEven(l.quantity * l.price, 100)

ServiceFee(subtotal) == HalfEven(subtotal * ServicePermille, 1000)

\* compute_totals, which the cart shows.
CartTotal(lines) ==
    LET subtotal == MapThenSumSet(LineTotal, lines)
        delivery == IF lines = {} THEN 0 ELSE DeliveryFee
    IN  subtotal + delivery + ServiceFee(subtotal)

\* Faulty variant: the lines are summed first and rounded once.
OrderTotalRoundedOnce(lines) ==
    LET subtotal == HalfEven(MapThenSumSet(LAMBDA l : l.quantity * l.price,
                                           lines), 100)
    IN  subtotal + DeliveryFee + ServiceFee(subtotal)

\* The loop and the fees of checkout, which are computed anew.
OrderTotal(lines) ==
    LET subtotal == MapThenSumSet(LineTotal, lines)
    IN  subtotal + DeliveryFee + ServiceFee(subtotal)

-----------------------------------------------------------------------------
(* Types.                                                                  *)

\* A cart line as a handler has loaded it, with its product.
LoadedLines == [line : Lines, product : Products, quantity : Quantities,
                offer : Offers \cup {NotLoaded}]

OrderLines == [line : Lines, product : Products, quantity : Quantities,
               price : Nat]

Idle == [pc |-> "idle"]

RequestStates ==
         [pc : {"idle", "edit create", "checkout create", "edit refresh",
                "checkout refresh"}]
    \cup [pc : {"edit", "checkout"}, seen : SUBSET LoadedLines]
    \cup [pc : {"add"}, seen : SUBSET LoadedLines, product : Products,
          offer : Offers]
    \cup [pc : {"ordering"}, seen : SUBSET LoadedLines, address : Addresses]
    \cup [pc : {"clearing to create", "create address"},
          cleared : SUBSET Addresses]
    \cup [pc : {"address"}, address : Addresses, old : {"plain", "default"}]
    \cup [pc : {"clearing to update", "make default"}, address : Addresses,
          old : {"plain", "default"}, cleared : SUBSET Addresses]

AddressExists(a) == addresses[a] \in {"plain", "default"}

\* Types of the tables and of the handlers' locals; a line that was never
\* inserted is not in the cart.
TypeOK ==
    /\ offer \in [Products -> Offers]
    /\ hasCart \in BOOLEAN
    /\ cart \in [Lines -> {NoLine} \cup
                            [product : Products, quantity : Quantities]]
    /\ usedLines \subseteq Lines
    /\ \A l \in Lines : cart[l] # NoLine => l \in usedLines
    /\ addresses \in [Addresses -> {"none", "plain", "default", "deleted"}]
    /\ orders \in [Orders -> {NoOrder} \cup
                     [address : Addresses, lines : SUBSET OrderLines, total : Nat]]
    /\ req \in [Req -> RequestStates]

Init ==
    /\ offer \in [Products -> {o \in Offers : o.available}]
    /\ hasCart = FALSE
    /\ cart = [l \in Lines |-> NoLine]
    /\ usedLines = {}
    /\ addresses = [a \in Addresses |-> IF a = Home THEN "default" ELSE "none"]
    /\ orders = [o \in Orders |-> NoOrder]
    /\ req = [r \in Req |-> Idle]

At(r, pc) == req[r].pc = pc

Goto(r, state) == req' = [req EXCEPT ![r] = state]

\* The cart's rows without their products, as refresh loads them.
CartLines ==
    {[line |-> l, product |-> cart[l].product, quantity |-> cart[l].quantity,
      offer |-> NotLoaded] : l \in {k \in Lines : cart[k] # NoLine}}

\* The cart's rows with their products, as get_or_create_cart loads them.
CartNow == {[l EXCEPT !.offer = offer[l.product]] : l \in CartLines}

-----------------------------------------------------------------------------
(* get_or_create_cart                                                      *)

LoadCart(r, pc) ==
    /\ At(r, "idle")
    /\ hasCart
    /\ Goto(r, [pc |-> pc, seen |-> CartNow])
    /\ UNCHANGED <<offer, cartVars, addresses, orders>>

FindNoCart(r, pc) ==
    /\ At(r, "idle")
    /\ ~hasCart
    /\ Goto(r, [pc |-> pc])
    /\ UNCHANGED <<offer, cartVars, addresses, orders>>

\* The insert fails (Rollback) when another request has created the cart.
CreateCart(r) ==
    /\ req[r].pc \in {"edit create", "checkout create"}
    /\ ~hasCart
    /\ hasCart' = TRUE
    /\ Goto(r, [pc |-> IF At(r, "edit create") THEN "edit refresh"
                                              ELSE "checkout refresh"])
    /\ UNCHANGED <<offer, cart, usedLines, addresses, orders>>

\* Another request may have added a line since the commit.
RefreshCart(r) ==
    /\ req[r].pc \in {"edit refresh", "checkout refresh"}
    /\ Goto(r, [pc |-> IF At(r, "edit refresh") THEN "edit" ELSE "checkout",
                seen |-> CartLines])
    /\ UNCHANGED <<offer, cartVars, addresses, orders>>

-----------------------------------------------------------------------------
(* add_item, update_item, remove_item                                      *)

\* _get_product_or_404, for a product in the cart what was loaded with it.
ReadProduct(r, p) ==
    LET loaded == {l \in req[r].seen : l.product = p /\ l.offer # NotLoaded}
    IN  /\ At(r, "edit")
        /\ \E t \in IF loaded = {} THEN {offer[p]} ELSE {l.offer : l \in loaded} :
              Goto(r, [pc |-> "add", seen |-> req[r].seen, product |-> p,
                       offer |-> t])
        /\ UNCHANGED <<offer, cartVars, addresses, orders>>

\* _validate_moq_and_availability; reading a product that was not loaded with
\* its line raises (MissingGreenlet).
Orderable(t, q) == t # NotLoaded /\ t.available /\ q >= t.minimum

\* Faulty variant: an UPDATE writes the line also when its row is gone.
WriteLineAnyway(l, q) ==
    cart' = [cart EXCEPT ![l.line] = [product |-> l.product, quantity |-> q]]

\* Faulty variant: the quantity is added to what the line had.
AddQuantity(l, q) ==
    /\ cart[l.line] # NoLine
    /\ cart' = [cart EXCEPT ![l.line].quantity = l.quantity + q]

\* Write a quantity to a loaded line.
WriteLine(l, q) ==
    IF q = l.quantity
    THEN UNCHANGED cart
    ELSE /\ cart[l.line] # NoLine
         /\ cart' = [cart EXCEPT ![l.line].quantity = q]

AddNewLine(r, l, q) ==
    /\ At(r, "add")
    /\ Orderable(req[r].offer, q)
    /\ \A k \in req[r].seen : k.product # req[r].product
    /\ l \notin usedLines
    /\ usedLines' = usedLines \cup {l}
    /\ cart' = [cart EXCEPT ![l] = [product |-> req[r].product, quantity |-> q]]
    /\ Goto(r, Idle)
    /\ UNCHANGED <<offer, hasCart, addresses, orders>>

AddToLine(r, q) ==
    /\ At(r, "add")
    /\ Orderable(req[r].offer, q)
    /\ \E l \in req[r].seen : l.product = req[r].product /\ WriteLine(l, q)
    /\ Goto(r, Idle)
    /\ UNCHANGED <<offer, hasCart, usedLines, addresses, orders>>

UpdateItem(r, q) ==
    /\ At(r, "edit")
    /\ \E l \in req[r].seen : Orderable(l.offer, q) /\ WriteLine(l, q)
    /\ Goto(r, Idle)
    /\ UNCHANGED <<offer, hasCart, usedLines, addresses, orders>>

RemoveItem(r) ==
    /\ At(r, "edit")
    /\ \E l \in req[r].seen : cart' = [cart EXCEPT ![l.line] = NoLine]
    /\ Goto(r, Idle)
    /\ UNCHANGED <<offer, hasCart, usedLines, addresses, orders>>

-----------------------------------------------------------------------------
(* checkout                                                                *)

ReadAddress(r, a) ==
    /\ At(r, "checkout")
    /\ req[r].seen # {}
    /\ AddressExists(a)
    /\ Goto(r, [pc |-> "ordering", seen |-> req[r].seen, address |-> a])
    /\ UNCHANGED <<offer, cartVars, addresses, orders>>

\* The select of the loop over the lines: it changes nothing for a product that
\* was loaded with its line.
ReadLineProduct(r, p) ==
    /\ At(r, "ordering")
    /\ \E l \in req[r].seen : l.product = p /\ l.offer = NotLoaded
    /\ Goto(r, [pc |-> "ordering", address |-> req[r].address,
                seen |-> {IF l.product = p THEN [l EXCEPT !.offer = offer[p]]
                                           ELSE l : l \in req[r].seen}])
    /\ UNCHANGED <<offer, cartVars, addresses, orders>>

Ordered(seen) ==
    {[line |-> l.line, product |-> l.product, quantity |-> l.quantity,
      price |-> l.offer.price] : l \in seen}

\* Faulty variant: the foreign key to the address is missing.
PlaceOrderAnywhere(r, o) ==
    LET lines == Ordered(req[r].seen)
    IN  /\ At(r, "ordering")
        /\ \A l \in req[r].seen : Orderable(l.offer, l.quantity)
        /\ orders[o] = NoOrder
        /\ orders' = [orders EXCEPT ![o] =
              [address |-> req[r].address, lines |-> lines,
               total |-> OrderTotal(lines)]]
        /\ cart' = [k \in Lines |-> IF \E l \in lines : l.line = k
                                    THEN NoLine ELSE cart[k]]
        /\ Goto(r, Idle)
        /\ UNCHANGED <<offer, hasCart, usedLines, addresses>>

\* The order, its items and the removal of the loaded lines are committed
\* together; the address must still exist (foreign key).
PlaceOrder(r, o) ==
    LET lines == Ordered(req[r].seen)
    IN  /\ At(r, "ordering")
        /\ \A l \in req[r].seen : Orderable(l.offer, l.quantity)
        /\ AddressExists(req[r].address)
        /\ orders[o] = NoOrder
        /\ orders' = [orders EXCEPT ![o] =
              [address |-> req[r].address, lines |-> lines,
               total |-> OrderTotal(lines)]]
        /\ cart' = [k \in Lines |-> IF \E l \in lines : l.line = k
                                    THEN NoLine ELSE cart[k]]
        /\ Goto(r, Idle)
        /\ UNCHANGED <<offer, hasCart, usedLines, addresses>>

-----------------------------------------------------------------------------
(* create_address, update_address, delete_address                          *)

\* The rows a request has cleared and not committed are locked; another
\* request that writes them waits.
Locked(r) ==
    IF req[r].pc \in {"create address", "make default"} THEN req[r].cleared ELSE {}

LockedByOthers(r) == UNION {Locked(q) : q \in AddressReq \ {r}}

Existing == {a \in Addresses : AddressExists(a)}

\* The table after a request's clearing UPDATE.
Cleared(rows) == [a \in Addresses |-> IF a \in rows /\ addresses[a] = "default"
                                      THEN "plain" ELSE addresses[a]]

CreatePlainAddress(r, a) ==
    /\ At(r, "idle")
    /\ addresses[a] = "none"
    /\ addresses' = [addresses EXCEPT ![a] = "plain"]
    /\ UNCHANGED <<offer, cartVars, orders, req>>

\* The UPDATE that clears the flags reaches the rows there are when it begins.
BeginCreateDefault(r) ==
    /\ At(r, "idle")
    /\ Goto(r, [pc |-> "clearing to create", cleared |-> Existing])
    /\ UNCHANGED <<offer, cartVars, addresses, orders>>

\* It waits for their locks, and skips those that are gone by then.
ClearDefaults(r) ==
    LET rows == req[r].cleared \cap Existing
    IN  /\ req[r].pc \in {"clearing to create", "clearing to update"}
        /\ req[r].cleared \cap LockedByOthers(r) = {}
        /\ \/ /\ At(r, "clearing to create")
              /\ Goto(r, [pc |-> "create address", cleared |-> rows])
           \/ /\ At(r, "clearing to update")
              /\ Goto(r, [pc |-> "make default", address |-> req[r].address,
                          old |-> req[r].old, cleared |-> rows])
        /\ UNCHANGED <<offer, cartVars, addresses, orders>>

CommitCreateDefault(r, a) ==
    /\ At(r, "create address")
    /\ addresses[a] = "none"
    /\ addresses' = [Cleared(req[r].cleared) EXCEPT ![a] = "default"]
    /\ Goto(r, Idle)
    /\ UNCHANGED <<offer, cartVars, orders>>

\* _get_owned_address
LoadAddress(r, a) ==
    /\ At(r, "idle")
    /\ AddressExists(a)
    /\ Goto(r, [pc |-> "address", address |-> a, old |-> addresses[a]])
    /\ UNCHANGED <<offer, cartVars, addresses, orders>>

\* update_address with is_default = false.
UnsetDefault(r) ==
    LET a == req[r].address
    IN  /\ At(r, "address")
        /\ IF req[r].old = "plain"
           THEN UNCHANGED addresses
           ELSE /\ AddressExists(a)
                /\ a \notin LockedByOthers(r)
                /\ addresses' = [addresses EXCEPT ![a] = "plain"]
        /\ Goto(r, Idle)
        /\ UNCHANGED <<offer, cartVars, orders>>

BeginMakeDefault(r) ==
    /\ At(r, "address")
    /\ Goto(r, [pc |-> "clearing to update", address |-> req[r].address,
                old |-> req[r].old, cleared |-> Existing])
    /\ UNCHANGED <<offer, cartVars, addresses, orders>>

\* The flag is written only if it was not set in the loaded row: the address
\* that is the default already only loses it.
CommitMakeDefault(r) ==
    LET a == req[r].address
    IN  /\ At(r, "make default")
        /\ IF req[r].old = "default"
           THEN addresses' = Cleared(req[r].cleared)
           ELSE /\ AddressExists(a)
                /\ addresses' = [Cleared(req[r].cleared) EXCEPT ![a] = "default"]
        /\ Goto(r, Idle)
        /\ UNCHANGED <<offer, cartVars, orders>>

\* An address an order is delivered to cannot be deleted (foreign key).
DeleteAddress(r) ==
    LET a == req[r].address
    IN  /\ At(r, "address")
        /\ a \notin LockedByOthers(r)
        /\ \A o \in Orders : orders[o] # NoOrder => orders[o].address # a
        /\ addresses' = [addresses EXCEPT ![a] = "deleted"]
        /\ Goto(r, Idle)
        /\ UNCHANGED <<offer, cartVars, orders>>

-----------------------------------------------------------------------------

\* update_product, by one administrator.
UpdateProduct(p, t) ==
    /\ offer' = [offer EXCEPT ![p] = t]
    /\ UNCHANGED <<cartVars, addresses, orders, req>>

\* A handler ends without committing: a refusal, a constraint violation, a
\* StaleDataError, a lost connection.
Rollback(r) ==
    /\ ~At(r, "idle")
    /\ Goto(r, Idle)
    /\ UNCHANGED <<offer, cartVars, addresses, orders>>

Edit(r) ==
    \/ LoadCart(r, "edit")
    \/ FindNoCart(r, "edit create")
    \/ CreateCart(r)
    \/ RefreshCart(r)
    \/ \E p \in Products : ReadProduct(r, p)
    \/ \E q \in Quantities : \/ \E l \in Lines : AddNewLine(r, l, q)
                             \/ AddToLine(r, q)
                             \/ UpdateItem(r, q)
    \/ RemoveItem(r)

Checkout(r) ==
    \/ LoadCart(r, "checkout")
    \/ FindNoCart(r, "checkout create")
    \/ CreateCart(r)
    \/ RefreshCart(r)
    \/ \E a \in Addresses : ReadAddress(r, a)
    \/ \E p \in Products : ReadLineProduct(r, p)
    \/ \E o \in Orders : PlaceOrder(r, o)

EditAddress(r) ==
    \/ \E a \in Addresses : \/ CreatePlainAddress(r, a)
                            \/ CommitCreateDefault(r, a)
                            \/ LoadAddress(r, a)
    \/ BeginCreateDefault(r)
    \/ UnsetDefault(r)
    \/ BeginMakeDefault(r)
    \/ ClearDefaults(r)
    \/ CommitMakeDefault(r)
    \/ DeleteAddress(r)

Next ==
    \/ \E r \in EditReq : Edit(r)
    \/ \E r \in CheckoutReq : Checkout(r)
    \/ \E r \in AddressReq : EditAddress(r)
    \/ \E r \in Req : Rollback(r)
    \/ \E p \in Products, t \in Offers : UpdateProduct(p, t)

Spec == Init /\ [][Next]_vars

-----------------------------------------------------------------------------
(* Properties.  All requests overlap: nothing in the backend keeps a        *)
(* customer from submitting a checkout twice.                               *)

Placed == {o \in Orders : orders[o] # NoOrder}

\* What has been ordered is out of the cart and stays out: an edit that loaded
\* the line before the checkout cannot bring it back.
OrderedLinesLeaveTheCart ==
    \A o \in Placed : \A l \in orders[o].lines : cart[l.line] = NoLine

\* The customer pays what the cart shows for these lines: checkout computes
\* the total anew and rounds as compute_totals does.
OrdersCostWhatTheCartShows ==
    \A o \in Placed : orders[o].total = CartTotal(orders[o].lines)

\* An order's delivery address is not deleted, although checkout looked for it
\* in an earlier step than it commits.
OrdersHaveAnAddress ==
    \A o \in Placed : AddressExists(orders[o].address)
=============================================================================
