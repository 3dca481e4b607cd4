-------------------------- MODULE DemoBackendProofs ---------------------------
(***************************************************************************)
(* Proofs about DemoBackend, for any accounts, products, cycles, orders    *)
(* and payments.                                                           *)
(*                                                                         *)
(* The properties are about orders, and advance checks nothing: what makes *)
(* them hold is what each route does before it calls advance.  So the      *)
(* routes are grouped by what they write: nothing the properties speak of, *)
(* a cycle, a payment, or an order.                                        *)
(***************************************************************************)
EXTENDS DemoBackend, TLAPS

-----------------------------------------------------------------------------

\* A successful payment of an order.
Pays(p, o) == /\ payment[p] # NoPayment /\ payment[p].order = o
              /\ payment[p].status = "successful"

DemoInv == TypeOK /\ AdvancedOrdersArePaid /\ AggregatedOrdersAreInClosedCycle

LEMMA PaidOrders ==
    AdvancedOrdersArePaid <=>
        \A o \in Orders : status[o] \in {"CONFIRMED", "AGGREGATING"} =>
            \E p \in Payments : Pays(p, o)
BY DEF AdvancedOrdersArePaid, Paying, Pays

LEMMA PaymentTypes ==
    ASSUME TypeOK, NEW p \in Payments
    PROVE  /\ payment[p] # NoPayment =>
                 /\ payment[p] \in [order : Orders, status : {"pending", "successful"}]
                 /\ payment[p].order \in Orders
           /\ \A o \in Orders, s \in {"pending", "successful"} :
                 [order |-> o, status |-> s] # NoPayment
BY DEF TypeOK, NoPayment

\* Orders keep their status, or leave CONFIRMED and AGGREGATING; payments that
\* succeeded, lines of aggregated orders and closed cycles are kept.
LEMMA KeepingStep ==
    ASSUME DemoInv, TypeOK',
           \A o \in Orders :
              status'[o] \in {"CONFIRMED", "AGGREGATING"} =>
                 status'[o] = status[o] /\ lines'[o] = lines[o],
           \A p \in Payments, o \in Orders : Pays(p, o) => Pays(p, o)',
           \A c \in Cycles : cycleStatus[c] = "closed" => cycleStatus'[c] = "closed"
    PROVE  DemoInv'
<1>1. ASSUME NEW o \in Orders, status'[o] \in {"CONFIRMED", "AGGREGATING"}
      PROVE  \E p \in Payments : Pays(p, o)'
  <2>1. \E p \in Payments : Pays(p, o)
    BY <1>1, PaidOrders DEF DemoInv
  <2> QED BY <2>1
<1>2. AdvancedOrdersArePaid'
  BY <1>1 DEF AdvancedOrdersArePaid, Paying, Pays
<1>3. AggregatedOrdersAreInClosedCycle'
  BY DEF DemoInv, AggregatedOrdersAreInClosedCycle
<1> QED BY <1>2, <1>3 DEF DemoInv

-----------------------------------------------------------------------------
(* The routes.                                                             *)

\* Accounts, carts and products.
LEMMA StockStep ==
    ASSUME DemoInv,
           \/ \E u \in Users : Login(u)
           \/ Logout
           \/ \E u \in Shoppers :
                 \/ \E withAddress \in BOOLEAN : Register(u, withAddress)
                 \/ AddAddress(u)
                 \/ \E p \in Products : AddToCart(u, p) \/ RemoveFromCart(u, p)
           \/ \E u \in Users, active \in BOOLEAN : SetActive(u, active)
           \/ \E p \in Products : DeleteProduct(p)
           \/ \E p \in Products, s \in {"hidden", "shown"}, k \in Categories :
                 SaveProduct(p, s, k)
           \/ UNCHANGED vars
    PROVE  DemoInv'
<1>1. TypeOK /\ Shoppers \subseteq Users
  BY DEF DemoInv, Users
<1>2. UNCHANGED <<cycleStatus, orderVars, payment>>
  BY DEF Login, Logout, Register, AddAddress, AddToCart, RemoveFromCart,
         SetActive, DeleteProduct, SaveProduct, stockVars, vars, orderVars
<1>3. TypeOK'
  <2>1. /\ account' \in [Users -> {"none", "active", "inactive"}]
        /\ hasAddress' \subseteq Shoppers
        /\ session' \in Users \cup {Nobody}
    BY <1>1 DEF TypeOK, Login, Logout, Register, AddAddress, AddToCart,
       RemoveFromCart, SetActive, DeleteProduct, SaveProduct, userVars, vars
  <2>2. /\ cart' \in [Shoppers -> SUBSET Products]
        /\ catalogue' \in [Products -> {"none", "hidden", "shown", "deleted"}]
        /\ category' \in [Products -> Categories]
    BY <1>1 DEF TypeOK, Login, Logout, Register, AddAddress, AddToCart,
       RemoveFromCart, SetActive, DeleteProduct, SaveProduct, stockVars, vars
  <2> QED BY <1>1, <1>2, <2>1, <2>2 DEF TypeOK, orderVars
<1> QED BY <1>2, <1>3, KeepingStep DEF orderVars, Pays

LEMMA CycleStep ==
    ASSUME DemoInv, NEW c \in Cycles, CreateCycle(c) \/ OpenCycle(c)
    PROVE  DemoInv'
<1>1. /\ TypeOK
      /\ cycleStatus[c] \in {"none", "draft"}
      /\ cycleStatus' = [cycleStatus EXCEPT ![c] = "draft"] \/
         cycleStatus' = [cycleStatus EXCEPT ![c] = "open"]
      /\ UNCHANGED <<userVars, cart, productVars, orderVars, payment>>
  BY DEF DemoInv, CreateCycle, OpenCycle
<1>2. TypeOK'
  BY <1>1 DEF TypeOK, userVars, productVars, orderVars
<1>3. \A d \in Cycles : cycleStatus[d] = "closed" => cycleStatus'[d] = "closed"
  BY <1>1 DEF TypeOK
<1> QED BY <1>1, <1>2, <1>3, KeepingStep DEF orderVars, Pays

\* checkout gives an order that was never placed its lines.
LEMMA CheckoutStep ==
    ASSUME DemoInv, NEW u \in Shoppers, NEW o \in Orders, Checkout(u, o)
    PROVE  DemoInv'
<1>1. /\ TypeOK
      /\ owner' = [owner EXCEPT ![o] = u]
      /\ status' = [status EXCEPT ![o] = "PENDING_PAYMENT"]
      /\ cart' = [cart EXCEPT ![u] = {}]
      /\ UNCHANGED <<userVars, stockVars, payment>>
  BY DEF DemoInv, Checkout
<1>2. PICK cycle \in [cart[u] -> Cycles] :
             lines' = [lines EXCEPT ![o] = {cycle[p] : p \in cart[u]}]
  BY DEF Checkout
<1>3. {cycle[p] : p \in cart[u]} \subseteq Cycles
  OBVIOUS
<1>4. lines' \in [Orders -> SUBSET Cycles]
      /\ \A x \in Orders : x # o => lines'[x] = lines[x]
  BY <1>1, <1>2, <1>3 DEF TypeOK
<1>5. TypeOK'
  BY <1>1, <1>4 DEF TypeOK, userVars, stockVars, OrderStatuses
<1> QED BY <1>1, <1>4, <1>5, KeepingStep DEF TypeOK, stockVars, Pays

\* A new payment takes no order's payment away.
LEMMA InitializeStep ==
    ASSUME DemoInv, NEW u \in Shoppers, NEW p \in Payments, NEW o \in Orders,
           InitializePayment(u, p, o)
    PROVE  DemoInv'
<1>1. /\ TypeOK /\ payment[p] = NoPayment
      /\ payment' = [payment EXCEPT ![p] = [order |-> o, status |-> "pending"]]
      /\ UNCHANGED <<userVars, cart, stockVars, orderVars>>
  BY DEF DemoInv, InitializePayment
<1>2. TypeOK'
  BY <1>1 DEF TypeOK, userVars, stockVars, orderVars
<1>3. \A q \in Payments : q # p => payment'[q] = payment[q]
  BY <1>1 DEF TypeOK
<1>4. \A q \in Payments, x \in Orders : Pays(q, x) => Pays(q, x)'
  BY <1>1, <1>3 DEF Pays
<1> QED BY <1>1, <1>2, <1>4, KeepingStep DEF orderVars, stockVars

\* advance is called for the order of the payment that has just succeeded.
LEMMA VerifyStep ==
    ASSUME DemoInv, NEW u \in Users, NEW p \in Payments, VerifyPayment(u, p)
    PROVE  DemoInv'
<1>0. PICK o : o = payment[p].order
  OBVIOUS
<1>1. /\ TypeOK /\ payment[p] # NoPayment
      /\ payment' = [payment EXCEPT ![p].status = "successful"]
      /\ status' = [status EXCEPT ![o] = "CONFIRMED"]
      /\ UNCHANGED <<userVars, cart, stockVars, owner, lines>>
  BY <1>0 DEF DemoInv, VerifyPayment, Advance
<1>2. /\ payment[p] \in [order : Orders, status : {"pending", "successful"}]
      /\ o \in Orders
  BY <1>0, <1>1, PaymentTypes
<1>3. PICK paid \in [order : Orders, status : {"pending", "successful"}] :
             /\ payment' = [payment EXCEPT ![p] = paid]
             /\ paid.order = o /\ paid.status = "successful" /\ paid # NoPayment
  <2> DEFINE paid == [payment[p] EXCEPT !.status = "successful"]
  <2>1. /\ paid \in [order : Orders, status : {"pending", "successful"}]
        /\ paid.order = o /\ paid.status = "successful"
    BY <1>0, <1>2
  <2>2. payment' = [payment EXCEPT ![p] = paid]
    BY <1>1 DEF TypeOK
  <2> HIDE DEF paid
  <2>3. paid # NoPayment
    BY <2>1 DEF NoPayment
  <2> QED BY <2>1, <2>2, <2>3
<1>4. /\ payment' \in [Payments -> {NoPayment} \cup
                          [order : Orders, status : {"pending", "successful"}]]
      /\ payment'[p] = paid
      /\ \A q \in Payments : q # p => payment'[q] = payment[q]
  BY <1>1, <1>3 DEF TypeOK
<1>5. /\ status' \in [Orders -> OrderStatuses] /\ status'[o] = "CONFIRMED"
      /\ \A x \in Orders : x # o => status'[x] = status[x]
  BY <1>1, <1>2 DEF TypeOK, OrderStatuses
<1>6. TypeOK'
  BY <1>1, <1>4, <1>5 DEF TypeOK, userVars, stockVars
<1>7. Pays(p, o)'
  BY <1>3, <1>4 DEF Pays
<1>8. \A q \in Payments, x \in Orders : Pays(q, x) => Pays(q, x)'
  <2> SUFFICES ASSUME NEW q \in Payments, NEW x \in Orders, Pays(q, x)
               PROVE  Pays(q, x)'
    OBVIOUS
  <2>1. CASE q = p
    BY <1>0, <1>7, <2>1 DEF Pays
  <2>2. CASE q # p
    BY <1>4, <2>2 DEF Pays
  <2> QED BY <2>1, <2>2
<1>9. AdvancedOrdersArePaid'
  <2>1. ASSUME NEW x \in Orders, status'[x] \in {"CONFIRMED", "AGGREGATING"}
        PROVE  \E q \in Payments : Pays(q, x)'
    <3>1. CASE x = o
      BY <1>7, <3>1
    <3>2. CASE x # o
      <4>1. \E q \in Payments : Pays(q, x)
        BY <1>5, <2>1, <3>2, PaidOrders DEF DemoInv
      <4> QED BY <1>8, <4>1
    <3> QED BY <3>1, <3>2
  <2> QED BY <2>1 DEF AdvancedOrdersArePaid, Paying, Pays
<1>10. AggregatedOrdersAreInClosedCycle'
  BY <1>1, <1>2, <1>5 DEF DemoInv, AggregatedOrdersAreInClosedCycle, stockVars
<1> QED BY <1>6, <1>9, <1>10 DEF DemoInv

\* Closing aggregates the confirmed orders of which nothing is elsewhere.
LEMMA CloseStep ==
    ASSUME DemoInv, NEW c \in Cycles, CloseCycle(c)
    PROVE  DemoInv'
<1> DEFINE moving == {o \in Orders : status[o] = "CONFIRMED" /\ lines[o] = {c}}
<1>1. /\ TypeOK
      /\ cycleStatus' = [cycleStatus EXCEPT ![c] = "closed"]
      /\ status' = [o \in Orders |->
                      IF o \in moving THEN "AGGREGATING" ELSE status[o]]
      /\ UNCHANGED <<userVars, cart, productVars, owner, lines, payment>>
  BY DEF DemoInv, CloseCycle
<1>2. TypeOK'
  BY <1>1 DEF TypeOK, userVars, productVars, OrderStatuses
<1>3. AdvancedOrdersArePaid'
  <2>1. ASSUME NEW o \in Orders, status'[o] \in {"CONFIRMED", "AGGREGATING"}
        PROVE  \E p \in Payments : Pays(p, o)'
    <3>1. status[o] \in {"CONFIRMED", "AGGREGATING"}
      BY <1>1, <2>1
    <3>2. \E p \in Payments : Pays(p, o)
      BY <3>1, PaidOrders DEF DemoInv
    <3> QED BY <1>1, <3>2 DEF Pays
  <2> QED BY <2>1 DEF AdvancedOrdersArePaid, Paying, Pays
<1>4. AggregatedOrdersAreInClosedCycle'
  <2> SUFFICES ASSUME NEW o \in Orders, status'[o] = "AGGREGATING"
               PROVE  \E d \in Cycles : lines'[o] = {d} /\ cycleStatus'[d] = "closed"
    BY DEF AggregatedOrdersAreInClosedCycle
  <2>1. CASE o \in moving
    BY <1>1, <2>1 DEF TypeOK
  <2>2. CASE o \notin moving
    <3>1. PICK d \in Cycles : lines[o] = {d} /\ cycleStatus[d] = "closed"
      BY <1>1, <2>2 DEF DemoInv, AggregatedOrdersAreInClosedCycle
    <3> QED BY <1>1, <3>1 DEF TypeOK
  <2> QED BY <2>1, <2>2
<1> QED BY <1>2, <1>3, <1>4 DEF DemoInv

LEMMA CancelStep ==
    ASSUME DemoInv, NEW o \in Orders, NEW refund \in BOOLEAN, Cancel(o, refund)
    PROVE  DemoInv'
<1>1. /\ TypeOK
      /\ \E to \in {"CANCELLED", "REFUNDED"} : status' = [status EXCEPT ![o] = to]
      /\ UNCHANGED <<userVars, cart, stockVars, owner, lines, payment>>
  BY DEF DemoInv, Cancel, Advance
<1>2. TypeOK'
  BY <1>1 DEF TypeOK, userVars, stockVars, OrderStatuses
<1>3. \A x \in Orders : status'[x] \in {"CONFIRMED", "AGGREGATING"} =>
                           status'[x] = status[x]
  BY <1>1 DEF TypeOK
<1> QED BY <1>1, <1>2, <1>3, KeepingStep DEF stockVars, Pays

-----------------------------------------------------------------------------

LEMMA DemoInvariance == Spec => []DemoInv
<1>1. Init => DemoInv
  <2> SUFFICES ASSUME Init PROVE DemoInv
    OBVIOUS
  <2>1. TypeOK
    BY DEF Init, TypeOK, OrderStatuses
  <2> QED BY <2>1 DEF Init, DemoInv, AdvancedOrdersArePaid,
                      AggregatedOrdersAreInClosedCycle
<1>2. DemoInv /\ [Next]_vars => DemoInv'
  BY StockStep, CycleStep, CheckoutStep, InitializeStep, VerifyStep, CloseStep,
     CancelStep DEF Next, Shop, Administer
<1> QED BY <1>1, <1>2, PTL DEF Spec

\* TypeOK: the state object has its types in every state.
THEOREM TypeCorrectness == Spec => []TypeOK
<1>1. DemoInv => TypeOK
  BY DEF DemoInv
<1> QED BY <1>1, DemoInvariance, PTL

\* An order the demo shows as confirmed or aggregated has a successful payment
\* of its own, although advance checks no transition.
THEOREM DemoOrdersArePaid == Spec => []AdvancedOrdersArePaid
<1>1. DemoInv => AdvancedOrdersArePaid
  BY DEF DemoInv
<1> QED BY <1>1, DemoInvariance, PTL

\* The demo aggregates an order only with the cycle all its lines are in, and
\* that cycle is closed and never opened again.
THEOREM DemoOrdersAreAggregated == Spec => []AggregatedOrdersAreInClosedCycle
<1>1. DemoInv => AggregatedOrdersAreInClosedCycle
  BY DEF DemoInv
<1> QED BY <1>1, DemoInvariance, PTL
===============================================================================
