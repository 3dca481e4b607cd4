-------------------------- MODULE CartCheckoutProofs --------------------------
(***************************************************************************)
(* Proofs about CartCheckout, for any products, lines, orders, addresses,  *)
(* offers and fees, and any number of overlapping requests.                *)
(***************************************************************************)
EXTENDS CartCheckout, FiniteSetTheorems, WellFoundedInduction, TLAPS

-----------------------------------------------------------------------------
(* Money: the totals are natural numbers.  A sum over a set is a recursive *)
(* function on its subsets; that it is defined at all, and what it returns,*)
(* is shown by induction on the size of the subset.                        *)

LEMMA LeastElement ==
    ASSUME NEW T, T \subseteq Nat, T # {}
    PROVE  \E n \in T : \A m \in T : n <= m
<1>1. PICK n \in T : \A m \in T : <<m, n>> \notin OpToRel(<, Nat)
  BY NatLessThanWellFounded, WFMin
<1>2. \A m \in T : ~(m < n)
  BY <1>1 DEF OpToRel
<1> QED BY <1>2

Chosen(s) == CHOOSE x \in s : TRUE

\* The equation of the sum of the line totals.
SumBody(g, s) == IF s = {} THEN 0
                 ELSE LineTotal(Chosen(s)) + g[s \ {Chosen(s)}]

SumOf(S) == CHOOSE g : g = [s \in SUBSET S |-> SumBody(g, s)]

Small(S, n) == {s \in SUBSET S : Cardinality(s) <= n}

LEMMA SumUnfolds ==
    ASSUME NEW S
    PROVE  MapThenSumSet(LineTotal, S) = SumOf(S)[S]
BY DEF MapThenSumSet, MapThenFoldSet, Chosen, SumOf, SumBody

LEMMA SmallSets ==
    ASSUME NEW S, IsFiniteSet(S)
    PROVE  /\ \A s \in SUBSET S : Cardinality(s) \in Nat /\ s \in Small(S, Cardinality(S))
           /\ Small(S, 0) = {{}}
           /\ \A n \in Nat \ {0} : \A s \in Small(S, n) :
                 s # {} => /\ Chosen(s) \in S
                           /\ s \ {Chosen(s)} \in Small(S, n - 1)
           /\ \A n \in Nat : {} \in Small(S, n)
           /\ \A n \in Nat \ {0} : Small(S, n - 1) \subseteq Small(S, n)
<1>1. \A s \in SUBSET S : /\ IsFiniteSet(s) /\ Cardinality(s) \in Nat
                          /\ Cardinality(s) <= Cardinality(S)
  BY FS_Subset, FS_CardinalityType
<1>2. Cardinality({}) = 0 /\ \A s \in SUBSET S : Cardinality(s) = 0 => s = {}
  BY <1>1, FS_EmptySet
<1>3. Small(S, 0) = {{}}
  BY <1>1, <1>2 DEF Small
<1>4. ASSUME NEW n \in Nat \ {0}, NEW s \in Small(S, n), s # {}
      PROVE  Chosen(s) \in S /\ s \ {Chosen(s)} \in Small(S, n - 1)
  <2>1. Chosen(s) \in s /\ s \in SUBSET S /\ Cardinality(s) <= n
    BY <1>4 DEF Chosen, Small
  <2>2. Cardinality(s \ {Chosen(s)}) = Cardinality(s) - 1
    BY <1>1, <2>1, FS_RemoveElement
  <2> QED BY <1>1, <2>1, <2>2 DEF Small
<1> QED BY <1>1, <1>2, <1>3, <1>4 DEF Small

\* The recursive equation has a solution.
LEMMA SumExists ==
    ASSUME NEW S, IsFiniteSet(S), \A l \in S : LineTotal(l) \in Nat
    PROVE  SumOf(S) = [s \in SUBSET S |-> SumBody(SumOf(S), s)]
<1> DEFINE Solves(g, n) == /\ g \in [Small(S, n) -> Nat]
                           /\ \A s \in Small(S, n) : g[s] = SumBody(g, s)
           T == {n \in Nat : ~ \E g : Solves(g, n)}
<1>1. T = {}
  <2> SUFFICES ASSUME T # {} PROVE FALSE
    OBVIOUS
  <2>1. PICK n \in T : \A m \in T : n <= m
    BY LeastElement
  <2>2. n # 0
    <3>1. Solves([s \in Small(S, 0) |-> 0], 0)
      BY SmallSets DEF SumBody
    <3> QED BY <2>1, <3>1
  <2>3. n \in Nat \ {0} /\ n - 1 \in Nat /\ n - 1 \notin T
    BY <2>1, <2>2
  <2>4. PICK g : Solves(g, n - 1)
    BY <2>3
  <2> DEFINE h == [s \in Small(S, n) |-> SumBody(g, s)]
  <2>5. ASSUME NEW s \in Small(S, n)
        PROVE  h[s] \in Nat /\ h[s] = SumBody(h, s)
    <3>1. CASE s = {}
      BY <3>1 DEF SumBody
    <3>2. CASE s # {}
      <4>1. /\ Chosen(s) \in S /\ s \ {Chosen(s)} \in Small(S, n - 1)
            /\ s \ {Chosen(s)} \in Small(S, n)
        BY <2>3, <3>2, SmallSets
      <4>2. h[s \ {Chosen(s)}] = g[s \ {Chosen(s)}]
        BY <2>4, <4>1
      <4>3. h[s] = LineTotal(Chosen(s)) + g[s \ {Chosen(s)}]
        BY <3>2 DEF SumBody
      <4>4. g[s \ {Chosen(s)}] \in Nat /\ LineTotal(Chosen(s)) \in Nat
        BY <2>4, <4>1
      <4>5. SumBody(h, s) = LineTotal(Chosen(s)) + h[s \ {Chosen(s)}]
        BY <3>2 DEF SumBody
      <4> HIDE DEF h
      <4> QED BY <4>2, <4>3, <4>4, <4>5
    <3> QED BY <3>1, <3>2
  <2>6. Solves(h, n)
    BY <2>5
  <2> QED BY <2>1, <2>6
<1>2. PICK g : Solves(g, Cardinality(S))
  BY <1>1, FS_CardinalityType
<1>3. Small(S, Cardinality(S)) = SUBSET S
  BY SmallSets DEF Small
<1>4. g = [s \in SUBSET S |-> SumBody(g, s)]
  BY <1>2, <1>3
<1> QED BY <1>4 DEF SumOf

\* The sum of the line totals of a finite set of lines is a natural number.
LEMMA SubtotalType ==
    ASSUME NEW S, IsFiniteSet(S), \A l \in S : LineTotal(l) \in Nat
    PROVE  MapThenSumSet(LineTotal, S) \in Nat
<1> DEFINE f == SumOf(S)
           T == {n \in Nat : \E s \in Small(S, n) : f[s] \notin Nat}
<1>1. \A s \in SUBSET S : f[s] = SumBody(f, s)
  BY SumExists
<1> HIDE DEF f
<1>2. T = {}
  <2> SUFFICES ASSUME T # {} PROVE FALSE
    OBVIOUS
  <2>1. PICK n \in T : \A m \in T : n <= m
    BY LeastElement
  <2>2. PICK s \in Small(S, n) : f[s] \notin Nat
    BY <2>1
  <2>3. s # {} /\ s \in SUBSET S
    <3>1. s \in SUBSET S /\ f[s] = SumBody(f, s)
      BY <1>1 DEF Small
    <3>2. s = {} => f[s] = 0
      BY <3>1 DEF SumBody
    <3> QED BY <2>2, <3>1, <3>2
  <2>4. n # 0
    BY <2>2, <2>3, SmallSets
  <2>5. n - 1 \in Nat /\ n - 1 \notin T /\ n \in Nat \ {0}
    BY <2>1, <2>4
  <2>6. Chosen(s) \in S /\ s \ {Chosen(s)} \in Small(S, n - 1)
    BY <2>3, <2>5, SmallSets
  <2>7. f[s \ {Chosen(s)}] \in Nat /\ LineTotal(Chosen(s)) \in Nat
    BY <2>5, <2>6
  <2>8. f[s] = LineTotal(Chosen(s)) + f[s \ {Chosen(s)}]
    BY <1>1, <2>3 DEF SumBody
  <2> QED BY <2>2, <2>7, <2>8
<1>3. f[S] \in Nat
  BY <1>2, SmallSets, FS_CardinalityType
<1> QED BY <1>3, SumUnfolds DEF f

LEMMA HalfEvenType ==
    ASSUME NEW n \in Nat, NEW d \in Nat \ {0}
    PROVE  HalfEven(n, d) \in Nat
BY DEF HalfEven

LEMMA ProductType ==
    ASSUME NEW m \in Nat, NEW n \in Nat
    PROVE  m * n \in Nat
OBVIOUS

\* What an order costs is a natural number of hundredths.
LEMMA OrderTotalType ==
    ASSUME NEW S, IsFiniteSet(S),
           \A l \in S : l.quantity \in Nat /\ l.price \in Nat
    PROVE  OrderTotal(S) \in Nat
<1>1. \A l \in S : LineTotal(l) \in Nat
  BY ProductType, HalfEvenType DEF LineTotal
<1>2. MapThenSumSet(LineTotal, S) \in Nat
  BY <1>1, SubtotalType
<1>3. ServiceFee(MapThenSumSet(LineTotal, S)) \in Nat
  BY <1>2, ProductType, HalfEvenType, DataAssumption DEF ServiceFee
<1> QED BY <1>2, <1>3, DataAssumption DEF OrderTotal

-----------------------------------------------------------------------------
(* The inductive invariant.                                                *)

LEMMA RequestTypes ==
    ASSUME NEW s \in RequestStates
    PROVE  /\ s.pc \in {"edit", "checkout", "add", "ordering"} =>
                 s.seen \subseteq LoadedLines
           /\ s.pc = "add" => s.product \in Products /\ s.offer \in Offers
           /\ s.pc = "ordering" => s.address \in Addresses
           /\ s.pc \in {"address", "clearing to update"} =>
                 s.address \in Addresses /\ s.old \in {"plain", "default"}
BY DEF RequestStates

\* A request that has loaded the cart has loaded finitely many lines that were
\* inserted at some time, and it orders some.
LocalOK(s, used) ==
    /\ s.pc \in {"edit", "checkout", "add", "ordering"} =>
          IsFiniteSet(s.seen) /\ \A l \in s.seen : l.line \in used
    /\ s.pc = "ordering" => s.seen # {}

\* An ordered line was inserted at some time, and its id is not used again.
OrderedLinesAreUsed ==
    \A o \in Placed : \A l \in orders[o].lines : l.line \in usedLines

BaseInv == /\ TypeOK
           /\ IsFiniteSet(usedLines)
           /\ \A r \in Req : LocalOK(req[r], usedLines)
           /\ OrderedLinesAreUsed
           /\ OrderedLinesLeaveTheCart
           /\ OrdersCostWhatTheCartShows
           /\ OrdersHaveAnAddress

LEMMA OrderTypes ==
    ASSUME TypeOK, NEW o \in Placed
    PROVE  /\ o \in Orders
           /\ orders[o].address \in Addresses
           /\ orders[o].lines \subseteq OrderLines
           /\ \A l \in orders[o].lines : l.line \in Lines
BY DEF TypeOK, Placed, OrderLines

\* A step that places no order.
LEMMA TableStep ==
    ASSUME BaseInv,
           offer' \in [Products -> Offers], hasCart' \in BOOLEAN,
           cart' \in [Lines -> {NoLine} \cup
                               [product : Products, quantity : Quantities]],
           usedLines \subseteq usedLines', usedLines' \subseteq Lines,
           IsFiniteSet(usedLines'),
           \A l \in Lines : cart'[l] # NoLine =>
               l \in usedLines' /\ (cart[l] # NoLine \/ l \notin usedLines),
           addresses' \in [Addresses -> {"none", "plain", "default", "deleted"}],
           \A o \in Placed : AddressExists(orders[o].address)',
           orders' = orders,
           req' \in [Req -> RequestStates],
           \A r \in Req : req'[r] = req[r] \/ LocalOK(req'[r], usedLines')
    PROVE  BaseInv'
<1>1. TypeOK'
  BY DEF BaseInv, TypeOK
<1>2. Placed' = Placed
  BY DEF Placed
<1>3. ASSUME NEW r \in Req
      PROVE  LocalOK(req'[r], usedLines')
  <2>1. LocalOK(req[r], usedLines')
    BY DEF BaseInv, LocalOK
  <2> QED BY <2>1
<1>4. OrderedLinesAreUsed'
  BY <1>2 DEF BaseInv, OrderedLinesAreUsed
<1>5. OrderedLinesLeaveTheCart'
  <2> SUFFICES ASSUME NEW o \in Placed, NEW l \in orders[o].lines
               PROVE  cart'[l.line] = NoLine
    BY <1>2 DEF OrderedLinesLeaveTheCart
  <2>1. l.line \in Lines
    BY OrderTypes DEF BaseInv
  <2>2. l.line \in usedLines /\ cart[l.line] = NoLine
    BY DEF BaseInv, OrderedLinesAreUsed, OrderedLinesLeaveTheCart
  <2> QED BY <2>1, <2>2
<1>6. OrdersCostWhatTheCartShows' /\ OrdersHaveAnAddress'
  BY <1>2 DEF BaseInv, OrdersCostWhatTheCartShows, OrdersHaveAnAddress
<1> QED BY <1>1, <1>3, <1>4, <1>5, <1>6 DEF BaseInv

LEMMA GotoType ==
    ASSUME TypeOK, NEW r \in Req, NEW s \in RequestStates, Goto(r, s)
    PROVE  /\ req' \in [Req -> RequestStates]
           /\ req'[r] = s
           /\ \A q \in Req : q # r => req'[q] = req[q]
BY DEF TypeOK, Goto

\* A step in which a request goes on, and nothing is committed.
LEMMA LocalStep ==
    ASSUME BaseInv, NEW r \in Req, NEW s \in RequestStates, LocalOK(s, usedLines),
           Goto(r, s), UNCHANGED <<offer, cartVars, addresses, orders>>
    PROVE  BaseInv'
<1>1. /\ req' \in [Req -> RequestStates]
      /\ req'[r] = s
      /\ \A q \in Req : q # r => req'[q] = req[q]
  BY GotoType DEF BaseInv
<1>2. LocalOK(s, usedLines')
  BY DEF LocalOK, cartVars
<1> QED BY <1>1, <1>2, TableStep
        DEF BaseInv, TypeOK, cartVars, OrdersHaveAnAddress, AddressExists

\* What loading the cart returns, with the products or without.
LEMMA CartNowType ==
    ASSUME BaseInv
    PROVE  /\ CartNow \subseteq LoadedLines /\ IsFiniteSet(CartNow)
           /\ CartLines \subseteq LoadedLines /\ IsFiniteSet(CartLines)
           /\ \A l \in CartNow \cup CartLines : l.line \in usedLines
<1> DEFINE K == {k \in Lines : cart[k] # NoLine}
           load(l) == [line |-> l, product |-> cart[l].product,
                       quantity |-> cart[l].quantity, offer |-> NotLoaded]
           f == [l \in K |-> load(l)]
           join(l) == [l EXCEPT !.offer = offer[l.product]]
           g == [l \in CartLines |-> join(l)]
<1>1. IsFiniteSet(K)
  <2>1. K \subseteq usedLines
    BY DEF BaseInv, TypeOK
  <2> QED BY <2>1, FS_Subset DEF BaseInv
<1>2. CartLines = {load(l) : l \in K}
  BY DEF CartLines
<1>3. CartNow = {join(l) : l \in CartLines}
  BY DEF CartNow
<1>4. \A l \in K : load(l) \in LoadedLines /\ load(l).line = l
  BY DEF BaseInv, TypeOK, LoadedLines
<1>5. \A l \in K : l \in usedLines
  BY DEF BaseInv, TypeOK
<1>6. \A l \in LoadedLines : join(l) \in LoadedLines /\ join(l).line = l.line
  BY DEF BaseInv, TypeOK, LoadedLines
<1>7. IsFiniteSet(CartLines)
  <2>1. f \in Surjection(K, CartLines)
    BY <1>2 DEF Surjection
  <2> QED BY <1>1, <2>1, FS_Surjection
<1>8. IsFiniteSet(CartNow)
  <2>1. g \in Surjection(CartLines, CartNow)
    BY <1>3 DEF Surjection
  <2> QED BY <1>7, <2>1, FS_Surjection
<1> HIDE DEF load, K, join
<1>9. \A l \in CartLines : l \in LoadedLines /\ l.line \in usedLines
  BY <1>2, <1>4, <1>5
<1>10. \A l \in CartNow : l \in LoadedLines /\ l.line \in usedLines
  BY <1>3, <1>6, <1>9
<1> QED BY <1>7, <1>8, <1>9, <1>10

-----------------------------------------------------------------------------
(* The cart.                                                               *)

LEMMA CartBase ==
    ASSUME BaseInv, NEW r \in Req,
           \/ \E pc \in {"edit", "checkout"} : LoadCart(r, pc)
           \/ \E pc \in {"edit create", "checkout create"} : FindNoCart(r, pc)
           \/ CreateCart(r)
           \/ RefreshCart(r)
           \/ \E p \in Products : ReadProduct(r, p)
           \/ \E a \in Addresses : ReadAddress(r, a)
           \/ \E p \in Products : ReadLineProduct(r, p)
           \/ Rollback(r)
    PROVE  BaseInv'
<1>1. TypeOK /\ req[r] \in RequestStates /\ LocalOK(req[r], usedLines)
  BY DEF BaseInv, TypeOK
<1>2. ASSUME NEW pc \in {"edit", "checkout"}, LoadCart(r, pc)
      PROVE  BaseInv'
  <2> DEFINE s == [pc |-> pc, seen |-> CartNow]
  <2>1. s \in RequestStates /\ s.pc \in {"edit", "checkout"} /\ s.seen = CartNow
    BY CartNowType DEF RequestStates
  <2>2. LocalOK(s, usedLines)
    BY <2>1, CartNowType DEF LocalOK
  <2>3. Goto(r, s) /\ UNCHANGED <<offer, cartVars, addresses, orders>>
    BY <1>2 DEF LoadCart
  <2> HIDE DEF s
  <2> QED BY <2>1, <2>2, <2>3, LocalStep
<1>3. ASSUME NEW pc \in {"edit create", "checkout create"}, FindNoCart(r, pc)
      PROVE  BaseInv'
  <2> DEFINE s == [pc |-> pc]
  <2>1. s \in RequestStates /\ s.pc = pc
    BY DEF RequestStates
  <2>2. LocalOK(s, usedLines)
    BY <2>1 DEF LocalOK
  <2>3. Goto(r, s) /\ UNCHANGED <<offer, cartVars, addresses, orders>>
    BY <1>3 DEF FindNoCart
  <2> HIDE DEF s
  <2> QED BY <2>1, <2>2, <2>3, LocalStep
<1>4. CASE CreateCart(r)
  <2> DEFINE s == [pc |-> IF At(r, "edit create") THEN "edit refresh"
                                                  ELSE "checkout refresh"]
  <2>1. s \in RequestStates /\ s.pc \in {"edit refresh", "checkout refresh"}
    BY DEF RequestStates
  <2>2. LocalOK(s, usedLines')
    BY <2>1 DEF LocalOK
  <2>3. Goto(r, s)
    BY <1>4 DEF CreateCart
  <2> HIDE DEF s
  <2>4. /\ req' \in [Req -> RequestStates]
        /\ req'[r] = s
        /\ \A q \in Req : q # r => req'[q] = req[q]
    BY <1>1, <2>1, <2>3, GotoType
  <2> QED BY <1>4, <2>2, <2>4, TableStep
          DEF CreateCart, BaseInv, TypeOK, OrdersHaveAnAddress, AddressExists
<1>5. ASSUME NEW p \in Products, ReadProduct(r, p)
      PROVE  BaseInv'
  <2> DEFINE loaded == {l \in req[r].seen : l.product = p /\ l.offer # NotLoaded}
  <2>1. At(r, "edit") /\ req[r].seen \subseteq LoadedLines
    BY <1>1, <1>5, RequestTypes DEF ReadProduct, At
  <2>2. PICK t \in IF loaded = {} THEN {offer[p]} ELSE {l.offer : l \in loaded} :
               Goto(r, [pc |-> "add", seen |-> req[r].seen, product |-> p,
                        offer |-> t])
    BY <1>5 DEF ReadProduct
  <2>3. t \in Offers
    <3>1. offer[p] \in Offers /\ \A l \in loaded : l.offer \in Offers
      BY <1>1, <2>1 DEF TypeOK, LoadedLines
    <3> QED BY <2>2, <3>1
  <2> DEFINE s == [pc |-> "add", seen |-> req[r].seen, product |-> p, offer |-> t]
  <2>4. s \in RequestStates /\ s.pc = "add" /\ s.seen = req[r].seen
    BY <2>1, <2>3 DEF RequestStates
  <2>5. LocalOK(s, usedLines)
    BY <1>1, <2>1, <2>4 DEF LocalOK, At
  <2>6. Goto(r, s) /\ UNCHANGED <<offer, cartVars, addresses, orders>>
    BY <1>5, <2>2 DEF ReadProduct
  <2> HIDE DEF s
  <2> QED BY <2>4, <2>5, <2>6, LocalStep
<1>6. ASSUME NEW a \in Addresses, ReadAddress(r, a)
      PROVE  BaseInv'
  <2>1. At(r, "checkout") /\ req[r].seen \subseteq LoadedLines
    BY <1>1, <1>6, RequestTypes DEF ReadAddress, At
  <2> DEFINE s == [pc |-> "ordering", seen |-> req[r].seen, address |-> a]
  <2>2. s \in RequestStates /\ s.pc = "ordering" /\ s.seen = req[r].seen
    BY <2>1 DEF RequestStates
  <2>3. LocalOK(s, usedLines)
    BY <1>1, <1>6, <2>1, <2>2 DEF LocalOK, At, ReadAddress
  <2>4. Goto(r, s) /\ UNCHANGED <<offer, cartVars, addresses, orders>>
    BY <1>6 DEF ReadAddress
  <2> HIDE DEF s
  <2> QED BY <2>2, <2>3, <2>4, LocalStep
<1>8. CASE RefreshCart(r)
  <2> DEFINE s == [pc |-> IF At(r, "edit refresh") THEN "edit" ELSE "checkout",
                   seen |-> CartLines]
  <2>1. s \in RequestStates /\ s.seen = CartLines /\ s.pc \in {"edit", "checkout"}
    BY CartNowType DEF RequestStates
  <2>2. LocalOK(s, usedLines)
    BY <2>1, CartNowType DEF LocalOK
  <2>3. Goto(r, s) /\ UNCHANGED <<offer, cartVars, addresses, orders>>
    BY <1>8 DEF RefreshCart
  <2> HIDE DEF s
  <2> QED BY <2>1, <2>2, <2>3, LocalStep
<1>9. ASSUME NEW p \in Products, ReadLineProduct(r, p)
      PROVE  BaseInv'
  <2> DEFINE read(l) == IF l.product = p THEN [l EXCEPT !.offer = offer[p]] ELSE l
             seen == {read(l) : l \in req[r].seen}
             f == [l \in req[r].seen |-> read(l)]
             s == [pc |-> "ordering", address |-> req[r].address, seen |-> seen]
  <2>1. /\ At(r, "ordering") /\ req[r].seen \subseteq LoadedLines
        /\ req[r].address \in Addresses
        /\ IsFiniteSet(req[r].seen) /\ req[r].seen # {}
        /\ \A l \in req[r].seen : l.line \in usedLines
    BY <1>1, <1>9, RequestTypes DEF ReadLineProduct, At, LocalOK
  <2>2. \A l \in req[r].seen : read(l) \in LoadedLines /\ read(l).line = l.line
    BY <1>1, <2>1 DEF TypeOK, LoadedLines
  <2>3. Goto(r, s) /\ UNCHANGED <<offer, cartVars, addresses, orders>>
    BY <1>9 DEF ReadLineProduct
  <2> HIDE DEF read
  <2>4. IsFiniteSet(seen)
    <3>1. f \in Surjection(req[r].seen, seen)
      BY DEF Surjection
    <3> HIDE DEF f, seen
    <3> QED BY <2>1, <3>1, FS_Surjection
  <2>5. s \in RequestStates /\ s.pc = "ordering" /\ s.seen = seen
    BY <2>1, <2>2 DEF RequestStates
  <2>6. LocalOK(s, usedLines)
    BY <2>1, <2>2, <2>4, <2>5 DEF LocalOK
  <2> HIDE DEF s
  <2> QED BY <2>3, <2>5, <2>6, LocalStep
<1>7. CASE Rollback(r)
  <2>1. Idle \in RequestStates /\ LocalOK(Idle, usedLines)
    BY DEF Idle, RequestStates, LocalOK
  <2> QED BY <1>7, <2>1, LocalStep DEF Rollback
<1> QED BY <1>2, <1>3, <1>4, <1>5, <1>6, <1>7, <1>8, <1>9

LEMMA IdleType ==
    ASSUME BaseInv, NEW r \in Req, Goto(r, Idle)
    PROVE  /\ req' \in [Req -> RequestStates]
           /\ \A used : \A q \in Req :
                 req'[q] = req[q] \/ LocalOK(req'[q], used)
           /\ \A q \in Req : req'[q] = IF q = r THEN Idle ELSE req[q]
<1>1. Idle \in RequestStates /\ \A used : LocalOK(Idle, used)
  BY DEF Idle, RequestStates, LocalOK
<1> QED BY <1>1, GotoType DEF BaseInv

\* An edit of the cart can neither bring a line back nor reuse its id.
LEMMA EditBase ==
    ASSUME BaseInv, NEW r \in Req,
           \/ \E q \in Quantities : \/ \E l \in Lines : AddNewLine(r, l, q)
                                    \/ AddToLine(r, q)
                                    \/ UpdateItem(r, q)
           \/ RemoveItem(r)
    PROVE  BaseInv'
<1>1. TypeOK /\ req[r] \in RequestStates /\ IsFiniteSet(usedLines)
  BY DEF BaseInv, TypeOK
<1>2. OrdersHaveAnAddress
  BY DEF BaseInv
<1>3. ASSUME NEW q \in Quantities, NEW l \in req[r].seen, l \in LoadedLines,
             WriteLine(l, q)
      PROVE  /\ cart' \in [Lines -> {NoLine} \cup
                               [product : Products, quantity : Quantities]]
             /\ \A k \in Lines : cart'[k] # NoLine => cart[k] # NoLine
  <2>1. CASE UNCHANGED cart
    BY <1>1, <2>1 DEF TypeOK
  <2>2. CASE /\ cart[l.line] # NoLine
             /\ cart' = [cart EXCEPT ![l.line].quantity = q]
    <3>1. l.line \in Lines
      BY <1>3 DEF LoadedLines
    <3>2. cart[l.line] \in [product : Products, quantity : Quantities]
      BY <1>1, <2>2, <3>1 DEF TypeOK
    <3>3. [cart[l.line] EXCEPT !.quantity = q]
             \in [product : Products, quantity : Quantities]
      BY <3>2
    <3> QED BY <1>1, <2>2, <3>1, <3>3 DEF TypeOK
  <2> QED BY <1>3, <2>1, <2>2 DEF WriteLine
<1>4. ASSUME cart' \in [Lines -> {NoLine} \cup
                               [product : Products, quantity : Quantities]],
             \A k \in Lines : cart'[k] # NoLine => cart[k] # NoLine,
             Goto(r, Idle),
             UNCHANGED <<offer, hasCart, usedLines, addresses, orders>>
      PROVE  BaseInv'
  BY <1>1, <1>2, <1>4, IdleType, TableStep
     DEF TypeOK, OrdersHaveAnAddress, AddressExists
<1>5. ASSUME NEW q \in Quantities, NEW l \in Lines, AddNewLine(r, l, q)
      PROVE  BaseInv'
  <2>1. /\ usedLines' = usedLines \cup {l} /\ l \notin usedLines
        /\ cart' = [cart EXCEPT ![l] = [product |-> req[r].product, quantity |-> q]]
        /\ Goto(r, Idle)
        /\ UNCHANGED <<offer, hasCart, addresses, orders>>
    BY <1>5 DEF AddNewLine
  <2>2. req[r].product \in Products
    BY <1>1, <1>5, RequestTypes DEF AddNewLine, At
  <2>3. IsFiniteSet(usedLines')
    BY <1>1, <2>1, FS_AddElement
  <2>4. /\ cart' \in [Lines -> {NoLine} \cup
                               [product : Products, quantity : Quantities]]
        /\ \A k \in Lines : cart'[k] # NoLine =>
               k \in usedLines' /\ (cart[k] # NoLine \/ k \notin usedLines)
    BY <1>1, <2>1, <2>2 DEF TypeOK
  <2>5. usedLines \subseteq usedLines' /\ usedLines' \subseteq Lines
    BY <1>1, <2>1 DEF TypeOK
  <2> QED BY <1>1, <1>2, <2>1, <2>3, <2>4, <2>5, IdleType, TableStep
          DEF TypeOK, OrdersHaveAnAddress, AddressExists
<1>6. ASSUME NEW q \in Quantities, AddToLine(r, q) \/ UpdateItem(r, q)
      PROVE  BaseInv'
  <2>1. req[r].seen \subseteq LoadedLines
    BY <1>1, <1>6, RequestTypes DEF AddToLine, UpdateItem, At
  <2>2. PICK l \in req[r].seen : WriteLine(l, q)
    BY <1>6 DEF AddToLine, UpdateItem
  <2> QED BY <1>3, <1>4, <1>6, <2>1, <2>2 DEF AddToLine, UpdateItem
<1>7. CASE RemoveItem(r)
  <2>1. PICK l \in req[r].seen : cart' = [cart EXCEPT ![l.line] = NoLine]
    BY <1>7 DEF RemoveItem
  <2>2. /\ cart' \in [Lines -> {NoLine} \cup
                               [product : Products, quantity : Quantities]]
        /\ \A k \in Lines : cart'[k] # NoLine => cart[k] # NoLine
    BY <1>1, <2>1 DEF TypeOK
  <2> QED BY <1>4, <1>7, <2>2 DEF RemoveItem
<1> QED BY <1>5, <1>6, <1>7

-----------------------------------------------------------------------------
(* checkout's commit.                                                      *)

LEMMA OrderedType ==
    ASSUME NEW S \in SUBSET LoadedLines, IsFiniteSet(S),
           \A l \in S : l.offer # NotLoaded
    PROVE  /\ Ordered(S) \subseteq OrderLines
           /\ IsFiniteSet(Ordered(S))
           /\ OrderTotal(Ordered(S)) \in Nat
           /\ S # {} => Ordered(S) # {}
           /\ \A k \in Ordered(S) : \E l \in S : k.line = l.line
           /\ \A l \in S : \E k \in Ordered(S) : k.line = l.line
<1> DEFINE line(l) == [line |-> l.line, product |-> l.product,
                       quantity |-> l.quantity, price |-> l.offer.price]
           f == [l \in S |-> line(l)]
<1>1. Ordered(S) = {line(l) : l \in S}
  BY DEF Ordered
<1>2. ASSUME NEW l \in S
      PROVE  line(l) \in OrderLines /\ line(l).line = l.line
  BY DataAssumption DEF LoadedLines, OrderLines
<1>3. IsFiniteSet(Ordered(S))
  <2>1. f \in Surjection(S, Ordered(S))
    BY <1>1 DEF Surjection
  <2> QED BY <2>1, FS_Surjection
<1> HIDE DEF line
<1>4. Ordered(S) \subseteq OrderLines
  BY <1>1, <1>2
<1>5. \A k \in Ordered(S) : k.quantity \in Nat /\ k.price \in Nat
  BY <1>4, DataAssumption DEF OrderLines
<1>6. OrderTotal(Ordered(S)) \in Nat
  BY <1>3, <1>5, OrderTotalType
<1> QED BY <1>1, <1>2, <1>3, <1>4, <1>6

LEMMA TotalsAgree ==
    ASSUME NEW S, S # {}
    PROVE  OrderTotal(S) = CartTotal(S)
BY DEF OrderTotal, CartTotal

LEMMA PlaceOrderBase ==
    ASSUME BaseInv, NEW r \in Req, NEW o \in Orders, PlaceOrder(r, o)
    PROVE  BaseInv'
<1> DEFINE lines == Ordered(req[r].seen)
           new == [address |-> req[r].address, lines |-> lines,
                   total |-> OrderTotal(lines)]
<1>1. TypeOK /\ req[r] \in RequestStates /\ LocalOK(req[r], usedLines)
      /\ IsFiniteSet(usedLines)
  BY DEF BaseInv, TypeOK
<1>2. /\ req[r].pc = "ordering"
      /\ \A l \in req[r].seen : l.offer # NotLoaded
      /\ AddressExists(req[r].address)
      /\ orders[o] = NoOrder
      /\ orders' = [orders EXCEPT ![o] = new]
      /\ cart' = [k \in Lines |-> IF \E l \in lines : l.line = k
                                  THEN NoLine ELSE cart[k]]
      /\ Goto(r, Idle)
      /\ UNCHANGED <<offer, hasCart, usedLines, addresses>>
  BY DEF PlaceOrder, At, Orderable
<1>3. /\ req[r].seen \in SUBSET LoadedLines
      /\ req[r].address \in Addresses
      /\ IsFiniteSet(req[r].seen) /\ req[r].seen # {}
      /\ \A l \in req[r].seen : l.line \in usedLines
  BY <1>1, <1>2, RequestTypes DEF LocalOK
<1>4. /\ lines \subseteq OrderLines
      /\ OrderTotal(lines) \in Nat
      /\ OrderTotal(lines) = CartTotal(lines)
      /\ \A k \in lines : k.line \in usedLines /\ k.line \in Lines
  BY <1>1, <1>2, <1>3, OrderedType, TotalsAgree DEF TypeOK
<1> HIDE DEF lines
<1>5. new \in [address : Addresses, lines : SUBSET OrderLines, total : Nat]
  BY <1>3, <1>4
<1>6. /\ new.address = req[r].address /\ new.lines = lines
      /\ new.total = OrderTotal(lines)
  OBVIOUS
<1> HIDE DEF new
<1>7. orders' \in [Orders -> {NoOrder} \cup
                     [address : Addresses, lines : SUBSET OrderLines, total : Nat]]
  BY <1>1, <1>2, <1>5 DEF TypeOK
<1>8. \A u \in Placed' : IF u = o THEN orders'[u] = new
                         ELSE u \in Placed /\ orders'[u] = orders[u]
  BY <1>1, <1>2 DEF TypeOK, Placed
<1>9. TypeOK'
  <2>1. cart' \in [Lines -> {NoLine} \cup
                               [product : Products, quantity : Quantities]]
        /\ \A l \in Lines : cart'[l] # NoLine => l \in usedLines'
    BY <1>1, <1>2 DEF TypeOK
  <2>2. req' \in [Req -> RequestStates]
    BY <1>2, IdleType
  <2> QED BY <1>1, <1>2, <1>7, <2>1, <2>2 DEF TypeOK
<1>10. \A q \in Req : LocalOK(req'[q], usedLines')
  BY <1>2, IdleType DEF BaseInv
<1>11. OrderedLinesAreUsed'
  BY <1>2, <1>4, <1>6, <1>8 DEF BaseInv, OrderedLinesAreUsed
<1>12. OrderedLinesLeaveTheCart'
  <2> SUFFICES ASSUME NEW u \in Placed', NEW l \in orders'[u].lines
               PROVE  cart'[l.line] = NoLine
    BY DEF OrderedLinesLeaveTheCart
  <2>1. CASE u = o
    <3>1. l \in lines /\ l.line \in Lines
      BY <1>4, <1>6, <1>8, <2>1
    <3> QED BY <1>2, <3>1
  <2>2. CASE u # o
    <3>1. u \in Placed /\ l \in orders[u].lines
      BY <1>8, <2>2
    <3>2. l.line \in Lines /\ cart[l.line] = NoLine
      BY <1>1, <3>1, OrderTypes DEF BaseInv, OrderedLinesLeaveTheCart
    <3> QED BY <1>2, <3>2
  <2> QED BY <2>1, <2>2
<1>13. OrdersCostWhatTheCartShows'
  <2>1. ASSUME NEW u \in Placed'
        PROVE  orders'[u].total = CartTotal(orders'[u].lines)
    <3>1. CASE u = o
      <4>1. orders'[u].total = OrderTotal(lines) /\ orders'[u].lines = lines
        BY <1>6, <1>8, <3>1
      <4> QED BY <1>4, <4>1
    <3>2. CASE u # o
      BY <1>8, <3>2 DEF BaseInv, OrdersCostWhatTheCartShows
    <3> QED BY <3>1, <3>2
  <2> QED BY <2>1 DEF OrdersCostWhatTheCartShows
<1>14. OrdersHaveAnAddress'
  <2> SUFFICES ASSUME NEW u \in Placed'
               PROVE  addresses[orders'[u].address] \in {"plain", "default"}
    BY <1>2 DEF OrdersHaveAnAddress, AddressExists
  <2> QED BY <1>2, <1>6, <1>8 DEF BaseInv, OrdersHaveAnAddress, AddressExists
<1> QED BY <1>1, <1>2, <1>9, <1>10, <1>11, <1>12, <1>13, <1>14 DEF BaseInv

-----------------------------------------------------------------------------
(* The addresses.                                                          *)

Flags == {"none", "plain", "default", "deleted"}

LEMMA ClearedType ==
    ASSUME TypeOK, NEW rows
    PROVE  /\ Cleared(rows) \in [Addresses -> Flags]
           /\ \A a \in Addresses : AddressExists(a) =>
                 Cleared(rows)[a] \in {"plain", "default"}
           /\ \A a \in Addresses :
                 Cleared(rows)[a] = "default" =>
                     addresses[a] = "default" /\ a \notin rows
           /\ \A a \in Addresses :
                 Cleared(rows)[a] # addresses[a] => Cleared(rows)[a] = "plain"
           /\ \A a \in Addresses :
                 Cleared(rows)[a] \in {"none", "deleted"} =>
                     addresses[a] = Cleared(rows)[a]
BY DEF TypeOK, Cleared, AddressExists, Flags

\* A step that writes only addresses, and deletes none an order is sent to.
LEMMA AddressStep ==
    ASSUME BaseInv, NEW r \in Req,
           Goto(r, Idle) \/ UNCHANGED req,
           UNCHANGED <<offer, cartVars, orders>>,
           addresses' \in [Addresses -> Flags],
           \A o \in Placed :
              AddressExists(orders[o].address) =>
                 addresses'[orders[o].address] \in {"plain", "default"}
    PROVE  BaseInv'
<1>1. /\ req' \in [Req -> RequestStates]
      /\ \A q \in Req : req'[q] = req[q] \/ LocalOK(req'[q], usedLines')
  <2>1. CASE Goto(r, Idle)
    BY <2>1, IdleType
  <2>2. CASE UNCHANGED req
    BY <2>2 DEF BaseInv, TypeOK
  <2> QED BY <2>1, <2>2
<1>2. \A o \in Placed : AddressExists(orders[o].address)
  BY DEF BaseInv, OrdersHaveAnAddress
<1>3. \A o \in Placed : AddressExists(orders[o].address)'
  BY <1>2 DEF AddressExists, cartVars
<1> QED BY <1>1, <1>3, TableStep DEF BaseInv, TypeOK, cartVars, Flags

LEMMA AddressBase ==
    ASSUME BaseInv, NEW r \in Req, EditAddress(r)
    PROVE  BaseInv'
<1>1. TypeOK /\ req[r] \in RequestStates
  BY DEF BaseInv, TypeOK
<1>2. \A o \in Placed : orders[o].address \in Addresses
  BY <1>1, OrderTypes
<1>3. addresses \in [Addresses -> Flags]
  BY <1>1 DEF TypeOK, Flags
<1>4. ASSUME NEW a \in Addresses, CreatePlainAddress(r, a)
      PROVE  BaseInv'
  <2>1. addresses' = [addresses EXCEPT ![a] = "plain"]
    BY <1>4 DEF CreatePlainAddress
  <2>2. addresses' \in [Addresses -> Flags]
    BY <1>3, <2>1 DEF Flags
  <2>3. \A b \in Addresses : AddressExists(b) => addresses'[b] \in {"plain", "default"}
    BY <1>3, <2>1 DEF AddressExists
  <2> QED BY <1>2, <1>4, <2>2, <2>3, AddressStep DEF CreatePlainAddress
<1>5. ASSUME NEW a \in Addresses, CommitCreateDefault(r, a)
      PROVE  BaseInv'
  <2>1. addresses' = [Cleared(req[r].cleared) EXCEPT ![a] = "default"]
    BY <1>5 DEF CommitCreateDefault
  <2>2. addresses' \in [Addresses -> Flags]
    BY <1>1, <2>1, ClearedType DEF Flags
  <2>3. \A b \in Addresses : AddressExists(b) => addresses'[b] \in {"plain", "default"}
    BY <1>1, <2>1, ClearedType
  <2> QED BY <1>2, <1>5, <2>2, <2>3, AddressStep DEF CommitCreateDefault
<1>6. ASSUME NEW a \in Addresses, LoadAddress(r, a)
      PROVE  BaseInv'
  <2> DEFINE s == [pc |-> "address", address |-> a, old |-> addresses[a]]
  <2>1. s \in RequestStates /\ s.pc = "address"
    BY <1>6 DEF LoadAddress, AddressExists, RequestStates
  <2>2. LocalOK(s, usedLines)
    BY <2>1 DEF LocalOK
  <2>3. Goto(r, s) /\ UNCHANGED <<offer, cartVars, addresses, orders>>
    BY <1>6 DEF LoadAddress
  <2> HIDE DEF s
  <2> QED BY <2>1, <2>2, <2>3, LocalStep
<1>7. CASE BeginCreateDefault(r)
  <2> DEFINE s == [pc |-> "clearing to create", cleared |-> Existing]
  <2>1. s \in RequestStates /\ s.pc = "clearing to create"
    BY DEF RequestStates, Existing
  <2>2. LocalOK(s, usedLines)
    BY <2>1 DEF LocalOK
  <2>3. Goto(r, s) /\ UNCHANGED <<offer, cartVars, addresses, orders>>
    BY <1>7 DEF BeginCreateDefault
  <2> HIDE DEF s
  <2> QED BY <2>1, <2>2, <2>3, LocalStep
<1>8. CASE UnsetDefault(r)
  <2>1. req[r].address \in Addresses
    BY <1>1, <1>8, RequestTypes DEF UnsetDefault, At
  <2>2. \/ UNCHANGED addresses
        \/ addresses' = [addresses EXCEPT ![req[r].address] = "plain"]
    BY <1>8 DEF UnsetDefault
  <2>3. addresses' \in [Addresses -> Flags]
    BY <1>3, <2>1, <2>2 DEF Flags
  <2>4. \A b \in Addresses : AddressExists(b) => addresses'[b] \in {"plain", "default"}
    BY <1>3, <2>1, <2>2 DEF AddressExists
  <2> QED BY <1>2, <1>8, <2>3, <2>4, AddressStep DEF UnsetDefault
<1>9. CASE BeginMakeDefault(r)
  <2>1. req[r].address \in Addresses /\ req[r].old \in {"plain", "default"}
    BY <1>1, <1>9, RequestTypes DEF BeginMakeDefault, At
  <2> DEFINE s == [pc |-> "clearing to update", address |-> req[r].address,
                   old |-> req[r].old, cleared |-> Existing]
  <2>2. s \in RequestStates /\ s.pc = "clearing to update"
    BY <2>1 DEF RequestStates, Existing
  <2>3. LocalOK(s, usedLines)
    BY <2>2 DEF LocalOK
  <2>4. Goto(r, s) /\ UNCHANGED <<offer, cartVars, addresses, orders>>
    BY <1>9 DEF BeginMakeDefault
  <2> HIDE DEF s
  <2> QED BY <2>2, <2>3, <2>4, LocalStep
<1>10. CASE CommitMakeDefault(r)
  <2>1. \/ addresses' = Cleared(req[r].cleared)
        \/ addresses' = [Cleared(req[r].cleared) EXCEPT ![req[r].address] = "default"]
    BY <1>10 DEF CommitMakeDefault
  <2>2. addresses' \in [Addresses -> Flags]
    BY <1>1, <2>1, ClearedType DEF Flags
  <2>3. \A b \in Addresses : AddressExists(b) => addresses'[b] \in {"plain", "default"}
    BY <1>1, <2>1, ClearedType
  <2> QED BY <1>2, <1>10, <2>2, <2>3, AddressStep DEF CommitMakeDefault
<1>11. CASE DeleteAddress(r)
  <2>1. /\ addresses' = [addresses EXCEPT ![req[r].address] = "deleted"]
        /\ \A o \in Placed : orders[o].address # req[r].address
    BY <1>11 DEF DeleteAddress, Placed
  <2>2. addresses' \in [Addresses -> Flags]
    BY <1>3, <2>1 DEF Flags
  <2>3. \A o \in Placed : AddressExists(orders[o].address) =>
            addresses'[orders[o].address] \in {"plain", "default"}
    BY <1>2, <1>3, <2>1 DEF AddressExists
  <2> QED BY <1>11, <2>2, <2>3, AddressStep DEF DeleteAddress
<1>12. CASE ClearDefaults(r)
  <2> DEFINE rows == req[r].cleared \cap Existing
             s1 == [pc |-> "create address", cleared |-> rows]
             s2 == [pc |-> "make default", address |-> req[r].address,
                    old |-> req[r].old, cleared |-> rows]
  <2>1. UNCHANGED <<offer, cartVars, addresses, orders>> /\ rows \subseteq Addresses
    BY <1>12 DEF ClearDefaults, Existing
  <2>2. CASE At(r, "clearing to create") /\ Goto(r, s1)
    <3>1. s1 \in RequestStates /\ LocalOK(s1, usedLines)
      BY <2>1 DEF RequestStates, LocalOK
    <3> HIDE DEF s1
    <3> QED BY <2>1, <2>2, <3>1, LocalStep
  <2>3. CASE At(r, "clearing to update") /\ Goto(r, s2)
    <3>1. req[r].address \in Addresses /\ req[r].old \in {"plain", "default"}
      BY <1>1, <2>3, RequestTypes DEF At
    <3>2. s2 \in RequestStates /\ LocalOK(s2, usedLines)
      BY <2>1, <3>1 DEF RequestStates, LocalOK
    <3> HIDE DEF s2
    <3> QED BY <2>1, <2>3, <3>2, LocalStep
  <2> QED BY <1>12, <2>2, <2>3 DEF ClearDefaults
<1> QED BY <1>4, <1>5, <1>6, <1>7, <1>8, <1>9, <1>10, <1>11, <1>12
        DEF EditAddress

-----------------------------------------------------------------------------
(* The invariant holds.                                                    *)

LEMMA InitBase ==
    ASSUME Init
    PROVE  BaseInv
<1>1. Placed = {}
  BY DEF Init, Placed
<1>2. \A r \in Req : req[r] \in RequestStates /\ LocalOK(req[r], usedLines)
  BY DEF Init, Idle, RequestStates, LocalOK
<1>3. TypeOK
  <2>1. cart \in [Lines -> {NoLine} \cup
                           [product : Products, quantity : Quantities]]
        /\ \A l \in Lines : cart[l] = NoLine
    BY DEF Init
  <2>2. req \in [Req -> RequestStates]
    BY <1>2 DEF Init
  <2>3. offer \in [Products -> Offers]
    BY DEF Init
  <2>4. orders \in [Orders -> {NoOrder} \cup
                     [address : Addresses, lines : SUBSET OrderLines, total : Nat]]
    BY DEF Init
  <2> QED BY <2>1, <2>2, <2>3, <2>4 DEF Init, TypeOK
<1>4. IsFiniteSet(usedLines)
  BY FS_EmptySet DEF Init
<1> QED BY <1>1, <1>2, <1>3, <1>4
        DEF BaseInv, OrderedLinesAreUsed, OrderedLinesLeaveTheCart,
            OrdersCostWhatTheCartShows, OrdersHaveAnAddress

LEMMA NextBase ==
    ASSUME BaseInv, [Next]_vars
    PROVE  BaseInv'
<1>1. ASSUME NEW r \in EditReq, Edit(r)
      PROVE  BaseInv'
  <2>1. r \in Req
    BY DEF Req
  <2> QED BY <1>1, <2>1, CartBase, EditBase DEF Edit
<1>2. ASSUME NEW r \in CheckoutReq, Checkout(r)
      PROVE  BaseInv'
  <2>1. r \in Req
    BY DEF Req
  <2> QED BY <1>2, <2>1, CartBase, PlaceOrderBase DEF Checkout
<1>3. ASSUME NEW r \in AddressReq, EditAddress(r)
      PROVE  BaseInv'
  BY <1>3, AddressBase DEF Req
<1>4. ASSUME NEW r \in Req, Rollback(r)
      PROVE  BaseInv'
  BY <1>4, CartBase
<1>5. ASSUME NEW p \in Products, NEW t \in Offers, UpdateProduct(p, t)
      PROVE  BaseInv'
  <2>1. offer' \in [Products -> Offers]
    BY <1>5 DEF UpdateProduct, BaseInv, TypeOK
  <2> QED BY <1>5, <2>1, TableStep
          DEF UpdateProduct, cartVars, BaseInv, TypeOK, OrdersHaveAnAddress,
              AddressExists
<1>6. CASE UNCHANGED vars
  BY <1>6, TableStep DEF vars, BaseInv, TypeOK, OrdersHaveAnAddress, AddressExists
<1> QED BY <1>1, <1>2, <1>3, <1>4, <1>5, <1>6 DEF Next

LEMMA BaseInvariance == Spec => []BaseInv
<1> QED BY InitBase, NextBase, PTL DEF Spec

\* TypeOK: the tables and the handlers' locals have their types in every
\* state, totals being natural numbers; a line that was never inserted is not
\* in the cart.
THEOREM TypeCorrectness == Spec => []TypeOK
<1>1. BaseInv => TypeOK
  BY DEF BaseInv
<1> QED BY <1>1, BaseInvariance, PTL

\* What checkout has ordered stays out of the cart, however many edits loaded
\* the line before: update_item's UPDATE fails on the row that is gone.
THEOREM OrderedLinesStayOut == Spec => []OrderedLinesLeaveTheCart
<1>1. BaseInv => OrderedLinesLeaveTheCart
  BY DEF BaseInv
<1> QED BY <1>1, BaseInvariance, PTL

\* The total checkout computes is what compute_totals computes for the same
\* lines, for every fee, price and quantity.
THEOREM TotalsAreShown == Spec => []OrdersCostWhatTheCartShows
<1>1. BaseInv => OrdersCostWhatTheCartShows
  BY DEF BaseInv
<1> QED BY <1>1, BaseInvariance, PTL

\* The address of an order exists, although checkout looks for it before it
\* commits and delete_address may run between.
THEOREM AddressesAreKept == Spec => []OrdersHaveAnAddress
<1>1. BaseInv => OrdersHaveAnAddress
  BY DEF BaseInv
<1> QED BY <1>1, BaseInvariance, PTL
===============================================================================
