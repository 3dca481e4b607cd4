-------------------------- MODULE PipelineRacesProofs --------------------------
(***************************************************************************)
(* What the pipeline keeps whatever overlaps, for any numbers of orders,   *)
(* payments, cycles and requests: the theorems have no hypothesis about    *)
(* who runs at the same time, since PipelineRaces records the races that   *)
(* matter.  The argument is the same three times.  What a handler read of  *)
(* an order or a cycle is still so when it commits, or the order or the    *)
(* cycle is recorded as raced; so a commit of one that is not recorded is  *)
(* the step its guards meant it to be.                                     *)
(***************************************************************************)
EXTENDS PipelineRaces, OrderPipelineProofs

-----------------------------------------------------------------------------
(* Observation changes nothing: the observed pipeline is the pipeline.     *)

ObservedVars == <<vars, raceVars>>

\* The inductive invariants of OrderPipelineProofs are there to be used.
LEMMA ObservedIsPipeline == ObservedSpec => Spec /\ []BaseInv /\ []PaidInv
<1>1. ObservedInit => Init
  BY DEF ObservedInit
<1>2. [ObservedNext]_<<vars, raceVars>> => [Next]_vars
  BY DEF ObservedNext
<1>3. ObservedSpec => Spec
  BY <1>1, <1>2, PTL DEF ObservedSpec, Spec
<1> QED BY <1>3, BaseInvariance, PaidInvariance, PTL

\* What was recorded stays recorded.
LEMMA RecordsGrow ==
    ASSUME [ObservedNext]_ObservedVars
    PROVE  /\ racedOrders \subseteq racedOrders'
           /\ racedCycles \subseteq racedCycles'
           /\ late \subseteq late'
BY DEF ObservedNext, Observe, ObservedVars, raceVars

LEMMA ObservedStep ==
    ASSUME [ObservedNext]_ObservedVars
    PROVE  /\ [Next]_vars
           /\ \A o \in Orders : Overtaken(o) => o \in racedOrders'
           /\ \A c \in Cycles : Competing(c) => c \in racedCycles'
           /\ \A o \in Orders : ConfirmedTooLate(o) => o \in late'
<1>1. CASE ObservedNext
  BY <1>1 DEF ObservedNext, Observe
<1>2. CASE UNCHANGED ObservedVars
  BY <1>2 DEF ObservedVars, vars, Overtaken, Competing, ConfirmedTooLate, Opened
<1> QED BY <1>1, <1>2

-----------------------------------------------------------------------------
(* The handlers whose locals the invariants speak of.                      *)

RacePcs == {"applying", "cancel"} \cup CycleHandling

\* In a step one handler moves and the others are suspended.
LEMMA OneMoves ==
    ASSUME BaseInv, [Next]_vars
    PROVE  \/ UNCHANGED req
           \/ \E r \in Req :
                 /\ \A q \in Req : q # r => req'[q] = req[q]
                 /\ \/ req'[r].pc \notin RacePcs
                    \/ ReadOrder(r)
                    \/ \E o \in Orders, to \in {"CANCELLED", "REFUNDED"} :
                          BeginCancel(r, o, to)
                    \/ Open(r) \/ Close(r)
<1> USE DEF BaseInv, TypeOK, RacePcs, CycleHandling
<1> DEFINE Others(r) == \A q \in Req : q # r => req'[q] = req[q]
           Quiet(r)  == Others(r) /\ req'[r].pc \notin RacePcs
<1>1. ASSUME NEW r \in Req, Goto(r, Idle) PROVE Quiet(r)
  BY <1>1 DEF Goto, Idle
<1>2. ASSUME NEW r \in Req, Checkout(r) \/ Initialize(r) PROVE Quiet(r)
  BY <1>2 DEF Checkout, Initialize, ResolveLine, PlaceOrder, BeginInitialize,
     InsertPayment, Goto, Idle
<1>3. ASSUME NEW r \in Req, Verify(r)
      PROVE  Quiet(r) \/ (Others(r) /\ ReadOrder(r))
  <2>1. CASE ApplySuccess(r) \/ ApplyFailure(r)
    BY <1>1, <2>1 DEF ApplySuccess, ApplyFailure
  <2>2. CASE \E p \in Payments : LockPayment(r, p)
    BY <2>2 DEF LockPayment, Goto
  <2>3. CASE AskPaystack(r)
    BY <2>3 DEF AskPaystack, Goto
  <2>4. CASE ReadOrder(r)
    BY <2>4 DEF ReadOrder, Goto
  <2> QED BY <1>3, <2>1, <2>2, <2>3, <2>4 DEF Verify
<1>4. ASSUME NEW r \in Req, CommitCancel(r) \/ Rollback(r) PROVE Quiet(r)
  BY <1>1, <1>4 DEF CommitCancel, Rollback
<1>5. ASSUME NEW r \in Req, NEW o \in Orders,
             NEW to \in {"CANCELLED", "REFUNDED"}, BeginCancel(r, o, to)
      PROVE  Others(r)
  BY <1>5 DEF BeginCancel, Goto
<1>6. ASSUME NEW r \in Req, Open(r) \/ Close(r) PROVE Others(r)
  BY <1>6 DEF Open, Close, BeginOpen, FindNoConflict, CommitOpen, BeginClose,
     DeleteSnapshot, DeleteNothing, Aggregate, SelectOrders, CommitClose, Goto
<1> QED BY <1>2, <1>3, <1>4, <1>5, <1>6
        DEF Next, Req, Cancel, CustomerPays, vars

-----------------------------------------------------------------------------
(* The orders.  The status a handler acts on is the current one, or the    *)
(* order is recorded.                                                      *)

Fresh(r, o) ==
    /\ At(r, "applying") /\ o \in AboutToWrite(r) =>
          orderStatus[o] = "PENDING_PAYMENT"
    /\ At(r, "cancel") /\ o \in AboutToWrite(r) =>
          Lifecycle!CanMove(orderStatus[o], req[r].to)
    /\ At(r, "selected") /\ o \in AboutToWrite(r) =>
          orderStatus[o] = "CONFIRMED"

FreshInv == \A r \in Req, o \in Orders \ racedOrders : Fresh(r, o)

\* What a handler has just read is current.
LEMMA FreshReads ==
    ASSUME BaseInv, NEW r \in Req, NEW o \in Orders,
           \/ req'[r].pc \notin RacePcs
           \/ ReadOrder(r)
           \/ \E x \in Orders, to \in {"CANCELLED", "REFUNDED"} :
                 BeginCancel(r, x, to)
           \/ Open(r) \/ Close(r)
    PROVE  Fresh(r, o)'
<1> USE DEF BaseInv, TypeOK
<1>1. CASE req'[r].pc \notin {"applying", "cancel", "selected"}
  BY <1>1 DEF Fresh, At
<1>2. CASE ReadOrder(r)
  BY <1>2 DEF ReadOrder, Goto, Fresh, At, AboutToWrite, orderVars, payVars
<1>3. ASSUME NEW x \in Orders, NEW to \in {"CANCELLED", "REFUNDED"},
             BeginCancel(r, x, to)
      PROVE  Fresh(r, o)'
  <2>1. req'[r] = [pc |-> "cancel", order |-> x, to |-> to]
    BY <1>3 DEF BeginCancel, Goto
  <2>2. Lifecycle!CanMove(orderStatus[x], to) /\ orderStatus' = orderStatus
    BY <1>3 DEF BeginCancel, orderVars
  <2>3. o \in AboutToWrite(r)' => o = x
    BY <2>1 DEF AboutToWrite, At
  <2>4. Lifecycle!CanMove(orderStatus[x], to)' = Lifecycle!CanMove(orderStatus[x], to)
    BY <2>2 DEF Lifecycle!CanMove
  <2> QED BY <2>1, <2>2, <2>3, <2>4 DEF Fresh, At
<1>4. CASE SelectOrders(r)
  BY <1>4 DEF SelectOrders, Goto, Fresh, At, AboutToWrite, FullyInCycle, orderVars
<1>5. CASE Open(r) \/ (Close(r) /\ ~SelectOrders(r))
  <2>1. req'[r].pc \notin {"applying", "cancel", "selected"}
    BY <1>5 DEF Open, Close, BeginOpen, FindNoConflict, CommitOpen, BeginClose,
       DeleteSnapshot, DeleteNothing, Aggregate, CommitClose, Goto, Idle
  <2> QED BY <1>1, <2>1
<1> QED BY <1>1, <1>2, <1>3, <1>4, <1>5 DEF RacePcs, CycleHandling

\* A suspended handler is overtaken or finds the order as it was.
LEMMA FreshSuspended ==
    ASSUME BaseInv, [ObservedNext]_ObservedVars, NEW q \in Req, req'[q] = req[q],
           NEW o \in Orders, o \notin racedOrders', Fresh(q, o)
    PROVE  Fresh(q, o)'
<1> USE DEF BaseInv, TypeOK
<1>1. o \in AboutToWrite(q)' => o \in AboutToWrite(q)
  <2>1. CASE At(q, "applying")
    <3>1. /\ req[q].payment \in Payments
          /\ payStatus[req[q].payment] = "PENDING"
      BY <2>1, LocalsType DEF At, Holds, LockInv, LockedPaymentsArePending
    <3>2. payOrder'[req[q].payment] = payOrder[req[q].payment]
      BY <3>1, ObservedStep, PaymentStep
    <3> QED BY <3>2 DEF AboutToWrite, At
  <2>2. CASE ~At(q, "applying")
    BY <2>2 DEF AboutToWrite, At
  <2> QED BY <2>1, <2>2
<1>2. o \in AboutToWrite(q) => orderStatus'[o] = orderStatus[o]
  BY ObservedStep DEF Overtaken, Suspended
<1> QED BY <1>1, <1>2 DEF Fresh, At

LEMMA FreshInvariance == ObservedSpec => []FreshInv
<1>1. ObservedInit => FreshInv
  BY DEF ObservedInit, Init, FreshInv, Fresh, At, Idle
<1>2. BaseInv /\ FreshInv /\ [ObservedNext]_ObservedVars => FreshInv'
  <2> SUFFICES ASSUME BaseInv, FreshInv, [ObservedNext]_ObservedVars,
                      NEW q \in Req, NEW o \in Orders, o \notin racedOrders'
               PROVE  Fresh(q, o)'
    BY DEF FreshInv
  <2>1. Fresh(q, o)
    BY RecordsGrow DEF FreshInv
  <2>2. CASE req'[q] = req[q]
    BY <2>1, <2>2, FreshSuspended
  <2>3. CASE req'[q] # req[q]
    BY <2>3, OneMoves, ObservedStep, FreshReads
  <2> QED BY <2>2, <2>3
<1> QED BY <1>1, <1>2, ObservedIsPipeline, PTL DEF ObservedSpec, ObservedVars

\* What the four commits that write orders do to them: the moves their guards
\* allow, but for the orders they have raced for.
MovedFrom(o, from) == orderStatus[o] = from \/ o \in racedOrders

Placed(o) == orderStatus[o] # "NotPlaced"

LEMMA OrderCommits ==
    ASSUME BaseInv, PaidInv, FreshInv, [Next]_vars
    PROVE  \/ UNCHANGED <<orderStatus, history>>
           \/ \E o \in Orders :
                 /\ orderStatus[o] = "NotPlaced"
                 /\ orderStatus' = [orderStatus EXCEPT ![o] = "PENDING_PAYMENT"]
                 /\ history' = [history EXCEPT ![o] = <<"PENDING_PAYMENT">>]
           \/ \E o \in Orders :
                 /\ Placed(o) /\ MovedFrom(o, "PENDING_PAYMENT")
                 /\ orderStatus' = [orderStatus EXCEPT ![o] = "CONFIRMED"]
                 /\ history' = [history EXCEPT ![o] = @ \o <<"PAID", "CONFIRMED">>]
           \/ \E o \in Orders, to \in {"CANCELLED", "REFUNDED"} :
                 /\ Placed(o)
                 /\ Lifecycle!CanMove(orderStatus[o], to) \/ o \in racedOrders
                 /\ orderStatus' = [orderStatus EXCEPT ![o] = to]
                 /\ history' = [history EXCEPT ![o] = Append(@, to)]
           \/ \E S \in SUBSET Orders :
                 /\ \A o \in S : Placed(o) /\ MovedFrom(o, "CONFIRMED")
                 /\ orderStatus' = [o \in Orders |->
                        IF o \in S THEN "PROCUREMENT" ELSE orderStatus[o]]
                 /\ history' = [o \in Orders |->
                        IF o \in S
                        THEN history[o] \o <<"AGGREGATING", "PROCUREMENT">>
                        ELSE history[o]]
<1> USE DEF BaseInv, TypeOK, Placed, MovedFrom
<1>1. ASSUME NEW r \in Req, NEW o \in Orders, PlaceOrder(r, o)
      PROVE  /\ orderStatus[o] = "NotPlaced"
             /\ orderStatus' = [orderStatus EXCEPT ![o] = "PENDING_PAYMENT"]
             /\ history' = [history EXCEPT ![o] = <<"PENDING_PAYMENT">>]
  BY <1>1 DEF PlaceOrder
<1>2. ASSUME NEW r \in Req, ApplySuccess(r)
      PROVE  \/ UNCHANGED <<orderStatus, history>>
             \/ \E o \in Orders :
                   /\ Placed(o) /\ MovedFrom(o, "PENDING_PAYMENT")
                   /\ orderStatus' = [orderStatus EXCEPT ![o] = "CONFIRMED"]
                   /\ history' = [history EXCEPT ![o] = @ \o <<"PAID", "CONFIRMED">>]
  <2>1. CASE req[r].seen # "PENDING_PAYMENT"
    BY <1>2, <2>1 DEF ApplySuccess
  <2>2. CASE req[r].seen = "PENDING_PAYMENT"
    <3>1. req[r].payment \in Payments
      BY <1>2, LocalsType DEF ApplySuccess, At
    <3>2. PICK o \in Orders : o = payOrder[req[r].payment]
      BY <1>2, <3>1 DEF ApplySuccess, At, Holds, LockInv,
         LockedPaymentsArePending, PaymentRowsHaveOrder
    <3>3. Placed(o)
      BY <3>1, <3>2 DEF PaidInv, PaymentsAreOfPlacedOrders
    <3>4. MovedFrom(o, "PENDING_PAYMENT")
      BY <1>2, <2>2, <3>2 DEF ApplySuccess, At, FreshInv, Fresh, AboutToWrite
    <3> QED BY <1>2, <2>2, <3>2, <3>3, <3>4 DEF ApplySuccess
  <2> QED BY <2>1, <2>2
<1>3. ASSUME NEW r \in Req, CommitCancel(r)
      PROVE  \E o \in Orders, to \in {"CANCELLED", "REFUNDED"} :
                /\ Placed(o)
                /\ Lifecycle!CanMove(orderStatus[o], to) \/ o \in racedOrders
                /\ orderStatus' = [orderStatus EXCEPT ![o] = to]
                /\ history' = [history EXCEPT ![o] = Append(@, to)]
  <2>1. PICK o \in Orders, to \in {"CANCELLED", "REFUNDED"} :
           o = req[r].order /\ to = req[r].to
    BY <1>3, LocalsType DEF CommitCancel, At
  <2>2. Placed(o)
    BY <1>3, <2>1 DEF CommitCancel, At, PaidInv, LocalsPaid
  <2>3. Lifecycle!CanMove(orderStatus[o], to) \/ o \in racedOrders
    BY <1>3, <2>1 DEF CommitCancel, At, FreshInv, Fresh, AboutToWrite
  <2> QED BY <1>3, <2>1, <2>2, <2>3 DEF CommitCancel
<1>4. ASSUME NEW r \in Req, CommitClose(r)
      PROVE  \E S \in SUBSET Orders :
                /\ \A o \in S : Placed(o) /\ MovedFrom(o, "CONFIRMED")
                /\ orderStatus' = [o \in Orders |->
                       IF o \in S THEN "PROCUREMENT" ELSE orderStatus[o]]
                /\ history' = [o \in Orders |->
                       IF o \in S
                       THEN history[o] \o <<"AGGREGATING", "PROCUREMENT">>
                       ELSE history[o]]
  <2>1. PICK S \in SUBSET Orders : S = req[r].moving
    BY <1>4, LocalsType DEF CommitClose, At
  <2>2. \A o \in S : Placed(o)
    BY <1>4, <2>1, PaidArePlaced DEF CommitClose, At, PaidInv, LocalsPaid
  <2>3. \A o \in S : MovedFrom(o, "CONFIRMED")
    BY <1>4, <2>1 DEF CommitClose, At, FreshInv, Fresh, AboutToWrite
  <2> QED BY <1>4, <2>1, <2>2, <2>3 DEF CommitClose
<1> QED BY <1>1, <1>2, <1>3, <1>4, OrderWriters DEF Req, orderVars

\* So each of them is a step of the order state machine.
LEMMA OrderSimulation ==
    ASSUME BaseInv, PaidInv, FreshInv, [ObservedNext]_ObservedVars
    PROVE  [RacedLifecycle!Next]_(RacedLifecycle!vars)
<1> USE DEF BaseInv, TypeOK, Placed, MovedFrom, RacedLifecycle!MayMove
<1> DEFINE Moves == \/ \E o \in Orders : RacedLifecycle!Place(o)
                    \/ \E o \in Orders : RacedLifecycle!Confirm(o)
                    \/ \E S \in SUBSET Orders : RacedLifecycle!Procure(S)
                    \/ \E o \in Orders, to \in {"CANCELLED", "REFUNDED"} :
                          RacedLifecycle!Withdraw(o, to)
<1>1. ASSUME NEW o \in Orders, orderStatus[o] = "NotPlaced",
             orderStatus' = [orderStatus EXCEPT ![o] = "PENDING_PAYMENT"]
      PROVE  Moves
  BY <1>1 DEF RacedLifecycle!Place
<1>2. ASSUME NEW o \in Orders, Placed(o), MovedFrom(o, "PENDING_PAYMENT"),
             orderStatus' = [orderStatus EXCEPT ![o] = "CONFIRMED"]
      PROVE  Moves
  <2>1. RacedLifecycle!Confirm(o)
    BY <1>2 DEF RacedLifecycle!Confirm, RacedLifecycle!CanMove,
       RacedLifecycle!AllowedTransitions
  <2> QED BY <2>1
<1>3. ASSUME NEW o \in Orders, NEW to \in {"CANCELLED", "REFUNDED"}, Placed(o),
             Lifecycle!CanMove(orderStatus[o], to) \/ o \in racedOrders,
             orderStatus' = [orderStatus EXCEPT ![o] = to]
      PROVE  Moves
  <2>1. RacedLifecycle!CanMove(orderStatus[o], to) =
           Lifecycle!CanMove(orderStatus[o], to)
    BY DEF RacedLifecycle!CanMove, RacedLifecycle!AllowedTransitions,
       Lifecycle!CanMove, Lifecycle!AllowedTransitions
  <2>2. RacedLifecycle!Withdraw(o, to)
    BY <1>3, <2>1 DEF RacedLifecycle!Withdraw
  <2> QED BY <2>2
<1>4. ASSUME NEW S \in SUBSET Orders,
             \A o \in S : Placed(o) /\ MovedFrom(o, "CONFIRMED"),
             orderStatus' = [o \in Orders |->
                 IF o \in S THEN "PROCUREMENT" ELSE orderStatus[o]]
      PROVE  Moves
  <2>1. RacedLifecycle!Procure(S)
    BY <1>4 DEF RacedLifecycle!Procure, RacedLifecycle!CanMove,
       RacedLifecycle!AllowedTransitions
  <2> QED BY <2>1
<1>5. UNCHANGED orderStatus \/ Moves
  BY <1>1, <1>2, <1>3, <1>4, ObservedStep, OrderCommits
<1>6. racedOrders \subseteq racedOrders'
  BY RecordsGrow
<1>7. UNCHANGED orderStatus => UNCHANGED racedOrders
  BY DEF ObservedNext, Observe, Overtaken, ObservedVars, raceVars
<1> HIDE DEF Moves
<1>8. Moves /\ racedOrders \subseteq racedOrders' => RacedLifecycle!Next
  BY DEF Moves, RacedLifecycle!Next
<1> QED BY <1>5, <1>6, <1>7, <1>8 DEF RacedLifecycle!vars

\* Every commit of a status is one ALLOWED_TRANSITIONS permits, or is of an
\* order that changed while the handler that writes it was suspended.
THEOREM OrdersImplementLifecycle == ObservedSpec => ImplementsLifecycle
<1>1. ObservedInit => RacedLifecycle!Init
  BY DEF ObservedInit, Init, RacedLifecycle!Init
<1>2. BaseInv /\ PaidInv /\ FreshInv /\ [ObservedNext]_ObservedVars =>
         [RacedLifecycle!Next]_(RacedLifecycle!vars)
  BY OrderSimulation
<1> QED BY <1>1, <1>2, ObservedIsPipeline, FreshInvariance, PTL
        DEF ObservedSpec, ObservedVars, ImplementsLifecycle, RacedLifecycle!Spec

-----------------------------------------------------------------------------
(* The recorded history, which has the intermediate statuses the table     *)
(* never shows: it is a path, and it ends in the current status.           *)

IsPath(h) ==
    \A i \in DOMAIN h : IF i = 1 THEN h[i] = "PENDING_PAYMENT"
                                 ELSE Lifecycle!CanMove(h[i - 1], h[i])

LeadsTo(h, status) == IsPath(h) /\ h # <<>> /\ h[Len(h)] = status

HistoryInv ==
    \A o \in Orders \ racedOrders :
        /\ IsPath(history[o])
        /\ orderStatus[o] # "NotPlaced" => LeadsTo(history[o], orderStatus[o])

\* One more entry extends a path if the move from its end is allowed.
LEMMA PathAppend ==
    ASSUME NEW S, NEW h \in Seq(S), NEW from, LeadsTo(h, from),
           NEW to \in S, Lifecycle!CanMove(from, to)
    PROVE  Append(h, to) \in Seq(S) /\ LeadsTo(Append(h, to), to)
<1> DEFINE g == Append(h, to)
<1>1. /\ g \in Seq(S) /\ Len(g) = Len(h) + 1 /\ DOMAIN g = 1 .. Len(g)
      /\ g[Len(g)] = to
      /\ \A i \in 1 .. Len(h) : g[i] = h[i]
  OBVIOUS
<1>2. Len(h) \in Nat \ {0} /\ DOMAIN h = 1 .. Len(h)
  BY DEF LeadsTo
<1> HIDE DEF g
<1>3. IsPath(g)
  <2> SUFFICES ASSUME NEW i \in 1 .. Len(g)
               PROVE  IF i = 1 THEN g[i] = "PENDING_PAYMENT"
                               ELSE Lifecycle!CanMove(g[i - 1], g[i])
    BY <1>1 DEF IsPath
  <2>1. CASE i \in 1 .. Len(h)
    <3>1. g[i] = h[i] /\ (i # 1 => g[i - 1] = h[i - 1])
      BY <1>1, <1>2, <2>1
    <3> QED BY <1>2, <2>1, <3>1 DEF LeadsTo, IsPath
  <2>2. CASE i = Len(g)
    BY <1>1, <1>2, <2>2 DEF LeadsTo
  <2> QED BY <1>1, <1>2, <2>1, <2>2
<1>4. g # <<>>
  BY <1>1, <1>2
<1> QED BY <1>1, <1>3, <1>4 DEF LeadsTo, g

LEMMA PathAppendTwo ==
    ASSUME NEW S, NEW h \in Seq(S), NEW from, LeadsTo(h, from),
           NEW via \in S, NEW to \in S,
           Lifecycle!CanMove(from, via), Lifecycle!CanMove(via, to)
    PROVE  LeadsTo(h \o <<via, to>>, to)
<1>1. Append(h, via) \in Seq(S) /\ LeadsTo(Append(h, via), via)
  BY PathAppend
<1>2. LeadsTo(Append(Append(h, via), to), to)
  BY <1>1, PathAppend
<1>3. h \o <<via, to>> = Append(Append(h, via), to)
  OBVIOUS
<1> QED BY <1>2, <1>3

LEMMA HistoryStep ==
    ASSUME BaseInv, PaidInv, FreshInv, HistoryInv, [ObservedNext]_ObservedVars
    PROVE  HistoryInv'
<1> USE DEF BaseInv, TypeOK
<1> SUFFICES ASSUME NEW o \in Orders \ racedOrders
             PROVE  \/ UNCHANGED <<orderStatus, history>>
                    \/ orderStatus'[o] = orderStatus[o] /\ history'[o] = history[o]
                    \/ LeadsTo(history'[o], orderStatus'[o])
  BY RecordsGrow DEF HistoryInv, LeadsTo, IsPath
<1>1. /\ history[o] \in Seq(Lifecycle!OrderStatuses)
      /\ orderStatus[o] # "NotPlaced" => LeadsTo(history[o], orderStatus[o])
  BY DEF HistoryInv
<1>2. ASSUME orderStatus[o] = "NotPlaced", orderStatus'[o] = "PENDING_PAYMENT",
             history'[o] = <<"PENDING_PAYMENT">>
      PROVE  LeadsTo(history'[o], orderStatus'[o])
  BY <1>2 DEF LeadsTo, IsPath
<1>3. ASSUME orderStatus[o] = "PENDING_PAYMENT", orderStatus'[o] = "CONFIRMED",
             history'[o] = history[o] \o <<"PAID", "CONFIRMED">>
      PROVE  LeadsTo(history'[o], orderStatus'[o])
  <2>1. /\ Lifecycle!CanMove("PENDING_PAYMENT", "PAID")
        /\ Lifecycle!CanMove("PAID", "CONFIRMED")
        /\ {"PAID", "CONFIRMED"} \subseteq Lifecycle!OrderStatuses
    BY DEF Lifecycle!CanMove, Lifecycle!AllowedTransitions,
       Lifecycle!OrderStatuses
  <2> QED BY <1>1, <1>3, <2>1, PathAppendTwo
<1>4. ASSUME NEW to \in {"CANCELLED", "REFUNDED"},
             Lifecycle!CanMove(orderStatus[o], to), orderStatus'[o] = to,
             history'[o] = Append(history[o], to)
      PROVE  LeadsTo(history'[o], orderStatus'[o])
  <2>1. orderStatus[o] # "NotPlaced" /\ to \in Lifecycle!OrderStatuses
    BY <1>4 DEF Lifecycle!CanMove, Lifecycle!AllowedTransitions,
       Lifecycle!OrderStatuses
  <2> QED BY <1>1, <1>4, <2>1, PathAppend
<1>5. ASSUME orderStatus[o] = "CONFIRMED", orderStatus'[o] = "PROCUREMENT",
             history'[o] = history[o] \o <<"AGGREGATING", "PROCUREMENT">>
      PROVE  LeadsTo(history'[o], orderStatus'[o])
  <2>1. /\ Lifecycle!CanMove("CONFIRMED", "AGGREGATING")
        /\ Lifecycle!CanMove("AGGREGATING", "PROCUREMENT")
        /\ {"AGGREGATING", "PROCUREMENT"} \subseteq Lifecycle!OrderStatuses
    BY DEF Lifecycle!CanMove, Lifecycle!AllowedTransitions,
       Lifecycle!OrderStatuses
  <2> QED BY <1>1, <1>5, <2>1, PathAppendTwo
<1> QED BY <1>2, <1>3, <1>4, <1>5, ObservedStep, OrderCommits
        DEF Placed, MovedFrom

\* The history of an order is a path of ALLOWED_TRANSITIONS, the intermediate
\* entries of a payment and of a closing included, until a race is recorded.
THEOREM HistoryFollowsTransitions ==
    ObservedSpec => []UnracedHistoryIsAllowedPath
<1>1. ObservedInit => HistoryInv
  BY DEF ObservedInit, Init, HistoryInv, IsPath
<1>2. BaseInv /\ PaidInv /\ FreshInv /\ HistoryInv
        /\ [ObservedNext]_ObservedVars => HistoryInv'
  BY HistoryStep
<1>3. HistoryInv => UnracedHistoryIsAllowedPath
  BY DEF HistoryInv, IsPath, UnracedHistoryIsAllowedPath
<1> QED BY <1>1, <1>2, <1>3, ObservedIsPipeline, FreshInvariance, PTL
        DEF ObservedSpec, ObservedVars

-----------------------------------------------------------------------------
(* The abstract cycles, whatever implements them.  The three facts are     *)
(* inductive together: an opening looks at every other cycle of the        *)
(* category, a closing writes the snapshot with the status.                *)

AbstractInv == /\ RacedCycleLife!Types /\ RacedCycleLife!OneOpenPerCategory
               /\ RacedCycleLife!OnlyClosedAreCounted

LEMMA AbstractStep ==
    ASSUME AbstractInv, [RacedCycleLife!Next]_(RacedCycleLife!vars)
    PROVE  AbstractInv'
<1> USE DEF AbstractInv, RacedCycleLife!Types,
            RacedCycleLife!OneOpenPerCategory,
            RacedCycleLife!OnlyClosedAreCounted
<1>1. ASSUME NEW c \in Cycles, RacedCycleLife!Open(c),
             racedCycles \subseteq racedCycles'
      PROVE  AbstractInv'
  BY <1>1 DEF RacedCycleLife!Open
<1>2. ASSUME NEW c \in Cycles, NEW S \in SUBSET Orders,
             RacedCycleLife!Close(c, S), racedCycles \subseteq racedCycles'
      PROVE  AbstractInv'
  BY <1>2 DEF RacedCycleLife!Close
<1>3. CASE UNCHANGED RacedCycleLife!vars
  BY <1>3 DEF RacedCycleLife!vars
<1> QED BY <1>1, <1>2, <1>3 DEF RacedCycleLife!Next

LEMMA AbstractInvariance == RacedCycleLife!Spec => []AbstractInv
<1>1. RacedCycleLife!Init => AbstractInv
  BY DEF RacedCycleLife!Init, AbstractInv, RacedCycleLife!Types,
     RacedCycleLife!OneOpenPerCategory, RacedCycleLife!OnlyClosedAreCounted
<1>2. AbstractInv /\ [RacedCycleLife!Next]_(RacedCycleLife!vars) => AbstractInv'
  BY AbstractStep
<1> QED BY <1>1, <1>2, PTL DEF RacedCycleLife!Spec

\* In CycleLifecycle a closed cycle nobody raced for is not reopened and its
\* quantities are not rewritten.
LEMMA ClosedCyclesStay ==
    RacedCycleLife!Spec =>
        [][\A c \in Cycles \ racedCycles : cycleStatus[c] = "CLOSED" =>
              /\ cycleStatus'[c] = "CLOSED"
              /\ snapshot'[c] = snapshot[c]]_cycleVars
<1>1. AbstractInv /\ [RacedCycleLife!Next]_(RacedCycleLife!vars) =>
        [\A c \in Cycles \ racedCycles : cycleStatus[c] = "CLOSED" =>
            /\ cycleStatus'[c] = "CLOSED"
            /\ snapshot'[c] = snapshot[c]]_cycleVars
  BY DEF AbstractInv, RacedCycleLife!Types, RacedCycleLife!Next,
     RacedCycleLife!Open, RacedCycleLife!Close, RacedCycleLife!vars, cycleVars
<1> QED BY <1>1, AbstractInvariance, PTL DEF RacedCycleLife!Spec

-----------------------------------------------------------------------------
(* The cycles.  What an opening or a closing has read about its cycle is   *)
(* still so when it commits, or the cycle is recorded.                     *)

Known(r, c) ==
    AtWorkOn(r, c) =>
        /\ req[r].pc \in {"opening", "openable"} => cycleStatus[c] = "DRAFT"
        /\ req[r].pc = "openable" => OpenIn(Category[c]) = {}
        /\ req[r].pc \in {"closing", "cleared", "aggregated", "selected"} =>
              cycleStatus[c] = "OPEN"

CycleInv ==
    /\ RacedCycleLife!OnlyClosedAreCounted
    /\ \A r \in Req, c \in Cycles \ racedCycles : Known(r, c)

\* What a handler of open_cycle or close_cycle knows after it has read.
LEMMA CycleReads ==
    ASSUME BaseInv, NEW r \in Req, NEW c \in Cycles, Known(r, c),
           Open(r) \/ Close(r)
    PROVE  Known(r, c)'
<1> USE DEF BaseInv, TypeOK, Known, AtWorkOn, CycleHandling
<1>1. ASSUME NEW d \in Cycles, BeginOpen(r, d) \/ BeginClose(r, d)
      PROVE  Known(r, c)'
  BY <1>1 DEF BeginOpen, BeginClose, Goto, cycleVars
<1>2. CASE FindNoConflict(r)
  BY <1>2, LocalsType DEF FindNoConflict, Goto, At, OpenIn, cycleVars
<1>3. CASE DeleteSnapshot(r) \/ DeleteNothing(r) \/ Aggregate(r) \/ SelectOrders(r)
  BY <1>3 DEF DeleteSnapshot, DeleteNothing, Aggregate, SelectOrders, Goto, At,
     cycleVars
<1>4. CASE CommitOpen(r) \/ CommitClose(r)
  <2>1. Goto(r, Idle)
    BY <1>4 DEF CommitOpen, CommitClose
  <2> QED BY <2>1 DEF Goto, Idle
<1> QED BY <1>1, <1>2, <1>3, <1>4 DEF Open, Close

\* A suspended handler finds its cycle, and its category, as they were.
LEMMA CycleSuspended ==
    ASSUME BaseInv, [ObservedNext]_ObservedVars, NEW q \in Req, req'[q] = req[q],
           NEW c \in Cycles, c \notin racedCycles', Known(q, c)
    PROVE  Known(q, c)'
<1> SUFFICES ASSUME AtWorkOn(q, c) PROVE Known(q, c)'
  BY DEF Known, AtWorkOn
<1>1. ~Competing(c)
  BY ObservedStep
<1>2. cycleStatus'[c] = cycleStatus[c]
  BY <1>1 DEF Competing, Suspended
<1>3. req[q].pc = "openable" =>
        \A d \in Cycles : Category[d] = Category[c] => ~Opened(d)
  BY <1>1 DEF Competing, Suspended, At
<1> QED BY <1>2, <1>3 DEF Known, AtWorkOn, Opened, OpenIn

LEMMA CycleInvStep ==
    ASSUME BaseInv, CycleInv, [ObservedNext]_ObservedVars
    PROVE  CycleInv'
<1> USE DEF BaseInv, TypeOK
<1>1. ASSUME NEW q \in Req, NEW c \in Cycles, c \notin racedCycles'
      PROVE  Known(q, c)'
  <2>1. Known(q, c)
    BY <1>1, RecordsGrow DEF CycleInv
  <2>2. CASE req'[q] = req[q]
    BY <1>1, <2>1, <2>2, CycleSuspended
  <2>3. CASE Open(q) \/ Close(q)
    BY <2>1, <2>3, CycleReads
  <2>4. CASE req'[q].pc \notin CycleHandling
    BY <2>4 DEF Known, AtWorkOn
  <2>5. CASE ReadOrder(q) \/ \E o \in Orders, to \in {"CANCELLED", "REFUNDED"} :
                               BeginCancel(q, o, to)
    <3>1. req'[q].pc \in {"applying", "cancel"}
      BY <2>5 DEF ReadOrder, BeginCancel, Goto
    <3> QED BY <2>4, <3>1 DEF CycleHandling
  <2> QED BY <2>2, <2>3, <2>4, <2>5, OneMoves, ObservedStep DEF RacePcs
<1>2. ASSUME NEW c \in Cycles, c \notin racedCycles', snapshot'[c] # {}
      PROVE  cycleStatus'[c] = "CLOSED"
  <2>1. c \notin racedCycles
    BY <1>2, RecordsGrow
  <2>2. snapshot[c] # {} => cycleStatus[c] = "CLOSED"
    BY <2>1 DEF CycleInv, RacedCycleLife!OnlyClosedAreCounted
  <2>3. CASE UNCHANGED cycleVars
    BY <1>2, <2>2, <2>3 DEF cycleVars
  <2>4. ASSUME NEW r \in AdminReq, CommitOpen(r)
        PROVE  cycleStatus'[c] = "CLOSED"
    <3>1. req[r].cycle = c => cycleStatus[c] = "DRAFT"
      BY <2>1, <2>4 DEF CommitOpen, At, Req, CycleInv, Known, AtWorkOn,
         CycleHandling
    <3> QED BY <1>2, <2>2, <2>4, <3>1 DEF CommitOpen
  <2>5. ASSUME NEW r \in AdminReq, CommitClose(r)
        PROVE  cycleStatus'[c] = "CLOSED"
    BY <1>2, <2>2, <2>5 DEF CommitClose
  <2> QED BY <2>3, <2>4, <2>5, ObservedStep, CycleWriters
<1> QED BY <1>1, <1>2 DEF CycleInv, RacedCycleLife!OnlyClosedAreCounted

LEMMA CycleInvariance == ObservedSpec => []CycleInv
<1>1. ObservedInit => CycleInv
  BY DEF ObservedInit, Init, CycleInv, RacedCycleLife!OnlyClosedAreCounted,
     Known, AtWorkOn, CycleHandling, Idle
<1>2. BaseInv /\ CycleInv /\ [ObservedNext]_ObservedVars => CycleInv'
  BY CycleInvStep
<1> QED BY <1>1, <1>2, ObservedIsPipeline, PTL DEF ObservedSpec, ObservedVars

\* Every step of the handlers is an opening, a closing or a stutter.
LEMMA CycleSimulation ==
    ASSUME BaseInv, CycleInv, [ObservedNext]_ObservedVars
    PROVE  [RacedCycleLife!Next]_(RacedCycleLife!vars)
<1> USE DEF BaseInv, TypeOK
<1>1. racedCycles \subseteq racedCycles'
  BY RecordsGrow
<1>2. CASE UNCHANGED cycleVars
  BY <1>2 DEF ObservedNext, Observe, Competing, Opened, ObservedVars, raceVars,
     cycleVars, RacedCycleLife!vars
<1>3. ASSUME NEW r \in AdminReq, CommitOpen(r) PROVE RacedCycleLife!Next
  <2>1. PICK c \in Cycles : c = req[r].cycle
    BY <1>3, LocalsType DEF CommitOpen, At, Req
  <2>2. \/ c \in racedCycles
        \/ cycleStatus[c] = "DRAFT" /\ OpenIn(Category[c]) = {}
    BY <1>3, <2>1 DEF CommitOpen, At, Req, CycleInv, Known, AtWorkOn,
       CycleHandling
  <2>3. RacedCycleLife!Open(c)
    BY <1>3, <2>1, <2>2 DEF CommitOpen, RacedCycleLife!Open, OpenIn
  <2> QED BY <1>1, <2>3 DEF RacedCycleLife!Next
<1>4. ASSUME NEW r \in AdminReq, CommitClose(r) PROVE RacedCycleLife!Next
  <2>1. PICK c \in Cycles : c = req[r].cycle
    BY <1>4, LocalsType DEF CommitClose, At, Req
  <2>2. PICK S \in SUBSET Orders : snapshot' = [snapshot EXCEPT ![c] = S]
    <3>1. req[r].counted \in SUBSET Orders
      BY <1>4, LocalsType DEF CommitClose, At, Req
    <3> QED BY <1>4, <2>1, <3>1 DEF CommitClose
  <2>3. c \in racedCycles \/ cycleStatus[c] = "OPEN"
    BY <1>4, <2>1 DEF CommitClose, At, Req, CycleInv, Known, AtWorkOn,
       CycleHandling
  <2>4. RacedCycleLife!Close(c, S)
    BY <1>4, <2>1, <2>2, <2>3 DEF CommitClose, RacedCycleLife!Close
  <2> QED BY <1>1, <2>4 DEF RacedCycleLife!Next
<1> QED BY <1>2, <1>3, <1>4, ObservedStep, CycleWriters

\* Whoever opens, closes and orders meanwhile, an opening and a closing amount
\* to one step of the abstract cycle each, but for the cycles competed for.
THEOREM CyclesImplementLifecycle == ObservedSpec => ImplementsCycleLifecycle
<1>1. ObservedInit => RacedCycleLife!Init
  BY DEF ObservedInit, Init, RacedCycleLife!Init
<1>2. BaseInv /\ CycleInv /\ [ObservedNext]_ObservedVars =>
         [RacedCycleLife!Next]_(RacedCycleLife!vars)
  BY CycleSimulation
<1> QED BY <1>1, <1>2, ObservedIsPipeline, CycleInvariance, PTL
        DEF ObservedSpec, ObservedVars, ImplementsCycleLifecycle,
            RacedCycleLife!Spec

\* So of two cycles of a category that are open at once, one was opened or
\* closed under another request's hands: nothing else leads checkout's query
\* for the open cycle of a category to two.
THEOREM OpenTwinsHaveRaced == ObservedSpec => []RacedCycleLife!OneOpenPerCategory
<1>1. AbstractInv => RacedCycleLife!OneOpenPerCategory
  BY DEF AbstractInv
<1> QED BY <1>1, CyclesImplementLifecycle, AbstractInvariance, PTL
        DEF ImplementsCycleLifecycle

\* Nor is a closed cycle opened again or its quantities rewritten, unless a
\* request was at work on it when it changed.
THEOREM ClosedCyclesAreFinal ==
    ObservedSpec =>
        [][\A c \in Cycles \ racedCycles : cycleStatus[c] = "CLOSED" =>
              /\ cycleStatus'[c] = "CLOSED"
              /\ snapshot'[c] = snapshot[c]]_cycleVars
<1> QED BY CyclesImplementLifecycle, ClosedCyclesStay, PTL
        DEF ImplementsCycleLifecycle

-----------------------------------------------------------------------------
(* Orders in procurement.  The orders a closing has selected may be        *)
(* cancelled or refunded before it commits, but they stay placed, with the *)
(* same lines.                                                             *)

LocalsMoving(s) ==
    s.pc = "selected" =>
        \A o \in s.moving :
            orderStatus[o] # "NotPlaced" /\ orderCycles[o] = {s.cycle}

MovingInv ==
    /\ ProcuredOrdersAreInClosedCycle
    /\ \A r \in Req : LocalsMoving(req[r])

LEMMA SelectedStayWhole ==
    ASSUME BaseInv, [Next]_vars, NEW s \in RequestStates, LocalsMoving(s)
    PROVE  LocalsMoving(s)'
BY LocalsType, OrderStep DEF LocalsMoving

\* Only close_cycle moves an order to PROCUREMENT.
LEMMA ProcurementWriters ==
    ASSUME BaseInv, [Next]_vars, NEW o \in Orders,
           orderStatus'[o] = "PROCUREMENT"
    PROVE  \/ orderStatus[o] = "PROCUREMENT"
           \/ \E r \in AdminReq : CommitClose(r) /\ o \in req[r].moving
<1> USE DEF BaseInv, TypeOK
<1>1. ASSUME NEW r \in Req, NEW x \in Orders, PlaceOrder(r, x)
      PROVE  orderStatus[o] = "PROCUREMENT"
  BY <1>1 DEF PlaceOrder
<1>2. ASSUME NEW r \in Req, ApplySuccess(r)
      PROVE  orderStatus[o] = "PROCUREMENT"
  BY <1>2 DEF ApplySuccess
<1>3. ASSUME NEW r \in Req, CommitCancel(r)
      PROVE  orderStatus[o] = "PROCUREMENT"
  <2>1. req[r].to \in {"CANCELLED", "REFUNDED"}
    BY <1>3, LocalsType DEF CommitCancel, At
  <2> QED BY <1>3, <2>1 DEF CommitCancel
<1>4. CASE \E r \in AdminReq : CommitClose(r)
  BY <1>4 DEF CommitClose
<1> QED BY <1>1, <1>2, <1>3, <1>4, OrderWriters DEF orderVars

\* A handler that is about to move orders has just selected them, or had.
LEMMA SelectedBySelecting ==
    ASSUME BaseInv, [Next]_vars, NEW q \in Req, req'[q].pc = "selected"
    PROVE  req'[q] = req[q] \/ SelectOrders(q)
<1>1. ASSUME req'[q] # req[q], ~SelectOrders(q) PROVE req'[q].pc # "selected"
  <2>1. CASE Open(q) \/ Close(q)
    BY <1>1, <2>1 DEF Open, Close, BeginOpen, FindNoConflict, CommitOpen,
       BeginClose, DeleteSnapshot, DeleteNothing, Aggregate, CommitClose, Goto,
       Idle, BaseInv, TypeOK
  <2>2. CASE ReadOrder(q) \/ \E o \in Orders, to \in {"CANCELLED", "REFUNDED"} :
                               BeginCancel(q, o, to)
    BY <2>2 DEF ReadOrder, BeginCancel, Goto, BaseInv, TypeOK
  <2> QED BY <1>1, <2>1, <2>2, OneMoves DEF RacePcs, CycleHandling
<1> QED BY <1>1

LEMMA MovingStep ==
    ASSUME BaseInv, CycleInv, MovingInv, [ObservedNext]_ObservedVars
    PROVE  MovingInv'
<1> USE DEF BaseInv, TypeOK
<1>1. ASSUME NEW q \in Req PROVE LocalsMoving(req[q])'
  <2>1. PICK s \in RequestStates : s = req[q] /\ LocalsMoving(s)
    BY DEF MovingInv
  <2>2. LocalsMoving(s)'
    BY <2>1, ObservedStep, SelectedStayWhole
  <2>3. CASE req'[q] = req[q]
    BY <2>1, <2>2, <2>3 DEF LocalsMoving
  <2>4. CASE req'[q].pc # "selected"
    BY <2>4 DEF LocalsMoving
  <2>5. CASE SelectOrders(q)
    BY <2>5 DEF SelectOrders, Goto, LocalsMoving, FullyInCycle, orderVars
  <2> QED BY <2>3, <2>4, <2>5, SelectedBySelecting, ObservedStep
<1>2. \A c \in Cycles : cycleStatus[c] = "CLOSED" \/ c \in racedCycles =>
                         cycleStatus'[c] = "CLOSED" \/ c \in racedCycles'
  BY CycleSimulation, RecordsGrow
     DEF RacedCycleLife!Next, RacedCycleLife!Open, RacedCycleLife!Close,
     RacedCycleLife!vars
<1>3. ASSUME NEW o \in Orders, orderStatus'[o] = "PROCUREMENT"
      PROVE  \E c \in Cycles : /\ orderCycles'[o] = {c}
                               /\ cycleStatus'[c] = "CLOSED" \/ c \in racedCycles'
  <2>1. CASE orderStatus[o] = "PROCUREMENT"
    <3>1. PICK c \in Cycles : /\ orderCycles[o] = {c}
                              /\ cycleStatus[c] = "CLOSED" \/ c \in racedCycles
      BY <2>1 DEF MovingInv, ProcuredOrdersAreInClosedCycle
    <3>2. orderCycles'[o] = orderCycles[o]
      BY <2>1, OrderStep, ObservedStep
    <3> QED BY <1>2, <3>1, <3>2
  <2>2. CASE \E r \in AdminReq : CommitClose(r) /\ o \in req[r].moving
    <3>1. PICK r \in AdminReq : CommitClose(r) /\ o \in req[r].moving
      BY <2>2
    <3>2. PICK c \in Cycles : c = req[r].cycle
      BY <3>1, LocalsType DEF CommitClose, At, Req
    <3>3. orderCycles[o] = {c}
      BY <3>1, <3>2 DEF CommitClose, At, Req, MovingInv, LocalsMoving
    <3> QED BY <3>1, <3>2, <3>3 DEF CommitClose
  <2> QED BY <1>3, <2>1, <2>2, ObservedStep, ProcurementWriters
<1> QED BY <1>1, <1>3 DEF MovingInv, ProcuredOrdersAreInClosedCycle

LEMMA MovingInvariance == ObservedSpec => []MovingInv
<1>1. ObservedInit => MovingInv
  BY DEF ObservedInit, Init, MovingInv, ProcuredOrdersAreInClosedCycle,
     LocalsMoving, Idle
<1>2. BaseInv /\ CycleInv /\ MovingInv /\ [ObservedNext]_ObservedVars => MovingInv'
  BY MovingStep
<1> QED BY <1>1, <1>2, ObservedIsPipeline, CycleInvariance, PTL
        DEF ObservedSpec, ObservedVars

\* An order that is being procured lies in one cycle, and that one is closed
\* or was reopened by a request that had read it earlier.
THEOREM ProcurementFollowsClosing ==
    ObservedSpec => []ProcuredOrdersAreInClosedCycle
<1>1. MovingInv => ProcuredOrdersAreInClosedCycle
  BY DEF MovingInv
<1> QED BY <1>1, MovingInvariance, PTL

-----------------------------------------------------------------------------
(* What is handed to procurement is counted.  Closings of one cycle may    *)
(* overlap; what keeps the rows of one from losing the orders of another   *)
(* is the lock on the rows a DELETE removed and the unique constraint on   *)
(* the rows inserted.                                                      *)

OnceCounted == {"aggregated", "selected"}

\* The orders of its cycle a closing may leave out of its own sums: those
\* confirmed too late, and those in rows it is not going to replace.
CountedFor(r, o) == o \in req[r].counted \/ o \in late

ProcuredCounted(r) ==
    req[r].pc \in OnceCounted =>
        \A o \in Orders :
            orderStatus[o] = "PROCUREMENT" /\ req[r].cycle \in orderCycles[o] =>
                \/ CountedFor(r, o)
                \/ req[r].old = "none" /\ o \in snapshot[req[r].cycle]

ConfirmedCounted(r) ==
    req[r].pc = "aggregated" =>
        \A o \in Orders :
            orderStatus[o] = "CONFIRMED" /\ req[r].cycle \in orderCycles[o] =>
                CountedFor(r, o)

MovingCounted(r) ==
    req[r].pc = "selected" => \A o \in req[r].moving : CountedFor(r, o)

OldRowsThere(r) ==
    \A c \in Cycles : HoldsOldRows(r, c) => snapshot[c] # {}

CountsWhole(r) ==
    /\ ProcuredCounted(r) /\ ConfirmedCounted(r)
    /\ MovingCounted(r) /\ OldRowsThere(r)

RowLockIsExclusive ==
    \A q, r \in Req, c \in Cycles :
        HoldsOldRows(q, c) /\ HoldsOldRows(r, c) => q = r

CountInv ==
    /\ ProcuredOrdersAreCounted
    /\ RowLockIsExclusive
    /\ \A r \in Req : CountsWhole(r)

ClosingPcs == {"cleared", "aggregated", "selected"}

\* A handler that has begun to replace a snapshot has just gone one step on,
\* or was there.
LEMMA ClosingHandlers ==
    ASSUME BaseInv, [Next]_vars, NEW q \in Req, req'[q].pc \in ClosingPcs
    PROVE  \/ req'[q] = req[q]
           \/ DeleteSnapshot(q) \/ DeleteNothing(q)
           \/ Aggregate(q) \/ SelectOrders(q)
<1>1. ASSUME req'[q] # req[q], ~(DeleteSnapshot(q) \/ DeleteNothing(q)),
             ~(Aggregate(q) \/ SelectOrders(q))
      PROVE  req'[q].pc \notin ClosingPcs
  <2> USE DEF ClosingPcs
  <2>1. CASE Open(q) \/ Close(q)
    BY <1>1, <2>1 DEF Open, Close, BeginOpen, FindNoConflict, CommitOpen,
       BeginClose, CommitClose, Goto, Idle, BaseInv, TypeOK
  <2>2. CASE ReadOrder(q) \/ \E o \in Orders, to \in {"CANCELLED", "REFUNDED"} :
                               BeginCancel(q, o, to)
    BY <2>2 DEF ReadOrder, BeginCancel, Goto, BaseInv, TypeOK
  <2> QED BY <1>1, <2>1, <2>2, OneMoves DEF RacePcs, CycleHandling
<1> QED BY <1>1

\* The reads of a closing establish what the invariant says of it.
LEMMA CountReads ==
    ASSUME BaseInv, NEW r \in Req, CountsWhole(r), UNCHANGED late,
           \/ DeleteSnapshot(r) \/ DeleteNothing(r)
           \/ Aggregate(r) \/ SelectOrders(r)
    PROVE  CountsWhole(r)'
<1> USE DEF BaseInv, TypeOK, CountsWhole, OnceCounted
<1>1. CASE DeleteSnapshot(r) \/ DeleteNothing(r)
  <2>1. req'[r].pc = "cleared"
    BY <1>1 DEF DeleteSnapshot, DeleteNothing, Goto
  <2>2. OldRowsThere(r)'
    BY <1>1 DEF DeleteSnapshot, DeleteNothing, Goto, OldRowsThere,
       HoldsOldRows, cycleVars
  <2> QED BY <2>1, <2>2 DEF ProcuredCounted, ConfirmedCounted, MovingCounted
<1>2. CASE Aggregate(r)
  <2>1. /\ req'[r] = [pc |-> "aggregated", cycle |-> req[r].cycle,
                      old |-> req[r].old, counted |-> Counted(req[r].cycle)]
        /\ UNCHANGED <<orderStatus, orderCycles, snapshot>>
    BY <1>2 DEF Aggregate, Goto, orderVars, cycleVars
  <2>2. ProcuredCounted(r)' /\ ConfirmedCounted(r)' /\ MovingCounted(r)'
    BY <2>1 DEF ProcuredCounted, ConfirmedCounted, MovingCounted, CountedFor,
       Counted
  <2>3. OldRowsThere(r)'
    BY <1>2, <2>1 DEF Aggregate, At, OldRowsThere, HoldsOldRows
  <2> QED BY <2>2, <2>3
<1>3. CASE SelectOrders(r)
  <2>1. /\ req'[r] = [pc |-> "selected", cycle |-> req[r].cycle,
                      old |-> req[r].old, counted |-> req[r].counted,
                      moving |-> FullyInCycle(req[r].cycle)]
        /\ req[r].pc = "aggregated"
        /\ UNCHANGED <<orderStatus, orderCycles, snapshot>>
    BY <1>3 DEF SelectOrders, At, Goto, orderVars, cycleVars
  <2>2. ProcuredCounted(r)' /\ ConfirmedCounted(r)'
    BY <2>1 DEF ProcuredCounted, ConfirmedCounted, CountedFor
  <2>3. MovingCounted(r)'
    BY <2>1 DEF ConfirmedCounted, MovingCounted, CountedFor, FullyInCycle
  <2>4. OldRowsThere(r)'
    BY <2>1 DEF OldRowsThere, HoldsOldRows
  <2> QED BY <2>2, <2>3, <2>4
<1> QED BY <1>1, <1>2, <1>3

\* The lock on the rows of a snapshot is taken only when nobody has it.
LEMMA RowLockStep ==
    ASSUME BaseInv, RowLockIsExclusive, [Next]_vars
    PROVE  RowLockIsExclusive'
<1> USE DEF BaseInv, TypeOK
<1>1. ASSUME NEW q \in Req, NEW c \in Cycles, HoldsOldRows(q, c)'
      PROVE  \/ HoldsOldRows(q, c)
             \/ /\ \A r \in Req : ~HoldsOldRows(r, c)
                /\ \A r \in Req : r # q => req'[r] = req[r]
  <2>1. CASE req'[q] = req[q]
    BY <1>1, <2>1 DEF HoldsOldRows
  <2>2. CASE DeleteSnapshot(q)
    BY <1>1, <2>2 DEF DeleteSnapshot, Goto, HoldsOldRows
  <2>3. CASE DeleteNothing(q)
    BY <1>1, <2>3 DEF DeleteNothing, Goto, HoldsOldRows
  <2>4. CASE Aggregate(q) \/ SelectOrders(q)
    BY <1>1, <2>4 DEF Aggregate, SelectOrders, At, Goto, HoldsOldRows
  <2> QED BY <1>1, <2>1, <2>2, <2>3, <2>4, ClosingHandlers
          DEF HoldsOldRows, ClosingPcs
<1>2. ASSUME NEW q \in Req, NEW c \in Cycles, NEW r \in Req, r # q,
             HoldsOldRows(q, c)', HoldsOldRows(r, c)'
      PROVE  FALSE
  <2>1. CASE HoldsOldRows(q, c) /\ HoldsOldRows(r, c)
    BY <1>2, <2>1 DEF RowLockIsExclusive
  <2>2. CASE ~HoldsOldRows(q, c)
    BY <1>1, <1>2, <2>2 DEF HoldsOldRows
  <2>3. CASE ~HoldsOldRows(r, c)
    BY <1>1, <1>2, <2>3 DEF HoldsOldRows
  <2> QED BY <2>1, <2>2, <2>3
<1> QED BY <1>2 DEF RowLockIsExclusive

\* Only a payment confirms an order; a confirmed or procured order keeps its
\* lines.
LEMMA AdvancedKeepLines ==
    ASSUME BaseInv, [Next]_vars, NEW o \in Orders,
           orderStatus'[o] \in {"CONFIRMED", "PROCUREMENT"}
    PROVE  orderCycles'[o] = orderCycles[o]
<1> USE DEF BaseInv, TypeOK
<1>1. ASSUME NEW r \in Req, NEW x \in Orders, PlaceOrder(r, x)
      PROVE  orderCycles'[o] = orderCycles[o]
  BY <1>1 DEF PlaceOrder
<1>2. ASSUME NEW r \in Req, ApplySuccess(r) \/ CommitCancel(r)
      PROVE  orderCycles'[o] = orderCycles[o]
  BY <1>2 DEF ApplySuccess, CommitCancel
<1>3. ASSUME NEW r \in AdminReq, CommitClose(r)
      PROVE  orderCycles'[o] = orderCycles[o]
  BY <1>3 DEF CommitClose
<1> QED BY <1>1, <1>2, <1>3, OrderWriters DEF orderVars

\* An order confirmed under a suspended closing is recorded as late.
LEMMA ConfirmedStayCounted ==
    ASSUME BaseInv, [ObservedNext]_ObservedVars,
           NEW q \in Req, req'[q] = req[q], ConfirmedCounted(q)
    PROVE  ConfirmedCounted(q)'
<1> SUFFICES ASSUME req[q].pc = "aggregated", NEW o \in Orders,
                    orderStatus'[o] = "CONFIRMED",
                    req[q].cycle \in orderCycles'[o]
             PROVE  o \in req[q].counted \/ o \in late'
  BY DEF ConfirmedCounted, CountedFor
<1>1. req[q].cycle \in orderCycles[o]
  BY ObservedStep, AdvancedKeepLines
<1>2. CASE orderStatus[o] = "CONFIRMED"
  BY <1>1, <1>2, RecordsGrow DEF ConfirmedCounted, CountedFor
<1>3. CASE orderStatus[o] # "CONFIRMED"
  BY <1>1, <1>3, ObservedStep DEF ConfirmedTooLate, Suspended, At
<1> QED BY <1>2, <1>3

\* Steps that leave the snapshots and the procured orders alone.
LEMMA CountSuspended ==
    ASSUME BaseInv, [ObservedNext]_ObservedVars, UNCHANGED snapshot,
           \A o \in Orders : orderStatus'[o] = "PROCUREMENT" =>
                                orderStatus[o] = "PROCUREMENT",
           NEW q \in Req, req'[q] = req[q], CountsWhole(q)
    PROVE  CountsWhole(q)'
<1> USE DEF CountsWhole
<1>1. ConfirmedCounted(q)'
  BY ConfirmedStayCounted
<1>2. ProcuredCounted(q)'
  BY RecordsGrow, ObservedStep, AdvancedKeepLines
     DEF ProcuredCounted, CountedFor, OnceCounted
<1>3. MovingCounted(q)'
  BY RecordsGrow DEF MovingCounted, CountedFor
<1>4. OldRowsThere(q)'
  BY DEF OldRowsThere, HoldsOldRows
<1> QED BY <1>1, <1>2, <1>3, <1>4

\* The commit of a closing: its rows replace or join those of the cycle, and
\* every order that is then in procurement is in one of them or is late.
LEMMA CloseCounts ==
    ASSUME BaseInv, MovingInv, CountInv, [ObservedNext]_ObservedVars,
           NEW r \in Req, CommitClose(r), NEW o \in Orders,
           NEW c \in orderCycles'[o], orderStatus'[o] = "PROCUREMENT"
    PROVE  o \in snapshot'[c] \/ o \in late'
<1> USE DEF BaseInv, TypeOK, CountInv, CountsWhole
<1> DEFINE d == req[r].cycle
<1>1. /\ req[r].pc = "selected" /\ d \in Cycles
      /\ req[r].old \in {"none", "deleted"}
      /\ c \in Cycles /\ c \in orderCycles[o]
  BY LocalsType DEF CommitClose, At
<1>2. snapshot' = [snapshot EXCEPT
                     ![d] = (IF req[r].old = "deleted" THEN {} ELSE snapshot[d])
                              \cup req[r].counted]
  BY DEF CommitClose
<1>3. CASE o \in req[r].moving
  <2>1. c = d
    BY <1>1, <1>3 DEF MovingInv, LocalsMoving
  <2>2. CountedFor(r, o)
    BY <1>1, <1>3 DEF MovingCounted
  <2> QED BY <1>1, <1>2, <2>1, <2>2, RecordsGrow DEF CountedFor
<1>4. CASE o \notin req[r].moving
  <2>1. orderStatus[o] = "PROCUREMENT"
    BY <1>4 DEF CommitClose
  <2>2. o \in snapshot[c] \/ o \in late
    BY <1>1, <2>1 DEF ProcuredOrdersAreCounted
  <2>3. CASE c # d
    BY <1>1, <1>2, <2>2, <2>3, RecordsGrow
  <2>4. CASE c = d
    <3>1. CountedFor(r, o) \/ (req[r].old = "none" /\ o \in snapshot[d])
      BY <1>1, <2>1, <2>4 DEF ProcuredCounted, OnceCounted
    <3> QED BY <1>1, <1>2, <2>4, <3>1, RecordsGrow DEF CountedFor
  <2> QED BY <2>3, <2>4
<1> QED BY <1>3, <1>4

\* What another closing, suspended meanwhile, still knows.
LEMMA CloseSuspended ==
    ASSUME BaseInv, MovingInv, CountInv, [ObservedNext]_ObservedVars,
           NEW r \in Req, CommitClose(r), NEW q \in Req, q # r, req'[q] = req[q]
    PROVE  CountsWhole(q)'
<1> USE DEF BaseInv, TypeOK, CountInv
<1> DEFINE c == req[r].cycle
<1>1. /\ req[r].pc = "selected" /\ c \in Cycles
      /\ req[r].old \in {"none", "deleted"}
      /\ CountsWhole(r) /\ CountsWhole(q)
  BY LocalsType DEF CommitClose, At
<1>2. snapshot' = [snapshot EXCEPT
                     ![c] = (IF req[r].old = "deleted" THEN {} ELSE snapshot[c])
                              \cup req[r].counted]
  BY DEF CommitClose
<1>3. HoldsOldRows(q, c) => req[r].old = "none" /\ req[r].counted = {}
  <2> SUFFICES ASSUME HoldsOldRows(q, c)
               PROVE  req[r].old = "none" /\ req[r].counted = {}
    OBVIOUS
  <2>1. ~HoldsOldRows(r, c)
    BY <1>1 DEF RowLockIsExclusive
  <2>2. req[r].old = "none"
    BY <1>1, <2>1 DEF HoldsOldRows
  <2>3. snapshot[c] # {}
    BY <1>1 DEF CountsWhole, OldRowsThere
  <2> QED BY <2>2, <2>3 DEF CommitClose, RowsInsertable
<1>4. ConfirmedCounted(q)'
  BY <1>1, ConfirmedStayCounted DEF CountsWhole
<1>5. MovingCounted(q)'
  BY <1>1, RecordsGrow DEF CountsWhole, MovingCounted, CountedFor
<1>6. OldRowsThere(q)'
  <2> SUFFICES ASSUME NEW d \in Cycles, HoldsOldRows(q, d)
               PROVE  snapshot'[d] # {}
    BY DEF OldRowsThere, HoldsOldRows
  <2>1. snapshot[d] # {}
    BY <1>1 DEF CountsWhole, OldRowsThere
  <2> QED BY <1>1, <1>2, <1>3, <2>1
<1>7. ProcuredCounted(q)'
  <2> SUFFICES ASSUME req[q].pc \in OnceCounted, NEW o \in Orders,
                      orderStatus'[o] = "PROCUREMENT",
                      req[q].cycle \in orderCycles'[o]
               PROVE  \/ o \in req[q].counted \/ o \in late'
                      \/ req[q].old = "none" /\ o \in snapshot'[req[q].cycle]
    BY DEF ProcuredCounted, CountedFor
  <2>1. /\ req[q].cycle \in Cycles /\ req[q].old \in {"none", "deleted"}
        /\ req[q].cycle \in orderCycles[o]
    BY LocalsType DEF OnceCounted, CommitClose
  <2>2. CASE req[q].old = "none"
    BY <2>2, CloseCounts
  <2>3. CASE req[q].old = "deleted" /\ o \notin req[r].moving
    <3>1. orderStatus[o] = "PROCUREMENT"
      BY <2>3 DEF CommitClose
    <3> QED BY <1>1, <2>1, <2>3, <3>1, RecordsGrow
            DEF CountsWhole, ProcuredCounted, CountedFor
  <2>4. CASE req[q].old = "deleted" /\ o \in req[r].moving
    <3>1. req[q].cycle = c
      BY <1>1, <2>1, <2>4 DEF MovingInv, LocalsMoving
    <3>2. HoldsOldRows(q, c)
      BY <2>4, <3>1 DEF HoldsOldRows, OnceCounted
    <3>3. CountedFor(r, o)
      BY <1>1, <2>4 DEF CountsWhole, MovingCounted
    <3> QED BY <1>3, <3>2, <3>3, RecordsGrow DEF CountedFor
  <2> QED BY <2>1, <2>2, <2>3, <2>4
<1> QED BY <1>4, <1>5, <1>6, <1>7 DEF CountsWhole

\* A handler that is not closing has nothing to be held to.
LEMMA CountsWholeTrivially ==
    ASSUME NEW q \in Req, req'[q].pc \notin ClosingPcs
    PROVE  CountsWhole(q)'
BY DEF CountsWhole, ProcuredCounted, ConfirmedCounted, MovingCounted,
   OldRowsThere, HoldsOldRows, OnceCounted, ClosingPcs

LEMMA CountStep ==
    ASSUME BaseInv, MovingInv, CountInv, [ObservedNext]_ObservedVars
    PROVE  CountInv'
<1> USE DEF BaseInv, TypeOK
<1>1. RowLockIsExclusive'
  BY ObservedStep, RowLockStep DEF CountInv
<1>2. CASE \E r \in AdminReq : CommitClose(r)
  <2>1. PICK r \in Req : CommitClose(r)
    BY <1>2 DEF Req
  <2>2. ProcuredOrdersAreCounted'
    BY <2>1, CloseCounts DEF ProcuredOrdersAreCounted
  <2>3. \A q \in Req : CountsWhole(q)'
    <3>1. Goto(r, Idle)
      BY <2>1 DEF CommitClose
    <3>2. CountsWhole(r)'
      BY <3>1, CountsWholeTrivially DEF Goto, Idle, ClosingPcs
    <3>3. ASSUME NEW q \in Req, q # r PROVE CountsWhole(q)'
      BY <2>1, <3>1, <3>3, CloseSuspended DEF Goto
    <3> QED BY <3>2, <3>3
  <2> QED BY <1>1, <2>2, <2>3 DEF CountInv
<1>3. CASE ~ \E r \in AdminReq : CommitClose(r)
  <2>1. UNCHANGED snapshot
    BY <1>3, ObservedStep, CycleWriters DEF CommitOpen, cycleVars
  <2>2. \A o \in Orders : orderStatus'[o] = "PROCUREMENT" =>
                             orderStatus[o] = "PROCUREMENT"
    BY <1>3, ObservedStep, ProcurementWriters
  <2>3. ProcuredOrdersAreCounted'
    BY <2>1, <2>2, ObservedStep, AdvancedKeepLines, RecordsGrow
       DEF CountInv, ProcuredOrdersAreCounted
  <2>4. ASSUME NEW q \in Req PROVE CountsWhole(q)'
    <3>1. CountsWhole(q)
      BY DEF CountInv
    <3>2. CASE req'[q] = req[q]
      BY <2>1, <2>2, <3>1, <3>2, CountSuspended
    <3>3. CASE req'[q].pc \notin ClosingPcs
      BY <3>3, CountsWholeTrivially
    <3>4. CASE \/ DeleteSnapshot(q) \/ DeleteNothing(q)
               \/ Aggregate(q) \/ SelectOrders(q)
      <4>1. UNCHANGED orderVars
        BY <3>4 DEF DeleteSnapshot, DeleteNothing, Aggregate, SelectOrders
      <4>2. UNCHANGED late
        BY <4>1 DEF ObservedNext, Observe, ConfirmedTooLate, ObservedVars,
           raceVars, orderVars
      <4> QED BY <3>1, <3>4, <4>2, CountReads
    <3> QED BY <3>2, <3>3, <3>4, ObservedStep, ClosingHandlers
  <2> QED BY <1>1, <2>3, <2>4 DEF CountInv
<1> QED BY <1>2, <1>3

\* What is handed to procurement is part of the quantities to be bought, or
\* was confirmed between the two queries of the closing that handed it over.
THEOREM ProcurementIsCounted == ObservedSpec => []ProcuredOrdersAreCounted
<1>1. ObservedInit => CountInv
  BY DEF ObservedInit, Init, CountInv, ProcuredOrdersAreCounted,
     RowLockIsExclusive, HoldsOldRows, CountsWhole, ProcuredCounted,
     ConfirmedCounted, MovingCounted, OldRowsThere, OnceCounted, Idle
<1>2. BaseInv /\ MovingInv /\ CountInv /\ [ObservedNext]_ObservedVars => CountInv'
  BY CountStep
<1>3. CountInv => ProcuredOrdersAreCounted
  BY DEF CountInv
<1> QED BY <1>1, <1>2, <1>3, ObservedIsPipeline, MovingInvariance, PTL
        DEF ObservedSpec, ObservedVars
=============================================================================
