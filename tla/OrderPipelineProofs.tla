------------------------- MODULE OrderPipelineProofs -------------------------
(* Proofs about OrderPipeline, for any numbers of orders, payments, cycles *)
(* and concurrent requests.                                                *)
EXTENDS OrderPipeline, FiniteSetTheorems, TLAPS

-----------------------------------------------------------------------------
(* Lemmas about the handlers' local states.                                *)

\* What the locals of a suspended handler are, by the point it is at.
LEMMA LocalsType ==
    ASSUME NEW s \in RequestStates
    PROVE  /\ s.pc = "checkout" => s.lines \in SUBSET Cycles
           /\ s.pc = "initialize" => s.order \in Orders
           /\ s.pc \in {"locked", "answered", "applying"} =>
                  s.payment \in Payments
           /\ s.pc \in {"answered", "applying"} =>
                  s.answer \in {"success", "other"}
           /\ s.pc = "applying" => s.seen \in Lifecycle!CommittedStatuses
           /\ s.pc = "cancel" =>
                  s.order \in Orders /\ s.to \in {"CANCELLED", "REFUNDED"}
           /\ s.pc \in {"opening", "openable", "closing", "cleared",
                        "aggregated", "selected"} => s.cycle \in Cycles
           /\ s.pc \in {"cleared", "aggregated", "selected"} =>
                  s.old \in {"none", "deleted"}
           /\ s.pc \in {"aggregated", "selected"} =>
                  s.counted \in SUBSET Orders
           /\ s.pc = "selected" => s.moving \in SUBSET Orders
    BY DEF RequestStates

\* The local states the handlers go to.
LEMMA NewLocalsType ==
    /\ Idle \in RequestStates
    /\ \A S \in SUBSET Cycles : [pc |-> "checkout", lines |-> S] \in RequestStates
    /\ \A o \in Orders : [pc |-> "initialize", order |-> o] \in RequestStates
    /\ \A p \in Payments : [pc |-> "locked", payment |-> p] \in RequestStates
    /\ \A p \in Payments, a \in {"success", "other"} :
          [pc |-> "answered", payment |-> p, answer |-> a] \in RequestStates
    /\ \A p \in Payments, a \in {"success", "other"},
          s \in Lifecycle!CommittedStatuses :
          [pc |-> "applying", payment |-> p, answer |-> a, seen |-> s]
              \in RequestStates
    /\ \A o \in Orders, t \in {"CANCELLED", "REFUNDED"} :
          [pc |-> "cancel", order |-> o, to |-> t] \in RequestStates
    /\ \A c \in Cycles : /\ [pc |-> "opening", cycle |-> c] \in RequestStates
                         /\ [pc |-> "openable", cycle |-> c] \in RequestStates
                         /\ [pc |-> "closing", cycle |-> c] \in RequestStates
    /\ \A c \in Cycles, d \in {"none", "deleted"} :
          [pc |-> "cleared", cycle |-> c, old |-> d] \in RequestStates
    /\ \A c \in Cycles, d \in {"none", "deleted"}, S \in SUBSET Orders :
          [pc |-> "aggregated", cycle |-> c, old |-> d, counted |-> S]
              \in RequestStates
    /\ \A c \in Cycles, d \in {"none", "deleted"},
          S \in SUBSET Orders, T \in SUBSET Orders :
          [pc |-> "selected", cycle |-> c, old |-> d, counted |-> S,
           moving |-> T] \in RequestStates
    BY DEF RequestStates, Idle

LEMMA GotoType ==
    ASSUME req \in [Req -> RequestStates],
           NEW r \in Req, NEW s \in RequestStates, Goto(r, s)
    PROVE  /\ req' \in [Req -> RequestStates]
           /\ req'[r] = s
           /\ \A q \in Req : q # r => req'[q] = req[q]
    BY DEF Goto

-----------------------------------------------------------------------------
(* Who writes what: every other step leaves the table alone.               *)

LEMMA PaymentWriters ==
    ASSUME [Next]_vars
    PROVE  \/ UNCHANGED payVars
           \/ \E r \in Req, p \in Payments : InsertPayment(r, p)
           \/ \E r \in Req : ApplySuccess(r) \/ ApplyFailure(r)
BY DEF Next, Req, Checkout, Initialize, Verify, Cancel, Open, Close, Rollback,
   ResolveLine, PlaceOrder, BeginInitialize, CustomerPays, LockPayment,
   AskPaystack, ReadOrder, BeginCancel, CommitCancel, BeginOpen,
   FindNoConflict, CommitOpen, BeginClose, DeleteSnapshot, DeleteNothing,
   Aggregate, SelectOrders, CommitClose, vars, payVars

LEMMA OrderWriters ==
    ASSUME [Next]_vars
    PROVE  \/ UNCHANGED orderVars
           \/ \E r \in Req, o \in Orders : PlaceOrder(r, o)
           \/ \E r \in Req : ApplySuccess(r) \/ CommitCancel(r)
           \/ \E r \in AdminReq : CommitClose(r)
BY DEF Next, Req, Checkout, Initialize, Verify, Cancel, Open, Close, Rollback,
   ResolveLine, BeginInitialize, InsertPayment, CustomerPays, LockPayment,
   AskPaystack, ReadOrder, ApplyFailure, BeginCancel, BeginOpen,
   FindNoConflict, CommitOpen, BeginClose, DeleteSnapshot, DeleteNothing,
   Aggregate, SelectOrders, vars, orderVars

LEMMA CycleWriters ==
    ASSUME [Next]_vars
    PROVE  \/ UNCHANGED cycleVars
           \/ \E r \in AdminReq : CommitOpen(r) \/ CommitClose(r)
BY DEF Next, Req, Checkout, Initialize, Verify, Cancel, Open, Close, Rollback,
   ResolveLine, PlaceOrder, BeginInitialize, InsertPayment, CustomerPays,
   LockPayment, AskPaystack, ReadOrder, ApplySuccess, ApplyFailure,
   BeginCancel, CommitCancel, BeginOpen, FindNoConflict, BeginClose,
   DeleteSnapshot, DeleteNothing, Aggregate, SelectOrders, vars, cycleVars

LEMMA ChargesGrow ==
    ASSUME [Next]_vars
    PROVE  charged \subseteq charged'
BY DEF Next, Req, Checkout, Initialize, Verify, Cancel, Open, Close, Rollback,
   ResolveLine, PlaceOrder, BeginInitialize, InsertPayment, CustomerPays,
   LockPayment, AskPaystack, ReadOrder, ApplySuccess, ApplyFailure,
   BeginCancel, CommitCancel, BeginOpen, FindNoConflict, CommitOpen,
   BeginClose, DeleteSnapshot, DeleteNothing, Aggregate, SelectOrders,
   CommitClose, vars

-----------------------------------------------------------------------------
(* The inductive invariant behind type correctness and payment idempotency.*)

PaymentRowsHaveOrder ==
    \A p \in Payments : payStatus[p] # "None" => payOrder[p] \in Orders

LockedPaymentsArePending ==
    \A r \in Req, p \in Payments : Holds(r, p) => payStatus[p] = "PENDING"

LockIsExclusive ==
    \A q, r \in Req, p \in Payments : Holds(q, p) /\ Holds(r, p) => q = r

LockInv ==
    /\ PaymentRowsHaveOrder
    /\ LockedPaymentsArePending
    /\ LockIsExclusive

BaseInv == TypeOK /\ LockInv

\* A handler that takes no new lock and writes no payment preserves LockInv.
LEMMA LockFrame ==
    ASSUME BaseInv, NEW r \in Req, NEW s \in RequestStates, Goto(r, s),
           UNCHANGED payVars,
           s.pc \in {"locked", "answered", "applying"} => Holds(r, s.payment)
    PROVE  LockInv'
<1>1. \A q \in Req, p \in Payments : Holds(q, p)' => Holds(q, p)
  BY GotoType DEF BaseInv, TypeOK, Holds
<1> QED BY <1>1 DEF BaseInv, LockInv, PaymentRowsHaveOrder,
           LockedPaymentsArePending, LockIsExclusive, payVars

\* A verification that writes its own payment and ends preserves LockInv.
LEMMA LockRelease ==
    ASSUME BaseInv, NEW r \in Req, Goto(r, Idle), NEW p \in Payments,
           Holds(r, p), NEW v \in PaymentStatuses,
           payStatus' = [payStatus EXCEPT ![p] = v], UNCHANGED payOrder
    PROVE  LockInv'
<1>1. payStatus[p] = "PENDING" /\ payOrder[p] \in Orders
  BY DEF BaseInv, LockInv, LockedPaymentsArePending, PaymentRowsHaveOrder
<1>2. \A q \in Req, x \in Payments : Holds(q, x)' => Holds(q, x) /\ q # r
  BY NewLocalsType, GotoType DEF BaseInv, TypeOK, Holds, Idle
<1>3. \A q \in Req, x \in Payments : Holds(q, x)' => x # p
  BY <1>2 DEF BaseInv, LockInv, LockIsExclusive
<1>4. \A x \in Payments : x # p => payStatus'[x] = payStatus[x]
  BY DEF BaseInv, TypeOK
<1>5. PaymentRowsHaveOrder'
  BY <1>1, <1>4 DEF BaseInv, LockInv, PaymentRowsHaveOrder
<1>6. LockedPaymentsArePending'
  BY <1>2, <1>3, <1>4 DEF BaseInv, LockInv, LockedPaymentsArePending
<1>7. LockIsExclusive'
  BY <1>2 DEF BaseInv, LockInv, LockIsExclusive
<1> QED BY <1>5, <1>6, <1>7 DEF LockInv

LEMMA CheckoutBase == ASSUME BaseInv, NEW r \in Req, Checkout(r) PROVE BaseInv'
<1> USE DEF BaseInv, TypeOK
<1>1. ASSUME NEW c \in Cycles, ResolveLine(r, c) PROVE BaseInv'
  <2> DEFINE S == {c} \cup (IF At(r, "idle") THEN {} ELSE req[r].lines)
             s == [pc |-> "checkout", lines |-> S]
  <2>1. S \in SUBSET Cycles
    BY <1>1, LocalsType DEF ResolveLine, At
  <2>2. s \in RequestStates /\ Goto(r, s) /\ s.pc = "checkout"
    BY <1>1, <2>1, NewLocalsType DEF ResolveLine
  <2> HIDE DEF s
  <2>3. req' \in [Req -> RequestStates]
    BY <2>2, GotoType
  <2>4. LockInv'
    BY <1>1, <2>2, LockFrame DEF ResolveLine
  <2> QED BY <1>1, <2>3, <2>4 DEF ResolveLine, orderVars, payVars, cycleVars
<1>2. ASSUME NEW o \in Orders, PlaceOrder(r, o) PROVE BaseInv'
  <2>1. req[r].lines \in SUBSET Cycles
    BY <1>2, LocalsType DEF PlaceOrder, At
  <2>2. req' \in [Req -> RequestStates]
    BY <1>2, NewLocalsType, GotoType DEF PlaceOrder
  <2>3. orderStatus' \in [Orders -> Lifecycle!CommittedStatuses]
    BY <1>2 DEF PlaceOrder, Lifecycle!CommittedStatuses
  <2>4. history' \in [Orders -> Seq(Lifecycle!OrderStatuses)]
    <3>1. <<"PENDING_PAYMENT">> \in Seq(Lifecycle!OrderStatuses)
      BY DEF Lifecycle!OrderStatuses
    <3> QED BY <1>2, <3>1 DEF PlaceOrder
  <2>5. LockInv'
    BY <1>2, NewLocalsType, LockFrame DEF PlaceOrder, Idle
  <2> QED BY <1>2, <2>1, <2>2, <2>3, <2>4, <2>5
          DEF PlaceOrder, payVars, cycleVars
<1> QED BY <1>1, <1>2 DEF Checkout

LEMMA InitializeBase ==
    ASSUME BaseInv, NEW r \in Req, Initialize(r) PROVE BaseInv'
<1> USE DEF BaseInv, TypeOK
<1>1. ASSUME NEW o \in Orders, BeginInitialize(r, o) PROVE BaseInv'
  <2>1. req' \in [Req -> RequestStates]
    BY <1>1, NewLocalsType, GotoType DEF BeginInitialize
  <2>2. LockInv'
    BY <1>1, NewLocalsType, LockFrame DEF BeginInitialize
  <2> QED BY <1>1, <2>1, <2>2 DEF BeginInitialize, orderVars, payVars, cycleVars
<1>2. ASSUME NEW p \in Payments, InsertPayment(r, p) PROVE BaseInv'
  <2>1. req' \in [Req -> RequestStates]
    BY <1>2, NewLocalsType, GotoType DEF InsertPayment
  <2>2. req[r].order \in Orders
    BY <1>2, LocalsType DEF InsertPayment, At
  <2>3. \A q \in Req, x \in Payments : Holds(q, x)' => Holds(q, x) /\ x # p
    <3>1. \A q \in Req, x \in Payments : Holds(q, x)' => Holds(q, x)
      <4>1. Idle \in RequestStates /\ Goto(r, Idle)
        BY <1>2, NewLocalsType DEF InsertPayment
      <4>2. /\ req'[r] = Idle
            /\ \A q \in Req : q # r => req'[q] = req[q]
        BY <4>1, GotoType
      <4>3. \A x \in Payments : ~Holds(r, x)'
        BY <4>2 DEF Holds, Idle
      <4>4. \A q \in Req, x \in Payments :
               q # r => Holds(q, x)' = Holds(q, x)
        BY <4>2 DEF Holds
      <4> QED BY <4>3, <4>4
    <3>2. \A q \in Req : ~Holds(q, p)
      BY <1>2 DEF InsertPayment, LockInv, LockedPaymentsArePending
    <3> QED BY <3>1, <3>2
  <2>4. LockInv'
    BY <1>2, <2>2, <2>3 DEF InsertPayment, LockInv, PaymentRowsHaveOrder,
       LockedPaymentsArePending, LockIsExclusive
  <2> QED BY <1>2, <2>1, <2>2, <2>4
          DEF InsertPayment, orderVars, cycleVars, PaymentStatuses
<1> QED BY <1>1, <1>2 DEF Initialize

LEMMA VerifyBase == ASSUME BaseInv, NEW r \in Req, Verify(r) PROVE BaseInv'
<1> USE DEF BaseInv, TypeOK
<1>1. ASSUME NEW p \in Payments, LockPayment(r, p) PROVE BaseInv'
  <2>1. req' \in [Req -> RequestStates]
    BY <1>1, NewLocalsType, GotoType DEF LockPayment
  <2>2. \A q \in Req, x \in Payments :
           Holds(q, x)' => IF q = r THEN x = p ELSE Holds(q, x)
    BY <1>1, NewLocalsType, GotoType DEF LockPayment, Holds
  <2>3. LockInv'
    BY <1>1, <2>2 DEF LockPayment, LockInv, PaymentRowsHaveOrder,
       LockedPaymentsArePending, LockIsExclusive, payVars
  <2> QED BY <1>1, <2>1, <2>3 DEF LockPayment, orderVars, payVars, cycleVars
<1>2. CASE AskPaystack(r)
  <2>1. PICK a \in {"success", "other"} :
           Goto(r, [pc |-> "answered", payment |-> req[r].payment, answer |-> a])
    BY <1>2 DEF AskPaystack
  <2>2. req[r].payment \in Payments /\ Holds(r, req[r].payment)
    BY <1>2, LocalsType DEF AskPaystack, At, Holds
  <2>3. req' \in [Req -> RequestStates] /\ LockInv'
    BY <1>2, <2>1, <2>2, NewLocalsType, GotoType, LockFrame DEF AskPaystack
  <2> QED BY <1>2, <2>3 DEF AskPaystack, orderVars, payVars, cycleVars
<1>3. CASE ReadOrder(r)
  <2>1. /\ req[r].payment \in Payments
        /\ req[r].answer \in {"success", "other"}
        /\ Holds(r, req[r].payment)
    BY <1>3, LocalsType DEF ReadOrder, At, Holds
  <2>2. payOrder[req[r].payment] \in Orders
    BY <2>1 DEF LockInv, LockedPaymentsArePending, PaymentRowsHaveOrder
  <2>3. orderStatus[payOrder[req[r].payment]] \in Lifecycle!CommittedStatuses
    BY <2>2
  <2>4. req' \in [Req -> RequestStates] /\ LockInv'
    BY <1>3, <2>1, <2>3, NewLocalsType, GotoType, LockFrame DEF ReadOrder
  <2> QED BY <1>3, <2>4 DEF ReadOrder, orderVars, payVars, cycleVars
<1>4. CASE ApplySuccess(r)
  <2> DEFINE p == req[r].payment
             o == payOrder[p]
  <2>1. p \in Payments /\ Holds(r, p)
    BY <1>4, LocalsType DEF ApplySuccess, At, Holds
  <2>2. payStatus' = [payStatus EXCEPT ![p] = "SUCCESSFUL"] /\ Goto(r, Idle)
    BY <1>4 DEF ApplySuccess
  <2>3. req' \in [Req -> RequestStates] /\ LockInv'
    BY <1>4, <2>1, <2>2, NewLocalsType, GotoType, LockRelease
       DEF ApplySuccess, PaymentStatuses
  <2>4. orderStatus' \in [Orders -> Lifecycle!CommittedStatuses]
    BY <1>4 DEF ApplySuccess, Lifecycle!CommittedStatuses
  <2>5. history' \in [Orders -> Seq(Lifecycle!OrderStatuses)]
    <3>1. <<"PAID", "CONFIRMED">> \in Seq(Lifecycle!OrderStatuses)
      BY DEF Lifecycle!OrderStatuses
    <3>2. o \in Orders
      BY <2>1 DEF LockInv, LockedPaymentsArePending, PaymentRowsHaveOrder
    <3>3. history[o] \o <<"PAID", "CONFIRMED">> \in Seq(Lifecycle!OrderStatuses)
      BY <3>1, <3>2
    <3>4. [history EXCEPT ![o] = @ \o <<"PAID", "CONFIRMED">>]
             \in [Orders -> Seq(Lifecycle!OrderStatuses)]
      BY <3>3
    <3> QED BY <1>4, <3>4 DEF ApplySuccess
  <2> QED BY <1>4, <2>1, <2>2, <2>3, <2>4, <2>5
          DEF ApplySuccess, cycleVars, PaymentStatuses
<1>5. CASE ApplyFailure(r)
  <2>1. req[r].payment \in Payments /\ Holds(r, req[r].payment)
    BY <1>5, LocalsType DEF ApplyFailure, At, Holds
  <2>2. req' \in [Req -> RequestStates] /\ LockInv'
    BY <1>5, <2>1, NewLocalsType, GotoType, LockRelease
       DEF ApplyFailure, PaymentStatuses
  <2> QED BY <1>5, <2>2 DEF ApplyFailure, orderVars, cycleVars, PaymentStatuses
<1> QED BY <1>1, <1>2, <1>3, <1>4, <1>5 DEF Verify

LEMMA CancelBase == ASSUME BaseInv, NEW r \in Req, Cancel(r) PROVE BaseInv'
<1> USE DEF BaseInv, TypeOK
<1>1. ASSUME NEW o \in Orders, NEW to \in {"CANCELLED", "REFUNDED"},
             BeginCancel(r, o, to)
      PROVE  BaseInv'
  <2>1. req' \in [Req -> RequestStates]
    BY <1>1, NewLocalsType, GotoType DEF BeginCancel
  <2>2. LockInv'
    BY <1>1, NewLocalsType, LockFrame DEF BeginCancel
  <2> QED BY <1>1, <2>1, <2>2 DEF BeginCancel, orderVars, payVars, cycleVars
<1>2. CASE CommitCancel(r)
  <2>1. req[r].order \in Orders /\ req[r].to \in {"CANCELLED", "REFUNDED"}
    BY <1>2, LocalsType DEF CommitCancel, At
  <2>2. req' \in [Req -> RequestStates]
    BY <1>2, NewLocalsType, GotoType DEF CommitCancel
  <2>3. LockInv'
    BY <1>2, NewLocalsType, LockFrame DEF CommitCancel, Idle
  <2>4. orderStatus' \in [Orders -> Lifecycle!CommittedStatuses]
    BY <1>2, <2>1 DEF CommitCancel, Lifecycle!CommittedStatuses
  <2>5. history' \in [Orders -> Seq(Lifecycle!OrderStatuses)]
    <3>1. req[r].to \in Lifecycle!OrderStatuses
      BY <2>1 DEF Lifecycle!OrderStatuses
    <3>2. Append(history[req[r].order], req[r].to)
             \in Seq(Lifecycle!OrderStatuses)
      BY <2>1, <3>1
    <3> QED BY <1>2, <3>2 DEF CommitCancel
  <2> QED BY <1>2, <2>2, <2>3, <2>4, <2>5 DEF CommitCancel, payVars, cycleVars
<1> QED BY <1>1, <1>2 DEF Cancel

LEMMA OpenBase == ASSUME BaseInv, NEW r \in Req, Open(r) PROVE BaseInv'
<1> USE DEF BaseInv, TypeOK
<1>1. ASSUME NEW c \in Cycles, BeginOpen(r, c) PROVE BaseInv'
  <2>1. req' \in [Req -> RequestStates]
    BY <1>1, NewLocalsType, GotoType DEF BeginOpen
  <2>2. LockInv'
    BY <1>1, NewLocalsType, LockFrame DEF BeginOpen
  <2> QED BY <1>1, <2>1, <2>2 DEF BeginOpen, orderVars, payVars, cycleVars
<1>2. CASE FindNoConflict(r)
  <2>1. req[r].cycle \in Cycles
    BY <1>2, LocalsType DEF FindNoConflict, At
  <2>2. req' \in [Req -> RequestStates]
    BY <1>2, <2>1, NewLocalsType, GotoType DEF FindNoConflict
  <2>3. LockInv'
    BY <1>2, <2>1, NewLocalsType, LockFrame DEF FindNoConflict
  <2> QED BY <1>2, <2>2, <2>3 DEF FindNoConflict, orderVars, payVars, cycleVars
<1>3. CASE CommitOpen(r)
  <2>1. req[r].cycle \in Cycles
    BY <1>3, LocalsType DEF CommitOpen, At
  <2>2. req' \in [Req -> RequestStates] /\ LockInv'
    BY <1>3, NewLocalsType, GotoType, LockFrame DEF CommitOpen, Idle
  <2> QED BY <1>3, <2>1, <2>2 DEF CommitOpen, orderVars, payVars, CycleStatuses
<1> QED BY <1>1, <1>2, <1>3 DEF Open

LEMMA CloseBase == ASSUME BaseInv, NEW r \in Req, Close(r) PROVE BaseInv'
<1> USE DEF BaseInv, TypeOK
<1>1. ASSUME NEW c \in Cycles, BeginClose(r, c) PROVE BaseInv'
  <2>1. req' \in [Req -> RequestStates]
    BY <1>1, NewLocalsType, GotoType DEF BeginClose
  <2>2. LockInv'
    BY <1>1, NewLocalsType, LockFrame DEF BeginClose
  <2> QED BY <1>1, <2>1, <2>2 DEF BeginClose, orderVars, payVars, cycleVars
<1>2. CASE DeleteSnapshot(r) \/ DeleteNothing(r)
  <2>1. req[r].cycle \in Cycles
    BY <1>2, LocalsType DEF DeleteSnapshot, DeleteNothing, At
  <2>2. PICK d \in {"none", "deleted"} :
           Goto(r, [pc |-> "cleared", cycle |-> req[r].cycle, old |-> d])
    BY <1>2 DEF DeleteSnapshot, DeleteNothing
  <2>3. req' \in [Req -> RequestStates] /\ LockInv'
    BY <1>2, <2>1, <2>2, NewLocalsType, GotoType, LockFrame
       DEF DeleteSnapshot, DeleteNothing
  <2> QED BY <1>2, <2>3
          DEF DeleteSnapshot, DeleteNothing, orderVars, payVars, cycleVars
<1>3. CASE Aggregate(r)
  <2>1. req[r].cycle \in Cycles /\ req[r].old \in {"none", "deleted"}
    BY <1>3, LocalsType DEF Aggregate, At
  <2>2. Counted(req[r].cycle) \in SUBSET Orders
    BY DEF Counted
  <2>3. req' \in [Req -> RequestStates]
    BY <1>3, <2>1, <2>2, NewLocalsType, GotoType DEF Aggregate
  <2>4. LockInv'
    BY <1>3, <2>1, <2>2, NewLocalsType, LockFrame DEF Aggregate
  <2> QED BY <1>3, <2>3, <2>4 DEF Aggregate, orderVars, payVars, cycleVars
<1>4. CASE SelectOrders(r)
  <2>1. /\ req[r].cycle \in Cycles /\ req[r].old \in {"none", "deleted"}
        /\ req[r].counted \in SUBSET Orders
    BY <1>4, LocalsType DEF SelectOrders, At
  <2>2. FullyInCycle(req[r].cycle) \in SUBSET Orders
    BY DEF FullyInCycle
  <2>3. req' \in [Req -> RequestStates]
    BY <1>4, <2>1, <2>2, NewLocalsType, GotoType DEF SelectOrders
  <2>4. LockInv'
    BY <1>4, <2>1, <2>2, NewLocalsType, LockFrame DEF SelectOrders
  <2> QED BY <1>4, <2>3, <2>4 DEF SelectOrders, orderVars, payVars, cycleVars
<1>5. CASE CommitClose(r)
  <2>1. /\ req[r].cycle \in Cycles
        /\ req[r].counted \in SUBSET Orders /\ req[r].moving \in SUBSET Orders
    BY <1>5, LocalsType DEF CommitClose, At
  <2>2. req' \in [Req -> RequestStates] /\ LockInv'
    BY <1>5, NewLocalsType, GotoType, LockFrame DEF CommitClose, Idle
  <2>3. orderStatus' \in [Orders -> Lifecycle!CommittedStatuses]
    BY <1>5 DEF CommitClose, Lifecycle!CommittedStatuses
  <2>4. history' \in [Orders -> Seq(Lifecycle!OrderStatuses)]
    <3>1. <<"AGGREGATING", "PROCUREMENT">> \in Seq(Lifecycle!OrderStatuses)
      BY DEF Lifecycle!OrderStatuses
    <3>2. \A o \in Orders : history[o] \o <<"AGGREGATING", "PROCUREMENT">>
             \in Seq(Lifecycle!OrderStatuses)
      BY <3>1
    <3> QED BY <1>5, <3>2 DEF CommitClose
  <2> QED BY <1>5, <2>1, <2>2, <2>3, <2>4 DEF CommitClose, payVars, CycleStatuses
<1> QED BY <1>1, <1>2, <1>3, <1>4, <1>5 DEF Close

LEMMA OtherBase ==
    ASSUME BaseInv,
           \/ \E r \in Req : Rollback(r)
           \/ \E p \in Payments : CustomerPays(p)
           \/ UNCHANGED vars
    PROVE  BaseInv'
<1> USE DEF BaseInv, TypeOK
<1>1. ASSUME NEW r \in Req, Rollback(r) PROVE BaseInv'
  <2>1. req' \in [Req -> RequestStates] /\ LockInv'
    BY <1>1, NewLocalsType, GotoType, LockFrame DEF Rollback, Idle
  <2> QED BY <1>1, <2>1 DEF Rollback, orderVars, payVars, cycleVars
<1>2. ASSUME NEW p \in Payments, CustomerPays(p) PROVE BaseInv'
  BY <1>2 DEF CustomerPays, orderVars, payVars, cycleVars, LockInv, Holds,
     PaymentRowsHaveOrder, LockedPaymentsArePending, LockIsExclusive
<1>3. CASE UNCHANGED vars
  BY <1>3 DEF vars, LockInv, Holds,
     PaymentRowsHaveOrder, LockedPaymentsArePending, LockIsExclusive
<1> QED BY <1>1, <1>2, <1>3

\* The tables and locals keep their types and every payment keeps at most
\* one verification at work on it, whatever the requests do.
THEOREM BaseInvariance == Spec => []BaseInv
<1>1. Init => BaseInv
  <2> SUFFICES ASSUME Init PROVE BaseInv
    OBVIOUS
  <2>1. Idle \in RequestStates
    BY NewLocalsType
  <2>2. req \in [Req -> RequestStates]
    BY <2>1 DEF Init
  <2>3. TypeOK
    <3>1. history \in [Orders -> Seq(Lifecycle!OrderStatuses)]
      BY DEF Init
    <3> QED BY <2>2, <3>1 DEF Init, TypeOK, PaymentStatuses, CycleStatuses,
            Lifecycle!CommittedStatuses
  <2>4. LockInv
    BY DEF Init, LockInv, PaymentRowsHaveOrder, LockedPaymentsArePending,
       LockIsExclusive, Holds, Idle
  <2> QED BY <2>3, <2>4 DEF BaseInv
<1>2. BaseInv /\ [Next]_vars => BaseInv'
  BY CheckoutBase, InitializeBase, VerifyBase, CancelBase, OpenBase, CloseBase,
     OtherBase DEF Next, Req
<1> QED BY <1>1, <1>2, PTL DEF Spec

\* Type correctness for any number of orders, payments, cycles and requests.
THEOREM TypeCorrectness == Spec => []TypeOK
<1>1. BaseInv => TypeOK
  BY DEF BaseInv
<1> QED BY <1>1, BaseInvariance, PTL

-----------------------------------------------------------------------------
(* Payments move forward only.                                             *)

\* What one step can do to one payment: nothing, insert it, or, under its
\* lock, take it from PENDING to a terminal status.
LEMMA PaymentStep ==
    ASSUME BaseInv, [Next]_vars, NEW p \in Payments
    PROVE  \/ payStatus'[p] = payStatus[p] /\ payOrder'[p] = payOrder[p]
           \/ payStatus[p] = "None" /\ payStatus'[p] = "PENDING"
           \/ /\ payStatus[p] = "PENDING"
              /\ payStatus'[p] \in {"SUCCESSFUL", "FAILED"}
              /\ payOrder'[p] = payOrder[p]
<1> USE DEF BaseInv, TypeOK
<1>1. ASSUME NEW r \in Req, NEW x \in Payments, InsertPayment(r, x)
      PROVE  \/ payStatus'[p] = payStatus[p] /\ payOrder'[p] = payOrder[p]
             \/ payStatus[p] = "None" /\ payStatus'[p] = "PENDING"
  BY <1>1 DEF InsertPayment
<1>2. ASSUME NEW r \in Req, ApplySuccess(r) \/ ApplyFailure(r)
      PROVE  \/ payStatus'[p] = payStatus[p] /\ payOrder'[p] = payOrder[p]
             \/ /\ payStatus[p] = "PENDING"
                /\ payStatus'[p] \in {"SUCCESSFUL", "FAILED"}
                /\ payOrder'[p] = payOrder[p]
  <2>1. req[r].payment \in Payments /\ Holds(r, req[r].payment)
    BY <1>2, LocalsType DEF ApplySuccess, ApplyFailure, At, Holds
  <2>2. payStatus[req[r].payment] = "PENDING"
    BY <2>1 DEF LockInv, LockedPaymentsArePending
  <2> QED BY <1>2, <2>1, <2>2 DEF ApplySuccess, ApplyFailure
<1> QED BY <1>1, <1>2, PaymentWriters DEF payVars

\* verify_and_apply is idempotent for any number of concurrent verifications:
\* a payment in a terminal status is never written again.
THEOREM PaymentsAreIdempotent == Spec => TerminalPaymentsAreFinal
<1>1. BaseInv /\ [Next]_vars =>
        [\A p \in Payments :
            payStatus[p] \in {"SUCCESSFUL", "FAILED"} =>
                payStatus'[p] = payStatus[p] /\ payOrder'[p] = payOrder[p]
        ]_payVars
  BY PaymentStep
<1> QED BY <1>1, BaseInvariance, PTL DEF Spec, TerminalPaymentsAreFinal

-----------------------------------------------------------------------------
(* Only paid orders advance.  The handlers' locals are part of the         *)
(* invariant: what a closing or a refund read about an order stays true    *)
(* enough until it commits, because a successful payment is for ever.      *)

Paid(o) == SuccessfulPaymentsOf(o) # {}

LocalsPaid(s) ==
    /\ s.pc \in {"initialize", "cancel"} => orderStatus[s.order] # "NotPlaced"
    /\ s.pc = "cancel" /\ s.to = "REFUNDED" => Paid(s.order)
    /\ s.pc \in {"aggregated", "selected"} =>
          \A o \in s.counted : s.cycle \in orderCycles[o] /\ Paid(o)
    /\ s.pc = "selected" => \A o \in s.moving : Paid(o)

PaymentsAreOfPlacedOrders ==
    \A p \in Payments :
        payOrder[p] \in Orders => orderStatus[payOrder[p]] # "NotPlaced"

PaidInv ==
    /\ AdvancedOrdersArePaid
    /\ SnapshotCountsPaidOrders
    /\ PaymentsAreOfPlacedOrders
    /\ \A r \in Req : LocalsPaid(req[r])

LEMMA OrderStep ==
    ASSUME BaseInv, [Next]_vars, NEW o \in Orders, orderStatus[o] # "NotPlaced"
    PROVE  orderStatus'[o] # "NotPlaced" /\ orderCycles'[o] = orderCycles[o]
<1> USE DEF BaseInv, TypeOK
<1>1. ASSUME NEW r \in Req, NEW x \in Orders, PlaceOrder(r, x)
      PROVE  orderStatus'[o] # "NotPlaced" /\ orderCycles'[o] = orderCycles[o]
  BY <1>1 DEF PlaceOrder
<1>2. ASSUME NEW r \in Req, ApplySuccess(r)
      PROVE  orderStatus'[o] # "NotPlaced" /\ orderCycles'[o] = orderCycles[o]
  BY <1>2 DEF ApplySuccess
<1>3. ASSUME NEW r \in Req, CommitCancel(r)
      PROVE  orderStatus'[o] # "NotPlaced" /\ orderCycles'[o] = orderCycles[o]
  <2>1. req[r].to \in {"CANCELLED", "REFUNDED"}
    BY <1>3, LocalsType DEF CommitCancel, At
  <2> QED BY <1>3, <2>1 DEF CommitCancel
<1>4. ASSUME NEW r \in Req, CommitClose(r)
      PROVE  orderStatus'[o] # "NotPlaced" /\ orderCycles'[o] = orderCycles[o]
  BY <1>4 DEF CommitClose
<1> QED BY <1>1, <1>2, <1>3, <1>4, OrderWriters DEF Req, orderVars

LEMMA PaidIsForEver ==
    ASSUME BaseInv, [Next]_vars, NEW o \in Orders, Paid(o)
    PROVE  Paid(o)'
<1>1. PICK p \in Payments : payOrder[p] = o /\ payStatus[p] = "SUCCESSFUL"
  BY DEF Paid, SuccessfulPaymentsOf
<1>2. payOrder'[p] = o /\ payStatus'[p] = "SUCCESSFUL"
  BY <1>1, PaymentStep
<1> QED BY <1>2 DEF Paid, SuccessfulPaymentsOf

LEMMA PaidArePlaced ==
    ASSUME PaidInv, NEW o \in Orders, Paid(o)
    PROVE  orderStatus[o] # "NotPlaced"
BY DEF PaidInv, PaymentsAreOfPlacedOrders, Paid, SuccessfulPaymentsOf

\* What a handler has read stays true while it is suspended.
LEMMA LocalsStayPaid ==
    ASSUME BaseInv, PaidInv, [Next]_vars,
           NEW s \in RequestStates, LocalsPaid(s)
    PROVE  LocalsPaid(s)'
<1>1. s.pc \in {"initialize", "cancel"} => orderStatus'[s.order] # "NotPlaced"
  BY LocalsType, OrderStep DEF LocalsPaid
<1>2. s.pc = "cancel" /\ s.to = "REFUNDED" => Paid(s.order)'
  BY LocalsType, PaidIsForEver DEF LocalsPaid
<1>3. s.pc \in {"aggregated", "selected"} =>
        \A o \in s.counted : s.cycle \in orderCycles'[o] /\ Paid(o)'
  <2> SUFFICES ASSUME s.pc \in {"aggregated", "selected"}, NEW o \in s.counted
               PROVE  s.cycle \in orderCycles'[o] /\ Paid(o)'
    OBVIOUS
  <2>1. o \in Orders /\ s.cycle \in orderCycles[o] /\ Paid(o)
    BY LocalsType DEF LocalsPaid
  <2>2. orderCycles'[o] = orderCycles[o]
    BY <2>1, PaidArePlaced, OrderStep
  <2> QED BY <2>1, <2>2, PaidIsForEver
<1>4. s.pc = "selected" => \A o \in s.moving : Paid(o)'
  BY LocalsType, PaidIsForEver DEF LocalsPaid
<1> QED BY <1>1, <1>2, <1>3, <1>4 DEF LocalsPaid

LEMMA PaymentsStayPlaced ==
    ASSUME BaseInv, PaidInv, [Next]_vars
    PROVE  PaymentsAreOfPlacedOrders'
<1> SUFFICES ASSUME NEW p \in Payments, payOrder'[p] \in Orders
             PROVE  orderStatus'[payOrder'[p]] # "NotPlaced"
  BY DEF PaymentsAreOfPlacedOrders
<1>1. CASE payOrder'[p] = payOrder[p]
  BY <1>1, OrderStep DEF PaidInv, PaymentsAreOfPlacedOrders
<1>2. CASE payOrder'[p] # payOrder[p]
  <2>1. PICK r \in Req, x \in Payments : InsertPayment(r, x)
    BY <1>2 DEF Next, Req, Checkout, Initialize, Verify, Cancel, Open, Close,
       Rollback, ResolveLine, PlaceOrder, BeginInitialize, CustomerPays,
       LockPayment, AskPaystack, ReadOrder, ApplySuccess, ApplyFailure,
       BeginCancel, CommitCancel, BeginOpen, FindNoConflict, CommitOpen,
       BeginClose, DeleteSnapshot, DeleteNothing, Aggregate, SelectOrders,
       CommitClose, vars, payVars
  <2>2. payOrder'[p] = req[r].order /\ UNCHANGED orderStatus
    BY <1>2, <2>1 DEF InsertPayment, orderVars, BaseInv, TypeOK
  <2>3. orderStatus[req[r].order] # "NotPlaced"
    BY <2>1 DEF InsertPayment, At, PaidInv, LocalsPaid
  <2> QED BY <2>2, <2>3
<1> QED BY <1>1, <1>2

\* A step of one request preserves PaidInv if the orders it advances and the
\* orders it counts are paid, and what it remembers is true.
LEMMA PaidFrame ==
    ASSUME BaseInv, PaidInv, [Next]_vars,
           NEW r \in Req, NEW s \in RequestStates, Goto(r, s), LocalsPaid(s)',
           \A o \in Orders :
               \/ orderStatus'[o] = orderStatus[o]
               \/ orderStatus'[o] \in {"PENDING_PAYMENT", "CANCELLED"}
               \/ Paid(o)',
           \A c \in Cycles : \A o \in snapshot'[c] :
               \/ o \in snapshot[c]
               \/ o \in Orders /\ c \in orderCycles'[o] /\ Paid(o)'
    PROVE  PaidInv'
<1>1. AdvancedOrdersArePaid'
  <2> SUFFICES ASSUME NEW o \in Orders,
                      orderStatus'[o] \in {"CONFIRMED", "PROCUREMENT", "REFUNDED"}
               PROVE  Paid(o)'
    BY DEF AdvancedOrdersArePaid, Paid
  <2>1. CASE orderStatus'[o] = orderStatus[o]
    BY <2>1, PaidIsForEver DEF PaidInv, AdvancedOrdersArePaid, Paid
  <2> QED BY <2>1
<1>2. SnapshotCountsPaidOrders'
  <2> SUFFICES ASSUME NEW c \in Cycles, NEW o \in snapshot'[c]
               PROVE  c \in orderCycles'[o] /\ Paid(o)'
    BY DEF SnapshotCountsPaidOrders, Paid
  <2>1. CASE o \in snapshot[c]
    <3>1. o \in Orders /\ c \in orderCycles[o] /\ Paid(o)
      BY <2>1 DEF PaidInv, SnapshotCountsPaidOrders, Paid, BaseInv, TypeOK
    <3> QED BY <3>1, PaidIsForEver, PaidArePlaced, OrderStep
  <2> QED BY <2>1
<1>3. \A q \in Req : LocalsPaid(req[q])'
  <2> SUFFICES ASSUME NEW q \in Req PROVE LocalsPaid(req[q])'
    OBVIOUS
  <2>1. req[q] \in RequestStates /\ LocalsPaid(req[q])
    BY DEF BaseInv, TypeOK, PaidInv
  <2>2. PICK t \in RequestStates : t = req'[q] /\ LocalsPaid(t)'
    <3>1. CASE q = r
      BY <3>1, GotoType DEF BaseInv, TypeOK
    <3>2. CASE q # r
      BY <3>2, <2>1, GotoType, LocalsStayPaid DEF BaseInv, TypeOK
    <3> QED BY <3>1, <3>2
  <2> QED BY <2>2 DEF LocalsPaid
<1> QED BY <1>1, <1>2, <1>3, PaymentsStayPlaced DEF PaidInv

\* Steps that only change what one handler remembers.
LEMMA PaidRead ==
    ASSUME BaseInv, PaidInv, [Next]_vars, UNCHANGED <<orderVars, cycleVars>>,
           NEW r \in Req, NEW s \in RequestStates, Goto(r, s), LocalsPaid(s)'
    PROVE  PaidInv'
BY PaidFrame DEF orderVars, cycleVars

\* Handlers that remember nothing PaidInv speaks of.
LEMMA LocalsPaidTrivially ==
    ASSUME NEW s \in RequestStates,
           s.pc \notin {"initialize", "cancel", "aggregated", "selected"}
    PROVE  LocalsPaid(s)'
BY DEF LocalsPaid

LEMMA CheckoutPaid ==
    ASSUME BaseInv, PaidInv, [Next]_vars, NEW r \in Req, Checkout(r)
    PROVE  PaidInv'
<1>1. ASSUME NEW c \in Cycles, ResolveLine(r, c) PROVE PaidInv'
  <2> DEFINE S == {c} \cup (IF At(r, "idle") THEN {} ELSE req[r].lines)
             s == [pc |-> "checkout", lines |-> S]
  <2>1. S \in SUBSET Cycles
    BY <1>1, LocalsType DEF ResolveLine, At, BaseInv, TypeOK
  <2>2. s \in RequestStates /\ Goto(r, s) /\ s.pc = "checkout"
    BY <1>1, <2>1, NewLocalsType DEF ResolveLine
  <2> HIDE DEF s
  <2> QED BY <1>1, <2>2, LocalsPaidTrivially, PaidRead DEF ResolveLine
<1>2. ASSUME NEW o \in Orders, PlaceOrder(r, o) PROVE PaidInv'
  <2>1. Idle \in RequestStates /\ LocalsPaid(Idle)'
    BY NewLocalsType, LocalsPaidTrivially DEF Idle
  <2>2. \A x \in Orders : \/ orderStatus'[x] = orderStatus[x]
                          \/ orderStatus'[x] = "PENDING_PAYMENT"
    BY <1>2 DEF PlaceOrder, BaseInv, TypeOK
  <2> QED BY <1>2, <2>1, <2>2, PaidFrame DEF PlaceOrder, cycleVars
<1> QED BY <1>1, <1>2 DEF Checkout

LEMMA InitializePaid ==
    ASSUME BaseInv, PaidInv, [Next]_vars, NEW r \in Req, Initialize(r)
    PROVE  PaidInv'
<1>1. ASSUME NEW o \in Orders, BeginInitialize(r, o) PROVE PaidInv'
  <2> DEFINE s == [pc |-> "initialize", order |-> o]
  <2>1. s \in RequestStates
    BY NewLocalsType
  <2>2. LocalsPaid(s)'
    BY <1>1 DEF BeginInitialize, LocalsPaid, orderVars
  <2> QED BY <1>1, <2>1, <2>2, PaidRead DEF BeginInitialize
<1>2. ASSUME NEW p \in Payments, InsertPayment(r, p) PROVE PaidInv'
  <2>1. Idle \in RequestStates /\ LocalsPaid(Idle)'
    BY NewLocalsType, LocalsPaidTrivially DEF Idle
  <2> QED BY <1>2, <2>1, PaidRead DEF InsertPayment
<1> QED BY <1>1, <1>2 DEF Initialize

LEMMA VerifyPaid ==
    ASSUME BaseInv, PaidInv, [Next]_vars, NEW r \in Req, Verify(r)
    PROVE  PaidInv'
<1> DEFINE p == req[r].payment
<1>1. ASSUME NEW x \in Payments, LockPayment(r, x) PROVE PaidInv'
  <2> DEFINE s == [pc |-> "locked", payment |-> x]
  <2>1. s \in RequestStates /\ LocalsPaid(s)'
    BY NewLocalsType, LocalsPaidTrivially
  <2> QED BY <1>1, <2>1, PaidRead DEF LockPayment
<1>2. CASE AskPaystack(r)
  <2>1. PICK a \in {"success", "other"} :
           Goto(r, [pc |-> "answered", payment |-> p, answer |-> a])
    BY <1>2 DEF AskPaystack
  <2>2. p \in Payments
    BY <1>2, LocalsType DEF AskPaystack, At, BaseInv, TypeOK
  <2>3. PICK s \in RequestStates : Goto(r, s) /\ s.pc = "answered"
    BY <2>1, <2>2, NewLocalsType
  <2>4. LocalsPaid(s)'
    BY <2>3 DEF LocalsPaid
  <2> QED BY <1>2, <2>3, <2>4, PaidRead DEF AskPaystack
<1>3. CASE ReadOrder(r)
  <2>1. p \in Payments /\ req[r].answer \in {"success", "other"} /\ Holds(r, p)
    BY <1>3, LocalsType DEF ReadOrder, At, Holds, BaseInv, TypeOK
  <2>2. orderStatus[payOrder[p]] \in Lifecycle!CommittedStatuses
    BY <2>1 DEF BaseInv, TypeOK, LockInv, LockedPaymentsArePending,
       PaymentRowsHaveOrder
  <2>3. PICK s \in RequestStates : Goto(r, s) /\ s.pc = "applying"
    BY <1>3, <2>1, <2>2, NewLocalsType DEF ReadOrder
  <2>4. LocalsPaid(s)'
    BY <2>3 DEF LocalsPaid
  <2> QED BY <1>3, <2>3, <2>4, PaidRead DEF ReadOrder
<1>4. CASE ApplySuccess(r)
  <2>1. p \in Payments /\ Holds(r, p)
    BY <1>4, LocalsType DEF ApplySuccess, At, Holds, BaseInv, TypeOK
  <2>2. PICK x \in Payments, o \in Orders : x = p /\ o = payOrder[x]
    BY <2>1 DEF BaseInv, LockInv, LockedPaymentsArePending, PaymentRowsHaveOrder
  <2>3. Paid(o)'
    <3>1. payOrder'[x] = o /\ payStatus'[x] = "SUCCESSFUL"
      BY <1>4, <2>2 DEF ApplySuccess, BaseInv, TypeOK
    <3> QED BY <3>1 DEF Paid, SuccessfulPaymentsOf
  <2>4. \A y \in Orders : orderStatus'[y] = orderStatus[y] \/ Paid(y)'
    <3>1. \A y \in Orders : y # o => orderStatus'[y] = orderStatus[y]
      BY <1>4, <2>2 DEF ApplySuccess, BaseInv, TypeOK
    <3> QED BY <2>3, <3>1
  <2>5. Idle \in RequestStates /\ LocalsPaid(Idle)'
    BY NewLocalsType, LocalsPaidTrivially DEF Idle
  <2> QED BY <1>4, <2>4, <2>5, PaidFrame DEF ApplySuccess, cycleVars
<1>5. CASE ApplyFailure(r)
  <2>1. Idle \in RequestStates /\ LocalsPaid(Idle)'
    BY NewLocalsType, LocalsPaidTrivially DEF Idle
  <2> QED BY <1>5, <2>1, PaidRead DEF ApplyFailure
<1> QED BY <1>1, <1>2, <1>3, <1>4, <1>5 DEF Verify

LEMMA CancelPaid ==
    ASSUME BaseInv, PaidInv, [Next]_vars, NEW r \in Req, Cancel(r)
    PROVE  PaidInv'
<1>1. ASSUME NEW o \in Orders, NEW to \in {"CANCELLED", "REFUNDED"},
             BeginCancel(r, o, to)
      PROVE  PaidInv'
  <2> DEFINE s == [pc |-> "cancel", order |-> o, to |-> to]
  <2>1. s \in RequestStates
    BY NewLocalsType
  <2>2. orderStatus[o] # "NotPlaced"
    BY <1>1 DEF BeginCancel, Lifecycle!CanMove, Lifecycle!AllowedTransitions
  <2>3. to = "REFUNDED" => orderStatus[o] = "CONFIRMED"
    BY <1>1 DEF BeginCancel, Lifecycle!CanMove, Lifecycle!AllowedTransitions,
       BaseInv, TypeOK, Lifecycle!CommittedStatuses
  <2>4. to = "REFUNDED" => Paid(o)'
    BY <2>3, PaidIsForEver DEF PaidInv, AdvancedOrdersArePaid, Paid
  <2>5. LocalsPaid(s)'
    BY <1>1, <2>2, <2>4 DEF BeginCancel, LocalsPaid, orderVars
  <2> QED BY <1>1, <2>1, <2>5, PaidRead DEF BeginCancel
<1>2. CASE CommitCancel(r)
  <2>1. req[r].order \in Orders /\ req[r].to \in {"CANCELLED", "REFUNDED"}
    BY <1>2, LocalsType DEF CommitCancel, At, BaseInv, TypeOK
  <2>2. PICK o \in Orders, to \in {"CANCELLED", "REFUNDED"} :
           o = req[r].order /\ to = req[r].to
    BY <2>1
  <2>3. \A x \in Orders : \/ orderStatus'[x] = orderStatus[x]
                          \/ orderStatus'[x] = "CANCELLED"
                          \/ Paid(x)'
    <3>1. to = "REFUNDED" => Paid(o)
      BY <1>2, <2>2 DEF CommitCancel, At, PaidInv, LocalsPaid
    <3>2. to = "REFUNDED" => Paid(o)'
      BY <3>1, PaidIsForEver
    <3>3. \A x \in Orders : x # o => orderStatus'[x] = orderStatus[x]
      BY <1>2, <2>2 DEF CommitCancel, BaseInv, TypeOK
    <3>4. orderStatus'[o] = to
      BY <1>2, <2>2 DEF CommitCancel, BaseInv, TypeOK
    <3> QED BY <3>2, <3>3, <3>4
  <2>4. Idle \in RequestStates /\ LocalsPaid(Idle)'
    BY NewLocalsType, LocalsPaidTrivially DEF Idle
  <2> QED BY <1>2, <2>3, <2>4, PaidFrame DEF CommitCancel, cycleVars
<1> QED BY <1>1, <1>2 DEF Cancel

LEMMA OpenPaid ==
    ASSUME BaseInv, PaidInv, [Next]_vars, NEW r \in Req, Open(r)
    PROVE  PaidInv'
<1>1. ASSUME NEW c \in Cycles, BeginOpen(r, c) PROVE PaidInv'
  <2> DEFINE s == [pc |-> "opening", cycle |-> c]
  <2>1. s \in RequestStates /\ LocalsPaid(s)'
    BY NewLocalsType, LocalsPaidTrivially
  <2> QED BY <1>1, <2>1, PaidRead DEF BeginOpen
<1>2. CASE FindNoConflict(r)
  <2>1. req[r].cycle \in Cycles
    BY <1>2, LocalsType DEF FindNoConflict, At, BaseInv, TypeOK
  <2>2. PICK s \in RequestStates : Goto(r, s) /\ s.pc = "openable"
    BY <1>2, <2>1, NewLocalsType DEF FindNoConflict
  <2>3. LocalsPaid(s)'
    BY <2>2 DEF LocalsPaid
  <2> QED BY <1>2, <2>2, <2>3, PaidRead DEF FindNoConflict
<1>3. CASE CommitOpen(r)
  <2>1. Idle \in RequestStates /\ LocalsPaid(Idle)'
    BY NewLocalsType, LocalsPaidTrivially DEF Idle
  <2> QED BY <1>3, <2>1, PaidFrame DEF CommitOpen, orderVars
<1> QED BY <1>1, <1>2, <1>3 DEF Open

LEMMA ClosePaid ==
    ASSUME BaseInv, PaidInv, [Next]_vars, NEW r \in Req, Close(r)
    PROVE  PaidInv'
<1>1. ASSUME NEW c \in Cycles, BeginClose(r, c) PROVE PaidInv'
  <2> DEFINE s == [pc |-> "closing", cycle |-> c]
  <2>1. s \in RequestStates /\ LocalsPaid(s)'
    BY NewLocalsType, LocalsPaidTrivially
  <2> QED BY <1>1, <2>1, PaidRead DEF BeginClose
<1>2. CASE DeleteSnapshot(r) \/ DeleteNothing(r)
  <2>1. req[r].cycle \in Cycles
    BY <1>2, LocalsType DEF DeleteSnapshot, DeleteNothing, At, BaseInv, TypeOK
  <2>2. PICK d \in {"none", "deleted"} :
           Goto(r, [pc |-> "cleared", cycle |-> req[r].cycle, old |-> d])
    BY <1>2 DEF DeleteSnapshot, DeleteNothing
  <2>3. PICK s \in RequestStates : Goto(r, s) /\ s.pc = "cleared"
    BY <2>1, <2>2, NewLocalsType
  <2>4. LocalsPaid(s)'
    BY <2>3 DEF LocalsPaid
  <2> QED BY <1>2, <2>3, <2>4, PaidRead DEF DeleteSnapshot, DeleteNothing
<1>3. CASE Aggregate(r)
  <2>1. PICK c \in Cycles, d \in {"none", "deleted"} :
           c = req[r].cycle /\ d = req[r].old
    BY <1>3, LocalsType DEF Aggregate, At, BaseInv, TypeOK
  <2>2. PICK S \in SUBSET Orders : S = Counted(c)
    BY DEF Counted
  <2> DEFINE s == [pc |-> "aggregated", cycle |-> c, old |-> d, counted |-> S]
  <2>3. s \in RequestStates /\ Goto(r, s)
    BY <1>3, <2>1, <2>2, NewLocalsType DEF Aggregate
  <2>4. \A o \in S : c \in orderCycles[o] /\ Paid(o)
    BY <2>2 DEF Counted, PaidInv, AdvancedOrdersArePaid, Paid, BaseInv, TypeOK,
       Lifecycle!CommittedStatuses
  <2>5. LocalsPaid(s)
    BY <2>4 DEF LocalsPaid
  <2> QED BY <1>3, <2>3, <2>5, LocalsStayPaid, PaidRead DEF Aggregate
<1>4. CASE SelectOrders(r)
  <2>1. PICK c \in Cycles, d \in {"none", "deleted"}, S \in SUBSET Orders :
           c = req[r].cycle /\ d = req[r].old /\ S = req[r].counted
    BY <1>4, LocalsType DEF SelectOrders, At, BaseInv, TypeOK
  <2>2. PICK M \in SUBSET Orders : M = FullyInCycle(c)
    BY DEF FullyInCycle
  <2> DEFINE s == [pc |-> "selected", cycle |-> c, old |-> d, counted |-> S,
                   moving |-> M]
  <2>3. s \in RequestStates /\ Goto(r, s)
    BY <1>4, <2>1, <2>2, NewLocalsType DEF SelectOrders
  <2>4. \A o \in M : Paid(o)
    BY <2>2 DEF FullyInCycle, PaidInv, AdvancedOrdersArePaid, Paid
  <2>5. \A o \in S : c \in orderCycles[o] /\ Paid(o)
    BY <1>4, <2>1 DEF SelectOrders, At, PaidInv, LocalsPaid
  <2>6. LocalsPaid(s)
    BY <2>4, <2>5 DEF LocalsPaid
  <2> QED BY <1>4, <2>3, <2>6, LocalsStayPaid, PaidRead DEF SelectOrders
<1>5. CASE CommitClose(r)
  <2>1. PICK s \in RequestStates :
           s = req[r] /\ s.pc = "selected" /\ LocalsPaid(s)
    BY <1>5 DEF CommitClose, At, BaseInv, TypeOK, PaidInv
  <2>2. LocalsPaid(s)'
    BY <2>1, LocalsStayPaid
  <2>3. \A o \in Orders : orderStatus'[o] = orderStatus[o] \/ Paid(o)'
    BY <1>5, <2>1, <2>2 DEF CommitClose, LocalsPaid
  <2>4. \A c \in Cycles : \A o \in snapshot'[c] :
           \/ o \in snapshot[c]
           \/ o \in Orders /\ c \in orderCycles'[o] /\ Paid(o)'
    <3>1. s.cycle \in Cycles /\ s.counted \in SUBSET Orders
      BY <2>1, LocalsType
    <3>2. \A o \in s.counted : s.cycle \in orderCycles'[o] /\ Paid(o)'
      BY <2>1, <2>2 DEF LocalsPaid
    <3>3. \A c \in Cycles : c # s.cycle => snapshot'[c] = snapshot[c]
      BY <1>5, <2>1 DEF CommitClose, BaseInv, TypeOK
    <3>4. snapshot'[s.cycle] \subseteq snapshot[s.cycle] \cup s.counted
      BY <1>5, <2>1, <3>1 DEF CommitClose, BaseInv, TypeOK
    <3> QED BY <3>1, <3>2, <3>3, <3>4
  <2>5. Idle \in RequestStates /\ LocalsPaid(Idle)'
    BY NewLocalsType, LocalsPaidTrivially DEF Idle
  <2> QED BY <1>5, <2>3, <2>4, <2>5, PaidFrame DEF CommitClose
<1> QED BY <1>1, <1>2, <1>3, <1>4, <1>5 DEF Close

LEMMA OtherPaid ==
    ASSUME BaseInv, PaidInv, [Next]_vars,
           \/ \E r \in Req : Rollback(r)
           \/ \E p \in Payments : CustomerPays(p)
           \/ UNCHANGED vars
    PROVE  PaidInv'
<1>1. ASSUME NEW r \in Req, Rollback(r) PROVE PaidInv'
  <2>1. Idle \in RequestStates /\ LocalsPaid(Idle)'
    BY NewLocalsType, LocalsPaidTrivially DEF Idle
  <2> QED BY <1>1, <2>1, PaidRead DEF Rollback
<1>2. CASE UNCHANGED <<orderVars, payVars, cycleVars, req>>
  BY <1>2 DEF PaidInv, AdvancedOrdersArePaid, SnapshotCountsPaidOrders,
     PaymentsAreOfPlacedOrders, LocalsPaid, Paid, SuccessfulPaymentsOf,
     orderVars, payVars, cycleVars
<1> QED BY <1>1, <1>2 DEF CustomerPays, vars, orderVars, payVars, cycleVars

LEMMA PaidInvariance == Spec => []PaidInv
<1>1. Init => PaidInv
  BY NoOrderAssumption
     DEF Init, PaidInv, AdvancedOrdersArePaid, SnapshotCountsPaidOrders,
     PaymentsAreOfPlacedOrders, LocalsPaid, Idle
<1>2. BaseInv /\ PaidInv /\ [Next]_vars => PaidInv'
  BY CheckoutPaid, InitializePaid, VerifyPaid, CancelPaid, OpenPaid, ClosePaid,
     OtherPaid DEF Next, Req
<1> QED BY <1>1, <1>2, BaseInvariance, PTL DEF Spec

\* However checkouts, verifications, refunds and closings overlap, no order is
\* confirmed, procured or refunded that nobody paid for.
THEOREM OnlyPaidOrdersAdvance == Spec => []AdvancedOrdersArePaid
<1>1. PaidInv => AdvancedOrdersArePaid
  BY DEF PaidInv
<1> QED BY <1>1, PaidInvariance, PTL

\* However they overlap, a cycle's procurement quantities are those of paid
\* orders that have a line in the cycle.
THEOREM OnlyPaidOrdersAreCounted == Spec => []SnapshotCountsPaidOrders
<1>1. PaidInv => SnapshotCountsPaidOrders
  BY DEF PaidInv
<1> QED BY <1>1, PaidInvariance, PTL
-----------------------------------------------------------------------------
(* Paystack's answers.  A verification acts on an answer it got before it  *)
(* read the order; the answer "success" does not go stale, since captured  *)
(* money stays captured.                                                   *)

AnswersAreCharges ==
    ~MockMode => \A r \in Req :
        req[r].pc \in {"answered", "applying"} /\ req[r].answer = "success" =>
            req[r].payment \in charged

ChargedInv == SuccessfulPaymentsAreCharged /\ AnswersAreCharges

\* What one step does to the handlers: one of them moves on, or none does.
LEMMA HandlerStep ==
    ASSUME BaseInv, [Next]_vars
    PROVE  \/ UNCHANGED req
           \/ \E r \in Req :
                 /\ \A q \in Req : q # r => req'[q] = req[q]
                 /\ \/ req'[r].pc \notin {"answered", "applying"}
                    \/ AskPaystack(r)
                    \/ ReadOrder(r)
<1> USE DEF BaseInv, TypeOK
<1> DEFINE Others(r) == \A q \in Req : q # r => req'[q] = req[q]
           Quiet(r)  == Others(r) /\ req'[r].pc \notin {"answered", "applying"}
<1>1. ASSUME NEW r \in Req, Checkout(r) \/ Initialize(r) PROVE Quiet(r)
  BY <1>1 DEF Checkout, Initialize, ResolveLine, PlaceOrder, BeginInitialize,
     InsertPayment, Goto, Idle
<1>2. ASSUME NEW r \in Req, Verify(r)
      PROVE  Quiet(r) \/ (Others(r) /\ (AskPaystack(r) \/ ReadOrder(r)))
  <2>1. CASE AskPaystack(r) \/ ReadOrder(r)
    BY <2>1 DEF AskPaystack, ReadOrder, Goto
  <2>2. CASE \E p \in Payments : LockPayment(r, p)
    BY <2>2 DEF LockPayment, Goto
  <2>3. CASE ApplySuccess(r) \/ ApplyFailure(r)
    <3>1. Goto(r, Idle)
      BY <2>3 DEF ApplySuccess, ApplyFailure
    <3> QED BY <3>1 DEF Goto, Idle
  <2> QED BY <1>2, <2>1, <2>2, <2>3 DEF Verify
<1>3. ASSUME NEW r \in Req, Cancel(r) \/ Open(r) PROVE Quiet(r)
  BY <1>3 DEF Cancel, Open, BeginCancel, CommitCancel, BeginOpen,
     FindNoConflict, CommitOpen, Goto, Idle
<1>4. ASSUME NEW r \in Req, Close(r) PROVE Quiet(r)
  BY <1>4 DEF Close, BeginClose, DeleteSnapshot, DeleteNothing, Aggregate,
     SelectOrders, CommitClose, Goto, Idle
<1>5. ASSUME NEW r \in Req, Rollback(r) PROVE Quiet(r)
  BY <1>5 DEF Rollback, Goto, Idle
<1> QED BY <1>1, <1>2, <1>3, <1>4, <1>5 DEF Next, Req, CustomerPays, vars

LEMMA ChargedStep ==
    ASSUME BaseInv, ChargedInv, [Next]_vars
    PROVE  ChargedInv'
<1> USE DEF BaseInv, TypeOK
<1>1. charged \subseteq charged'
  BY ChargesGrow
<1>2. AnswersAreCharges'
  <2> SUFFICES ASSUME ~MockMode,
                      NEW q \in Req, req'[q].pc \in {"answered", "applying"},
                      req'[q].answer = "success"
               PROVE  req'[q].payment \in charged'
    BY DEF AnswersAreCharges
  <2>1. CASE req'[q] = req[q]
    BY <2>1, <1>1 DEF ChargedInv, AnswersAreCharges
  <2>2. CASE AskPaystack(q)
    BY <2>2 DEF AskPaystack, Goto
  <2>3. CASE ReadOrder(q)
    BY <2>3, <1>1 DEF ReadOrder, Goto, At, ChargedInv, AnswersAreCharges
  <2> QED BY <2>1, <2>2, <2>3, HandlerStep
<1>3. SuccessfulPaymentsAreCharged'
  <2> SUFFICES ASSUME ~MockMode,
                      NEW p \in Payments, payStatus'[p] = "SUCCESSFUL"
               PROVE  p \in charged'
    BY DEF SuccessfulPaymentsAreCharged
  <2>1. CASE payStatus[p] = "SUCCESSFUL"
    BY <2>1, <1>1 DEF ChargedInv, SuccessfulPaymentsAreCharged
  <2>2. CASE payStatus[p] # "SUCCESSFUL"
    <3>1. PICK r \in Req : ApplySuccess(r) /\ req[r].payment = p
      BY <2>2, PaymentWriters
         DEF InsertPayment, ApplySuccess, ApplyFailure, payVars
    <3> QED BY <3>1, <1>1 DEF ApplySuccess, At, ChargedInv, AnswersAreCharges
  <2> QED BY <2>1, <2>2
<1> QED BY <1>2, <1>3 DEF ChargedInv

\* Whatever answers are late and whoever else verifies, a payment is recorded
\* as successful only when Paystack has captured its money, unless the backend
\* runs without a Paystack key and takes every payment as made.
THEOREM OnlyChargedPaymentsSucceed == Spec => []SuccessfulPaymentsAreCharged
<1>1. Init => ChargedInv
  BY DEF Init, ChargedInv, SuccessfulPaymentsAreCharged, AnswersAreCharges, Idle
<1>2. BaseInv /\ ChargedInv /\ [Next]_vars => ChargedInv'
  BY ChargedStep
<1>3. ChargedInv => SuccessfulPaymentsAreCharged
  BY DEF ChargedInv
<1> QED BY <1>1, <1>2, <1>3, BaseInvariance, PTL DEF Spec
-----------------------------------------------------------------------------
(* Each payment is applied to its order once: the entry PAID and the       *)
(* payment's move to SUCCESSFUL are one commit, under the payment's lock.  *)

PaidEntries(o) == {i \in DOMAIN history[o] : history[o][i] = "PAID"}

ApplyInv ==
    \A o \in Orders :
        /\ IsFiniteSet(SuccessfulPaymentsOf(o))
        /\ IsFiniteSet(PaidEntries(o))
        /\ Cardinality(PaidEntries(o)) <= Cardinality(SuccessfulPaymentsOf(o))

\* The PAID entries of a history that something is appended to.
LEMMA AppendedEntries ==
    ASSUME NEW S, NEW h \in Seq(S), NEW t \in Seq(S)
    PROVE  \A i \in DOMAIN (h \o t) : (h \o t)[i] = "PAID" =>
              \/ i \in DOMAIN h /\ h[i] = "PAID"
              \/ \E j \in DOMAIN t : i = Len(h) + j /\ t[j] = "PAID"
OBVIOUS

\* A step that records no new PAID entry and takes no payment's success away.
LEMMA ApplyFrame ==
    ASSUME ApplyInv, NEW o \in Orders, PaidEntries(o)' \subseteq PaidEntries(o),
           SuccessfulPaymentsOf(o)' = SuccessfulPaymentsOf(o)
    PROVE  /\ IsFiniteSet(SuccessfulPaymentsOf(o)')
           /\ IsFiniteSet(PaidEntries(o)')
           /\ Cardinality(PaidEntries(o)') <= Cardinality(SuccessfulPaymentsOf(o)')
<1>1. /\ IsFiniteSet(SuccessfulPaymentsOf(o))
      /\ IsFiniteSet(PaidEntries(o))
      /\ Cardinality(PaidEntries(o)) <= Cardinality(SuccessfulPaymentsOf(o))
  BY DEF ApplyInv
<1>2. /\ IsFiniteSet(PaidEntries(o)')
      /\ Cardinality(PaidEntries(o)') <= Cardinality(PaidEntries(o))
  BY <1>1, FS_Subset
<1>3. /\ Cardinality(PaidEntries(o)') \in Nat
      /\ Cardinality(PaidEntries(o)) \in Nat
      /\ Cardinality(SuccessfulPaymentsOf(o)) \in Nat
  BY <1>1, <1>2, FS_CardinalityType
<1> QED BY <1>1, <1>2, <1>3

\* A step that may record one PAID entry, with one more successful payment.
LEMMA ApplyOne ==
    ASSUME ApplyInv, NEW o \in Orders, NEW p, NEW n,
           PaidEntries(o)' \subseteq PaidEntries(o) \cup {n},
           SuccessfulPaymentsOf(o)' = SuccessfulPaymentsOf(o) \cup {p},
           p \notin SuccessfulPaymentsOf(o)
    PROVE  /\ IsFiniteSet(SuccessfulPaymentsOf(o)')
           /\ IsFiniteSet(PaidEntries(o)')
           /\ Cardinality(PaidEntries(o)') <= Cardinality(SuccessfulPaymentsOf(o)')
<1>1. /\ IsFiniteSet(SuccessfulPaymentsOf(o))
      /\ IsFiniteSet(PaidEntries(o))
      /\ Cardinality(PaidEntries(o)) <= Cardinality(SuccessfulPaymentsOf(o))
  BY DEF ApplyInv
<1>2. /\ Cardinality(PaidEntries(o)) \in Nat
      /\ Cardinality(SuccessfulPaymentsOf(o)) \in Nat
  BY <1>1, FS_CardinalityType
<1>3. /\ IsFiniteSet(PaidEntries(o) \cup {n})
      /\ Cardinality(PaidEntries(o) \cup {n}) <= Cardinality(PaidEntries(o)) + 1
  <2>1. /\ IsFiniteSet(PaidEntries(o) \cup {n})
        /\ Cardinality(PaidEntries(o) \cup {n}) =
             IF n \in PaidEntries(o) THEN Cardinality(PaidEntries(o))
                                     ELSE Cardinality(PaidEntries(o)) + 1
    BY <1>1, FS_AddElement
  <2> QED BY <1>2, <2>1
<1>4. /\ IsFiniteSet(PaidEntries(o)')
      /\ Cardinality(PaidEntries(o)') <= Cardinality(PaidEntries(o) \cup {n})
  BY <1>3, FS_Subset
<1>5. /\ Cardinality(PaidEntries(o)') \in Nat
      /\ Cardinality(PaidEntries(o) \cup {n}) \in Nat
  BY <1>3, <1>4, FS_CardinalityType
<1>6. /\ IsFiniteSet(SuccessfulPaymentsOf(o) \cup {p})
      /\ Cardinality(SuccessfulPaymentsOf(o) \cup {p})
           = Cardinality(SuccessfulPaymentsOf(o)) + 1
  BY <1>1, FS_AddElement
<1> QED BY <1>1, <1>2, <1>3, <1>4, <1>5, <1>6

LEMMA ApplyStep ==
    ASSUME BaseInv, ApplyInv, [Next]_vars
    PROVE  ApplyInv'
<1> USE DEF BaseInv, TypeOK
<1> SUFFICES ASSUME NEW o \in Orders
             PROVE  /\ IsFiniteSet(SuccessfulPaymentsOf(o)')
                    /\ IsFiniteSet(PaidEntries(o)')
                    /\ Cardinality(PaidEntries(o)')
                         <= Cardinality(SuccessfulPaymentsOf(o)')
  BY DEF ApplyInv
<1>1. CASE \E r \in Req : ApplySuccess(r)
  <2>1. PICK r \in Req, p \in Payments : ApplySuccess(r) /\ p = req[r].payment
    BY <1>1, LocalsType DEF ApplySuccess, At
  <2>2. payStatus[p] = "PENDING"
    BY <2>1 DEF ApplySuccess, At, Holds, LockInv, LockedPaymentsArePending
  <2>3. payStatus' = [payStatus EXCEPT ![p] = "SUCCESSFUL"] /\ payOrder' = payOrder
    BY <2>1 DEF ApplySuccess
  <2>4. CASE payOrder[p] = o
    <3>1. SuccessfulPaymentsOf(o)' = SuccessfulPaymentsOf(o) \cup {p}
      BY <2>3, <2>4 DEF SuccessfulPaymentsOf
    <3>2. p \notin SuccessfulPaymentsOf(o)
      BY <2>2 DEF SuccessfulPaymentsOf
    <3>3. \/ history'[o] = history[o]
          \/ history'[o] = history[o] \o <<"PAID", "CONFIRMED">>
      BY <2>1, <2>4 DEF ApplySuccess
    <3>4. PaidEntries(o)' \subseteq PaidEntries(o) \cup {Len(history[o]) + 1}
      <4>1. CASE history'[o] = history[o]
        BY <4>1 DEF PaidEntries
      <4>2. CASE history'[o] = history[o] \o <<"PAID", "CONFIRMED">>
        <5>1. /\ history[o] \in Seq(Lifecycle!OrderStatuses)
              /\ <<"PAID", "CONFIRMED">> \in Seq(Lifecycle!OrderStatuses)
          BY DEF Lifecycle!OrderStatuses
        <5> QED BY <4>2, <5>1, AppendedEntries DEF PaidEntries
      <4> QED BY <3>3, <4>1, <4>2
    <3> QED BY <3>1, <3>2, <3>4, ApplyOne
  <2>5. CASE payOrder[p] # o
    <3>1. SuccessfulPaymentsOf(o)' = SuccessfulPaymentsOf(o)
      BY <2>3, <2>5 DEF SuccessfulPaymentsOf
    <3>2. history'[o] = history[o]
      BY <2>1, <2>5 DEF ApplySuccess
    <3> QED BY <3>1, <3>2, ApplyFrame DEF PaidEntries
  <2> QED BY <2>4, <2>5
<1>2. CASE ~ \E r \in Req : ApplySuccess(r)
  <2>1. SuccessfulPaymentsOf(o)' = SuccessfulPaymentsOf(o)
    <3>1. \A p \in Payments :
             \/ payStatus'[p] = payStatus[p] /\ payOrder'[p] = payOrder[p]
             \/ payStatus[p] # "SUCCESSFUL" /\ payStatus'[p] # "SUCCESSFUL"
      <4>1. CASE UNCHANGED payVars
        BY <4>1 DEF payVars
      <4>2. CASE \E r \in Req, x \in Payments : InsertPayment(r, x)
        BY <4>2 DEF InsertPayment
      <4>3. CASE \E r \in Req : ApplyFailure(r)
        <5>1. PICK r \in Req : ApplyFailure(r)
          BY <4>3
        <5>2. /\ req[r].payment \in Payments
              /\ payStatus[req[r].payment] = "PENDING"
          BY <5>1, LocalsType DEF ApplyFailure, At, Holds, LockInv,
             LockedPaymentsArePending
        <5> QED BY <5>1, <5>2 DEF ApplyFailure
      <4> QED BY <1>2, <4>1, <4>2, <4>3, PaymentWriters
    <3> QED BY <3>1 DEF SuccessfulPaymentsOf
  <2>2. PaidEntries(o)' \subseteq PaidEntries(o)
    <3>1. \/ history'[o] \in {history[o], <<"PENDING_PAYMENT">>}
          \/ \E t \in Seq(Lifecycle!OrderStatuses) :
                /\ history'[o] = history[o] \o t
                /\ \A i \in DOMAIN t : t[i] # "PAID"
      <4>1. CASE UNCHANGED orderVars
        BY <4>1 DEF orderVars
      <4>2. CASE \E r \in Req, x \in Orders : PlaceOrder(r, x)
        BY <4>2 DEF PlaceOrder
      <4>3. CASE \E r \in Req : CommitCancel(r)
        <5>1. PICK r \in Req : CommitCancel(r)
          BY <4>3
        <5>2. req[r].order \in Orders /\ req[r].to \in {"CANCELLED", "REFUNDED"}
          BY <5>1, LocalsType DEF CommitCancel, At
        <5>3. CASE req[r].order # o
          BY <5>1, <5>3 DEF CommitCancel
        <5>4. CASE req[r].order = o
          <6> DEFINE t == <<req[r].to>>
          <6>1. t \in Seq(Lifecycle!OrderStatuses) /\ \A i \in DOMAIN t : t[i] # "PAID"
            BY <5>2 DEF Lifecycle!OrderStatuses
          <6>2. history'[o] = history[o] \o t
            BY <5>1, <5>2, <5>4 DEF CommitCancel
          <6> QED BY <6>1, <6>2
        <5> QED BY <5>3, <5>4
      <4>4. CASE \E r \in AdminReq : CommitClose(r)
        <5> DEFINE t == <<"AGGREGATING", "PROCUREMENT">>
        <5>1. t \in Seq(Lifecycle!OrderStatuses) /\ \A i \in DOMAIN t : t[i] # "PAID"
          BY DEF Lifecycle!OrderStatuses
        <5>2. history'[o] \in {history[o], history[o] \o t}
          BY <4>4 DEF CommitClose
        <5> QED BY <5>1, <5>2
      <4> QED BY <1>2, <4>1, <4>2, <4>3, <4>4, OrderWriters
    <3>2. CASE history'[o] \in {history[o], <<"PENDING_PAYMENT">>}
      BY <3>2 DEF PaidEntries
    <3>3. ASSUME NEW t \in Seq(Lifecycle!OrderStatuses),
                 history'[o] = history[o] \o t, \A i \in DOMAIN t : t[i] # "PAID"
          PROVE  PaidEntries(o)' \subseteq PaidEntries(o)
      <4>1. history[o] \in Seq(Lifecycle!OrderStatuses)
        OBVIOUS
      <4> QED BY <3>3, <4>1, AppendedEntries DEF PaidEntries
    <3> QED BY <3>1, <3>2, <3>3
  <2> QED BY <2>1, <2>2, ApplyFrame
<1> QED BY <1>1, <1>2

\* A replayed webhook, a verify call that overlaps it and a second payment of
\* one order confirm the order at most once per payment that succeeded.
THEOREM PaymentsApplyOnce == Spec => []EachPaymentAppliesOnce
<1>1. Init => ApplyInv
  <2> SUFFICES ASSUME Init, NEW o \in Orders
               PROVE  /\ IsFiniteSet(SuccessfulPaymentsOf(o))
                      /\ IsFiniteSet(PaidEntries(o))
                      /\ Cardinality(PaidEntries(o))
                           <= Cardinality(SuccessfulPaymentsOf(o))
    BY DEF ApplyInv
  <2>1. SuccessfulPaymentsOf(o) = {} /\ PaidEntries(o) = {}
    BY DEF Init, SuccessfulPaymentsOf, PaidEntries
  <2> QED BY <2>1, FS_EmptySet
<1>2. BaseInv /\ ApplyInv /\ [Next]_vars => ApplyInv'
  BY ApplyStep
<1>3. ApplyInv => EachPaymentAppliesOnce
  BY DEF ApplyInv, EachPaymentAppliesOnce, PaidEntries
<1> QED BY <1>1, <1>2, <1>3, BaseInvariance, PTL DEF Spec
=============================================================================
