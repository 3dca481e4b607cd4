---------------------------- MODULE OrderPipeline ----------------------------
(***************************************************************************)
(* The path of an order through the backend: checkout, payment             *)
(* initialisation, payment verification (the customer's call or Paystack's *)
(* webhook), cancellation by an administrator, and the opening and closing *)
(* of the procurement cycles its lines belong to.                          *)
(*                                                                         *)
(* The state is the committed content of the database plus, for every      *)
(* request being served, what its handler has read so far.  A handler is   *)
(* cut at its awaits: every SELECT (READ COMMITTED: each one sees what is  *)
(* committed when it runs) and every call to Paystack is a step, and       *)
(* flush + commit is one step.  The session writes back only the columns   *)
(* it changed, by primary key and with no version check, so a commit is a  *)
(* blind write: it does not look again at what the handler read.           *)
(*                                                                         *)
(* Abstractions: a cycle is for one product, so its aggregation rows are   *)
(* represented by the set of orders whose quantities they sum; the cart of *)
(* a checkout is any non-empty set of lines; a cycle's order window, the   *)
(* address, the product's availability and MOQ only decide whether a       *)
(* checkout is refused, which Rollback covers; notifications and the audit *)
(* log are left out.                                                       *)
(***************************************************************************)
EXTENDS Naturals, Sequences, FiniteSets

CONSTANTS
    Orders,         \* ids of the orders that can be placed (bound)
    Payments,       \* ids of the payments that can be initialised (bound)
    Cycles,         \* procurement cycles
    Categories,     \* product categories, the null one among them
    Category,       \* the category of each cycle
    Pinned,         \* the cycles some product is assigned to
    CustomerReq,    \* concurrent requests of customers and of webhooks
    AdminReq,       \* concurrent requests of administrators
    MockMode,       \* PAYSTACK_SECRET_KEY is blank: Paystack is never asked
    NoOrder         \* payments.order_id of a payment that does not exist

ASSUME CategoryAssumption ==
    /\ Category \in [Cycles -> Categories]
    /\ Pinned \subseteq Cycles

ASSUME MockModeAssumption == MockMode \in BOOLEAN

ASSUME NoOrderAssumption == NoOrder \notin Orders

VARIABLES
    orderStatus,    \* orders.status
    orderCycles,    \* the procurement_cycle_id of an order's items
    history,        \* order_status_history, in insertion order
    payOrder,       \* payments.order_id
    payStatus,      \* payments.status
    charged,        \* the references whose money Paystack has captured
    cycleStatus,    \* procurement_cycles.status
    snapshot,       \* procurement_items: the orders a cycle's rows count
    req             \* the local state of the handler of each request

vars == <<orderStatus, orderCycles, history, payOrder, payStatus, charged,
          cycleStatus, snapshot, req>>

orderVars == <<orderStatus, orderCycles, history>>
payVars   == <<payOrder, payStatus>>
cycleVars == <<cycleStatus, snapshot>>

Lifecycle == INSTANCE OrderLifecycle WITH status <- orderStatus, raced <- {}

CycleLife == INSTANCE CycleLifecycle WITH status <- cycleStatus,
                                          counted <- snapshot, raced <- {}

Req == CustomerReq \cup AdminReq

-----------------------------------------------------------------------------
(* Types.                                                                  *)

PaymentStatuses == {"None", "PENDING", "SUCCESSFUL", "FAILED"}

CycleStatuses == {"DRAFT", "OPEN", "CLOSED"}

Idle == [pc |-> "idle"]

\* One kind of record per point a handler can be suspended at.  "answer" is
\* Paystack's transaction status, "old" says whether close_cycle's DELETE
\* found rows of an earlier snapshot.
RequestStates ==
         [pc : {"idle"}]
    \cup [pc : {"checkout"}, lines : SUBSET Cycles]
    \cup [pc : {"initialize"}, order : Orders]
    \cup [pc : {"locked"}, payment : Payments]
    \cup [pc : {"answered"}, payment : Payments, answer : {"success", "other"}]
    \cup [pc : {"applying"}, payment : Payments, answer : {"success", "other"},
          seen : Lifecycle!CommittedStatuses]
    \cup [pc : {"cancel"}, order : Orders, to : {"CANCELLED", "REFUNDED"}]
    \cup [pc : {"opening", "openable"}, cycle : Cycles]
    \cup [pc : {"closing"}, cycle : Cycles]
    \cup [pc : {"cleared"}, cycle : Cycles, old : {"none", "deleted"}]
    \cup [pc : {"aggregated"}, cycle : Cycles, old : {"none", "deleted"},
          counted : SUBSET Orders]
    \cup [pc : {"selected"}, cycle : Cycles, old : {"none", "deleted"},
          counted : SUBSET Orders, moving : SUBSET Orders]

\* Types of the tables and of the handlers' locals; of the fourteen order
\* statuses only those a transaction ends in are ever committed.
TypeOK ==
    /\ orderStatus \in [Orders -> Lifecycle!CommittedStatuses]
    /\ orderCycles \in [Orders -> SUBSET Cycles]
    /\ history \in [Orders -> Seq(Lifecycle!OrderStatuses)]
    /\ payOrder \in [Payments -> Orders \cup {NoOrder}]
    /\ payStatus \in [Payments -> PaymentStatuses]
    /\ charged \subseteq Payments
    /\ cycleStatus \in [Cycles -> CycleStatuses]
    /\ snapshot \in [Cycles -> SUBSET Orders]
    /\ req \in [Req -> RequestStates]

Init ==
    /\ orderStatus = [o \in Orders |-> "NotPlaced"]
    /\ orderCycles = [o \in Orders |-> {}]
    /\ history = [o \in Orders |-> <<>>]
    /\ payOrder = [p \in Payments |-> NoOrder]
    /\ payStatus = [p \in Payments |-> "None"]
    /\ charged = {}
    /\ cycleStatus = [c \in Cycles |-> "DRAFT"]
    /\ snapshot = [c \in Cycles |-> {}]
    /\ req = [r \in Req |-> Idle]

-----------------------------------------------------------------------------
(* Helpers.                                                                *)

At(r, pc) == req[r].pc = pc

Goto(r, state) == req' = [req EXCEPT ![r] = state]

OpenIn(k) == {c \in Cycles : cycleStatus[c] = "OPEN" /\ Category[c] = k}

\* Faulty variant: unpaid orders are aggregated too.
CountedWithUnpaid(c) ==
    {o \in Orders : /\ c \in orderCycles[o]
                    /\ orderStatus[o] \notin {"NotPlaced", "CANCELLED"}}

\* Faulty variant: a list of statuses to include, from which one is missing.
CountedWithoutConfirmed(c) ==
    {o \in Orders : /\ c \in orderCycles[o]
                    /\ orderStatus[o] \in {"PAID", "AGGREGATING", "PROCUREMENT"}}

\* compute_aggregation: the orders whose items a cycle's report sums.
Counted(c) ==
    {o \in Orders : /\ c \in orderCycles[o]
                    /\ orderStatus[o] \notin
                         {"NotPlaced", "CANCELLED", "PENDING_PAYMENT"}}

\* Faulty variant: the filter on the order's other items is missing.
PartlyInCycle(c) ==
    {o \in Orders : orderStatus[o] = "CONFIRMED" /\ c \in orderCycles[o]}

\* Faulty variant: the filter on CONFIRMED is missing.
FullyInCycleAnyStatus(c) == {o \in Orders : orderCycles[o] = {c}}

\* The orders close_cycle advances: CONFIRMED and with every item in c.
FullyInCycle(c) ==
    {o \in Orders : orderStatus[o] = "CONFIRMED" /\ orderCycles[o] = {c}}

\* A verification holds its payment's row lock until it commits or fails.
Holds(r, p) ==
    req[r].pc \in {"locked", "answered", "applying"} /\ req[r].payment = p

\* A closing whose DELETE removed rows holds their locks.
HoldsOldRows(r, c) ==
    /\ req[r].pc \in {"cleared", "aggregated", "selected"}
    /\ req[r].cycle = c
    /\ req[r].old = "deleted"

-----------------------------------------------------------------------------
(* checkout                                                                *)

\* One turn of the loop over the cart: the line's product resolves to the
\* cycle it is assigned to, or else to the open cycle of its category, of
\* which the query accepts exactly one.
ResolveLine(r, c) ==
    /\ req[r].pc \in {"idle", "checkout"}
    /\ cycleStatus[c] = "OPEN"
    /\ c \in Pinned \/ OpenIn(Category[c]) = {c}
    /\ Goto(r, [pc |-> "checkout",
                lines |-> {c} \cup IF At(r, "idle") THEN {} ELSE req[r].lines])
    /\ UNCHANGED <<orderVars, payVars, charged, cycleVars>>

PlaceOrder(r, o) ==
    /\ At(r, "checkout")
    /\ orderStatus[o] = "NotPlaced"
    /\ orderStatus' = [orderStatus EXCEPT ![o] = "PENDING_PAYMENT"]
    /\ orderCycles' = [orderCycles EXCEPT ![o] = req[r].lines]
    /\ history' = [history EXCEPT ![o] = <<"PENDING_PAYMENT">>]
    /\ Goto(r, Idle)
    /\ UNCHANGED <<payVars, charged, cycleVars>>

-----------------------------------------------------------------------------
(* initialize_payment                                                      *)

BeginInitialize(r, o) ==
    /\ At(r, "idle")
    /\ orderStatus[o] = "PENDING_PAYMENT"
    /\ Goto(r, [pc |-> "initialize", order |-> o])
    /\ UNCHANGED <<orderVars, payVars, charged, cycleVars>>

InsertPayment(r, p) ==
    /\ At(r, "initialize")
    /\ payStatus[p] = "None"
    /\ payStatus' = [payStatus EXCEPT ![p] = "PENDING"]
    /\ payOrder' = [payOrder EXCEPT ![p] = req[r].order]
    /\ Goto(r, Idle)
    /\ UNCHANGED <<orderVars, charged, cycleVars>>

\* The customer pays on Paystack's page, at any time after initialisation; in
\* mock mode there is no such page and no money.
CustomerPays(p) ==
    /\ ~MockMode
    /\ payStatus[p] # "None"
    /\ p \notin charged
    /\ charged' = charged \cup {p}
    /\ UNCHANGED <<orderVars, payVars, cycleVars, req>>

-----------------------------------------------------------------------------
(* verify_and_apply, called by the customer and by the webhook             *)

\* Faulty variant: the payment is read without FOR UPDATE.
ReadPaymentUnlocked(r, p) ==
    /\ At(r, "idle")
    /\ payStatus[p] = "PENDING"
    /\ Goto(r, [pc |-> "locked", payment |-> p])
    /\ UNCHANGED <<orderVars, payVars, charged, cycleVars>>

\* Faulty variant: a payment already applied is verified again.
LockPaymentAgain(r, p) ==
    /\ At(r, "idle")
    /\ \A q \in Req : ~Holds(q, p)
    /\ payStatus[p] # "None"
    /\ Goto(r, [pc |-> "locked", payment |-> p])
    /\ UNCHANGED <<orderVars, payVars, charged, cycleVars>>

\* SELECT ... FOR UPDATE waits for the row lock and then reads the current
\* row; for a payment already SUCCESSFUL or FAILED the handler returns.
LockPayment(r, p) ==
    /\ At(r, "idle")
    /\ \A q \in Req : ~Holds(q, p)
    /\ payStatus[p] = "PENDING"
    /\ Goto(r, [pc |-> "locked", payment |-> p])
    /\ UNCHANGED <<orderVars, payVars, charged, cycleVars>>

\* verify_transaction: in mock mode "success" whatever was paid; otherwise
\* Paystack reports a captured transaction as "success", any other as pending,
\* abandoned or failed.
AskPaystack(r) ==
    /\ At(r, "locked")
    /\ Goto(r, [pc |-> "answered", payment |-> req[r].payment,
                answer |-> IF MockMode \/ req[r].payment \in charged
                           THEN "success" ELSE "other"])
    /\ UNCHANGED <<orderVars, payVars, charged, cycleVars>>

\* The order's row is read without a lock.
ReadOrder(r) ==
    /\ At(r, "answered")
    /\ Goto(r, [pc |-> "applying", payment |-> req[r].payment,
                answer |-> req[r].answer,
                seen |-> orderStatus[payOrder[req[r].payment]]])
    /\ UNCHANGED <<orderVars, payVars, charged, cycleVars>>

\* Faulty variant: Paystack's status is not looked at.
ApplyAnyAnswer(r) ==
    LET p == req[r].payment
        o == payOrder[p]
    IN  /\ At(r, "applying")
        /\ payStatus' = [payStatus EXCEPT ![p] = "SUCCESSFUL"]
        /\ orderStatus' = [orderStatus EXCEPT ![o] = "CONFIRMED"]
        /\ history' = [history EXCEPT ![o] = @ \o <<"PAID", "CONFIRMED">>]
        /\ Goto(r, Idle)
        /\ UNCHANGED <<orderCycles, payOrder, charged, cycleVars>>

\* Faulty variant: the order's own status is not looked at.
ApplyWhateverTheOrder(r) ==
    LET p == req[r].payment
        o == payOrder[p]
    IN  /\ At(r, "applying")
        /\ req[r].answer = "success"
        /\ payStatus' = [payStatus EXCEPT ![p] = "SUCCESSFUL"]
        /\ orderStatus' = [orderStatus EXCEPT ![o] = "CONFIRMED"]
        /\ history' = [history EXCEPT ![o] = @ \o <<"PAID", "CONFIRMED">>]
        /\ Goto(r, Idle)
        /\ UNCHANGED <<orderCycles, payOrder, charged, cycleVars>>

\* "success": the payment is applied, and an order that was awaiting payment
\* goes through PAID to CONFIRMED.
ApplySuccess(r) ==
    LET p == req[r].payment
        o == payOrder[p]
    IN  /\ At(r, "applying")
        /\ req[r].answer = "success"
        /\ payStatus' = [payStatus EXCEPT ![p] = "SUCCESSFUL"]
        /\ IF req[r].seen = "PENDING_PAYMENT"
           THEN /\ orderStatus' = [orderStatus EXCEPT ![o] = "CONFIRMED"]
                /\ history' = [history EXCEPT ![o] =
                                 @ \o <<"PAID", "CONFIRMED">>]
           ELSE UNCHANGED <<orderStatus, history>>
        /\ Goto(r, Idle)
        /\ UNCHANGED <<orderCycles, payOrder, charged, cycleVars>>

\* Anything but "success" fails the payment for good.
ApplyFailure(r) ==
    /\ At(r, "applying")
    /\ req[r].answer # "success"
    /\ payStatus' = [payStatus EXCEPT ![req[r].payment] = "FAILED"]
    /\ Goto(r, Idle)
    /\ UNCHANGED <<orderVars, payOrder, charged, cycleVars>>

-----------------------------------------------------------------------------
(* cancel_order                                                            *)

\* Faulty variant: the move is not validated.
BeginCancelUnchecked(r, o, to) ==
    /\ At(r, "idle")
    /\ orderStatus[o] # "NotPlaced"
    /\ Goto(r, [pc |-> "cancel", order |-> o, to |-> to])
    /\ UNCHANGED <<orderVars, payVars, charged, cycleVars>>

\* transition_order validates the move against the status that was read.
BeginCancel(r, o, to) ==
    /\ At(r, "idle")
    /\ Lifecycle!CanMove(orderStatus[o], to)
    /\ Goto(r, [pc |-> "cancel", order |-> o, to |-> to])
    /\ UNCHANGED <<orderVars, payVars, charged, cycleVars>>

CommitCancel(r) ==
    /\ At(r, "cancel")
    /\ orderStatus' = [orderStatus EXCEPT ![req[r].order] = req[r].to]
    /\ history' = [history EXCEPT ![req[r].order] = Append(@, req[r].to)]
    /\ Goto(r, Idle)
    /\ UNCHANGED <<orderCycles, payVars, charged, cycleVars>>

-----------------------------------------------------------------------------
(* open_cycle                                                              *)

BeginOpen(r, c) ==
    /\ At(r, "idle")
    /\ cycleStatus[c] = "DRAFT"
    /\ Goto(r, [pc |-> "opening", cycle |-> c])
    /\ UNCHANGED <<orderVars, payVars, charged, cycleVars>>

\* Faulty variant: no conflicting cycle is looked for.
SkipConflictQuery(r) ==
    /\ At(r, "opening")
    /\ Goto(r, [pc |-> "openable", cycle |-> req[r].cycle])
    /\ UNCHANGED <<orderVars, payVars, charged, cycleVars>>

\* The query for a conflicting cycle finds none.
FindNoConflict(r) ==
    LET c == req[r].cycle
    IN  /\ At(r, "opening")
        /\ OpenIn(Category[c]) \ {c} = {}
        /\ Goto(r, [pc |-> "openable", cycle |-> c])
        /\ UNCHANGED <<orderVars, payVars, charged, cycleVars>>

CommitOpen(r) ==
    /\ At(r, "openable")
    /\ cycleStatus' = [cycleStatus EXCEPT ![req[r].cycle] = "OPEN"]
    /\ Goto(r, Idle)
    /\ UNCHANGED <<orderVars, payVars, charged, snapshot>>

-----------------------------------------------------------------------------
(* close_cycle                                                             *)

BeginClose(r, c) ==
    /\ At(r, "idle")
    /\ cycleStatus[c] = "OPEN"
    /\ Goto(r, [pc |-> "closing", cycle |-> c])
    /\ UNCHANGED <<orderVars, payVars, charged, cycleVars>>

\* DELETE FROM procurement_items, in the open transaction; it waits for a
\* closing that has already deleted the same rows.
DeleteSnapshot(r) ==
    LET c == req[r].cycle
    IN  /\ At(r, "closing")
        /\ \A q \in Req : ~HoldsOldRows(q, c)
        /\ Goto(r, [pc |-> "cleared", cycle |-> c,
                    old |-> IF snapshot[c] = {} THEN "none" ELSE "deleted"])
        /\ UNCHANGED <<orderVars, payVars, charged, cycleVars>>

\* A DELETE that waited for another closing finds the rows it had seen gone,
\* and does not see the rows that closing committed in their place.
DeleteNothing(r) ==
    LET c == req[r].cycle
    IN  /\ At(r, "closing")
        /\ cycleStatus[c] = "CLOSED"
        /\ \A q \in Req : ~HoldsOldRows(q, c)
        /\ Goto(r, [pc |-> "cleared", cycle |-> c, old |-> "none"])
        /\ UNCHANGED <<orderVars, payVars, charged, cycleVars>>

Aggregate(r) ==
    LET c == req[r].cycle
    IN  /\ At(r, "cleared")
        /\ Goto(r, [pc |-> "aggregated", cycle |-> c, old |-> req[r].old,
                    counted |-> Counted(c)])
        /\ UNCHANGED <<orderVars, payVars, charged, cycleVars>>

SelectOrders(r) ==
    LET c == req[r].cycle
    IN  /\ At(r, "aggregated")
        /\ Goto(r, [pc |-> "selected", cycle |-> c, old |-> req[r].old,
                    counted |-> req[r].counted, moving |-> FullyInCycle(c)])
        /\ UNCHANGED <<orderVars, payVars, charged, cycleVars>>

\* The new rows do not collide with rows another closing has committed since
\* the DELETE (the unique constraint on cycle and product; a collision is a
\* Rollback), nor wait for rows another closing is deleting.
RowsInsertable(r) ==
    LET c == req[r].cycle
    IN  \/ req[r].counted = {}
        \/ req[r].old = "deleted"
        \/ snapshot[c] = {}

\* Faulty variant: the orders are left in the intermediate status.
CommitCloseHalfway(r) ==
    LET c == req[r].cycle
    IN  /\ At(r, "selected")
        /\ cycleStatus' = [cycleStatus EXCEPT ![c] = "CLOSED"]
        /\ snapshot' = [snapshot EXCEPT ![c] = req[r].counted]
        /\ orderStatus' = [o \in Orders |->
                             IF o \in req[r].moving THEN "AGGREGATING"
                                                    ELSE orderStatus[o]]
        /\ history' = [o \in Orders |->
                         IF o \in req[r].moving
                         THEN Append(history[o], "AGGREGATING")
                         ELSE history[o]]
        /\ Goto(r, Idle)
        /\ UNCHANGED <<orderCycles, payVars, charged>>

\* Cycle, snapshot rows and orders are written together; the orders' status
\* is set without transition_order.
CommitClose(r) ==
    LET c      == req[r].cycle
        kept   == IF req[r].old = "deleted" THEN {} ELSE snapshot[c]
        moving == req[r].moving
    IN  /\ At(r, "selected")
        /\ RowsInsertable(r)
        /\ cycleStatus' = [cycleStatus EXCEPT ![c] = "CLOSED"]
        /\ snapshot' = [snapshot EXCEPT ![c] = kept \cup req[r].counted]
        /\ orderStatus' = [o \in Orders |->
                             IF o \in moving THEN "PROCUREMENT"
                                             ELSE orderStatus[o]]
        /\ history' = [o \in Orders |->
                         IF o \in moving
                         THEN history[o] \o <<"AGGREGATING", "PROCUREMENT">>
                         ELSE history[o]]
        /\ Goto(r, Idle)
        /\ UNCHANGED <<orderCycles, payVars, charged>>

-----------------------------------------------------------------------------

\* A handler ends without committing: an HTTPException after a read, a
\* constraint violation, an error or timeout of Paystack, a lost connection
\* or a killed process.  Its session is rolled back and its locks released.
Rollback(r) ==
    /\ ~At(r, "idle")
    /\ Goto(r, Idle)
    /\ UNCHANGED <<orderVars, payVars, charged, cycleVars>>

Checkout(r) ==
    \/ \E c \in Cycles : ResolveLine(r, c)
    \/ \E o \in Orders : PlaceOrder(r, o)

Initialize(r) ==
    \/ \E o \in Orders : BeginInitialize(r, o)
    \/ \E p \in Payments : InsertPayment(r, p)

Verify(r) ==
    \/ \E p \in Payments : LockPayment(r, p)
    \/ AskPaystack(r)
    \/ ReadOrder(r)
    \/ ApplySuccess(r)
    \/ ApplyFailure(r)

Cancel(r) ==
    \/ \E o \in Orders, to \in {"CANCELLED", "REFUNDED"} : BeginCancel(r, o, to)
    \/ CommitCancel(r)

Open(r) ==
    \/ \E c \in Cycles : BeginOpen(r, c)
    \/ FindNoConflict(r)
    \/ CommitOpen(r)

Close(r) ==
    \/ \E c \in Cycles : BeginClose(r, c)
    \/ DeleteSnapshot(r)
    \/ DeleteNothing(r)
    \/ Aggregate(r)
    \/ SelectOrders(r)
    \/ CommitClose(r)

Next ==
    \/ \E r \in CustomerReq : Checkout(r) \/ Initialize(r) \/ Verify(r)
    \/ \E r \in AdminReq : Cancel(r) \/ Open(r) \/ Close(r)
    \/ \E r \in Req : Rollback(r)
    \/ \E p \in Payments : CustomerPays(p)

Spec == Init /\ [][Next]_vars

-----------------------------------------------------------------------------
(* What holds however requests overlap.                                    *)

SuccessfulPaymentsOf(o) ==
    {p \in Payments : payOrder[p] = o /\ payStatus[p] = "SUCCESSFUL"}

\* An order that is confirmed, in procurement or refunded has a successful
\* payment of its own: verify_and_apply, close_cycle and cancel_order all
\* write such a status from an order they read earlier, and no interleaving
\* lets one of them advance an order nobody paid for.
AdvancedOrdersArePaid ==
    \A o \in Orders :
        orderStatus[o] \in {"CONFIRMED", "PROCUREMENT", "REFUNDED"} =>
            SuccessfulPaymentsOf(o) # {}

\* The idempotency of verify_and_apply: a payment that is SUCCESSFUL or FAILED
\* is never written again, by a replayed webhook or a verify call that was
\* waiting for Paystack when another one committed.
TerminalPaymentsAreFinal ==
    [][\A p \in Payments :
          payStatus[p] \in {"SUCCESSFUL", "FAILED"} =>
              payStatus'[p] = payStatus[p] /\ payOrder'[p] = payOrder[p]
      ]_payVars

\* With a Paystack key configured, only a payment whose money Paystack has
\* captured is recorded as successful, however late its answer is applied.
\* (In mock mode every verification succeeds: nothing is promised.)
SuccessfulPaymentsAreCharged ==
    ~MockMode =>
        \A p \in Payments : payStatus[p] = "SUCCESSFUL" => p \in charged

\* Each payment is applied to its order at most once: the history of an order
\* holds at most one PAID entry for each of its successful payments.
EachPaymentAppliesOnce ==
    \A o \in Orders :
        Cardinality({i \in DOMAIN history[o] : history[o][i] = "PAID"})
            <= Cardinality(SuccessfulPaymentsOf(o))

\* The quantities bought for a cycle are only those of paid orders with a
\* line in it, although the order may have changed since it was counted.
SnapshotCountsPaidOrders ==
    \A c \in Cycles : \A o \in snapshot[c] :
        c \in orderCycles[o] /\ SuccessfulPaymentsOf(o) # {}

-----------------------------------------------------------------------------
(* What the repository's documents say of the pipeline and overlapping     *)
(* requests break.  PipelineRaces states what is left of each.             *)

\* "every transition is validated, not just written blindly" (README): the
\* recorded history of an order is a path of ALLOWED_TRANSITIONS from
\* PENDING_PAYMENT, the intermediate PAID and AGGREGATING entries included.
HistoryIsAllowedPath ==
    \A o \in Orders : \A i \in DOMAIN history[o] :
        IF i = 1 THEN history[o][i] = "PENDING_PAYMENT"
                 ELSE Lifecycle!CanMove(history[o][i - 1], history[o][i])

\* "At most one OPEN cycle per category is allowed (open_cycle enforces it)":
\* open_cycle looks for a conflicting cycle and commits without a lock.
OneOpenCyclePerCategory == CycleLife!OneOpenPerCategory
=============================================================================
