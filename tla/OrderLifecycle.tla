--------------------------- MODULE OrderLifecycle ---------------------------
(***************************************************************************)
(* What the order state machine promises: a placed order only ever moves   *)
(* along edges of ALLOWED_TRANSITIONS (backend/app/models/order.py), until *)
(* two requests have raced for it.  Payment takes an order through PAID to *)
(* CONFIRMED and closing a cycle takes a set of orders through AGGREGATING *)
(* to PROCUREMENT, each in one transaction, so the two intermediate        *)
(* statuses are never visible in the orders table.                         *)
(***************************************************************************)
CONSTANT Orders

VARIABLES
    status,     \* [Orders -> CommittedStatuses]: the status column
    raced       \* the orders of which no more than being placed is promised

(***************************************************************************)
(* ALLOWED_TRANSITIONS as a relation.                                      *)
(***************************************************************************)
AllowedTransitions ==
         ({"PENDING_PAYMENT"} \X {"PAID", "CANCELLED"})
    \cup ({"PAID"} \X {"CONFIRMED", "REFUNDED", "CANCELLED"})
    \cup ({"CONFIRMED"} \X {"AGGREGATING", "CANCELLED", "REFUNDED"})
    \cup ({"AGGREGATING"} \X {"PROCUREMENT", "CANCELLED", "REFUNDED"})
    \cup ({"PROCUREMENT"} \X {"RECEIVED", "PARTIALLY_FULFILLED", "CANCELLED"})
    \cup ({"RECEIVED"} \X {"PROCESSING", "PARTIALLY_FULFILLED"})
    \cup ({"PROCESSING"} \X {"PACKAGED", "PARTIALLY_FULFILLED"})
    \cup ({"PACKAGED"} \X {"DISPATCHED"})
    \cup ({"DISPATCHED"} \X {"DELIVERED", "FAILED_DELIVERY"})
    \cup ({"FAILED_DELIVERY"} \X {"DISPATCHED"})
    \cup ({"PARTIALLY_FULFILLED"} \X {"PROCESSING", "PACKAGED"})

CanMove(from, to) == <<from, to>> \in AllowedTransitions

OrderStatuses ==
    {"PENDING_PAYMENT", "PAID", "CONFIRMED", "AGGREGATING", "PROCUREMENT",
     "RECEIVED", "PROCESSING", "PACKAGED", "DISPATCHED", "DELIVERED",
     "CANCELLED", "REFUNDED", "PARTIALLY_FULFILLED", "FAILED_DELIVERY"}

\* The statuses a reader of the orders table can meet; "NotPlaced" stands for
\* the absence of the row.
CommittedStatuses ==
    {"NotPlaced", "PENDING_PAYMENT", "CONFIRMED", "PROCUREMENT",
     "CANCELLED", "REFUNDED"}

-----------------------------------------------------------------------------

vars == <<status, raced>>

Init ==
    /\ status = [o \in Orders |-> "NotPlaced"]
    /\ raced = {}

\* A placed order moves along an edge, unless requests have raced for it.
MayMove(o, to) ==
    /\ status[o] # "NotPlaced"
    /\ CanMove(status[o], to) \/ o \in raced

Place(o) ==
    /\ status[o] = "NotPlaced"
    /\ status' = [status EXCEPT ![o] = "PENDING_PAYMENT"]

Confirm(o) ==
    /\ MayMove(o, "PAID")
    /\ CanMove("PAID", "CONFIRMED")
    /\ status' = [status EXCEPT ![o] = "CONFIRMED"]

Procure(S) ==
    /\ \A o \in S : MayMove(o, "AGGREGATING")
    /\ CanMove("AGGREGATING", "PROCUREMENT")
    /\ status' = [o \in Orders |-> IF o \in S THEN "PROCUREMENT" ELSE status[o]]

Withdraw(o, to) ==
    /\ MayMove(o, to)
    /\ status' = [status EXCEPT ![o] = to]

Next ==
    /\ raced \subseteq raced'
    /\ \/ \E o \in Orders : Place(o)
       \/ \E o \in Orders : Confirm(o)
       \/ \E S \in SUBSET Orders : Procure(S)
       \/ \E o \in Orders, to \in {"CANCELLED", "REFUNDED"} : Withdraw(o, to)

Spec == Init /\ [][Next]_vars
=============================================================================
