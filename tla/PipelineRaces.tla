---------------------------- MODULE PipelineRaces ----------------------------
(***************************************************************************)
(* OrderPipeline under observation.  Its handlers write what they decided  *)
(* from rows they read several awaits earlier, without a lock on orders or *)
(* on cycles.  Three history variables, which no handler reads, record     *)
(* where that went wrong:                                                  *)
(*                                                                         *)
(*   racedOrders  an order changed while another handler was about to      *)
(*                write it from the status it had read;                    *)
(*   racedCycles  a cycle changed, or another of its category was opened,  *)
(*                while another handler was at work on it;                 *)
(*   late         an order was confirmed between the query by which a      *)
(*                closing sums a cycle's orders and the one by which it    *)
(*                selects those it advances.                               *)
(*                                                                         *)
(* What the documents promise of every order and cycle holds of all those  *)
(* that are not recorded, however many requests overlap: these races are   *)
(* the only ways to lose it.                                               *)
(***************************************************************************)
EXTENDS OrderPipeline

VARIABLES racedOrders, racedCycles, late

raceVars == <<racedOrders, racedCycles, late>>

-----------------------------------------------------------------------------

\* The orders whose status a suspended handler is going to write.
AboutToWrite(q) ==
    {o \in Orders :
        \/ /\ At(q, "applying")
           /\ req[q].answer = "success"
           /\ req[q].seen = "PENDING_PAYMENT"
           /\ o = payOrder[req[q].payment]
        \/ At(q, "cancel") /\ o = req[q].order
        \/ At(q, "selected") /\ o \in req[q].moving}

CycleHandling == {"opening", "openable", "closing", "cleared", "aggregated",
                  "selected"}

AtWorkOn(q, c) == req[q].pc \in CycleHandling /\ req[q].cycle = c

\* The handlers that are suspended while another one takes the step.
Suspended == {q \in Req : req'[q] = req[q]}

Overtaken(o) ==
    /\ orderStatus'[o] # orderStatus[o]
    /\ \E q \in Suspended : o \in AboutToWrite(q)

Opened(c) == cycleStatus[c] # "OPEN" /\ cycleStatus'[c] = "OPEN"

Competing(c) ==
    \E q \in Suspended :
        /\ AtWorkOn(q, c)
        /\ \/ cycleStatus'[c] # cycleStatus[c]
           \/ snapshot'[c] # snapshot[c]
           \/ /\ At(q, "openable")
              /\ \E d \in Cycles : Category[d] = Category[c] /\ Opened(d)

ConfirmedTooLate(o) ==
    /\ orderStatus[o] # "CONFIRMED"
    /\ orderStatus'[o] = "CONFIRMED"
    /\ \E q \in Suspended : At(q, "aggregated") /\ req[q].cycle \in orderCycles[o]

Observe ==
    /\ racedOrders' = racedOrders \cup {o \in Orders : Overtaken(o)}
    /\ racedCycles' = racedCycles \cup {c \in Cycles : Competing(c)}
    /\ late' = late \cup {o \in Orders : ConfirmedTooLate(o)}

ObservedInit == Init /\ racedOrders = {} /\ racedCycles = {} /\ late = {}

ObservedNext == Next /\ Observe

ObservedSpec == ObservedInit /\ [][ObservedNext]_<<vars, raceVars>>

-----------------------------------------------------------------------------

\* Every status change is one ALLOWED_TRANSITIONS permits, whatever overlaps
\* it, unless the order changed under the handler that writes it: the orders
\* implement the state machine until a race is recorded, and even a raced
\* order is never taken back to PENDING_PAYMENT or advanced unplaced.
RacedLifecycle == INSTANCE OrderLifecycle
    WITH status <- orderStatus, raced <- racedOrders

ImplementsLifecycle == RacedLifecycle!Spec

\* An opening, a closing and the customers in between amount to one step of
\* the abstract cycle: opened when its category had no open cycle, closed
\* once, its snapshot fixed then; but for the cycles requests competed for.
RacedCycleLife == INSTANCE CycleLifecycle
    WITH status <- cycleStatus, counted <- snapshot, raced <- racedCycles

ImplementsCycleLifecycle == RacedCycleLife!Spec

\* The history of an order is a path of ALLOWED_TRANSITIONS, the intermediate
\* entries included, unless the order changed under a handler's decision.
UnracedHistoryIsAllowedPath ==
    \A o \in Orders \ racedOrders : \A i \in DOMAIN history[o] :
        IF i = 1 THEN history[o][i] = "PENDING_PAYMENT"
                 ELSE Lifecycle!CanMove(history[o][i - 1], history[o][i])

\* An order is in procurement only when all of it belongs to one cycle and
\* that cycle is closed, or was reopened by an opening that read it earlier:
\* an order split over two cycles is never advanced, whoever closes them.
ProcuredOrdersAreInClosedCycle ==
    \A o \in Orders :
        orderStatus[o] = "PROCUREMENT" =>
            \E c \in Cycles : /\ orderCycles[o] = {c}
                              /\ cycleStatus[c] = "CLOSED" \/ c \in racedCycles

\* Every order handed to procurement is part of the quantities procured for
\* its cycle, however closings of the cycle overlap and replace each other's
\* rows; only a confirmation between close_cycle's two queries escapes.
ProcuredOrdersAreCounted ==
    \A o \in Orders \ late : \A c \in orderCycles[o] :
        orderStatus[o] = "PROCUREMENT" => o \in snapshot[c]
=============================================================================
