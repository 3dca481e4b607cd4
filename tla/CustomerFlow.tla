----------------------------- MODULE CustomerFlow -----------------------------
(***************************************************************************)
(* From the cart to the paid order, across the three parties that take     *)
(* part: the pages of the frontend (Checkout, MockPaystackCheckout), the   *)
(* backend's routes, and Paystack, whose webhook is the only thing that    *)
(* reports a payment outside mock mode.                                    *)
(*                                                                         *)
(* A visit is one load of a page, with the page's own React state; it may  *)
(* be left at any time, while the call it waits for goes on.  A call may   *)
(* be refused, or lost before or after it was served: the page sees all of *)
(* these as a rejected promise (Fail).  Two visits are two tabs, or a page *)
(* and its reload.                                                         *)
(*                                                                         *)
(* Abstractions: checkout and the mock's verify are one step each; their   *)
(* interleavings with other handlers are those of CartCheckout and         *)
(* OrderPipeline.  A verification for the webhook is cut where Paystack    *)
(* is asked.  The cart is empty or not; addresses, products and cycles     *)
(* only decide whether a checkout is refused.  What becomes of a confirmed *)
(* order when its cycle closes is OrderPipeline's business.                *)
(***************************************************************************)
EXTENDS Naturals

CONSTANTS
    Visits,     \* page loads of one customer (bound)
    Orders,     \* ids of the orders that can be placed (bound)
    Payments,   \* references that can be generated (bound)
    None        \* no order, no reference

ASSUME NoneAssumption == None \notin Orders \cup Payments

VARIABLES
    mock,       \* PaystackClient.mock_mode: no PAYSTACK_SECRET_KEY
    cart,       \* does the customer's cart hold lines?
    status,     \* orders.status
    payOrder,   \* payments.order_id
    payStatus,  \* payments.status
    answer,     \* what the webhook's verification of a payment was told;
                \* other than "none" it holds the row lock
    captured,   \* references whose money Paystack has captured
    events,     \* references about which Paystack keeps sending webhooks
    page,       \* the page of each visit
    ref,        \* the reference in the address of its payment page
    call        \* the last call a visit made and how far it has come

vars == <<mock, cart, status, payOrder, payStatus, answer, captured, events,
          page, ref, call>>

payVars  == <<payOrder, payStatus, answer>>
extVars  == <<mock, captured, events>>
pageVars == <<page, ref, call>>

Lifecycle == INSTANCE OrderLifecycle WITH raced <- {}

-----------------------------------------------------------------------------

\* "ordering" and "initializing" are the two awaits of handlePlaceOrder;
\* "verifying" is that of handlePay.
Pages == {"unopened", "loading", "empty", "form", "ordering", "initializing",
          "paying", "verifying", "orders", "left"}

Submitting == {"ordering", "initializing", "verifying"}

\* "asked" is the point in initialize_payment after Paystack has accepted the
\* reference and before the row is committed.
Points == {"sent", "asked", "answered", "failed"}

NoCall == [kind |-> "none"]

Calls ==
         [kind : {"none"}]
    \cup [kind : {"checkout", "initialize", "verify"}, at : Points,
          order : Orders \cup {None}, ref : Payments \cup {None}]

\* Types of the database, of Paystack's side, and of the pages.
TypeOK ==
    /\ mock \in BOOLEAN /\ cart \in BOOLEAN
    /\ status \in [Orders -> Lifecycle!CommittedStatuses]
    /\ payOrder \in [Payments -> Orders \cup {None}]
    /\ payStatus \in [Payments -> {"None", "PENDING", "SUCCESSFUL", "FAILED"}]
    /\ answer \in [Payments -> {"none", "success", "other"}]
    /\ captured \subseteq Payments /\ events \subseteq Payments
    /\ page \in [Visits -> Pages]
    /\ ref \in [Visits -> Payments \cup {None}]
    /\ call \in [Visits -> Calls]
    /\ \A v \in Visits : page[v] \in {"paying", "verifying"} => ref[v] # None

Init ==
    /\ mock \in BOOLEAN
    /\ cart = FALSE
    /\ status = [o \in Orders |-> "NotPlaced"]
    /\ payOrder = [p \in Payments |-> None]
    /\ payStatus = [p \in Payments |-> "None"]
    /\ answer = [p \in Payments |-> "none"]
    /\ captured = {}
    /\ events = {}
    /\ page = [v \in Visits |-> "unopened"]
    /\ ref = [v \in Visits |-> None]
    /\ call = [v \in Visits |-> NoCall]

-----------------------------------------------------------------------------
(* Helpers.                                                                *)

Show(v, to) == page' = [page EXCEPT ![v] = to]

CallIs(v, kind, at) ==
    call[v].kind = kind /\ call[v].at = at

Send(v, kind, o, p) ==
    call' = [call EXCEPT ![v] =
               [kind |-> kind, at |-> "sent", order |-> o, ref |-> p]]

\* A call ends; nobody looks at the result when its page has been left.
End(v, result) ==
    call' = [call EXCEPT ![v] = IF page[v] = "left" THEN NoCall ELSE result]

\* Ids are generated, hence interchangeable: a new one is any unused one.
FreshOrders == {o \in Orders : status[o] = "NotPlaced"}

FreshRefs ==
    {p \in Payments : /\ payStatus[p] = "None"
                      /\ \A v \in Visits : call[v] # NoCall => call[v].ref # p}

\* What verify_and_apply writes for a pending payment when it is told that
\* the transaction succeeded.
ApplySuccess(p) ==
    /\ payStatus' = [payStatus EXCEPT ![p] = "SUCCESSFUL"]
    /\ status' = IF status[payOrder[p]] = "PENDING_PAYMENT"
                 THEN [status EXCEPT ![payOrder[p]] = "CONFIRMED"]
                 ELSE status

-----------------------------------------------------------------------------
(* The pages.                                                              *)

AddToCart ==
    /\ ~cart
    /\ cart' = TRUE
    /\ UNCHANGED <<status, payVars, extVars, pageVars>>

\* The last line is removed on the cart page, in whatever tab.
RemoveFromCart ==
    /\ cart
    /\ cart' = FALSE
    /\ UNCHANGED <<status, payVars, extVars, pageVars>>

\* Faulty variant: an unpaid order is initialized again when the customer
\* comes back, whatever became of its earlier payment.
OpenCheckoutResuming(v) ==
    /\ page[v] = "unopened"
    /\ \/ Show(v, "loading") /\ UNCHANGED call
       \/ \E o \in Orders :
            /\ status[o] = "PENDING_PAYMENT"
            /\ Show(v, "initializing")
            /\ Send(v, "initialize", o, None)
    /\ UNCHANGED <<cart, status, payVars, extVars, ref>>

OpenCheckout(v) ==
    /\ page[v] = "unopened"
    /\ Show(v, "loading")
    /\ UNCHANGED <<cart, status, payVars, extVars, ref, call>>

\* The answer to getCart is shown; it may be out of date from then on.  When
\* it is lost the page goes on loading: the promise has no catch.
ShowCart(v) ==
    /\ page[v] = "loading"
    /\ Show(v, IF cart THEN "form" ELSE "empty")
    /\ UNCHANGED <<cart, status, payVars, extVars, ref, call>>

PlaceOrder(v) ==
    /\ page[v] = "form"
    /\ Show(v, "ordering")
    /\ Send(v, "checkout", None, None)
    /\ UNCHANGED <<cart, status, payVars, extVars, ref>>

GotOrder(v) ==
    /\ page[v] = "ordering"
    /\ CallIs(v, "checkout", "answered")
    /\ Show(v, "initializing")
    /\ Send(v, "initialize", call[v].order, None)
    /\ UNCHANGED <<cart, status, payVars, extVars, ref>>

\* Faulty variant: the address is used without its query string.
GotAddressOnly(v) ==
    /\ page[v] = "initializing"
    /\ CallIs(v, "initialize", "answered")
    /\ Show(v, "paying")
    /\ call' = [call EXCEPT ![v] = NoCall]
    /\ UNCHANGED <<cart, status, payVars, extVars, ref>>

\* The browser is sent to authorization_url: Paystack's page, or the mock's.
GotReference(v) ==
    /\ page[v] = "initializing"
    /\ CallIs(v, "initialize", "answered")
    /\ Show(v, "paying")
    /\ ref' = [ref EXCEPT ![v] = call[v].ref]
    /\ call' = [call EXCEPT ![v] = NoCall]
    /\ UNCHANGED <<cart, status, payVars, extVars>>

\* Faulty variant: the button is enabled again only after a failed checkout.
GotErrorOfCheckout(v) ==
    /\ page[v] \in {"ordering", "verifying"}
    /\ call[v].at = "failed"
    /\ Show(v, IF page[v] = "verifying" THEN "paying" ELSE "form")
    /\ call' = [call EXCEPT ![v] = NoCall]
    /\ UNCHANGED <<cart, status, payVars, extVars, ref>>

\* A rejected call: the error is shown and the button enabled again.  The
\* cart on the page is the one loaded before, though its lines may be ordered.
GotError(v) ==
    /\ page[v] \in Submitting
    /\ call[v].at = "failed"
    /\ Show(v, IF page[v] = "verifying" THEN "paying" ELSE "form")
    /\ call' = [call EXCEPT ![v] = NoCall]
    /\ UNCHANGED <<cart, status, payVars, extVars, ref>>

\* Back, reload, close: the call goes on, nobody waits for it.
Leave(v) ==
    /\ page[v] \notin {"unopened", "left"}
    /\ Show(v, "left")
    /\ call' = [call EXCEPT ![v] =
                  IF @ # NoCall /\ @.at \in {"answered", "failed"}
                  THEN NoCall ELSE @]
    /\ UNCHANGED <<cart, status, payVars, extVars, ref>>

\* A payment page the customer has been sent to is opened again.
Revisit(v, p) ==
    /\ page[v] = "unopened"
    /\ \E w \in Visits : ref[w] = p
    /\ Show(v, "paying")
    /\ ref' = [ref EXCEPT ![v] = p]
    /\ UNCHANGED <<cart, status, payVars, extVars, call>>

\* handlePay of the mock page.
Pay(v) ==
    /\ mock
    /\ page[v] = "paying"
    /\ Show(v, "verifying")
    /\ Send(v, "verify", None, ref[v])
    /\ UNCHANGED <<cart, status, payVars, extVars, ref>>

GotVerified(v) ==
    /\ page[v] = "verifying"
    /\ CallIs(v, "verify", "answered")
    /\ Show(v, "orders")
    /\ call' = [call EXCEPT ![v] = NoCall]
    /\ UNCHANGED <<cart, status, payVars, extVars, ref>>

-----------------------------------------------------------------------------
(* The routes.                                                             *)

\* checkout: the lines leave the cart with the commit that places the order.
ServeCheckout(v) ==
    LET o == CHOOSE x \in FreshOrders : TRUE
    IN  /\ CallIs(v, "checkout", "sent")
        /\ cart
        /\ FreshOrders # {}
        /\ status' = [status EXCEPT ![o] = "PENDING_PAYMENT"]
        /\ cart' = FALSE
        /\ End(v, [call[v] EXCEPT !.at = "answered", !.order = o])
        /\ UNCHANGED <<payVars, extVars, page, ref>>

\* initialize_payment up to the answer of initialize_transaction.
AskPaystack(v) ==
    /\ CallIs(v, "initialize", "sent")
    /\ status[call[v].order] = "PENDING_PAYMENT"
    /\ FreshRefs # {}
    /\ call' = [call EXCEPT ![v] = [@ EXCEPT !.at = "asked",
                                     !.ref = CHOOSE p \in FreshRefs : TRUE]]
    /\ UNCHANGED <<cart, status, payVars, extVars, page, ref>>

\* Faulty variant: the row is added but not committed.
RecordNothing(v) ==
    /\ CallIs(v, "initialize", "asked")
    /\ End(v, [call[v] EXCEPT !.at = "answered"])
    /\ UNCHANGED <<cart, status, payVars, extVars, page, ref>>

\* The rest of it: only a committed row is answered.
RecordPayment(v) ==
    LET p == call[v].ref
    IN  /\ CallIs(v, "initialize", "asked")
        /\ payOrder' = [payOrder EXCEPT ![p] = call[v].order]
        /\ payStatus' = [payStatus EXCEPT ![p] = "PENDING"]
        /\ End(v, [call[v] EXCEPT !.at = "answered"])
        /\ UNCHANGED <<cart, status, answer, extVars, page, ref>>

\* verify_payment in mock mode, where every transaction has succeeded; a
\* payment already applied is answered as it is.
ServeVerify(v) ==
    LET p == call[v].ref
    IN  /\ CallIs(v, "verify", "sent")
        /\ IF payStatus[p] = "PENDING" THEN ApplySuccess(p)
                                       ELSE UNCHANGED <<payStatus, status>>
        /\ End(v, [call[v] EXCEPT !.at = "answered"])
        /\ UNCHANGED <<cart, payOrder, answer, extVars, page, ref>>

\* A call is refused (an empty cart, an order not awaiting payment, a closed
\* cycle), fails, or is lost on its way to the server or back.
Fail(v) ==
    /\ call[v] # NoCall
    /\ call[v].at # "failed"
    /\ End(v, [call[v] EXCEPT !.at = "failed"])
    /\ UNCHANGED <<cart, status, payVars, extVars, page, ref>>

\* cancel_order by an administrator.
Withdraw(o, to) ==
    /\ Lifecycle!CanMove(status[o], to)
    /\ status' = [status EXCEPT ![o] = to]
    /\ UNCHANGED <<cart, payVars, extVars, pageVars>>

-----------------------------------------------------------------------------
(* Paystack and its webhook.                                               *)

\* The customer pays on Paystack's page.
Capture(v) ==
    /\ ~mock
    /\ page[v] = "paying"
    /\ ref[v] \notin captured
    /\ captured' = captured \cup {ref[v]}
    /\ events' = events \cup {ref[v]}
    /\ UNCHANGED <<mock, cart, status, payVars, pageVars>>

\* Any other event about a transaction: handle_webhook looks at no more of it
\* than its reference.
ReportUnpaid(v) ==
    /\ ~mock
    /\ page[v] = "paying"
    /\ ref[v] \notin captured
    /\ events' = events \cup {ref[v]}
    /\ UNCHANGED <<mock, captured, cart, status, payVars, pageVars>>

\* handle_webhook: the payment is locked and Paystack asked.
VerifyForWebhook(p) ==
    /\ p \in events
    /\ payStatus[p] = "PENDING"
    /\ answer[p] = "none"
    /\ answer' = [answer EXCEPT ![p] =
                    IF p \in captured THEN "success" ELSE "other"]
    /\ UNCHANGED <<cart, status, payOrder, payStatus, extVars, pageVars>>

\* The result is committed.
ApplyForWebhook(p) ==
    /\ answer[p] # "none"
    /\ IF answer[p] = "success"
       THEN ApplySuccess(p)
       ELSE /\ payStatus' = [payStatus EXCEPT ![p] = "FAILED"]
            /\ UNCHANGED status
    /\ answer' = [answer EXCEPT ![p] = "none"]
    /\ UNCHANGED <<cart, payOrder, extVars, pageVars>>

\* Faulty variant: the error is swallowed and the delivery acknowledged.
SwallowWebhookError(p) ==
    /\ answer[p] # "none"
    /\ answer' = [answer EXCEPT ![p] = "none"]
    /\ events' = events \ {p}
    /\ UNCHANGED <<mock, captured, cart, status, payOrder, payStatus, pageVars>>

\* The delivery fails after the question (a timeout, a failed commit): it is
\* rolled back, and Paystack delivers the event again.
AbortWebhook(p) ==
    /\ answer[p] # "none"
    /\ answer' = [answer EXCEPT ![p] = "none"]
    /\ UNCHANGED <<cart, status, payOrder, payStatus, extVars, pageVars>>

\* A delivery after which the payment is applied, now or before, is answered
\* with 200 and not sent again.
AcknowledgeWebhook(p) ==
    /\ p \in events
    /\ payStatus[p] \in {"SUCCESSFUL", "FAILED"}
    /\ events' = events \ {p}
    /\ UNCHANGED <<mock, captured, cart, status, payVars, pageVars>>

-----------------------------------------------------------------------------

Handle(v) == GotOrder(v) \/ GotReference(v) \/ GotError(v) \/ GotVerified(v)

Serve(v) ==
    \/ ServeCheckout(v) \/ AskPaystack(v) \/ RecordPayment(v) \/ ServeVerify(v)

Click(v) ==
    \/ OpenCheckout(v) \/ ShowCart(v) \/ PlaceOrder(v) \/ Leave(v) \/ Pay(v)
    \/ \E p \in Payments : Revisit(v, p)

Paystack(v) == Capture(v) \/ ReportUnpaid(v)

Webhook(p) ==
    \/ VerifyForWebhook(p) \/ ApplyForWebhook(p)
    \/ AbortWebhook(p) \/ AcknowledgeWebhook(p)

Next ==
    \/ AddToCart \/ RemoveFromCart
    \/ \E v \in Visits : Click(v) \/ Handle(v) \/ Serve(v) \/ Fail(v)
                            \/ Paystack(v)
    \/ \E p \in Payments : Webhook(p)
    \/ \E o \in Orders, to \in {"CANCELLED", "REFUNDED"} : Withdraw(o, to)

\* A fetch resolves or rejects, and the page's handler then runs; Paystack
\* delivers an event until it is acknowledged, and not every delivery fails.
\* Nothing is assumed of the customer or of administrators.
Fairness ==
    /\ \A v \in Visits : WF_vars(Serve(v) \/ Fail(v)) /\ WF_vars(Handle(v))
    /\ \A p \in Payments : /\ WF_vars(VerifyForWebhook(p))
                           /\ SF_vars(ApplyForWebhook(p))

Spec == Init /\ [][Next]_vars /\ Fairness

-----------------------------------------------------------------------------

\* What a customer can pay for, a webhook can be applied to: Paystack knows a
\* reference before its row is committed, but the customer learns of it after,
\* so no charge meets "Payment not found".
ChargesHaveTheirPayment ==
    \A p \in captured : payStatus[p] # "None" /\ payOrder[p] \in Orders

\* The backend initializes as many payments for an unpaid order as it is asked
\* to; it is the pages that ask once per order, however calls fail and pages
\* are left, reloaded or opened twice.
NoOrderIsChargedTwice ==
    \A p, q \in captured : payOrder[p] = payOrder[q] => p = q

\* A capture reaches its order though nothing but a webhook reports it, and
\* webhooks are repeated, fail halfway and overlap with a cancellation: unless
\* an earlier event has failed the payment for good or is about to.
ChargesReachTheirOrder ==
    \A p \in Payments :
        p \in captured /\ payStatus[p] = "PENDING" /\ answer[p] # "other" ~>
            /\ payStatus[p] = "SUCCESSFUL"
            /\ status[payOrder[p]] # "PENDING_PAYMENT"

\* A page does not stay disabled: whatever becomes of the two calls of
\* handlePlaceOrder, or of handlePay's, the customer can act again.
PageSettles ==
    \A v \in Visits : page[v] \in Submitting ~> page[v] \notin Submitting
=============================================================================
