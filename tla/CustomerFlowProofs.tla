-------------------------- MODULE CustomerFlowProofs --------------------------
(***************************************************************************)
(* Proofs about the safety of CustomerFlow, for any numbers of visits,     *)
(* orders and payments: however calls fail, and pages are left, reloaded   *)
(* or opened twice, an order is charged at most once.                      *)
(*                                                                         *)
(* The argument: the right to initialize a payment for an order is held by *)
(* one call at a time.  It is created with the order, by the checkout that *)
(* is answered with it; the page passes it on to its one initialize call;  *)
(* recording the payment uses it up, and a failure or a page that is left  *)
(* loses it for good.                                                      *)
(***************************************************************************)
EXTENDS CustomerFlow, TLAPS

-----------------------------------------------------------------------------
(* The inductive invariant.                                                *)

\* The calls that hold the right to initialize a payment for their order.
Holds(c) ==
    \/ c.kind = "checkout" /\ c.at = "answered"
    \/ c.kind = "initialize" /\ c.at \in {"sent", "asked"}

Asked(c) == c.kind = "initialize" /\ c.at = "asked"

\* The calls whose reference the customer has, or is about to be given.
Knows(c) ==
    \/ c.kind = "initialize" /\ c.at = "answered"
    \/ c.kind = "verify"

\* A call of a kind that has an order or a reference has one that exists.
CallOK(c, orderStatus, ofPayment, paid) ==
    /\ Holds(c) => /\ c.order \in Orders
                   /\ orderStatus[c.order] # "NotPlaced"
                   /\ \A p \in Payments : ofPayment[p] # c.order
    /\ Asked(c) => c.ref \in Payments /\ paid[c.ref] = "None"
    /\ Knows(c) => c.ref \in Payments /\ paid[c.ref] # "None"

\* No two calls hold the right for the same order, or have the same reference
\* accepted by Paystack.
Apart(c, d) ==
    /\ Holds(c) /\ Holds(d) => c.order # d.order
    /\ Asked(c) /\ Asked(d) => c.ref # d.ref

CallsOK ==
    /\ \A v \in Visits : CallOK(call[v], status, payOrder, payStatus)
    /\ \A v, w \in Visits : v # w => Apart(call[v], call[w])

\* The rows of the payments, and who knows of them.
PaymentsOK ==
    /\ \A p \in Payments :
          IF payStatus[p] = "None"
          THEN payOrder[p] = None /\ answer[p] = "none"
          ELSE payOrder[p] \in Orders /\ status[payOrder[p]] # "NotPlaced"
    /\ \A p, q \in Payments :
          payOrder[p] # None /\ payOrder[p] = payOrder[q] => p = q
    /\ \A v \in Visits : ref[v] # None => payStatus[ref[v]] # "None"
    /\ \A p \in captured : payStatus[p] # "None"

FlowInv == TypeOK /\ CallsOK /\ PaymentsOK
-----------------------------------------------------------------------------
(* What calls are.                                                         *)

LEMMA CallTypes ==
    ASSUME NEW c \in Calls
    PROVE  /\ c = NoCall <=> c.kind = "none"
           /\ c # NoCall => /\ c.kind \in {"checkout", "initialize", "verify"}
                            /\ c.at \in Points
                            /\ c.order \in Orders \cup {None}
                            /\ c.ref \in Payments \cup {None}
           /\ NoCall \in Calls
BY DEF Calls, NoCall

\* What a call becomes by a change of its point, and of one field more.
LEMMA CallAt ==
    ASSUME NEW c \in Calls, c # NoCall, NEW at \in Points
    PROVE  LET d == [c EXCEPT !.at = at]
           IN  /\ d \in Calls /\ d # NoCall
               /\ d.kind = c.kind /\ d.at = at
               /\ d.order = c.order /\ d.ref = c.ref
<1>1. c \in [kind : {"checkout", "initialize", "verify"}, at : Points,
             order : Orders \cup {None}, ref : Payments \cup {None}]
  BY DEF Calls, NoCall
<1> DEFINE d == [c EXCEPT !.at = at]
<1>2. /\ d \in [kind : {"checkout", "initialize", "verify"}, at : Points,
                order : Orders \cup {None}, ref : Payments \cup {None}]
      /\ d.kind = c.kind /\ d.at = at /\ d.order = c.order /\ d.ref = c.ref
  BY <1>1
<1>3. d.kind # "none"
  BY <1>1, <1>2
<1>4. d \in Calls
  BY <1>2 DEF Calls
<1> HIDE DEF d
<1>5. d # NoCall
  BY <1>3, <1>4, CallTypes
<1> QED BY <1>2, <1>4, <1>5 DEF d

LEMMA CallAtOrder ==
    ASSUME NEW c \in Calls, c # NoCall, NEW at \in Points, NEW o \in Orders
    PROVE  LET d == [c EXCEPT !.at = at, !.order = o]
           IN  /\ d \in Calls /\ d # NoCall
               /\ d.kind = c.kind /\ d.at = at /\ d.order = o /\ d.ref = c.ref
<1>1. c \in [kind : {"checkout", "initialize", "verify"}, at : Points,
             order : Orders \cup {None}, ref : Payments \cup {None}]
  BY DEF Calls, NoCall
<1> DEFINE e == [c EXCEPT !.at = at]
           d == [e EXCEPT !.order = o]
<1>2. /\ e \in [kind : {"checkout", "initialize", "verify"}, at : Points,
                order : Orders \cup {None}, ref : Payments \cup {None}]
      /\ e.kind = c.kind /\ e.at = at /\ e.ref = c.ref
  BY <1>1
<1>3. d = [c EXCEPT !.at = at, !.order = o]
  BY <1>1
<1> HIDE DEF e
<1>4. /\ d \in [kind : {"checkout", "initialize", "verify"}, at : Points,
                order : Orders \cup {None}, ref : Payments \cup {None}]
      /\ d.kind = c.kind /\ d.at = at /\ d.order = o /\ d.ref = c.ref
  BY <1>2
<1>5. d.kind # "none" /\ d \in Calls
  BY <1>1, <1>4 DEF Calls
<1>6. [c EXCEPT !.at = at, !.order = o] # NoCall
  BY <1>3, <1>5, CallTypes
<1> QED BY <1>3, <1>4, <1>5, <1>6

LEMMA AskedCall ==
    ASSUME NEW c \in Calls, c # NoCall, NEW p \in Payments
    PROVE  LET d == [c EXCEPT !.at = "asked", !.ref = p]
           IN  /\ d \in Calls /\ d # NoCall
               /\ d.kind = c.kind /\ d.at = "asked" /\ d.order = c.order /\ d.ref = p
<1> "asked" \in Points
  BY DEF Points
<1>1. c \in [kind : {"checkout", "initialize", "verify"}, at : Points,
             order : Orders \cup {None}, ref : Payments \cup {None}]
  BY DEF Calls, NoCall
<1> DEFINE e == [c EXCEPT !.at = "asked"]
           d == [e EXCEPT !.ref = p]
<1>2. /\ e \in [kind : {"checkout", "initialize", "verify"}, at : Points,
                order : Orders \cup {None}, ref : Payments \cup {None}]
      /\ e.kind = c.kind /\ e.at = "asked" /\ e.order = c.order
  BY <1>1
<1>3. d = [c EXCEPT !.at = "asked", !.ref = p]
  BY <1>1
<1> HIDE DEF e
<1>4. /\ d \in [kind : {"checkout", "initialize", "verify"}, at : Points,
                order : Orders \cup {None}, ref : Payments \cup {None}]
      /\ d.kind = c.kind /\ d.at = "asked" /\ d.order = c.order /\ d.ref = p
  BY <1>2
<1>5. d.kind # "none" /\ d \in Calls
  BY <1>1, <1>4 DEF Calls
<1>6. [c EXCEPT !.at = "asked", !.ref = p] # NoCall
  BY <1>3, <1>5, CallTypes
<1> QED BY <1>3, <1>4, <1>5, <1>6

LEMMA SentCall ==
    ASSUME NEW kind \in {"checkout", "initialize", "verify"},
           NEW o \in Orders \cup {None}, NEW p \in Payments \cup {None}
    PROVE  LET d == [kind |-> kind, at |-> "sent", order |-> o, ref |-> p]
           IN  /\ d \in Calls /\ d # NoCall
               /\ d.kind = kind /\ d.at = "sent" /\ d.order = o /\ d.ref = p
BY DEF Calls, Points, NoCall

-----------------------------------------------------------------------------
(* What a step of a page or of a call leaves true.                         *)

\* A step that changes neither the orders nor the payments, and of the calls
\* that of one visit only.
LEMMA CallStep ==
    ASSUME FlowInv, NEW v \in Visits, NEW c \in Calls,
           call' = [call EXCEPT ![v] = c],
           CallOK(c, status, payOrder, payStatus),
           \A w \in Visits : w # v => Apart(c, call[w]) /\ Apart(call[w], c),
           UNCHANGED <<status, payVars, extVars>>, cart' \in BOOLEAN,
           page' \in [Visits -> Pages],
           ref' \in [Visits -> Payments \cup {None}],
           \A w \in Visits : /\ page'[w] \in {"paying", "verifying"} => ref'[w] # None
                             /\ ref'[w] # None => payStatus[ref'[w]] # "None"
    PROVE  FlowInv'
<1>1. /\ call' \in [Visits -> Calls] /\ call'[v] = c
      /\ \A w \in Visits : w # v => call'[w] = call[w]
  BY DEF FlowInv, TypeOK
<1>2. TypeOK'
  BY <1>1 DEF FlowInv, TypeOK, payVars, extVars
<1>3. \A w \in Visits : CallOK(call'[w], status, payOrder, payStatus)
  BY <1>1 DEF FlowInv, CallsOK
<1>4. \A w, u \in Visits : w # u => Apart(call'[w], call'[u])
  BY <1>1 DEF FlowInv, CallsOK
<1>5. CallsOK'
  BY <1>3, <1>4 DEF CallsOK, payVars
<1>6. PaymentsOK'
  BY DEF FlowInv, PaymentsOK, payVars, extVars
<1> QED BY <1>2, <1>5, <1>6 DEF FlowInv

\* A call that has no right, and no reference but one its visit knew of.
Harmless(v, c) ==
    /\ ~Holds(c) /\ ~Asked(c)
    /\ Knows(c) => \/ Knows(call[v]) /\ c.ref = call[v].ref
                   \/ c.ref \in Payments /\ payStatus[c.ref] # "None"

LEMMA HarmlessCall ==
    ASSUME FlowInv, NEW v \in Visits, NEW c, Harmless(v, c)
    PROVE  /\ CallOK(c, status, payOrder, payStatus)
           /\ \A d : Apart(c, d) /\ Apart(d, c)
BY DEF Harmless, CallOK, Apart, FlowInv, CallsOK

LEMMA NoCallIsHarmless ==
    ASSUME NEW v \in Visits
    PROVE  Harmless(v, NoCall) /\ NoCall \in Calls
BY DEF Harmless, Holds, Asked, Knows, NoCall, Calls

\* A step that leaves calls, orders and payments alone.
LEMMA QuietStep ==
    ASSUME FlowInv, UNCHANGED <<call, status, payVars>>,
           mock' = mock, cart' \in BOOLEAN,
           captured' \subseteq Payments, events' \subseteq Payments,
           \A p \in captured' : payStatus[p] # "None",
           page' \in [Visits -> Pages],
           ref' \in [Visits -> Payments \cup {None}],
           \A w \in Visits : /\ page'[w] \in {"paying", "verifying"} => ref'[w] # None
                             /\ ref'[w] # None => payStatus[ref'[w]] # "None"
    PROVE  FlowInv'
<1>1. TypeOK'
  BY DEF FlowInv, TypeOK, payVars
<1>2. CallsOK'
  BY DEF FlowInv, CallsOK, payVars
<1>3. PaymentsOK'
  BY DEF FlowInv, PaymentsOK, payVars
<1> QED BY <1>1, <1>2, <1>3 DEF FlowInv

\* A step that changes the statuses of orders and payments, and who waits for
\* Paystack, but neither creates nor removes a row.
LEMMA StatusStep ==
    ASSUME FlowInv, call' \in [Visits -> Calls],
           \A v \in Visits : call'[v] = call[v] \/ Harmless(v, call'[v]),
           UNCHANGED <<extVars, page, ref, cart, payOrder>>,
           status' \in [Orders -> Lifecycle!CommittedStatuses],
           payStatus' \in [Payments -> {"None", "PENDING", "SUCCESSFUL", "FAILED"}],
           answer' \in [Payments -> {"none", "success", "other"}],
           \A o \in Orders : status[o] # "NotPlaced" => status'[o] # "NotPlaced",
           \A p \in Payments : payStatus[p] = "None" <=> payStatus'[p] = "None",
           \A p \in Payments : payStatus[p] = "None" => answer'[p] = "none"
    PROVE  FlowInv'
<1>1. TypeOK'
  BY DEF FlowInv, TypeOK, extVars
<1>2. ASSUME NEW d, CallOK(d, status, payOrder, payStatus)
      PROVE  CallOK(d, status', payOrder', payStatus')
  BY <1>2 DEF CallOK
<1>3. \A v \in Visits : CallOK(call'[v], status', payOrder', payStatus')
  <2> TAKE v \in Visits
  <2>1. CallOK(call'[v], status, payOrder, payStatus)
    BY HarmlessCall DEF FlowInv, CallsOK
  <2> QED BY <1>2, <2>1
<1>4. \A v, w \in Visits : v # w => Apart(call'[v], call'[w])
  BY HarmlessCall DEF FlowInv, CallsOK
<1>5. CallsOK'
  BY <1>3, <1>4 DEF CallsOK
<1>6. PaymentsOK'
  <2>1. \A p \in Payments : payStatus'[p] # "None" =>
            payOrder[p] \in Orders /\ status'[payOrder[p]] # "NotPlaced"
    BY DEF FlowInv, PaymentsOK
  <2>2. \A p \in Payments : payStatus'[p] = "None" =>
            payOrder[p] = None /\ answer'[p] = "none"
    BY DEF FlowInv, PaymentsOK
  <2>3. \A w \in Visits : ref[w] # None => ref[w] \in Payments
    BY DEF FlowInv, TypeOK
  <2>4. captured \subseteq Payments
    BY DEF FlowInv, TypeOK
  <2> QED BY <2>1, <2>2, <2>3, <2>4 DEF FlowInv, PaymentsOK, extVars
<1> QED BY <1>1, <1>5, <1>6 DEF FlowInv

-----------------------------------------------------------------------------
(* The pages.                                                              *)

LEMMA PageTypes ==
    ASSUME FlowInv, NEW v \in Visits, NEW to \in Pages \ {"paying", "verifying"},
           Show(v, to)
    PROVE  /\ page' \in [Visits -> Pages]
           /\ \A w \in Visits :
                 page'[w] \in {"paying", "verifying"} => ref[w] # None
BY DEF Show, FlowInv, TypeOK

\* The types and facts that concern one visit.
LEMMA VisitTypes ==
    ASSUME FlowInv, NEW v \in Visits
    PROVE  /\ call[v] \in Calls
           /\ page[v] \in Pages
           /\ ref[v] \in Payments \cup {None}
           /\ page[v] \in {"paying", "verifying"} => ref[v] # None
           /\ ref[v] # None => payStatus[ref[v]] # "None"
           /\ CallOK(call[v], status, payOrder, payStatus)
           /\ \A w \in Visits : w # v => /\ Apart(call[v], call[w])
                                         /\ Apart(call[w], call[v])
           /\ None \notin Payments
BY NoneAssumption DEF FlowInv, TypeOK, CallsOK, PaymentsOK

\* A visit's call ends or is sent, and what its page shows changes.
LEMMA PageStep ==
    ASSUME FlowInv, NEW v \in Visits, NEW to \in Pages, Show(v, to),
           NEW c \in Calls, call' = [call EXCEPT ![v] = c], Harmless(v, c),
           to \in {"paying", "verifying"} => ref[v] # None,
           UNCHANGED <<cart, status, payVars, extVars, ref>>
    PROVE  FlowInv'
<1>1. page' \in [Visits -> Pages]
  BY DEF Show, FlowInv, TypeOK
<1>2. \A w \in Visits : /\ page'[w] \in {"paying", "verifying"} => ref[w] # None
                        /\ ref[w] # None => payStatus[ref[w]] # "None"
  BY DEF Show, FlowInv, TypeOK, PaymentsOK
<1>3. cart \in BOOLEAN /\ ref \in [Visits -> Payments \cup {None}]
  BY DEF FlowInv, TypeOK
<1> QED BY <1>1, <1>2, <1>3, HarmlessCall, CallStep

LEMMA ClicksKeep ==
    ASSUME FlowInv, NEW v \in Visits, Click(v)
    PROVE  FlowInv'
<1>1. /\ cart \in BOOLEAN /\ ref \in [Visits -> Payments \cup {None}]
      /\ captured \subseteq Payments /\ events \subseteq Payments
      /\ call = [w \in Visits |-> call[w]]
      /\ \A p \in captured : payStatus[p] # "None"
      /\ \A w \in Visits : ref[w] # None => payStatus[ref[w]] # "None"
  BY DEF FlowInv, TypeOK, PaymentsOK
<1>2. ASSUME NEW to \in Pages \ {"paying", "verifying"}, Show(v, to),
             UNCHANGED <<cart, status, payVars, extVars, ref, call>>
      PROVE  FlowInv'
  BY <1>1, <1>2, PageTypes, QuietStep DEF extVars
<1>3. CASE OpenCheckout(v)
  BY <1>2, <1>3 DEF OpenCheckout, Pages
<1>4. CASE ShowCart(v)
  BY <1>2, <1>4 DEF ShowCart, Pages
<1>5. CASE PlaceOrder(v)
  <2> DEFINE c == [kind |-> "checkout", at |-> "sent", order |-> None, ref |-> None]
  <2>1. c \in Calls /\ c.kind = "checkout" /\ c.at = "sent"
    BY SentCall
  <2>2. Show(v, "ordering") /\ call' = [call EXCEPT ![v] = c]
    BY <1>5 DEF PlaceOrder, Send
  <2> HIDE DEF c
  <2>3. Harmless(v, c)
    BY <2>1 DEF Harmless, Holds, Asked, Knows
  <2> QED BY <1>5, <2>1, <2>2, <2>3, PageStep DEF PlaceOrder, Pages
<1>6. CASE Leave(v)
  <2> DEFINE ends == call[v] # NoCall /\ call[v].at \in {"answered", "failed"}
  <2>1. CASE ends
    <3>1. call' = [call EXCEPT ![v] = NoCall]
      BY <1>6, <2>1 DEF Leave
    <3> QED BY <1>6, <3>1, NoCallIsHarmless, PageStep DEF Leave, Pages
  <2>2. CASE ~ends
    <3>1. UNCHANGED call
      BY <1>1, <1>6, <2>2 DEF Leave
    <3> QED BY <1>2, <1>6, <3>1 DEF Leave, Pages
  <2> QED BY <2>1, <2>2
<1>7. CASE Pay(v)
  <2>1. ref[v] # None /\ ref[v] \in Payments /\ payStatus[ref[v]] # "None"
    BY <1>7, VisitTypes DEF Pay
  <2> DEFINE c == [kind |-> "verify", at |-> "sent", order |-> None, ref |-> ref[v]]
  <2>2. c \in Calls /\ c.kind = "verify" /\ c.ref = ref[v]
    BY <2>1, SentCall
  <2>3. Show(v, "verifying") /\ call' = [call EXCEPT ![v] = c]
    BY <1>7 DEF Pay, Send
  <2> HIDE DEF c
  <2>4. Harmless(v, c)
    BY <2>1, <2>2 DEF Harmless, Holds, Asked
  <2> QED BY <1>7, <2>1, <2>2, <2>3, <2>4, PageStep DEF Pay, Pages
<1>8. ASSUME NEW p \in Payments, Revisit(v, p)
      PROVE  FlowInv'
  <2>1. p # None /\ payStatus[p] # "None"
    BY <1>1, <1>8, NoneAssumption DEF Revisit
  <2>2. ref' = [ref EXCEPT ![v] = p] /\ Show(v, "paying")
    BY <1>8 DEF Revisit
  <2>3. /\ ref' \in [Visits -> Payments \cup {None}]
        /\ ref'[v] = p /\ \A w \in Visits : w # v => ref'[w] = ref[w]
    BY <1>1, <2>2
  <2>4. /\ page' \in [Visits -> Pages]
        /\ \A w \in Visits : w # v => page'[w] = page[w]
    BY <2>2 DEF Show, FlowInv, TypeOK, Pages
  <2>5. \A w \in Visits : /\ page'[w] \in {"paying", "verifying"} => ref'[w] # None
                          /\ ref'[w] # None => payStatus[ref'[w]] # "None"
    BY <1>1, <2>1, <2>3, <2>4, VisitTypes
  <2> QED BY <1>1, <1>8, <2>3, <2>4, <2>5, QuietStep DEF Revisit, extVars
<1> QED BY <1>3, <1>4, <1>5, <1>6, <1>7, <1>8 DEF Click

\* The page's right to initialize passes from the answer to its next call.
LEMMA HandlersKeep ==
    ASSUME FlowInv, NEW v \in Visits, Handle(v)
    PROVE  FlowInv'
<1>1. /\ cart \in BOOLEAN /\ ref \in [Visits -> Payments \cup {None}]
      /\ \A w \in Visits : ref[w] # None => payStatus[ref[w]] # "None"
  BY DEF FlowInv, TypeOK, PaymentsOK
<1>2. CASE GotOrder(v)
  <2>1. Holds(call[v])
    BY <1>2 DEF GotOrder, CallIs, Holds
  <2>2. /\ call[v].order \in Orders /\ status[call[v].order] # "NotPlaced"
        /\ \A p \in Payments : payOrder[p] # call[v].order
    BY <2>1, VisitTypes DEF CallOK
  <2> DEFINE c == [kind |-> "initialize", at |-> "sent", order |-> call[v].order,
                   ref |-> None]
  <2>3. c \in Calls /\ c.kind = "initialize" /\ c.at = "sent"
        /\ c.order = call[v].order
    BY <2>2, SentCall
  <2>4. Show(v, "initializing") /\ call' = [call EXCEPT ![v] = c]
    BY <1>2 DEF GotOrder, Send
  <2> HIDE DEF c
  <2>5. Holds(c) /\ ~Asked(c) /\ ~Knows(c)
    BY <2>3 DEF Holds, Asked, Knows
  <2>6. CallOK(c, status, payOrder, payStatus)
    BY <2>2, <2>3, <2>5 DEF CallOK
  <2>7. \A w \in Visits : w # v => Apart(c, call[w]) /\ Apart(call[w], c)
    BY <2>1, <2>3, <2>5, VisitTypes DEF Apart
  <2>8. "initializing" \in Pages \ {"paying", "verifying"}
    BY DEF Pages
  <2>9. /\ page' \in [Visits -> Pages]
        /\ \A w \in Visits :
              page'[w] \in {"paying", "verifying"} => ref[w] # None
    BY <2>4, <2>8, PageTypes
  <2>10. UNCHANGED <<cart, status, payVars, extVars, ref>>
    BY <1>2 DEF GotOrder
  <2> QED BY <1>1, <2>3, <2>4, <2>6, <2>7, <2>9, <2>10, CallStep
<1>3. CASE GotReference(v)
  <2>1. Knows(call[v])
    BY <1>3 DEF GotReference, CallIs, Knows
  <2>2. call[v].ref \in Payments /\ payStatus[call[v].ref] # "None"
    BY <2>1, VisitTypes DEF CallOK
  <2>3. call[v].ref # None
    BY <2>2, NoneAssumption
  <2>4. /\ ref' = [ref EXCEPT ![v] = call[v].ref] /\ Show(v, "paying")
        /\ call' = [call EXCEPT ![v] = NoCall]
        /\ UNCHANGED <<cart, status, payVars, extVars>>
    BY <1>3 DEF GotReference
  <2>5. /\ ref' \in [Visits -> Payments \cup {None}]
        /\ ref'[v] = call[v].ref /\ \A w \in Visits : w # v => ref'[w] = ref[w]
    BY <1>1, <2>2, <2>4
  <2>6. /\ page' \in [Visits -> Pages]
        /\ \A w \in Visits : w # v => page'[w] = page[w]
    BY <2>4 DEF Show, FlowInv, TypeOK, Pages
  <2>7. \A w \in Visits : /\ page'[w] \in {"paying", "verifying"} => ref'[w] # None
                          /\ ref'[w] # None => payStatus[ref'[w]] # "None"
    BY <1>1, <2>2, <2>3, <2>5, <2>6, VisitTypes
  <2> QED BY <1>1, <2>4, <2>5, <2>6, <2>7, NoCallIsHarmless, HarmlessCall, CallStep
<1>4. CASE GotError(v)
  <2>1. call' = [call EXCEPT ![v] = NoCall]
    BY <1>4 DEF GotError
  <2>2. PICK to \in {"paying", "form"} :
               Show(v, to) /\ (to = "paying" => page[v] = "verifying")
    BY <1>4 DEF GotError
  <2>3. to = "paying" => ref[v] # None
    BY <2>2, VisitTypes
  <2> QED BY <1>4, <2>1, <2>2, <2>3, NoCallIsHarmless, PageStep DEF GotError, Pages
<1>5. CASE GotVerified(v)
  BY <1>5, NoCallIsHarmless, PageStep DEF GotVerified, Pages
<1> QED BY <1>2, <1>3, <1>4, <1>5 DEF Handle

-----------------------------------------------------------------------------
(* The routes.                                                             *)

\* The call that a served call becomes.
LEMMA EndedCall ==
    ASSUME FlowInv, NEW v \in Visits, NEW d \in Calls, End(v, d)
    PROVE  \E c \in {d, NoCall} : /\ c \in Calls
                                  /\ call' = [call EXCEPT ![v] = c]
                                  /\ call' \in [Visits -> Calls]
                                  /\ call'[v] = c
                                  /\ \A w \in Visits : w # v => call'[w] = call[w]
<1>1. NoCall \in Calls
  BY DEF Calls, NoCall
<1> QED BY <1>1 DEF End, FlowInv, TypeOK

\* A call that ends with a failure, or whose answer carries no new right.
LEMMA SettledCall ==
    ASSUME FlowInv, NEW v \in Visits, NEW d \in Calls, Harmless(v, d), End(v, d)
    PROVE  /\ call' \in [Visits -> Calls]
           /\ \A w \in Visits : call'[w] = call[w] \/ Harmless(w, call'[w])
BY EndedCall, NoCallIsHarmless

LEMMA FailKeeps ==
    ASSUME FlowInv, NEW v \in Visits, Fail(v)
    PROVE  FlowInv'
<1> DEFINE d == [call[v] EXCEPT !.at = "failed"]
<1>1. call[v] \in Calls /\ call[v] # NoCall
  BY VisitTypes DEF Fail
<1>2. /\ d \in Calls /\ d.kind = call[v].kind /\ d.at = "failed"
      /\ d.ref = call[v].ref
  BY <1>1, CallAt DEF Points
<1>3. End(v, d) /\ UNCHANGED <<cart, status, payVars, extVars, page, ref>>
  BY DEF Fail
<1> HIDE DEF d
<1>4. Harmless(v, d)
  BY <1>2 DEF Harmless, Holds, Asked, Knows
<1>5. /\ call' \in [Visits -> Calls]
      /\ \A w \in Visits : call'[w] = call[w] \/ Harmless(w, call'[w])
  BY <1>2, <1>3, <1>4, SettledCall
<1> QED BY <1>3, <1>5, StatusStep DEF FlowInv, TypeOK, PaymentsOK, payVars

\* What applying a payment writes.
LEMMA ApplyTypes ==
    ASSUME FlowInv, NEW p \in Payments, payStatus[p] # "None", ApplySuccess(p)
    PROVE  /\ status' \in [Orders -> Lifecycle!CommittedStatuses]
           /\ payStatus' \in [Payments -> {"None", "PENDING", "SUCCESSFUL", "FAILED"}]
           /\ \A o \in Orders : status[o] # "NotPlaced" => status'[o] # "NotPlaced"
           /\ \A q \in Payments : payStatus[q] = "None" <=> payStatus'[q] = "None"
<1>1. payOrder[p] \in Orders
  BY DEF FlowInv, PaymentsOK
<1>2. /\ status' \in [Orders -> Lifecycle!CommittedStatuses]
      /\ \A o \in Orders : status[o] # "NotPlaced" => status'[o] # "NotPlaced"
  BY <1>1 DEF ApplySuccess, FlowInv, TypeOK, Lifecycle!CommittedStatuses
<1>3. /\ payStatus' \in [Payments -> {"None", "PENDING", "SUCCESSFUL", "FAILED"}]
      /\ \A q \in Payments : payStatus[q] = "None" <=> payStatus'[q] = "None"
  BY DEF ApplySuccess, FlowInv, TypeOK
<1> QED BY <1>2, <1>3

LEMMA ServeVerifyKeeps ==
    ASSUME FlowInv, NEW v \in Visits, ServeVerify(v)
    PROVE  FlowInv'
<1> DEFINE d == [call[v] EXCEPT !.at = "answered"]
           p == call[v].ref
<1>1. /\ call[v] \in Calls /\ Knows(call[v]) /\ call[v].kind = "verify"
  BY VisitTypes DEF ServeVerify, CallIs, Knows
<1>2. call[v] # NoCall
  BY <1>1, CallTypes
<1>3. p \in Payments /\ payStatus[p] # "None"
  BY <1>1, VisitTypes DEF CallOK
<1>4. d \in Calls /\ d.kind = "verify" /\ d.ref = p
  BY <1>1, <1>2, CallAt DEF Points
<1>5. /\ ApplySuccess(p) \/ UNCHANGED <<payStatus, status>>
      /\ End(v, d) /\ UNCHANGED <<cart, payOrder, answer, extVars, page, ref>>
  BY DEF ServeVerify
<1> HIDE DEF d, p
<1>6. Harmless(v, d)
  BY <1>3, <1>4 DEF Harmless, Holds, Asked
<1>7. /\ call' \in [Visits -> Calls]
      /\ \A w \in Visits : call'[w] = call[w] \/ Harmless(w, call'[w])
  BY <1>4, <1>5, <1>6, SettledCall
<1>8. /\ answer' \in [Payments -> {"none", "success", "other"}]
      /\ \A q \in Payments : payStatus[q] = "None" => answer'[q] = "none"
  BY <1>5 DEF FlowInv, TypeOK, PaymentsOK
<1>9. /\ status' \in [Orders -> Lifecycle!CommittedStatuses]
      /\ payStatus' \in [Payments -> {"None", "PENDING", "SUCCESSFUL", "FAILED"}]
      /\ \A o \in Orders : status[o] # "NotPlaced" => status'[o] # "NotPlaced"
      /\ \A q \in Payments : payStatus[q] = "None" <=> payStatus'[q] = "None"
  <2>1. CASE ApplySuccess(p)
    BY <1>3, <2>1, ApplyTypes
  <2>2. CASE UNCHANGED <<payStatus, status>>
    BY <2>2 DEF FlowInv, TypeOK
  <2> QED BY <1>5, <2>1, <2>2
<1> QED BY <1>5, <1>7, <1>8, <1>9, StatusStep

\* The right to initialize comes into being with the order.
LEMMA ServeCheckoutKeeps ==
    ASSUME FlowInv, NEW v \in Visits, ServeCheckout(v)
    PROVE  FlowInv'
<1> DEFINE o == CHOOSE x \in FreshOrders : TRUE
           d == [call[v] EXCEPT !.at = "answered", !.order = o]
<1>1. o \in Orders /\ status[o] = "NotPlaced"
  BY DEF ServeCheckout, FreshOrders
<1>2. call[v] \in Calls /\ call[v].kind = "checkout" /\ call[v] # NoCall
  BY VisitTypes, CallTypes DEF ServeCheckout, CallIs
<1>3. /\ status' = [status EXCEPT ![o] = "PENDING_PAYMENT"] /\ cart' = FALSE
      /\ End(v, d) /\ UNCHANGED <<payVars, extVars, page, ref>>
  BY DEF ServeCheckout
<1> HIDE DEF o
<1>4. d \in Calls /\ d.kind = "checkout" /\ d.at = "answered" /\ d.order = o
  BY <1>1, <1>2, CallAtOrder DEF Points
<1> HIDE DEF d
<1>5. PICK c \in {d, NoCall} : /\ c \in Calls
                               /\ call' \in [Visits -> Calls]
                               /\ call'[v] = c
                               /\ \A w \in Visits : w # v => call'[w] = call[w]
  BY <1>3, <1>4, EndedCall
<1>6. /\ status' \in [Orders -> Lifecycle!CommittedStatuses]
      /\ \A x \in Orders : status[x] # "NotPlaced" => status'[x] # "NotPlaced"
      /\ status'[o] # "NotPlaced"
  BY <1>1, <1>3 DEF FlowInv, TypeOK, Lifecycle!CommittedStatuses
<1>7. TypeOK'
  BY <1>3, <1>5, <1>6 DEF FlowInv, TypeOK, payVars, extVars
<1>8. \A p \in Payments : payOrder[p] # o
  BY <1>1, NoneAssumption DEF FlowInv, PaymentsOK
<1>9. ~Asked(c) /\ ~Knows(c) /\ (Holds(c) => c.order = o)
  BY <1>4, <1>5 DEF Holds, Asked, Knows, NoCall
<1>10. CallOK(c, status', payOrder, payStatus)
  BY <1>1, <1>6, <1>8, <1>9 DEF CallOK
<1>11. ASSUME NEW w \in Visits, w # v
       PROVE  /\ CallOK(call[w], status', payOrder, payStatus)
              /\ Apart(c, call[w]) /\ Apart(call[w], c)
  <2>1. CallOK(call[w], status, payOrder, payStatus)
    BY DEF FlowInv, CallsOK
  <2>2. Holds(call[w]) => call[w].order # o
    BY <1>1, <2>1 DEF CallOK
  <2> QED BY <1>6, <1>9, <2>1, <2>2 DEF CallOK, Apart
<1>12. CallsOK'
  <2>1. \A w \in Visits : CallOK(call'[w], status', payOrder', payStatus')
    BY <1>3, <1>5, <1>10, <1>11 DEF payVars
  <2>2. \A w, u \in Visits : w # u => Apart(call'[w], call'[u])
    BY <1>5, <1>11 DEF FlowInv, CallsOK
  <2> QED BY <2>1, <2>2 DEF CallsOK
<1>13. PaymentsOK'
  BY <1>3, <1>6 DEF FlowInv, PaymentsOK, payVars, extVars
<1> QED BY <1>7, <1>12, <1>13 DEF FlowInv

\* Paystack accepts a reference that no row and no other call has.
LEMMA AskPaystackKeeps ==
    ASSUME FlowInv, NEW v \in Visits, AskPaystack(v)
    PROVE  FlowInv'
<1> DEFINE p == CHOOSE q \in FreshRefs : TRUE
           c == [call[v] EXCEPT !.at = "asked", !.ref = p]
<1>1. /\ p \in Payments /\ payStatus[p] = "None"
      /\ \A w \in Visits : call[w] # NoCall => call[w].ref # p
  BY DEF AskPaystack, FreshRefs
<1>2. call[v] \in Calls /\ call[v].kind = "initialize" /\ call[v] # NoCall
      /\ Holds(call[v])
  BY VisitTypes, CallTypes DEF AskPaystack, CallIs, Holds
<1>3. /\ call' = [call EXCEPT ![v] = c]
      /\ UNCHANGED <<cart, status, payVars, extVars, page, ref>>
  BY DEF AskPaystack
<1> HIDE DEF p
<1>4. /\ c \in Calls /\ c.kind = "initialize" /\ c.at = "asked" /\ c.ref = p
      /\ c.order = call[v].order
  BY <1>1, <1>2, AskedCall
<1> HIDE DEF c
<1>5. Holds(c) /\ Asked(c) /\ ~Knows(c)
  BY <1>4 DEF Holds, Asked, Knows
<1>6. CallOK(c, status, payOrder, payStatus)
  BY <1>1, <1>2, <1>4, <1>5, VisitTypes DEF CallOK
<1>7. ASSUME NEW w \in Visits, w # v
      PROVE  Apart(c, call[w]) /\ Apart(call[w], c)
  <2>1. Asked(call[w]) => call[w].ref # p
    <3>1. Asked(call[w]) => call[w] # NoCall
      BY DEF Asked, NoCall
    <3> QED BY <1>1, <3>1
  <2>2. Apart(call[v], call[w]) /\ Apart(call[w], call[v])
    BY <1>7, VisitTypes
  <2> QED BY <1>2, <1>4, <1>5, <2>1, <2>2 DEF Apart
<1> QED BY <1>3, <1>4, <1>6, <1>7, CallStep DEF FlowInv, TypeOK, PaymentsOK

\* Recording the payment uses the right up.
LEMMA RecordPaymentKeeps ==
    ASSUME FlowInv, NEW v \in Visits, RecordPayment(v)
    PROVE  FlowInv'
<1> DEFINE p == call[v].ref
           o == call[v].order
           d == [call[v] EXCEPT !.at = "answered"]
<1>1. /\ call[v] \in Calls /\ call[v].kind = "initialize" /\ call[v] # NoCall
      /\ Holds(call[v]) /\ Asked(call[v])
  BY VisitTypes, CallTypes DEF RecordPayment, CallIs, Holds, Asked
<1>2. /\ p \in Payments /\ payStatus[p] = "None"
      /\ o \in Orders /\ status[o] # "NotPlaced"
      /\ \A q \in Payments : payOrder[q] # o
  BY <1>1, VisitTypes DEF CallOK
<1>3. /\ payOrder' = [payOrder EXCEPT ![p] = o]
      /\ payStatus' = [payStatus EXCEPT ![p] = "PENDING"]
      /\ End(v, d) /\ UNCHANGED <<cart, status, answer, extVars, page, ref>>
  BY DEF RecordPayment
<1>4. d \in Calls /\ d.kind = "initialize" /\ d.at = "answered" /\ d.ref = p
  BY <1>1, CallAt DEF Points
<1> HIDE DEF d
<1>5. PICK c \in {d, NoCall} : /\ c \in Calls
                               /\ call' \in [Visits -> Calls]
                               /\ call'[v] = c
                               /\ \A w \in Visits : w # v => call'[w] = call[w]
  BY <1>3, <1>4, EndedCall
<1>6. /\ payOrder' \in [Payments -> Orders \cup {None}]
      /\ payStatus' \in [Payments -> {"None", "PENDING", "SUCCESSFUL", "FAILED"}]
      /\ payOrder'[p] = o /\ payStatus'[p] = "PENDING"
      /\ \A q \in Payments : q # p => payOrder'[q] = payOrder[q]
                                      /\ payStatus'[q] = payStatus[q]
  BY <1>2, <1>3 DEF FlowInv, TypeOK
<1>7. TypeOK'
  BY <1>3, <1>5, <1>6 DEF FlowInv, TypeOK, extVars
<1>8. ~Holds(c) /\ ~Asked(c) /\ (Knows(c) => c.ref = p)
  BY <1>4, <1>5 DEF Holds, Asked, Knows, NoCall
<1>9. CallOK(c, status', payOrder', payStatus')
  BY <1>2, <1>6, <1>8 DEF CallOK
<1>10. ASSUME NEW w \in Visits, w # v
       PROVE  CallOK(call[w], status', payOrder', payStatus')
  <2>1. CallOK(call[w], status, payOrder, payStatus)
    BY DEF FlowInv, CallsOK
  <2>2. /\ Holds(call[w]) => call[w].order # o
        /\ Asked(call[w]) => call[w].ref # p
    BY <1>1, <1>10, VisitTypes DEF Apart
  <2> HIDE DEF p, o
  <2> QED BY <1>3, <1>6, <2>1, <2>2 DEF CallOK
<1>11. CallsOK'
  <2>1. \A w \in Visits : CallOK(call'[w], status', payOrder', payStatus')
    BY <1>5, <1>9, <1>10
  <2>2. \A w, u \in Visits : w # u => Apart(call'[w], call'[u])
    BY <1>5, <1>8 DEF FlowInv, CallsOK, Apart
  <2> QED BY <2>1, <2>2 DEF CallsOK
<1>12. PaymentsOK'
  <2> HIDE DEF p, o
  <2>1. o # None
    BY <1>2, NoneAssumption
  <2>2. ASSUME NEW q \in Payments
        PROVE  IF payStatus'[q] = "None"
               THEN payOrder'[q] = None /\ answer'[q] = "none"
               ELSE payOrder'[q] \in Orders /\ status'[payOrder'[q]] # "NotPlaced"
    BY <1>2, <1>3, <1>6 DEF FlowInv, PaymentsOK
  <2>3. \A q, u \in Payments :
           payOrder'[q] # None /\ payOrder'[q] = payOrder'[u] => q = u
    BY <1>2, <1>6 DEF FlowInv, PaymentsOK
  <2>4. \A w \in Visits : ref'[w] # None => payStatus'[ref'[w]] # "None"
    BY <1>3, <1>6, VisitTypes
  <2>5. \A q \in captured' : payStatus'[q] # "None"
    BY <1>3, <1>6 DEF FlowInv, TypeOK, PaymentsOK, extVars
  <2> QED BY <2>2, <2>3, <2>4, <2>5 DEF PaymentsOK
<1> QED BY <1>7, <1>11, <1>12 DEF FlowInv

-----------------------------------------------------------------------------
(* Paystack, its webhook, and the rest.                                    *)

LEMMA PaystackKeeps ==
    ASSUME FlowInv, NEW v \in Visits, Paystack(v)
    PROVE  FlowInv'
<1>1. ref[v] \in Payments /\ payStatus[ref[v]] # "None"
  BY VisitTypes DEF Paystack, Capture, ReportUnpaid
<1>2. /\ captured' = captured \cup {ref[v]} \/ captured' = captured
      /\ events' = events \cup {ref[v]}
      /\ UNCHANGED <<mock, cart, status, payVars, pageVars>>
  BY DEF Paystack, Capture, ReportUnpaid
<1>3. /\ captured' \subseteq Payments /\ events' \subseteq Payments
      /\ \A p \in captured' : payStatus[p] # "None"
  BY <1>1, <1>2 DEF FlowInv, TypeOK, PaymentsOK
<1> QED BY <1>2, <1>3, QuietStep DEF FlowInv, TypeOK, PaymentsOK, pageVars

LEMMA WebhookKeeps ==
    ASSUME FlowInv, NEW p \in Payments, Webhook(p)
    PROVE  FlowInv'
<1>1. TypeOK /\ PaymentsOK
  BY DEF FlowInv
<1>2. CASE VerifyForWebhook(p)
  <2>1. /\ answer' \in [Payments -> {"none", "success", "other"}]
        /\ \A q \in Payments : payStatus[q] = "None" => answer'[q] = "none"
    BY <1>1, <1>2 DEF VerifyForWebhook, TypeOK, PaymentsOK
  <2> QED BY <1>1, <1>2, <2>1, StatusStep DEF VerifyForWebhook, TypeOK, pageVars
<1>3. CASE ApplyForWebhook(p) \/ AbortWebhook(p)
  <2>1. payStatus[p] # "None"
    BY <1>1, <1>3 DEF ApplyForWebhook, AbortWebhook, PaymentsOK
  <2>2. /\ answer' = [answer EXCEPT ![p] = "none"]
        /\ UNCHANGED <<cart, payOrder, extVars, pageVars>>
    BY <1>3 DEF ApplyForWebhook, AbortWebhook
  <2>3. /\ answer' \in [Payments -> {"none", "success", "other"}]
        /\ \A q \in Payments : payStatus[q] = "None" => answer'[q] = "none"
    BY <1>1, <2>2 DEF TypeOK, PaymentsOK
  <2>4. /\ status' \in [Orders -> Lifecycle!CommittedStatuses]
        /\ payStatus' \in [Payments -> {"None", "PENDING", "SUCCESSFUL", "FAILED"}]
        /\ \A o \in Orders : status[o] # "NotPlaced" => status'[o] # "NotPlaced"
        /\ \A q \in Payments : payStatus[q] = "None" <=> payStatus'[q] = "None"
    <3>1. CASE ApplySuccess(p)
      BY <2>1, <3>1, ApplyTypes
    <3>2. CASE UNCHANGED status /\ payStatus' = [payStatus EXCEPT ![p] = "FAILED"]
      BY <1>1, <2>1, <3>2 DEF TypeOK
    <3>3. CASE UNCHANGED <<status, payStatus>>
      BY <1>1, <3>3 DEF TypeOK
    <3> QED BY <1>3, <3>1, <3>2, <3>3 DEF ApplyForWebhook, AbortWebhook
  <2>5. call' \in [Visits -> Calls] /\ \A v \in Visits : call'[v] = call[v]
    BY <1>1, <2>2 DEF TypeOK, pageVars
  <2> QED BY <2>2, <2>3, <2>4, <2>5, StatusStep DEF pageVars
<1>4. CASE AcknowledgeWebhook(p)
  <2>1. events' \subseteq Payments
    BY <1>1, <1>4 DEF AcknowledgeWebhook, TypeOK
  <2> QED BY <1>1, <1>4, <2>1, QuietStep
          DEF AcknowledgeWebhook, TypeOK, PaymentsOK, pageVars
<1> QED BY <1>2, <1>3, <1>4 DEF Webhook

\* An administrator withdraws only an order that was placed.
LEMMA WithdrawKeeps ==
    ASSUME FlowInv, NEW o \in Orders, NEW to \in {"CANCELLED", "REFUNDED"},
           Withdraw(o, to)
    PROVE  FlowInv'
<1>1. TypeOK /\ PaymentsOK
  BY DEF FlowInv
<1>2. status' = [status EXCEPT ![o] = to]
      /\ UNCHANGED <<cart, payVars, extVars, pageVars>>
  BY DEF Withdraw
<1>3. /\ status' \in [Orders -> Lifecycle!CommittedStatuses]
      /\ \A x \in Orders : status[x] # "NotPlaced" => status'[x] # "NotPlaced"
  BY <1>1, <1>2 DEF TypeOK, Lifecycle!CommittedStatuses
<1> QED BY <1>1, <1>2, <1>3, StatusStep DEF TypeOK, PaymentsOK, payVars, pageVars

-----------------------------------------------------------------------------
(* The invariant holds.                                                    *)

LEMMA FlowInvariance == Spec => []FlowInv
<1>1. Init => FlowInv
  <2> SUFFICES ASSUME Init PROVE FlowInv
    OBVIOUS
  <2>1. TypeOK
    BY DEF Init, TypeOK, Pages, Calls, NoCall, Lifecycle!CommittedStatuses
  <2>2. CallsOK
    BY DEF Init, NoCall, CallsOK, CallOK, Apart, Holds, Asked, Knows
  <2>3. PaymentsOK
    BY DEF Init, PaymentsOK
  <2> QED BY <2>1, <2>2, <2>3 DEF FlowInv
<1>2. FlowInv /\ [Next]_vars => FlowInv'
  <2> SUFFICES ASSUME FlowInv, [Next]_vars PROVE FlowInv'
    OBVIOUS
  <2>1. CASE AddToCart \/ RemoveFromCart \/ UNCHANGED vars
    BY <2>1, QuietStep DEF AddToCart, RemoveFromCart, vars, FlowInv, TypeOK,
       PaymentsOK, payVars, extVars, pageVars
  <2>2. ASSUME NEW v \in Visits,
               Click(v) \/ Handle(v) \/ Serve(v) \/ Fail(v) \/ Paystack(v)
        PROVE  FlowInv'
    BY <2>2, ClicksKeep, HandlersKeep, FailKeeps, PaystackKeeps,
       ServeCheckoutKeeps, AskPaystackKeeps, RecordPaymentKeeps,
       ServeVerifyKeeps DEF Serve
  <2> QED BY <2>1, <2>2, WebhookKeeps, WithdrawKeeps DEF Next
<1> QED BY <1>1, <1>2, PTL DEF Spec

\* TypeOK: the database, Paystack's side, the pages and their calls have their
\* types in every state; a payment page has a reference in its address.
THEOREM TypeCorrectness == Spec => []TypeOK
<1>1. FlowInv => TypeOK
  BY DEF FlowInv
<1> QED BY <1>1, FlowInvariance, PTL

\* A webhook for a captured payment never meets "Payment not found":
\* initialize_payment answers a reference only when its row is committed.
THEOREM ChargesAreRecorded == Spec => []ChargesHaveTheirPayment
<1>1. FlowInv => ChargesHaveTheirPayment
  BY DEF FlowInv, TypeOK, PaymentsOK, ChargesHaveTheirPayment
<1> QED BY <1>1, FlowInvariance, PTL

\* Of an order at most one payment is captured, for any number of tabs,
\* reloads, failures and repeated clicks: handlePlaceOrder asks for a payment
\* of an order once, right after the checkout that returned it.
THEOREM OrdersAreChargedOnce == Spec => []NoOrderIsChargedTwice
<1>1. FlowInv => NoOrderIsChargedTwice
  BY NoneAssumption DEF FlowInv, TypeOK, PaymentsOK, NoOrderIsChargedTwice
<1> QED BY <1>1, FlowInvariance, PTL
===============================================================================
