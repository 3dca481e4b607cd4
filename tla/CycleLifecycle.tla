--------------------------- MODULE CycleLifecycle ---------------------------
(***************************************************************************)
(* What the procurement cycles promise to customers and to the buyers: a   *)
(* cycle is a draft, then open, then closed, and never goes back; it is    *)
(* opened only while no other cycle of its category is open, so that a     *)
(* product has one cycle to be ordered in; and the quantities to be bought *)
(* are fixed at the moment it is closed.  A cycle that two requests have   *)
(* raced for may be rewritten: it bears the blame for what the others can  *)
(* no longer promise.  Which orders are counted is OrderPipeline's         *)
(* business.                                                               *)
(***************************************************************************)
CONSTANTS Cycles, Category, Orders

VARIABLES
    status,     \* [Cycles -> {"DRAFT", "OPEN", "CLOSED"}]
    counted,    \* [Cycles -> SUBSET Orders]: the orders of the snapshot
    raced       \* the cycles two requests have raced for

vars == <<status, counted, raced>>

Init ==
    /\ status = [c \in Cycles |-> "DRAFT"]
    /\ counted = [c \in Cycles |-> {}]
    /\ raced = {}

Open(c) ==
    /\ \/ c \in raced
       \/ /\ status[c] = "DRAFT"
          /\ \A d \in Cycles : Category[d] = Category[c] => status[d] # "OPEN"
    /\ status' = [status EXCEPT ![c] = "OPEN"]
    /\ UNCHANGED counted

Close(c, S) ==
    /\ c \in raced \/ status[c] = "OPEN"
    /\ status' = [status EXCEPT ![c] = "CLOSED"]
    /\ counted' = [counted EXCEPT ![c] = S]

Next ==
    /\ raced \subseteq raced'
    /\ \E c \in Cycles : Open(c) \/ \E S \in SUBSET Orders : Close(c, S)

Spec == Init /\ [][Next]_vars

-----------------------------------------------------------------------------

Types ==
    /\ status \in [Cycles -> {"DRAFT", "OPEN", "CLOSED"}]
    /\ counted \in [Cycles -> SUBSET Orders]

\* The query by which a checkout looks for the open cycle of a category
\* (_active_open_cycle_for_category) never finds two, but for one that raced.
OneOpenPerCategory ==
    \A c, d \in Cycles :
        status[c] = "OPEN" /\ status[d] = "OPEN" /\ Category[c] = Category[d]
            => c = d \/ {c, d} \cap raced # {}

\* Only a closed cycle has a snapshot.
OnlyClosedAreCounted ==
    \A c \in Cycles \ raced : counted[c] # {} => status[c] = "CLOSED"
=============================================================================
