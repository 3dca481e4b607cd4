--------------------------- MODULE MCOrderPipeline ---------------------------
(* Finite instances of OrderPipeline: all cycles are of one category, so   *)
(* that openings compete, and no product is pinned to a cycle.             *)
EXTENDS OrderPipeline, TLC

CONSTANT veg

MCCategories == {veg}
MCCategory == [c \in Cycles |-> veg]
MCPinned == {}

MCSymmetry ==
    UNION {Permutations(S) : S \in {Orders, Payments, Cycles}}
        \cup Permutations(CustomerReq \ AdminReq)
        \cup Permutations(AdminReq \ CustomerReq)
=============================================================================
