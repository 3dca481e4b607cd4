--------------------------- MODULE MCPipelineRaces ---------------------------
(* Finite instances of PipelineRaces: all cycles are of one category, so   *)
(* that openings compete.                                                  *)
EXTENDS PipelineRaces, TLC

CONSTANT veg

MCCategories == {veg}
MCCategory == [c \in Cycles |-> veg]
MCPinned == {}

\* One cycle is assigned to a product, so the cycles are not alike.
MCRequestSymmetry ==
    UNION {Permutations(S) : S \in {Orders, Payments, CustomerReq, AdminReq}}
=============================================================================
