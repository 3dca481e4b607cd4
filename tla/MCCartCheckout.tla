--------------------------- MODULE MCCartCheckout ----------------------------
(* Finite instances of CartCheckout.  Half a unit of a product at 33.33 or  *)
(* 50.01 is worth a line total with a half kobo, so that rounding matters;  *)
(* the price and the minimum that were loaded with a cart may be stale.     *)
(* Each request may be of any kind, and the two overlap.                    *)
EXTENDS CartCheckout, TLC

MCOffers ==
    {[price |-> 3333, minimum |-> 50, available |-> TRUE],
     [price |-> 5001, minimum |-> 100, available |-> TRUE]}

MCSymmetry == Permutations(Products) \cup Permutations(Lines)
                \cup Permutations(Orders) \cup Permutations(Req)
                \cup Permutations(Addresses \ {Home})
=============================================================================
