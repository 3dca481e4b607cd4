---------------------------- MODULE MCDemoBackend ----------------------------
(* Finite instances of DemoBackend: grains have two cycles, of which one    *)
(* can be open, and oils have one.                                          *)
EXTENDS DemoBackend, TLC

CONSTANTS c1, c2, c3

MCCategoryOf == c1 :> "grains" @@ c2 :> "grains" @@ c3 :> "oils"

MCSymmetry == Permutations(Payments) \cup Permutations(Orders)
                 \cup Permutations(Products) \cup Permutations({c1, c2})
=============================================================================
