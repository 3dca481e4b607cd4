----------------------------- MODULE MCCatalogue -----------------------------
(* Finite instances of Catalogue.  An administrator who types the name of   *)
(* the group "Grains & Cereals" gets another slug than the seed's, with the *)
(* ampersand in it; one who types "Oils" gets the same slug.                *)
EXTENDS Catalogue, TLC

Grains == [name |-> "Grains & Cereals", slug |-> "grains-cereals",
           product |-> "rice"]
Oils == [name |-> "Oils", slug |-> "oils", product |-> "palm oil"]

MCSlugify == "Grains & Cereals" :> "grains-&-cereals"
MCStarter == <<Grains>>

MCTwoSlugify == "Grains & Cereals" :> "grains-&-cereals" @@ "Oils" :> "oils"
MCTwoGroups == <<Oils, Grains>>

MCSymmetry == Permutations(Instances) \cup Permutations(Products)
                 \cup Permutations(Cycles)
=============================================================================
