--------------------------- MODULE MCFeatureWindows ---------------------------
(***************************************************************************)
(* FeatureWindows for TLC. Processes and merchants are interchangeable and *)
(* every property checked is an invariant, so both sets may be permuted.   *)
(***************************************************************************)
EXTENDS FeatureWindows, TLC

Symmetry == Permutations(Actors) \cup Permutations(Merchants)
===============================================================================
