----------------------------- MODULE MCLiveConsole -----------------------------
(***************************************************************************)
(* LiveConsole for TLC: a training whose model separates only at the upper *)
(* end of the grid and one whose model is wrong, and observations that     *)
(* between them are hit by every set of rules that can hit together.       *)
(***************************************************************************)
EXTENDS LiveConsole

Row(n, p, fraud) == [row |-> n, p |-> p, fraud |-> fraud]
TwoTrainings == {{Row(1, 92, FALSE), Row(2, 97, TRUE)}, {Row(1, 8, TRUE), Row(2, 45, FALSE)}}

Combinations ==
  [amount : {10, 100, 1500}, count : {3, 4, 5}, distance : {0, 500}, pause : {3600},
   newDevice : {TRUE}, highRisk : BOOLEAN, mismatch : {TRUE}, night : BOOLEAN]
===============================================================================
