------------------------------ MODULE SoleThread ------------------------------
(***************************************************************************)
(* What a service promises that keeps its work in one background thread    *)
(* and has requests to start and to stop it: a thread is made only when no *)
(* earlier one is left, and one that has ended never comes back. The       *)
(* stream worker keeps its dataflow like this, the producer its loop.      *)
(***************************************************************************)
EXTENDS Naturals

VARIABLES
  born,   \* how many threads were ever started
  living  \* those that have not ended

vars == <<born, living>>

Init == born = 0 /\ living = {}

Start == /\ living = {}
         /\ born' = born + 1 /\ living' = {born + 1}

\* Whatever ends it: it returns, it fails, or it was asked to stop.
End == /\ living # {} /\ living' = {}
       /\ UNCHANGED born

Next == Start \/ End

Spec == Init /\ [][Next]_vars
===============================================================================
