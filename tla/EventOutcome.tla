----------------------------- MODULE EventOutcome -----------------------------
(***************************************************************************)
(* What the fraud pipeline promises about one transaction event, whatever  *)
(* process handles it and however often it is delivered: it is worked on   *)
(* at most once, that attempt either stores it in every store or drops it, *)
(* and the outside world is told one final verdict about it at most once,  *)
(* a decision only when the event is stored.                               *)
(***************************************************************************)
CONSTANT Events

VARIABLES
  outcome,  \* what became of the single attempt at each event
  told      \* the verdict that consumers and callers have seen

vars == <<outcome, told>>

Init == /\ outcome = [e \in Events |-> "new"]
        /\ told = [e \in Events |-> "nothing"]

Begin(e) ==
  /\ outcome[e] = "new"
  /\ outcome' = [outcome EXCEPT ![e] = "working"]
  /\ UNCHANGED told

\* The attempt ends with the event stored; a caller who waits for the answer
\* learns the decision in the same step.
Store(e) ==
  /\ outcome[e] = "working"
  /\ outcome' = [outcome EXCEPT ![e] = "stored"]
  /\ \/ told' = [told EXCEPT ![e] = "decided"]
     \/ UNCHANGED told

\* The attempt fails, or the process dies with it. An attempt that is lost
\* together with the reply to its claim is dropped without having begun.
Drop(e) ==
  /\ outcome[e] \in {"new", "working"}
  /\ outcome' = [outcome EXCEPT ![e] = "dropped"]
  /\ UNCHANGED told

TellDecision(e) ==
  /\ outcome[e] = "stored" /\ told[e] = "nothing"
  /\ told' = [told EXCEPT ![e] = "decided"]
  /\ UNCHANGED outcome

\* A failure may be announced for a stored event too: the last store may have
\* applied the update whose reply was lost.
TellFailure(e) ==
  /\ outcome[e] \in {"stored", "dropped"} /\ told[e] = "nothing"
  /\ told' = [told EXCEPT ![e] = "failed"]
  /\ UNCHANGED outcome

Next == \E e \in Events :
  Begin(e) \/ Store(e) \/ Drop(e) \/ TellDecision(e) \/ TellFailure(e)

Spec == Init /\ [][Next]_vars
===============================================================================
