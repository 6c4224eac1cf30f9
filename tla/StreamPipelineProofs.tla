------------------------- MODULE StreamPipelineProofs -------------------------
(***************************************************************************)
(* Proofs about StreamPipeline, for any number of events, API processes,   *)
(* messages, faults and crashes.                                           *)
(***************************************************************************)
EXTENDS StreamPipeline, TLAPS

USE PayloadAssumption, ActorAssumption

LEMMA WrittenType ==
  ASSUME TypeOK, NEW e \in Events, NEW s \in Stores
  PROVE  Written(e, s) \in [Events -> [Stores -> Nat]]
BY DEF TypeOK, Written

\* What a handler may change when it returns is well typed again.
Returned == /\ pc' \in [Actors -> Calls]
            /\ job' \in [Actors -> Events \cup {NoEvent}]
            /\ answers' \in [Events -> SUBSET {200, 409, 500}]
            /\ offset' \in Nat /\ outbox' \subseteq Messages

LEMMA RestType ==
  ASSUME TypeOK, NEW a \in Actors, Rest(a)
  PROVE  pc' \in [Actors -> Calls] /\ job' \in [Actors -> Events \cup {NoEvent}]
BY DEF TypeOK, Rest, Calls

LEMMA EmitType ==
  ASSUME TypeOK, NEW msgs \in SUBSET Messages, Emit(msgs)
  PROVE  Returned
<1>1. Rest(Worker) /\ Worker \in Actors
  BY DEF Emit, Actors
<1>2. QED
  BY <1>1, RestType DEF TypeOK, Emit, Returned

LEMMA AnswerType ==
  ASSUME TypeOK, NEW a \in Actors, NEW code \in {200, 409, 500}, Answer(a, code)
  PROVE  Returned
<1>1. Rest(a)
  BY DEF Answer
<1>2. answers' \in [Events -> SUBSET {200, 409, 500}]
  <2> DEFINE new == [answers EXCEPT ![job[a]] = @ \cup {code}]
  <2>1. ASSUME NEW e \in Events PROVE new[e] \in SUBSET {200, 409, 500}
    BY DEF TypeOK
  <2>2. DOMAIN new = Events
    BY DEF TypeOK
  <2>3. new = [e \in Events |-> new[e]]
    BY DEF TypeOK
  <2>4. answers' = new
    BY DEF Answer
  <2> HIDE DEF new
  <2>5. QED
    BY <2>1, <2>3, <2>4
<1>3. QED
  BY <1>1, <1>2, RestType DEF TypeOK, Answer, Returned, batch

LEMMA DieType ==
  ASSUME TypeOK, Die
  PROVE  Returned
BY DEF TypeOK, Die, Returned, Actors, Calls

LEMMA GiveUpType ==
  ASSUME TypeOK, NEW a \in Actors, job[a] \in Events, GiveUp(a)
  PROVE  Returned
<1>1. {Msg("processing", job[a])} \in SUBSET Messages
  BY DEF Msg, Messages, DlqStages, Payloads
<1>2. QED
  BY <1>1, EmitType, AnswerType DEF GiveUp

\* An actor that is about to make a call has an event in hand.
HasJob == \A a \in Actors : pc[a] \in {"claim"} \cup Busy => job[a] \in Events

\* Every action leaves the types alone.
LEMMA TypeStep == TypeOK /\ HasJob /\ [Next]_vars => TypeOK' /\ HasJob'
<1> SUFFICES ASSUME TypeOK, HasJob, [Next]_vars PROVE TypeOK' /\ HasJob'
  OBVIOUS
<1> USE DEF kafka, batch, actors, budget
<1>1. ASSUME NEW m \in Payloads, Produce(m) PROVE TypeOK' /\ HasJob'
  BY <1>1 DEF Produce, TypeOK, HasJob
<1>2. CASE ConsumeMalformed
  <2>1. /\ raw[offset + 1] \in Malformed
        /\ {Msg("validation", raw[offset + 1])} \in SUBSET Messages
        /\ Emit({Msg("validation", raw[offset + 1])})
    BY <1>2 DEF ConsumeMalformed, Msg, Messages, DlqStages, Payloads
  <2>2. Returned
    BY <2>1, EmitType
  <2>3. HasJob'
    BY <2>1, <1>2 DEF ConsumeMalformed, Emit, Rest, TypeOK, HasJob, Actors, Busy, Stores
  <2>4. QED
    BY <1>2, <2>2, <2>3 DEF ConsumeMalformed, TypeOK, Returned
<1>3. CASE Consume
  BY <1>3 DEF Consume, TypeOK, HasJob, Actors, Calls
<1>4. CASE SourceError
  BY <1>4 DEF SourceError, Fault, TypeOK, HasJob, Messages, Msg, DlqStages
<1>5. ASSUME NEW p \in ApiProcs, NEW e \in Events, Predict(p, e)
      PROVE  TypeOK' /\ HasJob'
  BY <1>5 DEF Predict, TypeOK, HasJob, Actors, Calls
<1>6. ASSUME NEW a \in Actors, Handle(a) PROVE TypeOK' /\ HasJob'
  <2>0. ASSUME pc' = [pc EXCEPT ![a] = "idle"] \/ pc' = [pc EXCEPT ![a] = "down"],
               job' = [job EXCEPT ![a] = NoEvent]
        PROVE  HasJob'
    BY <2>0 DEF TypeOK, HasJob, Busy, Stores
  <2>1. CASE Claim(a)
    BY <2>1 DEF Claim, TypeOK, HasJob, Calls, Busy
  <2>2. CASE Duplicate(a)
    <3>1. {} \in SUBSET Messages
      OBVIOUS
    <3>2. Returned /\ Rest(a)
      BY <2>2, <3>1, EmitType, AnswerType DEF Duplicate, Emit, Answer
    <3>3. QED
      BY <2>2, <3>2, <2>0 DEF Duplicate, TypeOK, Returned, Rest
  <2>3. CASE ClaimFails(a)
    <3>1. Returned
      BY <2>3, DieType, AnswerType DEF ClaimFails
    <3>2. HasJob'
      BY <2>3, <2>0 DEF ClaimFails, Die, Answer, Rest
    <3>3. claimedBy' \in [Events -> Actors \cup {NoOne}]
      BY <2>3 DEF ClaimFails, TypeOK
    <3>4. QED
      BY <2>3, <3>1, <3>2, <3>3 DEF ClaimFails, Fault, TypeOK, Returned
  <2>4. CASE ProcessEvent(a)
    BY <2>4 DEF ProcessEvent, TypeOK, HasJob, Calls, Busy, Stores
  <2>5. CASE RejectEvent(a)
    <3>1. Returned /\ Rest(a)
      BY <2>5, GiveUpType DEF RejectEvent, GiveUp, Emit, Answer, HasJob, Busy
    <3>2. QED
      BY <2>5, <3>1, <2>0 DEF RejectEvent, TypeOK, Returned, Rest
  <2>6. ASSUME NEW s \in Stores, Save(a, s) PROVE TypeOK' /\ HasJob'
    <3>1. rows' \in [Events -> [Stores -> Nat]]
      BY <2>6, WrittenType DEF Save, HasJob, Busy
    <3>2. pc[a] \in Busy /\ NextCall[s] \in Busy
      BY <2>6 DEF Save, NextCall, Busy, Stores
    <3>3. QED
      BY <2>6, <3>1, <3>2 DEF Save, TypeOK, HasJob, Calls
  <2>7. CASE UpdateState(a)
    <3>2. job[a] \in Events
      BY <2>7 DEF UpdateState, HasJob, Busy, Stores
    <3>1. rows' \in [Events -> [Stores -> Nat]]
      BY <2>7, <3>2, WrittenType DEF UpdateState, Stores
    <3>3. BundleMessages(job[a]) \in SUBSET Messages
      BY <3>2 DEF BundleMessages, Msg, Messages, Payloads
    <3>4. Returned /\ Rest(a)
      BY <2>7, <3>3, EmitType, AnswerType DEF UpdateState, Emit, Answer
    <3>5. QED
      BY <2>7, <3>1, <3>4, <2>0 DEF UpdateState, TypeOK, Returned, Rest
  <2>8. CASE CallFails(a)
    <3>1. rows' \in [Events -> [Stores -> Nat]]
      BY <2>8, WrittenType DEF CallFails, TypeOK, HasJob
    <3>2. Returned /\ Rest(a)
      BY <2>8, GiveUpType DEF CallFails, GiveUp, Emit, Answer, HasJob
    <3>3. QED
      BY <2>8, <3>1, <3>2, <2>0 DEF CallFails, Fault, TypeOK, Returned, Rest
  <2>9. QED
    BY <1>6, <2>1, <2>2, <2>3, <2>4, <2>5, <2>6, <2>7, <2>8 DEF Handle
<1>7. CASE EndBatch
  BY <1>7 DEF EndBatch, TypeOK, HasJob, Actors, Calls, Busy, Stores
<1>8. ASSUME NEW m \in outbox, Deliver(m) PROVE TypeOK' /\ HasJob'
  BY <1>8 DEF Deliver, TypeOK, HasJob, Actors, Calls, Busy, Stores
<1>9. CASE WorkerCrash
  <2>1. HasJob'
    BY <1>9 DEF WorkerCrash, Die, TypeOK, HasJob, Busy, Stores
  <2>2. QED
    BY <1>9, <2>1, DieType DEF WorkerCrash, Crash, TypeOK, Returned
<1>10. CASE WorkerStart
  BY <1>10 DEF WorkerStart, TypeOK, HasJob, Actors, Calls, Busy, Stores
<1>11. ASSUME NEW p \in ApiProcs, ApiCrash(p) PROVE TypeOK' /\ HasJob'
  <2>1. p \in Actors /\ Rest(p)
    BY <1>11 DEF ApiCrash, Actors
  <2>2. HasJob'
    BY <2>1 DEF Rest, TypeOK, HasJob, Busy, Stores
  <2>3. QED
    BY <1>11, <2>1, <2>2, RestType DEF ApiCrash, Crash, TypeOK
<1>12. CASE UNCHANGED vars
  BY <1>12 DEF vars, TypeOK, HasJob
<1>13. QED
  BY <1>1, <1>2, <1>3, <1>4, <1>5, <1>6, <1>7, <1>8, <1>9, <1>10, <1>11, <1>12
  DEF Next

\* Every variable always holds a value of its type: calls, rows, messages and
\* answers of the processor never leave what the code can produce.
THEOREM TypeCorrect == Spec => []TypeOK
<1>1. Init => TypeOK /\ HasJob
  BY DEF Init, TypeOK, HasJob, Calls, Busy, Stores
<1>2. QED
  BY <1>1, TypeStep, PTL DEF Spec
-------------------------------------------------------------------------------
(***************************************************************************)
(* The inductive invariant on the stores. While an actor works on an event *)
(* it holds the claim, and exactly the rows before its next call are there.*)
(***************************************************************************)
Done == [enrich |-> {}, raw |-> {}, scored |-> {"raw"},
         decision |-> {"raw", "scored"},
         features |-> {"raw", "scored", "decision"}]

ClaimHeld == \A a \in Actors : pc[a] \in Busy => claimedBy[job[a]] = a
WrittenSoFar == \A a \in Actors : pc[a] \in Busy =>
  \A s \in Stores : rows[job[a]][s] = IF s \in Done[pc[a]] THEN 1 ELSE 0
UnclaimedIsEmpty == \A e \in Events : claimedBy[e] = NoOne =>
  \A s \in Stores : rows[e][s] = 0

StoreInv == ClaimHeld /\ WrittenSoFar /\ UnclaimedIsEmpty /\ AtMostOnce /\ NoHoles

(* What a step may do to the claims and the rows: seven shapes.              *)
Alone(a) == \A b \in Actors : b # a => pc'[b] = pc[b] /\ job'[b] = job[b]
Leaves(a) == pc'[a] \notin Busy /\ Alone(a)

Aside == /\ UNCHANGED <<claimedBy, rows>>
         /\ \A a \in Actors : (pc[a] \in Busy \/ pc'[a] \in Busy)
                              => pc'[a] = pc[a] /\ job'[a] = job[a]
Drops(a) == Leaves(a) /\ UNCHANGED <<claimedBy, rows>>
TakesClaim(a) == /\ pc[a] = "claim" /\ claimedBy[job[a]] = NoOne
                 /\ claimedBy' = [claimedBy EXCEPT ![job[a]] = a]
                 /\ UNCHANGED rows
                 /\ \/ Leaves(a)
                    \/ pc'[a] = "enrich" /\ job'[a] = job[a] /\ Alone(a)
Computes(a) == /\ pc[a] = "enrich" /\ pc'[a] = "raw" /\ job'[a] = job[a]
               /\ Alone(a) /\ UNCHANGED <<claimedBy, rows>>
Writes(a, s) == /\ pc[a] = s /\ rows' = Written(job[a], s) /\ UNCHANGED claimedBy
                /\ \/ Leaves(a)
                   \/ /\ s \in DOMAIN NextCall /\ pc'[a] = NextCall[s]
                      /\ job'[a] = job[a] /\ Alone(a)

Shape == \/ Aside
         \/ \E a \in Actors : \/ Drops(a) \/ TakesClaim(a) \/ Computes(a)
                              \/ \E s \in Stores : Writes(a, s)

LEMMA RestLeaves ==
  ASSUME TypeOK, NEW a \in Actors, Rest(a)
  PROVE  Leaves(a)
BY DEF TypeOK, Rest, Leaves, Alone, Busy, Stores

LEMMA DieLeaves ==
  ASSUME TypeOK, Die
  PROVE  Leaves(Worker)
BY DEF TypeOK, Die, Leaves, Alone, Actors, Busy, Stores

LEMMA GiveUpRests ==
  ASSUME NEW a \in Actors, GiveUp(a)
  PROVE  Rest(a)
BY DEF GiveUp, Emit, Answer

\* Every step has one of the shapes.
LEMMA StepShape == TypeOK /\ HasJob /\ [Next]_vars => Shape
<1> SUFFICES ASSUME TypeOK, HasJob, [Next]_vars PROVE Shape
  OBVIOUS
<1> USE DEF kafka, batch, actors, budget
<1>0. Worker \in Actors
  BY DEF Actors
<1>1. ASSUME NEW m \in Payloads, Produce(m) PROVE Shape
  BY <1>1 DEF Produce, Shape, Aside
<1>2. CASE ConsumeMalformed
  BY <1>0, <1>2, RestLeaves DEF Drops, ConsumeMalformed, Emit, Shape
<1>3. CASE Consume
  BY <1>3 DEF Consume, Shape, Aside, TypeOK, Busy, Stores
<1>4. CASE SourceError
  BY <1>4 DEF SourceError, Shape, Aside
<1>5. ASSUME NEW p \in ApiProcs, NEW e \in Events, Predict(p, e) PROVE Shape
  BY <1>5 DEF Predict, Shape, Aside, TypeOK, Busy, Stores
<1>6. ASSUME NEW a \in Actors, Handle(a) PROVE Shape
  <2>1. CASE Claim(a)
    <3>1. TakesClaim(a)
      BY <2>1 DEF Claim, TakesClaim, Alone, TypeOK
    <3>2. QED
      BY <3>1 DEF Shape
  <2>2. CASE Duplicate(a)
    <3>1. Rest(a) /\ UNCHANGED <<claimedBy, rows>>
      BY <2>2 DEF Duplicate, Emit, Answer
    <3>2. QED
      BY <3>1, RestLeaves DEF Drops, Shape
  <2>3. CASE ClaimFails(a)
    <3>1. Leaves(a)
      BY <2>3, RestLeaves, DieLeaves DEF ClaimFails, Answer
    <3>2. CASE UNCHANGED claimedBy
      BY <2>3, <3>1, <3>2 DEF Drops, ClaimFails, Shape
    <3>3. CASE claimedBy[job[a]] = NoOne /\ claimedBy' = [claimedBy EXCEPT ![job[a]] = a]
      <4>1. TakesClaim(a)
        BY <2>3, <3>1, <3>3 DEF ClaimFails, TakesClaim
      <4>2. QED
        BY <4>1 DEF Shape
    <3>4. QED
      BY <2>3, <3>2, <3>3 DEF ClaimFails
  <2>4. CASE ProcessEvent(a)
    <3>1. Computes(a)
      BY <2>4 DEF ProcessEvent, Computes, Alone, TypeOK
    <3>2. QED
      BY <3>1 DEF Shape
  <2>5. CASE RejectEvent(a)
    BY <2>5, GiveUpRests, RestLeaves DEF Drops, RejectEvent, Shape
  <2>6. ASSUME NEW s \in Stores, Save(a, s) PROVE Shape
    <3>1. Writes(a, s)
      BY <2>6 DEF Save, Writes, Alone, TypeOK
    <3>2. QED
      BY <3>1 DEF Shape
  <2>7. CASE UpdateState(a)
    <3>1. Leaves(a)
      BY <2>7, RestLeaves DEF UpdateState, Emit, Answer
    <3>2. Writes(a, "features") /\ "features" \in Stores
      BY <2>7, <3>1 DEF UpdateState, Writes, Stores
    <3>3. QED
      BY <3>2 DEF Shape
  <2>8. CASE CallFails(a)
    <3>1. Leaves(a)
      BY <2>8, GiveUpRests, RestLeaves DEF CallFails
    <3>2. CASE UNCHANGED rows
      BY <2>8, <3>1, <3>2 DEF Drops, CallFails, Shape
    <3>3. CASE pc[a] \in Stores /\ rows' = Written(job[a], pc[a])
      BY <2>8, <3>1, <3>3 DEF CallFails, Shape, Writes
    <3>4. QED
      BY <2>8, <3>2, <3>3 DEF CallFails
  <2>9. QED
    BY <1>6, <2>1, <2>2, <2>3, <2>4, <2>5, <2>6, <2>7, <2>8 DEF Handle
<1>7. CASE EndBatch
  BY <1>7 DEF EndBatch, Shape, Aside, TypeOK, Busy, Stores
<1>8. ASSUME NEW m \in outbox, Deliver(m) PROVE Shape
  BY <1>8 DEF Deliver, Shape, Aside, TypeOK, Busy, Stores
<1>9. CASE WorkerCrash
  BY <1>0, <1>9, DieLeaves DEF Drops, WorkerCrash, Shape
<1>10. CASE WorkerStart
  BY <1>10 DEF WorkerStart, Shape, Aside, TypeOK, Busy, Stores
<1>11. ASSUME NEW p \in ApiProcs, ApiCrash(p) PROVE Shape
  BY <1>11, RestLeaves DEF Drops, ApiCrash, Shape, Actors
<1>12. CASE UNCHANGED vars
  BY <1>12 DEF vars, Shape, Aside
<1>13. QED
  BY <1>1, <1>2, <1>3, <1>4, <1>5, <1>6, <1>7, <1>8, <1>9, <1>10, <1>11, <1>12
  DEF Next

\* The claim is exclusive: no two actors work on the same event.
LEMMA Exclusive ==
  ASSUME TypeOK, HasJob, ClaimHeld, NEW a \in Actors, NEW b \in Actors,
         pc[a] \in Busy, pc[b] \in Busy, job[a] = job[b]
  PROVE  a = b
BY DEF ClaimHeld

LEMMA WrittenValue ==
  ASSUME TypeOK, NEW e \in Events, NEW s \in Stores, rows' = Written(e, s)
  PROVE  /\ rows'[e][s] = rows[e][s] + 1
         /\ \A t \in Stores : t # s => rows'[e][t] = rows[e][t]
         /\ \A f \in Events : f # e => rows'[f] = rows[f]
BY DEF TypeOK, Written

\* Each shape preserves the invariant.
LEMMA StoreStep == TypeOK /\ HasJob /\ StoreInv /\ [Next]_vars => StoreInv'
<1> SUFFICES ASSUME TypeOK, HasJob, StoreInv, [Next]_vars PROVE StoreInv'
  OBVIOUS
<1> USE DEF StoreInv
<1>0. TypeOK' /\ HasJob' /\ Shape /\ NoOne \notin Actors
  BY TypeStep, StepShape DEF Actors
<1>1. CASE Aside
  BY <1>0, <1>1 DEF Aside, ClaimHeld, WrittenSoFar, UnclaimedIsEmpty, AtMostOnce, NoHoles
<1>a. ASSUME NEW a \in Actors, Drops(a) PROVE StoreInv'
  BY <1>0, <1>a DEF Drops, Leaves, Alone, ClaimHeld, WrittenSoFar, UnclaimedIsEmpty,
                    AtMostOnce, NoHoles
<1>2. ASSUME NEW a \in Actors, TakesClaim(a) PROVE StoreInv'
  <2>1. job[a] \in Events
    BY <1>2 DEF TakesClaim, HasJob
  <2>2. \A b \in Actors : pc[b] \in Busy => job[b] # job[a]
    BY <1>0, <1>2 DEF TakesClaim, ClaimHeld
  <2>3. \A b \in Actors : b # a => pc'[b] = pc[b] /\ job'[b] = job[b]
    BY <1>2 DEF TakesClaim, Leaves, Alone
  <2>4. pc'[a] \in Busy => pc'[a] = "enrich" /\ job'[a] = job[a]
    BY <1>2 DEF TakesClaim, Leaves
  <2>5. /\ claimedBy'[job[a]] = a
        /\ \A e \in Events : e # job[a] => claimedBy'[e] = claimedBy[e]
        /\ rows' = rows
    BY <1>2, <2>1 DEF TakesClaim, TypeOK
  <2>6. ClaimHeld'
    BY <2>1, <2>2, <2>3, <2>4, <2>5 DEF ClaimHeld, HasJob
  <2>7. WrittenSoFar'
    <3>1. \A s \in Stores : rows[job[a]][s] = 0
      BY <1>2, <2>1 DEF UnclaimedIsEmpty, TakesClaim
    <3>2. Done["enrich"] = {}
      BY DEF Done
    <3>3. QED
      BY <2>3, <2>4, <2>5, <3>1, <3>2 DEF WrittenSoFar
  <2>8. UnclaimedIsEmpty'
    BY <1>0, <2>5 DEF UnclaimedIsEmpty
  <2>9. AtMostOnce' /\ NoHoles'
    BY <2>5 DEF AtMostOnce, NoHoles
  <2>10. QED
    BY <2>6, <2>7, <2>8, <2>9
<1>3. ASSUME NEW a \in Actors, Computes(a) PROVE StoreInv'
  <2>1. Done["raw"] = Done["enrich"]
    BY DEF Done
  <2>2. \A b \in Actors : /\ job'[b] = job[b] /\ (pc'[b] \in Busy => pc[b] \in Busy)
                          /\ pc'[b] # pc[b] => pc[b] = "enrich" /\ pc'[b] = "raw"
    BY <1>3 DEF Computes, Alone, Busy
  <2>3. rows' = rows /\ claimedBy' = claimedBy
    BY <1>3 DEF Computes
  <2>4. WrittenSoFar'
    BY <2>1, <2>2, <2>3 DEF WrittenSoFar
  <2>5. QED
    BY <2>2, <2>3, <2>4 DEF ClaimHeld, UnclaimedIsEmpty, AtMostOnce, NoHoles
<1>4. ASSUME NEW a \in Actors, NEW s \in Stores, Writes(a, s) PROVE StoreInv'
  <2>1. pc[a] = s /\ pc[a] \in Busy /\ job[a] \in Events /\ claimedBy[job[a]] = a
    BY <1>4 DEF Writes, HasJob, Busy, ClaimHeld
  <2>2. /\ rows'[job[a]][s] = rows[job[a]][s] + 1
        /\ \A t \in Stores : t # s => rows'[job[a]][t] = rows[job[a]][t]
        /\ \A f \in Events : f # job[a] => rows'[f] = rows[f]
    BY <1>4, <2>1, WrittenValue DEF Writes
  <2>3. \A t \in Stores : rows[job[a]][t] = IF t \in Done[s] THEN 1 ELSE 0
    BY <2>1 DEF WrittenSoFar
  <2>4. \A t \in Stores : rows'[job[a]][t] = IF t = s \/ t \in Done[s] THEN 1 ELSE 0
    <3>1. s \notin Done[s]
      BY DEF Done, Stores
    <3>2. QED
      BY <2>2, <2>3, <3>1
  <2>5. \A b \in Actors : b # a => pc'[b] = pc[b] /\ job'[b] = job[b]
    BY <1>4 DEF Writes, Leaves, Alone
  <2>6. pc'[a] \in Busy => /\ job'[a] = job[a] /\ s \in DOMAIN NextCall
                           /\ pc'[a] = NextCall[s]
    BY <1>4 DEF Writes, Leaves
  <2>7. \A b \in Actors : b # a /\ pc[b] \in Busy => job[b] \in Events /\ job[b] # job[a]
    BY <2>1, Exclusive DEF HasJob
  <2>8. ClaimHeld' /\ UnclaimedIsEmpty'
    <3>1. claimedBy' = claimedBy
      BY <1>4 DEF Writes
    <3>2. ClaimHeld'
      BY <2>1, <2>5, <2>6, <3>1 DEF ClaimHeld
    <3>3. UnclaimedIsEmpty'
      BY <1>0, <2>1, <2>2, <3>1 DEF UnclaimedIsEmpty
    <3>4. QED
      BY <3>2, <3>3
  <2>9. WrittenSoFar'
    <3>1. s \in DOMAIN NextCall =>
            \A t \in Stores : t \in Done[NextCall[s]] <=> t = s \/ t \in Done[s]
      BY DEF NextCall, Done, Stores
    <3>2. ASSUME pc'[a] \in Busy, NEW t \in Stores
          PROVE  rows'[job'[a]][t] = IF t \in Done[pc'[a]] THEN 1 ELSE 0
      BY <2>4, <2>6, <3>1, <3>2
    <3>3. ASSUME NEW b \in Actors, b # a, pc'[b] \in Busy, NEW t \in Stores
          PROVE  rows'[job'[b]][t] = IF t \in Done[pc'[b]] THEN 1 ELSE 0
      BY <2>2, <2>5, <2>7, <3>3 DEF WrittenSoFar
    <3>4. QED
      BY <3>2, <3>3 DEF WrittenSoFar
  <2>10. AtMostOnce'
    <3>1. \A t \in Stores : rows'[job[a]][t] <= 1
      BY <2>4
    <3>2. QED
      BY <2>2, <3>1 DEF AtMostOnce
  <2>11. NoHoles'
    <3>1. /\ rows'[job[a]]["scored"] > 0 => rows'[job[a]]["raw"] > 0
          /\ rows'[job[a]]["decision"] > 0 => rows'[job[a]]["scored"] > 0
          /\ rows'[job[a]]["features"] > 0 => rows'[job[a]]["decision"] > 0
      BY <2>4 DEF Done, Stores
    <3>2. QED
      BY <2>2, <3>1 DEF NoHoles
  <2>12. QED
    BY <2>8, <2>9, <2>10, <2>11
<1>5. QED
  BY <1>0, <1>1, <1>a, <1>2, <1>3, <1>4 DEF Shape

LEMMA StoreInit == Init => TypeOK /\ HasJob /\ StoreInv
BY DEF Init, TypeOK, HasJob, StoreInv, ClaimHeld, WrittenSoFar, UnclaimedIsEmpty,
       AtMostOnce, NoHoles, Calls, Busy, Stores

LEMMA StoreInvariance == Spec => [](TypeOK /\ HasJob /\ StoreInv)
BY StoreInit, TypeStep, StoreStep, PTL DEF Spec

\* persist_bundle runs at most once per event_id, whatever is redelivered,
\* replayed or posted twice, and wherever processes die.
THEOREM PersistedAtMostOnce == Spec => []AtMostOnce
BY StoreInvariance, PTL DEF StoreInv

\* A decision row never stands without the raw and scored rows of its event.
THEOREM RowsHaveNoHoles == Spec => []NoHoles
BY StoreInvariance, PTL DEF StoreInv

LEMMA SettledStep ==
  ASSUME TypeOK, HasJob, StoreInv, [Next]_vars, NEW e \in Events, Settled(e)
  PROVE  Settled(e)' /\ rows'[e] = rows[e] /\ claimedBy'[e] = claimedBy[e]
<1> DEFINE Kept == /\ claimedBy'[e] = claimedBy[e] /\ rows'[e] = rows[e]
                   /\ \A b \in Actors : ~HasEvent(b, e)'
<1> USE DEF HasEvent
<1>0. Shape /\ claimedBy[e] # NoOne /\ \A a \in Actors : ~HasEvent(a, e)
  BY StepShape DEF Settled, InFlight
<1>1. ASSUME Aside PROVE Kept
  BY <1>0, <1>1 DEF Aside
<1>2. ASSUME NEW a \in Actors, Drops(a) PROVE Kept
  BY <1>0, <1>2 DEF Drops, Leaves, Alone
<1>3. ASSUME NEW a \in Actors, TakesClaim(a) PROVE Kept
  <2>1. job[a] # e
    BY <1>0, <1>3 DEF TakesClaim
  <2>2. claimedBy'[e] = claimedBy[e]
    BY <1>3, <2>1 DEF TakesClaim, TypeOK
  <2>3. QED
    BY <1>0, <1>3, <2>1, <2>2 DEF TakesClaim, Leaves, Alone
<1>4. ASSUME NEW a \in Actors, Computes(a) PROVE Kept
  BY <1>0, <1>4 DEF Computes, Alone, Busy
<1>5. ASSUME NEW a \in Actors, NEW s \in Stores, Writes(a, s) PROVE Kept
  <2>1. pc[a] \in Busy /\ job[a] \in Events /\ job[a] # e
    BY <1>0, <1>5 DEF Writes, HasJob, Busy
  <2>2. QED
    BY <1>0, <1>5, <2>1, WrittenValue DEF Writes, Leaves, Alone
<1>6. Kept
  BY <1>0, <1>1, <1>2, <1>3, <1>4, <1>5 DEF Shape
<1>7. QED
  BY <1>0, <1>6 DEF Settled, InFlight

\* Once the attempt at an event is over, its claim and its rows stay as they are.
THEOREM SettledStays == Spec => SettledForGood
<1>1. TypeOK /\ HasJob /\ StoreInv /\ [Next]_vars =>
        [\A e \in Events : Settled(e) => Settled(e)' /\ rows'[e] = rows[e]]_vars
  BY SettledStep
<1>2. QED
  BY <1>1, StoreInvariance, PTL DEF Spec, SettledForGood
-------------------------------------------------------------------------------
(***************************************************************************)
(* The inductive invariant on what is seen of an event. A message or a 200 *)
(* about an event comes from the actor that claimed it, and comes last.    *)
(***************************************************************************)
SentLast == \A m \in Sent : m.about \in Events =>
              claimedBy[m.about] = Worker /\ Settled(m.about)
AnsweredLast == \A e \in Events : 200 \in answers[e] =>
                  claimedBy[e] \in ApiProcs /\ Settled(e)
SeenInv == SentLast /\ AnsweredLast /\ SeenIsStored /\ OneVerdict /\ NoRepeat

(* What a step may do to the messages and the answers.                     *)
Mute == /\ UNCHANGED published
        /\ \A e \in Events : 200 \in answers'[e] <=> 200 \in answers[e]
Quiet == Mute /\ \A m \in outbox' : m.about \in Events => m \in outbox
Fails == /\ Mute /\ UNCHANGED claimedBy /\ pc[Worker] \in Busy /\ Leaves(Worker)
         /\ outbox' = outbox \cup {Msg("processing", job[Worker])}

News == \/ Quiet \/ Fails
        \/ \E m \in outbox : Deliver(m)
        \/ \E a \in Actors : UpdateState(a)

LEMMA AnswerMute ==
  ASSUME TypeOK, NEW p, NEW code \in {409, 500}, Answer(p, code)
  PROVE  /\ \A e \in Events : 200 \in answers'[e] <=> 200 \in answers[e]
         /\ outbox' = outbox
<1>1. ASSUME NEW e \in Events PROVE 200 \in answers'[e] <=> 200 \in answers[e]
  <2>1. /\ answers' = [answers EXCEPT ![job[p]] = answers[job[p]] \cup {code}]
        /\ DOMAIN answers = Events
    BY DEF Answer, TypeOK
  <2>2. answers'[e] = IF e = job[p] THEN answers[e] \cup {code} ELSE answers[e]
    BY <2>1, Zenon
  <2>3. 200 # code
    OBVIOUS
  <2>4. QED
    BY <2>2, <2>3
<1>2. QED
  BY <1>1 DEF Answer, batch

LEMMA GiveUpNews ==
  ASSUME TypeOK, NEW a \in Actors, GiveUp(a), pc[a] \in Busy,
         UNCHANGED <<claimedBy, published>>
  PROVE  News
<1>1. CASE a = Worker
  <2>1. /\ UNCHANGED answers /\ Leaves(Worker)
        /\ outbox' = outbox \cup {Msg("processing", job[Worker])}
    BY <1>1, GiveUpRests, RestLeaves DEF GiveUp, Emit
  <2>2. Fails
    BY <1>1, <2>1 DEF Fails, Mute
  <2>3. QED
    BY <2>2 DEF News
<1>2. CASE a # Worker
  BY <1>2, AnswerMute DEF GiveUp, News, Quiet, Mute
<1>3. QED
  BY <1>1, <1>2

\* Every step makes at most one of these kinds of news.
LEMMA StepNews == TypeOK /\ HasJob /\ [Next]_vars => News
<1> SUFFICES ASSUME TypeOK, HasJob, [Next]_vars PROVE News
  OBVIOUS
<1> USE DEF kafka, batch, actors, budget
<1>1. ASSUME NEW m \in Payloads, Produce(m) PROVE News
  BY <1>1 DEF Produce, News, Quiet, Mute
<1>2. CASE ConsumeMalformed
  <2>1. /\ raw[offset + 1] \notin Events /\ UNCHANGED <<published, answers>>
        /\ outbox' = outbox \cup {Msg("validation", raw[offset + 1])}
    BY <1>2 DEF ConsumeMalformed, Emit
  <2>2. QED
    BY <2>1 DEF News, Quiet, Mute, Msg
<1>3. CASE Consume
  BY <1>3 DEF Consume, News, Quiet, Mute
<1>4. CASE SourceError
  BY <1>4 DEF SourceError, News, Quiet, Mute, Msg
<1>5. ASSUME NEW p \in ApiProcs, NEW e \in Events, Predict(p, e) PROVE News
  BY <1>5 DEF Predict, News, Quiet, Mute
<1>6. ASSUME NEW a \in Actors, Handle(a) PROVE News
  <2>1. CASE Claim(a)
    BY <2>1 DEF Claim, News, Quiet, Mute
  <2>2. CASE Duplicate(a)
    BY <2>2, AnswerMute DEF Duplicate, Emit, News, Quiet, Mute
  <2>3. CASE ClaimFails(a)
    BY <2>3, AnswerMute DEF ClaimFails, Die, News, Quiet, Mute
  <2>4. CASE ProcessEvent(a)
    BY <2>4 DEF ProcessEvent, News, Quiet, Mute
  <2>5. CASE RejectEvent(a)
    BY <2>5, GiveUpNews DEF RejectEvent, Busy
  <2>6. ASSUME NEW s \in Stores, Save(a, s) PROVE News
    BY <2>6 DEF Save, News, Quiet, Mute
  <2>7. CASE UpdateState(a)
    BY <2>7 DEF News
  <2>8. CASE CallFails(a)
    BY <2>8, GiveUpNews DEF CallFails
  <2>9. QED
    BY <1>6, <2>1, <2>2, <2>3, <2>4, <2>5, <2>6, <2>7, <2>8 DEF Handle
<1>7. CASE EndBatch
  BY <1>7 DEF EndBatch, News, Quiet, Mute
<1>8. ASSUME NEW m \in outbox, Deliver(m) PROVE News
  BY <1>8 DEF News
<1>9. CASE WorkerCrash
  BY <1>9 DEF WorkerCrash, Die, News, Quiet, Mute
<1>10. CASE WorkerStart
  BY <1>10 DEF WorkerStart, News, Quiet, Mute
<1>11. ASSUME NEW p \in ApiProcs, ApiCrash(p) PROVE News
  BY <1>11 DEF ApiCrash, News, Quiet, Mute
<1>12. CASE UNCHANGED vars
  BY <1>12 DEF vars, News, Quiet, Mute
<1>13. QED
  BY <1>1, <1>2, <1>3, <1>4, <1>5, <1>6, <1>7, <1>8, <1>9, <1>10, <1>11, <1>12
  DEF Next

\* The actor that leaves an event it had claimed leaves it settled.
LEMMA LeavesSettled ==
  ASSUME TypeOK, HasJob, StoreInv, NEW a \in Actors, pc[a] \in Busy, Leaves(a),
         UNCHANGED claimedBy, NEW e, e = job[a]
  PROVE  /\ e \in Events /\ claimedBy'[e] = a
         /\ ~Settled(e) /\ Settled(e)'
<1>1. e \in Events /\ claimedBy[e] = a /\ a # NoOne
  BY DEF HasJob, StoreInv, ClaimHeld, Actors
<1>2. \A b \in Actors : pc'[b] \in Busy => b # a /\ pc[b] \in Busy /\ job'[b] = job[b]
  BY DEF Leaves, Alone
<1>3. \A b \in Actors : ~(job'[b] = e /\ pc'[b] \in Busy)
  BY <1>2, Exclusive DEF StoreInv
<1>4. ~Settled(e)
  BY DEF Settled, InFlight, HasEvent
<1>5. QED
  BY <1>1, <1>3, <1>4 DEF Settled, InFlight, HasEvent

\* The feature update is the last write, so it completes the event.
LEMMA UpdateCompletes ==
  ASSUME TypeOK, HasJob, StoreInv, StoreInv', NEW a \in Actors, UpdateState(a),
         NEW e, e = job[a]
  PROVE  /\ pc[a] \in Busy /\ Leaves(a) /\ UNCHANGED claimedBy
         /\ e \in Events /\ Complete(e)'
         /\ \A f \in Events : f # e => rows'[f] = rows[f]
<1>1. /\ pc[a] = "features" /\ rows' = Written(e, "features") /\ Rest(a)
      /\ UNCHANGED claimedBy
  BY DEF UpdateState, Emit, Answer
<1>2. pc[a] \in Busy /\ e \in Events /\ Leaves(a)
  BY <1>1, RestLeaves DEF HasJob, Busy, Stores
<1>3. rows[e]["features"] \in Nat /\ "features" \in Stores
  BY <1>2 DEF TypeOK, Stores
<1>4. /\ rows'[e]["features"] = rows[e]["features"] + 1
      /\ \A f \in Events : f # e => rows'[f] = rows[f]
  BY <1>1, <1>2, <1>3, WrittenValue
<1>5. rows'[e]["features"] > 0
  BY <1>3, <1>4
<1>6. NoHoles'
  BY DEF StoreInv
<1>7. \A s \in Stores : rows'[e][s] > 0
  BY <1>2, <1>5, <1>6 DEF NoHoles, Stores
<1>8. QED
  BY <1>1, <1>2, <1>4, <1>7 DEF Complete

\* Every step preserves the invariant.
LEMMA SeenStep ==
  TypeOK /\ HasJob /\ StoreInv /\ SeenInv /\ [Next]_vars => SeenInv'
<1> SUFFICES ASSUME TypeOK, HasJob, StoreInv, SeenInv, [Next]_vars PROVE SeenInv'
  OBVIOUS
<1> USE DEF SeenInv
<1>0. TypeOK' /\ HasJob' /\ StoreInv' /\ News /\ Worker \in Actors
  BY TypeStep, StoreStep, StepNews DEF Actors
\* What has been seen of an event before the step stays true after it.
<1>k. ASSUME NEW e \in Events, Settled(e)
      PROVE  /\ Settled(e)' /\ claimedBy'[e] = claimedBy[e]
             /\ Complete(e) => Complete(e)'
  BY <1>k, SettledStep DEF Complete
<1>1. ASSUME Mute, \A m \in outbox' : m.about \in Events => m \in outbox PROVE SeenInv'
  <2>1. \A m \in Sent' : m.about \in Events => m \in Sent
    BY <1>1 DEF Sent, Mute
  <2>2. SentLast'
    BY <2>1, <1>k DEF SentLast
  <2>3. AnsweredLast'
    BY <1>1, <1>k DEF AnsweredLast, Mute
  <2>4. \A e \in Events : /\ Decided(e)' => Decided(e)
                          /\ DeadLettered(e)' => DeadLettered(e)
    BY <2>1 DEF Decided, DeadLettered, Msg
  <2>5. \A e \in Events : Decided(e) \/ 200 \in answers[e] => Settled(e)
    BY DEF Decided, Msg, SentLast, AnsweredLast
  <2>6. SeenIsStored'
    BY <1>1, <1>k, <2>4, <2>5 DEF SeenIsStored, Mute
  <2>7. OneVerdict'
    BY <1>1, <2>4 DEF OneVerdict, Mute
  <2>8. NoRepeat'
    BY <1>1 DEF NoRepeat, Mute
  <2>9. QED
    BY <2>2, <2>3, <2>6, <2>7, <2>8
\* The worker ends an attempt with messages msgs about e.
<1>2. ASSUME NEW e, e = job[Worker], pc[Worker] \in Busy, Leaves(Worker),
             UNCHANGED claimedBy, Mute, NEW msgs, outbox' = outbox \cup msgs,
             \A m \in msgs : m.about = e,
             \/ msgs = {Msg("processing", e)}
             \/ msgs = BundleMessages(e) /\ Complete(e)'
      PROVE  SeenInv'
  <2>1. e \in Events /\ claimedBy'[e] = Worker /\ ~Settled(e) /\ Settled(e)'
    BY <1>0, <1>2, LeavesSettled
  <2>2. \A m \in Sent : m.about # e
    BY <2>1 DEF SentLast
  <2>3. \A m \in Sent' : m \in Sent \/ m \in msgs
    BY <1>2 DEF Sent, Mute
  <2>4. SentLast'
    BY <1>2, <1>k, <2>1, <2>3 DEF SentLast
  <2>5. AnsweredLast'
    BY <1>2, <1>k DEF AnsweredLast, Mute
  <2>6. \A f \in Events \ {e} : /\ Decided(f)' => Decided(f)
                                /\ DeadLettered(f)' => DeadLettered(f)
    BY <1>2, <2>3 DEF Decided, DeadLettered, Msg
  <2>7. /\ Decided(e)' => \E t \in BundleTopics : Msg(t, e) \in msgs
        /\ DeadLettered(e)' => Msg("processing", e) \in msgs
    BY <2>2, <2>3 DEF Decided, DeadLettered, Msg
  <2>8. ~(Decided(e)' /\ DeadLettered(e)') /\ (Decided(e)' => Complete(e)')
    BY <1>2, <2>7 DEF Msg, BundleMessages, BundleTopics
  <2>9. 200 \notin answers'[e]
    BY <1>2, <2>1 DEF AnsweredLast, Mute
  <2>10. \A f \in Events : Decided(f) \/ 200 \in answers[f] => Settled(f)
    BY DEF Decided, Msg, SentLast, AnsweredLast
  <2>11. SeenIsStored'
    BY <1>2, <1>k, <2>6, <2>8, <2>9, <2>10 DEF SeenIsStored, Mute
  <2>12. OneVerdict'
    BY <1>2, <2>6, <2>8, <2>9 DEF OneVerdict, Mute
  <2>13. NoRepeat'
    BY <1>2, <2>2 DEF NoRepeat, Mute, Sent
  <2>14. QED
    BY <2>4, <2>5, <2>11, <2>12, <2>13
<1>3. CASE Quiet
  BY <1>1, <1>3 DEF Quiet
<1>4. CASE Fails
  <2>1. \A m \in {Msg("processing", job[Worker])} : m.about = job[Worker]
    BY DEF Msg
  <2>2. QED
    BY <1>2, <1>4, <2>1 DEF Fails
<1>5. ASSUME NEW m \in outbox, Deliver(m) PROVE SeenInv'
  <2>1. /\ outbox' = outbox \ {m} /\ published' = published \cup {m}
        /\ UNCHANGED answers
    BY <1>5 DEF Deliver
  <2>2. Sent' = Sent
    BY <2>1 DEF Sent
  <2>3. SentLast'
    BY <1>k, <2>2 DEF SentLast
  <2>4. AnsweredLast'
    BY <1>k, <2>1 DEF AnsweredLast
  <2>5. \A e \in Events : (Decided(e)' <=> Decided(e)) /\ (DeadLettered(e)' <=> DeadLettered(e))
    BY <2>2 DEF Decided, DeadLettered
  <2>6. \A e \in Events : Decided(e) \/ 200 \in answers[e] => Settled(e)
    BY DEF Decided, Msg, SentLast, AnsweredLast
  <2>7. SeenIsStored' /\ OneVerdict'
    BY <1>k, <2>1, <2>5, <2>6 DEF SeenIsStored, OneVerdict
  <2>8. NoRepeat'
    BY <2>1 DEF NoRepeat
  <2>9. QED
    BY <2>3, <2>4, <2>7, <2>8
<1>6. ASSUME NEW a \in Actors, UpdateState(a), NEW e, e = job[a] PROVE SeenInv'
  <2>1. /\ pc[a] \in Busy /\ Leaves(a) /\ UNCHANGED <<claimedBy, published>>
        /\ Complete(e)'
    BY <1>0, <1>6, UpdateCompletes DEF UpdateState, kafka
  <2>2. CASE a = Worker
    <3>1. UNCHANGED answers /\ outbox' = outbox \cup BundleMessages(e)
      BY <1>6, <2>2 DEF UpdateState, Emit
    <3>2. \A m \in BundleMessages(e) : m.about = e
      BY DEF BundleMessages, Msg
    <3>3. QED
      BY <1>2, <1>6, <2>1, <2>2, <3>1, <3>2 DEF Mute
  <2>3. CASE a # Worker
    <3>1. e \in Events /\ claimedBy'[e] = a /\ ~Settled(e) /\ Settled(e)' /\ a \in ApiProcs
      BY <1>6, <2>1, <2>3, LeavesSettled DEF Actors
    <3>2. /\ answers' = [answers EXCEPT ![e] = answers[e] \cup {200}] /\ outbox' = outbox
          /\ DOMAIN answers = Events
      BY <1>6, <2>3 DEF UpdateState, Answer, batch, TypeOK
    <3>3. \A f \in Events : f # e => answers'[f] = answers[f]
      BY <3>2, Zenon
    <3>4. Sent' = Sent
      BY <2>1, <3>2 DEF Sent
    <3>5. SentLast'
      BY <1>k, <3>4 DEF SentLast
    <3>6. AnsweredLast'
      BY <1>k, <3>1, <3>3 DEF AnsweredLast
    <3>7. \A f \in Events : /\ Decided(f)' <=> Decided(f)
                            /\ DeadLettered(f)' <=> DeadLettered(f)
                            /\ Decided(f) \/ DeadLettered(f) => Settled(f)
      BY <3>4 DEF Decided, DeadLettered, Msg, SentLast
    <3>8. SeenIsStored'
      BY <1>k, <2>1, <3>3, <3>7 DEF SeenIsStored, AnsweredLast
    <3>9. OneVerdict'
      BY <3>1, <3>3, <3>7 DEF OneVerdict
    <3>10. NoRepeat'
      BY <2>1, <3>2 DEF NoRepeat
    <3>11. QED
      BY <3>5, <3>6, <3>8, <3>9, <3>10
  <2>4. QED
    BY <2>2, <2>3
<1>7. QED
  BY <1>0, <1>3, <1>4, <1>5, <1>6 DEF News

LEMMA SeenInit == Init => SeenInv
BY DEF Init, SeenInv, SentLast, AnsweredLast, SeenIsStored, OneVerdict, NoRepeat, Sent,
       Decided, DeadLettered

LEMMA SeenInvariance == Spec => [](TypeOK /\ HasJob /\ StoreInv /\ SeenInv)
BY StoreInit, SeenInit, TypeStep, StoreStep, SeenStep, PTL DEF Spec

\* What consumers and callers see of a decision is in PostgreSQL and Redis.
THEOREM SeenDecisionsAreStored == Spec => []SeenIsStored
BY SeenInvariance, PTL DEF SeenInv

\* The worker's decision, the worker's dead letter and the answer of /predict
\* exclude one another for every event.
THEOREM OneVerdictPerEvent == Spec => []OneVerdict
BY SeenInvariance, PTL DEF SeenInv

\* No message about an event is handed to Kafka a second time.
THEOREM MessagesSentOnce == Spec => []NoRepeat
BY SeenInvariance, PTL DEF SeenInv
-------------------------------------------------------------------------------
(***************************************************************************)
(* The refinement: every step is a step of EventOutcome on at most one     *)
(* event, or leaves its variables alone.                                   *)
(***************************************************************************)
OthersKeep(e) == \A f \in Events : f # e => Outcome(f)' = Outcome(f)
ToldKept == \A f \in Events : Told(f)' = Told(f)

LEMMA StepPromise ==
  ASSUME NEW e \in Events, OthersKeep(e), ToldKept,
         \/ Outcome(e)' = Outcome(e)
         \/ Outcome(e) = "new" /\ Outcome(e)' \in {"working", "dropped"}
         \/ Outcome(e) = "working" /\ Outcome(e)' \in {"stored", "dropped"}
  PROVE  [Promise!Next]_(Promise!vars)
<1>1. CASE Outcome(e)' = Outcome(e)
  BY <1>1 DEF OthersKeep, ToldKept, Promise!vars
<1>2. CASE Outcome(e) = "new" /\ Outcome(e)' = "working"
  <2>1. Promise!Begin(e)
    BY <1>2 DEF OthersKeep, ToldKept, Promise!Begin
  <2>2. QED
    BY <2>1 DEF Promise!Next
<1>3. CASE Outcome(e) \in {"new", "working"} /\ Outcome(e)' = "dropped"
  <2>1. Promise!Drop(e)
    BY <1>3 DEF OthersKeep, ToldKept, Promise!Drop
  <2>2. QED
    BY <2>1 DEF Promise!Next
<1>4. CASE Outcome(e) = "working" /\ Outcome(e)' = "stored"
  <2>1. Promise!Store(e)
    BY <1>4 DEF OthersKeep, ToldKept, Promise!Store
  <2>2. QED
    BY <2>1 DEF Promise!Next
<1>5. QED
  BY <1>1, <1>2, <1>3, <1>4

LEMMA StepTold ==
  ASSUME NEW e \in Events, \A f \in Events : Outcome(f)' = Outcome(f),
         \A f \in Events : f # e => Told(f)' = Told(f),
         \/ Told(e)' = Told(e)
         \/ /\ Told(e) = "nothing" /\ Told(e)' = "decided" /\ Outcome(e) = "stored"
         \/ /\ Told(e) = "nothing" /\ Told(e)' = "failed"
            /\ Outcome(e) \in {"stored", "dropped"}
  PROVE  [Promise!Next]_(Promise!vars)
<1>1. CASE Told(e)' = Told(e)
  BY <1>1 DEF Promise!vars
<1>2. CASE Told(e) = "nothing" /\ Told(e)' = "decided" /\ Outcome(e) = "stored"
  <2>1. Promise!TellDecision(e)
    BY <1>2 DEF Promise!TellDecision
  <2>2. QED
    BY <2>1 DEF Promise!Next
<1>3. CASE /\ Told(e) = "nothing" /\ Told(e)' = "failed"
           /\ Outcome(e) \in {"stored", "dropped"}
  <2>1. Promise!TellFailure(e)
    BY <1>3 DEF Promise!TellFailure
  <2>2. QED
    BY <2>1 DEF Promise!Next
<1>4. QED
  BY <1>1, <1>2, <1>3

\* An event in flight has been claimed and is not stored yet.
LEMMA InFlightWorking ==
  ASSUME TypeOK, HasJob, StoreInv, NEW a \in Actors, pc[a] \in Busy, NEW e, e = job[a]
  PROVE  e \in Events /\ InFlight(e) /\ Outcome(e) = "working"
<1>1. e \in Events /\ claimedBy[e] = a /\ a # NoOne
  BY DEF HasJob, StoreInv, ClaimHeld, Actors
<1>2. "features" \in Stores /\ "features" \notin Done[pc[a]]
  BY DEF Done, Busy, Stores
<1>3. rows[e]["features"] = 0
  BY <1>2 DEF StoreInv, WrittenSoFar
<1>4. QED
  BY <1>1, <1>3 DEF Outcome, InFlight, HasEvent

LEMMA SettledOutcome ==
  ASSUME TypeOK, StoreInv, NEW e \in Events, Settled(e)
  PROVE  /\ Outcome(e) \in {"stored", "dropped"}
         /\ Complete(e) => Outcome(e) = "stored"
BY DEF Settled, Outcome, Complete, Stores

\* An actor that leaves changes nothing for the events it did not work on.
LEMMA LeavesOthers ==
  ASSUME NEW a \in Actors, Leaves(a), NEW f \in Events, ~HasEvent(a, f)
  PROVE  InFlight(f)' <=> InFlight(f)
BY DEF Leaves, Alone, InFlight, HasEvent

LEMMA MuteTold ==
  ASSUME Mute
  PROVE  ToldKept
BY DEF Mute, ToldKept, Told

LEMMA NothingPromised ==
  ASSUME \A f \in Events : Outcome(f)' = Outcome(f), ToldKept
  PROVE  [Promise!Next]_(Promise!vars)
BY DEF ToldKept, Promise!vars

\* A step that is silent to the outside is a step of the promise.
LEMMA SilentStep ==
  ASSUME TypeOK, HasJob, StoreInv, [Next]_vars, ToldKept
  PROVE  [Promise!Next]_(Promise!vars)
<1>0. Shape /\ NoOne \notin Actors
  BY StepShape DEF Actors
<1>1. CASE Aside
  <2>1. \A f \in Events : InFlight(f)' <=> InFlight(f)
    BY <1>1 DEF Aside, InFlight, HasEvent
  <2>2. QED
    BY <1>1, <2>1, NothingPromised DEF Aside, Outcome
<1>2. ASSUME NEW a \in Actors, Drops(a) PROVE [Promise!Next]_(Promise!vars)
  <2>1. CASE pc[a] \notin Busy
    <3>1. \A f \in Events : InFlight(f)' <=> InFlight(f)
      BY <1>2, <2>1, LeavesOthers DEF Drops, HasEvent
    <3>2. QED
      BY <1>2, <3>1, NothingPromised DEF Drops, Outcome
  <2>2. CASE pc[a] \in Busy
    <3> SUFFICES ASSUME NEW e, e = job[a] PROVE [Promise!Next]_(Promise!vars)
      OBVIOUS
    <3>1. e \in Events /\ Outcome(e) = "working"
      BY <2>2, InFlightWorking
    <3>2. Settled(e)' /\ Leaves(a) /\ UNCHANGED <<claimedBy, rows>>
      BY <1>2, <2>2, LeavesSettled DEF Drops
    <3>3. Outcome(e)' = "dropped"
      BY <3>1, <3>2 DEF Outcome, Settled
    <3>4. OthersKeep(e)
      BY <3>2, LeavesOthers DEF OthersKeep, Outcome, HasEvent
    <3>5. QED
      BY <3>1, <3>3, <3>4, StepPromise
  <2>3. QED
    BY <2>1, <2>2
<1>3. ASSUME NEW a \in Actors, TakesClaim(a) PROVE [Promise!Next]_(Promise!vars)
  <2> SUFFICES ASSUME NEW e, e = job[a] PROVE [Promise!Next]_(Promise!vars)
    OBVIOUS
  <2>1. /\ e \in Events /\ claimedBy[e] = NoOne /\ UNCHANGED rows
        /\ claimedBy' = [claimedBy EXCEPT ![e] = a]
    BY <1>3 DEF TakesClaim, HasJob
  <2>2. /\ claimedBy'[e] # NoOne
        /\ \A f \in Events : f # e => claimedBy'[f] = claimedBy[f]
    BY <1>0, <2>1 DEF TypeOK
  <2>3. rows[e]["features"] = 0
    BY <2>1 DEF StoreInv, UnclaimedIsEmpty, Stores
  <2>4. Outcome(e) = "new" /\ Outcome(e)' \in {"working", "dropped"}
    BY <2>1, <2>2, <2>3 DEF Outcome
  <2>5. \A f \in Events : f # e => (InFlight(f)' <=> InFlight(f))
    BY <1>3 DEF TakesClaim, Leaves, Alone, InFlight, HasEvent, Busy, Stores
  <2>6. OthersKeep(e)
    BY <2>1, <2>2, <2>5 DEF OthersKeep, Outcome
  <2>7. QED
    BY <2>1, <2>4, <2>6, StepPromise
<1>4. ASSUME NEW a \in Actors, Computes(a) PROVE [Promise!Next]_(Promise!vars)
  <2>1. \A f \in Events : InFlight(f)' <=> InFlight(f)
    BY <1>4 DEF Computes, Alone, InFlight, HasEvent, Busy, Stores
  <2>2. QED
    BY <1>4, <2>1, NothingPromised DEF Computes, Outcome
<1>5. ASSUME NEW a \in Actors, NEW s \in Stores, Writes(a, s)
      PROVE  [Promise!Next]_(Promise!vars)
  <2> SUFFICES ASSUME NEW e, e = job[a] PROVE [Promise!Next]_(Promise!vars)
    OBVIOUS
  <2>1. pc[a] \in Busy /\ e \in Events /\ UNCHANGED claimedBy
    BY <1>5 DEF Writes, HasJob, Busy
  <2>2. Outcome(e) = "working" /\ InFlight(e) /\ claimedBy[e] # NoOne
    BY <2>1, InFlightWorking DEF Outcome
  <2>3. /\ rows'[e][s] = rows[e][s] + 1 /\ rows[e][s] \in Nat
        /\ \A t \in Stores : t # s => rows'[e][t] = rows[e][t]
        /\ \A f \in Events : f # e => rows'[f] = rows[f]
    BY <1>5, <2>1, WrittenValue DEF Writes, TypeOK
  <2>4. \A f \in Events : f # e => (InFlight(f)' <=> InFlight(f))
    BY <1>5, <2>1 DEF Writes, Leaves, Alone, InFlight, HasEvent
  <2>5. OthersKeep(e)
    BY <2>1, <2>3, <2>4 DEF OthersKeep, Outcome
  <2>6. CASE s = "features"
    <3>1. rows'[e]["features"] > 0
      BY <2>3, <2>6
    <3>2. QED
      BY <2>1, <2>2, <2>5, <3>1, StepPromise DEF Outcome
  <2>7. CASE s # "features"
    <3>1. rows'[e]["features"] = rows[e]["features"]
      BY <2>3, <2>7 DEF Stores
    <3>2. Outcome(e)' \in {"working", "dropped"}
      BY <2>1, <2>2, <3>1 DEF Outcome
    <3>3. QED
      BY <2>1, <2>2, <2>5, <3>2, StepPromise
  <2>8. QED
    BY <2>6, <2>7
<1>6. QED
  BY <1>0, <1>1, <1>2, <1>3, <1>4, <1>5 DEF Shape

LEMMA DeliverStep ==
  ASSUME TypeOK, StoreInv, SeenInv, SeenInv', NEW m \in outbox, Deliver(m)
  PROVE  [Promise!Next]_(Promise!vars)
<1>1. /\ published' = published \cup {m} /\ m \in Sent
      /\ UNCHANGED <<job, claimedBy, rows, answers>>
      /\ \A a \in Actors : pc'[a] \in Busy <=> pc[a] \in Busy
  BY DEF Deliver, TypeOK, Sent, Busy, Stores
<1>2. \A f \in Events : Outcome(f)' = Outcome(f)
  BY <1>1 DEF Outcome, InFlight, HasEvent
<1>3. \A f \in Events : f # m.about => Told(f)' = Told(f)
  BY <1>1 DEF Told, Msg
<1>4. CASE m.about \notin Events
  BY <1>2, <1>3, <1>4, NothingPromised DEF ToldKept
<1>5. ASSUME NEW e \in Events, e = m.about PROVE [Promise!Next]_(Promise!vars)
  <2>1. Outcome(e) \in {"stored", "dropped"} /\ (Complete(e) => Outcome(e) = "stored")
    BY <1>1, <1>5, SettledOutcome DEF SeenInv, SentLast
  <2>2. CASE \E t \in BundleTopics : m = Msg(t, e)
    <3>1. Decided(e)
      BY <1>1, <2>2 DEF Decided
    <3>2. Outcome(e) = "stored" /\ ~DeadLettered(e)
      BY <2>1, <3>1 DEF SeenInv, SeenIsStored, OneVerdict
    <3>3. Told(e) # "failed" /\ Told(e)' = "decided"
      BY <1>1, <2>2, <3>2 DEF Told, DeadLettered, Sent
    <3>4. Told(e) \in {"nothing", "decided"}
      BY <3>3 DEF Told
    <3>5. QED
      BY <1>2, <1>3, <1>5, <3>2, <3>3, <3>4, StepTold
  <2>3. CASE m = Msg("processing", e)
    <3>1. DeadLettered(e)
      BY <1>1, <2>3 DEF DeadLettered
    <3>2. ~Decided(e) /\ 200 \notin answers[e]
      BY <3>1 DEF SeenInv, OneVerdict
    <3>3. \A t \in BundleTopics : Msg(t, e) \notin published /\ Msg(t, e) # m
      BY <2>3, <3>2 DEF Decided, Sent, Msg, BundleTopics
    <3>4. Told(e) \in {"nothing", "failed"} /\ Told(e)' = "failed"
      BY <1>1, <2>3, <3>2, <3>3 DEF Told
    <3>5. QED
      BY <1>2, <1>3, <1>5, <2>1, <3>4, StepTold
  <2>4. CASE m # Msg("processing", e) /\ ~ \E t \in BundleTopics : m = Msg(t, e)
    <3>1. Told(e)' = Told(e)
      BY <1>1, <2>4 DEF Told
    <3>2. QED
      BY <1>2, <1>3, <1>5, <3>1, NothingPromised DEF ToldKept
  <2>5. QED
    BY <2>2, <2>3, <2>4
<1>6. QED
  BY <1>4, <1>5

LEMMA UpdateStep ==
  ASSUME TypeOK, HasJob, StoreInv, StoreInv', SeenInv, SeenInv',
         NEW a \in Actors, UpdateState(a), NEW e, e = job[a]
  PROVE  [Promise!Next]_(Promise!vars)
<1>1. /\ pc[a] \in Busy /\ Leaves(a) /\ UNCHANGED <<claimedBy, published>>
      /\ e \in Events /\ Complete(e)' /\ \A f \in Events : f # e => rows'[f] = rows[f]
  BY UpdateCompletes DEF UpdateState, kafka
<1>2. Outcome(e) = "working" /\ ~Settled(e)
  BY <1>1, InFlightWorking, LeavesSettled
<1>3. Outcome(e)' = "stored"
  BY <1>1, <1>2 DEF Outcome, Complete, Stores
<1>4. OthersKeep(e)
  BY <1>1, LeavesOthers DEF OthersKeep, Outcome, HasEvent
<1>5. CASE a = Worker
  <2>1. ToldKept
    BY <1>1, <1>5 DEF UpdateState, Emit, ToldKept, Told
  <2>2. QED
    BY <1>1, <1>2, <1>3, <1>4, <2>1, StepPromise
<1>6. CASE a # Worker
  <2>1. answers' = [answers EXCEPT ![e] = answers[e] \cup {200}] /\ DOMAIN answers = Events
    BY <1>6 DEF UpdateState, Answer, TypeOK
  <2>2. 200 \in answers'[e] /\ \A f \in Events : f # e => answers'[f] = answers[f]
    BY <1>1, <2>1
  <2>3. Told(e)' = "decided" /\ \A f \in Events : f # e => Told(f)' = Told(f)
    BY <1>1, <2>2 DEF Told
  <2>4. Promise!Store(e)
    <3>1. [f \in Events |-> Outcome(f)]' = [[f \in Events |-> Outcome(f)] EXCEPT ![e] = "stored"]
      BY <1>3, <1>4 DEF OthersKeep
    <3>2. [f \in Events |-> Told(f)]' = [[f \in Events |-> Told(f)] EXCEPT ![e] = "decided"]
      BY <2>3
    <3>3. QED
      BY <1>1, <1>2, <3>1, <3>2 DEF Promise!Store
  <2>5. QED
    BY <1>1, <2>4 DEF Promise!Next
<1>7. QED
  BY <1>5, <1>6

\* The worker and the API together implement EventOutcome: one attempt per
\* event, and one final verdict, which is a decision only if it is stored.
THEOREM PipelineKeepsPromise == Spec => KeepsPromise
<1>1. Init => Promise!Init
  BY DEF Init, Promise!Init, Outcome, Told
<1>2. /\ TypeOK /\ HasJob /\ StoreInv /\ SeenInv
      /\ (TypeOK /\ HasJob /\ StoreInv /\ SeenInv)'
      /\ [Next]_vars
      => [Promise!Next]_(Promise!vars)
  <2> SUFFICES ASSUME TypeOK, HasJob, StoreInv, SeenInv, StoreInv', SeenInv', [Next]_vars
               PROVE  [Promise!Next]_(Promise!vars)
    OBVIOUS
  <2>1. News
    BY StepNews
  <2>2. CASE Mute
    BY <2>2, MuteTold, SilentStep
  <2>3. ASSUME NEW m \in outbox, Deliver(m) PROVE [Promise!Next]_(Promise!vars)
    BY <2>3, DeliverStep
  <2>4. ASSUME NEW a \in Actors, UpdateState(a) PROVE [Promise!Next]_(Promise!vars)
    BY <2>4, UpdateStep
  <2>5. QED
    BY <2>1, <2>2, <2>3, <2>4 DEF News, Quiet, Fails
<1>3. QED
  BY <1>1, <1>2, SeenInvariance, PTL DEF Spec, KeepsPromise, Promise!Spec
-------------------------------------------------------------------------------
(***************************************************************************)
(* What the failed claims of the comments and documents do hold for: as    *)
(* long as no process dies, every attempt is accounted for. The worker has *)
(* handed on a decision or a dead letter, the API has answered.            *)
(***************************************************************************)
Undisturbed == Up /\ crashes = 0

Reported(a, e) == IF a = Worker
                  THEN Msg("decisions", e) \in Sent \/ DeadLettered(e)
                  ELSE answers[e] \cap {200, 500} # {}
Accounted == \A e \in Events, a \in Actors :
  claimedBy[e] = a => InFlight(e) \/ Reported(a, e)
RefusedWasClaimed == \A e \in Events : 409 \in answers[e] => claimedBy[e] # NoOne

\* An attempt ends, also one that was over once its claim was set.
Ends(a) == /\ pc'[a] \notin Busy
           /\ \/ pc[a] \in Busy
              \/ pc[a] = "claim" /\ claimedBy[job[a]] = NoOne /\ claimedBy'[job[a]] = a
Grows == Sent \subseteq Sent' /\ \A e \in Events : answers[e] \subseteq answers'[e]
Tells == Grows /\ \A a \in Actors, e \in Events : Ends(a) /\ job[a] = e => Reported(a, e)'

LEMMA AnswerAdds ==
  ASSUME TypeOK, NEW a, NEW code \in {200, 409, 500}, Answer(a, code),
         NEW e \in Events, e = job[a], UNCHANGED published
  PROVE  Grows /\ code \in answers'[e]
<1>1. answers' = [answers EXCEPT ![e] = answers[e] \cup {code}] /\ DOMAIN answers = Events
  BY DEF Answer, TypeOK
<1>2. \A f \in Events : answers'[f] = IF f = e THEN answers[f] \cup {code} ELSE answers[f]
  BY <1>1, Zenon
<1>3. ASSUME NEW f \in Events PROVE answers[f] \subseteq answers'[f]
  <2>1. answers'[f] = answers[f] \/ answers'[f] = answers[f] \cup {code}
    BY <1>2, Zenon
  <2>2. QED
    BY <2>1
<1>4. Sent' = Sent
  BY DEF Answer, batch, Sent
<1>5. answers'[e] = answers[e] \cup {code}
  BY <1>2, Zenon
<1>6. QED
  BY <1>3, <1>4, <1>5 DEF Grows

LEMMA EmitAdds ==
  ASSUME NEW msgs, Emit(msgs), UNCHANGED published
  PROVE  Grows /\ msgs \subseteq Sent'
BY DEF Emit, Grows, Sent

\* Only the actor that moves can end an attempt.
LEMMA EndsAlone ==
  ASSUME HasJob, NEW a \in Actors, Alone(a), Grows,
         \A f \in Events : claimedBy'[f] \in {claimedBy[f], a},
         NEW e, e = job[a], Ends(a) => Reported(a, e)'
  PROVE  Tells
<1>1. NoOne \notin Actors
  BY DEF Actors
<1>2. ASSUME NEW b \in Actors, b # a PROVE ~Ends(b)
  <2>1. pc'[b] = pc[b] /\ job'[b] = job[b]
    BY <1>2 DEF Alone
  <2>2. pc[b] = "claim" => job[b] \in Events
    BY DEF HasJob
  <2>3. QED
    BY <1>1, <1>2, <2>1, <2>2 DEF Ends
<1>3. QED
  BY <1>2 DEF Tells

LEMMA GiveUpTells ==
  ASSUME TypeOK, HasJob, NEW a \in Actors, pc[a] \in Busy, GiveUp(a),
         UNCHANGED <<claimedBy, published>>
  PROVE  Tells
<1> SUFFICES ASSUME NEW e, e = job[a] PROVE Tells
  OBVIOUS
<1>1. e \in Events /\ Leaves(a)
  BY GiveUpRests, RestLeaves DEF HasJob
<1>2. Grows /\ Reported(a, e)'
  <2>1. CASE a = Worker
    <3>1. Grows /\ Msg("processing", e) \in Sent'
      BY <2>1, EmitAdds DEF GiveUp
    <3>2. QED
      BY <2>1, <3>1 DEF Reported, DeadLettered
  <2>2. CASE a # Worker
    <3>1. Grows /\ 500 \in answers'[e]
      BY <1>1, <2>2, AnswerAdds DEF GiveUp
    <3>2. QED
      BY <2>2, <3>1 DEF Reported
  <2>3. QED
    BY <2>1, <2>2
<1>3. QED
  BY <1>1, <1>2, EndsAlone DEF Leaves

\* While nothing dies, no step loses a message, and whoever ends an attempt
\* reports it.
LEMMA StepTells ==
  ASSUME TypeOK, HasJob, Undisturbed', [Next]_vars
  PROVE  Tells
<1> USE DEF kafka, batch, actors, budget
<1>0. Worker \in Actors
  BY DEF Actors
<1>n. ASSUME UNCHANGED claimedBy, Grows,
             \A a \in Actors : pc[a] \in Busy => pc'[a] \in Busy
      PROVE  Tells
  <2>1. NoOne \notin Actors
    BY DEF Actors
  <2>2. ASSUME NEW a \in Actors PROVE ~Ends(a)
    BY <1>n, <2>1, <2>2 DEF Ends
  <2>3. QED
    BY <1>n, <2>2 DEF Tells
<1>1. ASSUME NEW m \in Payloads, Produce(m) PROVE Tells
  BY <1>1, <1>n DEF Produce, Grows, Sent
<1>2. CASE ConsumeMalformed
  <2>1. Grows /\ Leaves(Worker) /\ pc[Worker] = "idle"
    BY <1>2, <1>0, EmitAdds, RestLeaves DEF ConsumeMalformed, Emit
  <2>2. QED
    BY <1>2, <1>0, <2>1, EndsAlone DEF ConsumeMalformed, Leaves, Ends, Busy, Stores
<1>3. CASE Consume
  BY <1>3, <1>n DEF Consume, Grows, Sent, TypeOK, Busy, Stores
<1>4. CASE SourceError
  BY <1>4, <1>n DEF SourceError, Grows, Sent
<1>5. ASSUME NEW p \in ApiProcs, NEW e \in Events, Predict(p, e) PROVE Tells
  BY <1>5, <1>n DEF Predict, Grows, Sent, TypeOK, Busy, Stores
<1>6. ASSUME NEW a \in Actors, Handle(a) PROVE Tells
  <2>1. CASE Claim(a)
    <3>1. /\ Alone(a) /\ Grows /\ pc'[a] = "enrich"
          /\ \A e \in Events : claimedBy'[e] \in {claimedBy[e], a}
      BY <2>1 DEF Claim, Alone, Grows, Sent, TypeOK
    <3>2. QED
      BY <3>1, EndsAlone DEF Ends, Busy
  <2>2. CASE Duplicate(a)
    <3>1. /\ pc[a] = "claim" /\ claimedBy[job[a]] # NoOne /\ job[a] \in Events
          /\ UNCHANGED <<claimedBy, published>>
      BY <2>2 DEF Duplicate, HasJob
    <3>2. Grows /\ Rest(a)
      BY <2>2, <3>1, EmitAdds, AnswerAdds DEF Duplicate, Emit, Answer
    <3>3. QED
      BY <3>1, <3>2, RestLeaves, EndsAlone DEF Leaves, Ends, Busy, Stores
  <2>3. CASE ClaimFails(a)
    <3> SUFFICES ASSUME NEW e, e = job[a] PROVE Tells
      OBVIOUS
    <3>1. a # Worker
      BY <2>3 DEF ClaimFails, Die, Undisturbed, Up, TypeOK, Actors
    <3>2. /\ e \in Events /\ Answer(a, 500) /\ Leaves(a) /\ UNCHANGED published
          /\ \A f \in Events : claimedBy'[f] \in {claimedBy[f], a}
      BY <2>3, <3>1, RestLeaves DEF ClaimFails, Answer, HasJob, TypeOK
    <3>3. Grows /\ 500 \in answers'[e]
      BY <3>2, AnswerAdds
    <3>4. Reported(a, e)'
      BY <3>1, <3>3 DEF Reported
    <3>5. QED
      BY <3>2, <3>3, <3>4, EndsAlone DEF Leaves
  <2>4. CASE ProcessEvent(a)
    BY <2>4, <1>n DEF ProcessEvent, Grows, Sent, TypeOK, Busy, Stores
  <2>5. CASE RejectEvent(a)
    BY <2>5, GiveUpTells DEF RejectEvent, Busy
  <2>6. ASSUME NEW s \in Stores, Save(a, s) PROVE Tells
    <3>1. NextCall[s] \in Busy
      BY <2>6 DEF Save, NextCall, Busy, Stores
    <3>2. QED
      BY <2>6, <3>1, <1>n DEF Save, Grows, Sent, TypeOK
  <2>7. CASE UpdateState(a)
    <3> SUFFICES ASSUME NEW e, e = job[a] PROVE Tells
      OBVIOUS
    <3>1. e \in Events /\ UNCHANGED <<claimedBy, published>> /\ Leaves(a)
      BY <2>7, RestLeaves DEF UpdateState, Emit, Answer, HasJob, Busy, Stores
    <3>2. Grows /\ Reported(a, e)'
      <4>1. CASE a = Worker
        <5>1. Msg("decisions", e) \in BundleMessages(e)
          BY DEF BundleMessages, BundleTopics
        <5>2. Grows /\ BundleMessages(e) \subseteq Sent'
          BY <2>7, <3>1, <4>1, EmitAdds DEF UpdateState
        <5>3. QED
          BY <4>1, <5>1, <5>2 DEF Reported
      <4>2. CASE a # Worker
        <5>1. Grows /\ 200 \in answers'[e]
          BY <2>7, <3>1, <4>2, AnswerAdds DEF UpdateState
        <5>2. QED
          BY <4>2, <5>1 DEF Reported
      <4>3. QED
        BY <4>1, <4>2
    <3>3. QED
      BY <3>1, <3>2, EndsAlone DEF Leaves
  <2>8. CASE CallFails(a)
    BY <2>8, GiveUpTells DEF CallFails
  <2>9. QED
    BY <1>6, <2>1, <2>2, <2>3, <2>4, <2>5, <2>6, <2>7, <2>8 DEF Handle
<1>7. CASE EndBatch
  BY <1>7, <1>n DEF EndBatch, Grows, Sent, TypeOK, Busy, Stores
<1>8. ASSUME NEW m \in outbox, Deliver(m) PROVE Tells
  BY <1>8, <1>n DEF Deliver, Grows, Sent, TypeOK, Busy, Stores
<1>9. CASE WorkerCrash
  BY <1>9, <1>0 DEF WorkerCrash, Die, Undisturbed, Up, TypeOK
<1>10. CASE WorkerStart
  BY <1>10, <1>n DEF WorkerStart, Grows, Sent, TypeOK, Busy, Stores
<1>11. ASSUME NEW p \in ApiProcs, ApiCrash(p) PROVE Tells
  BY <1>11 DEF ApiCrash, Crash, Undisturbed, TypeOK
<1>12. CASE UNCHANGED vars
  BY <1>12, <1>n DEF vars, Grows, Sent
<1>13. QED
  BY <1>1, <1>2, <1>3, <1>4, <1>5, <1>6, <1>7, <1>8, <1>9, <1>10, <1>11, <1>12
  DEF Next

\* An attempt that is not over after the step, or reported before it, or ended
\* by it, is accounted for.
LEMMA AccountStep ==
  ASSUME TypeOK, HasJob, StoreInv, Accounted, Undisturbed', [Next]_vars
  PROVE  Accounted'
<1>0. Shape /\ Tells /\ NoOne \notin Actors
  BY StepShape, StepTells DEF Actors
<1>1. ASSUME NEW e \in Events, NEW b, Reported(b, e) PROVE Reported(b, e)'
  BY <1>0, <1>1 DEF Tells, Grows, Reported, DeadLettered
<1>2. ASSUME NEW a \in Actors, pc[a] \in Busy, UNCHANGED claimedBy,
             NEW e, e = job[a], pc'[a] \in Busy => job'[a] = e
      PROVE  /\ e \in Events /\ claimedBy'[e] = a
             /\ InFlight(e)' \/ Reported(a, e)'
  <2>1. e \in Events /\ claimedBy[e] = a
    BY <1>2 DEF HasJob, StoreInv, ClaimHeld
  <2>2. CASE pc'[a] \in Busy
    BY <1>2, <2>1, <2>2 DEF InFlight, HasEvent
  <2>3. CASE pc'[a] \notin Busy
    <3>1. Ends(a)
      BY <1>2, <2>3 DEF Ends
    <3>2. QED
      BY <1>0, <1>2, <2>1, <3>1 DEF Tells
  <2>4. QED
    BY <2>1, <2>2, <2>3
<1>4. ASSUME UNCHANGED claimedBy,
             \A a \in Actors : pc[a] \in Busy /\ pc'[a] \in Busy => job'[a] = job[a]
      PROVE  Accounted'
  <2> SUFFICES ASSUME NEW e \in Events, NEW a \in Actors, claimedBy'[e] = a
               PROVE  InFlight(e)' \/ Reported(a, e)'
    BY DEF Accounted
  <2>1. CASE InFlight(e)
    <3>1. PICK b \in Actors : job[b] = e /\ pc[b] \in Busy
      BY <2>1 DEF InFlight, HasEvent
    <3>2. claimedBy'[e] = b /\ (InFlight(e)' \/ Reported(b, e)')
      BY <1>2, <1>4, <3>1
    <3>3. QED
      BY <3>2
  <2>2. CASE Reported(a, e)
    BY <1>1, <2>2
  <2>3. QED
    BY <1>4, <2>1, <2>2 DEF Accounted
<1>5. CASE Aside
  BY <1>4, <1>5 DEF Aside
<1>6. ASSUME NEW a \in Actors, Drops(a) PROVE Accounted'
  BY <1>4, <1>6 DEF Drops, Leaves, Alone
<1>7. ASSUME NEW a \in Actors, TakesClaim(a) PROVE Accounted'
  <2> SUFFICES ASSUME NEW e, e = job[a] PROVE Accounted'
    OBVIOUS
  <2>1. /\ pc[a] = "claim" /\ e \in Events /\ claimedBy[e] = NoOne
        /\ claimedBy'[e] = a /\ \A f \in Events : f # e => claimedBy'[f] = claimedBy[f]
    BY <1>7 DEF TakesClaim, HasJob, TypeOK
  <2>2. InFlight(e)' \/ Reported(a, e)'
    <3>1. CASE Leaves(a)
      <4>1. Ends(a)
        BY <2>1, <3>1 DEF Ends, Leaves
      <4>2. QED
        BY <1>0, <2>1, <4>1 DEF Tells
    <3>2. CASE pc'[a] = "enrich" /\ job'[a] = e
      BY <3>2 DEF InFlight, HasEvent, Busy
    <3>3. QED
      BY <1>7, <3>1, <3>2 DEF TakesClaim
  <2>3. ASSUME NEW f \in Events, InFlight(f) PROVE InFlight(f)'
    <3>1. PICK b \in Actors : job[b] = f /\ pc[b] \in Busy
      BY <2>3 DEF InFlight, HasEvent
    <3>2. b # a
      BY <2>1, <3>1 DEF Busy, Stores
    <3>3. pc'[b] = pc[b] /\ job'[b] = job[b]
      BY <1>7, <3>2 DEF TakesClaim, Leaves, Alone
    <3>4. QED
      BY <3>1, <3>3 DEF InFlight, HasEvent
  <2>4. ASSUME NEW f \in Events, NEW b \in Actors, claimedBy'[f] = b
        PROVE  InFlight(f)' \/ Reported(b, f)'
    <3>1. CASE f = e
      BY <2>1, <2>2, <2>4, <3>1
    <3>2. CASE f # e
      BY <1>1, <2>1, <2>3, <2>4, <3>2 DEF Accounted
    <3>3. QED
      BY <3>1, <3>2
  <2>5. QED
    BY <2>4 DEF Accounted
<1>8. ASSUME NEW a \in Actors, Computes(a) PROVE Accounted'
  BY <1>4, <1>8 DEF Computes, Alone
<1>9. ASSUME NEW a \in Actors, NEW s \in Stores, Writes(a, s) PROVE Accounted'
  BY <1>4, <1>9 DEF Writes, Leaves, Alone
<1>10. QED
  BY <1>0, <1>5, <1>6, <1>7, <1>8, <1>9 DEF Shape

\* While no process dies, an event that anybody has claimed is being worked on,
\* or the worker has handed on its decision or a dead letter, or /predict has
\* answered 200 or 500: no attempt ends unheard.
THEOREM NoAttemptUnheard == Spec /\ []Undisturbed => []Accounted
<1>1. Init => Accounted
  BY DEF Init, Accounted, Actors
<1>2. QED
  BY <1>1, AccountStep, SeenInvariance, PTL DEF Spec

\* StoredIsPublished, which a run refutes, holds as long as no process dies:
\* only a death of the worker keeps a stored decision from tx.decisions.
THEOREM PublishedUnlessDied == Spec /\ []Undisturbed => []StoredIsPublished
<1>1. Accounted /\ StoreInv => StoredIsPublished
  <2> SUFFICES ASSUME Accounted, ClaimHeld, CaughtUp, NEW e \in Events, claimedBy[e] = Worker
               PROVE  Msg("decisions", e) \in published \/ DeadLettered(e)
    BY DEF StoredIsPublished, StoreInv
  <2>1. Worker \in Actors /\ pc[Worker] \notin Busy /\ Sent = published
    BY DEF Actors, CaughtUp, Busy, Stores, Sent
  <2>2. ~InFlight(e)
    BY <2>1 DEF InFlight, HasEvent, ClaimHeld
  <2>3. QED
    BY <2>1, <2>2 DEF Accounted, Reported
<1>2. QED
  BY <1>1, NoAttemptUnheard, SeenInvariance, PTL

\* A 409 is answered for a claimed event, and claims stay.
LEMMA RefusedStep ==
  ASSUME TypeOK, HasJob, RefusedWasClaimed, [Next]_vars
  PROVE  RefusedWasClaimed'
<1>1. ASSUME NEW e \in Events, claimedBy[e] # NoOne PROVE claimedBy'[e] # NoOne
  BY <1>1, StepShape DEF Shape, Aside, Drops, TakesClaim, Computes, Writes, TypeOK, Actors
<1>2. ASSUME NEW e \in Events, 409 \in answers'[e], 409 \notin answers[e]
      PROVE  claimedBy[e] # NoOne
  <2>1. answers' # answers
    BY <1>2
  <2>2. PICK a \in Actors : \/ Duplicate(a) \/ ClaimFails(a) \/ RejectEvent(a)
                            \/ UpdateState(a) \/ CallFails(a)
    BY <2>1 DEF Next, Handle, Produce, ConsumeMalformed, Consume, SourceError, Predict,
                Claim, ProcessEvent, Save, EndBatch, Deliver, WorkerCrash, WorkerStart,
                ApiCrash, Emit, Die, vars, kafka, batch, actors, budget
  <2>3. Duplicate(a)
    <3>1. ASSUME NEW code \in {200, 500}, Answer(a, code) PROVE FALSE
      <4>1. answers' = [answers EXCEPT ![job[a]] = answers[job[a]] \cup {code}]
        BY <3>1 DEF Answer
      <4>2. answers'[e] = answers[e] \/ answers'[e] = answers[e] \cup {code}
        BY <4>1 DEF TypeOK
      <4>3. 409 # code
        OBVIOUS
      <4>4. QED
        BY <1>2, <4>2, <4>3
    <3>2. QED
      BY <2>1, <2>2, <3>1 DEF ClaimFails, RejectEvent, UpdateState, CallFails, GiveUp, Emit, Die
  <2>4. Answer(a, 409) /\ job[a] \in Events /\ claimedBy[job[a]] # NoOne
    BY <2>1, <2>3 DEF Duplicate, Emit, HasJob
  <2>5. job[a] = e
    BY <1>2, <2>4 DEF Answer, TypeOK
  <2>6. QED
    BY <2>4, <2>5
<1>3. QED
  BY <1>1, <1>2 DEF RefusedWasClaimed

\* What "Duplicate event_id already processed." may be said of: as long as no
\* process dies, the event is decided, is being decided, or its attempt failed
\* and the caller or the dead-letter topic has been told so.
RefusalExplained == \A e \in Events : 409 \in answers[e] =>
  Complete(e) \/ InFlight(e) \/ DeadLettered(e) \/ 500 \in answers[e]

\* DuplicateWasProcessed, which a run refutes, holds of every event but those
\* whose failure has been reported, while no process dies.
THEOREM RefusedOrReported == Spec /\ []Undisturbed => []RefusalExplained
<1>1. Init => RefusedWasClaimed
  BY DEF Init, RefusedWasClaimed
<1>2. Spec => []RefusedWasClaimed
  BY <1>1, RefusedStep, SeenInvariance, PTL DEF Spec
<1>3. TypeOK /\ SeenInv /\ Accounted /\ RefusedWasClaimed => RefusalExplained
  <2> SUFFICES ASSUME TypeOK, SeenIsStored, Accounted, RefusedWasClaimed,
                      NEW e \in Events, 409 \in answers[e]
               PROVE  Complete(e) \/ InFlight(e) \/ DeadLettered(e) \/ 500 \in answers[e]
    BY DEF RefusalExplained, SeenInv
  <2>1. claimedBy[e] \in Actors
    BY DEF TypeOK, RefusedWasClaimed
  <2>2. InFlight(e) \/ Reported(claimedBy[e], e)
    BY <2>1 DEF Accounted
  <2>3. Msg("decisions", e) \in Sent => Decided(e)
    BY DEF Decided, BundleTopics
  <2>4. QED
    BY <2>2, <2>3 DEF Reported, SeenIsStored
<1>4. QED
  BY <1>2, <1>3, NoAttemptUnheard, SeenInvariance, PTL
===============================================================================
