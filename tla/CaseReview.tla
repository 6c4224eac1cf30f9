------------------------------ MODULE CaseReview ------------------------------
(***************************************************************************)
(* From a transaction number to a label the model learns. The producer     *)
(* numbers its events with a counter that two threads share and a restart  *)
(* forgets; the worker stores raw row, scored row and case; an analyst     *)
(* posts feedback, which the API stores and publishes; a training joins    *)
(* raw rows with feedback by transaction_id.                               *)
(* The handlers of the API never await, so it serves one post at a time.   *)
(***************************************************************************)
EXTENDS Integers, FiniteSets, Sequences

CONSTANTS MaxPayments, MaxRestarts, MaxPosts, MaxTrainings, \* bounds
          Times,         \* the event_times there are
          Labels,        \* those of FeedbackLabel that analysts use
          MinRows        \* 200: with fewer labelled rows a training takes the CSV file

ASSUME ReviewAssumption ==
  /\ MaxPayments \in Nat /\ MaxRestarts \in Nat /\ MaxPosts \in Nat /\ MaxTrainings \in Nat
  /\ Times \subseteq Int /\ MinRows \in Nat
  /\ Labels \subseteq {"fraud", "false_positive", "legitimate", "review"}

VARIABLES
  sequence,         \* SyntheticTransactionGenerator.sequence
  drawing, loaded,  \* of each thread: where it is in _render_event, what it has loaded
  restarts, overlap,\* history: producer restarts; two threads were numbering at once
  payments,         \* the events generated so far: transaction number and event_time
  stage,            \* of each event: how many of its three rows are stored
  status,           \* case_status of each case
  posts,            \* what get_case found for each post of feedback, with its label
  at,               \* where the API is with the last of them
  recorded,         \* the posts with a row in analyst_feedback
  buffer,           \* the posts in the API's Kafka client
  heard,            \* those on the feedback topic or answered "recorded"
  training, frame,  \* where the trainer is, and the raw rows it has read
  trainings,
  trained, asOf     \* the label each event was last trained with, and the feedback used

numbering == <<sequence, drawing, loaded, restarts, overlap, payments>>
cases == <<stage, status>>
feedback == <<posts, at, recorded, buffer, heard>>
learning == <<training, frame, trainings, trained, asOf>>
vars == <<numbering, cases, feedback, learning>>

Threads == {"loop", "handler"}  \* the producer loop; bursts and exports
Events == 1..MaxPayments
Generated == 1..Len(payments)
Posted == 1..Len(posts)
Stored == {e \in Generated : stage[e] >= 1}
Txn(e) == payments[e].txn

Untrained == [e \in Events |-> "absent"]

Init ==
  /\ sequence = 0 /\ restarts = 0 /\ overlap = FALSE /\ payments = <<>>
  /\ drawing = [p \in Threads |-> "idle"] /\ loaded = [p \in Threads |-> 0]
  /\ stage = [e \in Events |-> 0] /\ status = [e \in Events |-> "none"]
  /\ posts = <<>> /\ at = "idle"
  /\ recorded = {} /\ buffer = {} /\ heard = {}
  /\ training = "idle" /\ frame = {} /\ trainings = 0
  /\ trained = Untrained /\ asOf = {}
-------------------------------------------------------------------------------
(* The producer. self.sequence += 1 loads and stores, and the number is    *)
(* read again where the event is made.                                     *)

\* The bound: how many events may still be begun. Nothing follows a restart after them.
Busy(p) == IF drawing[p] = "idle" THEN 0 ELSE 1
Unnumbered == MaxPayments - Len(payments) - Busy("loop") - Busy("handler")

Load(p) == /\ drawing[p] = "idle" /\ Unnumbered > 0
           /\ drawing' = [drawing EXCEPT ![p] = "storing"]
           /\ loaded' = [loaded EXCEPT ![p] = sequence]
           /\ overlap' = (overlap \/ \E q \in Threads \ {p} : drawing[q] # "idle")
           /\ UNCHANGED <<sequence, restarts, payments, cases, feedback, learning>>

\* Variant: the events of a burst are not counted.
StoreLoopOnly(p) ==
  /\ drawing[p] = "storing"
  /\ drawing' = [drawing EXCEPT ![p] = "naming"]
  /\ sequence' = IF p = "loop" THEN loaded[p] + 1 ELSE sequence
  /\ loaded' = [loaded EXCEPT ![p] = 0]
  /\ UNCHANGED <<restarts, overlap, payments, cases, feedback, learning>>

Store(p) == /\ drawing[p] = "storing"
            /\ drawing' = [drawing EXCEPT ![p] = "naming"]
            /\ sequence' = loaded[p] + 1 /\ loaded' = [loaded EXCEPT ![p] = 0]
            /\ UNCHANGED <<restarts, overlap, payments, cases, feedback, learning>>

Name(p) == /\ drawing[p] = "naming"
           /\ drawing' = [drawing EXCEPT ![p] = "idle"]
           /\ \E t \in Times : payments' = Append(payments, [txn |-> sequence, time |-> t])
           /\ UNCHANGED <<sequence, loaded, restarts, overlap, cases, feedback, learning>>

ProducerRestart == /\ restarts < MaxRestarts /\ Len(payments) < MaxPayments
                   /\ restarts' = restarts + 1
                   /\ sequence' = 0
                   /\ drawing' = [p \in Threads |-> "idle"]
                   /\ loaded' = [p \in Threads |-> 0]
                   /\ UNCHANGED <<overlap, payments, cases, feedback, learning>>
-------------------------------------------------------------------------------
(* The worker: raw row, scored row, decision. It may stop after any.       *)

\* Variant: the case is saved before the rows it shows.
SaveCaseFirst(e) == /\ e \in Generated /\ stage[e] < 3
                    /\ stage' = [stage EXCEPT ![e] = @ + 1]
                    /\ status' = [status EXCEPT ![e] = IF stage[e] = 0 THEN "open" ELSE @]
                    /\ UNCHANGED <<numbering, feedback, learning>>

Save(e) == /\ e \in Generated /\ stage[e] < 3
           /\ stage' = [stage EXCEPT ![e] = @ + 1]
           /\ status' = [status EXCEPT ![e] = IF stage[e] = 2 THEN "open" ELSE @]
           /\ UNCHANGED <<numbering, feedback, learning>>
-------------------------------------------------------------------------------
(* POST /cases/{case_id}/feedback.                                         *)

\* The newest raw row with a transaction number, as the views look it up.
Newest(n) == {e \in Stored : /\ Txn(e) = n
                             /\ \A f \in Stored : Txn(f) = n => payments[f].time <= payments[e].time}

\* get_case: the case itself, its transaction, and an event of that transaction.
GetCase(e) == {[case |-> e, txn |-> Txn(e), event |-> f] : f \in Newest(Txn(e))}

Post(e, label) ==
  /\ at = "idle" /\ Len(posts) < MaxPosts
  /\ e \in Generated /\ stage[e] = 3
  /\ \E found \in GetCase(e) :
       posts' = Append(posts, [case |-> found.case, txn |-> found.txn,
                               event |-> found.event, label |-> label])
  /\ at' = "found"
  /\ UNCHANGED <<numbering, cases, recorded, buffer, heard, learning>>

Asked == posts[Len(posts)]

StatusAfter(label) == IF label # "review" THEN "closed" ELSE "open"

\* add_feedback: the case's status, the feedback row and the audit row, in one commit.
Record == /\ at = "found" /\ at' = "recorded"
          /\ recorded' = recorded \cup {Len(posts)}
          /\ status' = [status EXCEPT ![Asked.case] = StatusAfter(Asked.label)]
          /\ UNCHANGED <<numbering, stage, posts, buffer, heard, learning>>

\* Variant: the event is handed to Kafka before it is stored.
SendFirst == /\ at \in {"found", "recorded"} /\ Len(posts) \notin buffer
             /\ at' = IF at = "found" THEN at ELSE "sent"
             /\ buffer' = buffer \cup {Len(posts)}
             /\ UNCHANGED <<numbering, cases, posts, recorded, heard, learning>>

Send == /\ at = "recorded" /\ at' = "sent"
        /\ buffer' = buffer \cup {Len(posts)}
        /\ UNCHANGED <<numbering, cases, posts, recorded, heard, learning>>

\* flush() returns when nothing is left in the client, delivered or not.
Flush == /\ at = "sent" /\ buffer = {} /\ at' = "idle"
         /\ heard' = heard \cup {Len(posts)}
         /\ UNCHANGED <<numbering, cases, posts, recorded, buffer, learning>>

\* Variant: flush() without its timeout.
NoTimeOut == FALSE /\ UNCHANGED vars

\* flush(timeout=5) raises; what is in the client stays there.
TimeOut == /\ at = "sent" /\ buffer # {} /\ at' = "idle"
           /\ UNCHANGED <<numbering, cases, posts, recorded, buffer, heard, learning>>

\* The database or send() raises; a commit may have been made all the same.
Refuse == /\ at \in {"found", "recorded"} /\ at' = "idle"
          /\ UNCHANGED <<numbering, cases, posts, recorded, buffer, heard, learning>>

Deliver(q) == /\ q \in buffer /\ buffer' = buffer \ {q} /\ heard' = heard \cup {q}
              /\ UNCHANGED <<numbering, cases, posts, at, recorded, learning>>

\* A send that failed for good: its future holds the error and nobody asks it.
Lose(q) == /\ q \in buffer /\ buffer' = buffer \ {q}
           /\ UNCHANGED <<numbering, cases, posts, at, recorded, heard, learning>>

ApiCrash == /\ at' = "idle" /\ buffer' = {}
            /\ UNCHANGED <<numbering, cases, posts, recorded, heard, learning>>
-------------------------------------------------------------------------------
(* The trainer. training_frame reads the raw rows, then the feedback.      *)

About(n) == {q \in recorded : posts[q].txn = n}
IsLatest(q, S) == q \in S /\ \A r \in S : r <= q

\* None leaves the row the label it was generated with.
TrainingLabel(label) == CASE label = "fraud" -> "fraud"
                          [] label \in {"false_positive", "legitimate"} -> "legitimate"
                          [] label = "review" -> "synthetic"

\* Variant: the oldest feedback decides.
VerdictOldest(n) ==
  IF About(n) = {} THEN "synthetic"
  ELSE TrainingLabel(posts[CHOOSE q \in About(n) : \A r \in About(n) : q <= r].label)

Verdict(n) == IF About(n) = {} THEN "synthetic"
              ELSE TrainingLabel(posts[CHOOSE q \in About(n) : IsLatest(q, About(n))].label)

ReadPayments == /\ training = "idle" /\ trainings < MaxTrainings
                /\ training' = "joining" /\ frame' = Stored
                /\ UNCHANGED <<numbering, cases, feedback, trainings, trained, asOf>>

Train == /\ training = "joining" /\ training' = "idle" /\ frame' = {}
         /\ trainings' = trainings + 1
         /\ asOf' = recorded
         /\ trained' = IF Cardinality(frame) < MinRows THEN Untrained
                       ELSE [e \in Events |-> IF e \in frame THEN Verdict(Txn(e)) ELSE "absent"]
         /\ UNCHANGED <<numbering, cases, feedback>>

\* A forced bootstrap reads the CSV file only.
TrainFromCsv == /\ training = "idle" /\ trainings < MaxTrainings
                /\ trainings' = trainings + 1
                /\ trained' = Untrained /\ asOf' = recorded
                /\ UNCHANGED <<numbering, cases, feedback, training, frame>>

TrainingFails == /\ training = "joining" /\ training' = "idle" /\ frame' = {}
                 /\ UNCHANGED <<numbering, cases, feedback, trainings, trained, asOf>>
-------------------------------------------------------------------------------
Answer == Record \/ Send \/ Flush \/ TimeOut

Next == \/ \E p \in Threads : Load(p) \/ Store(p) \/ Name(p)
        \/ ProducerRestart
        \/ \E e \in Events : Save(e) \/ \E label \in Labels : Post(e, label)
        \/ Answer \/ Refuse \/ ApiCrash
        \/ \E q \in Posted : Deliver(q) \/ Lose(q)
        \/ ReadPayments \/ Train \/ TrainFromCsv \/ TrainingFails

\* The API goes on with a post; neither the broker nor anybody else has to.
Spec == Init /\ [][Next]_vars /\ WF_vars(Answer)
-------------------------------------------------------------------------------
TypeOK ==
  /\ sequence \in Nat /\ drawing \in [Threads -> {"idle", "storing", "naming"}]
  /\ loaded \in [Threads -> Nat] /\ restarts \in 0..MaxRestarts /\ overlap \in BOOLEAN
  /\ payments \in Seq([txn : Nat, time : Times]) /\ Len(payments) <= MaxPayments
  /\ stage \in [Events -> 0..3] /\ status \in [Events -> {"none", "open", "closed"}]
  /\ \A e \in Events : /\ stage[e] > 0 => e \in Generated
                       /\ status[e] = "none" <=> stage[e] < 3
  /\ posts \in Seq([case : Events, txn : Nat, event : Events, label : Labels])
  /\ Len(posts) <= MaxPosts
  /\ at \in {"idle", "found", "recorded", "sent"} /\ (at # "idle" => posts # <<>>)
  /\ recorded \subseteq Posted /\ buffer \subseteq Posted
  /\ heard \subseteq Posted
  /\ training \in {"idle", "joining"} /\ frame \subseteq Stored
  /\ trainings \in 0..MaxTrainings
  /\ trained \in [Events -> {"absent", "synthetic", "fraud", "legitimate"}]
  /\ asOf \subseteq recorded

Alone(e) == \A f \in Generated : Txn(f) = Txn(e) => f = e
ByAnalyst(e) == trained[e] \in {"fraud", "legitimate"}

\* A training that has seen all feedback agrees with the case page: of an event
\* whose number is its own, the model learns the analyst's label if the case is
\* closed and the generated one if it is not. The status is set by add_feedback
\* from the case, the label found by training_frame from the transaction_id.
ClosedIsTrained ==
  \A e \in Generated : (Alone(e) /\ trained[e] # "absent" /\ asOf = recorded)
                         => (status[e] = "closed" <=> ByAnalyst(e))

\* The same without its condition: a label an analyst gave is that of the event's
\* own case, even if no two threads ever numbered at once. A producer that was
\* restarted numbers its transactions from 1 again.
TrainedAsReviewed ==
  \A e \in Generated : (~overlap /\ ByAnalyst(e) /\ asOf = recorded) => status[e] = "closed"

\* Whatever a broker, a crash or a timeout does to a post, nobody hears of feedback
\* that is not stored, and it names the event that was reviewed, if its number is
\* its own.
HeardIsRecorded ==
  \A q \in buffer \cup heard :
    q \in recorded /\ (Alone(posts[q].case) => posts[q].event = posts[q].case)

\* Without a restart, and without a burst or an export that overlaps with the loop,
\* no two events get the same transaction_id.
NumbersDiffer == (restarts = 0 /\ ~overlap) => \A e \in Generated : Alone(e)

\* Every post is answered in the end, with whatever the broker does.
AnalystIsAnswered == (at # "idle") ~> (at = "idle")
===============================================================================
