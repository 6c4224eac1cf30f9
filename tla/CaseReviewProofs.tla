--------------------------- MODULE CaseReviewProofs ---------------------------
(***************************************************************************)
(* Safety of CaseReview for any number of events, restarts, posts and      *)
(* trainings. The invariant has three chains. Numbers: while no two        *)
(* threads overlap, the one thread that is numbering knows the counter.    *)
(* Feedback: where the API is tells whether the last post is stored, and   *)
(* the case's status is that of its latest stored post. Training: the      *)
(* labels are those of the latest feedback in asOf.                        *)
(***************************************************************************)
EXTENDS CaseReview, TLAPS

Payment == [txn : Nat, time : Times]

NumberingOK ==
  /\ sequence \in Nat /\ drawing \in [Threads -> {"idle", "storing", "naming"}]
  /\ loaded \in [Threads -> Nat] /\ restarts \in 0..MaxRestarts /\ overlap \in BOOLEAN
  /\ payments \in Seq(Payment) /\ Unnumbered >= 0

\* Without restart and overlap one thread numbers at a time, and what it has loaded
\* is the counter; it reads a number that no event has yet.
Numbered == (restarts = 0 /\ ~overlap) =>
  /\ \A p, q \in Threads : (drawing[p] # "idle" /\ drawing[q] # "idle") => p = q
  /\ \A p \in Threads : drawing[p] = "storing" => loaded[p] = sequence
  /\ \A e \in Generated : /\ Txn(e) <= sequence
                          /\ \A p \in Threads : drawing[p] = "naming" => Txn(e) < sequence
  /\ \A e \in Generated : Alone(e)

CasesOK ==
  /\ stage \in [Events -> 0..3] /\ status \in [Events -> {"none", "open", "closed"}]
  /\ \A e \in Events : /\ stage[e] > 0 => e \in Generated
                       /\ status[e] = "none" <=> stage[e] < 3

Feedback == [case : Events, txn : Nat, event : Events, label : Labels]

FeedbackOK ==
  /\ posts \in Seq(Feedback)
  /\ Len(posts) <= MaxPosts
  /\ at \in {"idle", "found", "recorded", "sent"} /\ (at # "idle" => posts # <<>>)
  /\ recorded \subseteq Posted

\* A post names a case that is stored, and an event of its transaction.
PostsMatch == \A q \in Posted :
  /\ posts[q].case \in Generated /\ posts[q].event \in Generated
  /\ stage[posts[q].case] = 3
  /\ posts[q].txn = Txn(posts[q].case) /\ posts[q].txn = Txn(posts[q].event)

\* Where the API is tells whether the last post is stored.
SentIsRecorded ==
  /\ at = "found" => Len(posts) \notin recorded
  /\ at \in {"recorded", "sent"} => Len(posts) \in recorded
  /\ buffer \subseteq recorded /\ heard \subseteq recorded

HasLatest == \A n \in Nat : About(n) # {} => \E q \in About(n) : IsLatest(q, About(n))

\* The status of a case is that of its latest feedback.
OfCase(e) == {q \in recorded : posts[q].case = e}
LatestDecides == \A e \in Events :
  status[e] = "closed" <=> \E q \in OfCase(e) : IsLatest(q, OfCase(e)) /\ posts[q].label # "review"

LearningOK ==
  /\ training \in {"idle", "joining"} /\ frame \subseteq Stored
  /\ trainings \in 0..MaxTrainings /\ (training = "joining" => trainings < MaxTrainings)
  /\ trained \in [Events -> {"absent", "synthetic", "fraud", "legitimate"}]
  /\ \A e \in Events : trained[e] # "absent" => e \in Generated
  /\ asOf \subseteq recorded

\* The label of an event is that of the latest feedback that was used.
Used(n) == {q \in asOf : posts[q].txn = n}
LatestTrains == \A e \in Generated : trained[e] # "absent" =>
  (ByAnalyst(e) <=> \E q \in Used(Txn(e)) : IsLatest(q, Used(Txn(e))) /\ posts[q].label # "review")

IInv == /\ NumberingOK /\ Numbered /\ CasesOK /\ FeedbackOK /\ PostsMatch /\ SentIsRecorded
        /\ HasLatest /\ LatestDecides /\ LearningOK /\ LatestTrains

LEMMA InitIInv == Init => IInv
<1>. SUFFICES ASSUME Init PROVE IInv
  OBVIOUS
<1>. USE ReviewAssumption DEF Init, Generated, Posted, Stored, Threads, Events
<1>1. NumberingOK
  <2>1. Unnumbered = MaxPayments
    BY DEF Unnumbered, Busy
  <2>2. <<>> \in Seq(Payment)
    OBVIOUS
  <2>3. drawing \in [Threads -> {"idle", "storing", "naming"}] /\ loaded \in [Threads -> Nat]
    OBVIOUS
  <2>4. sequence \in Nat /\ restarts \in 0..MaxRestarts
    OBVIOUS
  <2>7. overlap \in BOOLEAN
    BY Zenon
  <2>5. Unnumbered >= 0
    BY <2>1
  <2>6. payments \in Seq(Payment)
    BY <2>2
  <2>. QED  BY <2>3, <2>4, <2>5, <2>6, <2>7, Zenon DEF NumberingOK
<1>5. Numbered
  BY DEF Numbered
<1>2. CasesOK /\ FeedbackOK /\ PostsMatch /\ SentIsRecorded
  BY DEF CasesOK, FeedbackOK, PostsMatch, SentIsRecorded
<1>3. HasLatest /\ LatestDecides
  BY DEF HasLatest, About, LatestDecides, OfCase
<1>4. LearningOK /\ LatestTrains
  BY DEF LearningOK, LatestTrains, Untrained
<1>. QED  BY <1>1, <1>2, <1>3, <1>4, <1>5 DEF IInv

LEMMA TypeParts == IInv => TypeOK
<1>. SUFFICES ASSUME IInv PROVE TypeOK
  OBVIOUS
<1>1. Len(payments) <= MaxPayments
  BY ReviewAssumption DEF IInv, NumberingOK, Unnumbered, Busy
<1>2. buffer \subseteq Posted /\ heard \subseteq Posted
  BY DEF IInv, SentIsRecorded, FeedbackOK
<1>. QED  BY <1>1, <1>2 DEF IInv, TypeOK, NumberingOK, Payment, CasesOK, FeedbackOK, Feedback, LearningOK
-------------------------------------------------------------------------------
(* The producer.                                                           *)

\* A step of the producer that numbers no event leaves the rest as it is.
LEMMA CounterLeaves ==
  ASSUME IInv, UNCHANGED <<payments, cases, feedback, learning>>, NumberingOK', Numbered'
  PROVE  IInv'
<1>. USE DEF cases, feedback, learning
<1>1. Generated' = Generated /\ Posted' = Posted /\ Stored' = Stored
  BY DEF Generated, Posted, Stored
<1>2. \A e : Txn(e)' = Txn(e) /\ ByAnalyst(e)' = ByAnalyst(e)
  BY DEF Txn, ByAnalyst
<1>3. \A n : About(n)' = About(n) /\ Used(n)' = Used(n) /\ OfCase(n)' = OfCase(n)
  BY DEF About, Used, OfCase
<1>4. CasesOK' /\ FeedbackOK' /\ SentIsRecorded' /\ LearningOK'
  BY <1>1 DEF IInv, CasesOK, FeedbackOK, SentIsRecorded, LearningOK
<1>5. PostsMatch'
  BY <1>1, <1>2 DEF IInv, PostsMatch
<1>6. HasLatest' /\ LatestDecides'
  BY <1>3 DEF IInv, HasLatest, LatestDecides, IsLatest
<1>7. LatestTrains'
  BY <1>1, <1>2, <1>3 DEF IInv, LatestTrains, IsLatest
<1>. QED  BY <1>4, <1>5, <1>6, <1>7 DEF IInv

LEMMA TxnNat == ASSUME IInv, NEW e \in Generated PROVE Txn(e) \in Nat
<1>1. payments[e] \in Payment
  BY DEF IInv, NumberingOK, Generated
<1>. QED  BY <1>1 DEF Txn, Payment

LEMMA LoadKeeps == ASSUME IInv, NEW p \in Threads, Load(p) PROVE IInv'
<1>. USE DEF Load, Threads
<1>1. NumberingOK'
  BY ReviewAssumption DEF IInv, NumberingOK, Unnumbered, Busy
<1>2. Generated' = Generated /\ \A e : Txn(e)' = Txn(e) /\ Alone(e)' = Alone(e)
  BY DEF Generated, Txn, Alone
<1>3. Numbered'
  BY <1>2 DEF IInv, Numbered, NumberingOK
<1>. QED  BY <1>1, <1>3, CounterLeaves

LEMMA StoreKeeps == ASSUME IInv, NEW p \in Threads, Store(p) PROVE IInv'
<1>. USE DEF Store, Threads
<1>1. NumberingOK'
  BY ReviewAssumption DEF IInv, NumberingOK, Unnumbered, Busy
<1>2. Generated' = Generated /\ \A e : Txn(e)' = Txn(e) /\ Alone(e)' = Alone(e)
  BY DEF Generated, Txn, Alone
<1>3. \A e \in Generated : Txn(e) \in Nat
  BY TxnNat
<1>4. Numbered'
  BY <1>2, <1>3 DEF IInv, Numbered, NumberingOK
<1>. QED  BY <1>1, <1>4, CounterLeaves

LEMMA RestartKeeps == ASSUME IInv, ProducerRestart PROVE IInv'
<1>. USE DEF ProducerRestart, Threads
<1>1. NumberingOK'
  BY ReviewAssumption DEF IInv, NumberingOK, Unnumbered, Busy
<1>2. restarts' # 0
  BY DEF IInv, NumberingOK
<1>. QED  BY <1>1, <1>2, CounterLeaves DEF Numbered

LEMMA NameKeeps == ASSUME IInv, NEW p \in Threads, Name(p) PROVE IInv'
<1>. USE DEF Name, cases, feedback, learning
<1>1. PICK t \in Times : payments' = Append(payments, [txn |-> sequence, time |-> t])
  OBVIOUS
<1>2. payments \in Seq(Payment) /\ sequence \in Nat
  BY DEF IInv, NumberingOK
<1>. PICK n \in Nat : n = Len(payments) + 1
  BY <1>2
<1>3. /\ Generated' = Generated \cup {n} /\ n \notin Generated /\ Txn(n)' = sequence
      /\ \A e \in Generated : Txn(e)' = Txn(e) /\ payments'[e] = payments[e]
      /\ payments' \in Seq(Payment) /\ Len(payments') = n
  <2>1. [txn |-> sequence, time |-> t] \in Payment
    BY <1>2 DEF Payment
  <2>2. /\ Len(payments') = n /\ payments'[n] = [txn |-> sequence, time |-> t]
        /\ \A e \in 1..Len(payments) : payments'[e] = payments[e]
        /\ payments' \in Seq(Payment)
    BY <1>1, <1>2, <2>1
  <2>. QED  BY <2>2, <1>2 DEF Generated, Txn
<1>4. NumberingOK'
  <2>1. drawing' \in [Threads -> {"idle", "storing", "naming"}] /\ Unnumbered' >= 0
    BY <1>3, ReviewAssumption DEF IInv, NumberingOK, Unnumbered, Busy, Threads
  <2>. QED  BY <1>3, <2>1 DEF IInv, NumberingOK
<1>5. Numbered'
  <2>1. SUFFICES ASSUME restarts = 0, ~overlap PROVE Numbered'
    BY DEF Numbered
  <2>2. /\ \A q \in Threads : drawing'[q] = "idle"
        /\ \A e \in Generated : Txn(e) < sequence /\ Alone(e)
    BY <2>1 DEF IInv, Numbered, NumberingOK, Threads
  <2>3. \A e \in Generated' : Txn(e)' <= sequence
    BY <2>2, <1>3, <1>2, TxnNat
  <2>4. \A e \in Generated' : Alone(e)'
    BY <2>2, <1>3, <1>2, TxnNat DEF Alone
  <2>. QED  BY <2>2, <2>3, <2>4 DEF Numbered
<1>6. CasesOK' /\ FeedbackOK' /\ SentIsRecorded'
  BY <1>3 DEF IInv, CasesOK, FeedbackOK, SentIsRecorded, Posted
<1>7. PostsMatch'
  BY <1>3 DEF IInv, PostsMatch, Posted
<1>8. \A x : About(x)' = About(x) /\ Used(x)' = Used(x) /\ OfCase(x)' = OfCase(x)
  BY DEF About, Used, OfCase
<1>9. HasLatest' /\ LatestDecides'
  BY <1>8 DEF IInv, HasLatest, LatestDecides, IsLatest
<1>10. LearningOK'
  BY <1>3 DEF IInv, LearningOK, Stored
<1>11. LatestTrains'
  <2>1. SUFFICES ASSUME NEW e \in Generated', trained[e] # "absent"
                 PROVE  ByAnalyst(e)' <=> \E q \in Used(Txn(e))' :
                          IsLatest(q, Used(Txn(e)))' /\ posts[q].label # "review"
    BY DEF LatestTrains
  <2>2. e \in Generated
    <3>1. e \in Events
      BY <1>4, <1>3, ReviewAssumption DEF NumberingOK, Unnumbered, Busy, Generated, Events
    <3>. QED  BY <3>1, <2>1 DEF IInv, LearningOK
  <2>3. Txn(e)' = Txn(e) /\ ByAnalyst(e)' = ByAnalyst(e) /\ Used(Txn(e))' = Used(Txn(e))
    BY <2>2, <1>3 DEF ByAnalyst, Used
  <2>. QED  BY <2>1, <2>2, <2>3 DEF IInv, LatestTrains, IsLatest
<1>. QED  BY <1>4, <1>5, <1>6, <1>7, <1>9, <1>10, <1>11 DEF IInv
-------------------------------------------------------------------------------
(* The worker and the API.                                                 *)

LEMMA GeneratedEvents == ASSUME IInv PROVE Generated \subseteq Events
<1>1. Len(payments) <= MaxPayments /\ Len(payments) \in Nat
  BY ReviewAssumption DEF IInv, NumberingOK, Unnumbered, Busy
<1>. QED  BY <1>1, ReviewAssumption DEF Generated, Events

LEMMA SaveKeeps == ASSUME IInv, NEW e \in Events, Save(e) PROVE IInv'
<1>. USE DEF Save, numbering, feedback, learning
<1>1. /\ stage[e] \in 0..2 /\ stage' = [stage EXCEPT ![e] = stage[e] + 1]
      /\ status[e] = "none" /\ status'[e] \in {"none", "open"}
      /\ \A f \in Events \ {e} : stage'[f] = stage[f] /\ status'[f] = status[f]
  BY DEF IInv, CasesOK
<1>2. Generated' = Generated /\ Posted' = Posted /\ Stored \subseteq Stored'
  BY <1>1, GeneratedEvents DEF Generated, Posted, Stored, IInv, CasesOK
<1>3. /\ \A x : Txn(x)' = Txn(x) /\ ByAnalyst(x)' = ByAnalyst(x) /\ Alone(x)' = Alone(x)
      /\ \A x : About(x)' = About(x) /\ Used(x)' = Used(x) /\ OfCase(x)' = OfCase(x)
  BY DEF Txn, ByAnalyst, About, Used, OfCase, Alone, Generated
<1>4. NumberingOK' /\ Numbered'
  BY <1>2, <1>3 DEF IInv, NumberingOK, Numbered, Unnumbered, Busy
<1>5. CasesOK'
  <2>1. status' \in [Events -> {"none", "open", "closed"}]
    BY DEF IInv, CasesOK
  <2>2. stage' \in [Events -> 0..3]
    BY <1>1 DEF IInv, CasesOK
  <2>3. status'[e] = "none" <=> stage'[e] < 3
    BY <1>1 DEF IInv, CasesOK
  <2>. QED  BY <1>1, <1>2, <2>1, <2>2, <2>3 DEF IInv, CasesOK
<1>6. FeedbackOK' /\ SentIsRecorded'
  BY <1>2 DEF IInv, FeedbackOK, SentIsRecorded
<1>7. PostsMatch'
  <2>1. SUFFICES ASSUME NEW q \in Posted PROVE stage'[posts[q].case] = 3
    BY <1>2, <1>3 DEF IInv, PostsMatch
  <2>2. posts[q].case \in Events \ {e} /\ stage[posts[q].case] = 3
    BY <1>1, GeneratedEvents DEF IInv, PostsMatch
  <2>. QED  BY <2>2, <1>1
<1>8. HasLatest'
  BY <1>3 DEF IInv, HasLatest, IsLatest
<1>9. LatestDecides'
  BY <1>1, <1>3 DEF IInv, LatestDecides, IsLatest
<1>10. LearningOK' /\ LatestTrains'
  BY <1>2, <1>3 DEF IInv, LearningOK, LatestTrains, IsLatest
<1>. QED  BY <1>4, <1>5, <1>6, <1>7, <1>8, <1>9, <1>10 DEF IInv

LEMMA PostKeeps == ASSUME IInv, NEW e \in Events, NEW label \in Labels, Post(e, label) PROVE IInv'
<1>. USE DEF Post, numbering, cases, learning
<1>1. PICK f \in Newest(Txn(e)) :
        posts' = Append(posts, [case |-> e, txn |-> Txn(e), event |-> f, label |-> label])
  BY DEF GetCase
<1>2. f \in Generated /\ Txn(f) = Txn(e) /\ e \in Generated /\ stage[e] = 3
  BY <1>1 DEF Newest, Stored
<1>. PICK n \in Nat : n = Len(posts) + 1
  BY DEF IInv, FeedbackOK
<1>3. /\ posts' \in Seq(Feedback) /\ Len(posts') = n
      /\ posts'[n] = [case |-> e, txn |-> Txn(e), event |-> f, label |-> label]
      /\ \A q \in Posted : posts'[q] = posts[q]
      /\ Posted' = Posted \cup {n} /\ n \notin Posted
  <2>1. [case |-> e, txn |-> Txn(e), event |-> f, label |-> label] \in Feedback
    BY <1>2, GeneratedEvents, TxnNat DEF Feedback
  <2>2. posts \in Seq(Feedback)
    BY DEF IInv, FeedbackOK
  <2>3. /\ posts' \in Seq(Feedback) /\ Len(posts') = n
        /\ posts'[n] = [case |-> e, txn |-> Txn(e), event |-> f, label |-> label]
        /\ \A q \in 1..Len(posts) : posts'[q] = posts[q]
    BY <1>1, <2>1, <2>2
  <2>. QED  BY <2>2, <2>3 DEF Posted
<1>4. Generated' = Generated /\ Stored' = Stored
  BY DEF Generated, Stored
<1>5. \A x : Txn(x)' = Txn(x) /\ ByAnalyst(x)' = ByAnalyst(x) /\ Alone(x)' = Alone(x)
  BY DEF Txn, ByAnalyst, Alone, Generated
<1>6. recorded \subseteq Posted /\ asOf \subseteq Posted
  BY DEF IInv, FeedbackOK, LearningOK
<1>7. \A x : About(x)' = About(x) /\ Used(x)' = Used(x) /\ OfCase(x)' = OfCase(x)
  BY <1>3, <1>6 DEF About, Used, OfCase
<1>8. NumberingOK' /\ Numbered'
  BY <1>4, <1>5 DEF IInv, NumberingOK, Numbered, Unnumbered, Busy
<1>9. CasesOK' /\ LearningOK'
  BY <1>4 DEF IInv, CasesOK, LearningOK
<1>10. FeedbackOK'
  BY <1>3, ReviewAssumption DEF IInv, FeedbackOK
<1>11. PostsMatch'
  <2>1. SUFFICES ASSUME NEW q \in Posted'
                 PROVE  /\ posts'[q].case \in Generated /\ posts'[q].event \in Generated
                        /\ stage[posts'[q].case] = 3
                        /\ posts'[q].txn = payments[posts'[q].case].txn
                        /\ posts'[q].txn = payments[posts'[q].event].txn
    BY <1>4 DEF PostsMatch, Txn
  <2>2. CASE q \in Posted
    BY <2>2, <1>3 DEF IInv, PostsMatch, Txn
  <2>3. CASE q = n
    BY <2>3, <1>2, <1>3 DEF Txn
  <2>. QED  BY <2>2, <2>3, <1>3
<1>12. SentIsRecorded'
  BY <1>3, <1>6 DEF IInv, SentIsRecorded
<1>13. HasLatest'
  BY <1>7 DEF IInv, HasLatest, IsLatest
<1>14. LatestDecides'
  <2>1. \A x \in Events : \A q \in OfCase(x) : posts'[q].label = posts[q].label
    BY <1>3, <1>6 DEF OfCase
  <2>. QED  BY <1>7, <2>1 DEF IInv, LatestDecides, IsLatest
<1>15. LatestTrains'
  <2>1. \A x : \A q \in Used(x) : posts'[q].label = posts[q].label
    BY <1>3, <1>6 DEF Used
  <2>. QED  BY <1>4, <1>5, <1>7, <2>1 DEF IInv, LatestTrains, IsLatest
<1>. QED  BY <1>8, <1>9, <1>10, <1>11, <1>12, <1>13, <1>14, <1>15 DEF IInv

\* A step of the API or the broker that stores nothing.
LEMMA ApiLeaves ==
  ASSUME IInv, UNCHANGED <<numbering, cases, posts, recorded, learning>>,
         at' \in {"idle", "found", "recorded", "sent"}, at' # "idle" => at # "idle", SentIsRecorded'
  PROVE  IInv'
<1>. USE DEF numbering, cases, learning
<1>1. Generated' = Generated /\ Posted' = Posted /\ Stored' = Stored
  BY DEF Generated, Posted, Stored
<1>2. \A x : Txn(x)' = Txn(x) /\ ByAnalyst(x)' = ByAnalyst(x) /\ Alone(x)' = Alone(x)
  BY DEF Txn, ByAnalyst, Alone, Generated
<1>3. \A x : About(x)' = About(x) /\ Used(x)' = Used(x) /\ OfCase(x)' = OfCase(x)
  BY DEF About, Used, OfCase
<1>4. NumberingOK' /\ Numbered'
  BY <1>1, <1>2 DEF IInv, NumberingOK, Numbered, Unnumbered, Busy
<1>5. CasesOK' /\ LearningOK'
  BY <1>1 DEF IInv, CasesOK, LearningOK
<1>6. FeedbackOK'
  BY <1>1 DEF IInv, FeedbackOK
<1>7. PostsMatch'
  BY <1>1 DEF IInv, PostsMatch, Txn
<1>9. HasLatest' /\ LatestDecides' /\ LatestTrains'
  BY <1>1, <1>2, <1>3 DEF IInv, HasLatest, LatestDecides, LatestTrains, IsLatest
<1>. QED  BY <1>4, <1>5, <1>6, <1>7, <1>9 DEF IInv

LEMMA ApiKeeps ==
  ASSUME IInv, Send \/ Flush \/ TimeOut \/ Refuse \/ ApiCrash \/ \E q \in Posted : Deliver(q) \/ Lose(q)
  PROVE  IInv'
<1>. SentIsRecorded /\ at \in {"idle", "found", "recorded", "sent"}
  BY DEF IInv, FeedbackOK
<1>1. CASE Send
  BY <1>1, ApiLeaves DEF Send, SentIsRecorded
<1>2. CASE Flush
  BY <1>2, ApiLeaves DEF Flush, SentIsRecorded
<1>3. CASE TimeOut \/ Refuse \/ ApiCrash
  BY <1>3, ApiLeaves DEF TimeOut, Refuse, ApiCrash, SentIsRecorded
<1>4. ASSUME NEW q \in Posted, Deliver(q) \/ Lose(q) PROVE IInv'
  BY <1>4, ApiLeaves DEF Deliver, Lose, SentIsRecorded
<1>. QED  BY <1>1, <1>2, <1>3, <1>4

\* The new row is the latest of its case and of its transaction.
LEMMA RecordKeeps == ASSUME IInv, Record PROVE IInv'
<1>. USE DEF Record, numbering, learning
<1>. PICK n \in Nat : n = Len(posts)
  BY DEF IInv, FeedbackOK
<1>. PICK c : c = Asked.case
  OBVIOUS
<1>1. /\ n \in Posted /\ n \notin recorded /\ recorded' = recorded \cup {n}
      /\ \A q \in Posted : q <= n
      /\ c = posts[n].case /\ c \in Events /\ stage[c] = 3
      /\ status' = [status EXCEPT ![c] = StatusAfter(posts[n].label)]
  <2>1. n \in Posted
    BY DEF IInv, FeedbackOK, Posted
  <2>. QED  BY <2>1, GeneratedEvents DEF IInv, FeedbackOK, SentIsRecorded, PostsMatch, Posted, Asked
<1>2. Generated' = Generated /\ Stored' = Stored /\ Posted' = Posted
  BY DEF Generated, Stored, Posted
<1>3. /\ \A x : Txn(x)' = Txn(x) /\ ByAnalyst(x)' = ByAnalyst(x) /\ Alone(x)' = Alone(x)
      /\ \A x : Used(x)' = Used(x)
  BY DEF Txn, ByAnalyst, Alone, Generated, Used
<1>4. NumberingOK' /\ Numbered' /\ LatestTrains'
  BY <1>2, <1>3 DEF IInv, NumberingOK, Numbered, Unnumbered, Busy, LatestTrains, IsLatest
<1>5. LearningOK'
  BY <1>1, <1>2 DEF IInv, LearningOK
<1>6. CasesOK'
  BY <1>1, <1>2 DEF IInv, CasesOK, StatusAfter
<1>7. FeedbackOK' /\ SentIsRecorded'
  BY <1>1, <1>2 DEF IInv, FeedbackOK, SentIsRecorded
<1>8. PostsMatch'
  BY <1>2 DEF IInv, PostsMatch, Txn
<1>9. recorded \subseteq Posted
  BY DEF IInv, FeedbackOK
<1>10. HasLatest'
  <2>1. SUFFICES ASSUME NEW m \in Nat, About(m)' # {}
                 PROVE  \E q \in About(m)' : IsLatest(q, About(m)')
    BY DEF HasLatest, IsLatest
  <2>2. CASE posts[n].txn = m
    <3>1. n \in About(m)' /\ \A r \in About(m)' : r <= n
      BY <2>2, <1>1, <1>9 DEF About
    <3>. QED  BY <3>1 DEF IsLatest
  <2>3. CASE posts[n].txn # m
    <3>1. About(m)' = About(m)
      BY <2>3, <1>1 DEF About
    <3>. QED  BY <3>1, <2>1 DEF IInv, HasLatest
  <2>. QED  BY <2>2, <2>3
<1>11. LatestDecides'
  <2>1. SUFFICES ASSUME NEW e \in Events
                 PROVE  status'[e] = "closed" <=>
                          \E q \in OfCase(e)' : IsLatest(q, OfCase(e)') /\ posts[q].label # "review"
    BY DEF LatestDecides, IsLatest
  <2>2. CASE e = c
    <3>1. n \in OfCase(e)' /\ \A r \in OfCase(e)' : r \in Posted /\ r <= n
      BY <2>2, <1>1, <1>9 DEF OfCase
    <3>2. \A q \in OfCase(e)' : IsLatest(q, OfCase(e)') <=> q = n
      BY <3>1, <1>1 DEF IsLatest, Posted
    <3>3. status'[e] = "closed" <=> posts[n].label # "review"
      BY <2>2, <1>1 DEF StatusAfter, IInv, CasesOK
    <3>. QED  BY <3>1, <3>2, <3>3
  <2>3. CASE e # c
    <3>1. OfCase(e)' = OfCase(e) /\ status'[e] = status[e]
      BY <2>3, <1>1 DEF OfCase, IInv, CasesOK
    <3>. QED  BY <3>1 DEF IInv, LatestDecides
  <2>. QED  BY <2>2, <2>3
<1>. QED  BY <1>4, <1>5, <1>6, <1>7, <1>8, <1>10, <1>11 DEF IInv
-------------------------------------------------------------------------------
(* The trainer.                                                            *)

\* A step of the trainer leaves the rest as it is.
LEMMA TrainerLeaves ==
  ASSUME IInv, UNCHANGED <<numbering, cases, feedback>>, LearningOK', LatestTrains'
  PROVE  IInv'
<1>. USE DEF numbering, cases, feedback
<1>1. Generated' = Generated /\ Posted' = Posted
  BY DEF Generated, Posted
<1>2. /\ \A x : Txn(x)' = Txn(x) /\ Alone(x)' = Alone(x)
      /\ \A x : About(x)' = About(x) /\ OfCase(x)' = OfCase(x)
  BY DEF Txn, Alone, Generated, About, OfCase
<1>3. NumberingOK' /\ Numbered' /\ CasesOK' /\ FeedbackOK' /\ SentIsRecorded'
  BY <1>1, <1>2 DEF IInv, NumberingOK, Numbered, Unnumbered, Busy, CasesOK, FeedbackOK, SentIsRecorded
<1>4. PostsMatch' /\ HasLatest' /\ LatestDecides'
  BY <1>1, <1>2 DEF IInv, PostsMatch, HasLatest, LatestDecides, IsLatest, Txn
<1>. QED  BY <1>3, <1>4 DEF IInv

\* What a training takes as verdict is what its latest feedback says.
LEMMA VerdictIsLatest ==
  ASSUME IInv, NEW m \in Nat
  PROVE  /\ Verdict(m) \in {"synthetic", "fraud", "legitimate"}
         /\ Verdict(m) # "synthetic" <=>
              \E q \in About(m) : IsLatest(q, About(m)) /\ posts[q].label # "review"
<1>3. About(m) \subseteq Int
  <2>1. Posted \subseteq Int /\ recorded \subseteq Posted
    BY DEF IInv, FeedbackOK, Posted
  <2>. QED  BY <2>1 DEF About
<1>1. CASE About(m) = {}
  BY <1>1 DEF Verdict
<1>2. CASE About(m) # {}
  <2>. DEFINE q == CHOOSE q \in About(m) : IsLatest(q, About(m))
  <2>1. q \in About(m) /\ IsLatest(q, About(m))
    BY <1>2 DEF IInv, HasLatest
  <2>2. \A r \in About(m) : IsLatest(r, About(m)) => r = q
    BY <1>3, <2>1 DEF IsLatest
  <2>3. posts[q].label \in {"fraud", "false_positive", "legitimate", "review"}
    <3>1. q \in Posted
      BY <2>1 DEF About, IInv, FeedbackOK
    <3>2. posts[q] \in Feedback
      BY <3>1 DEF IInv, FeedbackOK, Posted
    <3>. QED  BY <3>2, ReviewAssumption DEF Feedback
  <2>4. Verdict(m) = TrainingLabel(posts[q].label)
    BY <1>2 DEF Verdict
  <2>. HIDE DEF q
  <2>5. TrainingLabel(posts[q].label) \in {"synthetic", "fraud", "legitimate"}
    BY <2>3 DEF TrainingLabel
  <2>6. TrainingLabel(posts[q].label) # "synthetic" <=> posts[q].label # "review"
    BY <2>3 DEF TrainingLabel
  <2>. QED  BY <2>1, <2>2, <2>4, <2>5, <2>6
<1>. QED  BY <1>1, <1>2

LEMMA TrainKeeps == ASSUME IInv, Train PROVE IInv'
<1>. USE DEF Train, numbering, cases, feedback
<1>1. Generated' = Generated /\ \A x : Txn(x)' = Txn(x)
  BY DEF Generated, Txn
<1>2. frame \subseteq Generated /\ frame \subseteq Events
  BY GeneratedEvents DEF IInv, LearningOK, Stored
<1>3. asOf' = recorded /\ \A x : Used(x)' = About(x)
  BY DEF Used, About
<1>4. training' = "idle" /\ frame' = {} /\ trainings' \in 0..MaxTrainings
  BY ReviewAssumption DEF IInv, LearningOK
<1>5. CASE trained' = Untrained
  <2>1. \A e \in Events : trained'[e] = "absent"
    BY <1>5 DEF Untrained
  <2>2. LearningOK'
    BY <1>3, <1>4, <1>5, <2>1 DEF LearningOK, Untrained
  <2>3. LatestTrains'
    BY <1>1, <2>1, GeneratedEvents DEF LatestTrains
  <2>. QED  BY <2>2, <2>3, TrainerLeaves
<1>6. CASE trained' = [e \in Events |-> IF e \in frame THEN Verdict(Txn(e)) ELSE "absent"]
  <2>1. \A e \in Events : /\ e \in frame => trained'[e] = Verdict(Txn(e))
                          /\ e \notin frame => trained'[e] = "absent"
    BY <1>6
  <2>2. \A e \in frame : Verdict(Txn(e)) \in {"synthetic", "fraud", "legitimate"}
    BY <1>2, VerdictIsLatest, TxnNat
  <2>3. LearningOK'
    <3>1. trained' \in [Events -> {"absent", "synthetic", "fraud", "legitimate"}]
      BY <1>6, <2>2
    <3>. QED  BY <1>1, <1>2, <1>3, <1>4, <2>1, <3>1 DEF LearningOK
  <2>4. LatestTrains'
    <3>1. SUFFICES ASSUME NEW e \in Generated, trained'[e] # "absent"
                   PROVE  trained'[e] \in {"fraud", "legitimate"} <=>
                            \E q \in About(Txn(e)) : /\ IsLatest(q, About(Txn(e)))
                                                    /\ posts[q].label # "review"
      BY <1>1, <1>3 DEF LatestTrains, ByAnalyst, IsLatest
    <3>2. e \in frame /\ trained'[e] = Verdict(Txn(e))
      BY <2>1, <3>1, GeneratedEvents
    <3>. QED  BY <3>2, <2>2, VerdictIsLatest, TxnNat
  <2>. QED  BY <2>3, <2>4, TrainerLeaves
<1>. QED  BY <1>5, <1>6

LEMMA TrainerKeeps == ASSUME IInv, ReadPayments \/ Train \/ TrainFromCsv \/ TrainingFails PROVE IInv'
<1>. USE DEF numbering, cases, feedback
<1>1. CASE ReadPayments \/ TrainingFails
  <2>. USE <1>1 DEF ReadPayments, TrainingFails
  <2>1. /\ Generated' = Generated /\ Stored' = Stored
        /\ \A x : Txn(x)' = Txn(x) /\ ByAnalyst(x)' = ByAnalyst(x) /\ Used(x)' = Used(x)
    BY DEF Generated, Stored, Txn, ByAnalyst, Used
  <2>2. LearningOK' /\ LatestTrains'
    BY <2>1 DEF IInv, LearningOK, LatestTrains, IsLatest
  <2>. QED  BY <2>2, TrainerLeaves
<1>2. CASE TrainFromCsv
  <2>. USE <1>2 DEF TrainFromCsv
  <2>1. Generated' = Generated /\ Stored' = Stored
    BY DEF Generated, Stored
  <2>2. \A e \in Events : trained'[e] = "absent"
    BY DEF Untrained
  <2>3. LearningOK'
    BY <2>1, <2>2, ReviewAssumption DEF IInv, LearningOK, Untrained
  <2>4. LatestTrains'
    BY <2>1, <2>2, GeneratedEvents DEF LatestTrains
  <2>. QED  BY <2>3, <2>4, TrainerLeaves
<1>. QED  BY <1>1, <1>2, TrainKeeps
-------------------------------------------------------------------------------
LEMMA StepIInv == IInv /\ [Next]_vars => IInv'
<1>. SUFFICES ASSUME IInv, [Next]_vars PROVE IInv'
  OBVIOUS
<1>1. CASE UNCHANGED vars
  <2>. USE <1>1 DEF vars
  <2>1. \A x : ByAnalyst(x)' = ByAnalyst(x) /\ Txn(x)' = Txn(x) /\ Used(x)' = Used(x)
    BY DEF ByAnalyst, Txn, Used, numbering, learning, feedback
  <2>2. Generated' = Generated /\ Stored' = Stored
    BY DEF Generated, Stored, numbering, cases
  <2>3. LearningOK' /\ LatestTrains'
    BY <2>1, <2>2 DEF learning, feedback, IInv, LearningOK, LatestTrains, IsLatest
  <2>. QED  BY <2>3, TrainerLeaves
<1>2. ASSUME NEW p \in Threads, Load(p) \/ Store(p) \/ Name(p) PROVE IInv'
  BY <1>2, LoadKeeps, StoreKeeps, NameKeeps
<1>3. ASSUME NEW e \in Events, Save(e) \/ \E label \in Labels : Post(e, label) PROVE IInv'
  BY <1>3, SaveKeeps, PostKeeps
<1>. QED  BY <1>1, <1>2, <1>3, RestartKeeps, RecordKeeps, ApiKeeps, TrainerKeeps DEF Next, Answer

LEMMA AlwaysIInv == Spec => []IInv
  BY InitIInv, StepIInv, PTL DEF Spec

\* Every variable stays within its type.
THEOREM TypeCorrect == Spec => []TypeOK
  BY AlwaysIInv, TypeParts, PTL

\* _render_event: the loop alone gives every event a transaction_id of its own.
THEOREM NumbersAreUnique == Spec => []NumbersDiffer
<1>1. IInv => NumbersDiffer
  BY DEF IInv, Numbered, NumbersDiffer
<1>. QED  BY <1>1, AlwaysIInv, PTL

\* add_feedback commits before the event is sent, and get_case found the right one.
THEOREM HeardFeedbackIsStored == Spec => []HeardIsRecorded
<1>1. IInv => HeardIsRecorded
  <2>. SUFFICES ASSUME IInv, NEW q \in buffer \cup heard
                PROVE  q \in recorded /\ (Alone(posts[q].case) => posts[q].event = posts[q].case)
    BY DEF HeardIsRecorded
  <2>1. q \in recorded /\ q \in Posted
    BY DEF IInv, SentIsRecorded, FeedbackOK
  <2>. QED  BY <2>1 DEF IInv, PostsMatch, Alone
<1>. QED  BY <1>1, AlwaysIInv, PTL

\* case_status, which add_feedback sets from the case, and label_source, which
\* training_frame finds by the transaction_id, agree.
THEOREM ReviewedCasesAreTrained == Spec => []ClosedIsTrained
<1>1. IInv => ClosedIsTrained
  <2>. SUFFICES ASSUME IInv, NEW e \in Generated, Alone(e), trained[e] # "absent", asOf = recorded
                PROVE  status[e] = "closed" <=> ByAnalyst(e)
    BY DEF ClosedIsTrained
  <2>1. Used(Txn(e)) = OfCase(e)
    <3>1. \A q \in recorded : posts[q].txn = Txn(e) <=> posts[q].case = e
      BY DEF IInv, FeedbackOK, PostsMatch, Alone
    <3>. QED  BY <3>1 DEF Used, OfCase
  <2>. QED  BY <2>1, GeneratedEvents DEF IInv, LatestDecides, LatestTrains
<1>. QED  BY <1>1, AlwaysIInv, PTL

\* TrainedAsReviewed, which a run refutes, holds of the events of a producer that
\* was never restarted: the collision needs the counter that starts again.
THEOREM TrainedUnlessRestarted == Spec => [](restarts = 0 => TrainedAsReviewed)
<1>1. NumbersDiffer /\ ClosedIsTrained => (restarts = 0 => TrainedAsReviewed)
  BY DEF NumbersDiffer, ClosedIsTrained, TrainedAsReviewed, ByAnalyst
<1>. QED  BY <1>1, NumbersAreUnique, ReviewedCasesAreTrained, PTL
===============================================================================
