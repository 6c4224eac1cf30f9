-------------------------- MODULE LiveConsoleProofs --------------------------
(***************************************************************************)
(* Safety of LiveConsole for any number of decisions and any limit of the  *)
(* activities. Decisions are only ever added, so what an answer has read   *)
(* stays true of what is stored; one request is in flight at a time, so a  *)
(* row that has left the list of the last ones never comes back to it.     *)
(***************************************************************************)
EXTENDS LiveConsole, FiniteOrders

ScoringOK ==
  /\ thresholds \in Learnable
  /\ verdict \in Seq(Decisions) /\ Len(verdict) <= MaxDecisions
  /\ rows \in [1..MaxDecisions -> 0..2] /\ \A d \in 1..MaxDecisions : rows[d] > 0 => d \in Decided

PageOK == /\ path \in Paths /\ shown \in Payloads
          /\ error \in BOOLEAN /\ liveMode \in BOOLEAN
          /\ announced \subseteq Cases /\ late \in BOOLEAN /\ repeated \in BOOLEAN

Phases == {"free", "asked", "total", "blocked", "counted", "answered"}
Slots == [at : Phases, payload : Payloads, stale : BOOLEAN]
RequestsOK == inFlight \in BOOLEAN /\ request \in [Requests -> Slots]

\* One request is in flight at a time, and the flag says so.
OneRequest == \A j, k \in Requests :
  request[j].at # "free" => inFlight /\ (request[k].at # "free" => j = k)

\* What has been counted when an answer is at one of its steps.
Holds(payload, v) == With(payload.total, v) \subseteq payload.flagged
Complete(payload) == Holds(payload, "BLOCK") /\ Holds(payload, "REVIEW")
CountedOK ==
  /\ Complete(shown)
  /\ \A k \in Requests :
       /\ request[k].at \in {"blocked", "counted", "answered"} => Holds(request[k].payload, "BLOCK")
       /\ request[k].at \in {"counted", "answered"} => Complete(request[k].payload)

\* A row that has left the list of the last ones has left it for good.
Later(d) == {c \in Cases : c > d}
Gone(d) == Cardinality(Later(d)) >= ActivityLimit
AnnouncedStays == ~late =>
  /\ \A d \in announced : d \in shown.activities \/ Gone(d)
  /\ \A k \in Requests : (request[k].at = "answered" /\ ~request[k].stale) =>
       \A d \in announced : /\ d \in request[k].payload.activities \/ Gone(d)
                            /\ d \in request[k].payload.activities => d \in shown.activities

IInv == /\ ScoringOK /\ PageOK /\ RequestsOK /\ OneRequest /\ CountedOK
        /\ AnnouncedStays /\ ~repeated

LEMMA TypeParts == IInv => TypeOK
  BY DEF IInv, TypeOK, ScoringOK, PageOK, RequestsOK, Slots, Phases
-------------------------------------------------------------------------------
(* The sets of rows.                                                       *)

LEMMA RowSets ==
  ASSUME ScoringOK
  PROVE  /\ Cases \subseteq Scored /\ Scored \subseteq 1..MaxDecisions
         /\ IsFiniteSet(Scored) /\ IsFiniteSet(Cases)
         /\ \A d : IsFiniteSet(Later(d))
         /\ \A d \in Scored : d \in Decided /\ verdict[d] \in Decisions
<1>1. Cases \subseteq Scored /\ Scored \subseteq Decided
  BY DEF Cases, Scored
<1>2. Decided \subseteq 1..MaxDecisions
  BY ConsoleAssumption DEF ScoringOK, Decided
<1>3. IsFiniteSet(1..MaxDecisions)
  BY FS_Interval, ConsoleAssumption
<1>4. IsFiniteSet(Scored) /\ IsFiniteSet(Cases)
  BY <1>1, <1>2, <1>3, FS_Subset
<1>5. \A d : Later(d) \subseteq Cases
  BY DEF Later
<1>6. \A d : IsFiniteSet(Later(d))
  BY <1>4, <1>5, FS_Subset
<1>7. \A d \in Scored : d \in Decided /\ verdict[d] \in Decisions
  BY <1>1 DEF ScoringOK, Decided
<1>. QED  BY <1>1, <1>2, <1>4, <1>6, <1>7

LEMMA RecentRows ==
  ASSUME ScoringOK
  PROVE  Recent \subseteq Cases /\ \A d \in Cases : d \in Recent <=> ~Gone(d)
<1>1. \A d : Cardinality(Later(d)) \in Nat
  BY RowSets, FS_CardinalityType
<1>2. Recent \subseteq Cases /\ \A d \in Cases : d \in Recent <=> Cardinality(Later(d)) < ActivityLimit
  BY DEF Recent, Later
<1>. QED  BY <1>1, <1>2, ConsoleAssumption DEF Gone

LEMMA BlankOK == ASSUME NEW p \in Paths PROVE Blank(p) \in Payloads /\ Complete(Blank(p))
<1>1. Blank(p) = [path |-> p, total |-> {}, flagged |-> {}, activities |-> {}]
  BY DEF Blank, Payload
<1>. QED  BY <1>1 DEF Payloads, Complete, Holds, With

LEMMA NowOK ==
  ASSUME ScoringOK, NEW p \in Paths PROVE Now(p) \in Payloads /\ Complete(Now(p))
<1>1. Now(p) = [path |-> p, total |-> Scored, activities |-> Recent,
                flagged |-> With(Scored, "BLOCK") \cup With(Scored, "REVIEW")]
  BY DEF Now, Payload
<1>2. With(Scored, "BLOCK") \cup With(Scored, "REVIEW") \subseteq Scored \ With(Scored, "APPROVE")
  BY DEF With
<1>. QED  BY <1>1, <1>2, RecentRows DEF Payloads, Complete, Holds

LEMMA FreeOK == Free \in Slots /\ Free.at = "free" /\ Free.payload = Blank(Home) /\ ~Free.stale
<1>1. Free = [at |-> "free", payload |-> Blank(Home), stale |-> FALSE]
  BY DEF Free
<1>. QED  BY <1>1, BlankOK, ConsoleAssumption DEF Slots, Phases

LEMMA InitIInv == Init => IInv
<1>. SUFFICES ASSUME Init PROVE IInv
  OBVIOUS
<1>. USE ConsoleAssumption DEF Init
<1>1. ScoringOK
  BY DEF ScoringOK
<1>2. PageOK
  BY BlankOK DEF PageOK
<1>3. RequestsOK /\ OneRequest
  BY FreeOK DEF RequestsOK, OneRequest
<1>4. CountedOK
  BY FreeOK, BlankOK DEF CountedOK
<1>5. AnnouncedStays
  BY FreeOK DEF AnnouncedStays
<1>. QED  BY <1>1, <1>2, <1>3, <1>4, <1>5 DEF IInv
-------------------------------------------------------------------------------
(* A step of a scorer: what is stored only grows, and keeps its decision.  *)

LEMMA GrowthKeeps ==
  ASSUME IInv, ScoringOK', UNCHANGED <<page, liveMode, inFlight, request>>,
         Scored \subseteq Scored', Cases \subseteq Cases',
         \A d \in Scored : verdict'[d] = verdict[d]
  PROVE  IInv'
<1>. USE DEF page
<1>1. \A x \in Payloads : x \in Payloads'
  <2>1. Scored \ With(Scored, "APPROVE") \subseteq Scored' \ With(Scored, "APPROVE")'
    BY DEF With
  <2>. QED  BY <2>1 DEF Payloads
<1>2. PageOK'
  BY <1>1 DEF IInv, PageOK
<1>3. RequestsOK' /\ OneRequest'
  BY <1>1 DEF IInv, RequestsOK, Slots, OneRequest
<1>4. \A x \in Payloads : \A v : Holds(x, v)' <=> Holds(x, v)
  BY DEF Payloads, Holds, With
<1>5. CountedOK'
  <2>1. shown \in Payloads /\ \A k \in Requests : request[k].payload \in Payloads
    BY DEF IInv, PageOK, RequestsOK, Slots
  <2>. QED  BY <1>4, <2>1 DEF IInv, CountedOK, Complete
<1>6. \A d : Gone(d) => Gone(d)'
  <2>. SUFFICES ASSUME NEW d, Gone(d) PROVE Gone(d)'
    OBVIOUS
  <2>1. Later(d) \subseteq Later(d)' /\ IsFiniteSet(Later(d)')
    <3>1. Later(d)' \subseteq 1..MaxDecisions
      BY ConsoleAssumption DEF Later, Cases, Decided, ScoringOK
    <3>2. IsFiniteSet(1..MaxDecisions)
      BY FS_Interval, ConsoleAssumption
    <3>3. Later(d) \subseteq Later(d)'
      BY DEF Later
    <3>. QED  BY <3>1, <3>2, <3>3, FS_Subset
  <2>2. Cardinality(Later(d)) \in Nat /\ Cardinality(Later(d)') \in Nat
        /\ Cardinality(Later(d)) <= Cardinality(Later(d)')
    BY <2>1, FS_Subset, FS_CardinalityType
  <2>. QED  BY <2>2, ConsoleAssumption DEF Gone
<1>7. AnnouncedStays'
  BY <1>6 DEF IInv, AnnouncedStays
<1>. QED  BY <1>2, <1>3, <1>5, <1>7 DEF IInv

LEMMA ScorerKeeps ==
  ASSUME IInv, LoadModel \/ Score \/ \E d \in 1..MaxDecisions : Commit(d)
  PROVE  IInv'
<1>. ScoringOK
  BY DEF IInv
<1>1. CASE LoadModel
  <2>. USE <1>1 DEF LoadModel
  <2>1. ScoringOK' /\ Scored' = Scored /\ Cases' = Cases
    BY DEF ScoringOK, Scored, Cases, Decided
  <2>. QED  BY <2>1, GrowthKeeps
<1>2. CASE Score
  <2>. USE <1>2 DEF Score
  <2>1. PICK v \in Verdicts[thresholds] : verdict' = Append(verdict, v)
    OBVIOUS
  <2>2. v \in Decisions
    BY <2>1 DEF Verdicts, ScoringOK, Decide, Combine, Decisions
  <2>3. /\ verdict' \in Seq(Decisions) /\ Len(verdict') = Len(verdict) + 1
        /\ \A d \in Decided : d \in Decided' /\ verdict'[d] = verdict[d]
    BY <2>1, <2>2 DEF ScoringOK, Decided
  <2>4. ScoringOK'
    BY <2>3, ConsoleAssumption DEF ScoringOK
  <2>5. /\ Scored \subseteq Scored' /\ Cases \subseteq Cases'
        /\ \A d \in Scored : verdict'[d] = verdict[d]
    BY <2>3 DEF Scored, Cases
  <2>. QED  BY <2>4, <2>5, GrowthKeeps
<1>3. ASSUME NEW d \in 1..MaxDecisions, Commit(d) PROVE IInv'
  <2>. USE <1>3 DEF Commit
  <2>1. Decided' = Decided /\ rows' = [rows EXCEPT ![d] = rows[d] + 1] /\ rows[d] \in 0..1
    BY DEF Decided, ScoringOK
  <2>2. ScoringOK'
    BY <2>1 DEF ScoringOK
  <2>3. Scored \subseteq Scored' /\ Cases \subseteq Cases'
    BY <2>1 DEF Scored, Cases, ScoringOK
  <2>. QED  BY <2>2, <2>3, GrowthKeeps
<1>. QED  BY <1>1, <1>2, <1>3
-------------------------------------------------------------------------------
(* A step of an answer: one request has read more, and no other is there.  *)

LEMMA AnswerMoves ==
  ASSUME IInv, NEW k \in Requests, NEW to \in Slots, Moves(k, request[k].at, to), Aside,
         request[k].at # "free", to.stale = request[k].stale,
         to.at \in {"blocked", "counted", "answered"} => Holds(to.payload, "BLOCK"),
         to.at \in {"counted", "answered"} => Complete(to.payload),
         to.at = "answered" => to.payload.activities = Recent
  PROVE  IInv'
<1>. USE DEF Aside, scoring, page
<1>1. request' = [request EXCEPT ![k] = to] /\ request \in [Requests -> Slots]
  BY DEF Moves, IInv, RequestsOK
<1>2. request'[k] = to /\ \A j \in Requests \ {k} : request'[j] = request[j] /\ request'[j].at = "free"
  BY <1>1 DEF IInv, OneRequest
<1>3. Scored' = Scored /\ Cases' = Cases /\ Payloads' = Payloads /\ Decided' = Decided
  BY DEF Scored, Cases, Decided, Payloads, With
<1>4. ScoringOK' /\ PageOK'
  BY <1>3 DEF IInv, ScoringOK, PageOK
<1>5. RequestsOK' /\ OneRequest'
  <2>1. inFlight
    BY DEF IInv, OneRequest
  <2>2. request' \in [Requests -> Slots]
    BY <1>1
  <2>3. RequestsOK'
    BY <2>2, <1>3 DEF RequestsOK, Slots, IInv
  <2>4. OneRequest'
    BY <2>1, <1>2 DEF OneRequest
  <2>. QED  BY <2>3, <2>4
<1>6. \A x, v : Holds(x, v)' <=> Holds(x, v)
  BY DEF Holds, With
<1>7. CountedOK'
  BY <1>2, <1>6 DEF IInv, CountedOK, Complete
<1>8. \A d : Gone(d)' <=> Gone(d)
  BY <1>3 DEF Gone, Later
<1>9. AnnouncedStays'
  <2>1. SUFFICES ASSUME ~late, to.at = "answered", NEW d \in announced
                 PROVE  /\ d \in to.payload.activities \/ Gone(d)
                        /\ d \in to.payload.activities => d \in shown.activities
    BY <1>2, <1>8 DEF AnnouncedStays, IInv
  <2>2. d \in Cases /\ (d \in shown.activities \/ Gone(d))
    BY <2>1 DEF IInv, PageOK, AnnouncedStays
  <2>. QED  BY <2>1, <2>2, RecentRows DEF IInv
<1>. QED  BY <1>4, <1>5, <1>7, <1>9 DEF IInv

LEMMA AnswerKeeps == ASSUME IInv, NEW k \in Requests, Answer(k) PROVE IInv'
<1>. request[k] \in Slots
  BY DEF IInv, RequestsOK
<1>. USE DEF Slots, Payloads, Phases
<1>1. CASE CountAll(k)
  <2>. DEFINE to == [request[k] EXCEPT !.at = "total", !.payload.total = Scored]
  <2>1. Moves(k, request[k].at, to) /\ request[k].at = "asked" /\ Aside
    BY <1>1 DEF CountAll, Moves
  <2>2. to.at = "total" /\ to.stale = request[k].stale /\ to \in Slots
    OBVIOUS
  <2>. HIDE DEF to
  <2>. QED  BY <2>1, <2>2, AnswerMoves
<1>2. CASE CountBlocked(k)
  <2>. DEFINE to == [request[k] EXCEPT !.at = "blocked", !.payload.flagged = With(Scored, "BLOCK")]
  <2>1. Moves(k, request[k].at, to) /\ request[k].at = "total" /\ Aside
    BY <1>2 DEF CountBlocked, Moves
  <2>2. /\ to.at = "blocked" /\ to.stale = request[k].stale /\ to \in Slots
        /\ to.payload.total \subseteq Scored /\ to.payload.flagged = With(Scored, "BLOCK")
    BY DEF With
  <2>3. Holds(to.payload, "BLOCK")
    BY <2>2 DEF Holds, With
  <2>. HIDE DEF to
  <2>. QED  BY <2>1, <2>2, <2>3, AnswerMoves
<1>3. CASE CountReview(k)
  <2>. DEFINE to == [request[k] EXCEPT !.at = "counted",
                                       !.payload.flagged = @ \cup With(Scored, "REVIEW")]
  <2>1. Moves(k, request[k].at, to) /\ request[k].at = "blocked" /\ Aside
    BY <1>3 DEF CountReview, Moves
  <2>2. /\ to.at = "counted" /\ to.stale = request[k].stale /\ to \in Slots
        /\ to.payload.total = request[k].payload.total /\ to.payload.total \subseteq Scored
        /\ to.payload.flagged = request[k].payload.flagged \cup With(Scored, "REVIEW")
    BY DEF With
  <2>3. Holds(request[k].payload, "BLOCK")
    BY <2>1 DEF IInv, CountedOK
  <2>4. Complete(to.payload)
    BY <2>2, <2>3 DEF Complete, Holds, With
  <2>. HIDE DEF to
  <2>. QED  BY <2>1, <2>2, <2>4, AnswerMoves DEF Complete
<1>4. CASE List(k)
  <2>. DEFINE to == [request[k] EXCEPT !.at = "answered", !.payload.activities = Recent]
  <2>1. Moves(k, request[k].at, to) /\ request[k].at = "counted" /\ Aside
    BY <1>4 DEF List, Moves
  <2>2. /\ to.at = "answered" /\ to.stale = request[k].stale /\ to \in Slots
        /\ to.payload.total = request[k].payload.total
        /\ to.payload.flagged = request[k].payload.flagged /\ to.payload.activities = Recent
    BY RecentRows DEF IInv
  <2>3. Complete(request[k].payload)
    BY <2>1 DEF IInv, CountedOK
  <2>4. Complete(to.payload)
    BY <2>2, <2>3 DEF Complete, Holds
  <2>. HIDE DEF to
  <2>. QED  BY <2>1, <2>2, <2>4, AnswerMoves DEF Complete
<1>. QED  BY <1>1, <1>2, <1>3, <1>4 DEF Answer
-------------------------------------------------------------------------------
(* A step of the hook or of the page. Nothing is stored by it.             *)

LEMMA StoredStays ==
  ASSUME IInv, UNCHANGED scoring
  PROVE  /\ ScoringOK' /\ Scored' = Scored /\ Cases' = Cases /\ Payloads' = Payloads
         /\ \A x, v : Holds(x, v)' <=> Holds(x, v)
         /\ \A d : Gone(d)' <=> Gone(d)
  BY DEF scoring, IInv, ScoringOK, Scored, Cases, Payloads, Decided, With, Holds, Gone, Later

LEMMA RefreshKeeps == ASSUME IInv, NEW k \in Requests, Refresh(k) PROVE IInv'
<1>. DEFINE to == [Free EXCEPT !.at = "asked", !.payload.path = path]
<1>1. request' = [request EXCEPT ![k] = to] /\ UNCHANGED <<scoring, page, liveMode>> /\ inFlight'
  BY DEF Refresh, Moves
<1>2. to \in Slots /\ to.at = "asked"
  BY FreeOK DEF Slots, Payloads, Phases, IInv, PageOK
<1>. HIDE DEF to
<1>3. \A j \in Requests : request[j].at = "free"
  BY DEF IInv, OneRequest, Refresh
<1>4. /\ request'[k].at = "asked" /\ request' \in [Requests -> Slots]
      /\ \A j \in Requests \ {k} : request'[j].at = "free"
  BY <1>1, <1>2, <1>3 DEF IInv, RequestsOK
<1>. USE <1>1, StoredStays DEF page
<1>5. PageOK'
  BY DEF IInv, PageOK
<1>6. RequestsOK' /\ OneRequest'
  <2>1. RequestsOK'
    BY <1>4, Zenon DEF RequestsOK, Slots, Refresh
  <2>2. OneRequest'
    BY <1>4 DEF OneRequest
  <2>. QED  BY <2>1, <2>2
<1>7. CountedOK'
  BY <1>4 DEF IInv, CountedOK, Complete
<1>8. AnnouncedStays'
  BY <1>4 DEF IInv, AnnouncedStays
<1>. QED  BY <1>5, <1>6, <1>7, <1>8 DEF IInv

\* When the request in flight ends, none is.
LEMMA FreedOK ==
  ASSUME IInv, NEW k \in Requests, request[k].at # "free", request' = [request EXCEPT ![k] = Free],
         UNCHANGED scoring, inFlight' = FALSE
  PROVE  RequestsOK' /\ OneRequest' /\ \A j \in Requests : request'[j].at = "free"
<1>1. request' \in [Requests -> Slots] /\ \A j \in Requests : request'[j].at = "free"
  BY FreeOK DEF IInv, RequestsOK, OneRequest
<1>2. Slots' = Slots
  BY StoredStays DEF Slots
<1>3. inFlight' \in BOOLEAN
  BY Zenon
<1>. QED  BY <1>1, <1>2, <1>3 DEF RequestsOK, OneRequest

LEMMA ReceiveKeeps == ASSUME IInv, NEW k \in Requests, Receive(k) PROVE IInv'
<1>. DEFINE answer == request[k].payload
<1>1. /\ request[k].at = "answered" /\ request' = [request EXCEPT ![k] = Free]
      /\ UNCHANGED <<scoring, liveMode, path>> /\ inFlight' = FALSE
      /\ shown' = answer /\ error' = FALSE /\ announced' = announced \cup New(answer)
      /\ late' = (late \/ request[k].stale)
      /\ repeated' = (repeated \/ (~late' /\ New(answer) \cap announced # {}))
  BY DEF Receive, Moves, Show
<1>2. request[k] \in Slots /\ answer \in Payloads /\ Complete(answer)
  BY <1>1 DEF IInv, RequestsOK, Slots, CountedOK
<1>3. RequestsOK' /\ OneRequest' /\ \A j \in Requests : request'[j].at = "free"
  BY <1>1, FreedOK
<1>4. New(answer) \subseteq answer.activities \ shown.activities /\ New(answer) \subseteq Cases
  BY <1>2 DEF New, Payloads
<1>5. PageOK'
  <2>1. error' \in BOOLEAN /\ late' \in BOOLEAN /\ repeated' \in BOOLEAN
    BY <1>1, Zenon
  <2>. QED  BY <1>1, <1>2, <1>4, <2>1, StoredStays DEF IInv, PageOK
<1>6. CountedOK'
  BY <1>1, <1>2, <1>3, StoredStays DEF CountedOK, Complete
<1>7. ~late' => \A d \in announced :
        /\ d \in answer.activities \/ Gone(d)
        /\ d \in answer.activities => d \in shown.activities
  BY <1>1 DEF IInv, AnnouncedStays
<1>8. AnnouncedStays'
  BY <1>1, <1>3, <1>4, <1>7, StoredStays DEF AnnouncedStays
<1>9. ~repeated'
  BY <1>1, <1>4, <1>7 DEF IInv
<1>. QED  BY <1>1, <1>3, <1>5, <1>6, <1>8, <1>9, StoredStays DEF IInv

LEMMA PageKeeps ==
  ASSUME IInv, Toggle \/ (\E p \in Paths : Follow(p)) \/ (\E k \in Requests : Fail(k)) \/ UNCHANGED vars
  PROVE  IInv'
<1>. USE DEF page, scoring
<1>1. CASE Toggle \/ UNCHANGED vars
  <2>1. UNCHANGED <<scoring, page, inFlight, request>> /\ liveMode' \in BOOLEAN
    BY <1>1 DEF Toggle, vars, IInv, PageOK
  <2>. QED  BY <2>1, StoredStays DEF IInv, PageOK, RequestsOK, Slots, OneRequest, CountedOK,
                                     Complete, AnnouncedStays
<1>2. ASSUME NEW k \in Requests, Fail(k) PROVE IInv'
  <2>. USE <1>2, StoredStays DEF Fail
  <2>1. RequestsOK' /\ OneRequest' /\ \A j \in Requests : request'[j].at = "free"
    BY FreedOK
  <2>2. error' \in BOOLEAN
    BY Zenon
  <2>3. PageOK' /\ CountedOK'
    BY <2>1, <2>2 DEF IInv, PageOK, CountedOK, Complete
  <2>4. AnnouncedStays'
    BY <2>1 DEF IInv, AnnouncedStays
  <2>. QED  BY <2>1, <2>3, <2>4 DEF IInv
<1>3. ASSUME NEW p \in Paths, Follow(p) PROVE IInv'
  <2>. USE <1>3, StoredStays DEF Follow
  <2>1. Now(p) \in Payloads /\ Complete(Now(p)) /\ Now(p).activities = Recent /\ Recent \subseteq Cases
    BY NowOK, RecentRows DEF IInv, Now, Payload
  <2>2. \A k \in Requests :
          /\ request'[k].at = request[k].at /\ request'[k].payload = request[k].payload
          /\ request'[k] \in Slots /\ (request[k].at # "free" => request'[k].stale)
    BY DEF IInv, RequestsOK, Slots
  <2>3. RequestsOK'
    <3>1. request' \in [Requests -> Slots]
      BY <2>2
    <3>. QED  BY <3>1 DEF IInv, RequestsOK, Slots
  <2>4. OneRequest'
    BY <2>2 DEF IInv, OneRequest
  <2>5. PageOK'
    <3>1. error' \in BOOLEAN /\ late' \in BOOLEAN
      BY Zenon
    <3>. QED  BY <2>1, <3>1 DEF IInv, PageOK
  <2>6. CountedOK'
    BY <2>1, <2>2 DEF IInv, CountedOK, Complete
  <2>7. AnnouncedStays'
    BY <2>1, <2>2 DEF AnnouncedStays
  <2>. QED  BY <2>3, <2>4, <2>5, <2>6, <2>7 DEF IInv
<1>. QED  BY <1>1, <1>2, <1>3
-------------------------------------------------------------------------------
LEMMA StepIInv == IInv /\ [Next]_vars => IInv'
  BY ScorerKeeps, AnswerKeeps, RefreshKeeps, ReceiveKeeps, PageKeeps DEF Next

LEMMA AlwaysIInv == Spec => []IInv
  BY InitIInv, StepIInv, PTL DEF Spec

\* Every variable stays within its type.
THEOREM TypeCorrect == Spec => []TypeOK
  BY AlwaysIInv, TypeParts, PTL

\* dashboard_overview counts all transactions first: whatever is stored between its
\* SELECTs can only make the difference smaller.
THEOREM ApprovedAreApproved == Spec => []ApprovedNotOvercounted
<1>1. IInv => ApprovedNotOvercounted
  <2>. SUFFICES ASSUME IInv PROVE ApprovedNotOvercounted
    OBVIOUS
  <2>. DEFINE total == shown.total
              flagged == shown.flagged
              approved == With(Scored, "APPROVE")
  <2>1. total \subseteq Scored /\ flagged \subseteq Scored /\ approved \subseteq Scored
    BY DEF IInv, PageOK, Payloads, With
  <2>2. IsFiniteSet(total) /\ IsFiniteSet(flagged) /\ IsFiniteSet(approved)
    BY <2>1, RowSets, FS_Subset DEF IInv
  <2>3. total \ flagged \subseteq approved
    BY <2>1, RowSets DEF IInv, CountedOK, Complete, Holds, With, Decisions
  <2>. HIDE DEF total, flagged, approved
  <2>4. Cardinality(total \ flagged) = Cardinality(total) - Cardinality(total \cap flagged)
    BY <2>2, FS_Difference
  <2>5. Cardinality(total \ flagged) <= Cardinality(approved)
    BY <2>2, <2>3, FS_Subset
  <2>6. Cardinality(total \cap flagged) <= Cardinality(flagged)
    BY <2>2, FS_Subset
  <2>7. /\ Cardinality(total) \in Nat /\ Cardinality(flagged) \in Nat
        /\ Cardinality(approved) \in Nat /\ Cardinality(total \cap flagged) \in Nat
    BY <2>2, FS_CardinalityType, FS_Subset
  <2>8. Cardinality(total) - Cardinality(flagged) <= Cardinality(approved)
    BY <2>4, <2>5, <2>6, <2>7
  <2>. QED  BY <2>8 DEF ApprovedNotOvercounted, total, flagged, approved
<1>. QED  BY <1>1, AlwaysIInv, PTL

\* diffNewActivities: with one request in flight at a time, what has left the list
\* of the last activities never looks new again.
THEOREM NothingAnnouncedTwice == Spec => []AnnouncedOnce
<1>1. IInv => AnnouncedOnce
  BY DEF IInv, AnnouncedOnce
<1>. QED  BY <1>1, AlwaysIInv, PTL

-------------------------------------------------------------------------------
(* The sweep. Every threshold of the grid has an f1 and a precision, and   *)
(* of finitely many one is the best.                                       *)

LEMMA GridFacts == /\ Grid # {} /\ IsFiniteSet(Grid)
                   /\ \A t \in Grid : t \in Nat /\ 10 <= t /\ t <= 95
<1>1. Grid # {} /\ \A t \in Grid : t \in Nat /\ 10 <= t /\ t <= 95
  BY DEF Grid
<1>2. IsFiniteSet(Grid)
  <2>1. Grid \in SUBSET Nat /\ 95 \in Nat /\ \A t \in Grid : t <= 95
    BY <1>1
  <2>. QED  BY <2>1, FS_BoundedSetOfNaturals
<1>. QED  BY <1>1, <1>2

LEMMA LeastOfGrid ==
  ASSUME NEW T, T \subseteq Grid, T # {} PROVE Min(T) \in T
<1>1. T \subseteq Nat
  BY GridFacts
<1>2. \E x \in T : \A y \in T : x <= y
  BY <1>1, LeastNumber
<1>. QED  BY <1>2 DEF Min

LEMMA GreatestOfGrid ==
  ASSUME NEW T, T \subseteq Grid, T # {} PROVE Max(T) \in T
<1>. DEFINE D == {100 - x : x \in T}
<1>1. \A x \in T : x \in Int /\ 100 - x \in Nat
  BY GridFacts
<1>2. D \subseteq Nat /\ D # {}
  BY <1>1
<1>3. PICK d \in D : \A y \in D : d <= y
  BY <1>2, LeastNumber
<1>4. PICK x \in T : d = 100 - x
  BY <1>3
<1>5. \A y \in T : x >= y
  <2>. SUFFICES ASSUME NEW y \in T PROVE x >= y
    OBVIOUS
  <2>1. 100 - x <= 100 - y
    BY <1>3, <1>4
  <2>. QED  BY <1>1, <2>1
<1>. QED  BY <1>4, <1>5 DEF Max

LEMMA SweepCounts ==
  ASSUME NEW sample, IsFiniteSet(sample), NEW t
  PROVE  /\ Caught(sample, t) \in Nat /\ Flagged(sample, t) \in Nat /\ Frauds(sample) \in Nat
         /\ Caught(sample, t) <= Frauds(sample)
<1>. DEFINE C == {x \in sample : x.p >= t /\ x.fraud}
            F == {x \in sample : x.p >= t}
            A == {x \in sample : x.fraud}
<1>1. IsFiniteSet(C) /\ IsFiniteSet(F) /\ IsFiniteSet(A)
  BY FS_Subset
<1>2. C \subseteq A
  OBVIOUS
<1>3. Cardinality(C) \in Nat /\ Cardinality(F) \in Nat /\ Cardinality(A) \in Nat
      /\ Cardinality(C) <= Cardinality(A)
  BY <1>1, <1>2, FS_CardinalityType, FS_Subset
<1>. QED  BY <1>3 DEF Caught, Flagged, Frauds

\* Fractions a / x with x > 0, compared crosswise, are ordered.
LEMMA CrosswiseTransitive ==
  ASSUME NEW a \in Nat, NEW b \in Nat, NEW c \in Nat,
         NEW x \in Nat \ {0}, NEW y \in Nat \ {0}, NEW z \in Nat \ {0},
         a * y >= b * x, b * z >= c * y
  PROVE  a * z >= c * x
<1>1. (a * y) * z >= (b * x) * z
  <2>. DEFINE m == a * y  n == b * x
  <2>1. m \in Nat /\ n \in Nat /\ m >= n
    OBVIOUS
  <2>. HIDE DEF m, n
  <2>2. m * z >= n * z
    BY <2>1
  <2>. QED  BY <2>2 DEF m, n
<1>2. (b * z) * x >= (c * y) * x
  <2>. DEFINE m == b * z  n == c * y
  <2>1. m \in Nat /\ n \in Nat /\ m >= n
    OBVIOUS
  <2>. HIDE DEF m, n
  <2>2. m * x >= n * x
    BY <2>1
  <2>. QED  BY <2>2 DEF m, n
<1>3. (a * z) * y >= (c * x) * y
  <2>1. (a * y) * z = (a * z) * y /\ (b * x) * z = (b * z) * x /\ (c * y) * x = (c * x) * y
    OBVIOUS
  <2>2. /\ (a * y) * z \in Nat /\ (b * x) * z \in Nat /\ (c * y) * x \in Nat
    OBVIOUS
  <2>. QED  BY <1>1, <1>2, <2>1, <2>2
<1>4. a * z \in Nat /\ c * x \in Nat
  OBVIOUS
<1>. DEFINE m == a * z  n == c * x
<1>. HIDE DEF m, n
<1>5. m \in Nat /\ n \in Nat /\ m * y >= n * y
  BY <1>3, <1>4 DEF m, n
<1>6. m >= n
  <2>. SUFFICES ASSUME m + 1 <= n PROVE FALSE
    BY <1>5
  <2>1. (m + 1) * y <= n * y
    BY <1>5
  <2>2. (m + 1) * y = m * y + y
    BY <1>5
  <2>. QED  BY <1>5, <2>1, <2>2
<1>. QED  BY <1>6 DEF m, n

\* Some threshold of the grid is best: by f1, and by precision.
LEMMA SomeBestF1 ==
  ASSUME NEW sample, IsFiniteSet(sample)
  PROVE  \E t \in Grid : \A u \in Grid : F1AtLeast(sample, t, u)
<1>. DEFINE c(t) == Caught(sample, t)
            f(t) == Flagged(sample, t) + Frauds(sample)
            R == {tu \in Grid \X Grid : F1AtLeast(sample, tu[1], tu[2])}
<1>1. \A t \in Grid : c(t) \in Nat /\ f(t) \in Nat /\ c(t) <= Frauds(sample) /\ f(t) >= Frauds(sample)
  BY SweepCounts
<1>2. Frauds(sample) \in Nat
  BY SweepCounts
<1>3. \A t, u \in Grid : F1AtLeast(sample, t, u) <=> c(t) * f(u) >= c(u) * f(t)
  BY DEF F1AtLeast
<1>. HIDE DEF c, f
<1>4. CASE Frauds(sample) = 0
  <2>1. \A t \in Grid : c(t) = 0
    BY <1>1, <1>4
  <2>2. \A t, u \in Grid : F1AtLeast(sample, t, u)
    BY <1>1, <1>3, <2>1
  <2>. QED  BY <2>2, GridFacts
<1>5. CASE Frauds(sample) # 0
  <2>1. \A t \in Grid : f(t) \in Nat \ {0}
    BY <1>1, <1>2, <1>5
  <2>2. \A t, u, v \in Grid : (F1AtLeast(sample, t, u) /\ F1AtLeast(sample, u, v)) => F1AtLeast(sample, t, v)
    BY <1>1, <1>3, <2>1, CrosswiseTransitive
  <2>3. \A t, u \in Grid : F1AtLeast(sample, t, u) \/ F1AtLeast(sample, u, t)
    <3>. SUFFICES ASSUME NEW t \in Grid, NEW u \in Grid
                  PROVE  F1AtLeast(sample, t, u) \/ F1AtLeast(sample, u, t)
      OBVIOUS
    <3>1. c(t) * f(u) \in Nat /\ c(u) * f(t) \in Nat
      BY <1>1
    <3>. QED  BY <1>3, <3>1
  <2>4. /\ \A t, u \in Grid : <<t, u>> \in R \/ <<u, t>> \in R
        /\ \A t, u, v \in Grid : <<t, u>> \in R /\ <<u, v>> \in R => <<t, v>> \in R
    BY <2>2, <2>3
  <2>. HIDE DEF R
  <2>5. \E t \in Grid : \A u \in Grid : <<t, u>> \in R
    BY <2>4, GridFacts, SomeComesFirst
  <2>. QED  BY <2>5 DEF R
<1>. QED  BY <1>4, <1>5

LEMMA SomeBestPrecision ==
  ASSUME NEW sample, IsFiniteSet(sample)
  PROVE  \E t \in Grid : \A u \in Grid : PrecisionAtLeast(sample, t, u)
<1>. DEFINE c(t) == Caught(sample, t)
            f(t) == Larger(1, Flagged(sample, t))
            R == {tu \in Grid \X Grid : PrecisionAtLeast(sample, tu[1], tu[2])}
<1>1. \A t \in Grid : c(t) \in Nat /\ f(t) \in Nat \ {0}
  BY SweepCounts DEF Larger
<1>2. \A t, u \in Grid : PrecisionAtLeast(sample, t, u) <=> c(t) * f(u) >= c(u) * f(t)
  BY DEF PrecisionAtLeast
<1>. HIDE DEF c, f
<1>3. \A t, u, v \in Grid :
        (PrecisionAtLeast(sample, t, u) /\ PrecisionAtLeast(sample, u, v)) => PrecisionAtLeast(sample, t, v)
  BY <1>1, <1>2, CrosswiseTransitive
<1>4. \A t, u \in Grid : PrecisionAtLeast(sample, t, u) \/ PrecisionAtLeast(sample, u, t)
  <2>. SUFFICES ASSUME NEW t \in Grid, NEW u \in Grid
                PROVE  PrecisionAtLeast(sample, t, u) \/ PrecisionAtLeast(sample, u, t)
    OBVIOUS
  <2>1. c(t) * f(u) \in Nat /\ c(u) * f(t) \in Nat
    BY <1>1
  <2>. QED  BY <1>2, <2>1
<1>5. /\ \A t, u \in Grid : <<t, u>> \in R \/ <<u, t>> \in R
      /\ \A t, u, v \in Grid : <<t, u>> \in R /\ <<u, v>> \in R => <<t, v>> \in R
  BY <1>3, <1>4
<1>. HIDE DEF R
<1>6. \E t \in Grid : \A u \in Grid : <<t, u>> \in R
  BY <1>5, GridFacts, SomeComesFirst
<1>. QED  BY <1>6 DEF R

LEMMA SweptFromGrid ==
  ASSUME NEW sample, IsFiniteSet(sample)
  PROVE  BestF1(sample) \in Grid /\ BestPrecision(sample) \in Grid
<1>1. BestF1(sample) \in Grid
  BY SomeBestF1, LeastOfGrid DEF BestF1
<1>2. BestPrecision(sample) \in Grid
  <2>. DEFINE precise == {t \in Grid : 100 * Caught(sample, t) >= Larger(1, 85 * Flagged(sample, t))}
              best == {t \in Grid : \A u \in Grid : PrecisionAtLeast(sample, t, u)}
  <2>1. best # {} /\ best \subseteq Grid /\ precise \subseteq Grid
    BY SomeBestPrecision
  <2>2. BestPrecision(sample) = IF precise # {} THEN Max(precise) ELSE Min(best)
    BY DEF BestPrecision
  <2>. HIDE DEF precise, best
  <2>3. precise # {} => Max(precise) \in precise
    BY <2>1, GreatestOfGrid
  <2>4. Min(best) \in best
    BY <2>1, LeastOfGrid
  <2>. QED  BY <2>1, <2>2, <2>3, <2>4
<1>. QED  BY <1>1, <1>2

\* _threshold_sweep, whatever the sample: the review threshold is one of the grid, and
\* the block threshold leaves it at least four percent of room.
THEOREM SweepKeepsApart ==
  ASSUME NEW sample, IsFiniteSet(sample) PROVE Apart(Sweep(sample))
<1>. DEFINE review == BestF1(sample)
            precise == BestPrecision(sample)
<1>1. review \in Grid /\ precise \in Grid
  BY SweptFromGrid
<1>2. Sweep(sample) = [review |-> review, block |-> AtMost(99, Larger(review + 10, precise))]
  BY DEF Sweep
<1>. HIDE DEF review, precise
<1>. QED  BY <1>1, <1>2, GridFacts DEF Apart, AtMost, Larger

\* A model in use was trained, and its thresholds were swept.
THEOREM LoadedApart == Spec => []ThresholdsApart
<1>1. IInv => ThresholdsApart
  BY SweepKeepsApart, ScoringAssumption DEF IInv, ScoringOK, Learnable, ThresholdsApart
<1>. QED  BY <1>1, AlwaysIInv, PTL
-------------------------------------------------------------------------------
(* The weight of the hits is a sum over the rules.                         *)

Weight(r) == SeverityWeight[Severity[r]] + ScoreDelta[r] \div 4
Part(hits, r) == IF r \in hits THEN Weight(r) ELSE 0
Total(hits) == Part(hits, "impossible_travel") + Part(hits, "very_high_velocity")
               + Part(hits, "repeated_small_amount_card_testing")
               + Part(hits, "high_amount_on_new_device") + Part(hits, "blacklist_hit")
               + Part(hits, "risky_geo_combo")

LEMMA RulesAre ==
  Rules = {"impossible_travel", "very_high_velocity", "repeated_small_amount_card_testing",
           "high_amount_on_new_device", "blacklist_hit", "risky_geo_combo"}
  BY DEF Rules, Severity

LEMMA RulesFinite == IsFiniteSet(Rules)
<1>. DEFINE A == {"impossible_travel"} \cup {"very_high_velocity"}
            B == A \cup {"repeated_small_amount_card_testing"}
            C == B \cup {"high_amount_on_new_device"}
            D == C \cup {"blacklist_hit"}
            E == D \cup {"risky_geo_combo"}
<1>1. \A S, r : IsFiniteSet(S) => IsFiniteSet(S \cup {r})
  BY FS_AddElement
<1>2. IsFiniteSet({"impossible_travel"})
  BY FS_Singleton
<1>3. Rules = E
  BY RulesAre
<1>. HIDE DEF A, B, C, D, E
<1>4. IsFiniteSet(A) /\ IsFiniteSet(B) /\ IsFiniteSet(C)
  BY <1>1, <1>2 DEF A, B, C
<1>5. IsFiniteSet(D) /\ IsFiniteSet(E)
  BY <1>1, <1>4 DEF D, E
<1>. QED  BY <1>3, <1>5

LEMMA Weights == \A r \in Rules : Weight(r) \in Nat
  BY RulesAre DEF Weight, Severity, ScoreDelta, SeverityWeight

LEMMA TotalAdds ==
  ASSUME NEW hits, hits \subseteq Rules, NEW r \in hits
  PROVE  Total(hits) = Weight(r) + Total(hits \ {r})
  BY RulesAre, Weights DEF Total, Part

LEMMA RuleWeightIsTotal == ASSUME NEW hits, hits \subseteq Rules PROVE RuleWeight(hits) = Total(hits)
<1>. DEFINE Sum(g, s) == IF s = {} THEN 0
                         ELSE LET x == CHOOSE x \in s : TRUE IN Weight(x) + g[s \ {x}]
            g == CHOOSE g : g = [s \in SUBSET hits |-> Sum(g, s)]
<1>1. RuleWeight(hits) = g[hits]
  BY DEF RuleWeight, MapThenSumSet, MapThenFoldSet, Weight
<1>. DEFINE G == [s \in SUBSET hits |-> Total(s)]
<1>2. G = [s \in SUBSET hits |-> Sum(G, s)]
  <2>. SUFFICES ASSUME NEW s \in SUBSET hits PROVE Total(s) = Sum(G, s)
    BY Zenon
  <2>1. CASE s = {}
    BY <2>1 DEF Total, Part
  <2>2. CASE s # {}
    <3>. DEFINE x == CHOOSE x \in s : TRUE
    <3>1. x \in s
      BY <2>2
    <3>2. Sum(G, s) = Weight(x) + G[s \ {x}] /\ G[s \ {x}] = Total(s \ {x})
      BY <2>2
    <3>3. Total(s) = Weight(x) + Total(s \ {x})
      <4>. HIDE DEF x
      <4>. QED  BY <3>1, TotalAdds
    <3>. QED  BY <3>2, <3>3
  <2>. QED  BY <2>1, <2>2
<1>3. g = [s \in SUBSET hits |-> Sum(g, s)]
  BY <1>2
<1>. HIDE DEF g
<1>. DEFINE T == {s \in SUBSET hits : g[s] # Total(s)}
<1>4. T = {}
  <2>. SUFFICES ASSUME T # {} PROVE FALSE
    OBVIOUS
  <2>1. IsFiniteSet(hits)
    BY RulesFinite, FS_Subset
  <2>2. PICK s \in T : \A y \in T : y \subseteq s => y = s
    <3>. HIDE DEF T
    <3>1. T \subseteq SUBSET hits
      BY DEF T
    <3>. QED  BY <2>1, <3>1, LeastSubset
  <2>3. g[s] = Sum(g, s)
    BY <1>3, <2>2
  <2>4. CASE s = {}
    BY <2>2, <2>3, <2>4 DEF Total, Part
  <2>5. CASE s # {}
    <3>. DEFINE x == CHOOSE x \in s : TRUE
    <3>1. x \in s
      BY <2>5
    <3>2. g[s] = Weight(x) + g[s \ {x}]
      BY <2>3, <2>5
    <3>. HIDE DEF x
    <3>3. g[s \ {x}] = Total(s \ {x})
      BY <2>2, <3>1
    <3>4. Total(s) = Weight(x) + Total(s \ {x})
      BY <2>2, <3>1, TotalAdds
    <3>. QED  BY <2>2, <3>2, <3>3, <3>4
  <2>. QED  BY <2>4, <2>5
<1>. QED  BY <1>1, <1>4

\* More hits weigh at least as much.
LEMMA WeightGrows ==
  ASSUME NEW hits, NEW more, hits \subseteq more, more \subseteq Rules
  PROVE  RuleWeight(hits) \in Nat /\ RuleWeight(more) \in Nat /\ RuleWeight(hits) <= RuleWeight(more)
<1>1. \A r \in Rules : /\ Part(hits, r) \in Nat /\ Part(more, r) \in Nat
                        /\ Part(hits, r) <= Part(more, r)
  BY Weights DEF Part
<1>2. Total(hits) \in Nat /\ Total(more) \in Nat /\ Total(hits) <= Total(more)
  BY <1>1, RulesAre DEF Total
<1>. QED  BY <1>2, RuleWeightIsTotal

\* combine_model_and_rules is monotone, for every weight and every pair of thresholds,
\* in whichever order they are: a higher probability, a greater weight or more
\* severities are never decided milder.
THEOREM GraverEvidence ==
  ASSUME NEW p \in Nat, NEW q \in Nat, p <= q,
         NEW v \in Nat, NEW w \in Nat, v <= w,
         NEW S, NEW T, S \subseteq T,
         NEW t \in [review : Int, block : Int]
  PROVE  Rank(Combine(p, v, S, t)) <= Rank(Combine(q, w, T, t))
<1>1. AtMost(3500, v) <= AtMost(3500, w) /\ AtMost(3500, v) \in Nat /\ AtMost(3500, w) \in Nat
  BY DEF AtMost
<1>2. FinalScore(p, v) <= FinalScore(q, w) /\ FinalScore(p, v) \in Nat /\ FinalScore(q, w) \in Nat
  BY <1>1 DEF FinalScore, AtMost
<1>3. /\ FinalScore(p, v) >= 100 * t.block => FinalScore(q, w) >= 100 * t.block
      /\ FinalScore(p, v) >= 100 * t.review => FinalScore(q, w) >= 100 * t.review
  BY <1>2
<1>4. Rank("APPROVE") = 0 /\ Rank("REVIEW") = 1 /\ Rank("BLOCK") = 2
  BY DEF Rank
<1>. QED  BY <1>3, <1>4 DEF Combine

\* The rules, their weights and the thresholds of a training: with a higher
\* probability or more hits the decision is never milder.
THEOREM MoreEvidenceNeverMilder == Spec => []DecisionMonotone
<1>1. ASSUME NEW t \in Learnable PROVE t \in [review : Int, block : Int]
  <2>1. PICK s \in Samples : t = Sweep(s)
    BY DEF Learnable
  <2>2. BestF1(s) \in Grid /\ BestPrecision(s) \in Grid
    BY <2>1, ScoringAssumption, SweptFromGrid
  <2>3. BestF1(s) \in Int /\ BestPrecision(s) \in Int
    BY <2>2, GridFacts
  <2>. QED  BY <2>1, <2>3 DEF Sweep, AtMost, Larger
<1>2. ASSUME NEW t \in Learnable, NEW p \in Probabilities, NEW q \in Probabilities,
             NEW hits \in HitSets, NEW more \in HitSets, p <= q, hits \subseteq more
      PROVE  Rank(Decide(p, hits, t)) <= Rank(Decide(q, more, t))
  <2>1. more \subseteq Rules
    BY DEF HitSets, Evaluate
  <2>2. /\ RuleWeight(hits) \in Nat /\ RuleWeight(more) \in Nat
        /\ RuleWeight(hits) <= RuleWeight(more)
    BY <1>2, <2>1, WeightGrows
  <2>3. Severities(hits) \subseteq Severities(more)
    BY <1>2 DEF Severities
  <2>4. p \in Nat /\ q \in Nat
    BY ScoringAssumption
  <2>. QED  BY <1>1, <1>2, <2>2, <2>3, <2>4, GraverEvidence DEF Decide
<1>3. IInv => DecisionMonotone
  BY <1>2 DEF IInv, ScoringOK, DecisionMonotone, Orderly, Graver
<1>. QED  BY <1>3, AlwaysIInv, PTL
===============================================================================
