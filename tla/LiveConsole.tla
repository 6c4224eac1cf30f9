------------------------------ MODULE LiveConsole ------------------------------
(***************************************************************************)
(* A live page of the analyst console. Scorers store decisions; the API    *)
(* answers a poll with several SELECTs, each of which sees what is         *)
(* committed by then; the hook useLiveResource polls one request at a time *)
(* and announces what is new in an answer; following a pagination link     *)
(* gives the same hook other initial data, whatever it has in flight.      *)
(* The worker decides with the thresholds of the model it has loaded.      *)
(***************************************************************************)
EXTENDS Decisioning, Sequences

CONSTANTS Paths, Home,   \* the queries a page can be at, and the one it starts from
          MaxRequests,   \* bound on the requests in flight
          MaxDecisions,  \* bound on the decisions ever taken
          ActivityLimit, \* activity_limit of the query
          Samples,       \* what the threshold sweep of a training can be given
          Probabilities, Observations  \* what a transaction can be scored with

ASSUME ConsoleAssumption == Home \in Paths /\ MaxRequests \in Nat /\ MaxDecisions \in Nat /\ ActivityLimit \in Nat \ {0}
ASSUME ScoringAssumption == Probabilities \subseteq 0..100 /\ \A s \in Samples : IsFiniteSet(s)

VARIABLES
  thresholds, \* of the model in use
  verdict,    \* the decisions taken, in the order of decision_time
  rows,       \* how far each is stored: nothing, the scored row, the decision row too
  path,       \* what the page is at
  shown,      \* data and latestData of the hook
  error,      \* an error is shown
  liveMode,
  inFlight,   \* the hook's flag
  request,    \* of each request: where it is, its path, what it has read
  announced,  \* history: shown with the page or announced since it came
  late,       \* history: an answer to an earlier page was shown on this one
  repeated    \* history: something was announced again though none was

scoring == <<thresholds, verdict, rows>>
page == <<path, shown, error, announced, late, repeated>>
vars == <<scoring, page, liveMode, inFlight, request>>

Decided == 1..Len(verdict)
Scored == {d \in Decided : rows[d] >= 1}   \* rows of transactions_scored
Cases == {d \in Decided : rows[d] = 2}     \* rows of fraud_decisions
With(S, v) == {d \in S : verdict[d] = v}

\* Variant: transactions are listed, decided or not.
RecentScored == {d \in Scored : Cardinality({c \in Scored : c > d}) < ActivityLimit}

\* recent_activity: the last ones by decision_time.
Recent == {d \in Cases : Cardinality({c \in Cases : c > d}) < ActivityLimit}

\* The rows each SELECT of an answer has counted or listed.
Payload(p, total, flagged, activities) ==
  [path |-> p, total |-> total, flagged |-> flagged, activities |-> activities]
Now(p) == Payload(p, Scored, With(Scored, "BLOCK") \cup With(Scored, "REVIEW"), Recent)
Blank(p) == Payload(p, {}, {}, {})

Learnable == {Sweep(s) : s \in Samples}
HitSets == {Evaluate(o) : o \in Observations}
Verdicts == [t \in Learnable |-> {Decide(p, hits, t) : p \in Probabilities, hits \in HitSets}]

Requests == 1..MaxRequests
Free == [at |-> "free", payload |-> Blank(Home), stale |-> FALSE]

Init == /\ thresholds \in Learnable
        /\ verdict = <<>> /\ rows = [d \in 1..MaxDecisions |-> 0]
        /\ path = Home /\ shown = Blank(Home) /\ error = FALSE /\ liveMode = TRUE
        /\ inFlight = FALSE /\ request = [k \in Requests |-> Free]
        /\ announced = {} /\ late = FALSE /\ repeated = FALSE
-------------------------------------------------------------------------------
(* The scorers.                                                            *)

LoadModel == /\ thresholds' \in Learnable
             /\ UNCHANGED <<verdict, rows, page, liveMode, inFlight, request>>

Score == /\ Len(verdict) < MaxDecisions
         /\ \E v \in Verdicts[thresholds] : verdict' = Append(verdict, v)
         /\ UNCHANGED <<thresholds, rows, page, liveMode, inFlight, request>>

\* The scored row, then the decision row; two scorers commit in any order.
Commit(d) == /\ d \in Decided /\ rows[d] < 2
             /\ rows' = [rows EXCEPT ![d] = @ + 1]
             /\ UNCHANGED <<thresholds, verdict, page, liveMode, inFlight, request>>
-------------------------------------------------------------------------------
(* The API: dashboard_overview counts all, BLOCK and REVIEW; then come the *)
(* activities. approved_transactions is what the three counts leave.       *)

Moves(k, from, to) == request[k].at = from /\ request' = [request EXCEPT ![k] = to]
Aside == UNCHANGED <<scoring, page, liveMode, inFlight>>

CountAll(k) == Moves(k, "asked", [request[k] EXCEPT !.at = "total", !.payload.total = Scored]) /\ Aside
CountBlocked(k) ==
  Moves(k, "total", [request[k] EXCEPT !.at = "blocked", !.payload.flagged = With(Scored, "BLOCK")])
  /\ Aside

\* Variant: all is counted with the last.
CountAllLast(k) ==
  Moves(k, "blocked", [request[k] EXCEPT !.at = "counted", !.payload.flagged = @ \cup With(Scored, "REVIEW"),
                                         !.payload.total = Scored])
  /\ Aside

CountReview(k) ==
  Moves(k, "blocked", [request[k] EXCEPT !.at = "counted", !.payload.flagged = @ \cup With(Scored, "REVIEW")])
  /\ Aside
List(k) == Moves(k, "counted", [request[k] EXCEPT !.at = "answered", !.payload.activities = Recent])
           /\ Aside

Answer(k) == CountAll(k) \/ CountBlocked(k) \/ CountReview(k) \/ List(k)
-------------------------------------------------------------------------------
(* useLiveResource.                                                        *)

\* The interval or the button; with a request in flight it does nothing.
Refresh(k) == /\ ~inFlight /\ inFlight' = TRUE
              /\ \A j \in Requests : j < k => request[j].at # "free"
              /\ Moves(k, "free", [Free EXCEPT !.at = "asked", !.payload.path = path])
              /\ UNCHANGED <<scoring, page, liveMode>>

\* Variant: what was shown is not looked at.
NewAll(payload) == {d \in payload.activities : verdict[d] # "APPROVE"}

\* diffNewActivities and toastableActivities, between what was shown and an answer.
New(payload) == {d \in payload.activities \ shown.activities : verdict[d] # "APPROVE"}

Show(payload, stale) ==
  /\ shown' = payload /\ error' = FALSE
  /\ announced' = announced \cup New(payload)
  /\ late' = (late \/ stale)
  /\ repeated' = (repeated \/ (~late' /\ New(payload) \cap announced # {}))
  /\ UNCHANGED path

\* Variant: the flag is lowered by errors only.
ReceiveKeepsFlag(k) == /\ Moves(k, "answered", Free)
                       /\ Show(request[k].payload, request[k].stale)
                       /\ UNCHANGED <<scoring, liveMode, inFlight>>

\* The answer is shown, whichever path it was asked for and also when frozen.
Receive(k) == /\ Moves(k, "answered", Free)
              /\ Show(request[k].payload, request[k].stale)
              /\ inFlight' = FALSE
              /\ UNCHANGED <<scoring, liveMode>>

Fail(k) == /\ request[k].at # "free"
           /\ request' = [request EXCEPT ![k] = Free]
           /\ error' = TRUE /\ inFlight' = FALSE
           /\ UNCHANGED <<scoring, path, shown, announced, late, repeated, liveMode>>

Toggle == /\ liveMode' = ~liveMode
          /\ UNCHANGED <<scoring, page, inFlight, request>>

\* A link to another query is followed: the page comes with what the server has read,
\* and its hook, still mounted, starts from that. What is in flight stays in flight.
Follow(p) ==
  /\ p # path /\ path' = p
  /\ shown' = Now(p) /\ announced' = Recent /\ error' = FALSE /\ late' = FALSE
  /\ request' = [k \in Requests |-> [request[k] EXCEPT !.stale = (@ \/ request[k].at # "free")]]
  /\ UNCHANGED <<scoring, repeated, liveMode, inFlight>>
-------------------------------------------------------------------------------
Next == \/ LoadModel \/ Score \/ \E d \in 1..MaxDecisions : Commit(d)
        \/ \E k \in Requests : Answer(k) \/ Refresh(k) \/ Receive(k) \/ Fail(k)
        \/ Toggle \/ \E p \in Paths : Follow(p)

\* The interval fires in live mode, the API answers, the browser runs the callback.
Poll == liveMode /\ \E k \in Requests : Refresh(k)
Spec == /\ Init /\ [][Next]_vars
        /\ WF_vars(Poll) /\ \A k \in Requests : WF_vars(Answer(k) \/ Receive(k))
-------------------------------------------------------------------------------
Payloads == [path : Paths, total : SUBSET Scored,
             flagged : SUBSET (Scored \ With(Scored, "APPROVE")), activities : SUBSET Cases]

TypeOK ==
  /\ verdict \in Seq(Decisions) /\ Len(verdict) <= MaxDecisions
  /\ rows \in [1..MaxDecisions -> 0..2] /\ \A d \in 1..MaxDecisions : rows[d] > 0 => d \in Decided
  /\ path \in Paths /\ shown \in Payloads
  /\ error \in BOOLEAN /\ liveMode \in BOOLEAN /\ inFlight \in BOOLEAN
  /\ request \in [Requests -> [at : {"free", "asked", "total", "blocked", "counted", "answered"},
                               payload : Payloads, stale : BOOLEAN]]
  /\ announced \subseteq Cases /\ late \in BOOLEAN /\ repeated \in BOOLEAN

\* What the page shows as approved was approved: a transaction that is blocked or
\* put to review while the API counts is never taken for an approved one. (The
\* other way round it can be short of some, even negative.)
ApprovedNotOvercounted ==
  Cardinality(shown.total) - Cardinality(shown.flagged) <= Cardinality(With(Scored, "APPROVE"))

\* While a page stays, and no answer to an earlier page has come late, nothing is
\* announced that came with the page or was announced before, though scorers store
\* decisions in another order than they took them.
AnnouncedOnce == ~repeated

\* In live mode the page catches up with what is stored for its own query, or
\* shows an error.
Behind == shown.path # path \/ shown.total # Scored
CatchesUp == (liveMode /\ Behind) ~> (~Behind \/ error \/ ~liveMode)

\* However the sweep comes out, there is room for REVIEW below the block threshold.
Apart(t) == t.review \in Grid /\ t.review + 4 <= t.block /\ t.block <= 99
ThresholdsApart == Apart(thresholds)

\* More evidence is never decided milder: with the thresholds in use, a probability
\* at least as high and the same or more rule hits have the same or a graver decision.
Graver(t) == \A p, q \in Probabilities : \A hits, more \in HitSets :
               (p <= q /\ hits \subseteq more)
                 => Rank(Decide(p, hits, t)) <= Rank(Decide(q, more, t))
Orderly == {t \in Learnable : Graver(t)}
DecisionMonotone == thresholds \in Orderly
===============================================================================
