---------------------------- MODULE StreamPipeline ----------------------------
(***************************************************************************)
(* The scoring pipeline: the Bytewax worker that consumes tx.raw, and the  *)
(* API processes whose POST /predict runs the same FraudStreamProcessor    *)
(* against the same Redis and PostgreSQL. The claim key in Redis is the    *)
(* only thing the two sides share to avoid deciding an event twice.        *)
(*                                                                         *)
(* Each remote call of the handlers is one step, so every interleaving of  *)
(* the processes, a failure of each call (with the effect applied or not)  *)
(* and the death of a process between any two calls are behaviours here.   *)
(***************************************************************************)
EXTENDS Integers, Sequences, FiniteSets

CONSTANTS
  Events,      \* well-formed events, named by their event_id
  Rejected,    \* those that normalize() refuses (e.g. amount <= 0)
  Malformed,   \* payloads of tx.raw that do not parse as a TransactionEvent
  ApiProcs,    \* API processes; each serves one /predict at a time
  Worker,      \* the thread that runs the dataflow
  NoEvent,     \* no event in hand
  NoOne,       \* no claim key in Redis
  MaxRaw,      \* bound on the length of tx.raw
  MaxFaults,   \* bound on the calls that fail
  MaxCrashes   \* bound on the processes that die

ASSUME RejectedAssumption == Rejected \subseteq Events
ASSUME PayloadAssumption == /\ Events \cap Malformed = {}
                            /\ NoEvent \notin Events \cup Malformed
ASSUME ActorAssumption == /\ Worker \notin ApiProcs
                          /\ NoOne \notin ApiProcs \cup {Worker}

VARIABLES
  raw,         \* the tx.raw topic
  offset,      \* how many messages of tx.raw the worker has consumed
  pc,          \* the next call of each actor
  job,         \* the event each actor has in hand
  claimedBy,   \* event:processed:{event_id}; who set it is recorded for the proofs
  rows,        \* rows per event and store, and feature updates per event
  outbox,      \* output of the current batch, not yet handed to the Kafka sink
  published,   \* messages on the output topics
  answers,     \* status codes /predict has answered for each event
  faults, crashes

kafka == <<raw, published>>
batch == <<offset, outbox>>
actors == <<pc, job>>
budget == <<faults, crashes>>
vars == <<kafka, batch, actors, claimedBy, rows, answers, budget>>

Actors == ApiProcs \cup {Worker}
Payloads == Events \cup Malformed

\* The writes of persist_bundle, in order: three committed transactions and
\* the feature update in Redis.
Stores == {"raw", "scored", "decision", "features"}
NextCall == [raw |-> "scored", scored |-> "decision", decision |-> "features"]

\* Calls made while holding the claim on an event.
Busy == {"enrich"} \cup Stores
Calls == {"idle", "claim", "sink", "down"} \cup Busy

BundleTopics == {"validated", "enriched", "scored", "decisions"}
DlqStages == {"validation", "processing", "kafka_source"}
Messages == [kind : BundleTopics \cup DlqStages, about : Payloads \cup {NoEvent}]

Msg(kind, about) == [kind |-> kind, about |-> about]
BundleMessages(e) == {Msg(t, e) : t \in BundleTopics}

HasEvent(a, e) == job[a] = e /\ pc[a] \in Busy
InFlight(e) == \E a \in Actors : HasEvent(a, e)
Complete(e) == \A s \in Stores : rows[e][s] > 0

Init == /\ raw = <<>> /\ offset = 0
        /\ pc = [a \in Actors |-> "idle"]
        /\ job = [a \in Actors |-> NoEvent]
        /\ claimedBy = [e \in Events |-> NoOne]
        /\ rows = [e \in Events |-> [s \in Stores |-> 0]]
        /\ outbox = {} /\ published = {}
        /\ answers = [e \in Events |-> {}]
        /\ faults = 0 /\ crashes = 0

Fault == faults < MaxFaults /\ faults' = faults + 1
Crash == crashes < MaxCrashes /\ crashes' = crashes + 1
-------------------------------------------------------------------------------
(* How a handler returns.                                                  *)

Rest(a) == /\ pc' = [pc EXCEPT ![a] = "idle"]
           /\ job' = [job EXCEPT ![a] = NoEvent]

\* process_payload returns its messages; Bytewax collects them for the batch.
Emit(msgs) == /\ outbox' = outbox \cup msgs
              /\ offset' = offset + 1
              /\ Rest(Worker)
              /\ UNCHANGED answers

\* The response of /predict.
Answer(p, code) == /\ answers' = [answers EXCEPT ![job[p]] = @ \cup {code}]
                   /\ Rest(p)
                   /\ UNCHANGED batch

\* An exception escaped into the dataflow, or the process was killed: the
\* thread ends and the output it had collected is gone.
Die == /\ pc' = [pc EXCEPT ![Worker] = "down"]
       /\ job' = [job EXCEPT ![Worker] = NoEvent]
       /\ outbox' = {}
       /\ UNCHANGED <<offset, answers>>
-------------------------------------------------------------------------------
(* The two entry points.                                                   *)

Produce(m) == /\ Len(raw) < MaxRaw
              /\ raw' = Append(raw, m)
              /\ UNCHANGED <<published, batch, actors, claimedBy, rows, answers, budget>>

\* A payload that does not parse is dead-lettered before any claim.
ConsumeMalformed ==
  /\ pc[Worker] = "idle" /\ offset < Len(raw)
  /\ raw[offset + 1] \in Malformed
  /\ Emit({Msg("validation", raw[offset + 1])})
  /\ UNCHANGED <<kafka, claimedBy, rows, budget>>

Consume ==
  /\ pc[Worker] = "idle" /\ offset < Len(raw)
  /\ raw[offset + 1] \in Events
  /\ pc' = [pc EXCEPT ![Worker] = "claim"]
  /\ job' = [job EXCEPT ![Worker] = raw[offset + 1]]
  /\ UNCHANGED <<kafka, batch, claimedBy, rows, answers, budget>>

SourceError ==
  /\ pc[Worker] = "idle" /\ Fault
  /\ outbox' = outbox \cup {Msg("kafka_source", NoEvent)}
  /\ UNCHANGED <<kafka, offset, actors, claimedBy, rows, answers, crashes>>

Predict(p, e) ==
  /\ pc[p] = "idle"
  /\ pc' = [pc EXCEPT ![p] = "claim"]
  /\ job' = [job EXCEPT ![p] = e]
  /\ UNCHANGED <<kafka, batch, claimedBy, rows, answers, budget>>
-------------------------------------------------------------------------------
(* claim_event: SET event:processed:{id} NX.                               *)

\* Variant: SET without NX.
ClaimOverwrites(a) ==
  /\ pc[a] = "claim"
  /\ claimedBy' = [claimedBy EXCEPT ![job[a]] = a]
  /\ pc' = [pc EXCEPT ![a] = "enrich"]
  /\ UNCHANGED <<kafka, batch, job, rows, answers, budget>>

Claim(a) ==
  /\ pc[a] = "claim" /\ claimedBy[job[a]] = NoOne
  /\ claimedBy' = [claimedBy EXCEPT ![job[a]] = a]
  /\ pc' = [pc EXCEPT ![a] = "enrich"]
  /\ UNCHANGED <<kafka, batch, job, rows, answers, budget>>

\* Variant: a redelivered event has its messages sent again.
DuplicateResends(a) ==
  /\ pc[a] = "claim" /\ claimedBy[job[a]] # NoOne
  /\ IF a = Worker THEN Emit(BundleMessages(job[a])) ELSE Answer(a, 409)
  /\ UNCHANGED <<kafka, claimedBy, rows, budget>>

\* The key exists: the worker drops the message, /predict answers 409.
Duplicate(a) ==
  /\ pc[a] = "claim" /\ claimedBy[job[a]] # NoOne
  /\ IF a = Worker THEN Emit({}) ELSE Answer(a, 409)
  /\ UNCHANGED <<kafka, claimedBy, rows, budget>>

\* Variant: without an answer from Redis the event is taken as unclaimed.
ClaimFailsOpen(a) ==
  /\ pc[a] = "claim" /\ Fault
  /\ pc' = [pc EXCEPT ![a] = "enrich"]
  /\ UNCHANGED <<kafka, batch, job, claimedBy, rows, answers, crashes>>

\* Redis fails, before or after setting the key. The call is outside the try
\* of process_payload, so the dataflow dies; /predict answers 500.
ClaimFails(a) ==
  /\ pc[a] = "claim" /\ Fault
  /\ \/ UNCHANGED claimedBy
     \/ /\ claimedBy[job[a]] = NoOne
        /\ claimedBy' = [claimedBy EXCEPT ![job[a]] = a]
  /\ IF a = Worker THEN Die ELSE Answer(a, 500)
  /\ UNCHANGED <<kafka, rows, crashes>>
-------------------------------------------------------------------------------
(* process_event and persist_bundle.                                       *)

\* normalize, get_context, rules and model succeed.
ProcessEvent(a) ==
  /\ pc[a] = "enrich" /\ job[a] \notin Rejected
  /\ pc' = [pc EXCEPT ![a] = "raw"]
  /\ UNCHANGED <<kafka, batch, job, claimedBy, rows, answers, budget>>

Written(e, s) == [rows EXCEPT ![e][s] = @ + 1]

Save(a, s) ==
  /\ s \in DOMAIN NextCall /\ pc[a] = s
  /\ rows' = Written(job[a], s)
  /\ pc' = [pc EXCEPT ![a] = NextCall[s]]
  /\ UNCHANGED <<kafka, batch, job, claimedBy, answers, budget>>

\* The last write; then the worker returns the four messages of the bundle and
\* /predict its response.
UpdateState(a) ==
  /\ pc[a] = "features"
  /\ rows' = Written(job[a], "features")
  /\ IF a = Worker THEN Emit(BundleMessages(job[a])) ELSE Answer(a, 200)
  /\ UNCHANGED <<kafka, claimedBy, budget>>

\* Variants: a failure to persist is swallowed; the bundle is sent all the same.
GiveUpSilently(a) == IF a = Worker THEN Emit(BundleMessages(job[a])) ELSE Answer(a, 200)
GiveUpTwice(a) == IF a = Worker
                  THEN Emit(BundleMessages(job[a]) \cup {Msg("processing", job[a])})
                  ELSE Answer(a, 500)

\* A failed attempt keeps its claim and whatever rows it has committed. Only
\* the worker dead-letters it; /predict has no handler and answers 500.
GiveUp(a) == IF a = Worker THEN Emit({Msg("processing", job[a])}) ELSE Answer(a, 500)

RejectEvent(a) ==
  /\ pc[a] = "enrich" /\ job[a] \in Rejected
  /\ GiveUp(a)
  /\ UNCHANGED <<kafka, claimedBy, rows, budget>>

\* Variant: a failed attempt gives its claim back, so that it can be retried.
CallFailsAndReleases(a) ==
  /\ pc[a] \in Busy /\ Fault
  /\ claimedBy' = [claimedBy EXCEPT ![job[a]] = NoOne]
  /\ GiveUp(a)
  /\ UNCHANGED <<kafka, rows, crashes>>

\* Any call made under the claim raises. A write may have been applied by a
\* server whose reply was lost.
CallFails(a) ==
  /\ pc[a] \in Busy /\ Fault
  /\ \/ UNCHANGED rows
     \/ pc[a] \in Stores /\ rows' = Written(job[a], pc[a])
  /\ GiveUp(a)
  /\ UNCHANGED <<kafka, claimedBy, crashes>>
-------------------------------------------------------------------------------
(* The Kafka sink, restarts and crashes.                                   *)

\* The batch ends. Its size (at most 200) is that of the poll, so it may end
\* after any message.
EndBatch ==
  /\ pc[Worker] = "idle" /\ outbox # {}
  /\ pc' = [pc EXCEPT ![Worker] = "sink"]
  /\ UNCHANGED <<kafka, batch, job, claimedBy, rows, answers, budget>>

\* Messages to different topics reach their brokers in any order.
Deliver(m) ==
  /\ pc[Worker] = "sink" /\ m \in outbox
  /\ outbox' = outbox \ {m}
  /\ published' = published \cup {m}
  /\ pc' = [pc EXCEPT ![Worker] = IF outbox' = {} THEN "idle" ELSE "sink"]
  /\ UNCHANGED <<raw, offset, job, claimedBy, rows, answers, budget>>

WorkerCrash ==
  /\ pc[Worker] # "down" /\ Crash
  /\ Die
  /\ UNCHANGED <<kafka, claimedBy, rows, faults>>

\* Variants: the new dataflow starts at the end of tx.raw, or one message back.
WorkerStartsAtEnd ==
  /\ pc[Worker] = "down"
  /\ pc' = [pc EXCEPT ![Worker] = "idle"]
  /\ offset' = Len(raw)
  /\ UNCHANGED <<kafka, outbox, job, claimedBy, rows, answers, budget>>
WorkerStepsBack ==
  /\ pc[Worker] = "down"
  /\ pc' = [pc EXCEPT ![Worker] = "idle"]
  /\ offset' = offset - 1
  /\ UNCHANGED <<kafka, outbox, job, claimedBy, rows, answers, budget>>

\* No recovery configuration and the default starting offset: a new dataflow
\* reads tx.raw from its beginning.
WorkerStart ==
  /\ pc[Worker] = "down"
  /\ pc' = [pc EXCEPT ![Worker] = "idle"]
  /\ offset' = 0
  /\ UNCHANGED <<kafka, outbox, job, claimedBy, rows, answers, budget>>

\* The process is restarted; its caller never gets an answer.
ApiCrash(p) ==
  /\ pc[p] # "idle" /\ Crash
  /\ Rest(p)
  /\ UNCHANGED <<kafka, batch, claimedBy, rows, answers, faults>>
-------------------------------------------------------------------------------
Handle(a) == \/ Claim(a) \/ Duplicate(a) \/ ClaimFails(a)
             \/ ProcessEvent(a) \/ RejectEvent(a)
             \/ \E s \in Stores : Save(a, s)
             \/ UpdateState(a) \/ CallFails(a)

Next == \/ \E m \in Payloads : Produce(m)
        \/ ConsumeMalformed \/ Consume \/ SourceError
        \/ \E p \in ApiProcs, e \in Events : Predict(p, e)
        \/ \E a \in Actors : Handle(a)
        \/ EndBatch \/ (\E m \in outbox : Deliver(m))
        \/ WorkerCrash \/ WorkerStart
        \/ \E p \in ApiProcs : ApiCrash(p)

Spec == Init /\ [][Next]_vars

\* Running threads are scheduled and calls return; nothing obliges a producer,
\* a caller, a fault, a crash or a restart to happen.
Progress(a) == \/ Claim(a) \/ Duplicate(a) \/ ProcessEvent(a) \/ RejectEvent(a)
               \/ (\E s \in Stores : Save(a, s)) \/ UpdateState(a)
Fairness == /\ WF_vars(ConsumeMalformed \/ Consume)
            /\ \A a \in Actors : WF_vars(Progress(a))
            /\ WF_vars(\E m \in outbox : Deliver(m))
            /\ WF_vars(EndBatch)

FairSpec == Spec /\ Fairness
-------------------------------------------------------------------------------
TypeOK == /\ raw \in Seq(Payloads) /\ offset \in Nat
          /\ pc \in [Actors -> Calls]
          /\ job \in [Actors -> Events \cup {NoEvent}]
          /\ claimedBy \in [Events -> Actors \cup {NoOne}]
          /\ rows \in [Events -> [Stores -> Nat]]
          /\ outbox \subseteq Messages /\ published \subseteq Messages
          /\ answers \in [Events -> SUBSET {200, 409, 500}]
          /\ faults \in Nat /\ crashes \in Nat

Sent == outbox \cup published
Decided(e) == \E t \in BundleTopics : Msg(t, e) \in Sent
DeadLettered(e) == Msg("processing", e) \in Sent

\* No event is written twice to any store, or counted twice in the features,
\* though tx.raw repeats it, a restart replays the topic and /predict is posted
\* the same event: persist_bundle runs once per event_id.
AtMostOnce == \A e \in Events, s \in Stores : rows[e][s] <= 1

\* A failure can cut persist_bundle short, but never leaves a hole: a case row
\* always has the raw and scored rows the case page joins it with.
NoHoles == \A e \in Events :
  /\ rows[e]["scored"] > 0 => rows[e]["raw"] > 0
  /\ rows[e]["decision"] > 0 => rows[e]["scored"] > 0
  /\ rows[e]["features"] > 0 => rows[e]["decision"] > 0

\* What the outside can see of a decision (a message of its bundle, the 200 of
\* /predict) is never ahead of PostgreSQL and the feature store.
SeenIsStored == \A e \in Events : (Decided(e) \/ 200 \in answers[e]) => Complete(e)

\* The worker and the API never give two verdicts on one event: a decision on
\* the topics, a dead letter and the 200 of /predict exclude one another.
OneVerdict == \A e \in Events :
  /\ ~(Decided(e) /\ DeadLettered(e))
  /\ 200 \in answers[e] => ~(Decided(e) \/ DeadLettered(e))

\* A message about an event is sent once: nothing that a topic already holds
\* waits for the sink again, also after a replay of tx.raw.
NoRepeat == \A m \in outbox : m.about \in Events => m \notin published

\* Once the attempt at an event has ended, well or badly, nothing works on the
\* event again and none of its rows changes: replay and retries are inert.
Settled(e) == claimedBy[e] # NoOne /\ ~InFlight(e)
SettledForGood ==
  [][\A e \in Events : Settled(e) => Settled(e)' /\ rows'[e] = rows[e]]_vars

\* The single attempt at each event, as its promise sees it.
Outcome(e) == IF claimedBy[e] = NoOne THEN "new"
              ELSE IF rows[e]["features"] > 0 THEN "stored"
              ELSE IF InFlight(e) THEN "working" ELSE "dropped"
Told(e) == IF \/ 200 \in answers[e]
              \/ \E t \in BundleTopics : Msg(t, e) \in published
             THEN "decided"
           ELSE IF Msg("processing", e) \in published THEN "failed" ELSE "nothing"
Promise == INSTANCE EventOutcome WITH
             outcome <- [e \in Events |-> Outcome(e)],
             told <- [e \in Events |-> Told(e)]

\* The worker and the API together keep the promise of EventOutcome.
KeepsPromise == Promise!Spec

Up == pc[Worker] # "down"
OnRaw(m) == \E i \in 1..Len(raw) : raw[i] = m

\* A payload on tx.raw that nobody has claimed is eventually claimed, and what
\* the worker takes reaches a topic, as long as the worker stays up. (Nothing
\* restarts the dataflow by itself, and what a dead one held is lost.)
PayloadHeard == \A m \in Payloads :
  (OnRaw(m) /\ Up /\ (m \in Events => claimedBy[m] = NoOne))
    ~> \/ ~Up
       \/ m \in Events /\ claimedBy[m] \in ApiProcs
       \/ \E msg \in published : msg.about = m
-------------------------------------------------------------------------------
(* What comments and documents of the repository say, and the code does not. *)

\* "Duplicate event_id already processed.": a 409 is only ever answered for an
\* event that has been processed or still is.
DuplicateWasProcessed == \A e \in Events :
  409 \in answers[e] => (Complete(e) \/ InFlight(e))

CaughtUp == pc[Worker] = "idle" /\ offset = Len(raw) /\ outbox = {}

\* The worker "emits tx.scored and tx.decisions": when it has consumed all of
\* tx.raw, every decision it has stored is on tx.decisions.
StoredIsPublished == CaughtUp => \A e \in Events :
  (claimedBy[e] = Worker /\ Complete(e))
    => (Msg("decisions", e) \in published \/ DeadLettered(e))
===============================================================================
