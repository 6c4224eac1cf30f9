# ByteWatch fraud platform: specification and proofs

TLA+ models of the ByteWatch fraud platform, TLC configurations that check them
on small instances, and TLAPS proofs that hold for every instance. Paths below
are relative to the repository; `processor.py`, `flow.py` and `runtime.py` are
those of `apps/stream-worker` unless the producer's are meant.

## 1. The system

Events travel from the **producer** (or any writer of `tx.raw`) through Kafka to
the **stream worker**. For each event it claims `event:processed:{event_id}` in
Redis, normalises, reads the account's rolling context, runs rules and model,
commits three rows to PostgreSQL, updates the context, and hands four messages
to its Kafka sink. The **API** does the same for `POST /predict`, in another
process, with the same class and the same stores; it also serves cases, takes
analyst feedback and reloads the model. The **trainer** turns rows and feedback
into a registered model and moves the `champion` alias. The **console** polls.

| Component | State it keeps | Operations | What makes it hard | What makes it correct |
|---|---|---|---|---|
| Stream worker pipeline | position in `tx.raw`, output of the current batch | consume, dead-letter, claim, process, persist, flush | no recovery store: restarts replay the topic; each call can fail with its effect applied; output is lost with the process | each event is worked on once, what is seen is stored, one verdict, every payload is heard |
| `/predict` | the request in hand | claim, process, persist, answer | races the worker for the claim; callers retry | the same, and 409 only for what was processed |
| Worker supervision | thread, `running`, `last_error`, `_last_exception`, readiness | start, stop, `_run`, monitor | handler of `_run` interleaves with start, status and monitor | one dataflow, honest health, visible errors, recovery |
| Producer runtime | thread, stop event, Kafka client, rate profile | start, stop, burst, boost, reset | three-second join, client shared without a lock, a deadline | one loop, a stop that stops, a start that starts, profile and generator agree |
| Synthetic generator | sequence number, random state | generate | loop, burst and export share it, a restart forgets it, and cases, feedback and training join by it | transaction ids differ |
| Feature store (Redis, memory) | rolling windows per account | claim, get_context, update_state | several reads, two processes on one account, late events; one store has milliseconds and the other microseconds | no payment is lost or torn, and serving and training differ only where that is explained |
| Feature engineering | none | compute | | a feature differs only if the contexts do |
| Rules, model runtime | configuration, loaded model | evaluate, combine, reload | caps and severities; alias against version | more evidence is decided no milder; label names the model used |
| Persistence | six tables | save, feedback, case and training queries | separate transactions, joins by transaction_id, answers read by several SELECTs | what is counted, closed or trained is what was decided or reviewed |
| Trainer | registry alias, metadata file, cache row | bootstrap, train, drift | crash between alias, file and cache | what is reported was champion and can be loaded |
| Analyst console | shown data, query, in-flight flag, live switch | poll, refresh, follow a link, toggle, submit feedback | late and failing answers, decisions stored out of order, a broker that stalls | the page catches up, announces once, counts nothing as approved that was not; a post is answered |
| Contracts, common service, observability, migrations | none that decides anything | parse, probe, count | | |

The components meet in four places: the claim key (worker and API), the rows in
PostgreSQL (worker, API, trainer), the transaction numbers (producer, cases,
feedback, trainer), and the topics. Control of worker and producer
goes through HTTP handlers that are coroutines without an `await`: in one process
they run one at a time, but the threads they control interleave with each of
their statements.

## 2. Modules

| Module | What it is |
|---|---|
| `EventOutcome` | abstract: what the pipeline promises about one event |
| `StreamPipeline` | worker and API processes over Redis, PostgreSQL and Kafka |
| `StreamPipelineProofs` | its theorems |
| `SoleThread` | abstract: what worker and producer promise about their background thread |
| `WorkerSupervision` | the dataflow thread, start/stop, the readiness monitor |
| `WorkerSupervisionProofs` | its theorems |
| `ProducerRuntime` | the producer's loop, its handlers and its Kafka client |
| `ProducerRuntimeProofs` | its theorems |
| `ModelLifecycle` | trainers, MLflow registry, cache rows and model runtimes |
| `ModelLifecycleProofs` | its theorems |
| `FeatureWindows` | the features of one account: Redis under several processes, and the trainer's replay in memory |
| `MCFeatureWindows` | its instance for TLC, with symmetry |
| `FeatureWindowsProofs` | its theorems |
| `CaseReview` | from the producer's counter over case and feedback to the training label |
| `CaseReviewProofs` | its theorems |
| `Decisioning` | pure operators: rules, `combine_model_and_rules`, the threshold sweep |
| `LiveConsole` | scorers, the dashboard queries and a polling page; composes `Decisioning` |
| `MCLiveConsole` | its instance for TLC: two trainings and the observations |
| `LiveConsoleProofs` | theorems of `LiveConsole` and `Decisioning` |
| `FiniteOrders` | lemmas on finite sets for the proofs, none about the code |

Definitions marked "Variant" are not part of a specification: each is a plausible
mistake in the definition below it, kept to show which property notices it.

### StreamPipeline

One action per remote call. `pc[a]` is the next call of actor `a` (the worker
thread, or an API process), `job[a]` the event it holds.

| Model | Code |
|---|---|
| `raw`, `offset` | `tx.raw`, and how far the running dataflow has read it |
| `Consume`, `ConsumeMalformed` | `flow.py:18-31`, and the parse at `processor.py:161` |
| `Claim`, `Duplicate`, `ClaimFails` | `claim_event`; in the worker it is outside the `try`, so a Redis error ends the dataflow |
| `ProcessEvent`, `RejectEvent` | `process_event`; `normalize` refuses the events of `Rejected` |
| `Save`, `UpdateState` | the four calls of `persist_bundle`, in their order (`NextCall`) |
| `CallFails` | any of these calls raises, with its write applied or not |
| `GiveUp` | the worker's `except` (a dead letter); in the API, a 500 |
| `EndBatch`, `Deliver` | the sink writes a batch; the order over topics is free |
| `WorkerCrash`, `ApiCrash`, `WorkerStart` | a process dies at any point; a new dataflow starts at offset 0, since `build_flow` gives no recovery and no starting offset |

`rows` counts writes per event and store, so a second write would show.
`claimedBy` records who set the key; the code only tests whether it is set, and
so do the guards. Payload contents, latencies and metrics are abstracted.

`EventOutcome` has two variables per event: what became of the single attempt
(`new`, `working`, `stored`, `dropped`) and what the outside was told (`nothing`,
`decided`, `failed`). The instance `Promise` maps claim and rows to the first and
published messages and a 200 to the second.

### WorkerSupervision

`thread[t]` follows `_run`: `flowing`, then the statements of its `except`
(`raised`, `noted`, `explained`, `flagged`), then `gone`. `Leave` is the end
without a caught exception. `MonitorReads` and `MonitorWrites` are the two halves
of `set_ready(runtime.healthy())`, so that the sample can be stale when written.
`Start` is one step: the only thing it reads that another thread changes is
`is_alive()`, and a dead thread writes nothing more.

`SoleThread` counts the threads ever started and holds those that have not ended. A
thread is started only when no other is left, and none comes back. `Sole` maps
`current` and the threads that `is_alive()` of any handle would report (`Living`) to
it; `ProducerRuntime` has the same instance over its loops.

### ProducerRuntime

`at[p]` is where a publisher is: the handler thread (`Http`, 0) or loop `t`.
`publish` takes four steps (`Look`, `Connect`, `Take`, `Send`), because
`_get_producer` tests, makes and re-reads `_producer` without a lock. `Break`
covers each way it raises. `Stop`, `Joined`, `Close` are the statements of `stop()`;
the join may end at any time, which includes its timeout. Operations under the
profile lock are one step. The sleep is the wait at `top`.

### ModelLifecycle

`run[t]` follows `_train` call by call: `Register` (`log_model`), `Promote`
(`set_registered_model_alias`), `LogMetadata`, `CacheRow`; `Abandon` stops it
anywhere (the fit, any of the calls, or a version that `_lookup_model_version` does
not find) and undoes nothing. `load[r]` follows `ModelRuntime.reload`: `LookUp` reads
the alias, `FetchModel` resolves it again, `FetchMetadata` takes the file of the run
that `LookUp` found, or fails if it is not logged yet. `ensure_loaded` loads only
when nothing is loaded; only the API has a reload, which then adds a cache row
(`CacheLoaded`). `Reported` is `get_current_metadata`: the newest champion row, else
the alias. A registry that does not answer counts as "no champion"
(`BootstrapBlind`). A version stands for its model, run, metrics and thresholds;
rows are taken to be created in the order of their commits. `promoted` is a history
of the champion alias that no guard reads. A training without an alias argument
moves the champion, so `Train` promotes with either alias.

### FeatureWindows

`Read...` are the commands of `get_context`, one step each, in the order of
`NextRead`; `Update` is `update_state`, one step because its pipeline is a
MULTI/EXEC. `store` is what Redis holds of one account: `spend` and `failed` are the
sorted sets, `Pruned` the `ZREMRANGEBYSCORE` that counts back from the event being
applied. `Fail` ends an attempt anywhere: an event can have its raw row and never be
applied. The in-memory store is private to a replay, so its methods are operators
(`MemoryLooked`, `MemoryContext`, `MemoryUpdated`) and `Replayed` applies them to the
rows by event time as `_build_feature_frame` does, the latest row (`Latest`) last; `get_context` pops from the deques there, which
is why looking is part of the replay. `seen`, `applied` and `inOrder` are history.

The two stores keep time differently, and the trainer does not see every row:

| Model | Code |
|---|---|
| a time | an `event_time`, in microseconds: what `MemoryFeatureStore` compares |
| `Score`, `Tick` | `int(timestamp() * 1000)`, the milliseconds of every member, bound and cutoff in Redis |
| `Decoded` | the payments that `get_context` reads back: their times are those scores |
| `Labelled` | `train_from_repository` drops rows without a label; an event of `/predict` has none unless the caller or an analyst gives one. The model lets any of the rows have one |

`Score` is the floor of a division, which is what the code's floating-point product
gives for the dates from 1990 to 2037 (compared numerically; no proof or run depends on
floats). `SkewIsExplained` says where the context of an event that comes in order can
differ from the one the training replays for it: the rows that one side never had
(applied without a label, or labelled and never applied), the microseconds of the
payments read back, and the single millisecond at the edge of each window. There it
goes in both directions: Redis can still return what memory has popped, and can have
pruned what memory keeps.

### CaseReview

Four parties meet in one number, the `transaction_id`.

| Model | Code |
|---|---|
| `Load`, `Store`, `Name` | `self.sequence += 1` in `_render_event` loads and stores; the number is read once more where the event is made. The loop and the handler thread (bursts, exports) do this without a lock |
| `ProducerRestart` | a new generator starts from 0 |
| `Save` | raw row, scored row, decision with its case, one commit each |
| `Post` | `get_case`, which finds the event by transaction number among the stored rows (`Newest`) |
| `Record` | `add_feedback`: status of the case, feedback row, audit row in one commit |
| `Send`, `Flush`, `TimeOut`, `Refuse` | the handler hands the event to Kafka and waits for the client to be empty, five seconds at most |
| `Deliver`, `Lose`, `ApiCrash` | what broker and process do to the messages in the client |
| `ReadPayments`, `Train`, `TrainFromCsv`, `TrainingFails` | `training_frame` in two queries; with fewer than `MinRows` rows, and in a forced bootstrap, the CSV file is trained instead |

The handler is a coroutine that never awaits, hence one `at` for the whole API.
The worker and several producers' clients are not needed: what a stored event has
gone through is the subject of `StreamPipeline`. `restarts` and `overlap` are history.

### Decisioning and LiveConsole

`Decisioning` has no state. Probabilities and thresholds count percent, scores and
weights 1/10000: with the configured rules the code computes the same numbers but
for the rounding of floats. `Matches` are the six rules of `default_rules.yml`.
`Sweep` takes a training's sample to its two thresholds.
`LiveConsole` assumes that probabilities are percentages and samples finite
(`ScoringAssumption`).

| Model | Code |
|---|---|
| `LoadModel`, `Score`, `Commit` | a scorer decides with the thresholds of its model; the scored row and the decision row come later, in any order between transactions |
| `CountAll`, `CountBlocked`, `CountReview`, `List` | the SELECTs of `dashboard_overview` and `recent_activity`, each of which sees what is committed by then |
| `Refresh`, `Receive`, `Fail` | `useLiveResource`: one request at a time, guarded by `inFlightRef` |
| `New`, `Show` | `diffNewActivities`, `toastableActivities` and the callback of the page |
| `Toggle`, `Follow` | the live switch; a link that gives the mounted hook other initial data |

An answer carries the sets of rows each SELECT saw, so that counts and lists can be
compared with what is stored. Each page belongs to a path; the overview has only
one, the cases pages one per query, and the model covers both. `announced`, `late` and `repeated` are history.

## 3. Runs

| Run | Configuration | Result | Shows |
|---|---|---|---|
| pipeline | `Pipeline.cfg` | passes, about 416,000 states | the eight properties of the pipeline |
| conflict409 | `Pipeline_conflict409.cfg` | `DuplicateWasProcessed` is violated | a failed `/predict` keeps its claim, its retry is told "already processed" |
| lost_decision | `Pipeline_lost_decision.cfg` | `StoredIsPublished` is violated | a decision stored before a crash never reaches `tx.decisions` |
| worker | `WorkerSupervision.cfg` | passes, 294 states | the dataflow is a `SoleThread`; honest health, visible errors, readiness withdrawn |
| worker_restart | `Worker_restart.cfg` | `RestartedIsReady` is violated | after one failure no restart is ever healthy |
| producer | `Producer.cfg` | passes, about 69,000 states | the loop is a `SoleThread`; a stop that stops, no closed client, profile and stats agree, a boost that ends |
| producer_restart | `Producer_restart.cfg` | `StartedIsNotStopping` is violated | a start during the loop's sleep is lost |
| lifecycle | `Lifecycle.cfg` | passes, about 164,000 states | cached champions are real, loads pair in promotion order, every runtime gets a model |
| features | `FeatureWindows.cfg` | passes, about 1,494,000 states up to symmetry | exact counters, full windows, consistent torn reads, served and replayed features differ only by unlabelled or unapplied rows and by milliseconds |
| review | `CaseReview.cfg` | passes, about 1,102,000 states | closed cases are those trained with an analyst's label, feedback that is heard of is stored, numbers differ, every post is answered |
| review_collision | `CaseReview_collision.cfg` | `TrainedAsReviewed` is violated | after a producer restart the feedback on one event labels another |
| console | `LiveConsole.cfg` | passes, about 597,000 states | nothing shown as approved that was not, nothing announced twice, the page catches up; thresholds apart and decisions monotone |

**What the properties say.** `AtMostOnce`: no store is written twice for an event,
whatever tx.raw repeats. `SeenIsStored`: nothing visible is ahead of the stores. `OneVerdict`: decision,
dead letter and 200 exclude one another. `NoRepeat`: no message about an event is
sent twice, also after replay. `SettledForGood`: an ended attempt is inert.
`KeepsPromise`: refinement of `EventOutcome`. `PayloadHeard` (liveness): an
unclaimed payload reaches a topic while the worker stays up. `SoleDataflow` and
`SoleLoop`: refinements of `SoleThread`. The properties of the other modules are
stated at their definitions.

**Bounds.** Two events are the least that lets one be rejected and one succeed, and
that fills a batch; with one malformed payload every branch of `process_payload`
is taken. `MaxRaw = 2` allows the same event twice on the topic, two different
ones, and a malformed one between. One API process and the worker are the two
sides of every race for a claim (API against API is the same race). One fault and
one crash, anywhere, also in either order; a replay after a crash is a second
delivery of everything. The theorems remove all these bounds. Worker: three
threads give two restarts; a further one starts from the same situation. Producer:
two loops and three clients let a client be leaked, closed and replaced; the limit
is none or two events. Lifecycle: two trainers and two versions are the least that
lets a promotion fall into a load or another run; one failure leaves a champion
without metadata or a runtime without a model. Features: three events and four times
with windows of two and one let an event be pruned by a second before a third, late
or punctual, looks for it; two processes let one apply an event between two reads of
the other. A millisecond is two microseconds there, an hour two milliseconds, five
minutes one: of the times 5, 8, 9 and 11 two share a millisecond, 5 is in the
millisecond an hour before 9, where Redis has pruned what memory keeps, and 8 in that
five minutes before 11, where memory has popped what Redis returns. So the contexts do
differ in both directions (without the exception for the edge the property fails). The violation runs use the least
instance that shows them. Review: two events are the least that can share a number;
both may be posted about, or one twice, and the training may read before, between or
after; one restart or one overlap suffices for a collision; two times decide which of
two rows `get_case` finds newest; `MinRows` 2 lets one training take the CSV file and another the
rows; `legitimate` closes a case and `review` reopens it (the violation run has all
four labels). Console: two decisions and one listed activity let a row drop out of
the list, and a decision be stored after a later one; two paths let an answer arrive on another
page; a second request slot is there for a hook that forgets its flag, the code uses
one. The two trainings are those at the ends of the grid: one separates only at
0.97, one is wrong about everything; the observations between them are hit by every
set of rules that can hit together.

Deadlock is checked in every run but those of `ModelLifecycle`, `FeatureWindows`,
`CaseReview` and `LiveConsole`: with everything loaded, processed or shown, and
nothing further asked for, those systems may rest.

**Fairness.** Pipeline: an actor with a call to make makes it, the batch ends and
is delivered. `Deliver` never loses a message silently: that is what the model takes
Bytewax's Kafka sink, which is not part of the repository, to do (it delivers or the
dataflow dies), and `PayloadHeard`, `NoAttemptUnheard` and `PublishedUnlessDied` rest
on it. This is the scheduling of running threads and clients that time out;
no request, fault, crash or restart is forced. Nothing in the code restarts a dead
dataflow, so `PayloadHeard` allows it to stay down. Worker: the monitor loop and a
thread in its `except` go on. Producer: a loop thread goes on and its Kafka calls
end, since `flush` has a timeout and the constructor gives up without brokers.
Lifecycle: a runtime that is sent events keeps trying to load (the supervised
dataflow and `/predict` both call `ensure_loaded` per event); no trainer has to
finish, so `ModelArrives` speaks of champions that can be loaded. Review: the handler
goes on with a post, since each of its calls returns or raises and `flush` has a
timeout; broker, worker and trainer need do nothing. Console: in live mode the
interval fires, the API answers, and the browser runs the callback; no answer has to
be a success, and a page that shows an error has been told.

## 4. Proofs

`tlapm` checks every step of `FiniteOrders` and of the seven modules named
`...Proofs`. They assume only the named ASSUMEs of the modules (`Rejected` is a
subset of `Events`, the special values differ from the others, bounds are naturals,
the lengths of the windows are whole milliseconds,
probabilities are percentages, samples are finite), each evaluated by TLC in the
runs. Every safety property of a passing run, the three refinements included, is
stated by a theorem. Five further theorems say exactly when the claims that the
violation runs refute do hold (section 5).

**StreamPipeline.** Theorems: `TypeCorrect`, `PersistedAtMostOnce`,
`RowsHaveNoHoles` (a cut-short `persist_bundle` leaves a prefix), `SettledStays`,
`SeenDecisionsAreStored`, `OneVerdictPerEvent`,
`MessagesSentOnce`, `PipelineKeepsPromise`. None of the safety properties is
inductive alone. `AtMostOnce` needs that a busy actor holds the claim of its event
(`ClaimHeld`), hence that no two actors are busy with one event; that the rows of
a busy actor's event are those of the calls it has passed (`WrittenSoFar`); and
that an unclaimed event has none (`UnclaimedIsEmpty`). The properties about
messages and answers need further that what was sent or answered about an event
implies that its attempt is over (`SentLast`, `AnsweredLast`). The step proofs go
by the shape of a step (which actor moves, which event it holds), proved once. For
the refinement each step is mapped to `Begin`, `Store`, `Drop`, one of the two
announcements, or a stutter.

The converse holds only while no process dies (`Undisturbed`: the worker is up and
`crashes` is 0; failing calls are allowed). Then no attempt ends unheard
(`NoAttemptUnheard`): a claimed event is in work, or the one who claimed it has sent
a decision or a dead letter, or answered 200 or 500 (`Accounted`). The step lemma is
that whoever leaves the busy places tells (`Tells`), and that nothing told is taken
back (`Grows`). From it follow `PublishedUnlessDied` and `RefusedOrReported`.

**WorkerSupervision.** `TypeCorrect`, `HealthyIsHonest`,
`ErrorsAreVisible`, from: every thread before the current one is gone, and a
thread that is being unwound has set the fields it has passed. `DataflowIsSole` is
the refinement of `SoleThread`, from the first of these. `FailureIsForEver`: once the monitor has
withdrawn readiness after a failure and holds no older sample, it stays withdrawn,
through every stop and start.

**ProducerRuntime.** `TypeCorrect`, `StoppedLoopsEnd`,
`NoClosedClient`, `ProfilesAgree`, from: every loop before the last is gone, a
`stop()` under way has set the event, and the client the runtime names is open.
`LoopIsSole` is the refinement of `SoleThread`: of all steps only a start that finds
nobody alive revives (`OnlyLaunchRevives`). `StartedGoesOn`: without an event limit,
and if the join of a `stop()` never times out, a start is never lost.

**ModelLifecycle.** `TypeCorrect`, `CacheIsReal`, `LoadsInOrder`. Neither is
inductive: a row is real because of where its run was when it was written
(`RunWrote`) or because of what the runtime holds (`LoadedIsLogged`,
`LoggedIsPromoted`); a pair is in order because the champion is always the last of
the history (`ChampionIsLast`) and the history only grows (`HistoryGrows`), so what
`FetchModel` reads is no older than what `LookUp` read (`LoadRead`). `LoadsMoveOn`
is an action property that no run checks: a runtime's model and metadata are each
replaced only by those of the same or a later promotion. It needs that a load in progress has
read nothing older than what is loaded (`LoadsAhead`).

**FeatureWindows.** `TypeCorrect`, `CountersAreExact`, `WindowIsFull`,
`TornReadsAreSafe`, `NoOtherSkew`. What was applied is in the zset or some applied event is an hour
younger (`SpendIsPruned`); for an event that is not late no such event can exist. A
torn context is consistent because sets and counters only grow while it is read, and
each value is read after those it must dominate (`ReadSoFar`). The counters need that
events in hand are distinct and not yet applied (`Distinct`).

`NoOtherSkew` proves `SkewIsExplained`. The two stores prune differently, Redis by the
newest event applied, the replay by the one that looks, and the one counts milliseconds
while the other counts microseconds. Both sides are brought to the same sets. What a
replay of finitely many rows of different times leaves in its deques, counters and sets
is characterised by those rows alone, by induction over them. While events come in
order Redis holds exactly what is within a window of the newest (`StoreInOrder`), and
what an actor has read is what it could read now as long as nothing was applied since
(`ContextCurrent`); that the rows are finitely many is part of the same invariant
(`Served`). Of scores it is used that they are monotone (`ScoreMonotone`) and that a
window of whole milliseconds shifts them by its length (`ScoreShift`), whatever the
length of a millisecond. So both windows, without the millisecond of their edge, hold
what lies strictly inside it (`OnlineWindow`, `OfflineWindow`), decoding does not move a
payment over the edge (`DecodedWindows`), and the counters differ by what is on one
side only (`CountsBalance`).

**CaseReview.** `TypeCorrect`, `NumbersAreUnique`, `HeardFeedbackIsStored`,
`ReviewedCasesAreTrained`, `TrainedUnlessRestarted`. That numbers differ needs that all that were given are at
most `sequence`, and less while a thread is about to name its event (`Numbered`).
That closed cases are the trained ones relates a status set by case to a label found
by transaction number: `LatestDecides` says that the status of a case is what the latest feedback
on it asked for, `LatestTrains`
that the last training took its labels from the feedback it read (`asOf`), and
`HasLatest` that a set of feedback has a latest one, kept as an invariant because no
induction is needed to add one to it. `PostsMatch` and `SentIsRecorded` tie posts,
rows and messages together.

**Decisioning and LiveConsole.** `TypeCorrect`, `ApprovedAreApproved`,
`NothingAnnouncedTwice`, `LoadedApart`, `MoreEvidenceNeverMilder`; about the operators
alone, `SweepKeepsApart` and `GraverEvidence`. The bound on approved transactions follows from
what each phase of an answer has counted (`CountedOK`): all that was counted first
and not approved is in one of the later counts, as rows are never removed and
verdicts never change. Nothing is announced twice because one request at most is out
(`OneRequest`) and because what was announced and is no longer shown has enough later
decisions above it to stay out of the list (`AnnouncedStays`).

The sweep chooses the best threshold of its grid by comparing fractions crosswise;
since that order is transitive and the grid finite, a best one exists for every
sample (`SomeBestF1`, `SomeBestPrecision`), so both thresholds are of the grid
and four percent apart (`SweepKeepsApart`). Decisions are monotone in two parts:
`combine_model_and_rules` for any numbers (`GraverEvidence`), and the rules, whose
hits are summed by a fold: it is shown to be the plain sum over the six configured
rules (`RuleWeightIsTotal`), in which more hits weigh at least as much (`WeightGrows`).

**FiniteOrders.** The library's induction theorems take an operator, which the
provers cannot instantiate. `LeastSubset` states induction over a finite set without one:
among the subsets that refute a fact there is one without a smaller one. It follows
from the library's well-foundedness of strict inclusion (`WFMin`). `LeastNumber` and
`SomeComesFirst` are its companions for numbers and for total preorders.

Only model-checked: `PayloadHeard`, `FailureNoticed`, `StopStops`, `BoostEnds`,
`ModelArrives`, `AnalystIsAnswered` and `CatchesUp`, which are liveness under fairness
and out of the prover's reach; and the violations.

## 5. Where code and documents disagree

Five runs end in a violation on purpose; each contradicts a sentence of the
repository, quoted in `PROJECT.json` under `findings`.

1. `/predict` claims before it processes and never releases. A request that ends in
   500 cannot be retried: it is told 409 "Duplicate event_id already processed."
2. The worker persists before it emits and has no outbox: a crash in between loses
   the messages of a stored event for good, replay notwithstanding.
3. `WorkerRuntime.start()` does not clear `_last_exception`.
4. `ProducerRuntime.start()` takes a loop that is about to stop for a running one.
5. A restarted producer numbers its transactions from 1 again, and feedback is joined
   to raw rows by that number: the feedback on one event labels another.

The proofs bound each of them from the other side:

| | What a run refutes | holds when | Theorem |
|---|---|---|---|
| 1 | `DuplicateWasProcessed` | no process has died, and of every event whose failure was not reported by a 500 or a dead letter (or that is still in work) | `RefusedOrReported` |
| 2 | `StoredIsPublished` | no process has died | `PublishedUnlessDied` |
| 3 | `RestartedIsReady` | never, after a failure the monitor has noticed | `FailureIsForEver` |
| 4 | `StartedIsNotStopping` | there is no event limit and no join times out | `StartedGoesOn` |
| 5 | `TrainedAsReviewed` | the producer was not restarted | `TrainedUnlessRestarted` |

Noted while modelling, without a run of their own, since the models follow the code:

- `docs/architecture/transaction-lifecycle.md:22-29` draws the four messages as
  published between the steps and the rows as persisted after them. In the code all
  four are returned together once `persist_bundle` is done: stored first, published
  later (`SeenIsStored`). An event that is validated and fails later is therefore not
  on `tx.validated` either.
- Training and serving do not see the same features even for events in order: Redis
  compares whole milliseconds and memory microseconds, so a payment in the millisecond
  at the edge of a window can be in one context and not in the other; rows without a
  label are dropped before the replay (`training.py:74-76`), so what `/predict` applied
  online is missing from the training of all later events of the account; and a row
  saved by an attempt that failed before `update_state` is replayed though it was never
  applied. `SkewIsExplained` is the statement that there is nothing else.
- A training that names no alias moves the champion, though promotion is called
  explicit (`docs/architecture/transaction-lifecycle.md`).
- An answer that was in flight when live mode is switched off replaces the snapshot
  that `README.md` calls frozen.
- A forced bootstrap, and a database training with fewer than 200 labelled rows, train on the CSV file, so
  the analyst labels of `docs/runbook.md:71` are not read.
- The sweep chooses thresholds for the probability p, but they are compared with
  0.78 p plus the weight of the rules.
- A late event has its time since the last payment cut to 0, which with a distance of
  500 km hits the impossible-travel rule.

## 6. Not modelled

- The arithmetic of the features and the model's probability: an observation and a
  probability are inputs of `Decisioning`. Float rounding, likewise.
- Expiry of Redis keys after 30 days; places, amounts and devices of payments. The
  lifetime of a claim would need a clock of days, and the retention of `tx.raw` is
  not set in the repository.
- Payloads without an `event_id`, which get a fresh one at each parse (planned).
- Of the console: rendering, toasts beyond what is announced (the cut to three, the
  score of 0.9 at which approved ones are announced too), feedback activities, the
  time windows of the dashboard, and the unmounting of a page.
- Read-only lists and trends, audit rows, dependency probes, metrics, logging,
  migrations: no state of the program depends on them.
- The fit of the model, the file of a dataset export, drift reports: numeric or file
  output.
- More than one worker process: `docker-compose.yml` starts one.

## 7. Plan

Done: all modules of section 2 and the proofs of their safety properties. Left, in
this order:

1. An abstract specification of a case (open, in review, closed) for `CaseReview` to
   implement, and one of a served model for `ModelLifecycle`, from `LoadsMoveOn`.
2. Payloads without `event_id` in `StreamPipeline`: each parse takes an id nobody
   has used.
3. Places and devices in `FeatureWindows`, for what a late event does to the profile.
4. A run that shows the frozen snapshot of the console replaced.
