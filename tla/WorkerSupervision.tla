--------------------------- MODULE WorkerSupervision ---------------------------
(***************************************************************************)
(* How the stream-worker service keeps its dataflow: WorkerRuntime runs    *)
(* Bytewax in a daemon thread, POST /worker/start starts one when none is  *)
(* alive, and a monitor thread copies healthy() into the flag behind       *)
(* /health/ready every two seconds. Handlers run one at a time on the      *)
(* event loop, but every statement of the threads interleaves with them.   *)
(***************************************************************************)
EXTENDS Integers

CONSTANT MaxThreads,  \* bound on the dataflow threads ever started
         Autostart    \* settings.stream_autostart

ASSUME ThreadsAssumption == MaxThreads \in Nat /\ Autostart \in BOOLEAN

VARIABLES
  phase,        \* of the application: starting, up, or shut down
  thread,       \* where each dataflow thread is in _run
  current,      \* WorkerRuntime._thread, 0 for None
  running,      \* status.running
  lastError,    \* status.last_error is set
  lastException,\* _last_exception is set
  sample,       \* what the monitor read and has not published yet, if anything
  workerReady   \* app.state.worker_ready

runtime == <<current, running, lastError, lastException>>
vars == <<phase, thread, runtime, sample, workerReady>>

Threads == 1..MaxThreads

\* An exception leaves run_flow ("raised") and the handler of _run sets
\* _last_exception, last_error and running, one after the other.
Unwinding == {"raised", "noted", "explained", "flagged"}
IsAlive(t) == thread[t] \in {"flowing"} \cup Unwinding
Consuming == \E t \in Threads : thread[t] = "flowing"

Init == /\ phase = "starting"
        /\ thread = [t \in Threads |-> "unborn"] /\ current = 0
        /\ running = FALSE /\ lastError = FALSE /\ lastException = FALSE
        /\ sample = {} /\ workerReady = TRUE

\* Variant of what start() does: the Thread is made and kept, and never started.
LaunchUnstarted == /\ current < MaxThreads
                   /\ running' = TRUE /\ lastError' = FALSE
                   /\ current' = current + 1
                   /\ UNCHANGED <<thread, lastException>>

\* A new thread; what start() does once it has found none alive.
Launch == /\ current < MaxThreads
          /\ running' = TRUE /\ lastError' = FALSE
          /\ current' = current + 1
          /\ thread' = [thread EXCEPT ![current + 1] = "flowing"]
          /\ UNCHANGED lastException

\* startup: _start_worker. No request is served before it.
Startup == /\ phase = "starting" /\ phase' = "up"
           /\ workerReady' = FALSE
           /\ IF Autostart THEN Launch ELSE UNCHANGED <<thread, runtime>>
           /\ UNCHANGED sample

\* Variants of start(): it trusts the flag instead of the thread; it clears the
\* error before it looks at the thread.
StartByFlag == /\ phase = "up"
               /\ IF running THEN UNCHANGED <<thread, runtime>> ELSE Launch
               /\ UNCHANGED <<phase, sample, workerReady>>
StartForgets == /\ phase = "up"
                /\ IF current # 0 /\ IsAlive(current)
                   THEN lastError' = FALSE
                        /\ UNCHANGED <<thread, current, running, lastException>>
                   ELSE Launch
                /\ UNCHANGED <<phase, sample, workerReady>>

\* POST /worker/start. It answers "started" whether or not it starts anything.
Start == /\ phase = "up"
         /\ IF current # 0 /\ IsAlive(current) THEN UNCHANGED <<thread, runtime>> ELSE Launch
         /\ UNCHANGED <<phase, sample, workerReady>>

\* shutdown: stop() only lowers the flag, the thread flows on.
Shutdown == /\ phase = "up" /\ phase' = "shut"
            /\ running' = FALSE /\ workerReady' = FALSE
            /\ UNCHANGED <<thread, current, lastError, lastException, sample>>
-------------------------------------------------------------------------------
(* The dataflow thread.                                                    *)

Goes(t, from, to) == thread[t] = from /\ thread' = [thread EXCEPT ![t] = to]
Apart == UNCHANGED <<phase, current, sample, workerReady>>

Raise(t) == Goes(t, "flowing", "raised") /\ Apart
            /\ UNCHANGED <<running, lastError, lastException>>
Note(t) == Goes(t, "raised", "noted") /\ Apart
           /\ lastException' = TRUE /\ UNCHANGED <<running, lastError>>
Explain(t) == Goes(t, "noted", "explained") /\ Apart
              /\ lastError' = TRUE /\ UNCHANGED <<running, lastException>>
Flag(t) == Goes(t, "explained", "flagged") /\ Apart
           /\ running' = FALSE /\ UNCHANGED <<lastError, lastException>>
End(t) == Goes(t, "flagged", "gone") /\ Apart
          /\ UNCHANGED <<running, lastError, lastException>>

\* run_flow returns, or is left by a BaseException that _run does not catch.
Leave(t) == Goes(t, "flowing", "gone") /\ Apart
            /\ UNCHANGED <<running, lastError, lastException>>
-------------------------------------------------------------------------------
(* The monitor thread.                                                     *)

\* Variant of healthy(): it asks whether a thread was made, not whether it lives.
HealthyUnlessError == running /\ current # 0 /\ ~lastException

\* The three reads of healthy() amount to one: of the flags, a dying thread
\* changes the one read last first.
Healthy == running /\ current # 0 /\ IsAlive(current) /\ ~lastException

MonitorReads == /\ phase # "starting" /\ sample = {}
                /\ sample' = {Healthy}
                /\ UNCHANGED <<phase, thread, runtime, workerReady>>
MonitorWrites == /\ workerReady' \in sample /\ sample' = {}
                 /\ UNCHANGED <<phase, thread, runtime>>
Unwind(t) == Note(t) \/ Explain(t) \/ Flag(t) \/ End(t)

Next == \/ Startup \/ Start \/ Shutdown \/ MonitorReads \/ MonitorWrites
        \/ \E t \in Threads : Raise(t) \/ Unwind(t) \/ Leave(t)

\* The threads keep running; no failure and no request has to come.
Spec == /\ Init /\ [][Next]_vars
        /\ WF_vars(MonitorReads) /\ WF_vars(MonitorWrites)
        /\ \A t \in Threads : WF_vars(Unwind(t))
-------------------------------------------------------------------------------
TypeOK == /\ phase \in {"starting", "up", "shut"}
          /\ thread \in [Threads -> {"unborn", "flowing", "gone"} \cup Unwinding]
          /\ current \in 0..MaxThreads
          /\ \A t \in Threads : thread[t] = "unborn" <=> t > current
          /\ running \in BOOLEAN /\ lastError \in BOOLEAN /\ lastException \in BOOLEAN
          /\ sample \subseteq BOOLEAN /\ workerReady \in BOOLEAN

\* However often /worker/start is posted, also while a thread is failing, a dataflow
\* is started only when the last one has ended: two would both consume tx.raw and
\* write the topics.
Living == {t \in Threads : IsAlive(t)}
Sole == INSTANCE SoleThread WITH born <- current, living <- Living
SoleDataflow == Sole!Spec

\* healthy() is never true of a dataflow that is gone or known to have failed.
HealthyConsumes == Healthy => thread[current] \in {"flowing", "raised"}

\* A dataflow that stopped by an exception does not go without a trace: while
\* the service is up and shows running = false, last_error says why.
ErrorVisible == (phase = "up" /\ current # 0 /\ ~running) => lastError

\* When nothing consumes, the monitor takes readiness away.
FailureNoticed == (phase = "up" /\ ~Consuming) ~> (~workerReady \/ Consuming)

\* "Confirm the worker is healthy" after a failure and POST /worker/start: a
\* dataflow that from some time on runs without failing is reported ready. start()
\* never clears _last_exception, so it is not.
RestartedIsReady == <>[](phase = "up" /\ Consuming) => []<>workerReady
===============================================================================
