------------------------ MODULE WorkerSupervisionProofs ------------------------
(***************************************************************************)
(* Safety of WorkerSupervision for any number of dataflow threads. The     *)
(* inductive invariant adds three facts to the type: there is no thread    *)
(* before startup, every thread before the current one is gone, and one    *)
(* that is being unwound has already set the fields it has passed, in the  *)
(* order of the handler in _run.                                           *)
(***************************************************************************)
EXTENDS WorkerSupervision, TLAPS

OthersGone == \A t \in Threads : t < current => thread[t] = "gone"
Noted == \A t \in Threads :
  /\ thread[t] \in {"noted", "explained", "flagged"} => lastException
  /\ thread[t] \in {"explained", "flagged"} => lastError

NoneYet == phase = "starting" => current = 0

IInv == TypeOK /\ NoneYet /\ OthersGone /\ Noted /\ ErrorVisible

\* One action of the dataflow thread, whichever it is.
DataflowStep(t) == Raise(t) \/ Unwind(t) \/ Leave(t)

LEMMA InitIInv == Init => IInv
<1>. SUFFICES ASSUME Init PROVE IInv
  OBVIOUS
<1>1. \A t \in Threads : thread[t] = "unborn" /\ t > 0
  BY DEF Init, Threads
<1>2. thread \in [Threads -> {"unborn", "flowing", "gone"} \cup Unwinding]
  BY DEF Init
<1>3. TypeOK
  <2>1. current \in 0..MaxThreads /\ \A t \in Threads : thread[t] = "unborn" <=> t > current
    BY <1>1, ThreadsAssumption DEF Init
  <2>2. sample \subseteq BOOLEAN
    BY DEF Init
  <2>. QED  BY <1>2, <2>1, <2>2 DEF Init, TypeOK
<1>4. NoneYet /\ OthersGone /\ Noted /\ ErrorVisible
  BY <1>1 DEF Init, NoneYet, OthersGone, Noted, ErrorVisible, Threads
<1>. QED  BY <1>3, <1>4 DEF IInv

\* start() finds a dead thread, or none: then all of them are gone.
LEMMA LaunchIInv ==
  ASSUME IInv, Launch, current = 0 \/ ~IsAlive(current),
         workerReady' \in BOOLEAN, sample' = sample, phase' = "up"
  PROVE  IInv'
<1>1. \A t \in Threads : t <= current => thread[t] = "gone"
  BY DEF IInv, TypeOK, NoneYet, OthersGone, IsAlive, Threads, Unwinding
<1>2. /\ current' = current + 1 /\ current' \in Threads
      /\ \A t \in Threads : thread'[t] = IF t = current + 1 THEN "flowing" ELSE thread[t]
  BY ThreadsAssumption DEF IInv, TypeOK, Launch, Threads
<1>3. TypeOK'
  <2>1. \A t \in Threads : thread[t] = "unborn" <=> t > current
    BY DEF IInv, TypeOK
  <2>2. \A t \in Threads : thread'[t] = "unborn" <=> t > current'
    BY <1>1, <1>2, <2>1 DEF IInv, TypeOK, Threads
  <2>3. thread' \in [Threads -> {"unborn", "flowing", "gone"} \cup Unwinding]
    BY DEF IInv, TypeOK, Launch
  <2>4. current' \in 0..MaxThreads
    BY <1>2, ThreadsAssumption DEF Threads
  <2>5. /\ running' \in BOOLEAN /\ lastError' \in BOOLEAN /\ lastException' \in BOOLEAN
        /\ sample' \subseteq BOOLEAN
    BY DEF IInv, TypeOK, Launch
  <2>. QED  BY <2>2, <2>3, <2>4, <2>5 DEF TypeOK
<1>4. OthersGone'
  BY <1>1, <1>2 DEF OthersGone, Threads, IInv, TypeOK
<1>5. Noted'
  <2>1. \A t \in Threads : thread'[t] \in {"gone", "flowing", "unborn"}
    BY <1>1, <1>2 DEF IInv, TypeOK, Threads
  <2>. QED  BY <2>1 DEF Noted
<1>6. ErrorVisible'
  BY DEF ErrorVisible, Launch
<1>. QED  BY <1>3, <1>4, <1>5, <1>6 DEF IInv, NoneYet

\* What a thread does to itself never disturbs the others.
LEMMA DataflowIInv ==
  ASSUME IInv, NEW t \in Threads, DataflowStep(t)
  PROVE  IInv'
<1>. USE DEF IInv, Apart, Goes
<1>1. /\ current' = current /\ phase' = phase /\ thread[t] \in {"flowing"} \cup Unwinding
      /\ thread'[t] \in {"gone"} \cup Unwinding
      /\ \A u \in Threads : u # t => thread'[u] = thread[u]
  BY DEF DataflowStep, Unwind, Raise, Note, Explain, Flag, End, Leave, TypeOK, Unwinding
<1>2. TypeOK'
  BY <1>1, ThreadsAssumption
     DEF DataflowStep, Unwind, Raise, Note, Explain, Flag, End, Leave, TypeOK, Unwinding, Threads
<1>3. OthersGone'
  BY <1>1 DEF OthersGone, Unwinding
<1>4. Noted'
  BY <1>1 DEF Noted, DataflowStep, Unwind, Raise, Note, Explain, Flag, End, Leave, TypeOK
<1>5. ErrorVisible'
  BY DEF ErrorVisible, Noted, DataflowStep, Unwind, Raise, Note, Explain, Flag, End, Leave
<1>. QED  BY <1>1, <1>2, <1>3, <1>4, <1>5 DEF NoneYet

LEMMA StepIInv == IInv /\ [Next]_vars => IInv'
<1>. SUFFICES ASSUME IInv, [Next]_vars PROVE IInv'
  OBVIOUS
<1>. USE DEF runtime
<1>1. CASE Startup
  <2>1. CASE Autostart
    <3>1. Launch
      BY <1>1, <2>1 DEF Startup
    <3>2. current = 0 \/ ~IsAlive(current)
      BY <1>1 DEF Startup, IInv, NoneYet
    <3>. QED  BY <1>1, <3>1, <3>2, LaunchIInv DEF Startup
  <2>2. CASE ~Autostart
    BY <1>1, <2>2 DEF Startup, IInv, TypeOK, NoneYet, OthersGone, Noted, ErrorVisible
  <2>. QED  BY <2>1, <2>2
<1>2. CASE Start
  <2>1. CASE current # 0 /\ IsAlive(current)
    BY <1>2, <2>1 DEF Start, IInv, TypeOK, NoneYet, OthersGone, Noted, ErrorVisible
  <2>2. CASE ~(current # 0 /\ IsAlive(current))
    <3>1. Launch
      BY <1>2, <2>2 DEF Start
    <3>. QED  BY <1>2, <2>2, <3>1, LaunchIInv DEF Start, IInv, TypeOK
  <2>. QED  BY <2>1, <2>2
<1>3. CASE Shutdown
  BY <1>3 DEF Shutdown, IInv, TypeOK, NoneYet, OthersGone, Noted, ErrorVisible
<1>4. CASE MonitorReads
  <2>1. Healthy \in BOOLEAN
    BY DEF Healthy, IsAlive, IInv, TypeOK
  <2>. QED  BY <1>4, <2>1 DEF MonitorReads, IInv, TypeOK, NoneYet, OthersGone, Noted, ErrorVisible
<1>5. CASE MonitorWrites
  BY <1>5 DEF MonitorWrites, IInv, TypeOK, NoneYet, OthersGone, Noted, ErrorVisible
<1>6. ASSUME NEW t \in Threads, DataflowStep(t) PROVE IInv'
  BY <1>6, DataflowIInv
<1>7. CASE UNCHANGED vars
  BY <1>7 DEF vars, IInv, TypeOK, NoneYet, OthersGone, Noted, ErrorVisible
<1>. QED  BY <1>1, <1>2, <1>3, <1>4, <1>5, <1>6, <1>7 DEF Next, DataflowStep

LEMMA AlwaysIInv == Spec => []IInv
  BY InitIInv, StepIInv, PTL DEF Spec

\* The type invariant, and: dataflow threads are numbered as they were started.
THEOREM TypeCorrect == Spec => []TypeOK
<1>1. IInv => TypeOK
  BY DEF IInv
<1>. QED  BY <1>1, AlwaysIInv, PTL

\* An alive thread is the current one.
LEMMA AliveIsCurrent ==
  ASSUME IInv, NEW t \in Threads, IsAlive(t)
  PROVE  t = current
BY DEF IInv, TypeOK, NoneYet, OthersGone, IsAlive, Threads, Unwinding

LEMMA LaunchSole ==
  ASSUME IInv, Launch, current = 0 \/ ~IsAlive(current)
  PROVE  Sole!Start
<1>1. Living = {}
  <2>1. \A t \in Threads : ~IsAlive(t)
    BY AliveIsCurrent DEF Threads
  <2>. QED  BY <2>1 DEF Living
<1>2. /\ current' = current + 1 /\ current + 1 \in Threads
      /\ \A t \in Threads : IsAlive(t)' <=> t = current + 1
  <2>1. current + 1 \in Threads /\ current' = current + 1
    BY ThreadsAssumption DEF Launch, Threads, IInv, TypeOK
  <2>2. \A t \in Threads : thread'[t] = IF t = current + 1 THEN "flowing" ELSE thread[t]
    BY <2>1 DEF Launch, IInv, TypeOK
  <2>3. \A t \in Threads : ~IsAlive(t)
    BY <1>1 DEF Living
  <2>. QED  BY <2>1, <2>2, <2>3 DEF IsAlive
<1>3. Living' = {current + 1}
  BY <1>2 DEF Living
<1>. QED  BY <1>1, <1>2, <1>3 DEF Sole!Start

\* The dataflow of the worker is such a thread: start() makes one only when the last
\* has ended, whatever requests and failures there were.
THEOREM DataflowIsSole == Spec => SoleDataflow
<1>1. Init => Sole!Init
  BY DEF Init, Sole!Init, Living, IsAlive, Unwinding
<1>2. IInv /\ [Next]_vars => [Sole!Next]_(Sole!vars)
  <2>. SUFFICES ASSUME IInv, [Next]_vars PROVE [Sole!Next]_(Sole!vars)
    OBVIOUS
  <2>1. ASSUME UNCHANGED current, \A t \in Threads : IsAlive(t)' <=> IsAlive(t)
        PROVE  [Sole!Next]_(Sole!vars)
    BY <2>1 DEF Sole!vars, Living
  <2>2. CASE Launch /\ (current = 0 \/ ~IsAlive(current))
    BY <2>2, LaunchSole DEF Sole!Next
  <2>3. CASE Startup
    <3>1. current = 0
      BY <2>3 DEF Startup, IInv, NoneYet
    <3>. QED  BY <2>1, <2>2, <2>3, <3>1 DEF Startup, runtime, IsAlive
  <2>4. CASE Start
    BY <2>1, <2>2, <2>4 DEF Start, runtime, IsAlive
  <2>5. CASE Shutdown \/ MonitorReads \/ MonitorWrites \/ UNCHANGED vars
    BY <2>1, <2>5 DEF Shutdown, MonitorReads, MonitorWrites, vars, runtime, IsAlive
  <2>6. ASSUME NEW t \in Threads, Raise(t) \/ Note(t) \/ Explain(t) \/ Flag(t)
        PROVE  [Sole!Next]_(Sole!vars)
    BY <2>1, <2>6 DEF Raise, Note, Explain, Flag, Goes, Apart, IsAlive, Unwinding, IInv, TypeOK
  <2>7. ASSUME NEW t \in Threads, End(t) \/ Leave(t) PROVE [Sole!Next]_(Sole!vars)
    <3>1. IsAlive(t) /\ t = current /\ UNCHANGED current /\ thread'[t] = "gone"
      BY <2>7, AliveIsCurrent
         DEF End, Leave, Goes, Apart, IsAlive, Unwinding, IInv, TypeOK
    <3>2. \A u \in Threads : u # t => ~IsAlive(u) /\ thread'[u] = thread[u]
      BY <2>7, <3>1, AliveIsCurrent DEF End, Leave, Goes, IInv, TypeOK
    <3>3. Living # {} /\ Living' = {}
      BY <3>1, <3>2 DEF Living, IsAlive, Unwinding
    <3>. QED  BY <3>1, <3>3 DEF Sole!Next, Sole!End
  <2>. QED  BY <2>3, <2>4, <2>5, <2>6, <2>7 DEF Next, Unwind
<1>. QED  BY <1>1, <1>2, AlwaysIInv, PTL DEF Spec, SoleDataflow, Sole!Spec

\* healthy() is never true of a dataflow that has ended or is known to have failed.
THEOREM HealthyIsHonest == Spec => []HealthyConsumes
<1>1. ASSUME IInv PROVE HealthyConsumes
  BY <1>1 DEF IInv, TypeOK, Noted, HealthyConsumes, Healthy, IsAlive, Unwinding, Threads
<1>. QED  BY <1>1, AlwaysIInv, PTL

\* While the service is up, a dataflow shown as not running has a visible error.
THEOREM ErrorsAreVisible == Spec => []ErrorVisible
<1>1. IInv => ErrorVisible
  BY DEF IInv
<1>. QED  BY <1>1, AlwaysIInv, PTL

\* A failure that the monitor has noticed, and published, and not read again.
Failed == lastException /\ TRUE \notin sample /\ ~workerReady

\* RestartedIsReady, which a run refutes, fails for every restart: start() does not
\* clear _last_exception, so whatever is started after a failure that the monitor
\* has noticed, readiness never comes back.
THEOREM FailureIsForEver == Spec => [](Failed => []Failed)
<1>1. ASSUME Failed, Next PROVE lastException'
  BY <1>1 DEF Failed, Next, Startup, Launch, Start, Shutdown, MonitorReads, MonitorWrites, Raise,
              Unwind, Note, Explain, Flag, End, Leave, runtime
<1>2. ASSUME Failed, lastException', UNCHANGED sample,
             workerReady' = FALSE \/ UNCHANGED workerReady
      PROVE  Failed'
  <2>1. TRUE \notin sample'
    BY <1>2 DEF Failed
  <2>2. ~workerReady'
    BY <1>2, Zenon DEF Failed
  <2>. QED  BY <1>2, <2>1, <2>2, Zenon DEF Failed
<1>3. ASSUME Failed, Next PROVE Failed'
  <2>1. CASE MonitorReads
    <3>1. sample' = {Healthy} /\ UNCHANGED workerReady /\ Healthy = FALSE
      BY <1>3, <2>1, Zenon DEF MonitorReads, Healthy, Failed
    <3>2. TRUE \notin sample'
      BY <3>1
    <3>. QED  BY <1>1, <1>3, <3>1, <3>2, Zenon DEF Failed
  <2>2. CASE MonitorWrites
    <3>1. workerReady' \in sample /\ sample' = {}
      BY <2>2 DEF MonitorWrites
    <3>. QED  BY <1>1, <1>3, <3>1 DEF Failed
  <2>3. CASE Startup \/ Start \/ Shutdown
    <3>1. UNCHANGED sample /\ (workerReady' = FALSE \/ UNCHANGED workerReady)
      BY <2>3, Zenon DEF Startup, Start, Shutdown
    <3>. QED  BY <1>1, <1>2, <1>3, <3>1
  <2>4. ASSUME NEW t \in Threads, DataflowStep(t) PROVE Failed'
    <3>1. UNCHANGED <<sample, workerReady>>
      BY <2>4 DEF DataflowStep, Raise, Unwind, Note, Explain, Flag, End, Leave, Apart
    <3>. QED  BY <1>1, <1>2, <1>3, <3>1
  <2>. QED  BY <1>3, <2>1, <2>2, <2>3, <2>4 DEF Next, DataflowStep
<1>4. ASSUME Failed, UNCHANGED vars PROVE Failed'
  BY <1>4, <1>2, Zenon DEF vars, runtime, Failed
<1>5. Failed /\ [Next]_vars => Failed'
  BY <1>3, <1>4
<1>. QED  BY <1>5, PTL DEF Spec
===============================================================================
