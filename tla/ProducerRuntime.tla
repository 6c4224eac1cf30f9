---------------------------- MODULE ProducerRuntime ----------------------------
(***************************************************************************)
(* The synthetic producer: a loop thread that generates and publishes      *)
(* events, and the HTTP handlers that start it, stop it, publish a burst   *)
(* and change its rate for a while. Handlers are coroutines without an     *)
(* await, so one runs at a time (Http); the loop interleaves with every  *)
(* statement of theirs. Both reach Kafka through one client, made on first *)
(* use without a lock and closed by stop().                                *)
(***************************************************************************)
EXTENDS Integers

CONSTANTS MaxLoops,   \* bound on the loop threads ever started
          MaxClients, \* bound on the Kafka clients ever made
          Limits      \* values of settings.producer_max_events, 0 for no limit

ASSUME ProducerAssumption ==
  /\ MaxLoops \in Nat /\ MaxClients \in Nat /\ Limits \subseteq Nat

VARIABLES
  at,        \* where each loop and the handler thread are
  loop,      \* ProducerRuntime._thread, 0 for None
  stopEvent, \* _stop_event is set
  running,   \* stats.running
  told,      \* what the last answer to a start or stop said
  client,    \* _producer, 0 for None
  made,      \* how many clients were made
  open,      \* those not closed
  mine,      \* the client a publisher has in hand
  generated, \* stats.generated_events, as far as the limit counts
  limit,     \* settings.producer_max_events
  profile,   \* the current rate and fraud ratio, and the override's deadline
  generator, \* generator.fraud_ratio
  shown      \* the profile in stats

control == <<loop, stopEvent, running, told>>
kafka == <<client, made, open>>
profiles == <<profile, generator, shown>>
vars == <<at, control, kafka, mine, generated, limit, profiles>>

Loops == 1..MaxLoops
Http == 0
Publishers == Loops \cup {Http}
Publishing == {"get", "make", "ret", "send"}
IsAlive(t) == at[t] \in Publishing \cup {"top", "pace"}

Default == [rate |-> "default", ratio |-> "default", override |-> "none"]

Init == /\ at = [p \in Publishers |-> IF p = Http THEN "idle" ELSE "unborn"]
        /\ loop = 0 /\ stopEvent = FALSE /\ running = FALSE /\ told = "nothing"
        /\ client = 0 /\ made = 0 /\ open = {} /\ mine = [p \in Publishers |-> 0]
        /\ generated = 0 /\ limit \in Limits
        /\ profile = Default /\ generator = "default" /\ shown = Default

Goes(p, from, to) == at[p] = from /\ at' = [at EXCEPT ![p] = to]
-------------------------------------------------------------------------------
(* publish(), by the loop or by a burst.                                   *)

\* _get_producer: the test, the construction, and the second read.
Look(p) == /\ Goes(p, "get", IF client = 0 THEN "make" ELSE "ret")
           /\ UNCHANGED <<control, kafka, mine, generated, limit, profiles>>
Connect(p) == /\ made < MaxClients
              /\ Goes(p, "make", "ret")
              /\ made' = made + 1 /\ client' = made + 1 /\ open' = open \cup {made + 1}
              /\ UNCHANGED <<control, mine, generated, limit, profiles>>
Take(p) == /\ client # 0
           /\ Goes(p, "ret", "send") /\ mine' = [mine EXCEPT ![p] = client]
           /\ UNCHANGED <<control, kafka, generated, limit, profiles>>

\* A burst goes on to its next event or is answered.
Send(p) == /\ mine[p] \in open
           /\ \E to \in IF p = Http THEN {"get", "idle"} ELSE {"pace"} : Goes(p, "send", to)
           /\ mine' = [mine EXCEPT ![p] = 0]
           /\ generated' = IF generated < limit THEN generated + 1 ELSE generated
           /\ UNCHANGED <<control, kafka, limit, profiles>>

\* No broker, a flush that times out, a closed client, or None where a client
\* was expected: the loop dies of it with running still set, a burst answers 500.
Break(p) == /\ at[p] \in {"make", "send"} \/ (at[p] = "ret" /\ client = 0)
            /\ at' = [at EXCEPT ![p] = IF p = Http THEN "idle" ELSE "gone"]
            /\ mine' = [mine EXCEPT ![p] = 0]
            /\ UNCHANGED <<control, kafka, generated, limit, profiles>>

Publish(p) == Look(p) \/ Connect(p) \/ Take(p) \/ Send(p) \/ Break(p)
-------------------------------------------------------------------------------
(* The loop.                                                               *)

\* Variant: the deadline is never looked at.
ExpireNever == UNCHANGED profiles

\* _expire_profile_if_needed, under the profile lock.
Expire == IF profile.override = "due"
          THEN profile' = Default /\ generator' = "default" /\ shown' = Default
          ELSE UNCHANGED profiles

\* Variant of a turn: the stop event is not looked at.
GenerateAnyway(t) == /\ Goes(t, "top", "get") /\ Expire
                     /\ UNCHANGED <<control, kafka, mine, generated, limit>>

Generate(t) == /\ ~stopEvent
               /\ Goes(t, "top", "get") /\ Expire
               /\ UNCHANGED <<control, kafka, mine, generated, limit>>
Leave(t) == /\ stopEvent /\ Goes(t, "top", "gone")
            /\ UNCHANGED <<control, kafka, mine, generated, limit, profiles>>

\* The sleep; its length is read through the property that expires the profile.
LimitReached == limit # 0 /\ generated >= limit
Pace(t) == /\ ~LimitReached /\ Goes(t, "pace", "top") /\ Expire
           /\ UNCHANGED <<control, kafka, mine, generated, limit>>

\* stop() in the loop itself sets the event; joining itself raises, and the
\* loop is gone before it closes the client and clears running.
SelfStop(t) == /\ LimitReached /\ Goes(t, "pace", "gone") /\ stopEvent' = TRUE
               /\ UNCHANGED <<loop, running, told, kafka, mine, generated, limit, profiles>>

Turn(t) == Publish(t) \/ Generate(t) \/ Leave(t) \/ Pace(t) \/ SelfStop(t)
-------------------------------------------------------------------------------
(* The handlers.                                                           *)

\* Variant: the Thread is made and kept, and never started.
LaunchUnstarted == /\ loop < MaxLoops
                   /\ stopEvent' = FALSE /\ running' = TRUE /\ loop' = loop + 1
                   /\ UNCHANGED at
Launch == /\ loop < MaxLoops
          /\ stopEvent' = FALSE /\ running' = TRUE /\ loop' = loop + 1
          /\ at' = [at EXCEPT ![loop + 1] = "top"]

\* Variants of start(): by the flag; with the event cleared before the test.
StartByFlag == /\ at[Http] = "idle" /\ told' = "started"
               /\ IF running THEN UNCHANGED <<at, loop, stopEvent, running>> ELSE Launch
               /\ UNCHANGED <<kafka, mine, generated, limit, profiles>>
StartClearsFirst == /\ at[Http] = "idle" /\ told' = "started"
                    /\ IF loop # 0 /\ IsAlive(loop)
                       THEN stopEvent' = FALSE /\ UNCHANGED <<at, loop, running>>
                       ELSE Launch
                    /\ UNCHANGED <<kafka, mine, generated, limit, profiles>>

\* POST /producer/start, and the start of the service with producer_autostart.
Start == /\ at[Http] = "idle" /\ told' = "started"
         /\ IF loop # 0 /\ IsAlive(loop)
            THEN UNCHANGED <<at, loop, stopEvent, running>> ELSE Launch
         /\ UNCHANGED <<kafka, mine, generated, limit, profiles>>

\* POST /producer/stop, and the shutdown of the service. The join ends with the
\* loop or after three seconds, whatever the loop is doing then.
Stop == /\ Goes(Http, "idle", IF loop # 0 /\ IsAlive(loop) THEN "join" ELSE "close")
        /\ stopEvent' = TRUE /\ told' = "nothing"
        /\ UNCHANGED <<loop, running, kafka, mine, generated, limit, profiles>>
Joined == /\ Goes(Http, "join", "close")
          /\ UNCHANGED <<control, kafka, mine, generated, limit, profiles>>

\* Variant: _producer still names the client after it is closed.
CloseKeepsClient == /\ Goes(Http, "close", "idle")
                    /\ open' = open \ {client} /\ running' = FALSE /\ told' = "stopped"
                    /\ UNCHANGED <<loop, stopEvent, client, made, mine, generated, limit, profiles>>
Close == /\ Goes(Http, "close", "idle")
         /\ client' = 0 /\ open' = open \ {client} /\ running' = FALSE /\ told' = "stopped"
         /\ UNCHANGED <<loop, stopEvent, made, mine, generated, limit, profiles>>
\* flush() before it raises: the client stays, and so does running.
CloseFails == /\ client # 0 /\ Goes(Http, "close", "idle")
              /\ UNCHANGED <<control, kafka, mine, generated, limit, profiles>>

Burst == /\ Goes(Http, "idle", "get")
         /\ UNCHANGED <<control, kafka, mine, generated, limit, profiles>>

\* POST /producer/boost; a request without a rate leaves the rate as it is.
Boost == /\ at[Http] = "idle"
         /\ \E r \in {"boosted", profile.rate} :
              profile' = [rate |-> r, ratio |-> "boosted", override |-> "set"]
         /\ generator' = "boosted" /\ shown' = profile'
         /\ UNCHANGED <<at, control, kafka, mine, generated, limit>>
Elapse == /\ profile.override = "set"
          /\ profile' = [profile EXCEPT !.override = "due"]
          /\ UNCHANGED <<at, control, kafka, mine, generated, limit, generator, shown>>

\* Variant: the generator keeps the boosted ratio.
ResetForgetsGenerator == /\ at[Http] = "idle"
                         /\ profile' = Default /\ shown' = Default
                         /\ UNCHANGED <<at, control, kafka, mine, generated, limit, generator>>
Reset == /\ at[Http] = "idle"
         /\ profile' = Default /\ generator' = "default" /\ shown' = Default
         /\ UNCHANGED <<at, control, kafka, mine, generated, limit>>
-------------------------------------------------------------------------------
Handler == \/ Start \/ Stop \/ Joined \/ Close \/ CloseFails
           \/ Burst \/ Publish(Http) \/ Boost \/ Reset
Next == Handler \/ Elapse \/ \E t \in Loops : Turn(t)

\* The loop runs and its calls to Kafka end, by their timeouts if need be.
Spec == Init /\ [][Next]_vars /\ \A t \in Loops : WF_vars(Turn(t))
-------------------------------------------------------------------------------
\* Threads are numbered in the order they start, and clients in the order they
\* are made.
TypeOK == /\ at \in [Publishers -> Publishing \cup {"idle", "join", "close",
                                                   "unborn", "top", "pace", "gone"}]
          /\ at[Http] \in Publishing \cup {"idle", "join", "close"}
          /\ \A t \in Loops : at[t] \notin {"idle", "join", "close"}
          /\ loop \in 0..MaxLoops /\ \A t \in Loops : at[t] = "unborn" <=> t > loop
          /\ stopEvent \in BOOLEAN /\ running \in BOOLEAN
          /\ told \in {"nothing", "started", "stopped"}
          /\ made \in 0..MaxClients /\ client \in 0..made /\ open \subseteq 1..made
          /\ mine \in [Publishers -> 0..made]
          /\ \A p \in Publishers : mine[p] # 0 <=> at[p] = "send"
          /\ limit \in Limits /\ generated \in 0..limit
          /\ {profile, shown} \subseteq [rate : {"default", "boosted"},
                 ratio : {"default", "boosted"}, override : {"none", "set", "due"}]
          /\ generator \in {"default", "boosted"}

\* However starts and stops alternate, also when a stop gave up waiting for the loop,
\* a loop is started only when the last one has ended: two would double the rate and
\* share the generator.
Living == {t \in Loops : IsAlive(t)}
Sole == INSTANCE SoleThread WITH born <- loop, living <- Living
SoleLoop == Sole!Spec

\* What /producer/status shows as not running has no loop, or one that will end.
StoppedIsStopping == ~running => stopEvent \/ \A t \in Loops : ~IsAlive(t)

\* Only a loop that is being stopped can come to publish through a client that
\* stop() has closed; a burst and a loop that goes on never do.
ClosedOnlyWhenStopping ==
  \A p \in Publishers : (at[p] = "send" /\ mine[p] \notin open) => (p # Http /\ stopEvent)

\* The generator draws with the ratio in force, stats shows the profile in force
\* but for the passing of the deadline, and without an override it is the default.
ProfileAgrees == /\ generator = profile.ratio
                 /\ [shown EXCEPT !.override = profile.override] = profile
                 /\ shown.override = "none" <=> profile.override = "none"
                 /\ profile.override = "none" => profile = Default

\* Once stop() has set the event the loop ends, also when nobody waits for it.
StopStops == stopEvent ~> \A t \in Loops : ~IsAlive(t)

\* A boost whose time is over ends while the loop is alive, unless it is renewed.
BoostEnds == (profile.override = "due")
               ~> (profile.override # "due" \/ \A t \in Loops : ~IsAlive(t))

\* "If the producer was paused during a demo, resume it": a start that is answered
\* leaves a producer that goes on. A loop that has not seen the stop yet makes
\* start() return early, with the event still set.
StartedIsNotStopping == told = "started" => ~stopEvent
===============================================================================
