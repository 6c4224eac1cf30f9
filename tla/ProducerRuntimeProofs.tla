------------------------- MODULE ProducerRuntimeProofs -------------------------
(***************************************************************************)
(* Safety of ProducerRuntime for any number of loops, clients and limits.  *)
(* The type already numbers threads and clients. The inductive invariant   *)
(* adds that every loop before the last one is gone, that a stop() which   *)
(* is under way has set the event, and that the client the runtime names   *)
(* has not been closed.                                                    *)
(***************************************************************************)
EXTENDS ProducerRuntime, TLAPS

OthersGone == \A t \in Loops : t < loop => at[t] = "gone"
StopIsSet == at[Http] \in {"join", "close"} => stopEvent
ClientIsOpen == client # 0 => client \in open

Inv == /\ TypeOK /\ OthersGone /\ StopIsSet /\ ClientIsOpen
       /\ StoppedIsStopping /\ ClosedOnlyWhenStopping

Places == Publishing \cup {"idle", "join", "close", "unborn", "top", "pace", "gone"}

\* The type, in the parts that the steps change together.
AtOK == /\ at \in [Publishers -> Places]
        /\ at[Http] \in Publishing \cup {"idle", "join", "close"}
        /\ \A t \in Loops : at[t] \notin {"idle", "join", "close"}
        /\ loop \in 0..MaxLoops /\ \A t \in Loops : at[t] = "unborn" <=> t > loop
KafkaOK == /\ made \in 0..MaxClients /\ client \in 0..made /\ open \subseteq 1..made
           /\ mine \in [Publishers -> 0..made]
           /\ \A p \in Publishers : mine[p] # 0 <=> at[p] = "send"
FlagsOK == /\ stopEvent \in BOOLEAN /\ running \in BOOLEAN
           /\ told \in {"nothing", "started", "stopped"}
LimitOK == limit \in Limits /\ generated \in 0..limit
ProfileOK == /\ {profile, shown} \subseteq [rate : {"default", "boosted"},
                  ratio : {"default", "boosted"}, override : {"none", "set", "due"}]
             /\ generator \in {"default", "boosted"}

LEMMA TypeParts == TypeOK <=> AtOK /\ KafkaOK /\ FlagsOK /\ LimitOK /\ ProfileOK
  BY DEF TypeOK, AtOK, KafkaOK, FlagsOK, LimitOK, ProfileOK, Places

\* A step either starts a loop, which needs the last one dead and the handlers
\* idle, or moves one publisher from a place it can leave, or moves nobody.
HttpPlaces == Publishing \cup {"idle", "join", "close"}
LoopPlaces == Publishing \cup {"top", "pace", "gone"}
Moves(p) == /\ loop' = loop /\ at[p] \notin {"unborn", "gone"}
            /\ \E x \in IF p = Http THEN HttpPlaces ELSE LoopPlaces : at' = [at EXCEPT ![p] = x]
Launches == Launch /\ at[Http] = "idle" /\ (loop = 0 \/ ~IsAlive(loop))
Stays == UNCHANGED <<at, loop>>

LEMMA PublishMoves ==
  ASSUME NEW p \in Publishers, Publish(p)
  PROVE  Moves(p)
<1>. USE DEF Goes, control, Moves, HttpPlaces, LoopPlaces, Publishing
<1>1. CASE Look(p)     BY <1>1 DEF Look
<1>2. CASE Connect(p)  BY <1>2 DEF Connect
<1>3. CASE Take(p)     BY <1>3 DEF Take
<1>4. CASE Send(p)     BY <1>4 DEF Send
<1>5. CASE Break(p)    BY <1>5 DEF Break
<1>. QED  BY <1>1, <1>2, <1>3, <1>4, <1>5 DEF Publish

LEMMA StepShape ==
  ASSUME AtOK, [Next]_vars
  PROVE  Launches \/ (\E p \in Publishers : Moves(p)) \/ Stays
<1>. USE DEF Goes, control, Moves, HttpPlaces, LoopPlaces, Publishing, Stays
<1>1. Http \in Publishers /\ Http \notin Loops /\ Loops \subseteq Publishers
  BY DEF Http, Publishers, Loops
<1>2. ASSUME NEW t \in Loops, Turn(t) PROVE Moves(t)
  <2>1. CASE Publish(t)   BY <1>1, <2>1, PublishMoves
  <2>2. CASE Generate(t)  BY <1>1, <2>2 DEF Generate
  <2>3. CASE Leave(t)     BY <1>1, <2>3 DEF Leave
  <2>4. CASE Pace(t)      BY <1>1, <2>4 DEF Pace
  <2>5. CASE SelfStop(t)  BY <1>1, <2>5 DEF SelfStop
  <2>. QED  BY <1>2, <2>1, <2>2, <2>3, <2>4, <2>5 DEF Turn
<1>3. CASE Start          BY <1>3 DEF Start, Launches
<1>4. CASE Stop           BY <1>1, <1>4 DEF Stop
<1>5. CASE Joined         BY <1>1, <1>5 DEF Joined
<1>6. CASE Close          BY <1>1, <1>6 DEF Close
<1>7. CASE CloseFails     BY <1>1, <1>7 DEF CloseFails
<1>8. CASE Burst          BY <1>1, <1>8 DEF Burst
<1>9. CASE Publish(Http)  BY <1>1, <1>9, PublishMoves
<1>10. CASE Boost \/ Reset \/ Elapse \/ UNCHANGED vars
  BY <1>10 DEF Boost, Reset, Elapse, vars
<1>. QED
  BY <1>1, <1>2, <1>3, <1>4, <1>5, <1>6, <1>7, <1>8, <1>9, <1>10 DEF Next, Handler

\* Threads are numbered as they start, and all but the last are gone.
LEMMA AtStep ==
  ASSUME AtOK, OthersGone, [Next]_vars
  PROVE  AtOK' /\ OthersGone'
<1>. USE DEF AtOK, OthersGone
<1>0. /\ Http \in Publishers /\ Http \notin Loops /\ Loops \subseteq Publishers
      /\ Publishers = Loops \cup {Http}
  BY DEF Http, Publishers, Loops
<1>1. CASE Launches
  <2>1. \A t \in Loops : t <= loop => at[t] = "gone"
    BY <1>0, <1>1 DEF Launches, IsAlive, Loops, Places, Publishing
  <2>2. /\ loop' = loop + 1 /\ loop' \in Loops /\ at'[Http] = at[Http]
        /\ at' \in [Publishers -> Places]
        /\ \A t \in Loops : at'[t] = IF t = loop' THEN "top" ELSE at[t]
    BY <1>0, <1>1, ProducerAssumption DEF Launches, Launch, Loops, Places
  <2>. QED  BY <2>1, <2>2, ProducerAssumption DEF Loops
<1>2. ASSUME NEW p \in Publishers, Moves(p) PROVE AtOK' /\ OthersGone'
  <2>1. PICK x \in (IF p = Http THEN HttpPlaces ELSE LoopPlaces) : at' = [at EXCEPT ![p] = x]
    BY <1>2 DEF Moves
  <2>2. x \in Places /\ x # "unborn"
    BY <2>1 DEF Places, HttpPlaces, LoopPlaces, Publishing
  <2>3. \A q \in Publishers : at'[q] = IF q = p THEN x ELSE at[q]
    BY <2>1
  <2>4. at' \in [Publishers -> Places]
    BY <2>1, <2>2
  <2>5. at'[Http] \in HttpPlaces
    BY <1>0, <2>1, <2>3 DEF HttpPlaces
  <2>6. \A t \in Loops : at'[t] \notin {"idle", "join", "close"}
    BY <1>0, <2>1, <2>3 DEF LoopPlaces, Publishing
  <2>7. \A t \in Loops : at'[t] = "unborn" <=> t > loop
    BY <1>0, <1>2, <2>2, <2>3 DEF Moves
  <2>8. \A t \in Loops : t < loop => at'[t] = "gone"
    BY <1>0, <1>2, <2>3 DEF Moves
  <2>. QED  BY <1>2, <2>4, <2>5, <2>6, <2>7, <2>8 DEF Moves, HttpPlaces
<1>3. CASE Stays
  BY <1>3 DEF Stays
<1>. QED  BY <1>1, <1>2, <1>3, StepShape

\* Clients are numbered as they are made; a publisher has one in hand only
\* between taking and sending.
Handless == /\ UNCHANGED <<kafka, mine>>
            /\ \A p \in Publishers : at'[p] = "send" <=> at[p] = "send"

LEMMA PublishKafka ==
  ASSUME AtOK, KafkaOK, NEW p \in Publishers, Publish(p)
  PROVE  KafkaOK'
<1>. USE ProducerAssumption DEF AtOK, KafkaOK, Goes, kafka
<1>1. CASE Look(p)     BY <1>1 DEF Look
<1>2. CASE Connect(p)
  <2>1. made' \in 0..MaxClients /\ client' \in 0..made' /\ open' \subseteq 1..made'
    BY <1>2 DEF Connect
  <2>2. mine' \in [Publishers -> 0..made']
    BY <1>2 DEF Connect
  <2>3. \A q \in Publishers : mine'[q] # 0 <=> at'[q] = "send"
    BY <1>2 DEF Connect
  <2>. QED  BY <2>1, <2>2, <2>3
<1>3. CASE Take(p)     BY <1>3 DEF Take
<1>4. CASE Send(p)     BY <1>4 DEF Send
<1>5. CASE Break(p)    BY <1>5 DEF Break
<1>. QED  BY <1>1, <1>2, <1>3, <1>4, <1>5 DEF Publish

LEMMA KafkaStep ==
  ASSUME AtOK, KafkaOK, [Next]_vars
  PROVE  KafkaOK'
<1>. USE DEF AtOK, Goes
<1>0. /\ Http \in Publishers /\ Http \notin Loops /\ Loops \subseteq Publishers
  BY DEF Http, Publishers, Loops
<1>1. ASSUME Handless PROVE KafkaOK'
  BY <1>1 DEF Handless, kafka, KafkaOK
<1>2. ASSUME NEW t \in Loops, Turn(t) PROVE KafkaOK'
  <2>1. CASE Publish(t)   BY <1>0, <2>1, PublishKafka
  <2>2. CASE Generate(t)  BY <1>0, <1>1, <2>2 DEF Generate, Handless
  <2>3. CASE Leave(t)     BY <1>0, <1>1, <2>3 DEF Leave, Handless
  <2>4. CASE Pace(t)      BY <1>0, <1>1, <2>4 DEF Pace, Handless
  <2>5. CASE SelfStop(t)  BY <1>0, <1>1, <2>5 DEF SelfStop, Handless
  <2>. QED  BY <1>2, <2>1, <2>2, <2>3, <2>4, <2>5 DEF Turn
<1>3. CASE Start
  <2>1. CASE Launch
    <3>1. loop + 1 \in Loops /\ at[loop + 1] = "unborn"
      BY <2>1, ProducerAssumption DEF Launch, Loops
    <3>. QED  BY <1>0, <1>1, <1>3, <2>1, <3>1 DEF Launch, Start, Handless
  <2>2. CASE ~Launch
    BY <1>1, <1>3, <2>2 DEF Start, Handless
  <2>. QED  BY <2>1, <2>2
<1>4. CASE Stop           BY <1>0, <1>1, <1>4 DEF Stop, Handless
<1>5. CASE Joined         BY <1>0, <1>1, <1>5 DEF Joined, Handless
<1>6. CASE Close
  BY <1>0, <1>6 DEF Close, KafkaOK
<1>7. CASE CloseFails     BY <1>0, <1>1, <1>7 DEF CloseFails, Handless
<1>8. CASE Burst          BY <1>0, <1>1, <1>8 DEF Burst, Handless
<1>9. CASE Publish(Http)  BY <1>0, <1>9, PublishKafka
<1>10. CASE Boost \/ Reset \/ Elapse \/ UNCHANGED vars
  BY <1>1, <1>10 DEF Boost, Reset, Elapse, vars, Handless
<1>. QED
  BY <1>2, <1>3, <1>4, <1>5, <1>6, <1>7, <1>8, <1>9, <1>10 DEF Next, Handler

\* The flags, the count and the profile, which few steps change.
LEMMA FlagsStep ==
  ASSUME FlagsOK, [Next]_vars
  PROVE  FlagsOK'
  BY DEF FlagsOK, Next, Handler, Turn, Publish, Look, Connect, Take, Send, Break, Generate,
         Leave, Pace, SelfStop, Start, Launch, Stop, Joined, Close, CloseFails, Burst, Boost,
         Reset, Elapse, control, vars

LEMMA LimitStep ==
  ASSUME LimitOK, [Next]_vars
  PROVE  LimitOK'
<1>1. CASE \E p \in Publishers : Send(p)
  BY <1>1, ProducerAssumption DEF Send, LimitOK
<1>2. CASE ~\E p \in Publishers : Send(p)
  <2>1. Http \in Publishers /\ Loops \subseteq Publishers
    BY DEF Http, Publishers, Loops
  <2>2. UNCHANGED <<generated, limit>>
    BY <1>2, <2>1
       DEF Next, Handler, Turn, Publish, Look, Connect, Take, Break, Generate, Leave, Pace,
           SelfStop, Start, Stop, Joined, Close, CloseFails, Burst, Boost, Reset, Elapse, vars
  <2>. QED  BY <2>2 DEF LimitOK
<1>. QED  BY <1>1, <1>2

LEMMA ProfileShape ==
  ASSUME [Next]_vars
  PROVE  Expire \/ Boost \/ Elapse \/ Reset \/ UNCHANGED profiles
  BY DEF Next, Handler, Turn, Publish, Look, Connect, Take, Send, Break, Generate, Leave, Pace,
         SelfStop, Start, Stop, Joined, Close, CloseFails, Burst, profiles, vars

LEMMA ProfileStep ==
  ASSUME ProfileOK, [Next]_vars
  PROVE  ProfileOK'
<1>1. CASE Expire  BY <1>1 DEF Expire, ProfileOK, Default, profiles
<1>2. CASE Boost   BY <1>2 DEF Boost, ProfileOK
<1>3. CASE Elapse  BY <1>3 DEF Elapse, ProfileOK
<1>4. CASE Reset   BY <1>4 DEF Reset, ProfileOK, Default
<1>5. CASE UNCHANGED profiles  BY <1>5 DEF ProfileOK, profiles
<1>. QED  BY <1>1, <1>2, <1>3, <1>4, <1>5, ProfileShape

\* The generator and stats follow the profile in force.
LEMMA ProfileAgreesStep ==
  ASSUME ProfileOK, ProfileAgrees, [Next]_vars
  PROVE  ProfileAgrees'
<1>1. CASE Expire  BY <1>1 DEF Expire, ProfileOK, ProfileAgrees, Default, profiles
<1>2. CASE Boost   BY <1>2 DEF Boost, ProfileOK, ProfileAgrees, Default
<1>3. CASE Elapse  BY <1>3 DEF Elapse, ProfileOK, ProfileAgrees, Default
<1>4. CASE Reset   BY <1>4 DEF Reset, ProfileOK, ProfileAgrees, Default
<1>5. CASE UNCHANGED profiles  BY <1>5 DEF ProfileAgrees, profiles
<1>. QED  BY <1>1, <1>2, <1>3, <1>4, <1>5, ProfileShape

\* Only stop() sets the event to end a loop from outside, and it is set before
\* the join; only start() clears it, when no loop is left and no handler runs.
LEMMA StopIsSetStep ==
  ASSUME AtOK, StopIsSet, [Next]_vars
  PROVE  StopIsSet'
<1>. USE DEF AtOK, StopIsSet, Goes
<1>0. /\ Http \in Publishers /\ Http \notin Loops /\ Loops \subseteq Publishers
  BY DEF Http, Publishers, Loops
<1>1. ASSUME at'[Http] \in {"join", "close"} => at[Http] \in {"join", "close"},
             stopEvent' = stopEvent \/ stopEvent' = TRUE
      PROVE  StopIsSet'
  BY <1>1
<1>2. ASSUME NEW t \in Loops, Turn(t) PROVE StopIsSet'
  BY <1>0, <1>1, <1>2
     DEF Turn, Publish, Look, Connect, Take, Send, Break, Generate, Leave, Pace, SelfStop, control
<1>3. CASE Start
  <2>1. at'[Http] = "idle"
    BY <1>0, <1>3, ProducerAssumption DEF Start, Launch, Loops, Http
  <2>. QED  BY <2>1
<1>4. CASE Stop
  BY <1>4 DEF Stop
<1>5. CASE \/ Joined \/ Close \/ CloseFails \/ Burst \/ Publish(Http)
           \/ Boost \/ Reset \/ Elapse \/ UNCHANGED vars
  BY <1>0, <1>1, <1>5
     DEF Joined, Close, CloseFails, Burst, Publish, Look, Connect, Take, Send, Break,
         Boost, Reset, Elapse, control, vars
<1>. QED  BY <1>2, <1>3, <1>4, <1>5 DEF Next, Handler

LEMMA ClientStep ==
  ASSUME KafkaOK, ClientIsOpen, [Next]_vars
  PROVE  ClientIsOpen'
<1>1. CASE \E p \in Publishers : Connect(p)
  BY <1>1 DEF Connect, ClientIsOpen
<1>2. CASE Close
  BY <1>2 DEF Close, ClientIsOpen
<1>3. CASE ~Close /\ ~\E p \in Publishers : Connect(p)
  <2>1. Http \in Publishers /\ Loops \subseteq Publishers
    BY DEF Http, Publishers, Loops
  <2>2. UNCHANGED kafka
    BY <1>3, <2>1
       DEF Next, Handler, Turn, Publish, Look, Take, Send, Break, Generate, Leave, Pace,
           SelfStop, Start, Stop, Joined, CloseFails, Burst, Boost, Reset, Elapse, kafka, vars
  <2>. QED  BY <2>2 DEF ClientIsOpen, kafka
<1>. QED  BY <1>1, <1>2, <1>3

\* Loops only die, but for the one that Launch starts with the event clear.
LEMMA OnlyLaunchRevives ==
  ASSUME AtOK, [Next]_vars, ~Launches
  PROVE  loop' = loop /\ \A t \in Loops : IsAlive(t)' => IsAlive(t)
<1>1. CASE Stays
  BY <1>1 DEF Stays, IsAlive
<1>2. ASSUME NEW p \in Publishers, Moves(p), NEW t \in Loops, IsAlive(t)' PROVE IsAlive(t)
  <2>1. at[p] \in Places /\ at[t] \in Places /\ at[p] \notin {"unborn", "gone"}
    BY <1>2 DEF AtOK, Moves, Publishers, Loops
  <2>2. CASE t = p
    BY <1>2, <2>1, <2>2 DEF AtOK, IsAlive, Places
  <2>3. CASE t # p
    BY <1>2, <2>3 DEF AtOK, Moves, IsAlive, Publishers
  <2>. QED  BY <2>2, <2>3
<1>3. CASE \E p \in Publishers : Moves(p)
  BY <1>2, <1>3 DEF Moves
<1>. QED  BY <1>1, <1>3, StepShape

LEMMA StoppedStep ==
  ASSUME AtOK, StopIsSet, StoppedIsStopping, [Next]_vars
  PROVE  StoppedIsStopping'
<1>1. ASSUME ~Launches PROVE \A t \in Loops : IsAlive(t)' => IsAlive(t)
  BY <1>1, OnlyLaunchRevives
<1>2. CASE Launches
  BY <1>2 DEF Launches, Launch, StoppedIsStopping
<1>3. CASE ~Launches /\ Close
  BY <1>3 DEF Close, Goes, StopIsSet, StoppedIsStopping
<1>4. CASE ~Launches /\ ~Close
  <2>1. running' = running /\ (stopEvent => stopEvent')
    BY <1>4
       DEF Next, Handler, Turn, Publish, Look, Connect, Take, Send, Break, Generate, Leave,
           Pace, SelfStop, Start, Launches, Stop, Joined, CloseFails, Burst, Boost, Reset,
           Elapse, control, vars
  <2>. QED  BY <1>1, <1>4, <2>1 DEF StoppedIsStopping
<1>. QED  BY <1>2, <1>3, <1>4

\* A client is taken while open, and closed only by a stop() that has set the
\* event; before the event is cleared every loop that could hold it is gone.
LEMMA ClosedStep ==
  ASSUME AtOK, OthersGone, KafkaOK, StopIsSet, ClientIsOpen, ClosedOnlyWhenStopping, [Next]_vars
  PROVE  ClosedOnlyWhenStopping'
<1>0. /\ Http \in Publishers /\ Http \notin Loops /\ Loops \subseteq Publishers
      /\ Publishers = Loops \cup {Http}
  BY DEF Http, Publishers, Loops
<1>1. ASSUME stopEvent => stopEvent', open \subseteq open',
             \A p \in Publishers : at'[p] = "send" => (at[p] = "send" /\ mine'[p] = mine[p])
      PROVE  ClosedOnlyWhenStopping'
  BY <1>1 DEF ClosedOnlyWhenStopping
<1>2. ASSUME NEW p \in Publishers, Publish(p) PROVE ClosedOnlyWhenStopping'
  <2>. USE DEF AtOK, KafkaOK, Goes, control, kafka
  <2>1. CASE Look(p)     BY <1>1, <2>1 DEF Look
  <2>2. CASE Connect(p)  BY <1>1, <2>2 DEF Connect
  <2>3. CASE Take(p)
    BY <2>3 DEF Take, ClientIsOpen, ClosedOnlyWhenStopping
  <2>4. CASE Send(p)     BY <1>1, <2>4 DEF Send
  <2>5. CASE Break(p)    BY <1>1, <2>5 DEF Break
  <2>. QED  BY <1>2, <2>1, <2>2, <2>3, <2>4, <2>5 DEF Publish
<1>3. ASSUME NEW t \in Loops, Turn(t) PROVE ClosedOnlyWhenStopping'
  BY <1>0, <1>1, <1>2, <1>3
     DEF Turn, Generate, Leave, Pace, SelfStop, AtOK, Goes, control, kafka
<1>4. CASE Start
  <2>1. CASE Launch /\ (loop = 0 \/ ~IsAlive(loop))
    <3>1. \A t \in Loops : t <= loop => at[t] = "gone"
      BY <1>0, <2>1 DEF AtOK, OthersGone, IsAlive, Loops, Places, Publishing
    <3>2. at[Http] = "idle" /\ at' = [at EXCEPT ![loop + 1] = "top"]
      BY <1>4, <2>1 DEF Start, Launch
    <3>3. \A p \in Publishers : at'[p] # "send"
      BY <1>0, <3>1, <3>2 DEF AtOK, Loops
    <3>. QED  BY <3>3 DEF ClosedOnlyWhenStopping
  <2>2. CASE ~(Launch /\ (loop = 0 \/ ~IsAlive(loop)))
    BY <1>1, <1>4, <2>2 DEF Start, kafka
  <2>. QED  BY <2>1, <2>2
<1>5. CASE Close
  BY <1>0, <1>5 DEF Close, Goes, AtOK, StopIsSet, ClosedOnlyWhenStopping
<1>6. CASE Publish(Http)
  BY <1>0, <1>2, <1>6
<1>7. CASE \/ Stop \/ Joined \/ CloseFails \/ Burst \/ Boost \/ Reset
           \/ Elapse \/ UNCHANGED vars
  BY <1>0, <1>1, <1>7
     DEF Stop, Joined, CloseFails, Burst, Boost, Reset, Elapse, AtOK, Goes, control, kafka, vars
<1>. QED  BY <1>3, <1>4, <1>5, <1>6, <1>7 DEF Next, Handler

IInv == Inv /\ ProfileAgrees

LEMMA InitIInv == Init => IInv
<1>. SUFFICES ASSUME Init PROVE IInv
  OBVIOUS
<1>0. /\ Http \in Publishers /\ Http \notin Loops /\ Loops \subseteq Publishers
  BY DEF Http, Publishers, Loops
<1>1. /\ at[Http] = "idle" /\ \A t \in Loops : at[t] = "unborn" /\ t > 0
      /\ at \in [Publishers -> Places]
  BY <1>0 DEF Init, Places, Loops
<1>2. AtOK
  BY <1>0, <1>1, ProducerAssumption DEF Init, AtOK
<1>3. KafkaOK
  <2>1. \A p \in Publishers : at[p] # "send"
    BY DEF Init
  <2>. QED  BY <2>1, ProducerAssumption DEF Init, KafkaOK
<1>4. FlagsOK /\ LimitOK
  <2>1. limit \in Nat /\ generated = 0
    BY ProducerAssumption DEF Init
  <2>2. LimitOK
    BY <2>1 DEF Init, LimitOK
  <2>. QED  BY <2>2 DEF Init, FlagsOK
<1>5. ProfileOK /\ ProfileAgrees
  BY DEF Init, Default, ProfileOK, ProfileAgrees
<1>6. OthersGone /\ StopIsSet /\ ClientIsOpen
  BY <1>1 DEF Init, OthersGone, StopIsSet, ClientIsOpen, Loops
<1>7. StoppedIsStopping
  BY <1>1 DEF StoppedIsStopping, IsAlive, Publishing
<1>8. ClosedOnlyWhenStopping
  BY DEF Init, ClosedOnlyWhenStopping
<1>. QED  BY <1>2, <1>3, <1>4, <1>5, <1>6, <1>7, <1>8, TypeParts DEF IInv, Inv

LEMMA StepIInv == IInv /\ [Next]_vars => IInv'
<1>. SUFFICES ASSUME IInv, [Next]_vars PROVE IInv'
  OBVIOUS
<1>1. /\ AtOK /\ KafkaOK /\ FlagsOK /\ LimitOK /\ ProfileOK
      /\ OthersGone /\ StopIsSet /\ ClientIsOpen /\ StoppedIsStopping
      /\ ClosedOnlyWhenStopping /\ ProfileAgrees
  BY TypeParts DEF IInv, Inv
<1>2. AtOK' /\ OthersGone'
  BY <1>1, AtStep
<1>3. KafkaOK' /\ ClientIsOpen'
  BY <1>1, KafkaStep, ClientStep
<1>4. FlagsOK' /\ LimitOK' /\ ProfileOK' /\ ProfileAgrees'
  BY <1>1, FlagsStep, LimitStep, ProfileStep, ProfileAgreesStep
<1>5. StopIsSet' /\ StoppedIsStopping' /\ ClosedOnlyWhenStopping'
  BY <1>1, StopIsSetStep, StoppedStep, ClosedStep
<1>6. TypeOK'
  BY <1>2, <1>3, <1>4 DEF TypeOK, AtOK, KafkaOK, FlagsOK, LimitOK, ProfileOK, Places
<1>. QED  BY <1>2, <1>3, <1>4, <1>5, <1>6 DEF IInv, Inv

LEMMA AlwaysIInv == Spec => []IInv
  BY InitIInv, StepIInv, PTL DEF Spec

\* The type invariant, with the numbering of threads and clients.
THEOREM TypeCorrect == Spec => []TypeOK
<1>1. IInv => TypeOK
  BY DEF IInv, Inv
<1>. QED  BY <1>1, AlwaysIInv, PTL

\* An alive loop is the last one.
LEMMA AliveIsLast ==
  ASSUME AtOK, OthersGone, NEW t \in Loops, IsAlive(t)
  PROVE  t = loop
BY DEF AtOK, OthersGone, IsAlive, Loops, Publishing

LEMMA LaunchSole ==
  ASSUME AtOK, OthersGone, Launches
  PROVE  Sole!Start
<1>0. Loops \subseteq Publishers /\ loop + 1 \in Loops /\ loop' = loop + 1
  BY ProducerAssumption DEF Launches, Launch, Loops, Publishers, AtOK
<1>1. \A t \in Loops : ~IsAlive(t)
  BY AliveIsLast DEF Launches, Loops
<1>2. \A t \in Loops : at'[t] = IF t = loop + 1 THEN "top" ELSE at[t]
  BY <1>0 DEF Launches, Launch, AtOK
<1>3. \A t \in Loops : IsAlive(t)' <=> t = loop + 1
  BY <1>1, <1>2 DEF IsAlive
<1>4. Living = {} /\ Living' = {loop + 1}
  BY <1>0, <1>1, <1>3 DEF Living
<1>. QED  BY <1>0, <1>4 DEF Sole!Start

\* The loop of the producer is such a thread: start() makes one only when the last
\* has ended, also after a stop() that gave up waiting for it.
THEOREM LoopIsSole == Spec => SoleLoop
<1>1. Init => Sole!Init
  BY DEF Init, Sole!Init, Living, IsAlive, Publishing, Loops, Publishers, Http
<1>2. IInv /\ [Next]_vars => [Sole!Next]_(Sole!vars)
  <2>. SUFFICES ASSUME AtOK, OthersGone, [Next]_vars PROVE [Sole!Next]_(Sole!vars)
    BY TypeParts DEF IInv, Inv
  <2>1. CASE Launches
    BY <2>1, LaunchSole DEF Sole!Next
  <2>2. CASE ~Launches
    <3>1. loop' = loop /\ \A t \in Loops : IsAlive(t)' => IsAlive(t)
      BY <2>2, OnlyLaunchRevives
    <3>2. \A t \in Loops : IsAlive(t) => t = loop
      BY AliveIsLast
    <3>3. Living' = Living \/ (Living # {} /\ Living' = {})
      BY <3>1, <3>2 DEF Living
    <3>. QED  BY <3>1, <3>3 DEF Sole!Next, Sole!End, Sole!vars
  <2>. QED  BY <2>1, <2>2
<1>. QED  BY <1>1, <1>2, AlwaysIInv, PTL DEF Spec, SoleLoop, Sole!Spec

\* What the status shows as not running has no loop, or one that will end.
THEOREM StoppedLoopsEnd == Spec => []StoppedIsStopping
<1>1. IInv => StoppedIsStopping
  BY DEF IInv, Inv
<1>. QED  BY <1>1, AlwaysIInv, PTL

\* A burst, and a loop that goes on, never publish through a closed client.
THEOREM NoClosedClient == Spec => []ClosedOnlyWhenStopping
<1>1. IInv => ClosedOnlyWhenStopping
  BY DEF IInv, Inv
<1>. QED  BY <1>1, AlwaysIInv, PTL

\* Generator and stats agree with the profile in force.
THEOREM ProfilesAgree == Spec => []ProfileAgrees
<1>1. IInv => ProfileAgrees
  BY DEF IInv
<1>. QED  BY <1>1, AlwaysIInv, PTL
-------------------------------------------------------------------------------
(***************************************************************************)
(* What StartedIsNotStopping, which a run refutes, does hold for: a stop() *)
(* whose join ends with the loop leaves nothing that start() could take    *)
(* for a loop that goes on. The other way to stop after a start is the     *)
(* limit on the number of events, which a producer without one has not.    *)
(***************************************************************************)
JoinsInTime == [][Joined => ~IsAlive(loop)]_vars
StoppedIsGone == (stopEvent /\ at[Http] # "join") => (loop = 0 \/ ~IsAlive(loop))
Going == limit = 0 /\ StoppedIsGone /\ StartedIsNotStopping

LEMMA GoingStep ==
  ASSUME IInv, Going, [Next]_vars, Joined => ~IsAlive(loop)
  PROVE  Going'
<1>. USE DEF Going
<1>0. /\ AtOK /\ Http \in Publishers /\ Http \notin Loops /\ Loops \subseteq Publishers
      /\ loop # 0 => loop \in Loops
  BY TypeParts, ProducerAssumption DEF IInv, Inv, AtOK, Http, Publishers, Loops
<1>1. limit' = 0
  BY DEF Next, Handler, Turn, Publish, Look, Connect, Take, Send, Break, Generate, Leave, Pace,
         SelfStop, Start, Stop, Joined, Close, CloseFails, Burst, Boost, Reset, Elapse, vars
<1>2. CASE Launches
  BY <1>1, <1>2 DEF Launches, Launch, StoppedIsGone, StartedIsNotStopping
<1>3. CASE ~Launches
  <2>1. loop' = loop /\ (loop # 0 /\ IsAlive(loop)' => IsAlive(loop))
    BY <1>0, <1>3, OnlyLaunchRevives
  <2>2. ASSUME at'[Http] = at[Http] \/ (at[Http] # "join" /\ at'[Http] # "join"),
               UNCHANGED <<stopEvent, told>>
        PROVE  Going'
    BY <1>1, <2>1, <2>2 DEF StoppedIsGone, StartedIsNotStopping, IsAlive
  <2>3. ASSUME NEW t \in Loops, Turn(t) PROVE Going'
    <3>1. at'[Http] = at[Http]
      BY <1>0, <2>3
         DEF AtOK, Goes, Turn, Publish, Look, Connect, Take, Send, Break, Generate, Leave,
             Pace, SelfStop
    <3>2. UNCHANGED <<stopEvent, told>>
      BY <2>3
         DEF Turn, Publish, Look, Connect, Take, Send, Break, Generate, Leave, Pace,
             SelfStop, LimitReached, control
    <3>. QED  BY <2>2, <3>1, <3>2
  <2>4. CASE Start
    <3>1. UNCHANGED <<at, stopEvent>> /\ loop # 0 /\ IsAlive(loop) /\ at[Http] = "idle"
      BY <1>3, <2>4 DEF Start, Launches
    <3>2. ~stopEvent
      BY <3>1 DEF StoppedIsGone
    <3>. QED  BY <1>1, <3>1, <3>2 DEF StoppedIsGone, StartedIsNotStopping
  <2>5. CASE Stop
    <3>1. told' = "nothing" /\ (at'[Http] # "join" => loop = 0 \/ ~IsAlive(loop))
      BY <1>0, <2>5 DEF Stop, Goes, AtOK
    <3>. QED  BY <1>1, <2>1, <3>1 DEF StoppedIsGone, StartedIsNotStopping
  <2>6. CASE Joined
    BY <1>1, <2>1, <2>6 DEF Joined, control, StoppedIsGone, StartedIsNotStopping
  <2>7. CASE Close
    <3>1. told' = "stopped" /\ stopEvent' = stopEvent /\ at[Http] = "close"
      BY <2>7 DEF Close, Goes
    <3>. QED  BY <1>1, <2>1, <3>1 DEF StoppedIsGone, StartedIsNotStopping
  <2>8. CASE CloseFails \/ Burst \/ Publish(Http) \/ Boost \/ Reset \/ Elapse \/ UNCHANGED vars
    <3>1. UNCHANGED <<stopEvent, told>>
      BY <2>8 DEF CloseFails, Burst, Publish, Look, Connect, Take, Send, Break, Boost, Reset,
                  Elapse, control, vars
    <3>2. at'[Http] = at[Http] \/ (at[Http] # "join" /\ at'[Http] # "join")
      BY <1>0, <2>8 DEF CloseFails, Burst, Publish, Look, Connect, Take, Send, Break, Boost,
                  Reset, Elapse, vars, Goes, AtOK
    <3>. QED  BY <2>2, <3>1, <3>2
  <2>. QED  BY <2>3, <2>4, <2>5, <2>6, <2>7, <2>8 DEF Next, Handler
<1>. QED  BY <1>2, <1>3

\* A producer without a limit whose stops never give up waiting goes on after every
\* start that is answered: the finding needs the timeout of the join, or the limit.
THEOREM StartedGoesOn == Spec /\ limit = 0 /\ JoinsInTime => []StartedIsNotStopping
<1>1. Init /\ limit = 0 => Going
  BY DEF Init, Going, StoppedIsGone, StartedIsNotStopping
<1>2. IInv /\ Going /\ [Next]_vars /\ [Joined => ~IsAlive(loop)]_vars => Going'
  <2>1. CASE UNCHANGED vars
    BY <2>1 DEF vars, control, Going, StoppedIsGone, StartedIsNotStopping, IsAlive
  <2>. QED  BY <2>1, GoingStep
<1>3. Going => StartedIsNotStopping
  BY DEF Going
<1>. QED  BY <1>1, <1>2, <1>3, AlwaysIInv, PTL DEF Spec, JoinsInTime
===============================================================================
