------------------------- MODULE FeatureWindowsProofs -------------------------
(***************************************************************************)
(* Safety of FeatureWindows for any processes, times and merchants and any *)
(* number of events. The inductive invariant says what Redis holds in      *)
(* terms of what was applied, and what an actor has read in terms of what  *)
(* Redis held: sets and counters only grow while it reads, so a later read *)
(* is never behind an earlier one.                                         *)
(***************************************************************************)
EXTENDS FeatureWindows, FiniteOrders

StoreType == [spend : SUBSET Event, failed : SUBSET Event, merchants : SUBSET Merchants,
              merchantCount : [Merchants -> Nat], count : Nat,
              first : SUBSET Times, last : SUBSET Times]
ContextType == [recent : SUBSET Decoded(Event), count : Nat, first : SUBSET Times, last : SUBSET Times,
                merchantCount : Nat, failed : SUBSET Event, known : BOOLEAN]

\* Events have different ids, and one in an actor's hands has not been applied.
Distinct == /\ \A x \in applied : x.id <= begun
            /\ \A a \in Actors : \A e \in event[a] :
                 /\ e.id <= begun /\ event[a] = {e}
                 /\ \A x \in applied : x.id # e.id
                 /\ \A b \in Actors : \A f \in event[b] : b # a => f.id # e.id

\* The zset has what was applied, but for what some applied event has pruned.
SpendIsPruned == /\ store.spend \subseteq applied
                 /\ \A x \in applied : \/ x \in store.spend
                                       \/ \E y \in applied : Score(x.time) <= Score(y.time - Hour)

CountedIsKnown == \A m \in Merchants : store.merchantCount[m] > 0 => m \in store.merchants

\* What the reads so far have in common with the store of now.
ReadSoFar == \A a \in Actors :
  /\ at[a] \in {"idle", "spend"} => context[a] = EmptyContext
  /\ context[a].recent \subseteq Decoded(applied)
  /\ at[a] \notin {"idle", "spend", "profile"} =>
       Cardinality(context[a].recent) <= context[a].count
  /\ context[a].merchantCount > 0 => \A e \in event[a] : e.merchant \in store.merchants
  /\ at[a] \in {"read", "saved"} => (context[a].merchantCount > 0 => context[a].known)

\* PunctualWindowIsFull for an event that saw S applied and has read this.
FullHour(S, e, recent) ==
  (\A x \in S : Score(x.time) <= Score(e.time)) =>
    Decoded({x \in S : Score(e.time - Hour) < Score(x.time)}) \subseteq recent

IInv == /\ TypeOK /\ IsFiniteSet(applied) /\ Distinct /\ NoPaymentLost /\ SpendIsPruned
        /\ CountedIsKnown /\ ReadSoFar /\ PunctualWindowIsFull

LEMMA TypeParts == TypeOK <=> /\ begun \in 0..MaxEvents /\ store \in StoreType
                              /\ at \in [Actors -> Places] /\ event \in [Actors -> SUBSET Event]
                              /\ context \in [Actors -> ContextType]
                              /\ seen \in [Actors -> SUBSET Event] /\ saved \subseteq Event
                              /\ applied \subseteq Event /\ inOrder \in BOOLEAN
  BY DEF TypeOK, StoreType, ContextType

-------------------------------------------------------------------------------
(* Milliseconds.                                                           *)

\* The whole milliseconds of a time, and which number they are.
LEMMA ScoreBounds ==
  ASSUME NEW t \in Int
  PROVE  Score(t) \in Int /\ Tick * Score(t) <= t /\ t < Tick * Score(t) + Tick
  BY WindowAssumption DEF Score

LEMMA ScoreIs ==
  ASSUME NEW t \in Int, NEW k \in Int, Tick * k <= t, t < Tick * k + Tick
  PROVE  Score(t) = k
<1>. DEFINE q == Score(t)
<1>1. q \in Int /\ Tick * q <= t /\ t < Tick * q + Tick /\ Tick \in Nat \ {0}
  BY ScoreBounds, WindowAssumption
<1>. HIDE DEF q
<1>2. ASSUME NEW i \in Int, NEW j \in Int, i < j PROVE Tick * i + Tick <= Tick * j
  <2>1. Tick \in Nat /\ j - i - 1 \in Nat
    BY <1>1, <1>2
  <2>2. Tick * (j - i - 1) >= 0
    BY <2>1
  <2>3. Tick * (j - i - 1) = Tick * j - Tick * i - Tick
    BY <2>1
  <2>. QED  BY <2>2, <2>3, <1>1
<1>3. Tick * q \in Int /\ Tick * k \in Int
  BY <1>1
<1>4. ~(q < k)
  <2>1. q < k => Tick * q + Tick <= Tick * k
    BY <1>1, <1>2
  <2>. QED  BY <1>1, <1>3, <2>1
<1>5. ~(k < q)
  <2>1. k < q => Tick * k + Tick <= Tick * q
    BY <1>1, <1>2
  <2>. QED  BY <1>1, <1>3, <2>1
<1>. QED  BY <1>1, <1>4, <1>5 DEF q

LEMMA ScoreMonotone ==
  ASSUME NEW s \in Int, NEW t \in Int, s <= t
  PROVE  Score(s) <= Score(t)
  BY WindowAssumption, ScoreBounds DEF Score

\* The length of a window is a whole number of milliseconds.
LEMMA ScoreShift ==
  ASSUME NEW t \in Int, NEW w \in Int, w % Tick = 0
  PROVE  Score(t - w) = Score(t) - Score(w)
<1>1. Tick * Score(w) = w /\ Score(w) \in Int
  BY WindowAssumption, ScoreBounds DEF Score
<1>2. Score(t) \in Int /\ Tick * Score(t) <= t /\ t < Tick * Score(t) + Tick
  BY ScoreBounds
<1>3. Tick * (Score(t) - Score(w)) = Tick * Score(t) - w
  BY <1>1, <1>2, WindowAssumption
<1>4. Score(t) - Score(w) \in Int
  BY <1>1, <1>2
<1>5. Tick * Score(t) \in Int /\ Tick \in Int
  BY <1>2, WindowAssumption
<1>6. Tick * (Score(t) - Score(w)) <= t - w /\ t - w < Tick * (Score(t) - Score(w)) + Tick
  BY <1>2, <1>3, <1>5
<1>. QED  BY <1>4, <1>6, ScoreIs

LEMMA ShiftedScores ==
  ASSUME NEW w \in Int, w % Tick = 0
  PROVE  /\ Score(w) \in Int
         /\ \A t \in Int : /\ Score(t) \in Int /\ Score(t - w) \in Int
                          /\ Score(t - w) = Score(t) - Score(w)
<1>1. ASSUME NEW t \in Int
      PROVE  Score(t) \in Int /\ Score(t - w) \in Int /\ Score(t - w) = Score(t) - Score(w)
  <2>1. t - w \in Int
    OBVIOUS
  <2>. QED  BY <2>1, ScoreBounds, ScoreShift
<1>. QED  BY <1>1, ScoreBounds

\* Decoding a payment keeps its millisecond, and makes no more payments.
LEMMA DecodedScore ==
  ASSUME NEW x \in Event
  PROVE  LET d == [x EXCEPT !.time = Tick * Score(x.time)]
         IN  d.time = Tick * Score(x.time) /\ Score(d.time) = Score(x.time)
<1>1. x.time \in Int /\ Score(x.time) \in Int /\ Tick \in Nat \ {0}
  BY WindowAssumption, ScoreBounds DEF Event
<1>2. Tick * Score(x.time) \in Int /\ Tick * Score(x.time) < Tick * Score(x.time) + Tick
  BY <1>1
<1>3. Score(Tick * Score(x.time)) = Score(x.time)
  BY <1>1, <1>2, ScoreIs
<1>. QED  BY <1>3 DEF Event

LEMMA DecodedFinite ==
  ASSUME NEW S, IsFiniteSet(S)
  PROVE  IsFiniteSet(Decoded(S)) /\ Cardinality(Decoded(S)) <= Cardinality(S)
<1>. DEFINE f == [x \in S |-> [x EXCEPT !.time = Tick * Score(x.time)]]
<1>1. f \in Surjection(S, Decoded(S))
  BY DEF Surjection, Decoded
<1>. QED  BY <1>1, FS_Surjection

\* What is decoded of fewer payments is less.
LEMMA DecodedGrows == ASSUME NEW S, NEW X, S \subseteq X PROVE Decoded(S) \subseteq Decoded(X)
  BY DEF Decoded
-------------------------------------------------------------------------------
(* The initial state.                                                      *)

LEMMA InitIInv == Init => IInv
<1>. SUFFICES ASSUME Init PROVE IInv
  OBVIOUS
<1>. USE DEF Init
<1>1. EmptyStore \in StoreType /\ EmptyContext \in ContextType
  BY DEF EmptyStore, StoreType, EmptyContext, ContextType
<1>2. TypeOK
  BY <1>1, WindowAssumption, TypeParts DEF Places
<1>3. IsFiniteSet(applied) /\ Cardinality(applied) = 0
  BY FS_EmptySet
<1>4. NoPaymentLost
  <2>1. \A m \in Merchants : {x \in applied : x.merchant = m} = {}
    OBVIOUS
  <2>. QED  BY <1>3, <2>1, FS_EmptySet DEF NoPaymentLost, EmptyStore
<1>5. Distinct /\ SpendIsPruned /\ CountedIsKnown
  BY DEF Distinct, SpendIsPruned, CountedIsKnown, EmptyStore
<1>6. ReadSoFar /\ PunctualWindowIsFull
  BY DEF ReadSoFar, PunctualWindowIsFull, EmptyContext
<1>. QED  BY <1>2, <1>3, <1>4, <1>5, <1>6 DEF IInv
-------------------------------------------------------------------------------
(* Steps that leave Redis alone.                                           *)

LEMMA StoreUntouched ==
  ASSUME IInv, UNCHANGED <<store, applied>>
  PROVE  IsFiniteSet(applied)' /\ NoPaymentLost' /\ SpendIsPruned' /\ CountedIsKnown'
  BY DEF IInv, NoPaymentLost, SpendIsPruned, CountedIsKnown

LEMMA BeginKeeps == ASSUME IInv, NEW a \in Actors, Begin(a) PROVE IInv'
<1>. USE TypeParts DEF IInv, Begin
<1>1. PICK e \in Event : e.id = begun + 1 /\ event' = [event EXCEPT ![a] = {e}]
  OBVIOUS
<1>2. TypeOK'
  BY <1>1, WindowAssumption DEF TypeOK, Places
<1>3. Distinct'
  <2>1. event'[a] = {e} /\ \A b \in Actors : b # a => event'[b] = event[b]
    BY <1>1
  <2>2. \A x \in Event : x.id \in Nat
    BY WindowAssumption DEF Event
  <2>3. begun \in Nat /\ begun' = begun + 1 /\ applied' = applied
    OBVIOUS
  <2>4. (\A x \in applied : x.id <= begun' /\ x.id # e.id) /\ e.id <= begun'
    BY <1>1, <2>2, <2>3 DEF Distinct
  <2>5. \A b \in Actors : b # a =>
          \A f \in event[b] : /\ f.id <= begun' /\ f.id # e.id
                              /\ \A x \in applied : x.id # f.id
                              /\ \A c \in Actors : \A g \in event[c] : c # b => g.id # f.id
    BY <1>1, <2>2, <2>3 DEF Distinct
  <2>. QED  BY <2>1, <2>3, <2>4, <2>5 DEF Distinct
<1>4. ReadSoFar'
  <2>1. context[a] = EmptyContext
    BY DEF ReadSoFar
  <2>2. /\ at'[a] = "spend" /\ context' = context /\ store' = store /\ applied' = applied
        /\ \A b \in Actors : b # a => at'[b] = at[b] /\ event'[b] = event[b]
    BY DEF TypeOK
  <2>3. context[a].merchantCount = 0
    BY <2>1 DEF EmptyContext
  <2>. QED  BY <2>1, <2>2, <2>3 DEF ReadSoFar
<1>5. PunctualWindowIsFull'
  <2>1. \A b \in Actors : at'[b] = "spend" \/ (at'[b] = at[b] /\ event'[b] = event[b])
    BY DEF TypeOK
  <2>. QED  BY <2>1 DEF PunctualWindowIsFull
<1>. QED  BY <1>2, <1>3, <1>4, <1>5, StoreUntouched

\* An actor lets go of its event; the others keep theirs.
LEMMA LeaveDistinct ==
  ASSUME IInv, NEW a \in Actors, Leave(a), begun' = begun, applied' \subseteq applied
  PROVE  Distinct'
<1>1. event'[a] = {} /\ \A b \in Actors : b # a => event'[b] = event[b]
  BY DEF Leave, IInv, TypeOK
<1>. QED  BY <1>1 DEF IInv, Distinct

LEMMA LeaveTyped ==
  ASSUME IInv, NEW a \in Actors, Leave(a)
  PROVE  /\ at' \in [Actors -> Places] /\ event' \in [Actors -> SUBSET Event]
         /\ context' \in [Actors -> ContextType] /\ seen' \in [Actors -> SUBSET Event]
         /\ at'[a] = "idle" /\ event'[a] = {} /\ context'[a] = EmptyContext
         /\ \A b \in Actors : b # a => /\ at'[b] = at[b] /\ event'[b] = event[b]
                                       /\ context'[b] = context[b] /\ seen'[b] = seen[b]
<1>1. EmptyContext \in ContextType
  BY DEF EmptyContext, ContextType
<1>2. "idle" \in Places
  BY DEF Places
<1>. QED  BY <1>1, <1>2, TypeParts DEF Leave, IInv

LEMMA FailKeeps == ASSUME IInv, NEW a \in Actors, Fail(a) PROVE IInv'
<1>. USE DEF IInv
<1>1. /\ Leave(a) /\ UNCHANGED <<begun, store, saved, applied, inOrder>>
  BY DEF Fail
<1>2. TypeOK'
  BY <1>1, LeaveTyped, TypeParts DEF TypeOK, ContextType
<1>3. Distinct'
  BY <1>1, LeaveDistinct
<1>4. ReadSoFar'
  BY <1>1, LeaveTyped DEF ReadSoFar, EmptyContext
<1>5. PunctualWindowIsFull'
  BY <1>1, LeaveTyped DEF PunctualWindowIsFull
<1>. QED  BY <1>1, <1>2, <1>3, <1>4, <1>5, StoreUntouched

\* Reading and saving change neither Redis nor what anyone has in hand.
LEMMA HandsKept ==
  ASSUME IInv, UNCHANGED <<begun, store, event, applied>>
  PROVE  /\ IsFiniteSet(applied)' /\ NoPaymentLost' /\ SpendIsPruned' /\ CountedIsKnown'
         /\ Distinct'
<1>1. Distinct'
  BY DEF IInv, Distinct
<1>. QED  BY <1>1, StoreUntouched

LEMMA SaveKeeps == ASSUME IInv, NEW a \in Actors, Save(a) PROVE IInv'
<1>. USE DEF IInv, Save
<1>1. TypeOK'
  BY DEF TypeOK, Places
<1>2. at[a] = "read" /\ at'[a] = "saved" /\ \A b \in Actors : b # a => at'[b] = at[b]
  BY DEF TypeOK
<1>3. ReadSoFar'
  BY <1>2 DEF ReadSoFar
<1>4. PunctualWindowIsFull'
  BY <1>2 DEF PunctualWindowIsFull
<1>. QED  BY <1>1, <1>3, <1>4, HandsKept
-------------------------------------------------------------------------------
(* The five reads.                                                         *)

\* A read by a: what remains to be shown is about a alone.
LEMMA ReadKeeps ==
  ASSUME IInv, NEW a \in Actors, NEW place \in DOMAIN NextRead, NEW c \in ContextType,
         Read(a, place, c),
         seen' = seen \/ seen' = [seen EXCEPT ![a] = applied],
         c.recent \subseteq Decoded(applied),
         place # "spend" => Cardinality(c.recent) <= c.count,
         c.merchantCount > 0 => \A e \in event[a] : e.merchant \in store.merchants,
         place = "merchant" => (c.merchantCount > 0 => c.known),
         \A e \in event[a] : FullHour(seen'[a], e, c.recent)
  PROVE  IInv'
<1>. USE DEF IInv, Read
<1>1. NextRead[place] \in {"profile", "count", "failed", "merchant", "read"}
      /\ (place = "spend" => NextRead[place] = "profile")
      /\ (NextRead[place] = "read" => place = "merchant")
  BY DEF NextRead
<1>2. /\ at'[a] = NextRead[place] /\ context'[a] = c
      /\ \A b \in Actors : b # a => /\ at'[b] = at[b] /\ context'[b] = context[b]
                                    /\ seen'[b] = seen[b]
  BY DEF TypeOK
<1>3. at' \in [Actors -> Places] /\ seen' \in [Actors -> SUBSET Event]
  BY <1>1 DEF TypeOK, Places
<1>4. context' \in [Actors -> ContextType]
  BY TypeParts
<1>5. TypeOK'
  BY <1>3, <1>4 DEF TypeOK, ContextType
<1>6. ReadSoFar'
  BY <1>1, <1>2 DEF ReadSoFar
<1>7. PunctualWindowIsFull'
  BY <1>1, <1>2 DEF PunctualWindowIsFull, FullHour
<1>. QED  BY <1>5, <1>6, <1>7, HandsKept

LEMMA ReadSpendKeeps == ASSUME IInv, NEW a \in Actors, ReadSpend(a) PROVE IInv'
<1>. USE DEF IInv
<1>1. PICK e \in event[a] :
        /\ Read(a, "spend", [context[a] EXCEPT
                               !.recent = Decoded(Within(store.spend, Score(e.time - Hour), Score(e.time)))])
        /\ seen' = [seen EXCEPT ![a] = applied]
  BY DEF ReadSpend
<1>. DEFINE R == Decoded(Within(store.spend, Score(e.time - Hour), Score(e.time)))
            c == [context[a] EXCEPT !.recent = R]
<1>2. context[a] = EmptyContext /\ context[a] \in ContextType
  BY <1>1, TypeParts DEF Read, ReadSoFar
<1>. DEFINE W == Within(store.spend, Score(e.time - Hour), Score(e.time))
<1>3. R \subseteq Decoded(applied) /\ R \subseteq Decoded(Event)
  <2>1. W \subseteq applied /\ W \subseteq Event
    BY TypeParts DEF Within, SpendIsPruned
  <2>. QED  BY <2>1, DecodedGrows
<1>4. c \in ContextType /\ c.recent = R /\ c.merchantCount = 0
  <2>1. context[a].merchantCount = 0
    BY <1>2 DEF EmptyContext
  <2>. QED  BY <1>2, <1>3, <2>1 DEF ContextType
<1>5. seen'[a] = applied
  BY <1>1 DEF TypeOK
<1>6. \A f \in event[a] : f = e
  BY DEF Distinct
<1>7. ASSUME \A x \in applied : Score(x.time) <= Score(e.time),
             NEW x \in applied, Score(e.time - Hour) < Score(x.time)
      PROVE  x \in W
  <2>1. e.time \in Int /\ \A y \in applied : y.time \in Int
    <3>1. e \in Event /\ applied \subseteq Event
      BY TypeParts
    <3>. QED  BY <3>1, WindowAssumption DEF Event
  <2>2. Hour \in Int /\ Hour % Tick = 0
    BY WindowAssumption
  <2>3. /\ \A t \in Int : Score(t) \in Int /\ Score(t - Hour) = Score(t) - Score(Hour)
        /\ Score(Hour) \in Int
    BY <2>2, ShiftedScores
  <2>4. x \in store.spend
    <3>1. ASSUME NEW y \in applied, Score(x.time) <= Score(y.time - Hour) PROVE FALSE
      <4>1. Score(y.time) <= Score(e.time)
        BY <1>7
      <4>. QED  BY <1>7, <2>1, <2>3, <3>1, <4>1
    <3>. QED  BY <3>1 DEF SpendIsPruned
  <2>5. Score(e.time - Hour) <= Score(x.time) /\ Score(x.time) <= Score(e.time)
    BY <1>7, <2>1, <2>3
  <2>. QED  BY <2>4, <2>5 DEF Within
<1>8. \A f \in event[a] : FullHour(seen'[a], f, c.recent)
  <2>. SUFFICES ASSUME \A x \in applied : Score(x.time) <= Score(e.time)
                PROVE  Decoded({x \in applied : Score(e.time - Hour) < Score(x.time)}) \subseteq R
    BY <1>4, <1>5, <1>6 DEF FullHour
  <2>1. {x \in applied : Score(e.time - Hour) < Score(x.time)} \subseteq W
    BY <1>7
  <2>. QED  BY <2>1, DecodedGrows
<1>9. "spend" \in DOMAIN NextRead
  BY DEF NextRead
<1>10. Read(a, "spend", c) /\ seen' = [seen EXCEPT ![a] = applied]
  BY <1>1
<1>11. c.recent \subseteq Decoded(applied) /\ ~(c.merchantCount > 0)
  BY <1>3, <1>4
<1>. HIDE DEF c, R, IInv
<1>. QED  BY <1>4, <1>8, <1>9, <1>10, <1>11, ReadKeeps

\* A later read keeps the window that was read first.
LEMMA WindowKept ==
  ASSUME IInv, NEW a \in Actors, at[a] # "spend", seen' = seen,
         NEW c \in ContextType, c.recent = context[a].recent
  PROVE  /\ c.recent \subseteq Decoded(applied)
         /\ \A e \in event[a] : FullHour(seen'[a], e, c.recent)
  BY DEF IInv, PunctualWindowIsFull, ReadSoFar, FullHour

LEMMA ReadProfileKeeps == ASSUME IInv, NEW a \in Actors, ReadProfile(a) PROVE IInv'
<1>. USE DEF IInv
<1>. DEFINE c == [context[a] EXCEPT !.count = store.count,
                                    !.first = store.first, !.last = store.last]
<1>1. Read(a, "profile", c) /\ seen' = seen /\ at[a] = "profile"
  BY DEF ReadProfile, Read
<1>2. context[a] \in ContextType /\ store \in StoreType
  BY TypeParts
<1>3. /\ c \in ContextType /\ c.recent = context[a].recent
      /\ c.count = store.count /\ c.merchantCount = context[a].merchantCount
  BY <1>2 DEF ContextType, StoreType
<1>4. Cardinality(c.recent) <= c.count
  <2>1. c.recent \subseteq Decoded(applied) /\ c.count = Cardinality(applied)
    BY <1>3 DEF NoPaymentLost, ReadSoFar
  <2>2. Cardinality(c.recent) <= Cardinality(Decoded(applied)) /\ IsFiniteSet(c.recent)
    BY <2>1, DecodedFinite, FS_Subset
  <2>3. Cardinality(c.recent) \in Nat /\ Cardinality(Decoded(applied)) \in Nat /\ Cardinality(applied) \in Nat
    BY <2>2, DecodedFinite, FS_CardinalityType
  <2>. HIDE DEF c
  <2>. QED  BY <2>1, <2>2, <2>3, DecodedFinite
<1>5. c.merchantCount > 0 => \A e \in event[a] : e.merchant \in store.merchants
  BY <1>3 DEF ReadSoFar
<1>6. "profile" \in DOMAIN NextRead
  BY DEF NextRead
<1>7. \A f \in event[a] : FullHour(seen'[a], f, c.recent)
  BY <1>1, <1>3, WindowKept
<1>8. c.recent \subseteq Decoded(applied)
  BY <1>3 DEF ReadSoFar
<1>. HIDE DEF c, IInv
<1>. QED  BY <1>1, <1>3, <1>4, <1>5, <1>6, <1>7, <1>8, ReadKeeps

LEMMA ReadCountKeeps == ASSUME IInv, NEW a \in Actors, ReadCount(a) PROVE IInv'
<1>. USE DEF IInv
<1>1. PICK e \in event[a] :
        /\ seen' = seen /\ at[a] = "count"
        /\ Read(a, "count",
                [context[a] EXCEPT !.merchantCount = store.merchantCount[e.merchant]])
  BY DEF ReadCount, Read
<1>. DEFINE c == [context[a] EXCEPT !.merchantCount = store.merchantCount[e.merchant]]
<1>2. context[a] \in ContextType /\ store \in StoreType /\ e.merchant \in Merchants
  BY TypeParts DEF Event
<1>3. /\ c \in ContextType /\ c.recent = context[a].recent
      /\ c.count = context[a].count /\ c.merchantCount = store.merchantCount[e.merchant]
  BY <1>2 DEF ContextType, StoreType
<1>4. Cardinality(c.recent) <= c.count
  BY <1>1, <1>3 DEF ReadSoFar
<1>5. c.merchantCount > 0 => \A f \in event[a] : f.merchant \in store.merchants
  BY <1>2, <1>3 DEF CountedIsKnown, Distinct
<1>6. "count" \in DOMAIN NextRead
  BY DEF NextRead
<1>7. \A f \in event[a] : FullHour(seen'[a], f, c.recent)
  BY <1>1, <1>3, WindowKept
<1>8. c.recent \subseteq Decoded(applied)
  BY <1>3 DEF ReadSoFar
<1>10. Read(a, "count", c)
  BY <1>1
<1>. HIDE DEF c, IInv
<1>. QED  BY <1>1, <1>3, <1>4, <1>5, <1>6, <1>7, <1>8, <1>10, ReadKeeps

LEMMA ReadFailedKeeps == ASSUME IInv, NEW a \in Actors, ReadFailed(a) PROVE IInv'
<1>. USE DEF IInv
<1>1. PICK e \in event[a] :
        /\ seen' = seen /\ at[a] = "failed"
        /\ Read(a, "failed", [context[a] EXCEPT
                                !.failed = Within(store.failed, Score(e.time - FiveMinutes), Score(e.time))])
  BY DEF ReadFailed, Read
<1>. DEFINE c == [context[a] EXCEPT
                    !.failed = Within(store.failed, Score(e.time - FiveMinutes), Score(e.time))]
<1>2. context[a] \in ContextType /\ store \in StoreType
  BY TypeParts
<1>3. /\ c \in ContextType /\ c.recent = context[a].recent
      /\ c.count = context[a].count /\ c.merchantCount = context[a].merchantCount
  BY <1>2 DEF ContextType, StoreType, Within
<1>4. Cardinality(c.recent) <= c.count
  BY <1>1, <1>3 DEF ReadSoFar
<1>5. c.merchantCount > 0 => \A f \in event[a] : f.merchant \in store.merchants
  BY <1>3 DEF ReadSoFar
<1>6. "failed" \in DOMAIN NextRead
  BY DEF NextRead
<1>7. \A f \in event[a] : FullHour(seen'[a], f, c.recent)
  BY <1>1, <1>3, WindowKept
<1>8. c.recent \subseteq Decoded(applied)
  BY <1>3 DEF ReadSoFar
<1>10. Read(a, "failed", c)
  BY <1>1
<1>. HIDE DEF c, IInv
<1>. QED  BY <1>1, <1>3, <1>4, <1>5, <1>6, <1>7, <1>8, <1>10, ReadKeeps

LEMMA ReadMerchantKeeps == ASSUME IInv, NEW a \in Actors, ReadMerchant(a) PROVE IInv'
<1>. USE DEF IInv
<1>1. PICK e \in event[a] :
        /\ seen' = seen /\ at[a] = "merchant"
        /\ Read(a, "merchant", [context[a] EXCEPT !.known = e.merchant \in store.merchants])
  BY DEF ReadMerchant, Read
<1>. DEFINE c == [context[a] EXCEPT !.known = e.merchant \in store.merchants]
<1>2. context[a] \in ContextType
  BY TypeParts
<1>3. /\ c \in ContextType /\ c.recent = context[a].recent
      /\ c.count = context[a].count /\ c.merchantCount = context[a].merchantCount
      /\ c.known = (e.merchant \in store.merchants)
  <2>. DEFINE b == e.merchant \in store.merchants
  <2>1. b \in BOOLEAN
    OBVIOUS
  <2>2. c = [context[a] EXCEPT !.known = b]
    OBVIOUS
  <2>. HIDE DEF b, c
  <2>3. c \in ContextType /\ c.recent = context[a].recent /\ c.known = b
        /\ c.count = context[a].count /\ c.merchantCount = context[a].merchantCount
    BY <1>2, <2>1, <2>2 DEF ContextType
  <2>. QED  BY <2>3 DEF b
<1>4. Cardinality(c.recent) <= c.count
  BY <1>1, <1>3 DEF ReadSoFar
<1>5. c.merchantCount > 0 => \A f \in event[a] : f.merchant \in store.merchants
  BY <1>3 DEF ReadSoFar
<1>6. "merchant" \in DOMAIN NextRead
  BY DEF NextRead
<1>7. \A f \in event[a] : FullHour(seen'[a], f, c.recent)
  BY <1>1, <1>3, WindowKept
<1>8. c.recent \subseteq Decoded(applied)
  BY <1>3 DEF ReadSoFar
<1>9. c.merchantCount > 0 => c.known
  BY <1>1, <1>3, <1>5
<1>10. Read(a, "merchant", c)
  BY <1>1
<1>. HIDE DEF c, IInv
<1>. QED  BY <1>1, <1>3, <1>4, <1>5, <1>6, <1>7, <1>8, <1>9, <1>10, ReadKeeps
-------------------------------------------------------------------------------
(* update_state.                                                           *)

LEMMA UpdateKeeps == ASSUME IInv, NEW a \in Actors, Update(a) PROVE IInv'
<1>. USE DEF IInv
<1>1. PICK e \in event[a] : Apply(a, e) /\ store' = Stored(store, e)
  BY DEF Update
<1>2. /\ e \in Event /\ event[a] = {e} /\ e \notin applied /\ store \in StoreType
      /\ e.merchant \in Merchants /\ e.time \in Times /\ e.time \in Int
      /\ applied' = applied \cup {e} /\ Leave(a) /\ begun' = begun
  BY <1>1, TypeParts, WindowAssumption DEF Distinct, Event, Apply
<1>3. /\ store'.spend = (store.spend \cup {e}) \ Upto(store.spend \cup {e}, Score(e.time - Hour))
      /\ store'.merchants = store.merchants \cup {e.merchant}
      /\ store'.merchantCount = [store.merchantCount EXCEPT ![e.merchant] = @ + 1]
      /\ store'.count = store.count + 1
  BY <1>1 DEF Stored, StoredAs, Pruned
<1>4. store' \in StoreType
  BY <1>1, <1>2 DEF Stored, StoredAs, Pruned, StoreType, Upto
<1>5. TypeOK'
  BY <1>1, <1>2, <1>4, LeaveTyped DEF TypeOK, StoreType, ContextType, Apply
<1>6. IsFiniteSet(applied)' /\ NoPaymentLost'
  <2>1. IsFiniteSet(applied') /\ Cardinality(applied') = Cardinality(applied) + 1
    BY <1>2, FS_AddElement
  <2>2. ASSUME NEW m \in Merchants
        PROVE  store'.merchantCount[m] = Cardinality({x \in applied' : x.merchant = m})
    <3>. DEFINE S == {x \in applied : x.merchant = m}
    <3>1. IsFiniteSet(S) /\ store.merchantCount[m] = Cardinality(S) /\ e \notin S
      BY <1>2, FS_Subset DEF NoPaymentLost
    <3>2. CASE m = e.merchant
      <4>1. {x \in applied' : x.merchant = m} = S \cup {e}
        BY <1>2, <3>2
      <4>2. Cardinality(S \cup {e}) = Cardinality(S) + 1
        BY <3>1, FS_AddElement
      <4>. QED  BY <1>2, <1>3, <3>1, <3>2, <4>1, <4>2 DEF StoreType
    <3>3. CASE m # e.merchant
      <4>1. {x \in applied' : x.merchant = m} = S
        BY <1>2, <3>3
      <4>. QED  BY <1>2, <1>3, <3>1, <3>3, <4>1 DEF StoreType
    <3>. QED  BY <3>2, <3>3
  <2>. QED  BY <1>3, <2>1, <2>2 DEF NoPaymentLost
<1>7. Distinct'
  BY <1>2, LeaveTyped DEF Distinct
<1>8. SpendIsPruned'
  <2>1. store'.spend \subseteq applied'
    BY <1>2, <1>3 DEF SpendIsPruned
  <2>2. ASSUME NEW x \in applied', x \notin store'.spend
        PROVE  \E y \in applied' : Score(x.time) <= Score(y.time - Hour)
    BY <1>2, <1>3, <2>2 DEF SpendIsPruned, Upto
  <2>. QED  BY <2>1, <2>2 DEF SpendIsPruned
<1>9. CountedIsKnown'
  BY <1>2, <1>3 DEF CountedIsKnown, StoreType
<1>10. ReadSoFar'
  <2>1. context'[a] = EmptyContext /\ at'[a] = "idle"
    BY <1>2, LeaveTyped
  <2>2. \A b \in Actors : b # a => context'[b] = context[b] /\ at'[b] = at[b]
                                  /\ event'[b] = event[b]
    BY <1>2, LeaveTyped
  <2>3. Decoded(applied) \subseteq Decoded(applied')
    BY <1>2, DecodedGrows
  <2>4. /\ store.merchants \subseteq store'.merchants /\ event'[a] = {}
        /\ EmptyContext.recent = {} /\ EmptyContext.merchantCount = 0
    BY <1>2, <1>3, LeaveTyped DEF EmptyContext, Leave, TypeOK
  <2>. QED  BY <2>1, <2>2, <2>3, <2>4 DEF ReadSoFar
<1>11. PunctualWindowIsFull'
  BY <1>2, LeaveTyped DEF PunctualWindowIsFull
<1>. QED  BY <1>5, <1>6, <1>7, <1>8, <1>9, <1>10, <1>11

LEMMA StepIInv == IInv /\ [Next]_vars => IInv'
<1>1. ASSUME IInv, UNCHANGED vars PROVE IInv'
  BY <1>1 DEF IInv, vars, TypeOK, Distinct, NoPaymentLost, SpendIsPruned, CountedIsKnown,
     ReadSoFar, PunctualWindowIsFull
<1>. QED  BY <1>1, BeginKeeps, FailKeeps, SaveKeeps, ReadSpendKeeps, ReadProfileKeeps,
             ReadCountKeeps, ReadFailedKeeps, ReadMerchantKeeps, UpdateKeeps DEF Next, Reading

LEMMA AlwaysIInv == Spec => []IInv
  BY InitIInv, StepIInv, PTL DEF Spec

\* The type invariant, for any processes, times, merchants and number of events.
THEOREM TypeCorrect == Spec => []TypeOK
<1>1. IInv => TypeOK
  BY DEF IInv
<1>. QED  BY <1>1, AlwaysIInv, PTL

\* The counters of Redis count every applied payment, each once.
THEOREM CountersAreExact == Spec => []NoPaymentLost
<1>1. IInv => NoPaymentLost
  BY DEF IInv
<1>. QED  BY <1>1, AlwaysIInv, PTL

\* An event that is not late gets its full hour, whoever pruned the zset before.
THEOREM WindowIsFull == Spec => []PunctualWindowIsFull
<1>1. IInv => PunctualWindowIsFull
  BY DEF IInv
<1>. QED  BY <1>1, AlwaysIInv, PTL

\* Features read while other processes write do not contradict one another.
THEOREM TornReadsAreSafe == Spec => []TornReadsAgree
<1>1. IInv => TornReadsAgree
  BY DEF IInv, ReadSoFar, TornReadsAgree
<1>. QED  BY <1>1, AlwaysIInv, PTL
-------------------------------------------------------------------------------
(* The replay is a recursion over sets of rows: it has a solution, and     *)
(* each row is looked up and applied after all earlier ones.               *)

MemoryStep(s, e) == MemoryUpdated(MemoryLooked(s, e), e)
Replays(g, D) == g = [S \in SUBSET D |-> IF S = {} THEN EmptyMemory
                                         ELSE MemoryStep(g[S \ {Latest(S)}], Latest(S))]
Rows(S) == IsFiniteSet(S) /\ \A x \in S : x.time \in Int

LEMMA LatestIsLast ==
  ASSUME NEW S, Rows(S), S # {}
  PROVE  Latest(S) \in S /\ \A x \in S : x.time <= Latest(S).time
<1>. DEFINE R == {xy \in S \X S : xy[2].time <= xy[1].time}
<1>1. /\ \A x, y \in S : <<x, y>> \in R \/ <<y, x>> \in R
      /\ \A x, y, z \in S : <<x, y>> \in R /\ <<y, z>> \in R => <<x, z>> \in R
  BY DEF Rows
<1>. HIDE DEF R
<1>2. \E x \in S : \A y \in S : <<x, y>> \in R
  BY <1>1, SomeComesFirst DEF Rows
<1>3. \E x \in S : \A y \in S : y.time <= x.time
  BY <1>2 DEF R
<1>. QED  BY <1>3, Zenon DEF Latest

LEMMA RowsSubset == ASSUME NEW S, Rows(S), NEW X, X \subseteq S PROVE Rows(X)
  BY FS_Subset DEF Rows

LEMMA ReplayAgrees ==
  ASSUME NEW D, NEW E, Rows(E), NEW g, NEW h, Replays(g, D), Replays(h, E), E \subseteq D
  PROVE  \A S \in SUBSET E : g[S] = h[S]
<1>. DEFINE T == {S \in SUBSET E : g[S] # h[S]}
<1>. SUFFICES ASSUME T # {} PROVE FALSE
  OBVIOUS
<1>1. PICK S \in T : \A Y \in T : Y \subseteq S => Y = S
  <2>1. T \subseteq SUBSET E
    OBVIOUS
  <2>. HIDE DEF T
  <2>. QED  BY <2>1, LeastSubset DEF Rows
<1>2. S # {}
  BY <1>1 DEF Replays
<1>3. Latest(S) \in S
  BY <1>1, <1>2, RowsSubset, LatestIsLast
<1>4. g[S \ {Latest(S)}] = h[S \ {Latest(S)}]
  BY <1>1, <1>3
<1>5. /\ g[S] = MemoryStep(g[S \ {Latest(S)}], Latest(S))
      /\ h[S] = MemoryStep(h[S \ {Latest(S)}], Latest(S))
  BY <1>1, <1>2 DEF Replays
<1>. QED  BY <1>1, <1>4, <1>5

LEMMA ReplayExists == ASSUME NEW D, Rows(D) PROVE \E g : Replays(g, D)
<1>. DEFINE T == {E \in SUBSET D : ~\E g : Replays(g, E)}
<1>. SUFFICES ASSUME T # {} PROVE FALSE
  OBVIOUS
<1>1. PICK E \in T : \A Y \in T : Y \subseteq E => Y = E
  <2>1. T \subseteq SUBSET D
    OBVIOUS
  <2>. HIDE DEF T
  <2>. QED  BY <2>1, LeastSubset DEF Rows
<1>. DEFINE Of(S) == CHOOSE g : Replays(g, S)
            Before(S) == S \ {Latest(S)}
            G == [S \in SUBSET E |-> IF S = {} THEN EmptyMemory
                                     ELSE MemoryStep(Of(Before(S))[Before(S)], Latest(S))]
<1>2. \A S \in SUBSET E : S # E => Replays(Of(S), S)
  BY <1>1
<1>3. \A S \in SUBSET E : S # {} => Before(S) \in SUBSET E /\ Before(S) # E /\ Latest(S) \in S
  BY <1>1, RowsSubset, LatestIsLast
<1>. HIDE DEF Of
<1>6. /\ {} \in SUBSET E => G[{}] = EmptyMemory
      /\ \A S \in SUBSET E : S # {} => G[S] = MemoryStep(Of(Before(S))[Before(S)], Latest(S))
  OBVIOUS
<1>4. ASSUME NEW S \in SUBSET E, S # {} PROVE G[Before(S)] = Of(Before(S))[Before(S)]
  <2>. DEFINE X == Before(S)
  <2>1. X \in SUBSET E /\ Replays(Of(X), X)
    BY <1>2, <1>3, <1>4
  <2>. HIDE DEF X, G, Before
  <2>2. G[X] = Of(X)[X]
    <3>2. CASE X = {}
      <4>1. Of(X)[X] = EmptyMemory
        BY <2>1, <3>2 DEF Replays
      <4>. QED  BY <1>6, <3>2, <4>1
    <3>3. CASE X # {}
      <4>1. Before(X) \in SUBSET X /\ Before(X) \in SUBSET E /\ Replays(Of(Before(X)), Before(X))
        <5>1. Before(X) \in SUBSET X
          BY DEF Before
        <5>. QED  BY <1>2, <1>3, <2>1, <3>3, <5>1
      <4>2. Rows(Before(X))
        BY <1>1, <4>1, RowsSubset
      <4>3. Of(X)[Before(X)] = Of(Before(X))[Before(X)]
        <5>1. \A Z \in SUBSET Before(X) : Of(X)[Z] = Of(Before(X))[Z]
          BY <2>1, <4>1, <4>2, ReplayAgrees
        <5>. QED  BY <5>1
      <4>4. Of(X)[X] = MemoryStep(Of(X)[Before(X)], Latest(X))
        BY <2>1, <3>3 DEF Replays, Before
      <4>5. G[X] = MemoryStep(Of(Before(X))[Before(X)], Latest(X))
        BY <1>6, <2>1, <3>3
      <4>. QED  BY <4>3, <4>4, <4>5
    <3>. QED  BY <3>2, <3>3
  <2>. QED  BY <2>2 DEF X
<1>5. Replays(G, E)
  <2>. SUFFICES ASSUME NEW S \in SUBSET E, S # {}
                PROVE  MemoryStep(Of(Before(S))[Before(S)], Latest(S)) = MemoryStep(G[Before(S)], Latest(S))
    BY Zenon DEF Replays
  <2>. QED  BY <1>4
<1>. QED  BY <1>1, <1>5

LEMMA ReplayedLatest ==
  ASSUME NEW S, Rows(S)
  PROVE  /\ S = {} => Replayed(S) = EmptyMemory
         /\ S # {} => Replayed(S) = MemoryStep(Replayed(S \ {Latest(S)}), Latest(S))
<1>. DEFINE Of(X) == CHOOSE g : Replays(g, X)
<1>1. \A X : Replayed(X) = Of(X)[X]
  BY DEF Replayed, Replays, MemoryStep
<1>2. \A X \in SUBSET S : Replays(Of(X), X)
  BY RowsSubset, ReplayExists
<1>. HIDE DEF Of
<1>3. CASE S = {}
  BY <1>1, <1>2, <1>3 DEF Replays
<1>4. CASE S # {}
  <2>. DEFINE X == S \ {Latest(S)}
  <2>1. X \in SUBSET S /\ Rows(X)
    BY RowsSubset
  <2>2. Of(S)[X] = Of(X)[X]
    <3>1. Replays(Of(S), S) /\ Replays(Of(X), X) /\ X \subseteq S
      BY <1>2, <2>1
    <3>. HIDE DEF X
    <3>2. \A Z \in SUBSET X : Of(S)[Z] = Of(X)[Z]
      BY <2>1, <3>1, ReplayAgrees
    <3>. QED  BY <3>2
  <2>3. Of(S)[S] = MemoryStep(Of(S)[X], Latest(S))
    BY <1>2, <1>4 DEF Replays
  <2>. QED  BY <1>1, <1>4, <2>2, <2>3
<1>. QED  BY <1>3, <1>4
-------------------------------------------------------------------------------
(* A deque in the order of event_time, and what is popped from it.         *)

Sorted(q) == q \in Seq(Event) /\ \A i, j \in 1..Len(q) : i < j => q[i].time < q[j].time

LEMMA EventTyped ==
  \A x \in Event : x.time \in Int /\ x.time \in Times /\ x.merchant \in Merchants
  BY WindowAssumption DEF Event

LEMMA PoppedKeeps ==
  ASSUME NEW q, Sorted(q), NEW from \in Int
  PROVE  /\ Sorted(Popped(q, from))
         /\ ToSet(Popped(q, from)) = {x \in ToSet(q) : from <= x.time}
<1>. DEFINE old == {n \in 0..Len(q) : \A i \in 1..n : q[i].time < from}
            n == CHOOSE n \in old : \A k \in old : k <= n
            P == SubSeq(q, 1 + n, Len(q))
<1>1. q \in Seq(Event) /\ Len(q) \in Nat /\ \A i \in 1..Len(q) : q[i] \in Event /\ q[i].time \in Int
  BY EventTyped DEF Sorted
<1>2. n \in old /\ \A k \in old : k <= n
  <2>. DEFINE D == {Len(q) - k : k \in old}
  <2>1. 0 \in old /\ D \subseteq Nat
    BY <1>1
  <2>2. D # {}
    BY <2>1
  <2>. HIDE DEF D
  <2>3. PICK d \in D : \A y \in D : d <= y
    BY <2>1, <2>2, LeastNumber
  <2>4. PICK k \in old : d = Len(q) - k
    BY <2>3 DEF D
  <2>5. \A j \in old : Len(q) - k <= Len(q) - j
    BY <2>3, <2>4 DEF D
  <2>6. \A j \in old : j <= k
    BY <1>1, <2>4, <2>5
  <2>. HIDE DEF old
  <2>. QED  BY <2>4, <2>6
<1>3. Popped(q, from) = P
  BY DEF Popped
<1>4. n \in 0..Len(q) /\ \A i \in 1..n : q[i].time < from
  BY <1>2
<1>5. n < Len(q) => ~(q[n + 1].time < from)
  <2>. SUFFICES ASSUME n < Len(q), q[n + 1].time < from PROVE FALSE
    OBVIOUS
  <2>. HIDE DEF n
  <2>1. n + 1 \in old
    BY <1>1, <1>4
  <2>. QED  BY <1>1, <1>2, <1>4, <2>1
<1>. HIDE DEF n, old
<1>6. \A i \in 1..Len(q) : i > n => from <= q[i].time
  <2>. SUFFICES ASSUME NEW i \in 1..Len(q), i > n PROVE from <= q[i].time
    OBVIOUS
  <2>1. n + 1 \in 1..Len(q) /\ from <= q[n + 1].time
    BY <1>1, <1>4, <1>5
  <2>2. i = n + 1 \/ q[n + 1].time < q[i].time
    BY <1>1, <1>4, <2>1 DEF Sorted
  <2>. QED  BY <1>1, <2>1, <2>2
<1>7. /\ P \in Seq(Event) /\ Len(P) = Len(q) - n
      /\ \A i \in 1..Len(P) : P[i] = q[i + n]
  BY <1>1, <1>4
<1>. HIDE DEF P
<1>8. Sorted(P)
  <2>. SUFFICES ASSUME NEW i \in 1..Len(P), NEW j \in 1..Len(P), i < j PROVE P[i].time < P[j].time
    BY <1>7 DEF Sorted
  <2>1. i + n \in 1..Len(q) /\ j + n \in 1..Len(q) /\ i + n < j + n
    BY <1>1, <1>4, <1>7
  <2>2. q[i + n].time < q[j + n].time
    BY <2>1 DEF Sorted
  <2>. QED  BY <1>7, <2>2
<1>9. ToSet(P) = {x \in ToSet(q) : from <= x.time}
  <2>1. ToSet(P) = {P[i] : i \in 1..Len(P)} /\ ToSet(q) = {q[i] : i \in 1..Len(q)}
    BY <1>1, <1>7 DEF ToSet
  <2>2. ASSUME NEW i \in 1..Len(P) PROVE i + n \in 1..Len(q) /\ P[i] = q[i + n] /\ from <= q[i + n].time
    BY <1>1, <1>4, <1>6, <1>7
  <2>3. ASSUME NEW i \in 1..Len(q), from <= q[i].time PROVE i - n \in 1..Len(P) /\ P[i - n] = q[i]
    <3>1. i > n
      BY <1>1, <1>4, <2>3
    <3>. QED  BY <1>1, <1>4, <1>7, <3>1
  <2>. QED  BY <2>1, <2>2, <2>3
<1>. QED  BY <1>3, <1>8, <1>9

LEMMA AppendKeeps ==
  ASSUME NEW q, Sorted(q), NEW e \in Event, \A x \in ToSet(q) : x.time < e.time
  PROVE  Sorted(Append(q, e)) /\ ToSet(Append(q, e)) = ToSet(q) \cup {e}
<1>1. ToSet(q) = {q[i] : i \in 1..Len(q)} /\ ToSet(Append(q, e)) = {Append(q, e)[i] : i \in 1..Len(q) + 1}
  BY DEF ToSet, Sorted
<1>2. /\ Append(q, e) \in Seq(Event) /\ Len(Append(q, e)) = Len(q) + 1 /\ Len(q) \in Nat
      /\ Append(q, e)[Len(q) + 1] = e
      /\ \A i \in 1..Len(q) : Append(q, e)[i] = q[i]
  BY DEF Sorted
<1>. DEFINE A == Append(q, e)
<1>. HIDE DEF A
<1>3. Sorted(A)
  BY <1>1, <1>2 DEF Sorted, A
<1>4. ToSet(A) = ToSet(q) \cup {e}
  BY <1>1, <1>2 DEF A
<1>. QED  BY <1>3, <1>4 DEF A
-------------------------------------------------------------------------------
(* What the windows and the profile have of a set of rows.                 *)

Kept(S, w) == {x \in S : \A y \in S : y.time - w <= x.time}
Newest(S, w) == {x \in S : \A y \in S : Score(y.time - w) < Score(x.time)}
Firsts(S) == {x.time : x \in {e \in S : \A y \in S : e.time <= y.time}}
Lasts(S) == {x.time : x \in {e \in S : \A y \in S : y.time <= e.time}}
Counts(S) == [m \in Merchants |-> Cardinality({x \in S : x.merchant = m})]
Known(S) == {x.merchant : x \in S}

\* A row later than all before it.
LEMMA LaterRow ==
  ASSUME NEW S \in SUBSET Event, IsFiniteSet(S), NEW e \in Event, \A x \in S : x.time < e.time
  PROVE  /\ Firsts(S \cup {e}) = (IF Firsts(S) = {} THEN {e.time} ELSE Firsts(S))
         /\ Lasts(S \cup {e}) = {e.time}
         /\ Counts(S \cup {e}) = [Counts(S) EXCEPT ![e.merchant] = @ + 1]
         /\ Cardinality(S \cup {e}) = Cardinality(S) + 1
         /\ Known(S \cup {e}) = Known(S) \cup {e.merchant}
<1>. USE EventTyped
<1>1. \A x \in S : x.time \in Int /\ x.time < e.time
  OBVIOUS
<1>2. e.time \in Int /\ e \notin S
  BY <1>1
<1>5. Firsts(S \cup {e}) = (IF Firsts(S) = {} THEN {e.time} ELSE Firsts(S))
  <2>1. CASE S = {}
    BY <1>2, <2>1 DEF Firsts
  <2>2. CASE S # {}
    <3>1. PICK f \in S : \A y \in S : f.time <= y.time
      <4>. DEFINE R == {xy \in S \X S : xy[1].time <= xy[2].time}
      <4>1. /\ \A x, y \in S : <<x, y>> \in R \/ <<y, x>> \in R
            /\ \A x, y, z \in S : <<x, y>> \in R /\ <<y, z>> \in R => <<x, z>> \in R
        BY <1>1
      <4>. HIDE DEF R
      <4>2. \E x \in S : \A y \in S : <<x, y>> \in R
        BY <2>2, <4>1, SomeComesFirst
      <4>. QED  BY <4>2 DEF R
    <3>2. f.time \in Firsts(S)
      BY <3>1 DEF Firsts
    <3>3. \A x \in S \cup {e} : (\A y \in S \cup {e} : x.time <= y.time)
                                 <=> x \in S /\ \A y \in S : x.time <= y.time
      BY <1>1, <1>2, <2>2
    <3>4. Firsts(S \cup {e}) = Firsts(S)
      BY <3>3 DEF Firsts
    <3>. QED  BY <3>2, <3>4
  <2>. QED  BY <2>1, <2>2
<1>6. Lasts(S \cup {e}) = {e.time}
  <2>1. \A x \in S \cup {e} : (\A y \in S \cup {e} : y.time <= x.time) <=> x = e
    BY <1>1, <1>2
  <2>. QED  BY <2>1 DEF Lasts
<1>7. Counts(S \cup {e}) = [Counts(S) EXCEPT ![e.merchant] = @ + 1]
  <2>1. ASSUME NEW m \in Merchants
        PROVE  Counts(S \cup {e})[m] = IF m = e.merchant THEN Counts(S)[m] + 1 ELSE Counts(S)[m]
    <3>. DEFINE X == {x \in S : x.merchant = m}
    <3>1. IsFiniteSet(X) /\ e \notin X
      BY <1>2, FS_Subset
    <3>2. m = e.merchant => {x \in S \cup {e} : x.merchant = m} = X \cup {e}
      OBVIOUS
    <3>3. m # e.merchant => {x \in S \cup {e} : x.merchant = m} = X
      OBVIOUS
    <3>4. Cardinality(X \cup {e}) = Cardinality(X) + 1
      BY <3>1, FS_AddElement
    <3>5. Counts(S)[m] = Cardinality(X)
      BY DEF Counts
    <3>6. Counts(S \cup {e})[m] = Cardinality({x \in S \cup {e} : x.merchant = m})
      BY DEF Counts
    <3>. QED  BY <3>2, <3>3, <3>4, <3>5, <3>6
  <2>2. e.merchant \in Merchants
    OBVIOUS
  <2>. QED  BY <2>1, <2>2 DEF Counts
<1>8. Cardinality(S \cup {e}) = Cardinality(S) + 1
  BY <1>2, FS_AddElement
<1>9. Known(S \cup {e}) = Known(S) \cup {e.merchant}
  BY DEF Known
<1>. QED  BY <1>5, <1>6, <1>7, <1>8, <1>9
-------------------------------------------------------------------------------
(* What the memory store has once rows of different times were replayed.   *)

MemoryType == [transactions : Seq(Event), failed : Seq(Event), merchants : SUBSET Merchants,
               merchantCount : [Merchants -> Nat], count : Nat,
               first : SUBSET Times, last : SUBSET Times]
Remembers(m, S) ==
  /\ m \in MemoryType
  /\ Sorted(m.transactions) /\ ToSet(m.transactions) = Kept(S, Hour)
  /\ Sorted(m.failed) /\ ToSet(m.failed) = {x \in Kept(S, FiveMinutes) : x.failed}
  /\ m.merchants = Known(S) /\ m.merchantCount = Counts(S) /\ m.count = Cardinality(S)
  /\ m.first = Firsts(S) /\ m.last = Lasts(S)

DifferentTimes(S) == \A x, y \in S : x.time = y.time => x = y

LEMMA LookedRemembers ==
  ASSUME NEW S \in SUBSET Event, NEW m, Remembers(m, S),
         NEW e \in Event, \A x \in S : x.time < e.time
  PROVE  LET l == MemoryLooked(m, e) IN
         /\ l \in MemoryType
         /\ Sorted(l.transactions) /\ Sorted(l.failed)
         /\ ToSet(l.transactions) = {x \in S : e.time - Hour <= x.time}
         /\ ToSet(l.failed) = {x \in S : e.time - FiveMinutes <= x.time /\ x.failed}
         /\ l.merchants = m.merchants /\ l.merchantCount = m.merchantCount
         /\ l.count = m.count /\ l.first = m.first /\ l.last = m.last
<1>. DEFINE l == MemoryLooked(m, e)
            t == Popped(m.transactions, e.time - Hour)
            f == Popped(m.failed, e.time - FiveMinutes)
<1>1. e.time \in Int /\ e.time - Hour \in Int /\ e.time - FiveMinutes \in Int
  BY EventTyped, WindowAssumption
<1>2. /\ Sorted(t) /\ ToSet(t) = {x \in Kept(S, Hour) : e.time - Hour <= x.time}
      /\ Sorted(f) /\ ToSet(f) = {x \in {y \in Kept(S, FiveMinutes) : y.failed} :
                                    e.time - FiveMinutes <= x.time}
  BY <1>1, PoppedKeeps DEF Remembers
<1>3. l = [m EXCEPT !.transactions = t, !.failed = f] /\ t \in Seq(Event) /\ f \in Seq(Event)
  BY <1>2 DEF MemoryLooked, Sorted
<1>. HIDE DEF t, f
<1>4. /\ l \in MemoryType /\ l.transactions = t /\ l.failed = f
      /\ l.merchants = m.merchants /\ l.merchantCount = m.merchantCount
      /\ l.count = m.count /\ l.first = m.first /\ l.last = m.last
  <2>. HIDE DEF l
  <2>. QED  BY <1>3 DEF Remembers, MemoryType
<1>5. \A w \in Nat : {x \in Kept(S, w) : e.time - w <= x.time} = {x \in S : e.time - w <= x.time}
  <2>. SUFFICES ASSUME NEW w \in Nat, NEW x \in S, e.time - w <= x.time, NEW y \in S
                PROVE  y.time - w <= x.time
    BY DEF Kept
  <2>1. x.time \in Int /\ y.time \in Int /\ y.time < e.time
    BY EventTyped
  <2>. QED  BY <1>1, <2>1
<1>6. ToSet(t) = {x \in S : e.time - Hour <= x.time}
  BY <1>2, <1>5, WindowAssumption
<1>7. ToSet(f) = {x \in S : e.time - FiveMinutes <= x.time /\ x.failed}
  <2>1. {x \in Kept(S, FiveMinutes) : e.time - FiveMinutes <= x.time}
          = {x \in S : e.time - FiveMinutes <= x.time}
    BY <1>5, WindowAssumption
  <2>. QED  BY <1>2, <2>1
<1>. HIDE DEF l
<1>8. /\ l \in MemoryType
      /\ Sorted(l.transactions) /\ Sorted(l.failed)
      /\ ToSet(l.transactions) = {x \in S : e.time - Hour <= x.time}
      /\ ToSet(l.failed) = {x \in S : e.time - FiveMinutes <= x.time /\ x.failed}
      /\ l.merchants = m.merchants /\ l.merchantCount = m.merchantCount
      /\ l.count = m.count /\ l.first = m.first /\ l.last = m.last
  BY <1>2, <1>4, <1>6, <1>7
<1>. QED  BY <1>8 DEF l

LEMMA StepRemembers ==
  ASSUME NEW S \in SUBSET Event, IsFiniteSet(S), NEW m, Remembers(m, S),
         NEW e \in Event, \A x \in S : x.time < e.time
  PROVE  Remembers(MemoryStep(m, e), S \cup {e})
<1>. DEFINE l == MemoryLooked(m, e)
            u == MemoryStep(m, e)
            U == S \cup {e}
<1>1. /\ l \in MemoryType
      /\ Sorted(l.transactions) /\ Sorted(l.failed)
      /\ ToSet(l.transactions) = {x \in S : e.time - Hour <= x.time}
      /\ ToSet(l.failed) = {x \in S : e.time - FiveMinutes <= x.time /\ x.failed}
      /\ l.merchants = m.merchants /\ l.merchantCount = m.merchantCount
      /\ l.count = m.count /\ l.first = m.first /\ l.last = m.last
  BY LookedRemembers
<1>2. u = [transactions |-> Append(l.transactions, e),
           failed |-> IF e.failed THEN Append(l.failed, e) ELSE l.failed,
           merchants |-> l.merchants \cup {e.merchant},
           merchantCount |-> [l.merchantCount EXCEPT ![e.merchant] = @ + 1],
           count |-> l.count + 1,
           first |-> IF l.first = {} THEN {e.time} ELSE l.first,
           last |-> {e.time}]
  BY DEF MemoryStep, MemoryUpdated
<1>. HIDE DEF l, u
<1>3. /\ Sorted(Append(l.transactions, e)) /\ ToSet(Append(l.transactions, e)) = ToSet(l.transactions) \cup {e}
      /\ Sorted(Append(l.failed, e)) /\ ToSet(Append(l.failed, e)) = ToSet(l.failed) \cup {e}
  BY <1>1, AppendKeeps
<1>4. u \in MemoryType
  <2>1. e.merchant \in Merchants /\ e.time \in Times
    BY EventTyped
  <2>2. l.merchantCount \in [Merchants -> Nat] /\ l.count \in Nat /\ l.first \in SUBSET Times
        /\ l.merchants \in SUBSET Merchants /\ l.failed \in Seq(Event)
    BY <1>1 DEF MemoryType
  <2>3. Append(l.transactions, e) \in Seq(Event) /\ Append(l.failed, e) \in Seq(Event)
    BY <1>3 DEF Sorted
  <2>. QED  BY <1>2, <2>1, <2>2, <2>3 DEF MemoryType
<1>5. ASSUME NEW w \in Nat \ {0}
      PROVE  Kept(U, w) = {x \in S : e.time - w <= x.time} \cup {e}
  <2>1. e.time \in Int /\ \A x \in S : x.time \in Int
    BY EventTyped
  <2>. QED  BY <2>1 DEF Kept
<1>6. Sorted(u.transactions) /\ ToSet(u.transactions) = Kept(U, Hour)
  <2>1. Kept(U, Hour) = {x \in S : e.time - Hour <= x.time} \cup {e}
    BY <1>5, WindowAssumption
  <2>. HIDE DEF U
  <2>. QED  BY <1>1, <1>2, <1>3, <2>1
<1>7. Sorted(u.failed) /\ ToSet(u.failed) = {x \in Kept(U, FiveMinutes) : x.failed}
  <2>1. Kept(U, FiveMinutes) = {x \in S : e.time - FiveMinutes <= x.time} \cup {e}
    BY <1>5, WindowAssumption
  <2>. HIDE DEF U
  <2>2. u.failed = IF e.failed THEN Append(l.failed, e) ELSE l.failed
    BY <1>2
  <2>3. CASE e.failed
    <3>1. {x \in Kept(U, FiveMinutes) : x.failed}
            = {x \in S : e.time - FiveMinutes <= x.time /\ x.failed} \cup {e}
      BY <2>1, <2>3
    <3>. QED  BY <1>1, <1>3, <2>2, <2>3, <3>1
  <2>4. CASE ~e.failed
    <3>1. {x \in Kept(U, FiveMinutes) : x.failed}
            = {x \in S : e.time - FiveMinutes <= x.time /\ x.failed}
      BY <2>1, <2>4
    <3>. QED  BY <1>1, <1>3, <2>2, <2>4, <3>1
  <2>. QED  BY <2>3, <2>4
<1>8. /\ u.merchants = Known(U) /\ u.merchantCount = Counts(U) /\ u.count = Cardinality(U)
      /\ u.first = Firsts(U) /\ u.last = Lasts(U)
  <2>1. /\ Firsts(U) = (IF Firsts(S) = {} THEN {e.time} ELSE Firsts(S))
        /\ Lasts(U) = {e.time} /\ Cardinality(U) = Cardinality(S) + 1
        /\ Counts(U) = [Counts(S) EXCEPT ![e.merchant] = @ + 1]
        /\ Known(U) = Known(S) \cup {e.merchant}
    BY LaterRow, WindowAssumption
  <2>. HIDE DEF U
  <2>2. /\ l.merchants = Known(S) /\ l.merchantCount = Counts(S) /\ l.count = Cardinality(S)
        /\ l.first = Firsts(S)
    BY <1>1 DEF Remembers
  <2>. QED  BY <1>2, <2>1, <2>2
<1>. QED  BY <1>4, <1>6, <1>7, <1>8 DEF Remembers, u

LEMMA ReplayRemembers ==
  ASSUME NEW rows \in SUBSET Event, IsFiniteSet(rows), DifferentTimes(rows)
  PROVE  Remembers(Replayed(rows), rows)
<1>. DEFINE T == {S \in SUBSET rows : ~Remembers(Replayed(S), S)}
<1>. SUFFICES ASSUME T # {} PROVE FALSE
  OBVIOUS
<1>1. PICK S \in T : \A Y \in T : Y \subseteq S => Y = S
  <2>1. T \subseteq SUBSET rows
    OBVIOUS
  <2>. HIDE DEF T
  <2>. QED  BY <2>1, LeastSubset
<1>2. Rows(S) /\ S \subseteq Event /\ DifferentTimes(S)
  BY <1>1, FS_Subset, EventTyped DEF Rows, DifferentTimes
<1>3. CASE S = {}
  <2>1. Replayed(S) = EmptyMemory
    BY <1>2, <1>3, ReplayedLatest
  <2>2. Sorted(<<>>) /\ ToSet(<<>>) = {}
    BY DEF Sorted, ToSet
  <2>3. Kept(S, Hour) = {} /\ Kept(S, FiveMinutes) = {} /\ Known(S) = {} /\ Firsts(S) = {} /\ Lasts(S) = {}
    BY <1>3 DEF Kept, Known, Firsts, Lasts
  <2>4. Cardinality(S) = 0
    BY <1>3, FS_EmptySet
  <2>5. Counts(S) = [x \in Merchants |-> 0]
    <3>1. \A x \in Merchants : {y \in S : y.merchant = x} = {}
      BY <1>3
    <3>2. \A x \in Merchants : Cardinality({y \in S : y.merchant = x}) = 0
      BY <3>1, FS_EmptySet
    <3>. QED  BY <3>2 DEF Counts
  <2>6. EmptyMemory \in MemoryType
    BY DEF EmptyMemory, MemoryType
  <2>7. Remembers(EmptyMemory, S)
    BY <2>2, <2>3, <2>4, <2>5, <2>6 DEF Remembers, EmptyMemory
  <2>. QED  BY <1>1, <2>1, <2>7
<1>4. CASE S # {}
  <2>. DEFINE e == Latest(S)
              X == S \ {e}
  <2>1. e \in S /\ \A x \in S : x.time <= e.time
    BY <1>2, <1>4, LatestIsLast
  <2>. HIDE DEF e
  <2>2. \A x \in X : x.time < e.time
    <3>. SUFFICES ASSUME NEW x \in X PROVE x.time < e.time
      OBVIOUS
    <3>1. x.time # e.time /\ x.time \in Int /\ e.time \in Int /\ x.time <= e.time
      BY <1>2, <2>1 DEF DifferentTimes, Rows
    <3>. QED  BY <3>1
  <2>3. Remembers(Replayed(X), X)
    BY <1>1, <2>1
  <2>4. IsFiniteSet(X) /\ X \in SUBSET Event /\ X \cup {e} = S /\ e \in Event
    BY <1>2, <2>1, FS_Subset DEF Rows
  <2>5. Replayed(S) = MemoryStep(Replayed(X), e)
    BY <1>2, <1>4, ReplayedLatest DEF e
  <2>. HIDE DEF X
  <2>6. Remembers(MemoryStep(Replayed(X), e), X \cup {e})
    BY <2>2, <2>3, <2>4, StepRemembers
  <2>. QED  BY <1>1, <2>4, <2>5, <2>6
<1>. QED  BY <1>3, <1>4
-------------------------------------------------------------------------------
(* What Redis has, and what is being read, while events come in order.     *)

\* Redis prunes by the newest event and by milliseconds, the replay by the one that
\* looks and by microseconds: with events in order what is kept differs by the
\* millisecond at the edge of the window only.
StoreInOrder ==
  /\ store.merchants = Known(applied)
  /\ inOrder => /\ DifferentTimes(applied)
                /\ store.spend = Newest(applied, Hour)
                /\ store.failed = {x \in Newest(applied, FiveMinutes) : x.failed}
                /\ store.first = Firsts(applied) /\ store.last = Lasts(applied)

SeenWasApplied == \A a \in Actors : seen[a] \subseteq applied

\* While nothing is applied, what has been read is what could be read now.
Current(place, c, e) ==
  /\ place \in {"profile", "count", "failed", "merchant", "read"} =>
       c.recent = Decoded(Within(store.spend, Score(e.time - Hour), Score(e.time)))
  /\ place \in {"count", "failed", "merchant", "read"} =>
       c.count = store.count /\ c.first = store.first /\ c.last = store.last
  /\ place \in {"failed", "merchant", "read"} => c.merchantCount = store.merchantCount[e.merchant]
  /\ place \in {"merchant", "read"} =>
       c.failed = Within(store.failed, Score(e.time - FiveMinutes), Score(e.time))
  /\ place = "read" => c.known = (e.merchant \in store.merchants)
ContextCurrent == \A a \in Actors : \A e \in event[a] :
  seen[a] = applied => Current(at[a], context[a], e)

Served == StoreInOrder /\ SeenWasApplied /\ ContextCurrent /\ IsFiniteSet(saved)

LEMMA InitServed == Init => Served
<1>. SUFFICES ASSUME Init PROVE Served
  OBVIOUS
<1>. USE DEF Init
<1>1. /\ Known({}) = {} /\ Newest({}, Hour) = {} /\ Newest({}, FiveMinutes) = {}
      /\ Firsts({}) = {} /\ Lasts({}) = {} /\ DifferentTimes({})
  BY DEF Known, Newest, Firsts, Lasts, DifferentTimes
<1>2. StoreInOrder
  BY <1>1 DEF StoreInOrder, EmptyStore
<1>. QED  BY <1>2, FS_EmptySet DEF Served, SeenWasApplied, ContextCurrent, Current

\* A step that leaves Redis alone, and of the others everything.
LEMMA OthersServed ==
  ASSUME IInv, Served, NEW a \in Actors, UNCHANGED <<store, applied, inOrder>>,
         \A b \in Actors : b # a => /\ at'[b] = at[b] /\ event'[b] = event[b]
                                   /\ context'[b] = context[b] /\ seen'[b] = seen[b],
         seen'[a] \subseteq applied,
         \/ event'[a] = {}
         \/ at'[a] \notin {"profile", "count", "failed", "merchant", "read"},
         IsFiniteSet(saved')
  PROVE  Served'
<1>1. StoreInOrder'
  BY DEF Served, StoreInOrder
<1>2. SeenWasApplied'
  BY DEF Served, SeenWasApplied
<1>3. ContextCurrent'
  BY DEF Served, ContextCurrent, Current
<1>. QED  BY <1>1, <1>2, <1>3 DEF Served

\* A read by a: what remains to be shown is about a alone.
LEMMA ReadServes ==
  ASSUME IInv, Served, NEW a \in Actors, NEW place \in DOMAIN NextRead, NEW c,
         Read(a, place, c),
         seen' = seen \/ seen' = [seen EXCEPT ![a] = applied],
         \A e \in event[a] : seen'[a] = applied => Current(NextRead[place], c, e)
  PROVE  Served'
<1>1. /\ UNCHANGED <<store, event, applied, inOrder, saved>>
      /\ at'[a] = NextRead[place] /\ context'[a] = c
      /\ \A b \in Actors : b # a => /\ at'[b] = at[b] /\ context'[b] = context[b]
                                    /\ seen'[b] = seen[b]
  BY DEF Read, IInv, TypeOK
<1>2. StoreInOrder'
  BY <1>1 DEF Served, StoreInOrder
<1>3. SeenWasApplied'
  <2>1. seen'[a] \subseteq applied
    BY DEF Served, SeenWasApplied, IInv, TypeOK
  <2>. QED  BY <1>1, <2>1 DEF Served, SeenWasApplied
<1>4. \A p, x, e : Current(p, x, e)' <=> Current(p, x, e)
  BY <1>1 DEF Current
<1>5. ContextCurrent'
  BY <1>1, <1>4 DEF Served, ContextCurrent
<1>. QED  BY <1>1, <1>2, <1>3, <1>5 DEF Served

LEMMA ReadingServes == ASSUME IInv, Served, NEW a \in Actors, Reading(a) PROVE Served'
<1>. USE DEF NextRead
<1>1. /\ context[a] \in ContextType
      /\ \A e, f \in event[a] : e = f
      /\ \A e \in event[a] : seen[a] = applied => Current(at[a], context[a], e)
  BY TypeParts DEF IInv, Distinct, Served, ContextCurrent
<1>2. CASE ReadSpend(a)
  <2>1. PICK e \in event[a] :
          /\ Read(a, "spend", [context[a] EXCEPT
                                 !.recent = Decoded(Within(store.spend, Score(e.time - Hour), Score(e.time)))])
          /\ seen' = [seen EXCEPT ![a] = applied]
    BY <1>2 DEF ReadSpend
  <2>. DEFINE c == [context[a] EXCEPT !.recent = Decoded(Within(store.spend, Score(e.time - Hour), Score(e.time)))]
  <2>2. c.recent = Decoded(Within(store.spend, Score(e.time - Hour), Score(e.time)))
    BY <1>1 DEF ContextType
  <2>3. Read(a, "spend", c)
    BY <2>1
  <2>. HIDE DEF c
  <2>4. \A f \in event[a] : Current("profile", c, f)
    BY <1>1, <2>1, <2>2 DEF Current
  <2>. QED  BY <2>1, <2>3, <2>4, ReadServes
<1>3. CASE ReadProfile(a)
  <2>. DEFINE c == [context[a] EXCEPT !.count = store.count,
                                      !.first = store.first, !.last = store.last]
  <2>1. Read(a, "profile", c) /\ seen' = seen /\ at[a] = "profile"
    BY <1>3 DEF ReadProfile, Read
  <2>2. /\ c.recent = context[a].recent /\ c.count = store.count
        /\ c.first = store.first /\ c.last = store.last
    BY <1>1 DEF ContextType
  <2>. HIDE DEF c
  <2>3. \A e \in event[a] : seen[a] = applied => Current("count", c, e)
    BY <1>1, <2>1, <2>2 DEF Current
  <2>. QED  BY <2>1, <2>3, ReadServes
<1>4. CASE ReadCount(a)
  <2>1. PICK e \in event[a] :
          Read(a, "count", [context[a] EXCEPT !.merchantCount = store.merchantCount[e.merchant]])
    BY <1>4 DEF ReadCount
  <2>. DEFINE c == [context[a] EXCEPT !.merchantCount = store.merchantCount[e.merchant]]
  <2>2. Read(a, "count", c) /\ seen' = seen /\ at[a] = "count"
    BY <1>4, <2>1 DEF ReadCount, Read
  <2>3. /\ c.recent = context[a].recent /\ c.count = context[a].count
        /\ c.first = context[a].first /\ c.last = context[a].last
        /\ c.merchantCount = store.merchantCount[e.merchant]
    BY <1>1 DEF ContextType
  <2>. HIDE DEF c
  <2>4. \A f \in event[a] : seen[a] = applied => Current("failed", c, f)
    BY <1>1, <2>1, <2>2, <2>3 DEF Current
  <2>. QED  BY <2>2, <2>4, ReadServes
<1>5. CASE ReadFailed(a)
  <2>1. PICK e \in event[a] :
          Read(a, "failed", [context[a] EXCEPT
                               !.failed = Within(store.failed, Score(e.time - FiveMinutes), Score(e.time))])
    BY <1>5 DEF ReadFailed
  <2>. DEFINE c == [context[a] EXCEPT
                      !.failed = Within(store.failed, Score(e.time - FiveMinutes), Score(e.time))]
  <2>2. Read(a, "failed", c) /\ seen' = seen /\ at[a] = "failed"
    BY <1>5, <2>1 DEF ReadFailed, Read
  <2>3. /\ c.recent = context[a].recent /\ c.count = context[a].count
        /\ c.first = context[a].first /\ c.last = context[a].last
        /\ c.merchantCount = context[a].merchantCount
        /\ c.failed = Within(store.failed, Score(e.time - FiveMinutes), Score(e.time))
    BY <1>1 DEF ContextType
  <2>. HIDE DEF c
  <2>4. \A f \in event[a] : seen[a] = applied => Current("merchant", c, f)
    BY <1>1, <2>1, <2>2, <2>3 DEF Current
  <2>. QED  BY <2>2, <2>4, ReadServes
<1>6. CASE ReadMerchant(a)
  <2>1. PICK e \in event[a] :
          Read(a, "merchant", [context[a] EXCEPT !.known = e.merchant \in store.merchants])
    BY <1>6 DEF ReadMerchant
  <2>. DEFINE c == [context[a] EXCEPT !.known = e.merchant \in store.merchants]
  <2>2. Read(a, "merchant", c) /\ seen' = seen /\ at[a] = "merchant"
    BY <1>6, <2>1 DEF ReadMerchant, Read
  <2>3. /\ c.recent = context[a].recent /\ c.count = context[a].count
        /\ c.first = context[a].first /\ c.last = context[a].last
        /\ c.merchantCount = context[a].merchantCount /\ c.failed = context[a].failed
        /\ c.known = (e.merchant \in store.merchants)
    BY <1>1 DEF ContextType
  <2>. HIDE DEF c
  <2>4. \A f \in event[a] : seen[a] = applied => Current("read", c, f)
    BY <1>1, <2>1, <2>2, <2>3 DEF Current
  <2>. QED  BY <2>2, <2>4, ReadServes
<1>. QED  BY <1>2, <1>3, <1>4, <1>5, <1>6 DEF Reading

LEMMA BystanderServes ==
  ASSUME IInv, Served, NEW a \in Actors, Begin(a) \/ Save(a) \/ Fail(a) PROVE Served'
<1>. /\ \A b \in Actors : at[b] \in Places /\ seen[b] \subseteq applied
  BY TypeParts DEF IInv, Served, SeenWasApplied
<1>1. CASE Begin(a)
  <2>1. at'[a] = "spend" /\ UNCHANGED <<store, applied, inOrder, seen, context, saved>>
    BY <1>1 DEF Begin, IInv, TypeOK
  <2>2. \A b \in Actors : b # a => at'[b] = at[b] /\ event'[b] = event[b]
    BY <1>1 DEF Begin, IInv, TypeOK
  <2>. QED  BY <2>1, <2>2, OthersServed DEF Served
<1>2. CASE Save(a)
  <2>1. at'[a] = "saved" /\ UNCHANGED <<store, applied, inOrder, seen, context, event>>
    BY <1>2 DEF Save, IInv, TypeOK
  <2>2. \A b \in Actors : b # a => at'[b] = at[b]
    BY <1>2 DEF Save, IInv, TypeOK
  <2>3. IsFiniteSet(saved')
    <3>1. CASE event[a] = {}
      BY <1>2, <3>1 DEF Save, Served
    <3>2. CASE event[a] # {}
      <4>1. PICK e \in event[a] : event[a] = {e}
        BY <3>2 DEF IInv, Distinct
      <4>2. saved' = saved \cup {e}
        BY <1>2, <4>1 DEF Save
      <4>. QED  BY <4>2, FS_AddElement DEF Served
    <3>. QED  BY <3>1, <3>2
  <2>. QED  BY <2>1, <2>2, <2>3, OthersServed
<1>3. CASE Fail(a)
  <2>1. Leave(a) /\ UNCHANGED <<store, applied, inOrder, saved>>
    BY <1>3 DEF Fail
  <2>2. seen'[a] = {} /\ event'[a] = {}
    BY <2>1 DEF Leave, IInv, TypeOK
  <2>. QED  BY <2>1, <2>2, LeaveTyped, OthersServed DEF Served
<1>. QED  BY <1>1, <1>2, <1>3

LEMMA UpdateServes == ASSUME IInv, Served, NEW a \in Actors, Update(a) PROVE Served'
<1>1. PICK e \in event[a] : Apply(a, e) /\ store' = Stored(store, e)
  BY DEF Update
<1>2. /\ e \in Event /\ e \notin applied /\ applied \in SUBSET Event /\ IsFiniteSet(applied)
      /\ applied' = applied \cup {e} /\ Leave(a) /\ saved' = saved
      /\ inOrder' = (inOrder /\ \A x \in applied : x.time < e.time)
  BY <1>1, TypeParts DEF IInv, Distinct, Apply
<1>3. /\ store'.spend = (store.spend \cup {e}) \ Upto(store.spend \cup {e}, Score(e.time - Hour))
      /\ store'.failed = (IF e.failed THEN store.failed \cup {e} ELSE store.failed)
                          \ Upto(store.failed, Score(e.time - FiveMinutes))
      /\ store'.merchants = store.merchants \cup {e.merchant}
      /\ store'.first = IF store.first = {} THEN {e.time} ELSE store.first
      /\ store'.last = {e.time}
  BY <1>1 DEF Stored, StoredAs, Pruned
<1>4. store'.merchants = Known(applied')
  BY <1>2, <1>3 DEF Served, StoreInOrder, Known
<1>5. ASSUME inOrder'
      PROVE  /\ DifferentTimes(applied')
             /\ store'.spend = Newest(applied', Hour)
             /\ store'.failed = {x \in Newest(applied', FiveMinutes) : x.failed}
             /\ store'.first = Firsts(applied') /\ store'.last = Lasts(applied')
  <2>1. /\ \A x \in applied : x.time < e.time
        /\ DifferentTimes(applied)
        /\ store.spend = Newest(applied, Hour)
        /\ store.failed = {x \in Newest(applied, FiveMinutes) : x.failed}
        /\ store.first = Firsts(applied)
    BY <1>2, <1>5 DEF Served, StoreInOrder
  <2>2. e.time \in Int /\ \A x \in applied : x.time \in Int
    BY <1>2, EventTyped
  <2>3. DifferentTimes(applied')
    BY <1>2, <2>1, <2>2 DEF DifferentTimes
  <2>4. ASSUME NEW w \in Nat \ {0}, w % Tick = 0
        PROVE  /\ Newest(applied', w)
                    = {x \in Newest(applied, w) : Score(e.time - w) < Score(x.time)} \cup {e}
               /\ Score(e.time - w) < Score(e.time)
               /\ \A x \in Newest(applied, w) :
                    (Score(e.time - w) < Score(x.time)) <=> ~(Score(x.time) <= Score(e.time - w))
    <3>1. \A t \in Int : Score(t) \in Int /\ Score(t - w) = Score(t) - Score(w)
      BY <2>4, ShiftedScores
    <3>2. Score(w) \in Int /\ Score(w) > 0
      <4>1. Score(w) \in Int /\ w < Tick * Score(w) + Tick /\ Tick \in Nat \ {0} /\ Tick * Score(w) = w
        BY <2>4, ScoreBounds, WindowAssumption DEF Score
      <4>2. Score(w) # 0
        BY <2>4, <4>1
      <4>3. ~(Score(w) < 0)
        BY <2>4, <4>1, WindowAssumption DEF Score
      <4>. QED  BY <4>1, <4>2, <4>3
    <3>3. \A x \in applied : Score(x.time) <= Score(e.time)
      BY <2>1, <2>2, ScoreMonotone
    <3>4. /\ Score(e.time - w) < Score(e.time)
          /\ \A x \in applied : Score(x.time - w) < Score(e.time)
      BY <2>2, <3>1, <3>2, <3>3
    <3>5. \A x \in applied : Score(x.time) \in Int /\ Score(e.time - w) \in Int
      BY <2>2, <2>4, <3>1
    <3>. QED  BY <1>2, <3>4, <3>5 DEF Newest
  <2>5. store'.spend = Newest(applied', Hour)
    <3>. DEFINE edge == Score(e.time - Hour)
    <3>1. /\ Newest(applied', Hour) = {x \in Newest(applied, Hour) : edge < Score(x.time)} \cup {e}
          /\ edge < Score(e.time)
          /\ \A x \in Newest(applied, Hour) : (edge < Score(x.time)) <=> ~(Score(x.time) <= edge)
      BY <2>4, WindowAssumption
    <3>2. store'.spend = {x \in store.spend \cup {e} : ~(Score(x.time) <= edge)}
      BY <1>3 DEF Upto
    <3>3. ~(Score(e.time) <= edge)
      <4>1. Score(e.time) \in Int /\ edge \in Int
        BY <2>2, WindowAssumption, ShiftedScores
      <4>. HIDE DEF edge
      <4>. QED  BY <3>1, <4>1
    <3>. HIDE DEF edge
    <3>. QED  BY <2>1, <3>1, <3>2, <3>3
  <2>6. store'.failed = {x \in Newest(applied', FiveMinutes) : x.failed}
    <3>1. e \notin Newest(applied, FiveMinutes)
      BY <1>2 DEF Newest
    <3>. QED  BY <1>3, <2>1, <2>4, <3>1, WindowAssumption DEF Upto
  <2>7. store'.first = Firsts(applied') /\ store'.last = Lasts(applied')
    <3>1. /\ Firsts(applied \cup {e}) = (IF Firsts(applied) = {} THEN {e.time} ELSE Firsts(applied))
          /\ Lasts(applied \cup {e}) = {e.time}
      BY <1>2, <2>1, LaterRow
    <3>. QED  BY <1>2, <1>3, <2>1, <3>1
  <2>. QED  BY <2>3, <2>5, <2>6, <2>7
<1>6. StoreInOrder'
  BY <1>4, <1>5 DEF StoreInOrder
<1>7. event'[a] = {} /\ seen'[a] = {} /\ \A b \in Actors : b # a => seen'[b] = seen[b]
  BY <1>2 DEF Leave, IInv, TypeOK
<1>8. SeenWasApplied' /\ IsFiniteSet(saved')
  BY <1>2, <1>7 DEF Served, SeenWasApplied
<1>9. ContextCurrent'
  <2>1. \A b \in Actors : b # a => seen'[b] # applied'
    BY <1>2, <1>7 DEF Served, SeenWasApplied
  <2>. QED  BY <1>7, <2>1 DEF ContextCurrent
<1>. QED  BY <1>6, <1>8, <1>9 DEF Served

LEMMA AlwaysServed == Spec => []Served
<1>1. IInv /\ Served /\ [Next]_vars => Served'
  <2>1. ASSUME IInv, Served, UNCHANGED vars PROVE Served'
    BY <2>1 DEF vars, Served, StoreInOrder, SeenWasApplied, ContextCurrent, Current
  <2>. QED  BY <2>1, ReadingServes, BystanderServes, UpdateServes DEF Next
<1>. QED  BY <1>1, InitServed, AlwaysIInv, PTL DEF Spec

-------------------------------------------------------------------------------
(* The contexts of an event that comes after all that was applied.         *)

\* What a window has of some payments, the millisecond of its edge left out.
Inside(S, edge) == {x \in S : Score(edge) < Score(x.time)}

LEMMA OnlineWindow ==
  ASSUME NEW S \in SUBSET Event, NEW e \in Event, \A x \in S : x.time < e.time,
         NEW w \in Nat \ {0}, w % Tick = 0
  PROVE  OffEdge(Within(Newest(S, w), Score(e.time - w), Score(e.time)), e.time - w)
           = Inside(S, e.time - w)
<1>1. e.time \in Int /\ \A x \in S : x.time \in Int /\ x.time < e.time
  BY EventTyped
<1>2. \A t \in Int : Score(t) \in Int /\ Score(t - w) = Score(t) - Score(w)
  BY ShiftedScores
<1>3. \A x \in S : Score(x.time) <= Score(e.time)
  BY <1>1, ScoreMonotone
<1>4. Score(w) \in Int /\ Score(e.time - w) \in Int
  BY <1>1, ShiftedScores
<1>5. ASSUME NEW x \in S, Score(e.time - w) < Score(x.time), NEW y \in S
      PROVE  Score(y.time - w) < Score(x.time)
  <2>1. Score(y.time) <= Score(e.time)
    BY <1>3
  <2>. QED  BY <1>1, <1>2, <1>4, <1>5, <2>1
<1>6. \A x \in S : Score(x.time) \in Int
  BY <1>1, <1>2
<1>7. ASSUME NEW x \in S
      PROVE  x \in OffEdge(Within(Newest(S, w), Score(e.time - w), Score(e.time)), e.time - w)
               <=> Score(e.time - w) < Score(x.time)
  <2>1. Score(e.time - w) < Score(x.time) => x \in Newest(S, w)
    BY <1>5 DEF Newest
  <2>2. Score(x.time) <= Score(e.time) /\ Score(x.time) \in Int
    BY <1>3, <1>6
  <2>. QED  BY <1>4, <2>1, <2>2 DEF OffEdge, Within
<1>8. OffEdge(Within(Newest(S, w), Score(e.time - w), Score(e.time)), e.time - w) \subseteq S
  BY DEF OffEdge, Within, Newest
<1>. QED  BY <1>7, <1>8 DEF Inside

LEMMA OfflineWindow ==
  ASSUME NEW S \in SUBSET Event, NEW from \in Int
  PROVE  OffEdge({x \in S : from <= x.time}, from) = Inside(S, from)
<1>. SUFFICES ASSUME NEW x \in S
              PROVE  (from <= x.time /\ Score(x.time) # Score(from)) <=> Score(from) < Score(x.time)
  BY DEF OffEdge, Inside
<1>1. x.time \in Int /\ Score(x.time) \in Int /\ Score(from) \in Int
  BY EventTyped, ScoreBounds
<1>2. from <= x.time => Score(from) <= Score(x.time)
  BY <1>1, ScoreMonotone
<1>3. x.time <= from => Score(x.time) <= Score(from)
  BY <1>1, ScoreMonotone
<1>. QED  BY <1>1, <1>2, <1>3

\* Being at the edge is a matter of milliseconds, which decoding keeps.
LEMMA DecodedWindows ==
  ASSUME NEW S \in SUBSET Event, NEW edge
  PROVE  /\ OffEdge(Decoded(S), edge) = Decoded(OffEdge(S, edge))
         /\ \A X \in SUBSET Event :
              Decoded(Inside(S, edge)) \cap Decoded(X) = Decoded(Inside(X, edge)) \cap Decoded(S)
<1>. DEFINE d(x) == [x EXCEPT !.time = Tick * Score(x.time)]
<1>1. \A x \in Event : Score(d(x).time) = Score(x.time)
  BY DecodedScore
<1>2. \A T : Decoded(T) = {d(x) : x \in T}
  BY DEF Decoded
<1>. HIDE DEF d
<1>3. OffEdge(Decoded(S), edge) = Decoded(OffEdge(S, edge))
  BY <1>1, <1>2 DEF OffEdge
<1>4. \A T \in SUBSET Event : Decoded(Inside(T, edge))
                                = {z \in Decoded(T) : Score(edge) < Score(z.time)}
  BY <1>1, <1>2 DEF Inside
<1>. QED  BY <1>3, <1>4

\* Two sets that are counted have in common what neither misses.
LEMMA CountsBalance ==
  ASSUME NEW S, NEW T, IsFiniteSet(S), IsFiniteSet(T)
  PROVE  Cardinality(S) + Cardinality(T \ S) = Cardinality(T) + Cardinality(S \ T)
<1>1. /\ Cardinality(S \ T) = Cardinality(S) - Cardinality(S \cap T) /\ IsFiniteSet(S \ T)
      /\ Cardinality(T \ S) = Cardinality(T) - Cardinality(T \cap S) /\ IsFiniteSet(T \ S)
  BY FS_Difference
<1>2. S \cap T = T \cap S /\ IsFiniteSet(S \cap T)
  BY FS_Subset
<1>3. Cardinality(S) \in Nat /\ Cardinality(T) \in Nat /\ Cardinality(S \cap T) \in Nat
  BY <1>2, FS_CardinalityType
<1>. QED  BY <1>1, <1>2, <1>3

\* Training and serving read two stores that keep time differently, and different
\* rows. With events in order, the features of a row differ by the rows one side did
\* not have and by the millisecond at the edge of each window, by nothing else.
THEOREM NoOtherSkew == Spec => []SkewIsExplained
<1>1. ASSUME IInv, Served, NEW a \in Actors, NEW e \in event[a],
             at[a] = "read", seen[a] = applied, inOrder, \A x \in applied : x.time < e.time,
             \A x, y \in saved : x.time = y.time => x = y,
             NEW rows \in SUBSET saved, \A x \in rows : x.time < e.time
      PROVE  Explained(context[a], rows, e)
  <2>. DEFINE m == Replayed(rows)
              l == MemoryLooked(m, e)
              c == context[a]
              o == MemoryContext(m, e)
              Of(S) == {x \in S : x.merchant = e.merchant}
  <2>1. /\ e \in Event /\ applied \in SUBSET Event /\ IsFiniteSet(applied)
        /\ rows \in SUBSET Event /\ IsFiniteSet(rows) /\ DifferentTimes(rows)
        /\ e.merchant \in Merchants /\ e.time \in Int
    <3>1. e \in Event /\ applied \in SUBSET Event /\ saved \in SUBSET Event
      BY <1>1, TypeParts DEF IInv
    <3>2. IsFiniteSet(rows)
      BY <1>1, FS_Subset DEF Served
    <3>3. DifferentTimes(rows)
      BY <1>1 DEF DifferentTimes
    <3>. QED  BY <1>1, <3>1, <3>2, <3>3, EventTyped DEF IInv
  <2>2. /\ store.merchants = Known(applied)
        /\ store.spend = Newest(applied, Hour)
        /\ store.failed = {x \in Newest(applied, FiveMinutes) : x.failed}
        /\ store.first = Firsts(applied) /\ store.last = Lasts(applied)
        /\ store.count = Cardinality(applied)
        /\ store.merchantCount[e.merchant] = Cardinality(Of(applied))
    BY <1>1, <2>1 DEF Served, StoreInOrder, IInv, NoPaymentLost
  <2>3. Current("read", c, e)
    BY <1>1 DEF Served, ContextCurrent
  <2>4. Remembers(m, rows)
    BY <2>1, ReplayRemembers
  <2>. HIDE DEF m, c
  <2>5. /\ ToSet(l.transactions) = {x \in rows : e.time - Hour <= x.time}
        /\ ToSet(l.failed) = {x \in rows : e.time - FiveMinutes <= x.time /\ x.failed}
    BY <1>1, <2>1, <2>4, LookedRemembers
  <2>6. /\ o.recent = ToSet(l.transactions) /\ o.failed = ToSet(l.failed)
        /\ o.count = m.count /\ o.merchantCount = m.merchantCount[e.merchant]
        /\ o.known = (e.merchant \in m.merchants)
        /\ o.first = m.first /\ o.last = m.last
    BY DEF MemoryContext
  <2>. HIDE DEF l, o
  <2>7. OffEdge(c.recent, e.time - Hour) \cap Decoded(rows)
          = OffEdge(Decoded(o.recent), e.time - Hour) \cap Decoded(applied)
    <3>. DEFINE W == Within(Newest(applied, Hour), Score(e.time - Hour), Score(e.time))
                K == {x \in rows : e.time - Hour <= x.time}
                edge == e.time - Hour
    <3>1. c.recent = Decoded(W) /\ o.recent = K /\ W \in SUBSET Event /\ K \in SUBSET Event
      BY <2>1, <2>2, <2>3, <2>5, <2>6 DEF Current, Within, Newest
    <3>2. OffEdge(W, edge) = Inside(applied, edge)
      BY <1>1, <2>1, OnlineWindow, WindowAssumption
    <3>3. OffEdge(K, edge) = Inside(rows, edge)
      BY <2>1, OfflineWindow, WindowAssumption
    <3>. HIDE DEF W, K, edge
    <3>4. /\ OffEdge(Decoded(W), edge) = Decoded(Inside(applied, edge))
          /\ OffEdge(Decoded(K), edge) = Decoded(Inside(rows, edge))
      BY <3>1, <3>2, <3>3, DecodedWindows
    <3>5. Decoded(Inside(applied, edge)) \cap Decoded(rows) = Decoded(Inside(rows, edge)) \cap Decoded(applied)
      BY <2>1, DecodedWindows
    <3>. QED  BY <3>1, <3>4, <3>5 DEF edge
  <2>8. OffEdge(c.failed, e.time - FiveMinutes) \cap rows
          = OffEdge(o.failed, e.time - FiveMinutes) \cap applied
    <3>. DEFINE W == Within(Newest(applied, FiveMinutes), Score(e.time - FiveMinutes), Score(e.time))
                K == {x \in rows : e.time - FiveMinutes <= x.time}
                edge == e.time - FiveMinutes
    <3>1. c.failed = {x \in W : x.failed} /\ o.failed = {x \in K : x.failed}
      BY <2>2, <2>3, <2>5, <2>6 DEF Current, Within
    <3>2. OffEdge(W, edge) = Inside(applied, edge)
      BY <1>1, <2>1, OnlineWindow, WindowAssumption
    <3>3. OffEdge(K, edge) = Inside(rows, edge)
      BY <2>1, OfflineWindow, WindowAssumption
    <3>. HIDE DEF W, K, edge
    <3>4. /\ OffEdge(c.failed, edge) = {x \in Inside(applied, edge) : x.failed}
          /\ OffEdge(o.failed, edge) = {x \in Inside(rows, edge) : x.failed}
      BY <3>1, <3>2, <3>3 DEF OffEdge
    <3>5. {x \in Inside(applied, edge) : x.failed} \cap rows = {x \in Inside(rows, edge) : x.failed} \cap applied
      BY DEF Inside
    <3>. QED  BY <3>4, <3>5 DEF edge
  <2>9. c.count + Cardinality(rows \ applied) = o.count + Cardinality(applied \ rows)
    <3>1. c.count = Cardinality(applied) /\ o.count = Cardinality(rows)
      BY <2>2, <2>3, <2>4, <2>6 DEF Current, Remembers
    <3>. QED  BY <2>1, <3>1, CountsBalance
  <2>10. c.merchantCount + Cardinality(Of(rows \ applied))
           = o.merchantCount + Cardinality(Of(applied \ rows))
    <3>1. c.merchantCount = Cardinality(Of(applied)) /\ o.merchantCount = Cardinality(Of(rows))
      BY <2>1, <2>2, <2>3, <2>4, <2>6 DEF Current, Remembers, Counts
    <3>2. IsFiniteSet(Of(applied)) /\ IsFiniteSet(Of(rows))
      BY <2>1, FS_Subset
    <3>3. Of(rows \ applied) = Of(rows) \ Of(applied) /\ Of(applied \ rows) = Of(applied) \ Of(rows)
      OBVIOUS
    <3>. HIDE DEF Of
    <3>. QED  BY <3>1, <3>2, <3>3, CountsBalance
  <2>11. c.known # o.known => Of(rows) # Of(applied)
    <3>1. c.known = (e.merchant \in Known(applied)) /\ o.known = (e.merchant \in Known(rows))
      BY <2>2, <2>3, <2>4, <2>6 DEF Current, Remembers
    <3>2. /\ e.merchant \in Known(applied) <=> Of(applied) # {}
          /\ e.merchant \in Known(rows) <=> Of(rows) # {}
      BY DEF Known
    <3>. HIDE DEF Of
    <3>3. Of(rows) = Of(applied) => (e.merchant \in Known(applied) <=> e.merchant \in Known(rows))
      BY <3>2
    <3>4. ASSUME Of(rows) = Of(applied) PROVE c.known = o.known
      <4>1. (e.merchant \in Known(applied)) = (e.merchant \in Known(rows))
        BY <3>3, <3>4
      <4>. QED  BY <3>1, <4>1, Zenon
    <3>. QED  BY <3>4, Zenon
  <2>12. rows = applied => c.first = o.first /\ c.last = o.last
    BY <2>2, <2>3, <2>4, <2>6 DEF Current, Remembers
  <2>. QED  BY <2>7, <2>8, <2>9, <2>10, <2>11, <2>12 DEF m, c, o, Explained
<1>2. ASSUME IInv, Served PROVE SkewIsExplained
  <2>. SUFFICES ASSUME NEW a \in Actors, NEW e \in event[a],
                       at[a] = "read", seen[a] = applied, inOrder,
                       \A x \in applied : x.time < e.time,
                       \A x, y \in saved : x.time = y.time => x = y,
                       NEW label \in [saved -> BOOLEAN]
                PROVE  Explained(context[a], {x \in Labelled(saved, label) : x.time < e.time}, e)
    BY Zenon DEF SkewIsExplained
  <2>. DEFINE rows == {x \in Labelled(saved, label) : x.time < e.time}
  <2>1. rows \in SUBSET saved /\ \A x \in rows : x.time < e.time
    BY DEF Labelled
  <2>. HIDE DEF rows
  <2>2. Explained(context[a], rows, e)
    BY <1>1, <1>2, <2>1
  <2>. QED  BY <2>2 DEF rows
<1>. QED  BY <1>2, AlwaysIInv, AlwaysServed, PTL
===============================================================================
