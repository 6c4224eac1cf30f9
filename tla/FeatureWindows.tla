---------------------------- MODULE FeatureWindows ----------------------------
(***************************************************************************)
(* The rolling features of one account. The worker and the API processes   *)
(* read a context from Redis in separate commands (get_context), score,    *)
(* save the raw row and then apply the event to Redis in one MULTI/EXEC    *)
(* (update_state). The trainer later replays those saved rows that have a  *)
(* label, in the order of their event_time, through MemoryFeatureStore.    *)
(* Redis forgets what is older than its windows, counted from the event    *)
(* applied last, and events come late. Times are microseconds: that is how *)
(* MemoryFeatureStore compares them, while Redis has whole milliseconds.   *)
(* Amounts, places and countries are left out; devices and high-risk       *)
(* merchants are sets that only grow, like the merchants here.             *)
(***************************************************************************)
EXTENDS Integers, FiniteSets, SequencesExt

CONSTANTS Actors,     \* processes with a RedisFeatureStore
          Times,      \* the event_times there are
          Tick,       \* a millisecond
          Merchants,
          Hour, FiveMinutes,  \* the lengths of the windows, in whole milliseconds
          MaxEvents   \* bound on the events ever begun

ASSUME WindowAssumption == /\ Times \subseteq Int /\ MaxEvents \in Nat
                           /\ Hour \in Nat \ {0} /\ FiveMinutes \in Nat \ {0}
                           /\ Tick \in Nat \ {0} /\ Hour % Tick = 0 /\ FiveMinutes % Tick = 0

Event == [id : 1..MaxEvents, time : Times, merchant : Merchants, failed : BOOLEAN]

VARIABLES
  begun,     \* how many events were begun; the last one has this id
  store,     \* Redis: zsets spend and failed, set merchants, counters, profile hash
  at, event, context, \* of each actor: its next call, its event, what it has read
  seen,      \* history: of each actor, what was applied when it began to read
  saved,     \* the events with a row in transactions_raw
  applied,   \* history: the events of all update_state so far
  inOrder    \* history: each was later than all that were applied before it

vars == <<begun, store, at, event, context, seen, saved, applied, inOrder>>

EmptyStore == [spend |-> {}, failed |-> {}, merchants |-> {},
               merchantCount |-> [m \in Merchants |-> 0], count |-> 0, first |-> {}, last |-> {}]
EmptyContext == [recent |-> {}, count |-> 0, first |-> {}, last |-> {},
                 merchantCount |-> 0, failed |-> {}, known |-> FALSE]

Init == /\ begun = 0 /\ store = EmptyStore
        /\ at = [a \in Actors |-> "idle"] /\ event = [a \in Actors |-> {}]
        /\ context = [a \in Actors |-> EmptyContext] /\ seen = [a \in Actors |-> {}]
        /\ saved = {} /\ applied = {} /\ inOrder = TRUE

\* The score of a time: int(timestamp() * 1000), for times after 1970.
Score(t) == t \div Tick
\* The payments of a zset between two scores, and up to one.
Within(S, from, to) == {x \in S : from <= Score(x.time) /\ Score(x.time) <= to}
Upto(S, to) == {x \in S : Score(x.time) <= to}
\* What is read back: the members hold the score, so the microseconds are lost.
Decoded(S) == {[x EXCEPT !.time = Tick * Score(x.time)] : x \in S}
-------------------------------------------------------------------------------
(* get_context: five reads, in this order.                                 *)

\* Variant: the novelty of the merchant is read before the number of its payments.
ShuffledReads == [spend |-> "profile", profile |-> "merchant", merchant |-> "count",
                  count |-> "failed", failed |-> "read"]
NextRead == [spend |-> "profile", profile |-> "count", count |-> "failed",
             failed |-> "merchant", merchant |-> "read"]

Read(a, place, c) == /\ at[a] = place
                     /\ at' = [at EXCEPT ![a] = NextRead[place]]
                     /\ context' = [context EXCEPT ![a] = c]
                     /\ UNCHANGED <<begun, store, event, saved, applied, inOrder>>

\* An event of this account has been claimed.
Begin(a) == /\ at[a] = "idle" /\ begun < MaxEvents
            /\ begun' = begun + 1
            /\ \E e \in Event : e.id = begun + 1 /\ event' = [event EXCEPT ![a] = {e}]
            /\ at' = [at EXCEPT ![a] = "spend"]
            /\ UNCHANGED <<store, context, seen, saved, applied, inOrder>>

ReadSpend(a) == \E e \in event[a] :
  /\ Read(a, "spend", [context[a] EXCEPT !.recent =
                        Decoded(Within(store.spend, Score(e.time - Hour), Score(e.time)))])
  /\ seen' = [seen EXCEPT ![a] = applied]
ReadProfile(a) ==
  /\ Read(a, "profile", [context[a] EXCEPT !.count = store.count,
                                           !.first = store.first, !.last = store.last])
  /\ UNCHANGED seen
ReadCount(a) == \E e \in event[a] :
  /\ Read(a, "count", [context[a] EXCEPT !.merchantCount = store.merchantCount[e.merchant]])
  /\ UNCHANGED seen
ReadFailed(a) == \E e \in event[a] :
  /\ Read(a, "failed", [context[a] EXCEPT
            !.failed = Within(store.failed, Score(e.time - FiveMinutes), Score(e.time))])
  /\ UNCHANGED seen
ReadMerchant(a) == \E e \in event[a] :
  /\ Read(a, "merchant", [context[a] EXCEPT !.known = e.merchant \in store.merchants])
  /\ UNCHANGED seen
-------------------------------------------------------------------------------
(* update_state, and what a failure leaves.                                *)

\* Variant: the window of the other zset.
PrunedShort(S, e) == S \ Upto(S, Score(e.time - FiveMinutes))
\* zremrangebyscore takes the cutoff itself away too.
Pruned(S, e) == S \ Upto(S, Score(e.time - Hour))

StoredAs(s, e, time) ==
  [spend |-> Pruned(s.spend \cup {e}, e),
   failed |-> (IF e.failed THEN s.failed \cup {e} ELSE s.failed)
              \ Upto(s.failed, Score(e.time - FiveMinutes)),
   merchants |-> s.merchants \cup {e.merchant},
   merchantCount |-> [s.merchantCount EXCEPT ![e.merchant] = @ + 1],
   count |-> s.count + 1,
   first |-> IF s.first = {} THEN {time} ELSE s.first,
   last |-> {time}]

\* Variant: the profile keeps the time of processing.
StoredLater(s, e) == StoredAs(s, e, e.time + Hour)

Stored(s, e) == StoredAs(s, e, e.time)

\* The event is scored and its raw row is committed; the other rows do not matter here.
Save(a) == /\ at[a] = "read"
           /\ saved' = saved \cup event[a]
           /\ at' = [at EXCEPT ![a] = "saved"]
           /\ UNCHANGED <<begun, store, event, context, seen, applied, inOrder>>

Leave(a) == /\ at' = [at EXCEPT ![a] = "idle"]
            /\ event' = [event EXCEPT ![a] = {}]
            /\ context' = [context EXCEPT ![a] = EmptyContext]
            /\ seen' = [seen EXCEPT ![a] = {}]

Apply(a, e) ==
  /\ at[a] = "saved"
  /\ applied' = applied \cup {e}
  /\ inOrder' = (inOrder /\ \A x \in applied : x.time < e.time)
  /\ Leave(a) /\ UNCHANGED <<begun, saved>>

\* Variant: the number of payments is written back as read, plus one.
UpdateFromContext(a) == \E e \in event[a] :
  Apply(a, e) /\ store' = [Stored(store, e) EXCEPT !.count = context[a].count + 1]

\* All commands of update_state are one transaction, and add to what is there by then.
Update(a) == \E e \in event[a] : Apply(a, e) /\ store' = Stored(store, e)

\* A call fails or the process dies: the event is never applied.
Fail(a) == /\ at[a] # "idle" /\ Leave(a)
           /\ UNCHANGED <<begun, store, saved, applied, inOrder>>

Reading(a) == \/ ReadSpend(a) \/ ReadProfile(a) \/ ReadCount(a)
              \/ ReadFailed(a) \/ ReadMerchant(a)
Next == \E a \in Actors : Begin(a) \/ Reading(a) \/ Save(a) \/ Update(a) \/ Fail(a)

Spec == Init /\ [][Next]_vars
-------------------------------------------------------------------------------
(* MemoryFeatureStore, as _build_feature_frame drives it.                  *)

EmptyMemory == [transactions |-> <<>>, failed |-> <<>>, merchants |-> {},
                merchantCount |-> [m \in Merchants |-> 0], count |-> 0, first |-> {}, last |-> {}]

\* What is left of a deque once get_context has popped the head while it is too old.
Popped(q, from) ==
  LET old == {n \in 0..Len(q) : \A i \in 1..n : q[i].time < from}
  IN  SubSeq(q, 1 + CHOOSE n \in old : \A k \in old : k <= n, Len(q))

\* get_context changes the store before it reads it.
\* Variant first: the window of the other deque.
LookedOneHour(s, e) == [s EXCEPT !.transactions = Popped(@, e.time - Hour),
                                 !.failed = Popped(@, e.time - Hour)]
MemoryLooked(s, e) == [s EXCEPT !.transactions = Popped(@, e.time - Hour),
                                !.failed = Popped(@, e.time - FiveMinutes)]
MemoryContext(s, e) == [recent |-> ToSet(MemoryLooked(s, e).transactions),
                        count |-> s.count, first |-> s.first, last |-> s.last,
                        merchantCount |-> s.merchantCount[e.merchant],
                        failed |-> ToSet(MemoryLooked(s, e).failed),
                        known |-> e.merchant \in s.merchants]
MemoryUpdated(s, e) ==
  [transactions |-> Append(s.transactions, e),
   failed |-> IF e.failed THEN Append(s.failed, e) ELSE s.failed,
   merchants |-> s.merchants \cup {e.merchant},
   merchantCount |-> [s.merchantCount EXCEPT ![e.merchant] = @ + 1],
   count |-> s.count + 1,
   first |-> IF s.first = {} THEN {e.time} ELSE s.first,
   last |-> {e.time}]

\* train_from_repository replays the rows that have a label by then: from the
\* producer, the caller of /predict or an analyst.
Labelled(rows, label) == {x \in rows : label[x]}

\* The rows in the order of event_time, each looked up and applied.
Latest(rows) == CHOOSE e \in rows : \A x \in rows : x.time <= e.time
Replayed(rows) ==
  LET replay[S \in SUBSET rows] ==
        IF S = {} THEN EmptyMemory
        ELSE LET e == Latest(S) IN MemoryUpdated(MemoryLooked(replay[S \ {e}], e), e)
  IN  replay[rows]
-------------------------------------------------------------------------------
Places == {"idle", "spend", "profile", "count", "failed", "merchant", "read", "saved"}
TypeOK == /\ begun \in 0..MaxEvents
          /\ store \in [spend : SUBSET Event, failed : SUBSET Event, merchants : SUBSET Merchants,
                        merchantCount : [Merchants -> Nat], count : Nat,
                        first : SUBSET Times, last : SUBSET Times]
          /\ at \in [Actors -> Places] /\ event \in [Actors -> SUBSET Event]
          /\ context \in [Actors -> [recent : SUBSET Decoded(Event), count : Nat,
                            first : SUBSET Times, last : SUBSET Times,
                            merchantCount : Nat, failed : SUBSET Event, known : BOOLEAN]]
          /\ seen \in [Actors -> SUBSET Event]
          /\ saved \subseteq Event /\ applied \subseteq Event /\ inOrder \in BOOLEAN

\* Processes score on what they read and apply in any order, but no payment is lost
\* from the counters and none counts twice.
NoPaymentLost == /\ store.count = Cardinality(applied)
                 /\ \A m \in Merchants :
                      store.merchantCount[m] = Cardinality({x \in applied : x.merchant = m})

\* The zset is pruned by whichever event was applied last, and yet an event that is
\* not older than those gets its full hour: all that was applied, but for the
\* millisecond that is exactly an hour back, which an event of the same millisecond
\* may have taken away.
PunctualWindowIsFull ==
  \A a \in Actors : \A e \in event[a] :
    (at[a] # "spend" /\ \A x \in seen[a] : Score(x.time) <= Score(e.time)) =>
      Decoded({x \in seen[a] : Score(e.time - Hour) < Score(x.time)}) \subseteq context[a].recent

\* The five reads are not atomic, and another process may apply an event between any
\* two. The order of the reads keeps the features from contradicting one another:
\* no more payments in the hour than in all, and a counted merchant is a known one.
TornReadsAgree ==
  \A a \in Actors : at[a] \in {"read", "saved"} =>
    /\ Cardinality(context[a].recent) <= context[a].count
    /\ context[a].merchantCount > 0 => context[a].known

OffEdge(S, edge) == {x \in S : Score(x.time) # Score(edge)}

\* What an event's context and the replay of some rows before it have to do with each other.
Explained(online, rows, e) ==
  LET offline == MemoryContext(Replayed(rows), e)
      Of(S) == {x \in S : x.merchant = e.merchant}
  IN  /\ OffEdge(online.recent, e.time - Hour) \cap Decoded(rows)
           = OffEdge(Decoded(offline.recent), e.time - Hour) \cap Decoded(applied)
      /\ OffEdge(online.failed, e.time - FiveMinutes) \cap rows
           = OffEdge(offline.failed, e.time - FiveMinutes) \cap applied
      /\ online.count + Cardinality(rows \ applied)
           = offline.count + Cardinality(applied \ rows)
      /\ online.merchantCount + Cardinality(Of(rows \ applied))
           = offline.merchantCount + Cardinality(Of(applied \ rows))
      /\ online.known # offline.known => Of(rows) # Of(applied)
      /\ rows = applied => online.first = offline.first /\ online.last = offline.last

\* Where a feature as trained differs from the feature as served. No event came late or
\* at the same time as another, nobody applied one during the reads, and the replay of
\* the labelled rows has come to this event. Then the contexts differ by the payments
\* one side never had (applied without a label, or labelled and never applied), by the
\* microseconds of a payment, and by the one millisecond at which a window ends.
SkewIsExplained ==
  \A a \in Actors : \A e \in event[a] :
    ( /\ at[a] = "read" /\ seen[a] = applied /\ inOrder
      /\ \A x \in applied : x.time < e.time
      /\ \A x, y \in saved : x.time = y.time => x = y )
    => \A label \in [saved -> BOOLEAN] :
         Explained(context[a], {x \in Labelled(saved, label) : x.time < e.time}, e)
===============================================================================
