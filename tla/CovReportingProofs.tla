------------------------- MODULE CovReportingProofs -------------------------
(* What TLAPS proves of CovReporting, for any number of objects, keys,      *)
(* subscribers and request threads, any limits and any values.              *)
EXTENDS CovReporting, FiniteSetTheorems, TLAPS

LEMMA KeyChosen == (CHOOSE k \in Keys : TRUE) \in Keys
  BY KeysAssumption

LEMMA LimitsTyped == ASSUME NEW l \in Limits
                     PROVE l \in [total : Nat \union {None}, per_object : Nat \union {None}]
  BY DataAssumption

LEMMA NothingTyped == Nothing \in Readings
  BY DEF Nothing, Readings

LEMMA NoSubTyped == NoSub \in Subscriptions
  BY DEF NoSub, Subscriptions

LEMMA NoRequestTyped == NoRequest \in Requests
  BY KeyChosen, NoSubTyped DEF NoRequest, Requests

LEMMA StateTyped ==
  ASSUME NEW s \in States, NEW p \in {"value", "flags"}
  PROVE s[p] \in Nat \union {None, NaN}
  <1>1. CASE s = NoObject
    BY <1>1 DEF NoObject
  <1>2. CASE s \in [value : Values, flags : Flags, increment : Increments]
    <2>1. s.value \in Nat \union {NaN} /\ s.flags \in Nat
      BY <1>2, DataAssumption
    <2>2. CASE p = "value"
      BY <2>1, <2>2
    <2>3. CASE p = "flags"
      BY <2>1, <2>3
    <2> QED  BY <2>2, <2>3
  <1> QED  BY <1>1, <1>2 DEF States

LEMMA LearnTyped ==
  ASSUME NEW r \in Readings, seen \in Readings
  PROVE Learn(r) \in Readings
  BY DEF Learn, Readings

-----------------------------------------------------------------------------
(* Type correctness *)

LEMMA InitTyped == Init => TypeOK
  <1> SUFFICES ASSUME Init PROVE TypeOK
    OBVIOUS
  <1>1. subs \in [Keys -> Subscriptions] /\ live \in [Keys -> Subscriptions]
    BY NoSubTyped DEF Init
  <1>2. reported \in [Keys -> Readings] /\ told \in [Keys -> Readings] /\ seen \in Readings
    BY NothingTyped DEF Init
  <1>3. request \in [Threads -> Requests]
    BY NoRequestTyped DEF Init
  <1>4. object \in [Objects -> States]
    BY DEF Init, States
  <1>5. limits \in [total : Nat \union {None}, per_object : Nat \union {None}]
    BY LimitsTyped DEF Init
  <1> QED  BY <1>1, <1>2, <1>3, <1>4, <1>5 DEF Init, TypeOK

LEMMA GoneTyped ==
  ASSUME TypeOK, NEW S, Gone(S)
  PROVE /\ subs' \in [Keys -> Subscriptions]
        /\ fresh' \subseteq Keys /\ first' \subseteq Keys /\ leftover' \subseteq Keys
        /\ listed' \subseteq Keys
        /\ overbooked' \in BOOLEAN
  BY NoSubTyped DEF TypeOK, Gone

LEMMA EvaluatedTyped ==
  ASSUME TypeOK, NEW k \in Keys, Evaluated(k),
         reported' \in [Keys -> Readings], told' \in [Keys -> Readings]
  PROVE TypeOK'
  <1>1. live' \in [Keys -> Subscriptions]
    BY NoSubTyped DEF TypeOK, Evaluated
  <1>2. seen' \in Readings /\ seen' = Nothing
    BY NothingTyped DEF Evaluated
  <1>3. fresh' \subseteq Keys /\ first' \subseteq Keys
    BY DEF TypeOK, Evaluated
  <1>4. /\ now' = now /\ limits' = limits /\ subs' = subs /\ leftover' = leftover
        /\ listed' = listed /\ overbooked' = overbooked /\ request' = request /\ at' = at /\ object' = object
        /\ phase' = "next"
    BY DEF Evaluated
  <1> QED  BY <1>1, <1>2, <1>3, <1>4 DEF TypeOK, Nothing

LEMMA StepTyped == TypeOK /\ [Next]_vars => TypeOK'
  <1> SUFFICES ASSUME TypeOK, [Next]_vars PROVE TypeOK'
    OBVIOUS
  <1>1. ASSUME NEW t \in Threads, NEW k \in Keys, NEW l \in Lifetimes,
               NEW i \in Increments \union {None}, Subscribe(t, k, l, i)
        PROVE TypeOK'
    <2>1. ExpiryFor(l) \in Nat \union {None} /\ i \in Nat \union {None}
      BY DataAssumption DEF ExpiryFor, TypeOK
    <2>2. [held |-> TRUE, expires |-> ExpiryFor(l), increment |-> i] \in Subscriptions
      BY <2>1 DEF Subscriptions
    <2>3. NoRequest.limits \in [total : Nat \union {None}, per_object : Nat \union {None}]
      BY DEF NoRequest
    <2>4. request' \in [Threads -> Requests]
      BY <1>1, <2>2, <2>3 DEF Subscribe, TypeOK, Requests
    <2> QED  BY <1>1, <2>4 DEF Subscribe, TypeOK, table, walk
  <1>2. ASSUME NEW t \in Threads, LookUpRoom(t) PROVE TypeOK'
    <2>1. request[t] \in Requests
      BY DEF TypeOK
    <2>2. request[t].key \in Keys /\ request[t].sub \in Subscriptions
      BY <2>1 DEF Requests
    <2>3. [pc |-> "room", key |-> request[t].key, sub |-> request[t].sub,
           now |-> now, limits |-> limits] \in Requests
      BY <2>2 DEF TypeOK, Requests
    <2>4. request' \in [Threads -> Requests]
      BY <1>2, <2>3 DEF LookUpRoom, TypeOK
    <2> QED  BY <1>2, <2>4 DEF LookUpRoom, TypeOK, table, walk
  <1>3. ASSUME NEW t \in Threads, Insert(t) PROVE TypeOK'
    <2>1. request[t] \in Requests
      BY DEF TypeOK
    <2>2. request[t].key \in Keys /\ request[t].sub \in Subscriptions
      BY <2>1 DEF Requests
    <2>3. request' \in [Threads -> Requests]
      BY <1>3, NoRequestTyped DEF Insert, TypeOK
    <2>4. /\ subs' \in [Keys -> Subscriptions]
          /\ fresh' \subseteq Keys /\ first' \subseteq Keys /\ leftover' \subseteq Keys
          /\ listed' \subseteq Keys
          /\ overbooked' \in BOOLEAN
      <3>1. CASE UNCHANGED table
        BY <3>1 DEF table, TypeOK
      <3>2. CASE ~UNCHANGED table
        <4>1. /\ subs' = [subs EXCEPT ![request[t].key] = request[t].sub]
              /\ overbooked' \in BOOLEAN
              /\ fresh' \in {fresh, fresh \union {request[t].key}}
              /\ leftover' \in {leftover, leftover \union {request[t].key},
                                leftover \ {request[t].key}}
              /\ first' = first /\ listed' = listed
          BY <1>3, <3>2 DEF Insert
        <4> QED  BY <4>1, <2>2 DEF TypeOK
      <3> QED  BY <3>1, <3>2
    <2> QED  BY <1>3, <2>3, <2>4 DEF Insert, TypeOK, walk
  <1>4. ASSUME NEW t \in Threads, NEW k \in Keys, Cancel(t, k) PROVE TypeOK'
    <2>1. Gone({k})
      BY <1>4 DEF Cancel
    <2> QED  BY <1>4, <2>1, GoneTyped DEF Cancel, TypeOK, walk
  <1>5. ASSUME NEW l \in Limits, SetLimits(l) PROVE TypeOK'
    BY <1>5, LimitsTyped DEF SetLimits, TypeOK, walk
  <1>6. ASSUME NEW clock \in {now, now + 1}, TickBegins(clock) PROVE TypeOK'
    BY <1>6 DEF TickBegins, TypeOK, table
  <1>7. CASE TickExpires
    <2>1. PICK S : Gone(S)
      BY <1>7 DEF TickExpires
    <2> QED  BY <1>7, <2>1, GoneTyped DEF TickExpires, TypeOK
  <1>8. CASE TickCollects
    <2>1. Forget(subs) \in [Keys -> Readings]
      BY NothingTyped DEF Forget, TypeOK
    <2> QED  BY <1>8, <2>1 DEF TickCollects, TypeOK
  <1>9. ASSUME NEW k \in Keys, ReadFirst(k) PROVE TypeOK'
    <2>1. object[ObjectOf[k]] \in States
      BY KeysAssumption DEF TypeOK
    <2>2. /\ object[ObjectOf[k]].value \in Nat \union {None, NaN}
          /\ object[ObjectOf[k]].flags \in Nat \union {None, NaN}
      BY <2>1, StateTyped
    <2>3. seen' \in Readings
      BY <1>9, <2>2 DEF ReadFirst, Readings
    <2>4. phase' \in {"flags", "decide"}
      BY <1>9 DEF ReadFirst
    <2> QED  BY <1>9, <2>3, <2>4 DEF ReadFirst, TypeOK, table
  <1>10. CASE ReadFlags
    <2>1. object[ObjectOf[at]] \in States
      BY KeysAssumption DEF TypeOK
    <2>2. object[ObjectOf[at]].flags \in Nat \union {None, NaN}
      BY <2>1, StateTyped
    <2>3. seen' \in Readings
      BY <1>10, <2>2 DEF ReadFlags, Readings, TypeOK
    <2> QED  BY <1>10, <2>3 DEF ReadFlags, TypeOK, table
  <1>11. ASSUME NEW k \in Keys, Report(k) PROVE TypeOK'
    <2>1. reported' \in [Keys -> Readings] /\ told' \in [Keys -> Readings]
      BY <1>11, LearnTyped DEF Report, Baseline, TypeOK
    <2>2. Evaluated(k)
      BY <1>11 DEF Report
    <2> QED  BY <2>1, <2>2, EvaluatedTyped
  <1>12. ASSUME NEW k \in Keys, StayQuiet(k) PROVE TypeOK'
    <2>1. reported' \in [Keys -> Readings] /\ told' \in [Keys -> Readings]
      BY <1>12 DEF StayQuiet, TypeOK
    <2>2. Evaluated(k)
      BY <1>12 DEF StayQuiet
    <2> QED  BY <2>1, <2>2, EvaluatedTyped
  <1>13. CASE TickEnds
    BY <1>13 DEF TickEnds, TypeOK, table
  <1>14. ASSUME NEW o \in Objects, NEW s \in States, Become(o, s) PROVE TypeOK'
    BY <1>14 DEF Become, TypeOK, table, walk
  <1>15. ASSUME NEW o \in Objects, Write(o) \/ Remove(o) \/ Add(o) PROVE TypeOK'
    <2>1. \E s \in States : Become(o, s)
      BY <1>15 DEF Write, Remove, Add, States
    <2> QED  BY <2>1, <1>14
  <1>16. CASE UNCHANGED vars
    BY <1>16 DEF vars, table, walk, TypeOK
  <1> QED
    BY <1>1, <1>2, <1>3, <1>4, <1>5, <1>6, <1>7, <1>8, <1>9, <1>10, <1>11, <1>12, <1>13,
       <1>15, <1>16 DEF Next, Serve, Tick

\* For any configuration the state keeps its shape, and observations never outlive
\* the evaluation that made them (the loop body of CovEngine::tick).
THEOREM TypeCorrect == Spec => []TypeOK
  BY InitTyped, StepTyped, PTL DEF Spec

-----------------------------------------------------------------------------
(* What a change is measured from *)

LEMMA BaselineStep ==
  ASSUME TypeOK, BaselineIsWhatWasTold, [Next]_vars
  PROVE BaselineIsWhatWasTold'
  <1>1. CASE TickCollects
    <2>1. told' = told /\ reported' = Forget(subs)
      BY <1>1 DEF TickCollects
    <2>2. ASSUME NEW k \in Keys, NEW p \in Properties, reported'[k][p] # None
          PROVE reported'[k][p] = reported[k][p]
      BY <2>1, <2>2 DEF Forget, Nothing
    <2> QED  BY <2>1, <2>2 DEF BaselineIsWhatWasTold
  <1>2. ASSUME NEW k \in Keys, Report(k) PROVE BaselineIsWhatWasTold'
    <2>1. /\ reported' = [reported EXCEPT ![k] = Learn(reported[k])]
          /\ told' = [told EXCEPT ![k] = Learn(told[k])]
      BY <1>2 DEF Report, Baseline
    <2>2. ASSUME NEW p \in Properties, reported'[k][p] # None
          PROVE reported'[k][p] = told'[k][p]
      <3>1. reported'[k] = Learn(reported[k]) /\ told'[k] = Learn(told[k])
        BY <2>1 DEF TypeOK
      <3>2. CASE seen[p] # None
        BY <3>1, <3>2 DEF Learn
      <3>3. CASE seen[p] = None
        BY <2>2, <3>1, <3>3 DEF Learn, BaselineIsWhatWasTold
      <3> QED  BY <3>2, <3>3
    <2>3. ASSUME NEW j \in Keys, j # k PROVE reported'[j] = reported[j] /\ told'[j] = told[j]
      BY <2>1, <2>3 DEF TypeOK
    <2> QED  BY <2>2, <2>3 DEF BaselineIsWhatWasTold
  <1>3. CASE UNCHANGED <<reported, told>>
    BY <1>3 DEF BaselineIsWhatWasTold
  <1>4. \/ TickCollects
        \/ \E k \in Keys : Report(k)
        \/ UNCHANGED <<reported, told>>
    BY DEF Next, Subscribe, Cancel, Serve, LookUpRoom, Insert, SetLimits, Tick, TickBegins,
           TickExpires, ReadFirst, ReadFlags, StayQuiet, TickEnds, Write, Remove, Add, Become,
           vars
  <1> QED  BY <1>1, <1>2, <1>3, <1>4

\* Whatever is subscribed, cancelled, renewed, expired, written or removed while
\* the engine walks the table, its baselines are what the subscribers were told
\* (CovEngine::tick, "every value it is told about becomes the new baseline").
THEOREM BaselinesAreTold == Spec => []BaselineIsWhatWasTold
  <1>1. Init => BaselineIsWhatWasTold
    BY DEF Init, BaselineIsWhatWasTold, Nothing
  <1> QED  BY <1>1, BaselineStep, TypeCorrect, PTL DEF Spec

LEMMA QuietSaysKnown ==
  ASSUME TypeOK, BaselineIsWhatWasTold, NEW k \in Keys, StayQuiet(k)
  PROVE ~NewsTo(told)
  <1>1. at = k /\ ~NewsTo(reported)
    BY DEF StayQuiet, Evaluated
  <1>2. ASSUME NEW p \in Watches[at], seen[p] # None
        PROVE /\ reported[at][p] = told[at][p]
              /\ reported[at][p] # None
              /\ ~Moved(p, reported[at][p], seen[p], IncrementFor(at, live[at], p))
    <2>1. p \in Properties
      BY <1>1, KeysAssumption
    <2>2. /\ reported[at][p] # None
          /\ ~Moved(p, reported[at][p], seen[p], IncrementFor(at, live[at], p))
      BY <1>1, <1>2 DEF NewsTo
    <2> QED  BY <1>1, <2>1, <2>2 DEF BaselineIsWhatWasTold
  <1> QED  BY <1>2 DEF NewsTo

LEMMA ReportSaysNews ==
  ASSUME TypeOK, BaselineIsWhatWasTold, NEW k \in Keys, Report(k)
  PROVE NewsTo(told) \/ \E p \in Watches[k] : reported[k][p] = None
  <1>1. at = k /\ NewsTo(reported)
    BY DEF Report, Evaluated
  <1>2. PICK p \in Watches[k] :
          /\ seen[p] # None
          /\ \/ reported[k][p] = None
             \/ Moved(p, reported[k][p], seen[p], IncrementFor(k, live[k], p))
    BY <1>1 DEF NewsTo
  <1>3. CASE reported[k][p] = None
    BY <1>3
  <1>4. CASE reported[k][p] # None
    <2>1. p \in Properties
      BY KeysAssumption
    <2>2. reported[k][p] = told[k][p]
      BY <1>4, <2>1 DEF BaselineIsWhatWasTold
    <2> QED  BY <1>1, <1>2, <1>4, <2>2 DEF NewsTo
  <1> QED  BY <1>3, <1>4

\* Every decision of a tick is the one a subscriber's own copy would give: nothing
\* it lacks is withheld, nothing it has is repeated (reportable, CovEngine::tick).
THEOREM DecidesByWhatWasTold == Spec => MeasuredFromWhatWasTold
  <1> DEFINE Decision ==
        \A k \in Keys :
          /\ StayQuiet(k) => ~NewsTo(told)
          /\ Report(k) => NewsTo(told) \/ \E p \in Watches[k] : reported[k][p] = None
  <1>1. TypeOK /\ BaselineIsWhatWasTold => Decision
    BY QuietSaysKnown, ReportSaysNews
  <1>2. TypeOK /\ BaselineIsWhatWasTold => [Decision]_vars
    BY <1>1
  <1> QED  BY <1>2, TypeCorrect, BaselinesAreTold, PTL DEF MeasuredFromWhatWasTold

-----------------------------------------------------------------------------
(* Room in the table *)

LEMMA HeldFinite ==
  ASSUME NEW S \in SUBSET Keys, NEW P \in SUBSET S
  PROVE  IsFiniteSet(S) /\ IsFiniteSet(P) /\ Cardinality(P) \in Nat
         /\ Cardinality(P) <= Cardinality(S)
  BY KeysAssumption, FS_Subset, FS_CardinalityType

\* Fewer subscriptions live means a smaller count, and one more counts for one.
LEMMA CountShrinks ==
  ASSUME NEW S \in SUBSET Keys, NEW t, NEW u,
         \A k \in S : Live(subs'[k], u) => Live(subs[k], t)
  PROVE  /\ Cardinality({k \in S : Live(subs'[k], u)}) <= HeldCount(S, t)
         /\ HeldCount(S, t) \in Nat /\ Cardinality({k \in S : Live(subs'[k], u)}) \in Nat
  <1> DEFINE A == {k \in S : Live(subs'[k], u)}
             B == {k \in S : Live(subs[k], t)}
  <1>1. B \in SUBSET Keys /\ A \in SUBSET B
    OBVIOUS
  <1>2. Cardinality(B) \in Nat /\ Cardinality(A) \in Nat /\ Cardinality(A) <= Cardinality(B)
    BY <1>1, HeldFinite
  <1> QED  BY <1>2 DEF HeldCount

LEMMA CountGrowsByOne ==
  ASSUME NEW S \in SUBSET Keys, NEW t, NEW u, NEW j \in Keys,
         \A k \in S \ {j} : Live(subs'[k], u) => Live(subs[k], t)
  PROVE  Cardinality({k \in S : Live(subs'[k], u)}) <= HeldCount(S, t) + 1
  <1> DEFINE A == {k \in S : Live(subs'[k], u)}
             B == {k \in S : Live(subs[k], t)}
  <1>1. B \in SUBSET Keys /\ B \union {j} \in SUBSET Keys /\ A \in SUBSET (B \union {j})
    OBVIOUS
  <1>2. IsFiniteSet(B) /\ Cardinality(B) \in Nat
    BY <1>1, HeldFinite
  <1>3. Cardinality(B \union {j}) <= Cardinality(B) + 1
    <2> HIDE DEF B
    <2>1. Cardinality(B \union {j}) = IF j \in B THEN Cardinality(B) ELSE Cardinality(B) + 1
      BY <1>2, FS_AddElement
    <2> QED  BY <1>2, <2>1
  <1>4. Cardinality(A) <= Cardinality(B \union {j}) /\ Cardinality(A) \in Nat
        /\ Cardinality(B \union {j}) \in Nat
    BY <1>1, HeldFinite
  <1> QED  BY <1>2, <1>3, <1>4 DEF HeldCount

\* Keys is a set of its own keys, and so are those on one object.
LEMMA KeySets == Keys \in SUBSET Keys /\ \A o \in Objects : KeysOn(o) \in SUBSET Keys
  BY DEF KeysOn

\* What keeps the limits, and lets no subscription live that did not before, keeps
\* the table within them.
LEMMA WithinLimitsKept ==
  ASSUME TypeOK, WithinLimits, limits' = limits, overbooked => overbooked',
         \A k \in Keys : Live(subs'[k], now') => Live(subs[k], now)
  PROVE  WithinLimits'
  <1> SUFFICES ASSUME ~overbooked'
               PROVE  /\ limits.total # None => HeldCount(Keys, now)' <= limits.total
                      /\ \A o \in Objects : limits.per_object # None =>
                           HeldCount(KeysOn(o), now)' <= limits.per_object
    BY DEF WithinLimits
  <1>1. /\ limits.total # None => HeldCount(Keys, now) <= limits.total
        /\ \A o \in Objects : limits.per_object # None =>
             HeldCount(KeysOn(o), now) <= limits.per_object
    BY DEF WithinLimits
  <1>2. ASSUME NEW S \in SUBSET Keys, NEW limit \in Nat, HeldCount(S, now) <= limit
        PROVE  HeldCount(S, now)' <= limit
    <2>1. \A k \in S : Live(subs'[k], now') => Live(subs[k], now)
      OBVIOUS
    <2>2. HeldCount(S, now)' <= HeldCount(S, now) /\ HeldCount(S, now) \in Nat
          /\ HeldCount(S, now)' \in Nat
      BY <2>1, CountShrinks DEF HeldCount
    <2> QED  BY <1>2, <2>2
  <1>3. limits.total \in Nat \union {None} /\ limits.per_object \in Nat \union {None}
    BY DEF TypeOK
  <1> QED  BY <1>1, <1>2, <1>3, KeySets

LEMMA RoomStep == TypeOK /\ RoomInv /\ [Next]_vars => RoomInv'
  <1> SUFFICES ASSUME TypeOK, RoomInv, [Next]_vars PROVE RoomInv'
    OBVIOUS
  <1>1. ASSUME NEW t \in Threads, NEW k \in Keys, NEW l \in Lifetimes,
               NEW i \in Increments \union {None}, Subscribe(t, k, l, i)
        PROVE RoomInv'
    <2>1. /\ UNCHANGED <<now, limits, overbooked>> /\ request'[t].pc = "begun"
          /\ \A s \in Threads : s # t => request'[s] = request[s]
      BY <1>1 DEF Subscribe, table, TypeOK
    <2> QED  BY <2>1 DEF RoomInv
  <1>2. ASSUME NEW t \in Threads, LookUpRoom(t) PROVE RoomInv'
    <2>1. /\ UNCHANGED <<now, limits, overbooked>>
          /\ request'[t].now = now /\ request'[t].limits = limits
          /\ \A s \in Threads : s # t => request'[s] = request[s]
      BY <1>2 DEF LookUpRoom, table, TypeOK
    <2> QED  BY <2>1 DEF RoomInv, TypeOK
  <1>3. ASSUME NEW t \in Threads, Insert(t) PROVE RoomInv'
    <2>1. /\ UNCHANGED <<now, limits>> /\ (overbooked => overbooked')
          /\ request'[t].pc = "idle"
          /\ \A s \in Threads : s # t => request'[s] = request[s]
      BY <1>3 DEF Insert, table, NoRequest, TypeOK
    <2> QED  BY <2>1 DEF RoomInv
  <1>4. ASSUME NEW l \in Limits, l # limits, SetLimits(l) PROVE RoomInv'
    BY <1>4 DEF SetLimits, RoomInv
  <1>5. ASSUME NEW clock \in {now, now + 1}, TickBegins(clock) PROVE RoomInv'
    <2>1. now' >= now /\ now' \in Int /\ now \in Int
      BY <1>5 DEF TickBegins, TypeOK
    <2>2. UNCHANGED <<limits, overbooked, request>>
      BY <1>5 DEF TickBegins, table
    <2>3. \A t \in Threads : request[t].now \in Int
      BY DEF TypeOK, Requests
    <2> QED  BY <2>1, <2>2, <2>3 DEF RoomInv
  <1>6. CASE UNCHANGED <<now, limits, overbooked, request>>
    BY <1>6 DEF RoomInv
  <1> QED
    BY <1>1, <1>2, <1>3, <1>4, <1>5, <1>6
       DEF Next, Serve, Tick, Cancel, Gone, TickExpires, TickCollects, ReadFirst, ReadFlags, Report,
           StayQuiet, Evaluated, TickEnds, Write, Remove, Add, Become, vars, table, walk

\* A subscription that is let in finds room for itself, though it counted by a
\* clock that has moved on.
LEMMA InsertWithinLimits ==
  ASSUME TypeOK, RoomInv, WithinLimits, NEW t \in Threads, Insert(t)
  PROVE  WithinLimits'
  <1> DEFINE k == request[t].key
  <1>a. request[t] \in Requests /\ request[t].pc = "room" /\ now \in Nat
        /\ limits.total \in Nat \union {None} /\ limits.per_object \in Nat \union {None}
    BY DEF Insert, TypeOK
  <1>b. k \in Keys /\ ObjectOf[k] \in Objects /\ request[t].now \in Nat
    BY <1>a, KeysAssumption DEF Requests
  <1>1. k \in Keys /\ ObjectOf[k] \in Objects /\ request[t].pc = "room"
        /\ request[t].now <= now /\ request[t].now \in Nat /\ now \in Nat
        /\ limits.total \in Nat \union {None} /\ limits.per_object \in Nat \union {None}
    BY <1>a, <1>b DEF RoomInv
  <1>2. UNCHANGED <<now, limits>> /\ (overbooked => overbooked')
    <2>1. overbooked \in BOOLEAN
      BY DEF TypeOK
    <2> QED  BY <2>1 DEF Insert, table
  <1>3. CASE UNCHANGED table
    BY <1>2, <1>3, WithinLimitsKept DEF table
  <1>4. CASE /\ ~Refused(request[t])
             /\ subs' = [subs EXCEPT ![k] = request[t].sub]
             /\ overbooked' = (overbooked \/ (subs[k].held /\ ~Live(subs[k], now)))
    <2>1. \A j \in Keys : j # k => subs'[j] = subs[j]
      BY <1>4 DEF TypeOK
    <2>2. CASE subs[k].held
      <3>1. CASE Live(subs[k], now)
        BY <1>2, <2>1, <3>1, WithinLimitsKept
      <3>2. CASE ~Live(subs[k], now)
        BY <1>4, <2>2, <3>2 DEF WithinLimits
      <3> QED  BY <3>1, <3>2
    <2>3. CASE ~subs[k].held
      <3>1. CASE overbooked
        BY <1>2, <3>1 DEF WithinLimits
      <3>2. CASE ~overbooked
        <4>1. request[t].limits = limits
          BY <1>1, <3>2 DEF RoomInv
        <4>2. /\ ~Full(limits.total, HeldCount(Keys, request[t].now))
              /\ ~Full(limits.per_object, HeldCount(KeysOn(ObjectOf[k]), request[t].now))
          BY <1>4, <2>3, <4>1 DEF Refused
        \* What lives now was counted when the request counted.
        <4>3. \A j \in Keys \ {k} : Live(subs'[j], now') => Live(subs[j], request[t].now)
          <5>1. \A j \in Keys : subs[j].expires \in Int
            BY DEF TypeOK, Subscriptions, None
          <5> QED  BY <1>1, <1>2, <2>1, <5>1 DEF Live
        <4>4. ASSUME NEW S \in SUBSET Keys, NEW limit \in Nat,
                     ~Full(limit, HeldCount(S, request[t].now))
              PROVE  HeldCount(S, now)' <= limit
          <5>1. Cardinality({j \in S : Live(subs'[j], now')})
                  <= HeldCount(S, request[t].now) + 1
            BY <1>1, <4>3, CountGrowsByOne
          <5>2. HeldCount(S, request[t].now) < limit
            <6>1. HeldCount(S, request[t].now) \in Nat /\ limit # None
              BY HeldFinite DEF HeldCount, None
            <6> QED  BY <4>4, <6>1 DEF Full
          <5>3. HeldCount(S, request[t].now) \in Nat
                /\ Cardinality({j \in S : Live(subs'[j], now')}) \in Nat
            BY HeldFinite DEF HeldCount
          <5> QED  BY <5>1, <5>2, <5>3 DEF HeldCount
        \* On the other objects nothing came to live.
        <4>5. ASSUME NEW o \in Objects, o # ObjectOf[k], limits.per_object \in Nat
              PROVE  HeldCount(KeysOn(o), now)' <= limits.per_object
          <5>1. \A j \in KeysOn(o) : Live(subs'[j], now') => Live(subs[j], now)
            BY <1>2, <2>1, <4>5 DEF KeysOn
          <5>2. HeldCount(KeysOn(o), now)' <= HeldCount(KeysOn(o), now)
                /\ HeldCount(KeysOn(o), now) \in Nat /\ HeldCount(KeysOn(o), now)' \in Nat
            BY <5>1, CountShrinks, KeySets DEF HeldCount
          <5>3. HeldCount(KeysOn(o), now) <= limits.per_object
            BY <3>2, <4>5 DEF WithinLimits, None
          <5> QED  BY <4>5, <5>2, <5>3
        <4>6. limits.total # None => HeldCount(Keys, now)' <= limits.total
          BY <1>1, <4>2, <4>4, KeySets
        <4>7. \A o \in Objects : limits.per_object # None =>
                HeldCount(KeysOn(o), now)' <= limits.per_object
          BY <1>1, <4>2, <4>4, <4>5, KeySets
        <4> QED  BY <1>2, <4>6, <4>7 DEF WithinLimits
      <3> QED  BY <3>1, <3>2
    <2> QED  BY <2>2, <2>3
  <1> QED  BY <1>3, <1>4 DEF Insert

LEMMA WithinLimitsStep ==
  TypeOK /\ RoomInv /\ WithinLimits /\ [Next]_vars => WithinLimits'
  <1> SUFFICES ASSUME TypeOK, RoomInv, WithinLimits, [Next]_vars PROVE WithinLimits'
    OBVIOUS
  <1>1. ASSUME NEW t \in Threads, Insert(t) PROVE WithinLimits'
    BY <1>1, InsertWithinLimits
  <1>2. ASSUME NEW S, Gone(S), UNCHANGED <<now, limits>> PROVE WithinLimits'
    <2>1. \A k \in Keys : Live(subs'[k], now') => Live(subs[k], now)
      BY <1>2 DEF Gone, Live, NoSub
    <2> QED  BY <1>2, <2>1, WithinLimitsKept DEF Gone
  <1>3. ASSUME NEW l \in Limits, l # limits, SetLimits(l) PROVE WithinLimits'
    BY <1>3 DEF SetLimits, WithinLimits
  <1>4. ASSUME NEW clock \in {now, now + 1}, TickBegins(clock) PROVE WithinLimits'
    <2>1. now' >= now /\ now' \in Int /\ now \in Int
      BY <1>4 DEF TickBegins, TypeOK
    <2>2. UNCHANGED <<limits, overbooked, subs>>
      BY <1>4 DEF TickBegins, table
    <2>3. \A k \in Keys : subs[k].expires \in Int
      BY DEF TypeOK, Subscriptions, None
    <2>4. \A k \in Keys : Live(subs'[k], now') => Live(subs[k], now)
      BY <2>1, <2>2, <2>3 DEF Live
    <2> QED  BY <2>2, <2>4, WithinLimitsKept
  <1>5. CASE UNCHANGED <<now, limits, overbooked, subs>>
    BY <1>5, WithinLimitsKept
  <1>6. ASSUME NEW t \in Threads, NEW k \in Keys, Cancel(t, k) PROVE WithinLimits'
    BY <1>2, <1>6 DEF Cancel
  <1>7. CASE TickExpires
    BY <1>2, <1>7 DEF TickExpires
  <1> QED
    BY <1>1, <1>3, <1>4, <1>5, <1>6, <1>7
       DEF Next, Serve, Subscribe, LookUpRoom, Tick, TickCollects, ReadFirst, ReadFlags, Report,
           StayQuiet, Evaluated, TickEnds, Write, Remove, Add, Become, vars, table, walk

\* However many threads subscribe at once, over however many objects and with
\* whatever clock the host publishes in between, the table takes in no
\* subscription it has no room for (CovSubscriptions::subscribe), renewals of
\* lapsed ones and new limits excepted.
THEOREM TableWithinLimits == Spec => []WithinLimits
  <1>1. Init => RoomInv
    BY DEF Init, RoomInv, NoRequest
  <1>2. Init => WithinLimits
    <2> SUFFICES ASSUME Init PROVE WithinLimits
      OBVIOUS
    <2>1. \A S \in SUBSET Keys : {k \in S : Live(subs[k], now)} = {}
      BY DEF Init, Live, NoSub
    <2>2. \A S \in SUBSET Keys : HeldCount(S, now) = 0
      BY <2>1, FS_EmptySet DEF HeldCount
    <2>3. \A l \in {limits.total, limits.per_object} : l # None => 0 <= l
      BY LimitsTyped DEF Init
    <2> QED  BY <2>2, <2>3, KeySets DEF WithinLimits
  <1> QED  BY <1>1, <1>2, RoomStep, WithinLimitsStep, TypeCorrect, PTL DEF Spec

-----------------------------------------------------------------------------
(* What the first evaluation of a subscription does *)

LEMMA WalkStep == TypeOK /\ WalkInv /\ [Next]_vars => WalkInv'
  <1> SUFFICES ASSUME TypeOK, WalkInv, [Next]_vars PROVE WalkInv'
    OBVIOUS
  <1>1. CASE UNCHANGED <<walk, listed>>
    BY <1>1 DEF walk, WalkInv
  <1>2. CASE TickExpires \/ TickEnds \/ \E c \in {now, now + 1} : TickBegins(c)
    <2>1. UNCHANGED <<live, listed>> /\ phase' \in {"idle", "expire", "collect"}
      BY <1>2 DEF TickExpires, TickEnds, TickBegins, Gone, table
    <2> QED  BY <2>1 DEF WalkInv
  <1>3. CASE TickCollects
    <2>1. live' = subs /\ listed' = {k \in Keys : subs[k].held} /\ phase' = "next"
      BY <1>3 DEF TickCollects
    <2> QED  BY <2>1 DEF WalkInv
  <1>4. ASSUME NEW k \in Keys, ReadFirst(k) PROVE WalkInv'
    <2>1. /\ UNCHANGED <<live, listed>> /\ live[k].held /\ at' = k
          /\ phase' = IF Watches[k] = Properties THEN "flags" ELSE "decide"
      BY <1>4 DEF ReadFirst, table
    <2>2. \A p \in Properties \ Watches[k] : seen'[p] = None
      BY <1>4 DEF ReadFirst, Properties
    <2> QED  BY <2>1, <2>2 DEF WalkInv
  <1>5. CASE ReadFlags
    <2>1. UNCHANGED <<live, listed, at>> /\ phase = "flags" /\ phase' = "decide"
      BY <1>5 DEF ReadFlags, table
    <2> QED  BY <2>1 DEF WalkInv
  <1>6. ASSUME NEW k \in Keys, Evaluated(k) PROVE WalkInv'
    <2>1. live' = [live EXCEPT ![k] = NoSub] /\ phase' = "next" /\ UNCHANGED listed
      BY <1>6 DEF Evaluated
    <2> QED  BY <2>1 DEF WalkInv, NoSub, TypeOK
  <1> QED
    BY <1>1, <1>2, <1>3, <1>4, <1>5, <1>6
       DEF Next, Serve, Subscribe, LookUpRoom, Insert, Cancel, Gone, SetLimits, Tick, Report,
           StayQuiet, Write, Remove, Add, Become, vars, table

LEMMA FreshStep == TypeOK /\ WalkInv /\ FreshInv /\ [Next]_vars => FreshInv'
  <1> SUFFICES ASSUME TypeOK, WalkInv, FreshInv, [Next]_vars PROVE FreshInv'
    OBVIOUS
  <1>1. CASE UNCHANGED <<fresh, first, listed, leftover, reported>>
    BY <1>1 DEF FreshInv
  <1>2. ASSUME NEW t \in Threads, Insert(t), ~UNCHANGED table PROVE FreshInv'
    <2> DEFINE k == request[t].key
    <2>1. /\ fresh' = IF subs[k].held THEN fresh ELSE fresh \union {k}
          /\ leftover' = IF subs[k].held THEN leftover
                         ELSE IF k \in listed THEN leftover \union {k} ELSE leftover \ {k}
          /\ UNCHANGED <<first, listed, reported>>
      BY <1>2 DEF Insert
    <2>2. k \in Keys
      BY DEF TypeOK, Requests
    <2> QED  BY <2>1, <2>2 DEF FreshInv
  <1>3. ASSUME NEW S, Gone(S), UNCHANGED reported PROVE FreshInv'
    BY <1>3 DEF Gone, FreshInv
  <1>4. CASE TickCollects
    <2>1. /\ first' = fresh /\ listed' = {k \in Keys : subs[k].held}
          /\ reported' = Forget(subs) /\ UNCHANGED <<fresh, leftover>>
      BY <1>4 DEF TickCollects
    <2>2. \A k \in Keys : reported'[k] = IF subs[k].held THEN reported[k] ELSE Nothing
      BY <2>1 DEF Forget
    <2> QED  BY <2>1, <2>2 DEF FreshInv, TypeOK
  <1>5. ASSUME NEW k \in Keys, Evaluated(k), \A j \in Keys : j # k => reported'[j] = reported[j]
        PROVE FreshInv'
    <2>1. /\ first' = first \ {k} /\ fresh' = IF k \in first THEN fresh \ {k} ELSE fresh
          /\ UNCHANGED <<listed, leftover>>
      BY <1>5 DEF Evaluated
    <2>2. k \in listed
      BY <1>5 DEF Evaluated, WalkInv
    <2>3. k \notin fresh' \ leftover'
      BY <2>1, <2>2 DEF FreshInv
    <2> QED  BY <1>5, <2>1, <2>2, <2>3 DEF FreshInv, TypeOK
  <1>6. ASSUME NEW k \in Keys, Report(k) \/ StayQuiet(k) PROVE FreshInv'
    <2>1. Evaluated(k) /\ \A j \in Keys : j # k => reported'[j] = reported[j]
      BY <1>6 DEF Report, StayQuiet, TypeOK
    <2> QED  BY <2>1, <1>5
  <1>7. ASSUME NEW t \in Threads, NEW k \in Keys, Cancel(t, k) PROVE FreshInv'
    BY <1>3, <1>7 DEF Cancel
  <1>8. CASE TickExpires
    BY <1>3, <1>8 DEF TickExpires
  <1>9. CASE \/ \E t \in Threads : LookUpRoom(t) \/ (Insert(t) /\ UNCHANGED table)
             \/ \E t \in Threads, k \in Keys, l \in Lifetimes, i \in Increments \union {None} :
                  Subscribe(t, k, l, i)
             \/ \E l \in Limits : SetLimits(l)
             \/ \E c \in {now, now + 1} : TickBegins(c)
             \/ \E k \in Keys : ReadFirst(k)
             \/ ReadFlags \/ TickEnds
             \/ \E o \in Objects : Write(o) \/ Remove(o) \/ Add(o)
             \/ UNCHANGED vars
    <2>1. UNCHANGED <<fresh, first, listed, leftover, reported>>
      BY <1>9 DEF LookUpRoom, Insert, Subscribe, SetLimits, TickBegins, ReadFirst, ReadFlags,
                  TickEnds, Write, Remove, Add, Become, vars, table
    <2> QED  BY <1>1, <2>1
  <1> QED
    BY <1>2, <1>4, <1>6, <1>7, <1>8, <1>9 DEF Next, Serve, Tick

\* Whatever the request threads cancel and renew while the engine walks, a
\* subscription is reported the first time it is evaluated, if anything of it can
\* be read ("the first evaluation of a new subscription always reports") and its
\* key had not been found in the table before it was made.
THEOREM NewSubscriptionsReport == Spec => FirstEvaluationReportsIfClean
  <1> DEFINE Step == \A k \in Keys : StayQuiet(k) => k \notin first \ leftover \/ seen = Nothing
  <1>1. TypeOK /\ WalkInv /\ FreshInv => Step
    <2> SUFFICES ASSUME TypeOK, WalkInv, FreshInv, NEW k \in Keys, StayQuiet(k),
                        k \in first \ leftover
                 PROVE  seen = Nothing
      OBVIOUS
    <2>1. phase = "decide" /\ at = k /\ ~NewsTo(reported)
      BY DEF StayQuiet, Evaluated
    <2>2. reported[k] = Nothing
      BY DEF FreshInv
    <2>3. \A p \in Watches[k] : seen[p] = None
      <3>1. \A p \in Watches[k] : reported[k][p] = None
        BY <2>2, KeysAssumption DEF Nothing
      <3> QED  BY <2>1, <3>1 DEF NewsTo
    <2>4. \A p \in Properties : seen[p] = None
      BY <2>1, <2>3 DEF WalkInv
    <2>5. seen \in [Properties -> Nat \union {None, NaN}]
      BY DEF TypeOK, Readings
    <2> QED  BY <2>4, <2>5 DEF Nothing
  <1>2. Init => WalkInv /\ FreshInv
    BY DEF Init, WalkInv, FreshInv, NoSub
  <1>3. TypeOK /\ WalkInv /\ FreshInv => [Step]_vars
    BY <1>1
  <1> QED
    BY <1>2, <1>3, WalkStep, FreshStep, TypeCorrect, PTL DEF Spec, FirstEvaluationReportsIfClean

=============================================================================
