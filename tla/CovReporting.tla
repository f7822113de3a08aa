---------------------------- MODULE CovReporting ----------------------------
(***************************************************************************)
(* Change-of-value subscriptions: src/cov/mod.rs, and the SubscribeCOV and *)
(* SubscribeCOVProperty services of src/server/object_service.rs.          *)
(*                                                                         *)
(* Request threads maintain the subscription table, the engine thread      *)
(* walks it on every tick, clients write the objects in between.  The      *)
(* table, its limits, the published clock and every property of the        *)
(* database are locked one at a time: a subscribe is three steps, a tick   *)
(* is three steps and then up to three for each subscription.              *)
(*                                                                         *)
(* An object has a "value" (Present_Value, a Real) and "flags"             *)
(* (Status_Flags, which differ or do not).                                 *)
(***************************************************************************)
EXTENDS Integers, FiniteSets

CONSTANTS
  Objects,      \* the objects that can be watched
  Keys,         \* subscription keys: process, object, property, address
  ObjectOf,     \* ObjectOf[k] is the monitored object of key k
  Watches,      \* Watches[k]: both properties for SubscribeCOV, or one of them
  Threads,      \* the threads that serve requests
  Values,       \* what a value may be
  Flags,        \* what the flags may be
  Increments,   \* what COV_Increment, or a request's increment, may be
  Lifetimes,    \* lifetimes a request may ask for; 0 is "until cancelled"
  Limits,       \* the CovLimits the host may set
  Deletable,    \* bound: objects the host may remove and add again
  MaxClock      \* bound: the clock the host passes stops here

None == -1        \* no value, no baseline, no increment, no expiry, no limit
NaN == -2
Properties == {"value", "flags"}

ASSUME KeysAssumption ==
  /\ Keys # {} /\ IsFiniteSet(Keys)
  /\ ObjectOf \in [Keys -> Objects]
  /\ Watches \in [Keys -> SUBSET Properties]
ASSUME DataAssumption ==
  /\ Values \subseteq Nat \union {NaN}
  /\ Flags \subseteq Nat
  /\ Increments \subseteq Nat
  /\ Lifetimes \subseteq Nat
  /\ Limits \subseteq [total : Nat \union {None}, per_object : Nat \union {None}]
  /\ Deletable \subseteq Objects
  /\ MaxClock \in Nat

VARIABLES
  now,        \* CovSubscriptions.now_seconds
  limits,     \* CovSubscriptions.limits
  subs,       \* CovSubscriptions.subscriptions
  request,    \* request[t]: the subscribe thread t is in
  reported,   \* CovEngine.reported: the baselines
  phase,      \* how far CovEngine::tick is
  live,       \* tick: the subscriptions it has still to look at
  at,         \* tick: the key it looks at
  seen,       \* tick: what it has observed of it
  object,     \* object[o]: its value, flags and COV_Increment
  told,       \* told[k]: what the last notification for k said of each property
  fresh,      \* history: subscriptions made and not yet evaluated
  first,      \* history: of those, the ones this tick took in
  listed,     \* history: the keys the last tick found in the table
  leftover,   \* history: subscriptions made under a key in that list
  overbooked  \* history: a lapsed subscription was renewed or a limit lowered

table == <<subs, fresh, first, listed, leftover, overbooked>>
walk == <<phase, live, at, seen>>
vars == <<now, limits, table, request, reported, walk, object, told>>

-----------------------------------------------------------------------------
(* Data *)

Readings == [Properties -> Nat \union {None, NaN}]
Nothing == [p \in Properties |-> None]
NoSub == [held |-> FALSE, expires |-> None, increment |-> None]
Subscriptions ==
  [held : BOOLEAN, expires : Nat \union {None}, increment : Nat \union {None}]
NoObject == [value |-> None, flags |-> None, increment |-> None]
States ==
  [value : Values, flags : Flags, increment : Increments] \union {NoObject}

Live(s, t) == s.held /\ (s.expires = None \/ s.expires > t)

ExpiryFor(lifetime) == IF lifetime = 0 THEN None ELSE now + lifetime

\* Whether a property has moved enough to report.  Nothing is any distance from
\* NaN, but NaN differs from everything, itself included.
Moved(p, before, after, increment) ==
  IF p = "value" /\ increment # None
  THEN /\ NaN \notin {before, after}
       /\ before >= after + increment \/ after >= before + increment
  ELSE before # after \/ before = NaN

IncrementFor(k, s, p) ==
  IF s.increment # None THEN s.increment
  ELSE IF p = "value" THEN object[ObjectOf[k]].increment ELSE None

-----------------------------------------------------------------------------
NoRequest == [pc |-> "idle", key |-> CHOOSE k \in Keys : TRUE, sub |-> NoSub,
              now |-> 0, limits |-> [total |-> None, per_object |-> None]]
Requests == [pc : {"idle", "begun", "room"}, key : Keys, sub : Subscriptions, now : Nat,
             limits : [total : Nat \union {None}, per_object : Nat \union {None}]]

TypeOK ==
  /\ now \in Nat
  /\ limits \in [total : Nat \union {None}, per_object : Nat \union {None}]
  /\ subs \in [Keys -> Subscriptions]
  /\ request \in [Threads -> Requests]
  /\ reported \in [Keys -> Readings]
  /\ phase \in {"idle", "expire", "collect", "next", "flags", "decide"}
  /\ live \in [Keys -> Subscriptions]
  /\ at \in Keys
  /\ seen \in Readings
  /\ phase \notin {"flags", "decide"} => seen = Nothing
  /\ object \in [Objects -> States]
  /\ told \in [Keys -> Readings]
  /\ fresh \subseteq Keys /\ first \subseteq Keys /\ listed \subseteq Keys /\ leftover \subseteq Keys
  /\ overbooked \in BOOLEAN

Init ==
  /\ now = 0
  /\ limits \in Limits
  /\ subs = [k \in Keys |-> NoSub]
  /\ request = [t \in Threads |-> NoRequest]
  /\ reported = [k \in Keys |-> Nothing]
  /\ phase = "idle"
  /\ live = [k \in Keys |-> NoSub]
  /\ at \in Keys
  /\ seen = Nothing
  /\ object \in [Objects -> [value : Values, flags : Flags, increment : Increments]]
  /\ told = [k \in Keys |-> Nothing]
  /\ fresh = {} /\ first = {} /\ listed = {} /\ leftover = {}
  /\ overbooked = FALSE

-----------------------------------------------------------------------------
(* The request threads *)

\* subscribe_cov and subscribe_cov_property look the object up and turn the
\* lifetime into an expiry by the published clock before they call subscribe.
\* Only a request for one property brings an increment.
Subscribe(t, k, lifetime, increment) ==
  /\ request[t].pc = "idle"
  /\ object[ObjectOf[k]] # NoObject
  /\ increment # None => Cardinality(Watches[k]) = 1
  /\ LET sub == [held |-> TRUE, expires |-> ExpiryFor(lifetime), increment |-> increment]
     IN request' = [request EXCEPT ![t] =
          [pc |-> "begun", key |-> k, sub |-> sub, now |-> 0, limits |-> NoRequest.limits]]
  /\ UNCHANGED <<now, limits, table, reported, walk, object, told>>

\* subscribe reads the limits and the clock, and then waits for the table.
LookUpRoom(t) ==
  /\ request[t].pc = "begun"
  /\ request' = [request EXCEPT ![t] =
       [pc |-> "room", key |-> @.key, sub |-> @.sub, now |-> now, limits |-> limits]]
  /\ UNCHANGED <<now, limits, table, reported, walk, object, told>>

\* A count that leaves out what never expires.
HeldCountsFinite(S, t) == Cardinality({k \in S : Live(subs[k], t) /\ subs[k].expires # None})

HeldCount(S, t) == Cardinality({k \in S : Live(subs[k], t)})

Full(limit, count) == limit # None /\ count >= limit

KeysOn(o) == {k \in Keys : ObjectOf[k] = o}

Refused(r) ==
  /\ ~subs[r.key].held
  /\ \/ Full(r.limits.total, HeldCount(Keys, r.now))
     \/ Full(r.limits.per_object, HeldCount(KeysOn(ObjectOf[r.key]), r.now))

Insert(t) ==
  LET r == request[t]
      k == r.key IN
  /\ r.pc = "room"
  /\ request' = [request EXCEPT ![t] = NoRequest]
  /\ \/ Refused(r) /\ UNCHANGED table
     \/ /\ ~Refused(r)
        /\ subs' = [subs EXCEPT ![k] = r.sub]
        /\ overbooked' = (overbooked \/ (subs[k].held /\ ~Live(subs[k], now)))
        /\ fresh' = IF subs[k].held THEN fresh ELSE fresh \union {k}
        /\ leftover' = IF subs[k].held THEN leftover
                       ELSE IF k \in listed THEN leftover \union {k} ELSE leftover \ {k}
        /\ UNCHANGED <<first, listed>>
  /\ UNCHANGED <<now, limits, reported, walk, object, told>>

Gone(S) ==
  /\ subs' = [k \in Keys |-> IF k \in S THEN NoSub ELSE subs[k]]
  /\ fresh' = fresh \ S
  /\ first' = first \ S
  /\ leftover' = leftover \ S
  /\ UNCHANGED <<listed, overbooked>>

Cancel(t, k) ==
  /\ request[t].pc = "idle"
  /\ object[ObjectOf[k]] # NoObject
  /\ Gone({k})
  /\ UNCHANGED <<now, limits, request, reported, walk, object, told>>

\* The host sizes the table anew: what is held is kept.
SetLimits(l) ==
  /\ limits' = l
  /\ overbooked' = (overbooked \/ l # limits)
  /\ UNCHANGED <<now, subs, fresh, first, listed, leftover, request, reported, walk, object, told>>

-----------------------------------------------------------------------------
(* CovEngine::tick *)

\* set_now
TickBegins(clock) ==
  /\ phase = "idle"
  /\ now' = clock
  /\ phase' = "expire"
  /\ UNCHANGED <<limits, table, request, reported, live, at, seen, object, told>>

TickExpires ==
  /\ phase = "expire"
  /\ Gone({k \in Keys : subs[k].held /\ ~Live(subs[k], now)})
  /\ phase' = "collect"
  /\ UNCHANGED <<now, limits, request, reported, live, at, seen, object, told>>

\* Forgetting no baseline at all.
ForgetNone(found) == reported

\* Baselines whose keys were not found are forgotten.
Forget(found) == [k \in Keys |-> IF found[k].held THEN reported[k] ELSE Nothing]

TickCollects ==
  /\ phase = "collect"
  /\ phase' = "next"
  /\ live' = subs
  /\ first' = fresh
  /\ listed' = {k \in Keys : subs[k].held}
  /\ reported' = Forget(subs)
  /\ UNCHANGED <<now, limits, subs, fresh, leftover, overbooked, request, at, seen, object, told>>

\* The properties of one subscription are read one after the other.
ReadFirst(k) ==
  LET o == object[ObjectOf[k]] IN
  /\ phase = "next"
  /\ live[k].held
  /\ at' = k
  /\ seen' = [p \in Properties |->
                IF p = "value" /\ p \in Watches[k] THEN o.value
                ELSE IF p = "flags" /\ Watches[k] = {p} THEN o.flags ELSE None]
  /\ phase' = IF Watches[k] = Properties THEN "flags" ELSE "decide"
  /\ UNCHANGED <<now, limits, table, request, reported, live, object, told>>

ReadFlags ==
  /\ phase = "flags"
  /\ seen' = [seen EXCEPT !["flags"] = object[ObjectOf[at]].flags]
  /\ phase' = "decide"
  /\ UNCHANGED <<now, limits, table, request, reported, live, at, object, told>>

\* Whether something observed moved from what a table of readings holds, or is
\* new to it.
NewsTo(readings) ==
  \E p \in Watches[at] :
    /\ seen[p] # None
    /\ \/ readings[at][p] = None
       \/ Moved(p, readings[at][p], seen[p], IncrementFor(at, live[at], p))

\* What was observed takes the place of what was known.
Learn(readings) == [p \in Properties |-> IF seen[p] # None THEN seen[p] ELSE readings[p]]

\* Every value the subscriber is told about becomes the baseline.
Baseline(k) == Learn(reported[k])

Evaluated(k) ==
  /\ phase = "decide" /\ at = k
  /\ phase' = "next"
  /\ live' = [live EXCEPT ![k] = NoSub]
  /\ seen' = Nothing
  /\ first' = first \ {k}
  /\ fresh' = IF k \in first THEN fresh \ {k} ELSE fresh
  /\ UNCHANGED <<now, limits, subs, listed, leftover, overbooked, request, at, object>>

Report(k) ==
  /\ Evaluated(k)
  /\ NewsTo(reported)
  /\ reported' = [reported EXCEPT ![k] = Baseline(k)]
  /\ told' = [told EXCEPT ![k] = Learn(told[k])]

\* An evaluation that moves the baseline although it tells the subscriber nothing.
StayQuietDrifting(k) ==
  /\ Evaluated(k)
  /\ ~NewsTo(reported)
  /\ reported' = [reported EXCEPT ![k] = Learn(reported[k])]
  /\ UNCHANGED told

StayQuiet(k) ==
  /\ Evaluated(k)
  /\ ~NewsTo(reported)
  /\ UNCHANGED <<reported, told>>

TickEnds ==
  /\ phase = "next"
  /\ \A k \in Keys : ~live[k].held
  /\ phase' = "idle"
  /\ UNCHANGED <<now, limits, table, request, reported, live, at, seen, object, told>>

Tick ==
  \/ \E clock \in {now, now + 1} : clock <= MaxClock /\ TickBegins(clock)
  \/ TickExpires
  \/ TickCollects
  \/ \E k \in Keys : ReadFirst(k) \/ Report(k) \/ StayQuiet(k)
  \/ ReadFlags
  \/ TickEnds

-----------------------------------------------------------------------------
(* Clients and the host write the objects *)

Become(o, state) ==
  /\ object' = [object EXCEPT ![o] = state]
  /\ UNCHANGED <<now, limits, table, request, reported, walk, told>>

Write(o) ==
  /\ object[o] # NoObject
  /\ \E v \in Values, f \in Flags, i \in Increments :
       LET written == [value |-> v, flags |-> f, increment |-> i] IN
       /\ Cardinality({x \in DOMAIN written : written[x] # object[o][x]}) = 1
       /\ Become(o, written)

Remove(o) == o \in Deletable /\ object[o] # NoObject /\ Become(o, NoObject)

Add(o) ==
  /\ object[o] = NoObject
  /\ \E v \in Values, f \in Flags, i \in Increments :
       Become(o, [value |-> v, flags |-> f, increment |-> i])

Serve(t) == LookUpRoom(t) \/ Insert(t)

Next ==
  \/ \E t \in Threads, k \in Keys :
       \/ \E l \in Lifetimes, i \in Increments \union {None} : Subscribe(t, k, l, i)
       \/ Cancel(t, k)
  \/ \E t \in Threads : Serve(t)
  \/ \E l \in Limits : l # limits /\ SetLimits(l)
  \/ Tick
  \/ \E o \in Objects : Write(o) \/ Remove(o) \/ Add(o)

Spec == Init /\ [][Next]_vars

\* The engine's host keeps ticking; nothing else is required to go on.
FairSpec == Spec /\ WF_vars(Tick)

-----------------------------------------------------------------------------
(* Properties *)

\* The baseline of a key is what the subscriber was last told (lines 295-306 of
\* src/cov/mod.rs).
BaselineIsWhatWasTold ==
  \A k \in Keys, p \in Properties :
    reported[k][p] # None => reported[k][p] = told[k][p]

\* A tick reports a subscription exactly when something moved from what its
\* subscriber has been told, unless its baseline is gone: small moves neither add
\* up unseen nor are reported twice.
MeasuredFromWhatWasTold ==
  [][\A k \in Keys :
       /\ StayQuiet(k) => ~NewsTo(told)
       /\ Report(k) => NewsTo(told) \/ \E p \in Watches[k] : reported[k][p] = None]_vars

\* "The first evaluation of a new subscription always reports": unless there is
\* nothing to read, and if the last tick had not found the same key in the table.
\* What is cancelled and subscribed again between two ticks starts from a baseline.
FirstEvaluationReportsIfClean ==
  [][\A k \in Keys : StayQuiet(k) => k \notin first \ leftover \/ seen = Nothing]_vars

\* The device never holds more live subscriptions than it has room for, over all
\* or on one object, unless one that had lapsed was renewed before the engine
\* expired it or the limits changed.
WithinLimits ==
  LET Fits(S, limit) == limit # None => HeldCount(S, now) <= limit IN
  \/ overbooked
  \/ /\ Fits(Keys, limits.total)
     /\ \A o \in Objects : Fits(KeysOn(o), limits.per_object)

\* The same, or numbers less than the increment apart.
Close(p, before, after, increment) ==
  \/ before = after
  \/ /\ p = "value" /\ increment # None /\ None \notin {before, after} /\ NaN \notin {before, after}
     /\ before < after + increment /\ after < before + increment

\* What k watches is close to what its subscriber was told.
Current(k) ==
  LET o == object[ObjectOf[k]] IN
  \A p \in Watches[k] :
    o # NoObject => Close(p, told[k][p], o[p], IncrementFor(k, subs[k], p))

\* A subscriber whose subscription is kept and whose object comes to rest ends up
\* knowing its state to within the increment.
EventuallyCurrent ==
  \A k \in Keys :
    <>[](subs[k].held) /\ <>[][UNCHANGED <<object[ObjectOf[k]], subs[k].increment>>]_<<object, subs>>
      => <>[]Current(k)

-----------------------------------------------------------------------------
(* The inductive invariants behind WithinLimits and                        *)
(* FirstEvaluationReportsIfClean                                           *)

\* A subscribe that was let in counts by a clock that is past and, unless the
\* host set them since, by the limits that hold.
RoomInv ==
  \A t \in Threads : request[t].pc = "room" =>
    /\ request[t].now <= now
    /\ overbooked \/ request[t].limits = limits

\* A tick looks only at what it found in the table, and at no property that the
\* subscription does not watch.
WalkInv ==
  /\ \A k \in Keys : live[k].held => k \in listed
  /\ phase \in {"flags", "decide"} =>
       /\ at \in listed
       /\ \A p \in Properties \ Watches[at] : seen[p] = None
  /\ phase = "flags" => Watches[at] = Properties

\* Only what was found has a baseline, and a new subscription has none before its
\* evaluation unless its key was found before it was made.
FreshInv ==
  /\ first \subseteq fresh
  /\ \A k \in Keys \ listed : reported[k] = Nothing
  /\ \A k \in fresh \ leftover : reported[k] = Nothing /\ (k \in first \/ k \notin listed)

=============================================================================
