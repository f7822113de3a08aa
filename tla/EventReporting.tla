--------------------------- MODULE EventReporting ---------------------------
(***************************************************************************)
(* Intrinsic reporting of one object: EventEngine of src/event/mod.rs,     *)
(* IntrinsicReporting of src/object/intrinsic.rs, the algorithms of        *)
(* src/object/analog.rs (OUT_OF_RANGE), binary.rs and multistate.rs        *)
(* (CHANGE_OF_STATE), and acknowledge_alarm of                             *)
(* src/server/object_service.rs.                                           *)
(*                                                                         *)
(* The engine's thread evaluates the object once a tick and takes the      *)
(* database's locks one at a time: it reads the object, then its           *)
(* notification class, commits a transition, reads the recipients, and     *)
(* last marks the transition as awaiting acknowledgement.  Request threads *)
(* write the object and its class, and acknowledge alarms, in between.     *)
(*                                                                         *)
(* The host stamps the notifications of a tick with the engine's clock, as *)
(* examples/basic/alarm_device.rs does, and no two ticks alike.            *)
(***************************************************************************)
EXTENDS Integers, FiniteSets, Sequences

CONSTANTS
  Values,       \* what Present_Value may be
  Limits,       \* for each kind of object, what its algorithm compares with may be
  Delays,       \* what Time_Delay and Time_Delay_Normal may be, as pairs
  Enables,      \* what Event_Enable may be
  AckRequireds, \* what Ack_Required of the notification class may be
  Recipients,   \* what transitions the class's recipients may ask for, together
  Steps,        \* how far the clock may move from tick to tick
  MaxClock      \* bound: the clock stops here

Buckets == {"offnormal", "fault", "normal"}
States == {"normal", "fault", "offnormal", "high", "low"}
NoState == "none"

ASSUME AlgorithmAssumption ==
  /\ Values \subseteq Int
  /\ Limits \subseteq
       [kind : {"analog"}, high : SUBSET Int, low : SUBSET Int, deadband : Int]
       \union [kind : {"binary"}, alarm : Int]
       \union [kind : {"multistate"}, alarms : SUBSET Int]
ASSUME ReportingAssumption ==
  /\ Delays \subseteq [away : Nat, back : Nat]
  /\ Enables \subseteq SUBSET Buckets
  /\ AckRequireds \subseteq SUBSET Buckets
  /\ Recipients \subseteq SUBSET Buckets
ASSUME ClockAssumption == Steps \subseteq Nat \ {0} /\ MaxClock \in Nat

VARIABLES
  value,        \* Present_Value
  limits,       \* High_Limit, Low_Limit and Deadband; Alarm_Value; or Alarm_Values
  faulty,       \* whether Reliability is other than NoFaultDetected
  detect,       \* Event_Detection_Enable
  enable,       \* Event_Enable
  delay,        \* Time_Delay and Time_Delay_Normal
  ack_required, \* the class's Ack_Required
  recipients,   \* what the class's Recipient_List subscribes to
  state,        \* Event_State
  acked,        \* Acked_Transitions
  stamps,       \* Event_Time_Stamps; 0 is unspecified
  now,          \* the engine's clock, and the stamp of the tick
  pending,      \* EventEngine.pending: the target and since when
  phase,        \* how far evaluate_object is
  desired,      \* the transition that it commits
  must_ack,     \* whether the class requires that to be acknowledged
  queue,        \* ObjectService.acknowledgements
  told,         \* history: told[b]: the last transition whose ack was asked for
  seen,         \* history: seen[b]: the last transition that was acknowledged
  early,        \* history: what was acknowledged before it was told
  queued,       \* history: what was queued as acknowledged
  twice,        \* history: what was queued again
  streak,       \* history: what evaluations demand, and since when without a break
  gap           \* history: detection was found off while a transition was pending

object == <<value, limits, faulty, detect, enable, delay>>
class == <<ack_required, recipients>>
bits == <<acked, stamps>>
engine == <<now, pending, phase, desired, must_ack>>
acks == <<queue, seen, early, queued, twice>>
dwelling == <<streak, gap>>
vars == <<object, class, state, bits, engine, acks, told, dwelling>>

-----------------------------------------------------------------------------
\* EventTransition::for_state: both limits share a bucket, with off-normal.
Bucket(s) == IF s = "normal" THEN "normal" ELSE IF s = "fault" THEN "fault" ELSE "offnormal"

NoPending == [target |-> NoState, since |-> 0]
Pendings == [target : States \union {NoState}, since : Nat]

\* evaluate_analog: a limit that tripped lets go only past the deadband.
TooHigh ==
  \E h \in limits.high : value > IF state = "high" THEN h - limits.deadband ELSE h
TooLow ==
  \E l \in limits.low : value < IF state = "low" THEN l + limits.deadband ELSE l
OutOfRange == IF TooHigh THEN "high" ELSE IF TooLow THEN "low" ELSE "normal"

\* evaluate_binary and evaluate_multistate
BinaryChange == IF value = limits.alarm THEN "offnormal" ELSE "normal"
MultistateChange == IF value \in limits.alarms THEN "offnormal" ELSE "normal"

\* A fault comes before what the object's own algorithm says.
Evaluation ==
  IF faulty THEN "fault"
  ELSE IF limits.kind = "analog" THEN OutOfRange
  ELSE IF limits.kind = "binary" THEN BinaryChange
  ELSE MultistateChange

DwellFor(s) == IF s = "normal" THEN delay.back ELSE delay.away

TypeOK ==
  /\ value \in Values /\ limits \in Limits /\ faulty \in BOOLEAN /\ detect \in BOOLEAN
  /\ enable \subseteq Buckets /\ delay \in [away : Nat, back : Nat]
  /\ ack_required \subseteq Buckets /\ recipients \subseteq Buckets
  /\ state \in States
  /\ acked \subseteq Buckets
  /\ stamps \in [Buckets -> Nat]
  /\ now \in Nat
  /\ pending \in Pendings
  /\ pending.target # state /\ pending.since <= now
  /\ phase \in {"idle", "settings", "commit", "recipients", "await"}
  /\ desired \in States \union {NoState}
  /\ phase # "idle" => desired # NoState /\ pending = NoPending
  /\ must_ack \in BOOLEAN
  /\ queue \in Seq(Buckets)
  /\ told \in [Buckets -> Nat] /\ seen \in [Buckets -> Nat]
  /\ early \subseteq Nat /\ queued \subseteq Nat /\ twice \subseteq Nat
  /\ streak \in Pendings /\ gap \in BOOLEAN

Init ==
  /\ value \in Values /\ limits \in Limits /\ faulty = FALSE /\ detect = TRUE
  /\ enable \in Enables /\ delay \in Delays
  /\ ack_required \in AckRequireds /\ recipients \in Recipients
  /\ state = "normal" /\ acked = Buckets /\ stamps = [b \in Buckets |-> 0]
  /\ now = 0 /\ pending = NoPending /\ phase = "idle" /\ desired = NoState
  /\ must_ack = FALSE
  /\ queue = <<>>
  /\ told = [b \in Buckets |-> 0] /\ seen = [b \in Buckets |-> 0]
  /\ early = {} /\ queued = {} /\ twice = {}
  /\ streak = NoPending /\ gap = FALSE

-----------------------------------------------------------------------------
(* EventEngine::evaluate_object *)

\* How long evaluations have demanded s without a break, at clock t.
Held(s, t) == IF streak.target = s THEN t - streak.since ELSE 0

Demands(s, t) ==
  streak' = IF streak.target = s THEN streak ELSE [target |-> s, since |-> t]

Tick(t) ==
  /\ phase = "idle"
  /\ now' = t
  /\ UNCHANGED <<object, class, state, bits, must_ack, acks, told>>

\* Detection is off: nothing is demanded, and what is pending stays.
Undetected(t) ==
  /\ ~detect
  /\ Tick(t)
  /\ streak' = NoPending
  /\ gap' = (pending # NoPending)
  /\ UNCHANGED <<pending, phase, desired>>

AtRest(t) ==
  /\ detect /\ Evaluation = state
  /\ Tick(t)
  /\ Demands(state, t)
  /\ pending' = NoPending /\ gap' = FALSE
  /\ UNCHANGED <<phase, desired>>

\* A condition that goes on with the time of the one before.
StartedOnce(t) ==
  [target |-> Evaluation,
   since |-> IF pending = NoPending THEN t ELSE pending.since]

\* The dwell of a condition starts when it is first seen, and again with another.
Started(t) ==
  IF pending.target = Evaluation THEN pending ELSE [target |-> Evaluation, since |-> t]

Dwell(t) ==
  /\ detect /\ Evaluation # state
  /\ t - Started(t).since < DwellFor(Evaluation)
  /\ Tick(t)
  /\ Demands(Evaluation, t)
  /\ pending' = Started(t)
  /\ gap' = (gap /\ pending.target = Evaluation)
  /\ UNCHANGED <<phase, desired>>

AfterDwell(t) == NoPending

Due(t) ==
  /\ detect /\ Evaluation # state
  /\ t - Started(t).since >= DwellFor(Evaluation)
  /\ Tick(t)
  /\ Demands(Evaluation, t)
  /\ pending' = AfterDwell(t) /\ gap' = FALSE
  /\ phase' = "settings"
  /\ desired' = Evaluation

ReadSettings ==
  /\ phase = "settings"
  /\ must_ack' = (Bucket(desired) \in ack_required)
  /\ phase' = "commit"
  /\ UNCHANGED <<object, class, state, bits, now, pending, desired, acks, told, dwelling>>

Notifies(s) == detect /\ Bucket(s) \in enable

\* record_transition
Stamped == stamps' = [stamps EXCEPT ![Bucket(desired)] = now]

\* Event_State and the stamp follow the transition whether or not anyone is told.
Commit ==
  /\ phase = "commit"
  /\ state' = desired
  /\ Stamped
  /\ phase' = IF Notifies(desired) THEN "recipients" ELSE "idle"
  /\ desired' = IF Notifies(desired) THEN desired ELSE NoState
  /\ UNCHANGED <<object, class, acked, now, pending, must_ack, acks, told, dwelling>>

\* An acknowledgement is asked for only if the class requires one and someone is
\* told.
Asks == must_ack /\ Bucket(desired) \in recipients

ReadRecipients ==
  /\ phase = "recipients"
  /\ phase' = IF Asks THEN "await" ELSE "idle"
  /\ desired' = IF Asks THEN desired ELSE NoState
  /\ told' = IF must_ack /\ Bucket(desired) \in recipients
             THEN [told EXCEPT ![Bucket(desired)] = now] ELSE told
  /\ UNCHANGED <<object, class, state, bits, now, pending, must_ack, acks, dwelling>>

\* await_acknowledgement; with it the notifications go to the host.
Await ==
  /\ phase = "await"
  /\ acked' = acked \ {Bucket(desired)}
  /\ phase' = "idle"
  /\ desired' = NoState
  /\ UNCHANGED <<object, class, state, stamps, now, pending, must_ack, acks, told, dwelling>>

Evaluate(t) == Undetected(t) \/ AtRest(t) \/ Dwell(t) \/ Due(t)

Engine ==
  \/ \E step \in Steps : now + step <= MaxClock /\ Evaluate(now + step)
  \/ ReadSettings \/ Commit \/ ReadRecipients \/ Await

-----------------------------------------------------------------------------
(* Acknowledgement *)

\* Any stamp will do.
AnyStamp(b, stamp) == TRUE

\* The stamp must be the one recorded for the transition into the state named.
Names(b, stamp) == stamps[b] = stamp

\* Whether the engine has committed a transition that it has not told yet.
Untold(b) == phase \in {"recipients", "await"} /\ Bucket(desired) = b

\* Every acknowledgement is queued.
Always(b) == TRUE

Awaited(b) == b \notin acked

\* acknowledge_alarm.  A stamp that does not match is an error and changes nothing.
AcknowledgeAlarm(s, stamp) ==
  LET b == Bucket(s) IN
  /\ Names(b, stamp)
  /\ acked' = acked \union {b}
  /\ queue' = IF Awaited(b) THEN Append(queue, b) ELSE queue
  /\ seen' = [seen EXCEPT ![b] = stamp]
  /\ early' = IF Untold(b) /\ stamp = now THEN early \union {stamp} ELSE early
  /\ queued' = IF Awaited(b) THEN queued \union {stamp} ELSE queued
  /\ twice' = IF Awaited(b) /\ stamp \in queued THEN twice \union {stamp} ELSE twice
  /\ UNCHANGED <<object, class, state, stamps, engine, told, dwelling>>

\* take_acknowledgements: the host announces them.
TakeAcknowledgements ==
  /\ queue # <<>>
  /\ queue' = <<>>
  /\ UNCHANGED <<object, class, state, bits, engine, seen, early, queued, twice, told, dwelling>>

-----------------------------------------------------------------------------
(* Clients write the object and its class, one property at a time *)

\* A client changes limits and alarm values; the object stays of its kind.
LimitsLike(kind) == {l \in Limits : l.kind = kind}

WriteObject ==
  /\ \/ value' \in Values /\ UNCHANGED <<limits, faulty, detect, enable, delay>>
     \/ limits' \in LimitsLike(limits.kind) /\ UNCHANGED <<value, faulty, detect, enable, delay>>
     \/ faulty' \in BOOLEAN /\ UNCHANGED <<value, limits, detect, enable, delay>>
     \/ detect' \in BOOLEAN /\ UNCHANGED <<value, limits, faulty, enable, delay>>
     \/ enable' \in Enables /\ UNCHANGED <<value, limits, faulty, detect, delay>>
     \/ delay' \in Delays /\ UNCHANGED <<value, limits, faulty, detect, enable>>
  /\ UNCHANGED <<class, state, bits, engine, acks, told, dwelling>>

WriteClass ==
  /\ \/ ack_required' \in AckRequireds /\ UNCHANGED recipients
     \/ recipients' \in Recipients /\ UNCHANGED ack_required
  /\ UNCHANGED <<object, state, bits, engine, acks, told, dwelling>>

Next ==
  \/ Engine
  \/ \E s \in States, stamp \in 0..now : AcknowledgeAlarm(s, stamp)
  \/ TakeAcknowledgements
  \/ WriteObject
  \/ WriteClass

Spec == Init /\ [][Next]_vars

-----------------------------------------------------------------------------
(* Properties *)

\* No acknowledgement of an earlier alarm clears a later one: a transition whose
\* recipients were asked to acknowledge it stays unacknowledged, from the end of
\* its tick, until it or a later one into its bucket is acknowledged by its own
\* stamp.
AlarmsAreSeen ==
  \A b \in acked : told[b] <= seen[b] \/ (phase = "await" /\ Bucket(desired) = b)

\* "Only a notification that was actually transmitted can be acknowledged": what
\* awaits acknowledgement was told to someone who was asked for it, and has not
\* been acknowledged since.
OnlyToldAreAwaited ==
  \A b \in Buckets \ acked : told[b] > 0 /\ (seen[b] < told[b] \/ told[b] \in early)

\* "A repeated acknowledgement cannot notify twice", unless it was made of a
\* transition that was committed and not yet told.
AnnouncedOnce == twice \subseteq early

\* An acknowledgement is awaited for what was told, and announced once.
AcknowledgedOnce == OnlyToldAreAwaited /\ AnnouncedOnce

\* "A transition only commits once the condition has held for the object's
\* Time_Delay", unless detection was off in between, and no later.
CommitsWhenHeld ==
  [][\A t \in 0..MaxClock :
       /\ Due(t) => Held(desired', t) >= DwellFor(desired') \/ gap
       /\ Dwell(t) => Held(pending'.target, t) < DwellFor(pending'.target)]_vars

=============================================================================
