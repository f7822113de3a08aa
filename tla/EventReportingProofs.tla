------------------------- MODULE EventReportingProofs -------------------------
(***************************************************************************)
(* Proofs about EventReporting, for objects of any kind, any values,       *)
(* limits, delays, masks and recipients, and for any number of ticks and   *)
(* of acknowledging clients.                                               *)
(*                                                                         *)
(* AlarmInv carries the alarms: the stamps of a bucket only grow, a        *)
(* transition is told under the stamp it was committed with, and what is   *)
(* outstanding was told no earlier than the last acknowledgement of its    *)
(* bucket.  DwellInv carries the delays: unless detection was found off,   *)
(* what is pending is what evaluations have demanded without a break.      *)
(***************************************************************************)
EXTENDS EventReporting, TLAPS

\* The transition that a tick is at, once it is committed.
Committed == phase \in {"recipients", "await"}

AlarmInv ==
  /\ AlarmsAreSeen /\ AnnouncedOnce
  /\ \A b \in Buckets \ acked :
       told[b] > 0 /\ seen[b] <= told[b] /\ (seen[b] = told[b] => told[b] \in early)
  /\ \A b \in Buckets :
       /\ stamps[b] <= now /\ told[b] <= stamps[b] /\ seen[b] <= stamps[b]
       /\ phase \in {"settings", "commit"} => stamps[b] < now
  /\ \A b, d \in Buckets : stamps[b] = stamps[d] /\ stamps[b] > 0 => b = d
  /\ \A s \in queued :
       /\ 0 < s /\ s <= now
       /\ phase \in {"settings", "commit"} => s < now
       /\ \A b \in Buckets : stamps[b] = s => seen[b] = s
  /\ phase # "idle" => now > 0
  /\ Committed =>
       /\ stamps[Bucket(desired)] = now
       /\ seen[Bucket(desired)] = now => now \in early
  /\ phase = "await" => told[Bucket(desired)] = now

DwellInv ==
  /\ IF phase # "idle" THEN streak.target = desired
     ELSE IF pending = NoPending THEN streak.target \in {state, NoState}
     ELSE /\ streak.target \in {pending.target, NoState}
          /\ streak.target # NoState => pending.since <= streak.since
          /\ ~gap => streak = pending
  /\ Committed => state = desired
  /\ streak.since <= now

-----------------------------------------------------------------------------
LEMMA BucketTyped ==
  ASSUME NEW s
  PROVE  Bucket(s) \in Buckets
  BY DEF Bucket, Buckets

LEMMA EvaluationTyped == Evaluation \in States
  BY DEF Evaluation, OutOfRange, BinaryChange, MultistateChange, States

LEMMA NoStateIsNone == NoState \notin States
  BY DEF NoState, States

\* A tick moves the clock on.
LEMMA ClockMoves ==
  ASSUME TypeOK, NEW step \in Steps
  PROVE  now + step \in Nat /\ now < now + step
<1>1. now \in Nat /\ step \in Nat \ {0}
  BY ClockAssumption DEF TypeOK
<1>. QED  BY <1>1

LEMMA StartedTyped ==
  ASSUME TypeOK, NEW t \in Nat, now < t, Evaluation # state
  PROVE  /\ Started(t) \in Pendings
         /\ Started(t).target = Evaluation
         /\ Started(t).since <= t
<1>1. Evaluation \in States
  BY EvaluationTyped
<1>2. pending \in Pendings /\ pending.since <= now /\ pending.since \in Nat /\ now \in Nat
  BY DEF TypeOK, Pendings
<1>3. CASE pending.target = Evaluation
  BY <1>2, <1>3 DEF Started
<1>4. CASE pending.target # Evaluation
  BY <1>1, <1>4 DEF Started, Pendings
<1>. QED  BY <1>3, <1>4

LEMMA DemandTyped ==
  ASSUME TypeOK, NEW t \in Nat, NEW s \in States, Demands(s, t)
  PROVE  streak' \in Pendings
  BY DEF TypeOK, Demands, Pendings

-----------------------------------------------------------------------------
(* The shape of the state *)

\* The variables that only clients write.
Written ==
  /\ value \in Values /\ limits \in Limits /\ faulty \in BOOLEAN /\ detect \in BOOLEAN
  /\ enable \subseteq Buckets /\ delay \in [away : Nat, back : Nat]
  /\ ack_required \subseteq Buckets /\ recipients \subseteq Buckets

LEMMA TypeInit == Init => TypeOK
<1>. SUFFICES ASSUME Init PROVE TypeOK
  OBVIOUS
<1>1. Written
  BY ReportingAssumption DEF Init, Written
<1>2. state \in States /\ pending \in Pendings /\ streak \in Pendings /\ desired = NoState
      /\ pending.target # state /\ pending.since <= now /\ phase = "idle"
  BY NoStateIsNone DEF Init, Pendings, NoPending, States, NoState
<1>3. queue \in Seq(Buckets)
  BY DEF Init
<1>4. stamps \in [Buckets -> Nat] /\ told \in [Buckets -> Nat] /\ seen \in [Buckets -> Nat]
  BY DEF Init
<1>5. now \in Nat /\ must_ack \in BOOLEAN /\ gap \in BOOLEAN /\ acked \subseteq Buckets
      /\ early \subseteq Nat /\ queued \subseteq Nat /\ twice \subseteq Nat
  BY DEF Init
<1>. QED  BY <1>1, <1>2, <1>3, <1>4, <1>5 DEF TypeOK, Written

LEMMA TypeEvaluate ==
  ASSUME TypeOK, NEW step \in Steps, Evaluate(now + step)
  PROVE  TypeOK'
<1>. DEFINE t == now + step
<1>1. t \in Nat /\ now < t
  BY ClockMoves
<1>2. /\ phase = "idle" /\ now' = t
      /\ UNCHANGED <<object, class, state, bits, must_ack, acks, told>>
  BY DEF Evaluate, Undetected, AtRest, Dwell, Due, Tick
<1>3. Written'
  BY <1>2 DEF TypeOK, Written, object, class
<1>4. /\ state' \in States /\ acked' \subseteq Buckets /\ stamps' \in [Buckets -> Nat]
      /\ must_ack' \in BOOLEAN /\ queue' \in Seq(Buckets)
      /\ told' \in [Buckets -> Nat] /\ seen' \in [Buckets -> Nat]
      /\ early' \subseteq Nat /\ queued' \subseteq Nat /\ twice' \subseteq Nat
  BY <1>2 DEF TypeOK, bits, acks
<1>5. /\ streak' \in Pendings /\ gap' \in BOOLEAN
      /\ pending' \in Pendings /\ pending'.target # state' /\ pending'.since <= now'
      /\ phase' \in {"idle", "settings"} /\ desired' \in States \union {NoState}
      /\ phase' # "idle" => desired' # NoState /\ pending' = NoPending
  <2>0. NoPending \in Pendings /\ NoPending.target # state /\ NoPending.since <= t
        /\ pending \in Pendings /\ pending.target # state /\ pending.since <= t
        /\ gap \in BOOLEAN /\ desired \in States \union {NoState} /\ state \in States
    BY <1>1, NoStateIsNone DEF TypeOK, NoPending, Pendings
  <2>1. CASE Undetected(t)
    BY <1>2, <2>0, <2>1 DEF Undetected
  <2>2. CASE AtRest(t)
    <3>1. streak' \in Pendings
      BY <1>1, <2>0, <2>2, DemandTyped DEF AtRest
    <3>. QED  BY <1>2, <2>0, <2>2, <3>1 DEF AtRest
  <2>3. CASE Dwell(t)
    <3>1. streak' \in Pendings
      BY <1>1, <2>3, DemandTyped, EvaluationTyped DEF Dwell
    <3>2. Started(t) \in Pendings /\ Started(t).target = Evaluation /\ Started(t).since <= t
      BY <1>1, <2>3, StartedTyped DEF Dwell
    <3>3. gap' \in BOOLEAN
      BY <2>3 DEF Dwell
    <3>. QED  BY <1>2, <2>0, <2>3, <3>1, <3>2, <3>3 DEF Dwell
  <2>4. CASE Due(t)
    <3>1. streak' \in Pendings
      BY <1>1, <2>4, DemandTyped, EvaluationTyped DEF Due
    <3>2. Evaluation \in States /\ Evaluation # NoState
      BY EvaluationTyped, NoStateIsNone
    <3>. QED  BY <1>2, <2>0, <2>4, <3>1, <3>2 DEF Due, AfterDwell
  <2>. QED  BY <2>1, <2>2, <2>3, <2>4 DEF Evaluate
<1>. QED  BY <1>1, <1>2, <1>3, <1>4, <1>5 DEF TypeOK, Written

LEMMA TypeWalk ==
  ASSUME TypeOK, ReadSettings \/ Commit \/ ReadRecipients \/ Await
  PROVE  TypeOK'
<1>1. /\ UNCHANGED <<object, class, now, pending, dwelling, acks>>
      /\ pending = NoPending /\ desired # NoState /\ desired \in States
  BY DEF ReadSettings, Commit, ReadRecipients, Await, TypeOK
<1>2. Written'
  BY <1>1 DEF TypeOK, Written, object, class
<1>3. /\ now' \in Nat /\ pending' \in Pendings /\ pending'.since <= now'
      /\ queue' \in Seq(Buckets) /\ seen' \in [Buckets -> Nat]
      /\ early' \subseteq Nat /\ queued' \subseteq Nat /\ twice' \subseteq Nat
      /\ streak' \in Pendings /\ gap' \in BOOLEAN /\ pending' = NoPending
  BY <1>1 DEF TypeOK, dwelling, acks
<1>4. /\ state' \in States /\ acked' \subseteq Buckets /\ must_ack' \in BOOLEAN
      /\ desired' \in {desired, NoState}
      /\ phase' \in {"idle", "commit", "recipients", "await"}
      /\ phase' # "idle" => desired' = desired
  <2>1. must_ack' \in BOOLEAN
    <3>1. CASE ReadSettings
      BY <3>1 DEF ReadSettings
    <3>2. CASE Commit \/ ReadRecipients \/ Await
      <4>1. UNCHANGED must_ack
        BY <3>2 DEF Commit, ReadRecipients, Await
      <4>. QED  BY <4>1 DEF TypeOK
    <3>. QED  BY <3>1, <3>2
  <2>2. state' \in States /\ acked' \subseteq Buckets
    BY <1>1 DEF ReadSettings, Commit, ReadRecipients, Await, TypeOK, bits
  <2>3. /\ desired' \in {desired, NoState}
        /\ phase' \in {"idle", "commit", "recipients", "await"}
        /\ phase' # "idle" => desired' = desired
    BY <1>1 DEF ReadSettings, Commit, ReadRecipients, Await
  <2>. QED  BY <2>1, <2>2, <2>3
<1>5. stamps' \in [Buckets -> Nat] /\ told' \in [Buckets -> Nat]
  BY BucketTyped DEF ReadSettings, Commit, ReadRecipients, Await, Stamped, TypeOK, bits
<1>6. pending'.target # state'
  BY <1>3, <1>4, NoStateIsNone DEF NoPending
<1>. QED  BY <1>1, <1>2, <1>3, <1>4, <1>5, <1>6 DEF TypeOK, Written

LEMMA TypeClients ==
  ASSUME TypeOK,
         \/ \E s \in States, stamp \in 0..now : AcknowledgeAlarm(s, stamp)
         \/ TakeAcknowledgements \/ WriteObject \/ WriteClass
  PROVE  TypeOK'
<1>1. CASE \E s \in States, stamp \in 0..now : AcknowledgeAlarm(s, stamp)
  <2>1. PICK s \in States, stamp \in 0..now : AcknowledgeAlarm(s, stamp)
    BY <1>1
  <2>2. stamp \in Nat /\ Bucket(s) \in Buckets
    BY BucketTyped DEF TypeOK
  <2>3. Written' /\ UNCHANGED <<state, stamps, engine, told, dwelling>>
    BY <2>1 DEF AcknowledgeAlarm, TypeOK, Written, object, class
  <2>4. queue' \in Seq(Buckets)
    BY <2>1, <2>2 DEF AcknowledgeAlarm, TypeOK
  <2>5. /\ acked' \subseteq Buckets /\ seen' \in [Buckets -> Nat]
        /\ early' \subseteq Nat /\ queued' \subseteq Nat /\ twice' \subseteq Nat
    BY <2>1, <2>2 DEF AcknowledgeAlarm, TypeOK
  <2>. QED  BY <2>3, <2>4, <2>5 DEF TypeOK, Written, engine, dwelling
<1>2. CASE TakeAcknowledgements
  <2>1. queue' \in Seq(Buckets)
    BY <1>2 DEF TakeAcknowledgements
  <2>. QED  BY <1>2, <2>1 DEF TakeAcknowledgements, TypeOK, object, class, bits, engine, dwelling
<1>3. CASE WriteObject \/ WriteClass
  <2>1. UNCHANGED <<state, bits, engine, acks, told, dwelling>>
    BY <1>3 DEF WriteObject, WriteClass
  <2>2. Written'
    BY <1>3, ReportingAssumption
    DEF WriteObject, LimitsLike, WriteClass, TypeOK, Written, object, class
  <2>. QED  BY <2>1, <2>2 DEF TypeOK, Written, bits, engine, acks, dwelling
<1>. QED  BY <1>1, <1>2, <1>3

\* The object, its class, the engine and the histories keep their shape.
THEOREM TypeCorrect == Spec => []TypeOK
<1>1. TypeOK /\ [Next]_vars => TypeOK'
  <2>1. SUFFICES ASSUME TypeOK, [Next]_vars PROVE TypeOK'
    OBVIOUS
  <2>2. CASE \E step \in Steps : now + step <= MaxClock /\ Evaluate(now + step)
    BY <2>1, <2>2, TypeEvaluate
  <2>3. CASE ReadSettings \/ Commit \/ ReadRecipients \/ Await
    BY <2>1, <2>3, TypeWalk
  <2>4. CASE \/ \E s \in States, stamp \in 0..now : AcknowledgeAlarm(s, stamp)
             \/ TakeAcknowledgements \/ WriteObject \/ WriteClass
    BY <2>1, <2>4, TypeClients
  <2>5. CASE UNCHANGED vars
    BY <2>1, <2>5 DEF TypeOK, vars, object, class, bits, engine, acks, dwelling
  <2>. QED  BY <2>1, <2>2, <2>3, <2>4, <2>5 DEF Next, Engine
<1>. QED  BY <1>1, TypeInit, PTL DEF Spec

-----------------------------------------------------------------------------
(* Alarms *)

\* What the history of alarms is about; the object and its class, the delays and
\* the queue are not.
alarms == <<acked, stamps, now, phase, desired, told, seen, early, queued, twice>>

LEMMA AlarmStutter ==
  ASSUME AlarmInv, UNCHANGED alarms
  PROVE  AlarmInv'
  BY DEF AlarmInv, alarms, AlarmsAreSeen, AnnouncedOnce, Committed

LEMMA AlarmEvaluate ==
  ASSUME TypeOK, AlarmInv, NEW step \in Steps, Evaluate(now + step)
  PROVE  AlarmInv'
<1>1. now + step \in Nat /\ now < now + step /\ now \in Nat
  BY ClockMoves DEF TypeOK
<1>2. /\ phase = "idle" /\ now' = now + step /\ phase' \in {"idle", "settings"}
      /\ UNCHANGED <<acked, stamps, told, seen, early, queued, twice>>
  BY DEF Evaluate, Undetected, AtRest, Dwell, Due, Tick, bits, acks
<1>3. \A b \in Buckets : stamps[b] \in Nat /\ told[b] \in Nat /\ seen[b] \in Nat
  BY DEF TypeOK
<1>4. AlarmsAreSeen' /\ AnnouncedOnce'
  BY <1>2 DEF AlarmInv, AlarmsAreSeen, AnnouncedOnce
<1>5. \A b \in Buckets :
        /\ stamps'[b] <= now' /\ told'[b] <= stamps'[b] /\ seen'[b] <= stamps'[b]
        /\ stamps'[b] < now'
  BY <1>1, <1>2, <1>3 DEF AlarmInv
<1>6. \A s \in queued' : 0 < s /\ s < now' /\ s <= now'
  BY <1>1, <1>2 DEF AlarmInv, TypeOK
<1>7. now' > 0
  BY <1>1, <1>2
<1>. QED  BY <1>2, <1>4, <1>5, <1>6, <1>7 DEF AlarmInv, Committed

LEMMA AlarmWalk ==
  ASSUME TypeOK, AlarmInv, ReadSettings \/ Commit \/ ReadRecipients \/ Await
  PROVE  AlarmInv'
<1>. DEFINE d == Bucket(desired)
<1>t. /\ d \in Buckets /\ now \in Nat /\ acked \subseteq Buckets
      /\ stamps \in [Buckets -> Nat] /\ told \in [Buckets -> Nat] /\ seen \in [Buckets -> Nat]
      /\ queued \subseteq Nat
  BY BucketTyped DEF TypeOK
<1>u. UNCHANGED <<now, seen, early, queued, twice>> /\ AnnouncedOnce'
  BY DEF ReadSettings, Commit, ReadRecipients, Await, acks, AlarmInv, AnnouncedOnce
<1>1. CASE ReadSettings
  <2>1. phase = "settings" /\ phase' = "commit" /\ UNCHANGED <<acked, stamps, told, desired>>
    BY <1>1 DEF ReadSettings, bits
  <2>. QED  BY <1>u, <2>1 DEF AlarmInv, AlarmsAreSeen, Committed
<1>2. CASE Commit
  <2>1. /\ phase = "commit" /\ phase' \in {"idle", "recipients"}
        /\ stamps' = [stamps EXCEPT ![d] = now]
        /\ phase' = "recipients" => desired' = desired
        /\ UNCHANGED <<acked, told>>
    BY <1>2 DEF Commit, Stamped
  <2>2. \A b \in Buckets : stamps'[b] = IF b = d THEN now ELSE stamps[b]
    BY <1>t, <2>1
  <2>3. \A b \in Buckets : stamps[b] < now /\ told[b] <= stamps[b] /\ seen[b] <= stamps[b]
    BY <2>1 DEF AlarmInv
  <2>4. AlarmsAreSeen'
    BY <1>u, <2>1 DEF AlarmInv, AlarmsAreSeen
  <2>5. \A b \in Buckets : stamps'[b] <= now /\ told[b] <= stamps'[b] /\ seen[b] <= stamps'[b]
    BY <1>t, <2>2, <2>3
  <2>6. \A b, c \in Buckets : stamps'[b] = stamps'[c] /\ stamps'[b] > 0 => b = c
    BY <1>t, <2>2, <2>3 DEF AlarmInv
  <2>7. \A s \in queued : s < now /\ \A b \in Buckets : stamps'[b] = s => seen[b] = s
    BY <1>t, <2>1, <2>2 DEF AlarmInv
  <2>8. seen[d] # now /\ stamps'[d] = now /\ now > 0
    BY <1>t, <2>1, <2>2, <2>3 DEF AlarmInv
  <2>. QED  BY <1>u, <2>1, <2>4, <2>5, <2>6, <2>7, <2>8 DEF AlarmInv, Committed
<1>3. CASE ReadRecipients
  <2>1. phase = "recipients" /\ UNCHANGED <<acked, stamps>>
    BY <1>3 DEF ReadRecipients, bits
  <2>2. /\ stamps[d] = now /\ now > 0 /\ (seen[d] = now => now \in early)
        /\ \A b \in acked : told[b] <= seen[b]
    BY <2>1 DEF AlarmInv, Committed, AlarmsAreSeen
  <2>3. CASE ~Asks
    <3>1. phase' = "idle" /\ UNCHANGED told
      BY <1>3, <2>3 DEF ReadRecipients, Asks
    <3>. QED  BY <1>u, <2>1, <2>2, <3>1 DEF AlarmInv, AlarmsAreSeen, Committed
  <2>4. CASE Asks
    <3>1. /\ phase' = "await" /\ desired' = desired
          /\ told' = [told EXCEPT ![d] = now]
      BY <1>3, <2>4 DEF ReadRecipients, Asks
    <3>2. \A b \in Buckets : told'[b] = IF b = d THEN now ELSE told[b]
      BY <1>t, <3>1
    <3>3. AlarmsAreSeen'
      BY <1>t, <1>u, <2>1, <2>2, <3>1, <3>2 DEF AlarmsAreSeen
    <3>4. \A b \in Buckets \ acked :
            told'[b] > 0 /\ seen[b] <= told'[b] /\ (seen[b] = told'[b] => told'[b] \in early)
      BY <1>t, <2>2, <3>2 DEF AlarmInv
    <3>5. \A b \in Buckets : told'[b] <= stamps[b]
      BY <1>t, <2>2, <3>2 DEF AlarmInv
    <3>. QED  BY <1>t, <1>u, <2>1, <2>2, <3>1, <3>2, <3>3, <3>4, <3>5 DEF AlarmInv, Committed
  <2>. QED  BY <2>3, <2>4
<1>4. CASE Await
  <2>1. /\ phase = "await" /\ phase' = "idle" /\ acked' = acked \ {d}
        /\ UNCHANGED <<stamps, told>>
    BY <1>4 DEF Await
  <2>2. told[d] = now /\ stamps[d] = now /\ now > 0 /\ (seen[d] = now => now \in early)
    BY <2>1 DEF AlarmInv, Committed
  <2>3. AlarmsAreSeen'
    BY <1>u, <2>1 DEF AlarmInv, AlarmsAreSeen
  <2>4. \A b \in Buckets \ acked' :
          told[b] > 0 /\ seen[b] <= told[b] /\ (seen[b] = told[b] => told[b] \in early)
    BY <1>t, <2>1, <2>2 DEF AlarmInv
  <2>. QED  BY <1>u, <2>1, <2>3, <2>4 DEF AlarmInv, Committed
<1>. QED  BY <1>1, <1>2, <1>3, <1>4

LEMMA AlarmAcknowledge ==
  ASSUME TypeOK, AlarmInv, NEW s \in States, NEW stamp \in 0..now, AcknowledgeAlarm(s, stamp)
  PROVE  AlarmInv'
<1>. DEFINE b == Bucket(s)
<1>t. /\ b \in Buckets /\ now \in Nat /\ acked \subseteq Buckets /\ stamp \in Nat
      /\ stamps \in [Buckets -> Nat] /\ told \in [Buckets -> Nat] /\ seen \in [Buckets -> Nat]
      /\ queued \subseteq Nat
  BY BucketTyped DEF TypeOK
<1>1. /\ stamps[b] = stamp /\ acked' = acked \union {b}
      /\ seen' = [seen EXCEPT ![b] = stamp]
      /\ early' = IF Untold(b) /\ stamp = now THEN early \union {stamp} ELSE early
      /\ queued' = IF Awaited(b) THEN queued \union {stamp} ELSE queued
      /\ twice' = IF Awaited(b) /\ stamp \in queued THEN twice \union {stamp} ELSE twice
      /\ UNCHANGED <<stamps, now, phase, desired, told>>
  BY DEF AcknowledgeAlarm, Names, engine
<1>2. \A d \in Buckets : seen'[d] = IF d = b THEN stamp ELSE seen[d]
  BY <1>t, <1>1
<1>3. early \subseteq early'
  BY <1>1
<1>4. AlarmsAreSeen'
  BY <1>t, <1>1, <1>2 DEF AlarmInv, AlarmsAreSeen
<1>5. AnnouncedOnce'
  <2>1. CASE Awaited(b) /\ stamp \in queued
    <3>1. seen[b] = stamp /\ seen[b] <= told[b] /\ told[b] <= stamps[b]
          /\ (seen[b] = told[b] => told[b] \in early)
      BY <1>t, <1>1, <2>1 DEF AlarmInv, Awaited
    <3>2. stamp \in early
      BY <1>t, <1>1, <3>1
    <3>. QED  BY <1>1, <1>3, <3>2 DEF AlarmInv, AnnouncedOnce
  <2>2. CASE ~(Awaited(b) /\ stamp \in queued)
    BY <1>1, <1>3, <2>2 DEF AlarmInv, AnnouncedOnce
  <2>. QED  BY <2>1, <2>2
<1>6. \A d \in Buckets \ acked' :
        told[d] > 0 /\ seen'[d] <= told[d] /\ (seen'[d] = told[d] => told[d] \in early')
  BY <1>t, <1>1, <1>2, <1>3 DEF AlarmInv
<1>7. \A d \in Buckets : seen'[d] <= stamps[d]
  BY <1>t, <1>1, <1>2 DEF AlarmInv
<1>8. \A q \in queued' :
        /\ 0 < q /\ q <= now
        /\ phase \in {"settings", "commit"} => q < now
        /\ \A d \in Buckets : stamps[d] = q => seen'[d] = q
  <2>. SUFFICES ASSUME NEW q \in queued'
                PROVE  /\ 0 < q /\ q <= now
                       /\ phase \in {"settings", "commit"} => q < now
                       /\ \A d \in Buckets : stamps[d] = q => seen'[d] = q
    OBVIOUS
  <2>1. CASE q \in queued
    BY <1>t, <1>1, <1>2, <2>1 DEF AlarmInv
  <2>2. CASE q \notin queued
    <3>1. q = stamp /\ b \notin acked
      BY <1>1, <2>2 DEF Awaited
    <3>2. 0 < stamp /\ stamp <= now /\ (phase \in {"settings", "commit"} => stamp < now)
      <4>1. told[b] > 0 /\ told[b] <= stamps[b]
        BY <1>t, <3>1 DEF AlarmInv
      <4>2. stamps[b] <= now /\ (phase \in {"settings", "commit"} => stamps[b] < now)
        BY <1>t DEF AlarmInv
      <4>. QED  BY <1>t, <1>1, <4>1, <4>2
    <3>3. \A d \in Buckets : stamps[d] = stamp => d = b
      BY <1>t, <1>1, <3>2 DEF AlarmInv
    <3>. QED  BY <1>2, <3>1, <3>2, <3>3
  <2>. QED  BY <2>1, <2>2
<1>9. Committed =>
        /\ stamps[Bucket(desired)] = now
        /\ seen'[Bucket(desired)] = now => now \in early'
  <2>. SUFFICES ASSUME Committed
                PROVE  /\ stamps[Bucket(desired)] = now
                       /\ seen'[Bucket(desired)] = now => now \in early'
    OBVIOUS
  <2>1. Bucket(desired) \in Buckets
    BY BucketTyped
  <2>2. stamps[Bucket(desired)] = now /\ (seen[Bucket(desired)] = now => now \in early)
    BY DEF AlarmInv
  <2>3. CASE Bucket(desired) = b
    <3>1. Untold(b)
      BY <2>3 DEF Untold, Committed
    <3>. QED  BY <1>1, <2>2, <2>3, <3>1
  <2>4. CASE Bucket(desired) # b
    BY <1>2, <1>3, <2>1, <2>2, <2>4
  <2>. QED  BY <2>3, <2>4
<1>. QED  BY <1>1, <1>4, <1>5, <1>6, <1>7, <1>8, <1>9 DEF AlarmInv, Committed

LEMMA AlarmNext ==
  ASSUME TypeOK, AlarmInv, [Next]_vars
  PROVE  AlarmInv'
<1>1. CASE \E step \in Steps : now + step <= MaxClock /\ Evaluate(now + step)
  BY <1>1, AlarmEvaluate
<1>2. CASE ReadSettings \/ Commit \/ ReadRecipients \/ Await
  BY <1>2, AlarmWalk
<1>3. CASE \E s \in States, stamp \in 0..now : AcknowledgeAlarm(s, stamp)
  BY <1>3, AlarmAcknowledge
<1>4. CASE TakeAcknowledgements \/ WriteObject \/ WriteClass \/ UNCHANGED vars
  <2>1. UNCHANGED alarms
    BY <1>4 DEF TakeAcknowledgements, WriteObject, WriteClass, vars, bits, engine, acks, alarms
  <2>. QED  BY <2>1, AlarmStutter
<1>. QED  BY <1>1, <1>2, <1>3, <1>4 DEF Next, Engine

THEOREM AlarmsAccounted == Spec => []AlarmInv
<1>1. Init => AlarmInv
  <2>. SUFFICES ASSUME Init PROVE AlarmInv
    OBVIOUS
  <2>1. /\ acked = Buckets /\ phase = "idle" /\ now = 0
        /\ early = {} /\ queued = {} /\ twice = {}
        /\ \A b \in Buckets : stamps[b] = 0 /\ told[b] = 0 /\ seen[b] = 0
    BY DEF Init
  <2>. QED  BY <2>1 DEF AlarmInv, AlarmsAreSeen, AnnouncedOnce, Committed
<1>. QED  BY <1>1, TypeCorrect, AlarmNext, PTL DEF Spec

\* No acknowledgement of an earlier alarm clears a later one that was told.
THEOREM NoAlarmIsCleared == Spec => []AlarmsAreSeen
<1>1. AlarmInv => AlarmsAreSeen
  BY DEF AlarmInv
<1>. QED  BY <1>1, AlarmsAccounted, PTL

\* What awaits acknowledgement was told to someone who was asked for it.
THEOREM OnlyToldAwait == Spec => []OnlyToldAreAwaited
<1>1. TypeOK /\ AlarmInv => OnlyToldAreAwaited
  <2>. SUFFICES ASSUME TypeOK, AlarmInv, NEW b \in Buckets \ acked
                PROVE  told[b] > 0 /\ (seen[b] < told[b] \/ told[b] \in early)
    BY DEF OnlyToldAreAwaited
  <2>1. told[b] \in Nat /\ seen[b] \in Nat
    BY DEF TypeOK
  <2>2. told[b] > 0 /\ seen[b] <= told[b] /\ (seen[b] = told[b] => told[b] \in early)
    BY DEF AlarmInv
  <2>. QED  BY <2>1, <2>2
<1>. QED  BY <1>1, TypeCorrect, AlarmsAccounted, PTL

\* A transition is announced as acknowledged at most once, unless it was
\* acknowledged before it was told.
THEOREM RepeatsAreSilent == Spec => []AnnouncedOnce
<1>1. AlarmInv => AnnouncedOnce
  BY DEF AlarmInv
<1>. QED  BY <1>1, AlarmsAccounted, PTL

-----------------------------------------------------------------------------
(* Delays *)

LEMMA DwellEvaluate ==
  ASSUME TypeOK, DwellInv, NEW step \in Steps, Evaluate(now + step)
  PROVE  DwellInv'
<1>. DEFINE t == now + step
<1>1. t \in Nat /\ now < t /\ now \in Nat
  BY ClockMoves DEF TypeOK
<1>2. phase = "idle" /\ now' = t /\ state' = state
  BY DEF Evaluate, Undetected, AtRest, Dwell, Due, Tick
<1>3. /\ streak \in Pendings /\ streak.since \in Nat /\ streak.since <= now
      /\ pending \in Pendings /\ pending.since \in Nat /\ pending.since <= now
      /\ pending.target # state /\ state \in States
  BY DEF TypeOK, DwellInv, Pendings
<1>4. Evaluation \in States /\ NoState \notin States
  BY EvaluationTyped, NoStateIsNone
<1>5. /\ pending = NoPending => streak.target \in {state, NoState}
      /\ pending # NoPending =>
           /\ streak.target \in {pending.target, NoState}
           /\ streak.target # NoState => pending.since <= streak.since
           /\ ~gap => streak = pending
  BY <1>2 DEF DwellInv
<1>6. CASE Undetected(t)
  <2>1. /\ streak' = NoPending /\ gap' = (pending # NoPending) /\ pending' = pending
        /\ phase' = "idle"
    BY <1>2, <1>6 DEF Undetected
  <2>2. NoPending.target = NoState /\ NoPending.since = 0
    BY DEF NoPending
  <2>3. streak'.since <= now'
    BY <1>1, <1>2, <2>1, <2>2
  <2>4. pending' # NoPending => gap'
    BY <2>1
  <2>. QED  BY <1>2, <2>1, <2>2, <2>3, <2>4 DEF DwellInv, Committed
<1>7. CASE AtRest(t)
  <2>1. /\ pending' = NoPending /\ phase' = "idle" /\ Demands(state, t)
    BY <1>2, <1>7 DEF AtRest
  <2>2. streak'.target = state /\ streak'.since <= t
    BY <1>1, <1>3, <2>1 DEF Demands
  <2>. QED  BY <1>2, <2>1, <2>2 DEF DwellInv, Committed
<1>8. CASE Dwell(t)
  <2>1. /\ Evaluation # state /\ pending' = Started(t) /\ phase' = "idle"
        /\ Demands(Evaluation, t)
        /\ gap' = (gap /\ pending.target = Evaluation)
    BY <1>2, <1>8 DEF Dwell
  <2>2. streak'.target = Evaluation /\ streak'.since <= t
    BY <1>1, <1>3, <2>1 DEF Demands
  <2>3. pending'.target = Evaluation
    BY <1>1, <2>1, StartedTyped
  <2>4. /\ pending'.since <= streak'.since
        /\ ~gap' => streak' = pending'
    <3>1. CASE pending.target = Evaluation
      <4>1. pending' = pending /\ pending # NoPending /\ (~gap' => ~gap)
        <5>1. pending' = pending /\ pending # NoPending
          BY <1>4, <2>1, <3>1 DEF Started, NoPending
        <5>2. ~gap' => ~gap
          BY <2>1, <3>1, Zenon
        <5>. QED  BY <5>1, <5>2
      <4>2. CASE streak.target = Evaluation
        <5>1. streak' = streak
          BY <2>1, <4>2 DEF Demands
        <5>. QED  BY <1>4, <1>5, <4>1, <4>2, <5>1
      <4>3. CASE streak.target # Evaluation
        <5>1. streak' = [target |-> Evaluation, since |-> t] /\ gap /\ streak'.since = t
          BY <1>5, <2>1, <3>1, <4>1, <4>3 DEF Demands
        <5>. QED  BY <1>1, <1>3, <2>1, <3>1, <4>1, <5>1
      <4>. QED  BY <4>2, <4>3
    <3>2. CASE pending.target # Evaluation
      <4>1. streak.target # Evaluation
        BY <1>4, <1>5, <2>1, <3>2
      <4>2. streak' = [target |-> Evaluation, since |-> t]
            /\ pending' = [target |-> Evaluation, since |-> t]
        BY <2>1, <3>2, <4>1 DEF Demands, Started
      <4>. QED  BY <1>1, <4>2
    <3>. QED  BY <3>1, <3>2
  <2>5. pending' # NoPending
    BY <1>4, <2>3 DEF NoPending
  <2>. QED  BY <1>2, <2>1, <2>2, <2>3, <2>4, <2>5 DEF DwellInv, Committed
<1>9. CASE Due(t)
  <2>1. phase' = "settings" /\ desired' = Evaluation /\ Demands(Evaluation, t)
    BY <1>9 DEF Due
  <2>2. streak'.target = Evaluation /\ streak'.since <= t
    BY <1>1, <1>3, <2>1 DEF Demands
  <2>. QED  BY <1>2, <2>1, <2>2 DEF DwellInv, Committed
<1>. QED  BY <1>6, <1>7, <1>8, <1>9 DEF Evaluate

LEMMA DwellNext ==
  ASSUME TypeOK, DwellInv, [Next]_vars
  PROVE  DwellInv'
<1>1. CASE \E step \in Steps : now + step <= MaxClock /\ Evaluate(now + step)
  BY <1>1, DwellEvaluate
<1>2. CASE ReadSettings \/ Commit \/ ReadRecipients \/ Await
  <2>1. /\ phase \in {"settings", "commit", "recipients", "await"}
        /\ UNCHANGED <<now, pending, streak, gap>>
        /\ pending = NoPending /\ desired # NoState
    BY <1>2 DEF ReadSettings, Commit, ReadRecipients, Await, dwelling, TypeOK
  <2>2. streak.target = desired /\ (Committed => state = desired) /\ streak.since <= now
    BY <2>1 DEF DwellInv
  <2>3. CASE ReadSettings
    BY <2>1, <2>2, <2>3 DEF ReadSettings, DwellInv, Committed
  <2>4. CASE Commit
    BY <2>1, <2>2, <2>4 DEF Commit, DwellInv, Committed
  <2>5. CASE ReadRecipients
    BY <2>1, <2>2, <2>5 DEF ReadRecipients, DwellInv, Committed
  <2>6. CASE Await
    BY <2>1, <2>2, <2>6 DEF Await, DwellInv, Committed
  <2>. QED  BY <1>2, <2>3, <2>4, <2>5, <2>6
<1>3. CASE \/ \E s \in States, stamp \in 0..now : AcknowledgeAlarm(s, stamp)
           \/ TakeAcknowledgements \/ WriteObject \/ WriteClass \/ UNCHANGED vars
  <2>1. UNCHANGED <<state, engine, dwelling>>
    BY <1>3 DEF AcknowledgeAlarm, TakeAcknowledgements, WriteObject, WriteClass, vars
  <2>. QED  BY <2>1 DEF DwellInv, Committed, engine, dwelling
<1>. QED  BY <1>1, <1>2, <1>3 DEF Next, Engine

\* A transition commits once its condition has been demanded by every evaluation
\* for the delay, unless one found detection off; and no evaluation after that
\* lets it wait.
THEOREM DelaysAreHonoured == Spec => CommitsWhenHeld
<1>1. Init => DwellInv
  BY NoStateIsNone DEF Init, DwellInv, Committed, NoPending
<1>2. TypeOK /\ DwellInv /\ [Next]_vars =>
        [\A t \in 0..MaxClock :
           /\ Due(t) => Held(desired', t) >= DwellFor(desired') \/ gap
           /\ Dwell(t) => Held(pending'.target, t) < DwellFor(pending'.target)]_vars
  <2>. SUFFICES ASSUME TypeOK, DwellInv, [Next]_vars, NEW t \in 0..MaxClock
                PROVE  /\ Due(t) => Held(desired', t) >= DwellFor(desired') \/ gap
                       /\ Dwell(t) => Held(pending'.target, t) < DwellFor(pending'.target)
    OBVIOUS
  <2>1. CASE Due(t) \/ Dwell(t)
    <3>1. now' = t /\ phase = "idle" /\ Evaluation # state
      BY <2>1 DEF Due, Dwell, Tick
    <3>2. t \in Nat /\ now <= t /\ now \in Nat
      <4>1. now \in Nat
        BY DEF TypeOK
      <4>2. CASE \E step \in Steps : Evaluate(now + step)
        <5>1. PICK step \in Steps : Evaluate(now + step)
          BY <4>2
        <5>2. now' = now + step
          BY <5>1 DEF Evaluate, Undetected, AtRest, Dwell, Due, Tick
        <5>. QED  BY <3>1, <4>1, <5>2, ClockMoves
      <4>3. CASE UNCHANGED now
        BY <3>1, <4>1, <4>3
      <4>4. (\E step \in Steps : Evaluate(now + step)) \/ UNCHANGED now
        BY DEF Next, Engine, ReadSettings, Commit, ReadRecipients, Await, AcknowledgeAlarm,
           TakeAcknowledgements, WriteObject, WriteClass, vars, engine
      <4>. QED  BY <4>2, <4>3, <4>4
    <3>3. /\ streak.since \in Nat /\ streak.since <= now
          /\ pending.since \in Nat /\ pending.since <= now
          /\ Evaluation \in States /\ NoState \notin States
      BY EvaluationTyped, NoStateIsNone DEF TypeOK, DwellInv, Pendings
    <3>4. /\ pending = NoPending => streak.target \in {state, NoState}
          /\ pending # NoPending =>
               /\ streak.target \in {pending.target, NoState}
               /\ streak.target # NoState => pending.since <= streak.since
               /\ ~gap => streak = pending
      BY <3>1 DEF DwellInv
    <3>5. DwellFor(Evaluation) \in Nat
      BY DEF TypeOK, DwellFor
    <3>6. CASE pending.target = Evaluation
      <4>1. pending # NoPending /\ Started(t) = pending
        BY <3>3, <3>6 DEF NoPending, Started
      <4>2. /\ Held(Evaluation, t) <= t - pending.since
            /\ ~gap => Held(Evaluation, t) = t - pending.since
        BY <3>2, <3>3, <3>4, <3>6, <4>1 DEF Held
      <4>3. Held(Evaluation, t) \in Int
        BY <3>2, <3>3 DEF Held
      <4>4. Due(t) => desired' = Evaluation /\ t - pending.since >= DwellFor(Evaluation)
        BY <4>1 DEF Due
      <4>5. Dwell(t) => pending'.target = Evaluation /\ t - pending.since < DwellFor(Evaluation)
        BY <3>6, <4>1 DEF Dwell
      <4>. QED  BY <3>2, <3>3, <3>5, <4>2, <4>3, <4>4, <4>5
    <3>7. CASE pending.target # Evaluation
      <4>1. Started(t) = [target |-> Evaluation, since |-> t]
        BY <3>7 DEF Started
      <4>2. streak.target # Evaluation
        BY <3>1, <3>3, <3>4, <3>7
      <4>3. Held(Evaluation, t) = 0
        BY <4>2 DEF Held
      <4>4. Due(t) => desired' = Evaluation /\ 0 >= DwellFor(Evaluation)
        BY <3>2, <4>1 DEF Due
      <4>5. Dwell(t) => pending'.target = Evaluation /\ 0 < DwellFor(Evaluation)
        BY <3>2, <4>1 DEF Dwell
      <4>. QED  BY <3>5, <4>3, <4>4, <4>5
    <3>. QED  BY <3>6, <3>7
  <2>2. CASE ~(Due(t) \/ Dwell(t))
    BY <2>2
  <2>. QED  BY <2>1, <2>2
<1>. QED  BY <1>1, <1>2, TypeCorrect, DwellNext, PTL DEF Spec, CommitsWhenHeld

\* Acknowledgements are awaited for what was told, and announced once.
THEOREM AcknowledgementsAreSound == Spec => []AcknowledgedOnce
BY OnlyToldAwait, RepeatsAreSilent, PTL DEF AcknowledgedOnce


=============================================================================
