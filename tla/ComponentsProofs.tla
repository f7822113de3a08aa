--------------------------- MODULE ComponentsProofs ---------------------------
(***************************************************************************)
(* What TLAPS proves of the virtual router and the station behind it:      *)
(*   RoutedSite: what is answered comes from who was asked and goes to who *)
(*     asked, and only a network that was removed is said to be unknown;   *)
(* and of components whose runs reach them through INSTANCE:               *)
(*   ScheduleEngine: what is scheduled for the day is what the targets are *)
(*     told, whatever clients and the host do between the engine's calls;  *)
(*   ForeignDevice: a registration lasts while the times fit together;     *)
(*   ClientNotifications: a notification reaches who asked for it last;    *)
(*   SyncClient: an answer is its request's, up to the invoke IDs there    *)
(*     are;                                                                *)
(*   TransportRequests: a request is tracked until it ends or the IDs have *)
(*     come round;                                                         *)
(*   TimedTables: whom broadcasts are sent on to, and who is told of an    *)
(*     object, are those whose time has not run out, each once;            *)
(*   AddressFile: a file that was cut off claims no more than was found;   *)
(*   ApplicationLayer: a host's requests are as complete as their          *)
(*     transactions, and their IDs come round when all others were in use; *)
(*   Reassembly: what is put together of segments is the message, when it  *)
(*     alone was sent under its ID;                                        *)
(*   PathDiscovery: what Dijkstra's algorithm finds, and the cache keeps   *)
(*     of it, are shortest paths;                                          *)
(*   CalendarRules: the entries of a calendar cover the days they name.    *)
(* Each for any values of its constants, but for what it assumes of them.  *)
(* A component is taken alone: where two have a constant or a variable of  *)
(* one name (None, Devices, Networks, MaxCalls, Objects, Ids; calls, wire, *)
(* next_id), no theorem is about both.                                     *)
(***************************************************************************)
EXTENDS RoutedSite, SequenceTheorems, FiniteSetTheorems, WellFoundedInduction, TLAPS

-----------------------------------------------------------------------------
(* Schedules and their targets *)

CONSTANTS Calendars, Schedules, Targets, Foreign, Dates, Times, DateLists, Written, Priorities,
          Values, MaxCalls
VARIABLES calendars, schedules, targets, primed, tick, calls, untouched, fresh

Engine == INSTANCE ScheduleEngine

\* What a schedule is to say does not depend on what it said, nor on where it says it.
LEMMA SameValue ==
  ASSUME NEW a, NEW b, b.exceptions = a.exceptions, b.weekly = a.weekly, b.period = a.period,
         b.default = a.default, NEW date, NEW time, NEW active
  PROVE  Engine!ValueAt(b, date, time, active) = Engine!ValueAt(a, date, time, active)
  BY DEF Engine!ValueAt

\* A list of targets is its first and those that follow.
LEMMA FirstAndRest ==
  ASSUME NEW q \in Seq(Targets), q # <<>>
  PROVE  /\ Head(q) \in Targets /\ Tail(q) \in Seq(Targets)
         /\ Engine!ToSet(q) = {Head(q)} \cup Engine!ToSet(Tail(q))
<1>1. /\ Head(q) \in Targets /\ Tail(q) \in Seq(Targets) /\ Len(Tail(q)) = Len(q) - 1
      /\ \A i \in 1..Len(Tail(q)) : Tail(q)[i] = q[i + 1]
  BY HeadTailProperties
<1>2. Len(q) \in Nat /\ DOMAIN q = 1..Len(q) /\ DOMAIN Tail(q) = 1..Len(Tail(q)) /\ Head(q) = q[1]
  BY <1>1
<1>3. \A i \in 1..Len(q) : \/ i = 1
                            \/ /\ i - 1 \in 1..Len(Tail(q))
                               /\ Tail(q)[i - 1] = q[i]
  <2> TAKE i \in 1..Len(q)
  <2>1. CASE i = 1 BY <2>1
  <2>2. CASE i # 1
    <3>1. i - 1 \in 1..Len(Tail(q)) /\ (i - 1) + 1 = i BY <1>1, <1>2, <2>2
    <3>2. Tail(q)[i - 1] = q[(i - 1) + 1] BY <1>1, <3>1
    <3>3. QED BY <3>1, <3>2
  <2>3. QED BY <2>1, <2>2
<1>4. Len(q) > 0 BY <1>2
<1>5. Engine!ToSet(q) \subseteq {Head(q)} \cup Engine!ToSet(Tail(q)) BY <1>2, <1>3 DEF Engine!ToSet
<1>6. \A i \in 1..Len(Tail(q)) : i + 1 \in 1..Len(q) BY <1>1, <1>2
<1>7. Engine!ToSet(Tail(q)) \subseteq Engine!ToSet(q) BY <1>1, <1>2, <1>6 DEF Engine!ToSet
<1>8. Head(q) \in Engine!ToSet(q) BY <1>2, <1>4 DEF Engine!ToSet
<1>9. QED BY <1>1, <1>5, <1>7, <1>8

\* A schedule with another value is a schedule.
LEMMA ScheduleWritten ==
  ASSUME NEW schedule, Engine!IsSchedule(schedule), NEW value
  PROVE  LET n == [schedule EXCEPT !.value = value]
         IN  /\ Engine!IsSchedule(n) /\ n.value = value /\ n.targets = schedule.targets
             /\ n.priority = schedule.priority
             /\ \A date, time, active :
                  Engine!ValueAt(n, date, time, active) = Engine!ValueAt(schedule, date, time, active)
<1> DEFINE n == [schedule EXCEPT !.value = value]
<1>1. /\ DOMAIN n = DOMAIN schedule /\ n.value = value
      /\ \A f \in DOMAIN schedule \ {"value"} : n[f] = schedule[f]
  BY DEF Engine!IsSchedule
<1>2. /\ n.targets = schedule.targets /\ n.priority = schedule.priority
      /\ n.exceptions = schedule.exceptions /\ n.weekly = schedule.weekly
      /\ n.period = schedule.period /\ n.default = schedule.default
  BY <1>1 DEF Engine!IsSchedule
<1> HIDE DEF n
<1>3. Engine!IsSchedule(n) BY <1>1, <1>2 DEF Engine!IsSchedule
<1>4. QED BY <1>1, <1>2, <1>3, SameValue DEF n

-----------------------------------------------------------------------------
(* Types *)

\* The engine starts at rest, with nothing driven.
LEMMA InitTyped == Engine!Init => Engine!TypeOK
  BY DEF Engine!Init, Engine!TypeOK, Engine!Resting, Engine!Round

\* The schedules and the targets stay what they are.
LEMMA StepTyped ==
  ASSUME Engine!SchedulesFit, Engine!TypeOK, [Engine!Next]_Engine!vars PROVE Engine!TypeOK'
<1> USE DEF Engine!TypeOK
<1>1. CASE UNCHANGED Engine!vars BY <1>1 DEF Engine!vars, Engine!Round, Engine!IsSchedule
<1>2. ASSUME NEW date \in Dates, NEW time \in Times, Engine!Tick(date, time) PROVE Engine!TypeOK'
  BY <1>2
  DEF Engine!Tick, Engine!Called, Engine!Rests, Engine!Round, Engine!RoundFields, Engine!IsSchedule
<1>3. ASSUME NEW c \in Calendars, Engine!Refresh(c) PROVE Engine!TypeOK'
  BY <1>3 DEF Engine!Refresh, Engine!Round, Engine!RoundFields, Engine!IsSchedule
<1>4. CASE Engine!ListSchedules
  BY <1>4 DEF Engine!ListSchedules, Engine!Round, Engine!RoundFields, Engine!IsSchedule
<1>5. ASSUME NEW s \in Schedules, Engine!Evaluate(s) PROVE Engine!TypeOK'
  <2> DEFINE passed == [tick EXCEPT !.left = @ \ {s}]
             value == Engine!ValueAt(schedules[s], tick.date, tick.time, tick.active)
  <2>1. /\ tick.at = "schedules" /\ UNCHANGED <<calendars, targets>> BY <1>5 DEF Engine!Evaluate
  <2>2. DOMAIN tick = Engine!RoundFields BY <2>1 DEF Engine!Round
  <2>3. DOMAIN passed = Engine!RoundFields /\ passed.at = "schedules"
    BY <2>1, <2>2 DEF Engine!RoundFields
  <2>4. CASE tick' = passed /\ UNCHANGED <<schedules, primed, untouched>>
    <3> HIDE DEF passed
    <3>1. QED BY <2>1, <2>3, <2>4 DEF Engine!Round, Engine!IsSchedule
  <2>5. CASE /\ s \in DOMAIN schedules
             /\ schedules' = [schedules EXCEPT ![s].value = value]
             /\ primed' = primed \cup {s} /\ untouched' = untouched \cup {s}
             /\ tick' = [at |-> "writes", schedule |-> s, value |-> value,
                         targets |-> schedules[s].targets, priority |-> schedules[s].priority,
                         then |-> passed]
    <3> HIDE DEF value, passed
    <3>1. Engine!IsSchedule(schedules[s]) BY <2>5
    <3>2. /\ DOMAIN schedules' = DOMAIN schedules
          /\ \A r \in DOMAIN schedules : Engine!IsSchedule(schedules'[r])
      BY <2>5, <3>1, ScheduleWritten
    <3>3. /\ DOMAIN tick' = {"at", "schedule", "value", "targets", "priority", "then"}
          /\ tick'.at = "writes" /\ tick'.targets = schedules[s].targets
          /\ tick'.priority = schedules[s].priority /\ tick'.then = passed
      BY <2>5
    <3>4. QED BY <2>1, <2>3, <2>5, <3>1, <3>2, <3>3 DEF Engine!Round, Engine!IsSchedule
  <2>6. QED BY <1>5, <2>4, <2>5, Zenon DEF Engine!Evaluate, Engine!Writing
<1>6. CASE Engine!WriteTarget
  <2>1. Tail(tick.targets) \in Seq(Targets) BY <1>6, FirstAndRest DEF Engine!WriteTarget
  <2>2. DOMAIN targets' = Targets /\ \A target \in Targets : DOMAIN targets'[target] = Priorities
    BY <1>6 DEF Engine!WriteTarget
  <2>3. /\ tick.at = "writes" /\ tick' = [tick EXCEPT !.targets = Tail(@)]
        /\ UNCHANGED <<calendars, schedules, primed>> /\ untouched' \subseteq untouched
    BY <1>6 DEF Engine!WriteTarget
  <2>4. DOMAIN tick = {"at", "schedule", "value", "targets", "priority", "then"} BY <2>3
  <2>5. /\ DOMAIN tick' = DOMAIN tick /\ tick'.targets = Tail(tick.targets)
        /\ tick'.at = "writes" /\ tick'.priority = tick.priority /\ tick'.then = tick.then
    BY <2>3, <2>4
  <2>6. QED BY <2>1, <2>2, <2>3, <2>5 DEF Engine!Round, Engine!IsSchedule
<1>7. CASE Engine!Driven
  BY <1>7 DEF Engine!Driven, Engine!Round, Engine!RoundFields, Engine!IsSchedule
<1>8. CASE Engine!TickEnds BY <1>8 DEF Engine!TickEnds, Engine!Round, Engine!IsSchedule
<1>9. ASSUME NEW s \in Schedules, NEW schedule \in Written, Engine!AddSchedule(s, schedule)
      PROVE Engine!TypeOK'
  BY <1>9 DEF Engine!AddSchedule, Engine!SchedulesFit, Engine!Round, Engine!IsSchedule
<1>10. ASSUME NEW s \in Schedules, Engine!RemoveSchedule(s) PROVE Engine!TypeOK'
  BY <1>10 DEF Engine!RemoveSchedule, Engine!Round, Engine!IsSchedule
<1>11. ASSUME NEW s \in Schedules, NEW field, NEW value, Engine!WriteSchedule(s, field, value),
              field = "targets" => value \in Seq(Targets), field = "priority" => value \in Priorities
       PROVE  Engine!TypeOK'
  BY <1>11 DEF Engine!WriteSchedule, Engine!Round, Engine!IsSchedule
<1>12. ASSUME NEW s \in Schedules, NEW schedule \in Written,
              NEW field \in DOMAIN schedule \ {"value"}, Engine!WriteSchedule(s, field, schedule[field])
       PROVE  Engine!TypeOK'
  BY <1>11, <1>12 DEF Engine!SchedulesFit, Engine!IsSchedule
<1>13. ASSUME NEW s \in Schedules, NEW v \in Values, Engine!WriteSchedule(s, "value", v)
       PROVE Engine!TypeOK'
  BY <1>11, <1>13
<1>14. ASSUME NEW c \in Calendars, NEW dates \in DateLists, Engine!WriteDateList(c, dates)
       PROVE Engine!TypeOK'
  BY <1>14 DEF Engine!WriteDateList, Engine!Round, Engine!IsSchedule
<1>15. ASSUME NEW t \in Targets \ Foreign, NEW p \in Priorities, NEW v \in Values,
              Engine!CommandTarget(t, p, v)
       PROVE  Engine!TypeOK'
  BY <1>15 DEF Engine!CommandTarget, Engine!Round, Engine!IsSchedule
<1>16. QED
  BY <1>1, <1>2, <1>3, <1>4, <1>5, <1>6, <1>7, <1>8, <1>9, <1>10, <1>12, <1>13, <1>14, <1>15
  DEF Engine!Next

-----------------------------------------------------------------------------
(* The calendars and the schedules *)

\* What calendars say, and where a round is, is all a fresh schedule depends on.
LEMMA CalendarsStep ==
  ASSUME Engine!SchedulesFit, Engine!TypeOK, Engine!CalendarsInv, [Engine!Next]_Engine!vars
  PROVE Engine!CalendarsInv'
<1> USE DEF Engine!CalendarsInv
<1>1. CASE UNCHANGED Engine!vars
  <2>1. tick' = tick /\ calendars' = calendars /\ schedules' = schedules /\ fresh' = fresh
    BY <1>1 DEF Engine!vars
  <2>2. Engine!Round' = Engine!Round /\ Engine!Active' = Engine!Active
    BY <2>1 DEF Engine!Round, Engine!Active
  <2>3. ASSUME NEW s \in fresh \cap DOMAIN schedules
        PROVE  Engine!ValueAt(schedules[s], Engine!Round.date, Engine!Round.time, Engine!Active)'
                 = Engine!ValueAt(schedules[s], Engine!Round.date, Engine!Round.time, Engine!Active)
    BY <2>1, <2>2 DEF Engine!ValueAt
  <2> QED  BY <2>1, <2>2, <2>3
<1>2. ASSUME NEW date \in Dates, NEW time \in Times, Engine!Tick(date, time)
      PROVE Engine!CalendarsInv'
  BY <1>2 DEF Engine!Tick, Engine!Called, Engine!Active
<1>3. ASSUME NEW c \in Calendars, Engine!Refresh(c) PROVE Engine!CalendarsInv'
  <2> DEFINE covers == Engine!Covers(calendars[c].dates, tick.date)
  <2>1. /\ tick.at = "calendars" /\ c \in tick.left /\ fresh' = fresh
        /\ calendars' = [calendars EXCEPT ![c].value = covers]
        /\ tick' = [tick EXCEPT !.left = @ \ {c}, !.active = IF covers THEN @ \cup {c} ELSE @]
    BY <1>3 DEF Engine!Refresh
  <2>2. covers \in BOOLEAN BY DEF Engine!Covers
  <2> HIDE DEF covers
  <2>3. DOMAIN tick = Engine!RoundFields BY <2>1 DEF Engine!TypeOK, Engine!Round
  <2>4. /\ tick'.at = "calendars" /\ tick'.left = tick.left \ {c}
        /\ tick'.active = IF covers THEN tick.active \cup {c} ELSE tick.active
    BY <2>1, <2>3 DEF Engine!RoundFields
  <2>5. /\ calendars'[c].value = covers
        /\ \A d \in Calendars \ {c} : calendars'[d] = calendars[d]
    BY <2>1 DEF Engine!TypeOK
  <2>6. Engine!Active' = IF covers THEN Engine!Active \cup {c} ELSE Engine!Active \ {c}
    BY <2>2, <2>5 DEF Engine!Active
  <2>7. QED BY <2>1, <2>4, <2>6
<1>4. CASE Engine!ListSchedules
  <2>1. /\ tick.at = "calendars" /\ tick.left = {} /\ fresh = {} /\ tick.active = Engine!Active
        /\ tick' = [tick EXCEPT !.at = "schedules", !.left = DOMAIN schedules]
        /\ UNCHANGED <<calendars, schedules, fresh>>
    BY <1>4 DEF Engine!ListSchedules
  <2>2. DOMAIN tick = Engine!RoundFields BY <2>1 DEF Engine!TypeOK, Engine!Round
  <2>3. tick'.at = "schedules" /\ tick'.active = tick.active BY <2>1, <2>2 DEF Engine!RoundFields
  <2>4. Engine!Active' = Engine!Active BY <2>1 DEF Engine!Active
  <2>5. QED BY <2>1, <2>3, <2>4 DEF Engine!Round
<1>5. ASSUME NEW s \in Schedules, Engine!Evaluate(s) PROVE Engine!CalendarsInv'
  <2> DEFINE passed == [tick EXCEPT !.left = @ \ {s}]
             value == Engine!ValueAt(schedules[s], tick.date, tick.time, tick.active)
  <2>1. /\ tick.at = "schedules" /\ UNCHANGED <<calendars, targets>> BY <1>5 DEF Engine!Evaluate
  <2>2. DOMAIN tick = Engine!RoundFields /\ tick.active = Engine!Active
    BY <2>1 DEF Engine!TypeOK, Engine!Round
  <2>3. /\ passed.at = "schedules" /\ passed.date = tick.date /\ passed.time = tick.time
        /\ passed.active = tick.active
    BY <2>1, <2>2 DEF Engine!RoundFields
  <2>4. /\ Engine!Round' = passed /\ tick'.at \in {"schedules", "writes"}
        /\ \/ UNCHANGED <<schedules, fresh>>
           \/ /\ s \in DOMAIN schedules /\ fresh' = fresh \cup {s}
              /\ \/ UNCHANGED schedules /\ value = schedules[s].value
                 \/ schedules' = [schedules EXCEPT ![s].value = value]
    <3>1. CASE tick' = passed /\ UNCHANGED <<schedules, fresh>>
      <4> HIDE DEF passed
      <4>1. QED BY <2>3, <3>1 DEF Engine!Round
    <3>2. CASE /\ s \in DOMAIN schedules /\ fresh' = fresh \cup {s}
               /\ tick' = passed /\ UNCHANGED schedules /\ value = schedules[s].value
      <4> HIDE DEF passed, value
      <4>1. QED BY <2>3, <3>2 DEF Engine!Round
    <3>3. CASE /\ s \in DOMAIN schedules /\ fresh' = fresh \cup {s}
               /\ schedules' = [schedules EXCEPT ![s].value = value]
               /\ tick' = [at |-> "writes", schedule |-> s, value |-> value,
                           targets |-> schedules[s].targets,
                           priority |-> schedules[s].priority, then |-> passed]
      <4> HIDE DEF passed, value
      <4>1. tick'.at = "writes" /\ tick'.then = passed BY <3>3
      <4>2. QED BY <3>3, <4>1 DEF Engine!Round
    <3>4. QED BY <1>5, <3>1, <3>2, <3>3, Zenon DEF Engine!Evaluate, Engine!Writing, Engine!Skips
  <2>5. Engine!Active' = Engine!Active BY <2>1 DEF Engine!Active
  <2> HIDE DEF passed
  <2>6. /\ Engine!Round'.active = Engine!Active /\ Engine!Round'.date = tick.date /\ Engine!Round'.time = tick.time
    BY <2>2, <2>3, <2>4
  <2>7. \A r \in fresh \cap DOMAIN schedules :
          schedules[r].value = Engine!ValueAt(schedules[r], tick.date, tick.time, Engine!Active)
    BY <2>1 DEF Engine!Round
  <2>8. value = Engine!ValueAt(schedules[s], tick.date, tick.time, Engine!Active) BY <2>2
  <2> HIDE DEF value
  <2>9. CASE UNCHANGED <<schedules, fresh>> BY <2>4, <2>5, <2>6, <2>7, <2>9
  <2>10. CASE /\ s \in DOMAIN schedules /\ fresh' = fresh \cup {s}
              /\ UNCHANGED schedules /\ value = schedules[s].value
    <3>1. schedules' = schedules BY <2>10
    <3>2. \A r \in fresh' \cap DOMAIN schedules :
            schedules[r].value = Engine!ValueAt(schedules[r], tick.date, tick.time, Engine!Active)
      BY <2>7, <2>8, <2>10
    <3>3. QED BY <2>4, <2>5, <2>6, <3>1, <3>2
  <2>11. CASE /\ s \in DOMAIN schedules /\ fresh' = fresh \cup {s}
              /\ schedules' = [schedules EXCEPT ![s].value = value]
    <3>1. Engine!IsSchedule(schedules[s]) BY <2>11 DEF Engine!TypeOK
    <3> DEFINE n == [schedules[s] EXCEPT !.value = value]
    <3>a. schedules'[s] = n BY <2>11
    <3>b. /\ n.value = value
          /\ Engine!ValueAt(n, tick.date, tick.time, Engine!Active)
               = Engine!ValueAt(schedules[s], tick.date, tick.time, Engine!Active)
      BY <3>1, ScheduleWritten
    <3> HIDE DEF n
    <3>2. /\ schedules'[s].value = value
          /\ Engine!ValueAt(schedules'[s], tick.date, tick.time, Engine!Active)
               = Engine!ValueAt(schedules[s], tick.date, tick.time, Engine!Active)
      BY <3>a, <3>b
    <3>3. /\ DOMAIN schedules' = DOMAIN schedules
          /\ \A r \in DOMAIN schedules \ {s} : schedules'[r] = schedules[r]
      BY <2>11
    <3>4. \A r \in fresh' \cap DOMAIN schedules' :
            schedules'[r].value = Engine!ValueAt(schedules'[r], tick.date, tick.time, Engine!Active)
      BY <2>7, <2>8, <2>11, <3>2, <3>3
    <3>5. QED BY <2>4, <2>5, <2>6, <3>4
  <2>12. QED BY <2>4, <2>9, <2>10, <2>11
<1>6. CASE Engine!WriteTarget
  <2>1. /\ tick.at = "writes" /\ tick' = [tick EXCEPT !.targets = Tail(@)]
        /\ UNCHANGED <<calendars, schedules, fresh>>
    BY <1>6 DEF Engine!WriteTarget
  <2>2. tick'.at = "writes" /\ tick'.then = tick.then BY <2>1 DEF Engine!TypeOK
  <2>3. Engine!Round' = Engine!Round /\ Engine!Active' = Engine!Active
    BY <2>1, <2>2 DEF Engine!Round, Engine!Active
  <2>4. QED BY <2>1, <2>2, <2>3
<1>7. CASE Engine!Driven
  <2>1. /\ tick.at = "writes" /\ tick' = tick.then /\ tick.then.at = "schedules"
        /\ UNCHANGED <<calendars, schedules, fresh>>
    BY <1>7 DEF Engine!Driven, Engine!TypeOK
  <2>2. Engine!Round' = Engine!Round /\ Engine!Active' = Engine!Active
    BY <2>1 DEF Engine!Round, Engine!Active
  <2>3. QED BY <2>1, <2>2
<1>8. CASE Engine!TickEnds
  <2>1. /\ tick.at = "schedules" /\ tick' = [at |-> "rest", date |-> tick.date, time |-> tick.time]
        /\ UNCHANGED <<calendars, schedules, fresh>>
    BY <1>8 DEF Engine!TickEnds
  <2>2. /\ tick'.at = "rest" /\ Engine!Round'.date = Engine!Round.date /\ Engine!Round'.time = Engine!Round.time
        /\ Engine!Active' = Engine!Active
    BY <2>1 DEF Engine!Round, Engine!Active
  <2>3. QED BY <2>1, <2>2
<1>9. ASSUME NEW s \in Schedules, NEW schedule \in Written, Engine!AddSchedule(s, schedule)
      PROVE  Engine!CalendarsInv'
  <2>1. /\ fresh' = fresh \ {s} /\ UNCHANGED <<calendars, tick>>
        /\ DOMAIN schedules' \ {s} \subseteq DOMAIN schedules
        /\ \A r \in DOMAIN schedules' \ {s} : schedules'[r] = schedules[r]
    BY <1>9 DEF Engine!AddSchedule
  <2>2. Engine!Round' = Engine!Round /\ Engine!Active' = Engine!Active
    BY <2>1 DEF Engine!Round, Engine!Active
  <2>3. QED BY <2>1, <2>2
<1>10. ASSUME NEW s \in Schedules, Engine!RemoveSchedule(s) PROVE Engine!CalendarsInv'
  <2>1. /\ fresh' = fresh \ {s} /\ UNCHANGED <<calendars, tick>>
        /\ DOMAIN schedules' \subseteq DOMAIN schedules
        /\ \A r \in DOMAIN schedules' : schedules'[r] = schedules[r]
    BY <1>10 DEF Engine!RemoveSchedule
  <2>2. Engine!Round' = Engine!Round /\ Engine!Active' = Engine!Active
    BY <2>1 DEF Engine!Round, Engine!Active
  <2>3. QED BY <2>1, <2>2
<1>11. ASSUME NEW s \in Schedules, NEW field, NEW value, Engine!WriteSchedule(s, field, value)
       PROVE  Engine!CalendarsInv'
  <2>1. /\ fresh' = fresh \ {s} /\ UNCHANGED <<calendars, tick>>
        /\ schedules' = [schedules EXCEPT ![s][field] = value]
    BY <1>11 DEF Engine!WriteSchedule
  <2>2. /\ DOMAIN schedules' = DOMAIN schedules
        /\ \A r \in DOMAIN schedules \ {s} : schedules'[r] = schedules[r]
    BY <2>1
  <2>3. Engine!Round' = Engine!Round /\ Engine!Active' = Engine!Active
    BY <2>1 DEF Engine!Round, Engine!Active
  <2>4. QED BY <2>1, <2>2, <2>3
<1>12. ASSUME NEW c \in Calendars, NEW dates \in DateLists, Engine!WriteDateList(c, dates)
       PROVE  Engine!CalendarsInv'
  <2>1. /\ calendars' = [calendars EXCEPT ![c].dates = dates]
        /\ UNCHANGED <<schedules, tick, fresh>>
    BY <1>12 DEF Engine!WriteDateList
  <2>2. \A d \in Calendars : calendars'[d].value = calendars[d].value
    BY <2>1 DEF Engine!TypeOK
  <2>3. Engine!Round' = Engine!Round /\ Engine!Active' = Engine!Active
    BY <2>1, <2>2 DEF Engine!Round, Engine!Active
  <2>4. QED BY <2>1, <2>3
<1>13. ASSUME NEW t \in Targets \ Foreign, NEW p \in Priorities, NEW v \in Values,
              Engine!CommandTarget(t, p, v)
       PROVE  Engine!CalendarsInv'
  BY <1>13 DEF Engine!CommandTarget, Engine!Round, Engine!Active
<1>14. QED
  BY <1>1, <1>2, <1>3, <1>4, <1>5, <1>6, <1>7, <1>8, <1>9, <1>10, <1>11, <1>12, <1>13
  DEF Engine!Next

-----------------------------------------------------------------------------
(* The targets *)

\* A target of a schedule nobody interfered with is its own: who writes it at its priority
\* is the schedule itself, or has interfered.
LEMMA OwnTargets ==
  ASSUME Engine!TypeOK, NEW s, NEW r \in untouched, NEW t \in Engine!ToSet(schedules[r].targets),
         NEW p, r \notin Engine!Shares(s, t, p), r # s
  PROVE  schedules[r].priority # p
  BY DEF Engine!Shares, Engine!TypeOK

\* Targets hold what they were told, until they are told or until somebody interferes.
LEMMA TargetsStep ==
  ASSUME Engine!SchedulesFit, Engine!TypeOK, Engine!TargetsInv, [Engine!Next]_Engine!vars
  PROVE Engine!TargetsInv'
<1> USE DEF Engine!TargetsInv
<1>1. CASE UNCHANGED Engine!vars BY <1>1 DEF Engine!vars
<1>2. ASSUME UNCHANGED <<schedules, targets>>, untouched' \subseteq untouched,
             tick.at # "writes", tick'.at # "writes"
      PROVE  Engine!TargetsInv'
  BY <1>2
<1>3. ASSUME NEW date \in Dates, NEW time \in Times, Engine!Tick(date, time)
      PROVE Engine!TargetsInv'
  <2>1. tick'.at = "calendars" BY <1>3 DEF Engine!Tick
  <2>2. QED BY <1>2, <1>3, <2>1 DEF Engine!Tick, Engine!Rests
<1>4. ASSUME NEW c \in Calendars, Engine!Refresh(c) PROVE Engine!TargetsInv'
  <2>1. tick.at = "calendars" BY <1>4 DEF Engine!Refresh
  <2>2. DOMAIN tick = Engine!RoundFields BY <2>1 DEF Engine!TypeOK, Engine!Round
  <2>3. tick'.at = "calendars" BY <1>4, <2>1, <2>2 DEF Engine!Refresh, Engine!RoundFields
  <2>4. QED BY <1>2, <1>4, <2>1, <2>3 DEF Engine!Refresh
<1>5. CASE Engine!ListSchedules
  <2>1. tick.at = "calendars" BY <1>5 DEF Engine!ListSchedules
  <2>2. DOMAIN tick = Engine!RoundFields BY <2>1 DEF Engine!TypeOK, Engine!Round
  <2>3. tick'.at = "schedules" BY <1>5, <2>1, <2>2 DEF Engine!ListSchedules, Engine!RoundFields
  <2>4. QED BY <1>2, <1>5, <2>1, <2>3 DEF Engine!ListSchedules
<1>6. ASSUME NEW s \in Schedules, Engine!Evaluate(s) PROVE Engine!TargetsInv'
  <2> DEFINE passed == [tick EXCEPT !.left = @ \ {s}]
             value == Engine!ValueAt(schedules[s], tick.date, tick.time, tick.active)
  <2>1. /\ tick.at = "schedules" /\ UNCHANGED <<calendars, targets>> BY <1>6 DEF Engine!Evaluate
  <2>2. DOMAIN tick = Engine!RoundFields BY <2>1 DEF Engine!TypeOK, Engine!Round
  <2>3. passed.at = "schedules" BY <2>1, <2>2 DEF Engine!RoundFields
  <2>4. CASE tick' = passed /\ UNCHANGED <<schedules, untouched>>
    <3> HIDE DEF passed
    <3>1. QED BY <1>2, <2>1, <2>3, <2>4
  <2>5. CASE /\ s \in DOMAIN schedules
             /\ schedules' = [schedules EXCEPT ![s].value = value]
             /\ untouched' = untouched \cup {s}
             /\ tick' = [at |-> "writes", schedule |-> s, value |-> value,
                         targets |-> schedules[s].targets, priority |-> schedules[s].priority,
                         then |-> passed]
    <3> HIDE DEF value, passed
    <3> DEFINE n == [schedules[s] EXCEPT !.value = value]
    <3>1. Engine!IsSchedule(schedules[s]) BY <2>5 DEF Engine!TypeOK
    <3>2. schedules'[s] = n /\ \A r \in DOMAIN schedules \ {s} : schedules'[r] = schedules[r]
      BY <2>5
    <3>3. /\ n.value = value /\ n.targets = schedules[s].targets
          /\ n.priority = schedules[s].priority
      BY <3>1, ScheduleWritten
    <3> HIDE DEF n
    <3>4. /\ tick'.at = "writes" /\ tick'.schedule = s /\ tick'.value = value
          /\ tick'.targets = schedules[s].targets /\ tick'.priority = schedules[s].priority
      BY <2>5
    <3>5. untouched \subseteq DOMAIN schedules BY DEF Engine!TypeOK
    <3>6. ASSUME NEW r \in untouched, r # s, NEW t \in Engine!ToSet(schedules[r].targets)
          PROVE  targets[t][schedules[r].priority] = schedules[r].value
      BY <2>1, <3>6
    <3>7. QED BY <2>1, <2>5, <3>2, <3>3, <3>4, <3>5, <3>6
  <2>6. QED BY <1>6, <2>4, <2>5, Zenon DEF Engine!Evaluate, Engine!Writing
<1>7. CASE Engine!WriteTarget
  <2> DEFINE target == Head(tick.targets)
             s == tick.schedule
  <2>1. /\ tick.at = "writes" /\ tick.targets # <<>>
        /\ tick' = [tick EXCEPT !.targets = Tail(@)] /\ UNCHANGED schedules
    BY <1>7 DEF Engine!WriteTarget
  <2>2. /\ tick'.at = "writes" /\ tick'.targets = Tail(tick.targets) /\ tick'.schedule = s
        /\ tick'.value = tick.value /\ tick'.priority = tick.priority
    BY <2>1 DEF Engine!TypeOK
  <2>3. target \in Targets /\ Engine!ToSet(tick.targets) = {target} \cup Engine!ToSet(tick'.targets)
    BY <2>1, <2>2, FirstAndRest DEF Engine!TypeOK
  <2>4. CASE target \in Foreign
    <3>1. untouched' = untouched \ {s} /\ UNCHANGED targets BY <1>7, <2>4 DEF Engine!WriteTarget
    <3>2. QED BY <2>1, <2>2, <3>1
  <2>5. CASE target \notin Foreign
    <3>1. /\ targets' = [targets EXCEPT ![target][tick.priority] = tick.value]
          /\ untouched' = untouched \ Engine!Shares(s, target, tick.priority)
      BY <1>7, <2>5 DEF Engine!WriteTarget
    <3>2. /\ tick.priority \in Priorities /\ DOMAIN targets = Targets
          /\ DOMAIN targets[target] = Priorities
      BY <2>1, <2>3 DEF Engine!TypeOK
    <3> HIDE DEF target, s
    <3>3. /\ targets'[target][tick.priority] = tick.value
          /\ \A t, p : /\ \/ t # target
                           \/ p # tick.priority
                        /\ t \in Targets /\ p \in Priorities
                        => targets'[t][p] = targets[t][p]
      BY <2>3, <3>1, <3>2
    <3>4. untouched' \subseteq untouched BY <3>1
    <3>5. ASSUME NEW r \in untouched', NEW t \in Engine!ToSet(schedules[r].targets)
          PROVE  \/ r = s /\ t \in Engine!ToSet(tick'.targets)
                 \/ targets'[t][schedules[r].priority] = schedules[r].value
      <4>1. r \in DOMAIN schedules /\ Engine!IsSchedule(schedules[r])
        BY <3>4, <3>5 DEF Engine!TypeOK
      <4>2. t \in Targets /\ schedules[r].priority \in Priorities
        BY <4>1 DEF Engine!IsSchedule, Engine!ToSet
      <4>3. CASE r = s
        <5>1. schedules[r].value = tick.value /\ schedules[r].priority = tick.priority
          BY <2>1, <3>4, <4>3 DEF s
        <5>2. CASE t = target BY <3>3, <5>1, <5>2
        <5>3. CASE t # target
          <6>1. \/ t \in Engine!ToSet(tick'.targets)
                \/ targets[t][schedules[r].priority] = schedules[r].value
            BY <2>3, <3>4, <5>3
          <6>2. QED BY <3>3, <4>2, <4>3, <5>3, <6>1
        <5>4. QED BY <5>2, <5>3
      <4>4. CASE r # s
        <5>1. targets[t][schedules[r].priority] = schedules[r].value BY <3>4, <4>4 DEF s
        <5>2. t = target => schedules[r].priority # tick.priority
          BY <3>1, <3>4, <4>4, OwnTargets
        <5>3. QED BY <3>3, <4>2, <5>1, <5>2
      <4>5. QED BY <4>3, <4>4
    <3>6. QED BY <2>1, <2>2, <3>4, <3>5 DEF s
  <2>6. QED BY <2>4, <2>5
<1>8. CASE Engine!Driven
  <2>1. /\ tick.at = "writes" /\ tick.targets = <<>> /\ tick'.at = "schedules"
        /\ UNCHANGED <<schedules, targets, untouched>>
    BY <1>8 DEF Engine!Driven, Engine!TypeOK
  <2>2. Engine!ToSet(tick.targets) = {} BY <2>1 DEF Engine!ToSet
  <2>3. QED BY <2>1, <2>2
<1>9. CASE Engine!TickEnds
  <2>1. tick.at = "schedules" /\ tick'.at = "rest" BY <1>9 DEF Engine!TickEnds
  <2>2. QED BY <1>2, <1>9, <2>1 DEF Engine!TickEnds
<1>10. ASSUME NEW s \in Schedules, NEW schedule \in Written, Engine!AddSchedule(s, schedule)
       PROVE  Engine!TargetsInv'
  <2>1. /\ untouched' = untouched \ {s} /\ UNCHANGED <<targets, tick>>
        /\ \A r \in DOMAIN schedules \ {s} : schedules'[r] = schedules[r]
    BY <1>10 DEF Engine!AddSchedule
  <2>2. untouched' \subseteq DOMAIN schedules \ {s} BY <2>1 DEF Engine!TypeOK
  <2>3. QED BY <2>1, <2>2
<1>11. ASSUME NEW s \in Schedules, Engine!RemoveSchedule(s) PROVE Engine!TargetsInv'
  <2>1. /\ untouched' = untouched \ {s} /\ UNCHANGED <<targets, tick>>
        /\ \A r \in DOMAIN schedules \ {s} : schedules'[r] = schedules[r]
    BY <1>11 DEF Engine!RemoveSchedule
  <2>2. untouched' \subseteq DOMAIN schedules \ {s} BY <2>1 DEF Engine!TypeOK
  <2>3. QED BY <2>1, <2>2
<1>12. ASSUME NEW s \in Schedules, NEW field, NEW value, Engine!WriteSchedule(s, field, value)
       PROVE  Engine!TargetsInv'
  <2>1. /\ schedules' = [schedules EXCEPT ![s][field] = value] /\ s \in DOMAIN schedules
        /\ untouched' \subseteq untouched /\ UNCHANGED <<targets, tick>>
        /\ field \in {"value", "targets", "priority"} => untouched' = untouched \ {s}
    BY <1>12 DEF Engine!WriteSchedule
  <2>2. \A r \in DOMAIN schedules \ {s} : schedules'[r] = schedules[r] BY <2>1
  <2>3. CASE field \in {"value", "targets", "priority"}
    <3>1. untouched' \subseteq DOMAIN schedules \ {s} BY <2>1, <2>3 DEF Engine!TypeOK
    <3>2. QED BY <2>1, <2>2, <3>1
  <2>4. CASE field \notin {"value", "targets", "priority"}
    <3>1. Engine!IsSchedule(schedules[s]) BY <2>1 DEF Engine!TypeOK
    <3>2. /\ schedules'[s].value = schedules[s].value
          /\ schedules'[s].targets = schedules[s].targets
          /\ schedules'[s].priority = schedules[s].priority
      BY <2>1, <2>4, <3>1 DEF Engine!IsSchedule
    <3>3. untouched' \subseteq DOMAIN schedules BY <2>1 DEF Engine!TypeOK
    <3>4. QED BY <2>1, <2>2, <3>2, <3>3
  <2>5. QED BY <2>3, <2>4
<1>13. ASSUME NEW c \in Calendars, NEW dates \in DateLists, Engine!WriteDateList(c, dates)
       PROVE  Engine!TargetsInv'
  BY <1>13 DEF Engine!WriteDateList
<1>14. ASSUME NEW target \in Targets \ Foreign, NEW p \in Priorities, NEW v \in Values,
              Engine!CommandTarget(target, p, v)
       PROVE  Engine!TargetsInv'
  <2>1. /\ targets' = [targets EXCEPT ![target][p] = v] /\ UNCHANGED <<schedules, tick>>
        /\ untouched' = untouched \ Engine!Shares(None, target, p)
    BY <1>14 DEF Engine!CommandTarget
  <2>2. \A t \in Targets, q \in Priorities : \/ t # target
                                              \/ q # p
                                           => targets'[t][q] = targets[t][q]
    BY <2>1 DEF Engine!TypeOK
  <2>3. ASSUME NEW r \in untouched', NEW t \in Engine!ToSet(schedules[r].targets)
        PROVE  targets'[t][schedules[r].priority] = targets[t][schedules[r].priority]
    <3>1. r \in untouched /\ r \notin Engine!Shares(None, target, p) BY <2>1, <2>3
    <3>2. r \in DOMAIN schedules /\ Engine!IsSchedule(schedules[r]) /\ r # None
      BY <3>1 DEF Engine!TypeOK, Engine!SchedulesFit
    <3>3. t \in Targets /\ schedules[r].priority \in Priorities
      BY <3>2 DEF Engine!IsSchedule, Engine!ToSet
    <3>4. t = target => schedules[r].priority # p BY <3>1, <3>2, OwnTargets
    <3>5. QED BY <2>2, <3>3, <3>4
  <2>4. untouched' \subseteq untouched BY <2>1
  <2>5. QED BY <2>1, <2>3, <2>4
<1>15. QED
  BY <1>1, <1>3, <1>4, <1>5, <1>6, <1>7, <1>8, <1>9, <1>10, <1>11, <1>12, <1>13, <1>14
  DEF Engine!Next

-----------------------------------------------------------------------------
(* Of every schedule engine *)

\* The inductive invariant.
EngineInv == Engine!TypeOK /\ Engine!CalendarsInv /\ Engine!TargetsInv

LEMMA EngineInvariant == ASSUME Engine!SchedulesFit PROVE Engine!Spec => []EngineInv
<1>1. Engine!Init => EngineInv
  <2>1. Engine!Init => Engine!CalendarsInv BY DEF Engine!Init, Engine!Resting, Engine!CalendarsInv
  <2>2. Engine!Init => Engine!TargetsInv BY DEF Engine!Init, Engine!Resting, Engine!TargetsInv
  <2>3. QED BY <2>1, <2>2, InitTyped DEF EngineInv
<1>2. EngineInv /\ [Engine!Next]_Engine!vars => EngineInv'
  BY StepTyped, CalendarsStep, TargetsStep DEF EngineInv
<1>3. QED BY <1>1, <1>2, PTL DEF Engine!Spec

\* Calendars, schedules, targets and the engine's tick keep their shape, whatever is
\* written while the engine is between two of its calls.
THEOREM TypeCorrect == ASSUME Engine!SchedulesFit PROVE Engine!Spec => []Engine!TypeOK
<1>1. EngineInv => Engine!TypeOK BY DEF EngineInv
<1>2. QED BY <1>1, EngineInvariant, PTL

\* What is scheduled for the day is what the targets are told: the engine evaluates no
\* schedule before the calendars have the day's answer, and a target it has told a value
\* keeps that value at the schedule's priority until somebody else writes there.
THEOREM TargetsTold == ASSUME Engine!SchedulesFit
PROVE Engine!Spec => []Engine!TargetsFollowCalendar
<1>1. Engine!CalendarsInv => Engine!ScheduleFollowsCalendar
  BY DEF Engine!CalendarsInv, Engine!ScheduleFollowsCalendar, Engine!Active, Engine!Rests, Engine!Round
<1>2. Engine!TargetsInv => Engine!TargetsFollowSchedule
  BY DEF Engine!TargetsInv, Engine!TargetsFollowSchedule, Engine!Rests
<1>3. EngineInv => Engine!TargetsFollowCalendar
  BY <1>1, <1>2 DEF EngineInv, Engine!TargetsFollowCalendar
<1>4. QED BY <1>3, EngineInvariant, PTL

-----------------------------------------------------------------------------
(* The foreign device of the data links *)

CONSTANTS Ttl, RegistrationTimeout, MaxDelay, HeartbeatPeriod
VARIABLES foreign_device, waiting, since, answers, fdt, undisturbed

Device == INSTANCE ForeignDevice

\* The times as numbers, and None none of them.
TimesFit == Device!ForeignDeviceAssumption /\ None \notin Nat

Half == Ttl \div 2

\* How old an entry may have become when the next registration is sent.
Slack == RegistrationTimeout + HeartbeatPeriod + Half - 1

DeviceTyped ==
  /\ foreign_device \in 0..Ttl \cup {None} /\ waiting \in 0..RegistrationTimeout \cup {None}
  /\ since \in 0..HeartbeatPeriod
  /\ wire \subseteq 0..MaxDelay /\ fdt \subseteq 0..Ttl
  /\ answers \in Seq({"success", "refused"}) /\ undisturbed \in BOOLEAN

\* The registration a device counts from is soon renewed; that one, or a later one, is in the
\* table or under way, and so is the one it waits for; what is in the table is young enough for
\* what is under way to arrive in time.
Renewed ==
  /\ waiting = None => foreign_device < since + Half
  /\ waiting # None => foreign_device < HeartbeatPeriod + Half + waiting
Sent(age) == \E x \in wire \cup fdt : x <= age
Covered == fdt # {} /\ wire # {} => \E a \in wire, y \in fdt : y <= a + Slack
DeviceInv ==
  /\ foreign_device # None => Renewed /\ Sent(foreign_device + RegistrationTimeout)
  /\ waiting # None => Sent(waiting)
  /\ Covered
  /\ foreign_device = None /\ waiting = None => fdt = {} /\ wire = {}
  /\ \A i \in 1..Len(answers) : answers[i] = "success"

LEMMA TimesAdded ==
  ASSUME TimesFit
  PROVE  /\ Ttl \in Nat /\ RegistrationTimeout \in Nat /\ MaxDelay \in Nat /\ HeartbeatPeriod \in Nat
         /\ Half \in Nat /\ 1 <= Half /\ Half <= Ttl /\ Slack \in Nat
         /\ RegistrationTimeout < Ttl /\ Slack + MaxDelay < Ttl
         /\ 0 \in 0..Ttl /\ 0 \in 0..RegistrationTimeout /\ 0 \in 0..MaxDelay /\ 0 \in 0..HeartbeatPeriod
<1>1. /\ Ttl \in Nat /\ RegistrationTimeout \in Nat /\ MaxDelay \in Nat /\ HeartbeatPeriod \in Nat /\ Ttl >= 2
      /\ RegistrationTimeout + HeartbeatPeriod + MaxDelay <= Ttl - Half
  BY DEF TimesFit, Device!ForeignDeviceAssumption, Half
<1>2. Half \in Nat /\ 2 * Half <= Ttl /\ Ttl <= 2 * Half + 1
  BY <1>1, SMTT(30) DEF Half
<1>. QED  BY <1>1, <1>2 DEF Slack

LEMMA DeviceInit ==
  ASSUME TimesFit, Device!Init
  PROVE  DeviceTyped /\ DeviceInv
<1>1. DeviceTyped
  BY TimesAdded DEF Device!Init, DeviceTyped
<1>2. DeviceInv
  BY TimesAdded DEF Device!Init, DeviceInv, Covered
<1>. QED  BY <1>1, <1>2

LEMMA DeviceTypeKept ==
  ASSUME TimesFit, DeviceTyped, Device!Next
  PROVE  DeviceTyped'
<1>. USE TimesAdded DEF DeviceTyped
<1>1. CASE Device!RegisterForeignDevice
  BY <1>1 DEF Device!RegisterForeignDevice
<1>2. CASE Device!SendForeignDeviceHeartbeat
  <2>1. CASE Device!Due
    BY <1>2, <2>1 DEF Device!SendForeignDeviceHeartbeat
  <2>2. CASE ~Device!Due
    BY <1>2, <2>2 DEF Device!SendForeignDeviceHeartbeat
  <2>. QED  BY <2>1, <2>2
<1>3. CASE Device!HearResult
  BY <1>3 DEF Device!HearResult
<1>4. CASE Device!PassOver
  BY <1>4 DEF Device!PassOver
<1>5. CASE Device!WaitEnds
  BY <1>5 DEF Device!WaitEnds
<1>6. CASE Device!CleanupFdt
  BY <1>6 DEF Device!CleanupFdt
<1>7. CASE Device!Tick
  <2>1. UNCHANGED <<answers, undisturbed>> /\ wire' \subseteq 0..MaxDelay
    BY <1>7 DEF Device!Tick, Device!Older
  <2>2. fdt' \subseteq 0..Ttl
    BY <1>7 DEF Device!Tick
  <2>3. waiting' \in 0..RegistrationTimeout \cup {None}
    BY <1>7 DEF Device!Tick
  <2>4. foreign_device' \in 0..Ttl \cup {None}
    BY <1>7 DEF Device!Tick
  <2>5. since' \in 0..HeartbeatPeriod
    BY <1>7 DEF Device!Tick
  <2>. QED  BY <2>1, <2>2, <2>3, <2>4, <2>5
<1>8. ASSUME NEW age \in wire, Device!ProcessRegistration(age) \/ Device!Lose(age)
      PROVE  DeviceTyped'
  BY <1>8, 0 \in 0..Ttl DEF Device!ProcessRegistration, Device!Lose
<1>9. ASSUME NEW age \in wire, NEW code \in {"success", "refused"},
             Device!OtherBbmdAnswers(age, code)
      PROVE  DeviceTyped'
  BY <1>9 DEF Device!OtherBbmdAnswers
<1>. QED  BY <1>1, <1>2, <1>3, <1>4, <1>5, <1>6, <1>7, <1>8, <1>9 DEF Device!Next

\* Something sent is enough for what comes after it: a registration goes out, one is taken
\* into the table, or what is over is cleared from it.
LEMMA DeviceStep ==
  ASSUME TimesFit, DeviceTyped, undisturbed => DeviceInv, Device!Next
  PROVE  (undisturbed => DeviceInv)'
<1>. SUFFICES ASSUME undisturbed' PROVE DeviceInv'
  OBVIOUS
<1>0. undisturbed /\ DeviceInv
  BY DEF Device!Next, Device!RegisterForeignDevice, Device!SendForeignDeviceHeartbeat,
         Device!HearResult, Device!PassOver, Device!WaitEnds, Device!CleanupFdt, Device!Tick,
         Device!ProcessRegistration, Device!Lose, Device!OtherBbmdAnswers
<1>t. DeviceTyped'
  BY DeviceTypeKept
<1>. USE <1>0, TimesAdded DEF DeviceTyped, DeviceInv
<1>s. ASSUME waiting = None, waiting' = 0, wire' = wire \cup {0}, since' \in 0..HeartbeatPeriod,
             UNCHANGED <<foreign_device, answers, fdt>>
      PROVE  DeviceInv'
  <2>1. foreign_device # None => Renewed' /\ Sent(foreign_device + RegistrationTimeout)'
    BY <1>s, TimesFit DEF Renewed, Sent, TimesFit
  <2>2. Sent(waiting)'
    BY <1>s DEF Sent
  <2>3. Covered'
    <3>1. CASE fdt = {}
      BY <1>s, <3>1 DEF Covered
    <3>2. CASE fdt # {} /\ wire # {}
      BY <1>s, <3>2 DEF Covered
    <3>3. CASE fdt # {} /\ wire = {}
      <4>n. foreign_device # None
        BY <1>s, <3>3
      <4>0. foreign_device \in Nat /\ since \in Nat /\ since <= HeartbeatPeriod
        BY <4>n
      <4>a. foreign_device < since + Half
        BY <1>s, <4>n DEF Renewed
      <4>1. foreign_device + RegistrationTimeout <= Slack
        BY <4>0, <4>a DEF Slack
      <4>2. PICK y \in fdt : y <= foreign_device + RegistrationTimeout
        BY <3>3, <4>n DEF Sent
      <4>3. y <= 0 + Slack /\ 0 \in wire' /\ y \in fdt'
        BY <1>s, <4>0, <4>1, <4>2
      <4>. QED  BY <4>3 DEF Covered
    <3>. QED  BY <3>1, <3>2, <3>3
  <2>. QED  BY <1>s, <2>1, <2>2, <2>3, TimesFit DEF TimesFit
<1>1. CASE Device!RegisterForeignDevice
  BY <1>1, <1>s DEF Device!RegisterForeignDevice
<1>2. CASE Device!SendForeignDeviceHeartbeat
  <2>1. CASE Device!Due
    BY <1>2, <2>1, <1>s DEF Device!SendForeignDeviceHeartbeat
  <2>2. CASE ~Device!Due
    <3>1. foreign_device < since' + Half
      BY <1>2, <2>2 DEF Device!SendForeignDeviceHeartbeat, Device!Due, Half
    <3>. QED  BY <1>2, <2>2, <3>1 DEF Device!SendForeignDeviceHeartbeat, Renewed, Sent, Covered
  <2>. QED  BY <2>1, <2>2
\* A wait that is over makes the registration it was for the last one.
<1>e. ASSUME waiting # None, waiting' = None, foreign_device' = 0,
             UNCHANGED <<since, wire, fdt>>, \A i \in 1..Len(answers') : answers'[i] = "success"
      PROVE  DeviceInv'
  <2>1. Renewed'
    BY <1>e DEF Renewed
  <2>2. Sent(foreign_device + RegistrationTimeout)'
    BY <1>e DEF Sent
  <2>. QED  BY <1>e, <2>1, <2>2, TimesFit DEF Covered, TimesFit
<1>3. CASE Device!HearResult
  <2>1. Head(answers) = "success" /\ \A i \in 1..Len(answers') : answers'[i] = "success"
    BY <1>3 DEF Device!HearResult
  <2>. QED  BY <1>3, <2>1, <1>e DEF Device!HearResult
<1>4. CASE Device!PassOver
  <2>1. \A i \in 1..Len(answers') : answers'[i] = "success"
    BY <1>4 DEF Device!PassOver
  <2>. QED  BY <1>4, <2>1 DEF Device!PassOver, Renewed, Sent, Covered
<1>5. CASE Device!WaitEnds
  BY <1>5, <1>e DEF Device!WaitEnds
\* Nothing that counts is over.
<1>6. CASE Device!CleanupFdt
  <2>. USE <1>6 DEF Device!CleanupFdt
  <2>1. waiting # None => Sent(waiting)'
    BY DEF Sent
  <2>2. foreign_device # None => Sent(foreign_device + RegistrationTimeout)'
    <3>1. CASE waiting # None
      BY <2>1, <3>1 DEF Sent
    <3>2. CASE waiting = None /\ foreign_device # None
      <4>1. foreign_device + RegistrationTimeout < Ttl
        BY <3>2 DEF Renewed, Slack
      <4>. QED  BY <4>1 DEF Sent
    <3>. QED  BY <3>1, <3>2
  <2>3. Covered'
    <3>. SUFFICES ASSUME fdt # {}, wire # {} PROVE \E a \in wire, y \in fdt' : y <= a + Slack
      BY DEF Covered
    <3>1. PICK a \in wire, y \in fdt : y <= a + Slack
      BY DEF Covered
    <3>2. y \in fdt'
      BY <3>1
    <3>. QED  BY <3>1, <3>2
  <2>. QED  BY <2>1, <2>2, <2>3 DEF Renewed
<1>7. CASE Device!Tick
  <2>1. /\ wire' = {age + 1 : age \in wire}
        /\ fdt' = {IF age >= Ttl THEN age ELSE age + 1 : age \in fdt}
        /\ waiting' = IF waiting = None THEN None ELSE waiting + 1
        /\ UNCHANGED answers
    BY <1>7 DEF Device!Tick, Device!Older
  <2>a. ASSUME NEW age \in Nat, Sent(age) PROVE \E x \in wire' \cup fdt' : x <= age + 1
    <3>1. PICK x \in wire \cup fdt : x <= age
      BY <2>a DEF Sent
    <3>2. CASE x \in wire
      <4>1. x + 1 \in wire' /\ x + 1 <= age + 1
        BY <2>1, <3>1, <3>2
      <4>. QED  BY <4>1
    <3>3. CASE x \in fdt
      <4>a. (IF x >= Ttl THEN x ELSE x + 1) \in fdt' /\ x \in 0..Ttl
        BY <2>1, <3>3, Zenon
      <4>b. x \in Nat
        BY <4>a
      <4>1. CASE x >= Ttl
        <5>1. x \in fdt' /\ x <= age + 1
          BY <3>1, <4>a, <4>b, <4>1
        <5>. QED  BY <5>1
      <4>2. CASE ~(x >= Ttl)
        <5>1. x + 1 \in fdt' /\ x + 1 <= age + 1
          BY <3>1, <4>a, <4>b, <4>2
        <5>. QED  BY <5>1
      <4>. QED  BY <4>1, <4>2
    <3>. QED  BY <3>1, <3>2, <3>3
  <2>b. /\ waiting # None => waiting < RegistrationTimeout
        /\ waiting = None /\ foreign_device # None => since < HeartbeatPeriod
        /\ since' = IF since >= HeartbeatPeriod THEN since ELSE since + 1
        /\ foreign_device' = IF foreign_device = None \/ foreign_device >= Ttl THEN foreign_device
                             ELSE foreign_device + 1
    BY <1>7 DEF Device!Tick
  <2>2. waiting = None <=> waiting' = None
    BY <2>1, TimesFit DEF TimesFit
  <2>3. ASSUME foreign_device # None
        PROVE  Renewed' /\ Sent(foreign_device + RegistrationTimeout)'
    <3>0. foreign_device \in Nat /\ since \in Nat /\ since <= HeartbeatPeriod
      BY <2>3
    <3>1. foreign_device < HeartbeatPeriod + Half + RegistrationTimeout
      <4>1. CASE waiting = None
        BY <3>0, <4>1, <2>3 DEF Renewed
      <4>2. CASE waiting # None
        BY <3>0, <4>2, <2>b, <2>3 DEF Renewed
      <4>. QED  BY <4>1, <4>2
    <3>2. foreign_device' = foreign_device + 1
      BY <3>0, <3>1, <2>b, <2>3 DEF Slack
    <3>3. Renewed'
      <4>1. CASE waiting = None
        <5>1. waiting' = None /\ since' = since + 1 /\ foreign_device < since + Half
          BY <3>0, <4>1, <2>2, <2>3, <2>b DEF Renewed
        <5>. QED  BY <3>0, <3>2, <5>1 DEF Renewed
      <4>2. CASE waiting # None
        <5>1. /\ waiting' # None /\ waiting' = waiting + 1
              /\ foreign_device < HeartbeatPeriod + Half + waiting
          BY <4>2, <2>1, <2>2, <2>3 DEF Renewed
        <5>2. waiting \in Nat
          BY <4>2
        <5>. QED  BY <3>0, <3>2, <5>1, <5>2 DEF Renewed
      <4>. QED  BY <4>1, <4>2
    <3>4. PICK x \in wire' \cup fdt' : x <= (foreign_device + RegistrationTimeout) + 1
      BY <3>0, <2>3, <2>a
    <3>5. Sent(foreign_device + RegistrationTimeout)'
      BY <3>0, <3>2, <3>4, <1>t DEF Sent
    <3>. QED  BY <3>3, <3>5
  <2>4. waiting # None => Sent(waiting)'
    BY <2>1, <2>a DEF Sent
  <2>5. Covered'
    <3>. SUFFICES ASSUME fdt # {}, wire # {}
                  PROVE  \E a \in wire', y \in fdt' : y <= a + Slack
      BY <2>1 DEF Covered
    <3>1. PICK a \in wire, y \in fdt : y <= a + Slack
      BY DEF Covered
    <3>2. a + 1 \in wire' /\ y \in Nat /\ a \in Nat
      BY <2>1
    <3>3. CASE y >= Ttl
      <4>1. y \in fdt' /\ y <= (a + 1) + Slack
        BY <2>1, <3>1, <3>2, <3>3
      <4>. QED  BY <3>2, <4>1
    <3>4. CASE ~(y >= Ttl)
      <4>1. y + 1 \in fdt' /\ y + 1 <= (a + 1) + Slack
        BY <2>1, <3>1, <3>2, <3>4
      <4>. QED  BY <3>2, <4>1
    <3>. QED  BY <3>3, <3>4
  <2>6. foreign_device' = None => foreign_device = None
    BY <2>b, TimesFit DEF TimesFit
  <2>7. fdt = {} /\ wire = {} => fdt' = {} /\ wire' = {}
    BY <2>1
  <2>8. foreign_device' = None /\ waiting' = None => fdt' = {} /\ wire' = {}
    BY <2>2, <2>6, <2>7
  <2>9. foreign_device' # None => foreign_device # None
    BY <2>b
  <2>. QED  BY <2>1, <2>2, <2>3, <2>4, <2>5, <2>8, <2>9
<1>8. ASSUME NEW age \in wire, UNCHANGED <<foreign_device, waiting, since>>,
             wire' = wire \ {age}, fdt' = fdt \cup {0},
             \A i \in 1..Len(answers') : answers'[i] = "success"
      PROVE  DeviceInv'
  <2>1. ASSUME NEW n \in Nat, Sent(n) PROVE Sent(n)'
    BY <1>8, <2>1 DEF Sent
  <2>2. Covered'
    <3>. SUFFICES ASSUME NEW a \in wire' PROVE 0 \in fdt' /\ 0 <= a + Slack
      BY DEF Covered
    <3>. QED  BY <1>8
  <2>. QED  BY <1>8, <2>1, <2>2 DEF Renewed
<1>9. ASSUME NEW age \in wire, Device!ProcessRegistration(age) \/ Device!Lose(age)
      PROVE  DeviceInv'
  BY <1>8, <1>9 DEF Device!ProcessRegistration, Device!Lose
<1>10. ASSUME NEW age \in wire, NEW code \in {"success", "refused"},
              Device!OtherBbmdAnswers(age, code)
       PROVE  DeviceInv'
  <2>1. code = "success" /\ answers' = Append(answers, "success")
    BY <1>10 DEF Device!OtherBbmdAnswers
  <2>2. \A i \in 1..Len(answers') : answers'[i] = "success"
    BY <2>1
  <2>. QED  BY <1>8, <1>10, <2>1, <2>2 DEF Device!OtherBbmdAnswers
<1>. QED  BY <1>1, <1>2, <1>3, <1>4, <1>5, <1>6, <1>7, <1>9, <1>10 DEF Device!Next

\* A device that believes itself registered, sends its heartbeats and was neither refused nor
\* lost a message is in the table of its BBMD, once its first registration has arrived: for any
\* times of which an answer, a heartbeat and a message together fit into what a renewal leaves
\* of the time to live.
THEOREM RegistrationLasts ==
  ASSUME TimesFit
  PROVE  Device!Spec => []Device!StaysRegistered
<1>1. Device!Init => DeviceTyped /\ (undisturbed => DeviceInv)
  BY DeviceInit
<1>2. /\ DeviceTyped /\ (undisturbed => DeviceInv)
      /\ [Device!Next]_(Device!vars)
      => (DeviceTyped /\ (undisturbed => DeviceInv))'
  <2>. SUFFICES ASSUME DeviceTyped, undisturbed => DeviceInv, [Device!Next]_(Device!vars)
                PROVE  DeviceTyped' /\ (undisturbed => DeviceInv)'
    OBVIOUS
  <2>1. CASE Device!Next
    BY <2>1, DeviceTypeKept, DeviceStep
  <2>2. CASE UNCHANGED Device!vars
    BY <2>2 DEF Device!vars, DeviceTyped, DeviceInv, Renewed, Sent, Covered
  <2>. QED  BY <2>1, <2>2
<1>3. DeviceTyped /\ (undisturbed => DeviceInv) => Device!StaysRegistered
  <2>. SUFFICES ASSUME DeviceTyped, DeviceInv, foreign_device # None, fdt # {} \/ wire = {}
                PROVE  \E age \in fdt : age < Ttl
    BY DEF Device!StaysRegistered
  <2>. USE TimesAdded DEF DeviceTyped, DeviceInv
  <2>1. CASE wire # {}
    <3>1. PICK a \in wire, y \in fdt : y <= a + Slack
      BY <2>1 DEF Covered
    <3>. QED  BY <3>1
  <2>2. CASE wire = {} /\ waiting # None
    <3>1. PICK y \in fdt : y <= waiting
      BY <2>2 DEF Sent
    <3>. QED  BY <2>2, <3>1
  <2>3. CASE wire = {} /\ waiting = None
    <3>1. PICK x \in fdt : x <= foreign_device + RegistrationTimeout
      BY <2>3 DEF Sent
    <3>2. foreign_device \in Nat /\ since \in Nat /\ since <= HeartbeatPeriod
      OBVIOUS
    <3>3. foreign_device < since + Half
      BY <2>3 DEF Renewed
    <3>. QED  BY <3>1, <3>2, <3>3 DEF Slack
  <2>. QED  BY <2>1, <2>2, <2>3
<1>. QED  BY <1>1, <1>2, <1>3, PTL DEF Device!Spec

-----------------------------------------------------------------------------
(* The asynchronous client's subscriptions *)

CONSTANTS Objects, Packets, MaxCommands, MaxPackets, MaxRenewals
VARIABLES running, commands, pending, subscribers, subscriptions, searches, windows, packets,
          renewals, taken

Cov == INSTANCE ClientNotifications

Phases == {"asking", "live", "renewing", "leaving", "closed"}
Subscriptions ==
  [object : Objects, phase : Phases, requests : Nat,
   reply : {None, "acknowledged", "refused", "closed"}, inbox : Seq(Packets), read : Nat,
   silent : BOOLEAN]

Calls == 1..Len(subscriptions)

Asks(command) == command.kind = "SubscribeCov"
SubscribeCov(s) == [kind |-> "SubscribeCov", by |-> <<s, 1>>]
Queued(s) == \E i \in 1..Len(commands) : commands[i] = SubscribeCov(s)

\* Callers ask in their order, and are handled in it.
QueueInv ==
  /\ \E S : commands \in Seq(S)
  /\ \A i \in 1..Len(commands) :
       Asks(commands[i]) => \E s \in Calls : commands[i] = SubscribeCov(s)
  /\ \A i, j \in 1..Len(commands), s, t \in Calls :
       i < j /\ commands[i] = SubscribeCov(s) /\ commands[j] = SubscribeCov(t) => s < t
  /\ \A s, t \in Calls : ~Queued(s) /\ Queued(t) => s < t

\* The last to have asked for an object has its notifications.
LastToAsk(s) == \A t \in Calls :
  ~Queued(t) /\ subscriptions[t].object = subscriptions[s].object => t <= s
Bound(s) ==
  /\ subscriptions[s].object \in DOMAIN subscribers
  /\ subscribers[subscriptions[s].object] = s
BindInv ==
  running => \A s \in Calls : ~Queued(s) /\ LastToAsk(s) /\ subscriptions[s].phase # "closed" => Bound(s)

TakenInv ==
  taken # None /\ taken.listener # None =>
    /\ taken.listener \in Calls
    /\ taken.packet.form = "Whole" =>
         LET inbox == subscriptions[taken.listener].inbox
         IN  inbox # <<>> /\ inbox[Len(inbox)] = taken.packet

NotificationsInv ==
  /\ running \in BOOLEAN /\ subscriptions \in Seq(Subscriptions)
  /\ QueueInv /\ BindInv /\ TakenInv

\* What a step leaves of the callers: what they asked for and what they have heard, and
\* nobody comes back.
Keeps ==
  /\ subscriptions' \in Seq(Subscriptions) /\ Len(subscriptions') = Len(subscriptions)
  /\ \A s \in Calls :
       /\ subscriptions'[s].object = subscriptions[s].object
       /\ subscriptions'[s].inbox = subscriptions[s].inbox
       /\ subscriptions'[s].phase # "closed" => subscriptions[s].phase # "closed"

\* What it leaves of the sinks: those of callers who are there.
Feeds ==
  \A s \in Calls : subscriptions[s].phase # "closed" /\ Bound(s) =>
    /\ subscriptions[s].object \in DOMAIN subscribers'
    /\ subscribers'[subscriptions[s].object] = s

LEMMA Stays ==
  ASSUME NotificationsInv, Keeps, Feeds, QueueInv', \A s \in Calls : Queued(s)' <=> Queued(s),
         running' \in BOOLEAN, running' => running, UNCHANGED taken
  PROVE  NotificationsInv'
<1>1. Len(subscriptions) \in Nat /\ Calls' = Calls
  BY DEF NotificationsInv, Keeps, Calls
<1>2. BindInv'
  <2>. SUFFICES ASSUME running', NEW s \in Calls, ~Queued(s)', LastToAsk(s)',
                       subscriptions'[s].phase # "closed"
                PROVE  Bound(s)'
    BY <1>1 DEF BindInv
  <2>1. ~Queued(s) /\ subscriptions[s].phase # "closed"
    BY DEF Keeps
  <2>2. LastToAsk(s)
    BY <1>1 DEF LastToAsk, Keeps
  <2>3. Bound(s)
    BY <2>1, <2>2 DEF NotificationsInv, BindInv
  <2>. QED  BY <2>1, <2>3 DEF Feeds, Bound, Keeps
<1>3. TakenInv'
  BY <1>1 DEF NotificationsInv, TakenInv, Keeps
<1>. QED  BY <1>2, <1>3 DEF NotificationsInv, Keeps

\* The queue: a command that asks for nothing goes in, a subscription does, and the first comes out.
LEMMA QueueOther ==
  ASSUME QueueInv, NEW c, ~Asks(c), commands' = Append(commands, c), Calls' = Calls
  PROVE  QueueInv' /\ \A s : Queued(s)' <=> Queued(s)
<1>1. PICK S : commands \in Seq(S)
  BY DEF QueueInv
<1>2. commands \in Seq(S \cup {c}) /\ c \in S \cup {c}
  BY <1>1, SeqMonotonic
<1>3. /\ commands' \in Seq(S \cup {c}) /\ Len(commands') = Len(commands) + 1 /\ Len(commands) \in Nat
      /\ \A i \in 1..Len(commands) : commands'[i] = commands[i]
      /\ commands'[Len(commands) + 1] = c
  BY <1>2, AppendProperties
<1>4. \A s : SubscribeCov(s) # c
  BY DEF SubscribeCov, Asks
<1>6. \A i \in 1..Len(commands') : i = Len(commands) + 1 \/ i \in 1..Len(commands)
  BY <1>3
<1>5. ASSUME NEW s PROVE Queued(s)' <=> Queued(s)
  <2>1. ASSUME Queued(s) PROVE Queued(s)'
    BY <1>3, <2>1 DEF Queued, SubscribeCov
  <2>2. ASSUME Queued(s)' PROVE Queued(s)
    <3>1. PICK i \in 1..Len(commands') : commands'[i] = SubscribeCov(s)
      BY <2>2 DEF Queued, SubscribeCov
    <3>2. i \in 1..Len(commands) /\ commands[i] = SubscribeCov(s)
      BY <1>3, <1>4, <1>6, <3>1
    <3>. QED  BY <3>2 DEF Queued
  <2>. QED  BY <2>1, <2>2
<1>7. (\A i \in 1..Len(commands) :
       Asks(commands[i]) => \E s \in Calls : commands[i] = SubscribeCov(s))'
  BY <1>3, <1>6 DEF QueueInv, Asks, SubscribeCov
<1>8. (\A i, j \in 1..Len(commands), s, t \in Calls :
       i < j /\ commands[i] = SubscribeCov(s) /\ commands[j] = SubscribeCov(t) => s < t)'
  <2>. SUFFICES ASSUME NEW i \in 1..Len(commands'), NEW j \in 1..Len(commands'), i < j,
                       NEW s \in Calls, NEW t \in Calls,
                       commands'[i] = SubscribeCov(s), commands'[j] = SubscribeCov(t)
                PROVE  s < t
    BY DEF SubscribeCov
  <2>1. /\ i \in 1..Len(commands) /\ commands[i] = SubscribeCov(s)
        /\ j \in 1..Len(commands) /\ commands[j] = SubscribeCov(t)
    BY <1>3, <1>4, <1>6
  <2>. QED  BY <2>1 DEF QueueInv
<1>9. (\A s, t \in Calls : ~Queued(s) /\ Queued(t) => s < t)'
  BY <1>5 DEF QueueInv
<1>. QED  BY <1>3, <1>5, <1>7, <1>8, <1>9 DEF QueueInv

LEMMA QueueSubscription ==
  ASSUME QueueInv, NEW n \in Nat, Calls = 1..n, Calls' = 1..(n + 1),
         commands' = Append(commands, SubscribeCov(n + 1))
  PROVE  QueueInv' /\ Queued(n + 1)' /\ \A s \in Calls : Queued(s)' <=> Queued(s)
<1>. DEFINE c == SubscribeCov(n + 1)
<1>1. PICK S : commands \in Seq(S)
  BY DEF QueueInv
<1>2. commands \in Seq(S \cup {c}) /\ c \in S \cup {c}
  BY <1>1, SeqMonotonic
<1>3. /\ commands' \in Seq(S \cup {c}) /\ Len(commands') = Len(commands) + 1 /\ Len(commands) \in Nat
      /\ \A i \in 1..Len(commands) : commands'[i] = commands[i]
      /\ commands'[Len(commands) + 1] = c
  BY <1>2, AppendProperties
<1>4. \A s : SubscribeCov(s) = c => s = n + 1
  BY DEF SubscribeCov
<1>6. \A i \in 1..Len(commands') : i = Len(commands) + 1 \/ i \in 1..Len(commands)
  BY <1>3
<1>5. Queued(n + 1)' /\ \A s \in Calls : Queued(s)' <=> Queued(s)
  <2>1. Len(commands) + 1 \in 1..Len(commands')
    BY <1>3
  <2>2. Queued(n + 1)'
    BY <1>3, <2>1 DEF Queued, SubscribeCov
  <2>3. ASSUME NEW s \in Calls PROVE Queued(s)' <=> Queued(s)
    <3>1. ASSUME Queued(s) PROVE Queued(s)'
      BY <1>3, <3>1 DEF Queued, SubscribeCov
    <3>2. ASSUME Queued(s)' PROVE Queued(s)
      <4>1. PICK i \in 1..Len(commands') : commands'[i] = SubscribeCov(s)
        BY <3>2 DEF Queued, SubscribeCov
      <4>2. s # n + 1
        OBVIOUS
      <4>3. i \in 1..Len(commands) /\ commands[i] = SubscribeCov(s)
        BY <1>3, <1>4, <1>6, <4>1, <4>2
      <4>. QED  BY <4>3 DEF Queued
    <3>. QED  BY <3>1, <3>2
  <2>. QED  BY <2>2, <2>3
<1>7. (\A i \in 1..Len(commands) :
       Asks(commands[i]) => \E s \in Calls : commands[i] = SubscribeCov(s))'
  BY <1>3, <1>6 DEF QueueInv, Asks, SubscribeCov
<1>8. (\A i, j \in 1..Len(commands), s, t \in Calls :
       i < j /\ commands[i] = SubscribeCov(s) /\ commands[j] = SubscribeCov(t) => s < t)'
  <2>. SUFFICES ASSUME NEW i \in 1..Len(commands'), NEW j \in 1..Len(commands'), i < j,
                       NEW s \in 1..(n + 1), NEW t \in 1..(n + 1),
                       commands'[i] = SubscribeCov(s), commands'[j] = SubscribeCov(t)
                PROVE  s < t
    BY DEF SubscribeCov
  <2>1. i \in 1..Len(commands)
    BY <1>3
  <2>2. Asks(commands[i])
    BY <1>3, <2>1 DEF Asks, SubscribeCov
  <2>3. s \in 1..n
    <3>1. PICK u \in Calls : commands[i] = SubscribeCov(u)
      BY <2>1, <2>2 DEF QueueInv
    <3>. QED  BY <1>3, <2>1, <3>1 DEF SubscribeCov
  <2>4. CASE j = Len(commands) + 1
    BY <1>3, <1>4, <2>3, <2>4
  <2>5. CASE j \in 1..Len(commands)
    <3>1. Asks(commands[j])
      BY <1>3, <2>5 DEF Asks, SubscribeCov
    <3>2. PICK u \in Calls : commands[j] = SubscribeCov(u)
      BY <2>5, <3>1 DEF QueueInv
    <3>3. t \in 1..n
      BY <1>3, <2>5, <3>2 DEF SubscribeCov
    <3>. QED  BY <1>3, <2>1, <2>3, <2>5, <3>3 DEF QueueInv
  <2>. QED  BY <1>6, <2>4, <2>5
<1>9. (\A s, t \in Calls : ~Queued(s) /\ Queued(t) => s < t)'
  <2>. SUFFICES ASSUME NEW s \in 1..(n + 1), NEW t \in 1..(n + 1), ~Queued(s)', Queued(t)'
                PROVE  s < t
    OBVIOUS
  <2>1. s \in 1..n
    BY <1>5
  <2>2. CASE t = n + 1
    BY <2>1, <2>2
  <2>3. CASE t \in 1..n
    BY <1>5, <2>1, <2>3 DEF QueueInv
  <2>. QED  BY <2>2, <2>3
<1>. QED  BY <1>3, <1>5, <1>7, <1>8, <1>9 DEF QueueInv

LEMMA QueueRest ==
  ASSUME QueueInv, Calls \subseteq Nat, commands # <<>>, commands' = Tail(commands), Calls' = Calls
  PROVE  /\ QueueInv'
         /\ ~Asks(Head(commands)) => \A s : Queued(s)' <=> Queued(s)
         /\ Asks(Head(commands)) => \E t \in Calls :
              /\ Head(commands) = SubscribeCov(t) /\ Queued(t) /\ ~Queued(t)'
              /\ \A s \in Calls : s # t => (Queued(s)' <=> Queued(s))
              /\ \A s \in Calls : ~Queued(s)' => s <= t
<1>1. PICK S : commands \in Seq(S)
  BY DEF QueueInv
<1>2. /\ commands' \in Seq(S) /\ Len(commands') = Len(commands) - 1
      /\ Len(commands) \in Nat /\ 1 \in 1..Len(commands) /\ Head(commands) = commands[1]
      /\ \A i \in 1..Len(commands') : i + 1 \in 1..Len(commands) /\ commands'[i] = commands[i + 1]
  BY <1>1, HeadTailProperties
<1>3. ASSUME NEW i \in 1..Len(commands), i # 1
      PROVE  i - 1 \in 1..Len(commands') /\ commands'[i - 1] = commands[i]
  <2>1. i - 1 \in 1..Len(commands') /\ (i - 1) + 1 = i
    BY <1>2, <1>3
  <2>2. commands'[i - 1] = commands[(i - 1) + 1]
    BY <1>2, <2>1
  <2>. QED  BY <2>1, <2>2
<1>4. ASSUME NEW s, Queued(s)' PROVE \E i \in 2..Len(commands) : commands[i] = SubscribeCov(s)
  <2>1. PICK i \in 1..Len(commands') : commands'[i] = SubscribeCov(s)
    BY <1>4 DEF Queued, SubscribeCov
  <2>2. i + 1 \in 2..Len(commands) /\ commands[i + 1] = SubscribeCov(s)
    BY <1>2, <2>1
  <2>. QED  BY <2>2
<1>5. ASSUME NEW s, Queued(s), Head(commands) # SubscribeCov(s) PROVE Queued(s)'
  <2>1. PICK i \in 1..Len(commands) : commands[i] = SubscribeCov(s)
    BY <1>5 DEF Queued
  <2>2. i # 1
    BY <1>2, <1>5, <2>1
  <2>3. i - 1 \in 1..Len(commands') /\ commands'[i - 1] = SubscribeCov(s)
    BY <1>3, <2>1, <2>2
  <2>. QED  BY <2>3 DEF Queued, SubscribeCov
<1>6. ASSUME NEW s, Queued(s)' PROVE Queued(s)
  BY <1>2, <1>4, <1>6 DEF Queued
<1>7. (\A i \in 1..Len(commands) :
       Asks(commands[i]) => \E s \in Calls : commands[i] = SubscribeCov(s))'
  <2>. SUFFICES ASSUME NEW i \in 1..Len(commands'), Asks(commands'[i])
                PROVE  \E s \in Calls : commands'[i] = SubscribeCov(s)
    BY Calls' = Calls DEF Asks, SubscribeCov
  <2>1. i + 1 \in 1..Len(commands) /\ commands'[i] = commands[i + 1]
    BY <1>2
  <2>. QED  BY <2>1 DEF QueueInv
<1>8. (\A i, j \in 1..Len(commands), s, t \in Calls :
       i < j /\ commands[i] = SubscribeCov(s) /\ commands[j] = SubscribeCov(t) => s < t)'
  <2>. SUFFICES ASSUME NEW i \in 1..Len(commands'), NEW j \in 1..Len(commands'), i < j,
                       NEW s \in Calls', NEW t \in Calls',
                       commands'[i] = SubscribeCov(s)', commands'[j] = SubscribeCov(t)'
                PROVE  s < t
    OBVIOUS
  <2>0. /\ s \in Calls /\ commands'[i] = SubscribeCov(s)
        /\ t \in Calls /\ commands'[j] = SubscribeCov(t)
    BY Calls' = Calls DEF SubscribeCov
  <2>1. /\ i + 1 \in 1..Len(commands) /\ commands[i + 1] = SubscribeCov(s)
        /\ j + 1 \in 1..Len(commands) /\ commands[j + 1] = SubscribeCov(t) /\ i + 1 < j + 1
    BY <1>2, <2>0
  <2>. QED  BY <2>0, <2>1 DEF QueueInv
\* What the queue starts with is the next of those who ask.
<1>9. CASE ~Asks(Head(commands))
  <2>0. \A s : Head(commands) # SubscribeCov(s)
    BY <1>9 DEF Asks, SubscribeCov
  <2>1. \A s : Queued(s)' <=> Queued(s)
    <3>. TAKE s
    <3>. QED  BY <1>5, <1>6, <2>0
  <2>2. (\A s, t \in Calls : ~Queued(s) /\ Queued(t) => s < t)'
    BY <2>1 DEF QueueInv
  <2>3. QueueInv'
    BY <1>2, <1>7, <1>8, <2>2 DEF QueueInv
  <2>. QED  BY <1>9, <2>1, <2>3
<1>10. CASE Asks(Head(commands))
  <2>1. PICK t \in Calls : Head(commands) = SubscribeCov(t)
    BY <1>2, <1>10 DEF QueueInv
  <2>2. Queued(t)
    BY <1>2, <2>1 DEF Queued
  <2>3. \A s \in Calls : Queued(s)' => t < s
    <3>. SUFFICES ASSUME NEW s \in Calls, Queued(s)' PROVE t < s
      OBVIOUS
    <3>1. PICK i \in 2..Len(commands) : commands[i] = SubscribeCov(s)
      BY <1>4
    <3>2. 1 < i /\ i \in 1..Len(commands) /\ commands[1] = SubscribeCov(t)
      BY <1>2, <2>1
    <3>. QED  BY <1>2, <3>1, <3>2 DEF QueueInv
  <2>4. ~Queued(t)'
    BY <2>3
  <2>5. \A s : SubscribeCov(s) = SubscribeCov(t) => s = t
    BY DEF SubscribeCov
  <2>6. \A s \in Calls : s # t => (Queued(s)' <=> Queued(s))
    BY <1>5, <1>6, <2>1, <2>5
  <2>7. \A s \in Calls : ~Queued(s)' => s <= t
    BY <2>2, <2>6 DEF QueueInv
  <2>8. (\A r, s \in Calls : ~Queued(r) /\ Queued(s) => r < s)'
    <3>. SUFFICES ASSUME NEW r \in Calls, NEW s \in Calls, ~Queued(r)', Queued(s)' PROVE r < s
      OBVIOUS
    <3>1. r <= t /\ t < s
      BY <2>3, <2>7
    <3>. QED  BY <3>1
  <2>9. QueueInv'
    BY <1>2, <1>7, <1>8, <2>8 DEF QueueInv
  <2>. QED  BY <1>10, <2>1, <2>2, <2>4, <2>6, <2>7, <2>9
<1>. QED  BY <1>9, <1>10

\* A set of numbers that has a bound and is not empty has a greatest one.
LEMMA Greatest ==
  ASSUME NEW n \in Nat, NEW S \in SUBSET (1..n), S # {}
  PROVE  \E s \in S : \A other \in S : other <= s
<1>. DEFINE Gaps == {n - s : s \in S}
           Less == OpToRel(<, Nat)
<1>0. \A s \in S : s \in Nat /\ n - s \in Nat
  OBVIOUS
<1>1. Gaps \subseteq Nat /\ Gaps # {}
  BY <1>0
<1>2. \E i \in Gaps : \A j \in Gaps : ~(<<j, i>> \in Less)
  <2>1. IsWellFoundedOn(Less, Nat) BY NatLessThanWellFounded
  <2>. HIDE DEF Less, Gaps
  <2>. QED  BY <1>1, <2>1, WFMin
<1>3. \A i, j \in Nat : ~(<<j, i>> \in Less) => i <= j
  BY DEF OpToRel
<1>4. PICK i \in Gaps : \A j \in Gaps : i <= j
  <2>. HIDE DEF Less, Gaps
  <2>. QED  BY <1>1, <1>2, <1>3
<1>5. PICK s \in S : i = n - s
  OBVIOUS
<1>6. ASSUME NEW other \in S PROVE other <= s
  <2>1. n - other \in Gaps
    OBVIOUS
  <2>2. n - s <= n - other
    <3>. HIDE DEF Gaps
    <3>. QED  BY <1>4, <1>5, <2>1
  <2>. QED  BY <1>0, <2>2
<1>. QED  BY <1>6

LEMMA Listening ==
  ASSUME NotificationsInv, NEW object, Cov!Listener(object) # None
  PROVE  LET s == Cov!Listener(object) IN
         /\ s \in Calls /\ subscriptions[s].object = object /\ subscriptions[s].phase # "closed"
         /\ ~Queued(s) /\ LastToAsk(s)
<1>. DEFINE asked == {s \in Cov!Ids : /\ subscriptions[s].object = object
                                      /\ Cov!Command("SubscribeCov", <<s, 1>>) \notin Cov!Range(commands)}
            last == CHOOSE s \in asked : \A other \in asked : other <= s
<1>1. Cov!Ids = Calls /\ Len(subscriptions) \in Nat
  BY DEF Cov!Ids, Calls, NotificationsInv
<1>2. DOMAIN commands = 1..Len(commands)
  BY DEF NotificationsInv, QueueInv
<1>3. \A s : Cov!Command("SubscribeCov", <<s, 1>>) \in Cov!Range(commands) <=> Queued(s)
  BY <1>2 DEF Cov!Command, Cov!Range, Queued, SubscribeCov
<1>4. asked = {s \in Calls : subscriptions[s].object = object /\ ~Queued(s)}
  BY <1>1, <1>3
<1>5. asked # {} /\ Cov!Listener(object) = last /\ Cov!Open(last)
  BY DEF Cov!Listener
<1>6. last \in asked /\ \A other \in asked : other <= last
  <2>1. asked \in SUBSET (1..Len(subscriptions))
    BY <1>4 DEF Calls
  <2>2. \E s \in asked : \A other \in asked : other <= s
    <3>. HIDE DEF asked
    <3>. QED  BY <1>1, <1>5, <2>1, Greatest
  <2>. HIDE DEF asked
  <2>. QED  BY <2>2
<1>7. last \in Calls /\ subscriptions[last].object = object /\ ~Queued(last)
  BY <1>4, <1>6
<1>8. LastToAsk(last)
  <2>. HIDE DEF last
  <2>. QED  BY <1>4, <1>6, <1>7 DEF LastToAsk
<1>9. subscriptions[last].phase # "closed"
  BY <1>5 DEF Cov!Open, Cov!Phase
<1>. HIDE DEF last, asked
<1>. QED  BY <1>5, <1>7, <1>8, <1>9

\* One caller's call changes: neither what it asked for nor what it has heard.
LEMMA Changed ==
  ASSUME NotificationsInv, NEW s, NEW call,
         subscriptions' = [subscriptions EXCEPT ![s] = call],
         s \in Calls => /\ call \in Subscriptions /\ call.object = subscriptions[s].object
                        /\ call.inbox = subscriptions[s].inbox
                        /\ call.phase # "closed" => subscriptions[s].phase # "closed"
  PROVE  Keeps
<1>1. subscriptions \in Seq(Subscriptions) /\ Len(subscriptions) \in Nat
      /\ DOMAIN subscriptions = Calls /\ \A r \in Calls : subscriptions[r] \in Subscriptions
  BY DEF NotificationsInv, Calls
<1>2. CASE s \in Calls
  BY <1>1, <1>2 DEF Keeps, Calls
<1>3. CASE s \notin Calls
  <2>1. subscriptions' = subscriptions
    BY <1>1, <1>3
  <2>. QED  BY <1>1, <2>1 DEF Keeps
<1>. QED  BY <1>2, <1>3

LEMMA Unchanged ==
  ASSUME NotificationsInv, UNCHANGED subscriptions
  PROVE  Keeps
BY DEF NotificationsInv, Keeps

LEMMA IsSubscription ==
  ASSUME NotificationsInv, NEW s \in Calls
  PROVE  /\ subscriptions[s] \in Subscriptions
         /\ subscriptions[s].object \in Objects /\ subscriptions[s].phase \in Phases
         /\ subscriptions[s].requests \in Nat /\ subscriptions[s].inbox \in Seq(Packets)
         /\ subscriptions[s].reply \in {None, "acknowledged", "refused", "closed"}
         /\ subscriptions[s].read \in Nat /\ subscriptions[s].silent \in BOOLEAN
<1>1. subscriptions[s] \in Subscriptions
  BY DEF NotificationsInv, Calls
<1>. QED  BY <1>1 DEF Subscriptions

\* A caller is answered.
LEMMA RepliedKeeps ==
  ASSUME NotificationsInv, NEW request, NEW reply \in {"acknowledged", "refused"},
         subscriptions' = Cov!Replied(request, reply)
  PROVE  Keeps
<1>1. CASE Cov!Awaited(request)
  <2>. DEFINE s == request[1]
  <2>1. subscriptions' = [subscriptions EXCEPT ![s] = [subscriptions[s] EXCEPT !.reply = reply]]
    BY <1>1 DEF Cov!Replied
  <2>2. s \in Calls => /\ [subscriptions[s] EXCEPT !.reply = reply] \in Subscriptions
                       /\ [subscriptions[s] EXCEPT !.reply = reply].object = subscriptions[s].object
                       /\ [subscriptions[s] EXCEPT !.reply = reply].inbox = subscriptions[s].inbox
                       /\ [subscriptions[s] EXCEPT !.reply = reply].phase = subscriptions[s].phase
    BY IsSubscription DEF Subscriptions
  <2>. HIDE DEF s
  <2>. QED  BY <2>1, <2>2, Changed
<1>2. CASE ~Cov!Awaited(request)
  BY <1>2, Unchanged DEF Cov!Replied
<1>. QED  BY <1>1, <1>2

\* The table loses the sinks of callers who are gone.
LEMMA Tidied ==
  ASSUME NotificationsInv, NEW requests, NEW open, NEW s \in Calls,
         Cov!RemoveCancelled(subscribers, requests, open),
         subscriptions[s].phase # "closed", Bound(s)
  PROVE  /\ subscriptions[s].object \in DOMAIN subscribers'
         /\ subscribers'[subscriptions[s].object] = s
BY DEF Cov!RemoveCancelled, Cov!Restrict, Cov!Open, Cov!Phase, Bound

LEMMA TidiedFeeds ==
  ASSUME NotificationsInv, NEW requests, NEW open, Cov!RemoveCancelled(subscribers, requests, open)
  PROVE  Feeds
BY Tidied DEF Feeds

\* The steps.
LEMMA NotificationsInit ==
  ASSUME Cov!Init
  PROVE  NotificationsInv
<1>1. Calls = {} /\ subscriptions \in Seq(Subscriptions) /\ Len(commands) = 0
  BY DEF Cov!Init, Calls
<1>2. QueueInv
  BY <1>1 DEF Cov!Init, QueueInv
<1>. QED  BY <1>1, <1>2 DEF Cov!Init, NotificationsInv, BindInv, TakenInv

LEMMA Settled ==
  ASSUME NotificationsInv, Keeps, Feeds, UNCHANGED <<running, commands, taken>>
  PROVE  NotificationsInv'
<1>1. Calls' = Calls
  BY DEF Keeps, Calls
<1>2. \A s \in Calls : Queued(s)' <=> Queued(s)
  BY DEF Queued, SubscribeCov
<1>3. QueueInv'
  <2>1. QueueInv /\ commands' = commands
    BY DEF NotificationsInv
  <2>2. PICK S : commands' \in Seq(S)
    BY <2>1 DEF QueueInv
  <2>3. (\A s, t \in Calls : ~Queued(s) /\ Queued(t) => s < t)'
    BY <1>1, <1>2, <2>1 DEF QueueInv
  <2>. QED  BY <1>1, <2>1, <2>2, <2>3 DEF QueueInv, SubscribeCov, Asks
<1>. QED  BY <1>2, <1>3, Stays DEF NotificationsInv

\* Another command joins the queue.
LEMMA Joined ==
  ASSUME NotificationsInv, Keeps, NEW c, ~Asks(c), Cov!Sends(c), UNCHANGED <<running, subscribers, taken>>
  PROVE  NotificationsInv'
<1>1. Calls' = Calls
  BY DEF Keeps, Calls
<1>2. QueueInv' /\ \A s : Queued(s)' <=> Queued(s)
  BY <1>1, QueueOther DEF NotificationsInv, Cov!Sends
<1>3. Feeds
  BY DEF Feeds, Bound
<1>. QED  BY <1>2, <1>3, Stays DEF NotificationsInv

LEMMA SubscribeStep ==
  ASSUME NotificationsInv, NEW object \in Objects, Cov!Subscribe(object)
  PROVE  NotificationsInv'
<1>. DEFINE call == [object |-> object, phase |-> "asking", requests |-> 1,
                     reply |-> None, inbox |-> <<>>, read |-> 0, silent |-> FALSE]
<1>1. PICK n \in Nat : n = Len(subscriptions) /\ Calls = 1..n /\ subscriptions \in Seq(Subscriptions)
  BY DEF NotificationsInv, Calls
<1>2. call \in Subscriptions
  BY DEF Subscriptions, Phases
<1>3. subscriptions' = Append(subscriptions, call) /\ UNCHANGED <<running, subscribers, taken>>
      /\ commands' = Append(commands, SubscribeCov(n + 1))
  BY <1>1 DEF Cov!Subscribe, Cov!Sends, Cov!Command, SubscribeCov
<1>. HIDE DEF call
<1>4. /\ subscriptions' \in Seq(Subscriptions) /\ Len(subscriptions') = n + 1
      /\ \A s \in Calls : subscriptions'[s] = subscriptions[s]
  BY <1>1, <1>2, <1>3, AppendProperties
<1>5. Calls' = 1..(n + 1)
  BY <1>4 DEF Calls
<1>6. QueueInv' /\ Queued(n + 1)' /\ \A s \in Calls : Queued(s)' <=> Queued(s)
  BY <1>1, <1>3, <1>5, QueueSubscription DEF NotificationsInv
<1>7. BindInv'
  <2>. SUFFICES ASSUME running, NEW s \in 1..(n + 1), ~Queued(s)', LastToAsk(s)',
                       subscriptions'[s].phase # "closed"
                PROVE  Bound(s)'
    BY <1>3, <1>5 DEF BindInv
  <2>1. s \in Calls /\ ~Queued(s)
    BY <1>1, <1>6
  <2>2. LastToAsk(s)
    BY <1>1, <1>4, <1>5, <1>6, <2>1 DEF LastToAsk
  <2>. QED  BY <1>3, <1>4, <2>1, <2>2 DEF NotificationsInv, BindInv, Bound
<1>8. TakenInv'
  BY <1>1, <1>3, <1>4, <1>5 DEF NotificationsInv, TakenInv
<1>. QED  BY <1>3, <1>4, <1>6, <1>7, <1>8 DEF NotificationsInv

LEMMA RequestStep ==
  ASSUME NotificationsInv, NEW s \in Calls, NEW phase \in {"renewing", "leaving"},
         subscriptions[s].phase = "live", Cov!SendsRequest(s, phase),
         UNCHANGED <<running, subscribers, taken>>
  PROVE  NotificationsInv'
<1>. DEFINE call == [subscriptions[s] EXCEPT !.phase = phase, !.requests = @ + 1]
<1>1. subscriptions' = [subscriptions EXCEPT ![s] = call]
  BY DEF Cov!SendsRequest
<1>. HIDE DEF call
<1>2. call \in Subscriptions /\ call.object = subscriptions[s].object /\ call.inbox = subscriptions[s].inbox
  <2>1. subscriptions[s] \in Subscriptions /\ subscriptions[s].requests + 1 \in Nat
    BY IsSubscription
  <2>. QED  BY <2>1 DEF Subscriptions, Phases, call
<1>3. Keeps
  BY <1>1, <1>2, Changed
<1>4. PICK c : c.kind = "Confirmed" /\ Cov!Sends(c)
  BY DEF Cov!SendsRequest, Cov!Command
<1>. QED  BY <1>3, <1>4, Joined DEF Asks

\* A caller's step that sends nothing.
LEMMA CallerStep ==
  ASSUME NotificationsInv, NEW s \in Calls, NEW call \in Subscriptions,
         subscriptions' = [subscriptions EXCEPT ![s] = call],
         call.object = subscriptions[s].object, call.inbox = subscriptions[s].inbox,
         subscriptions[s].phase # "closed", UNCHANGED <<running, commands, subscribers, taken>>
  PROVE  NotificationsInv'
<1>1. Keeps
  BY Changed
<1>2. Feeds
  BY DEF Feeds, Bound
<1>. QED  BY <1>1, <1>2, Settled

LEMMA ReturnStep ==
  ASSUME NotificationsInv, NEW s \in Calls, Cov!Return(s)
  PROVE  NotificationsInv'
<1>. DEFINE call == [subscriptions[s] EXCEPT !.phase = Cov!After(@, subscriptions[s].reply), !.reply = None]
<1>1. subscriptions' = [subscriptions EXCEPT ![s] = call]
  BY DEF Cov!Return
<1>2. call \in Subscriptions /\ call.object = subscriptions[s].object /\ call.inbox = subscriptions[s].inbox
  BY IsSubscription DEF Subscriptions, Phases, Cov!After
<1>3. subscriptions[s].phase # "closed" /\ UNCHANGED <<running, commands, subscribers, taken>>
  BY DEF Cov!Return, Cov!Waiting, Cov!Phase
<1>. HIDE DEF call
<1>. QED  BY <1>1, <1>2, <1>3, CallerStep

LEMMA DropStep ==
  ASSUME NotificationsInv, NEW s \in Calls, Cov!Drop(s)
  PROVE  NotificationsInv'
<1>. DEFINE call == [subscriptions[s] EXCEPT !.phase = IF @ = "renewing" THEN "live" ELSE "closed",
                                             !.reply = None]
<1>1. subscriptions' = [subscriptions EXCEPT ![s] = call]
  BY DEF Cov!Drop
<1>2. call \in Subscriptions /\ call.object = subscriptions[s].object /\ call.inbox = subscriptions[s].inbox
  BY IsSubscription DEF Subscriptions, Phases
<1>3. subscriptions[s].phase # "closed" /\ UNCHANGED <<running, commands, subscribers, taken>>
  BY DEF Cov!Drop, Cov!Open, Cov!Phase
<1>. HIDE DEF call
<1>. QED  BY <1>1, <1>2, <1>3, CallerStep

LEMMA RecvStep ==
  ASSUME NotificationsInv, NEW s \in Calls, Cov!Recv(s)
  PROVE  NotificationsInv'
<1>1. subscriptions[s].phase # "closed" /\ UNCHANGED <<running, commands, subscribers, taken>>
  BY DEF Cov!Recv, Cov!Phase
<1>2. CASE subscriptions' = [subscriptions EXCEPT ![s].read = @ + 1]
  <2>. DEFINE call == [subscriptions[s] EXCEPT !.read = @ + 1]
  <2>2. subscriptions' = [subscriptions EXCEPT ![s] = call]
    BY <1>2
  <2>. HIDE DEF call
  <2>1. call \in Subscriptions /\ call.object = subscriptions[s].object /\ call.inbox = subscriptions[s].inbox
    <3>1. subscriptions[s] \in Subscriptions /\ subscriptions[s].read + 1 \in Nat
      BY IsSubscription
    <3>. QED  BY <3>1 DEF Subscriptions, call
  <2>. HIDE DEF call
  <2>. QED  BY <1>1, <2>1, <2>2, CallerStep
<1>3. CASE subscriptions' = [subscriptions EXCEPT ![s].silent = TRUE]
  <2>. DEFINE call == [subscriptions[s] EXCEPT !.silent = TRUE]
  <2>1. call \in Subscriptions /\ call.object = subscriptions[s].object /\ call.inbox = subscriptions[s].inbox
    BY IsSubscription DEF Subscriptions
  <2>2. subscriptions' = [subscriptions EXCEPT ![s] = call]
    BY <1>3
  <2>. HIDE DEF call
  <2>. QED  BY <1>1, <2>1, <2>2, CallerStep
<1>. QED  BY <1>2, <1>3 DEF Cov!Recv

LEMMA SearchStep ==
  ASSUME NotificationsInv, NEW wants, Cov!Search(wants)
  PROVE  NotificationsInv'
<1>1. PICK c : c.kind \in {"PeerHealth", "Discover"} /\ Cov!Sends(c)
  BY DEF Cov!Search, Cov!Command
<1>2. Keeps /\ UNCHANGED <<running, subscribers, taken>>
  BY Unchanged DEF Cov!Search
<1>. QED  BY <1>1, <1>2, Joined DEF Asks

LEMMA DropSearchStep ==
  ASSUME NotificationsInv, NEW d, Cov!DropSearch(d)
  PROVE  NotificationsInv'
<1>1. Keeps /\ UNCHANGED <<running, commands, subscribers, taken>>
  BY Unchanged DEF Cov!DropSearch
<1>2. Feeds
  BY <1>1 DEF Feeds, Bound
<1>. QED  BY <1>1, <1>2, Settled

LEMMA SettleStep ==
  ASSUME NotificationsInv, NEW request, NEW reply \in {"acknowledged", "refused"},
         Cov!Settle(request, reply)
  PROVE  NotificationsInv'
<1>1. UNCHANGED <<running, commands, taken>> /\ subscriptions' = Cov!Replied(request, reply)
  BY DEF Cov!Settle
<1>2. Feeds
  BY TidiedFeeds DEF Cov!Settle
<1>. QED  BY <1>1, <1>2, RepliedKeeps, Settled

LEMMA WindowStep ==
  ASSUME NotificationsInv, Cov!WindowCloses
  PROVE  NotificationsInv'
<1>1. UNCHANGED <<running, commands, taken>> /\ UNCHANGED subscriptions
  BY DEF Cov!WindowCloses
<1>2. Feeds
  BY TidiedFeeds DEF Cov!WindowCloses
<1>. QED  BY <1>1, <1>2, Unchanged, Settled

LEMMA AnnouncementStep ==
  ASSUME NotificationsInv, NEW packet, Cov!HearAnnouncement(packet)
  PROVE  NotificationsInv'
<1>1. UNCHANGED <<running, commands, taken>> /\ UNCHANGED subscriptions
  BY DEF Cov!HearAnnouncement
<1>2. Feeds
  BY TidiedFeeds DEF Cov!HearAnnouncement
<1>. QED  BY <1>1, <1>2, Unchanged, Settled

LEMMA EndpointEndsStep ==
  ASSUME NotificationsInv, Cov!EndpointEnds
  PROVE  NotificationsInv'
<1>1. /\ subscriptions \in Seq(Subscriptions) /\ Len(subscriptions) \in Nat /\ Cov!Ids = Calls
      /\ DOMAIN subscriptions = Calls /\ \A s \in Calls : subscriptions[s] \in Subscriptions
  BY DEF NotificationsInv, Calls, Cov!Ids
<1>2. /\ running' = FALSE /\ commands' = <<>> /\ UNCHANGED taken
      /\ subscriptions' = [s \in Calls |->
            IF Cov!Waiting(s) /\ subscriptions[s].reply = None
            THEN [subscriptions[s] EXCEPT !.reply = "closed"] ELSE subscriptions[s]]
  BY <1>1 DEF Cov!EndpointEnds
<1>3. \A s \in Calls : /\ subscriptions'[s] \in Subscriptions
                       /\ subscriptions'[s].inbox = subscriptions[s].inbox
  BY <1>1, <1>2 DEF Subscriptions
<1>4. subscriptions' \in Seq(Subscriptions) /\ Calls' = Calls
  BY <1>1, <1>2, <1>3 DEF Calls
<1>5. QueueInv'
  <2>1. Len(commands') = 0 /\ \A S : commands' \in Seq(S)
    BY <1>2
  <2>. QED  BY <2>1 DEF QueueInv, Queued
<1>6. TakenInv'
  BY <1>2, <1>3, <1>4 DEF NotificationsInv, TakenInv
<1>. QED  BY <1>2, <1>4, <1>5, <1>6 DEF NotificationsInv, BindInv

\* The endpoint takes a request from the queue, with the table it has by then.
LEMMA Taking ==
  ASSUME NotificationsInv, NEW request, NEW table, Cov!Requested(request, table)
  PROVE  Keeps /\ \E requests, open : Cov!RemoveCancelled(table, requests, open)
<1>1. CASE UNCHANGED subscriptions
  BY <1>1, Unchanged DEF Cov!Requested
<1>2. CASE subscriptions' = Cov!Replied(request, "refused")
  BY <1>2, RepliedKeeps DEF Cov!Requested
<1>. QED  BY <1>1, <1>2 DEF Cov!Requested

LEMMA HandleOther ==
  ASSUME NotificationsInv, commands # <<>>, ~Asks(Head(commands)), commands' = Tail(commands),
         Keeps, Feeds, UNCHANGED <<running, taken>>
  PROVE  NotificationsInv'
<1>1. Calls' = Calls /\ Calls \subseteq Nat
  BY DEF Keeps, Calls
<1>2. QueueInv' /\ \A s : Queued(s)' <=> Queued(s)
  BY <1>1, QueueRest DEF NotificationsInv
<1>. QED  BY <1>2, Stays DEF NotificationsInv

LEMMA HandleSubscription ==
  ASSUME NotificationsInv, running, commands # <<>>, Asks(Head(commands)),
         commands' = Tail(commands), UNCHANGED <<running, taken>>,
         LET by == Head(commands).by IN
         Cov!Requested(by, Cov!Bind(subscriptions[by[1]].object, by[1]))
  PROVE  NotificationsInv'
<1>1. PICK t \in Calls :
         /\ Head(commands) = SubscribeCov(t) /\ Queued(t) /\ ~Queued(t)'
         /\ \A s \in Calls : s # t => (Queued(s)' <=> Queued(s))
         /\ \A s \in Calls : ~Queued(s)' => s <= t
  <2>1. Calls' = Calls
    <3>1. Keeps
      BY Taking
    <3>. QED  BY <3>1 DEF Keeps, Calls
  <2>. QED  BY <2>1, QueueRest DEF NotificationsInv, Calls
<1>. DEFINE object == subscriptions[t].object
            table == Cov!Bind(object, t)
<1>2. Cov!Requested(Head(commands).by, table)
  BY <1>1 DEF SubscribeCov
<1>3. Keeps /\ \E requests, open : Cov!RemoveCancelled(table, requests, open)
  <2>. HIDE DEF table
  <2>. QED  BY <1>2, Taking
<1>4. Calls' = Calls /\ Calls \subseteq Nat
  BY <1>3 DEF Keeps, Calls
<1>5. QueueInv'
  BY <1>4, QueueRest DEF NotificationsInv
\* What the table has of callers who are there, it keeps.
<1>6. ASSUME NEW s \in Calls, subscriptions[s].phase # "closed",
             subscriptions[s].object \in DOMAIN table, table[subscriptions[s].object] = s
      PROVE  /\ subscriptions[s].object \in DOMAIN subscribers'
             /\ subscribers'[subscriptions[s].object] = s
  <2>. HIDE DEF table
  <2>. QED  BY <1>3, <1>6 DEF Cov!RemoveCancelled, Cov!Restrict, Cov!Open, Cov!Phase
<1>7. /\ object \in DOMAIN table /\ table[object] = t
      /\ \A o \in DOMAIN subscribers : o # object => o \in DOMAIN table /\ table[o] = subscribers[o]
  BY DEF Cov!Bind
<1>. HIDE DEF table
<1>8. BindInv'
  <2>. SUFFICES ASSUME NEW s \in Calls, ~Queued(s)', LastToAsk(s)', subscriptions'[s].phase # "closed"
                PROVE  Bound(s)'
    BY <1>4 DEF BindInv
  <2>1. subscriptions[s].phase # "closed" /\ subscriptions'[s].object = subscriptions[s].object
    BY <1>3 DEF Keeps
  <2>2. s <= t
    BY <1>1
  <2>3. CASE s = t
    BY <1>6, <1>7, <2>1, <2>3 DEF Bound
  <2>4. CASE s # t
    <3>1. ~Queued(s) /\ s < t
      BY <1>1, <1>4, <2>2, <2>4
    <3>2. subscriptions[s].object # object
      BY <1>1, <1>3, <1>4, <3>1 DEF LastToAsk, Keeps
    <3>3. LastToAsk(s)
      BY <1>1, <1>3, <1>4 DEF LastToAsk, Keeps
    <3>4. Bound(s)
      BY <2>1, <3>1, <3>3 DEF NotificationsInv, BindInv
    <3>. QED  BY <1>6, <1>7, <2>1, <3>2, <3>4 DEF Bound
  <2>. QED  BY <2>3, <2>4
<1>9. TakenInv'
  BY <1>3, <1>4 DEF NotificationsInv, TakenInv, Keeps
<1>. QED  BY <1>3, <1>5, <1>8, <1>9 DEF NotificationsInv, Keeps

LEMMA HandleStep ==
  ASSUME NotificationsInv, Cov!HandleCommand
  PROVE  NotificationsInv'
<1>1. running /\ commands # <<>> /\ commands' = Tail(commands) /\ UNCHANGED <<running, taken>>
  BY DEF Cov!HandleCommand
<1>2. CASE Asks(Head(commands))
  BY <1>1, <1>2, HandleSubscription DEF Cov!HandleCommand, Asks
<1>3. CASE ~Asks(Head(commands))
  <2>1. Keeps /\ \E requests, open : Cov!RemoveCancelled(subscribers, requests, open)
    <3>1. CASE Cov!Requested(Head(commands).by, subscribers)
      BY <3>1, Taking
    <3>2. CASE Cov!Opened(Head(commands).by) /\ UNCHANGED subscriptions
      BY <3>2, Unchanged DEF Cov!Opened
    <3>3. CASE Cov!Told(Head(commands).by) /\ UNCHANGED subscriptions
      BY <3>3, Unchanged DEF Cov!Told
    <3>. QED  BY <1>3, <3>1, <3>2, <3>3 DEF Cov!HandleCommand, Asks
  <2>2. Feeds
    BY <2>1, TidiedFeeds
  <2>. QED  BY <1>1, <1>3, <2>1, <2>2, HandleOther
<1>. QED  BY <1>2, <1>3

\* A notification: the caller it is for has its sink in the table.
LEMMA NotificationStep ==
  ASSUME NotificationsInv, NEW packet \in Packets, Cov!HearNotification(packet)
  PROVE  NotificationsInv'
<1>1. /\ running /\ UNCHANGED <<running, commands>>
      /\ subscriptions' = IF packet.form = "Whole" THEN Cov!Dispatched(packet) ELSE subscriptions
      /\ taken'.packet = packet /\ taken'.listener = Cov!Listener(packet.about)
  BY DEF Cov!HearNotification, Cov!Takes
<1>2. /\ subscriptions \in Seq(Subscriptions) /\ Len(subscriptions) \in Nat
      /\ DOMAIN subscriptions = Calls /\ \A s \in Calls : subscriptions[s] \in Subscriptions
  BY DEF NotificationsInv, Calls
<1>3. Feeds
  BY TidiedFeeds DEF Cov!HearNotification
<1>4. /\ subscriptions' \in Seq(Subscriptions) /\ Len(subscriptions') = Len(subscriptions)
      /\ \A s \in Calls : /\ subscriptions'[s].object = subscriptions[s].object
                          /\ subscriptions'[s].phase = subscriptions[s].phase
  <2>1. CASE UNCHANGED subscriptions
    BY <1>2, <2>1
  <2>2. CASE subscriptions' # subscriptions
    <3>. DEFINE s == subscribers[packet.about]
                call == [subscriptions[s] EXCEPT !.inbox = Append(@, packet)]
    <3>1. subscriptions' = [subscriptions EXCEPT ![s] = call]
      BY <1>1, <2>2 DEF Cov!Dispatched
    <3>2. s \in Calls
      <4>. HIDE DEF s, call
      <4>. QED  BY <1>2, <2>2, <3>1
    <3>3. subscriptions[s] \in Subscriptions /\ Append(subscriptions[s].inbox, packet) \in Seq(Packets)
      <4>. HIDE DEF s
      <4>. QED  BY <3>2, IsSubscription
    <3>. HIDE DEF s
    <3>4. /\ call \in Subscriptions /\ call.object = subscriptions[s].object
          /\ call.phase = subscriptions[s].phase
      BY <3>3 DEF Subscriptions
    <3>. HIDE DEF call
    <3>. QED  BY <1>2, <3>1, <3>2, <3>4 DEF Calls
  <2>. QED  BY <2>1, <2>2
<1>5. Calls' = Calls
  BY <1>4 DEF Calls
<1>6. \A s \in Calls : Queued(s)' <=> Queued(s)
  BY <1>1 DEF Queued, SubscribeCov
<1>7. QueueInv'
  <2>1. QueueInv /\ commands' = commands
    BY <1>1 DEF NotificationsInv
  <2>2. PICK S : commands' \in Seq(S)
    BY <2>1 DEF QueueInv
  <2>3. (\A s, t \in Calls : ~Queued(s) /\ Queued(t) => s < t)'
    BY <1>5, <1>6, <2>1 DEF QueueInv
  <2>. QED  BY <1>5, <2>1, <2>2, <2>3 DEF QueueInv, SubscribeCov, Asks
<1>8. BindInv'
  <2>. SUFFICES ASSUME NEW s \in Calls, ~Queued(s)', LastToAsk(s)', subscriptions'[s].phase # "closed"
                PROVE  Bound(s)'
    BY <1>5 DEF BindInv
  <2>1. ~Queued(s) /\ LastToAsk(s) /\ subscriptions[s].phase # "closed"
    BY <1>4, <1>5, <1>6 DEF LastToAsk
  <2>2. Bound(s)
    BY <1>1, <2>1 DEF NotificationsInv, BindInv
  <2>. QED  BY <1>3, <1>4, <2>1, <2>2 DEF Feeds, Bound
<1>9. TakenInv'
  <2>. DEFINE s == Cov!Listener(packet.about)
  <2>. SUFFICES ASSUME s # None
                PROVE  /\ s \in Calls
                       /\ packet.form = "Whole" =>
                            /\ subscriptions'[s].inbox # <<>>
                            /\ subscriptions'[s].inbox[Len(subscriptions'[s].inbox)] = packet
    BY <1>1, <1>5 DEF TakenInv
  <2>1. /\ s \in Calls /\ subscriptions[s].object = packet.about
        /\ subscriptions[s].phase # "closed" /\ ~Queued(s) /\ LastToAsk(s)
    BY Listening
  <2>. HIDE DEF s
  <2>2. Bound(s)
    BY <1>1, <2>1 DEF NotificationsInv, BindInv
  <2>3. ASSUME packet.form = "Whole"
        PROVE  subscriptions' = [subscriptions EXCEPT ![s].inbox = Append(@, packet)]
    BY <1>1, <2>1, <2>2, <2>3 DEF Cov!Dispatched, Cov!Open, Cov!Phase, Bound
  <2>4. ASSUME packet.form = "Whole"
        PROVE  subscriptions'[s].inbox = Append(subscriptions[s].inbox, packet)
    BY <1>2, <2>1, <2>3, <2>4 DEF Subscriptions
  <2>5. subscriptions[s].inbox \in Seq(Packets)
    BY <2>1, IsSubscription
  <2>. QED  BY <2>1, <2>4, <2>5
<1>. QED  BY <1>1, <1>4, <1>7, <1>8, <1>9 DEF NotificationsInv

LEMMA NotificationsStep ==
  ASSUME NotificationsInv, [Cov!Next]_Cov!vars
  PROVE  NotificationsInv'
<1>0. Cov!Ids = Calls
  BY DEF Cov!Ids, Calls, NotificationsInv
<1>1. ASSUME NEW object \in Objects, Cov!Subscribe(object) PROVE NotificationsInv'
  BY <1>1, SubscribeStep
<1>2. ASSUME NEW s \in Calls, Cov!Renew(s) PROVE NotificationsInv'
  BY <1>2, RequestStep DEF Cov!Renew, Cov!Phase
<1>3. ASSUME NEW s \in Calls, Cov!Unsubscribe(s) PROVE NotificationsInv'
  BY <1>3, RequestStep DEF Cov!Unsubscribe, Cov!Phase
<1>4. ASSUME NEW s \in Calls, Cov!Return(s) \/ Cov!Drop(s) \/ Cov!Recv(s) PROVE NotificationsInv'
  BY <1>4, ReturnStep, DropStep, RecvStep
<1>5. ASSUME NEW wants, Cov!Search(wants) PROVE NotificationsInv'
  BY <1>5, SearchStep
<1>6. ASSUME NEW d, Cov!DropSearch(d) PROVE NotificationsInv'
  BY <1>6, DropSearchStep
<1>7. ASSUME Cov!HandleCommand PROVE NotificationsInv'
  BY <1>7, HandleStep
<1>8. ASSUME NEW request, NEW reply \in {"acknowledged", "refused"}, Cov!Settle(request, reply)
      PROVE  NotificationsInv'
  BY <1>8, SettleStep
<1>9. ASSUME Cov!WindowCloses PROVE NotificationsInv'
  BY <1>9, WindowStep
<1>10. ASSUME NEW packet \in Packets, Cov!HearAnnouncement(packet) \/ Cov!HearNotification(packet)
       PROVE  NotificationsInv'
  BY <1>10, AnnouncementStep, NotificationStep
<1>11. ASSUME Cov!EndpointEnds PROVE NotificationsInv'
  BY <1>11, EndpointEndsStep
<1>12. ASSUME UNCHANGED Cov!vars PROVE NotificationsInv'
  <2>1. UNCHANGED <<running, commands, subscribers, subscriptions, taken>>
    BY <1>12 DEF Cov!vars, Cov!callers
  <2>2. Keeps /\ Feeds
    BY <2>1, Unchanged DEF Feeds, Bound
  <2>. QED  BY <2>1, <2>2, Settled
<1>. QED
  BY <1>0, <1>1, <1>2, <1>3, <1>4, <1>5, <1>6, <1>7, <1>8, <1>9, <1>10, <1>11, <1>12 DEF Cov!Next

\* dispatch_cov_notification puts a notification into the channel of the last caller to have
\* asked for its object, if that caller is still there: for any callers, objects and packets,
\* any lengths of the queue, and whatever was subscribed to, renewed, dropped and tidied up
\* before.
THEOREM NotificationsHeard == Cov!Spec => []Cov!ListenersHear
<1>1. Cov!Init => NotificationsInv
  BY NotificationsInit
<1>2. NotificationsInv /\ [Cov!Next]_Cov!vars => NotificationsInv'
  BY NotificationsStep
<1>3. NotificationsInv => Cov!ListenersHear
  BY DEF NotificationsInv, TakenInv, Cov!ListenersHear
<1>. QED  BY <1>1, <1>2, <1>3, PTL DEF Cov!Spec

-----------------------------------------------------------------------------
(* The synchronous client *)

CONSTANTS Ids, Retries, Peers, Properties, ObjectList
VARIABLES next_id, call, asked, result

Client == INSTANCE SyncClient WITH Addresses <- Peers

\* A frame carries the number of its request modulo the invoke IDs there are.
Numbered(frame) == frame.of \in Nat /\ frame.id = frame.of % Ids

\* What a discovery has found so far: all it heard, and nothing twice.
Lists(d) ==
  /\ d.kind = "routers" =>
       /\ \A one, other \in d.found : one.address = other.address => one = other
       /\ \A frame \in d.heard : \E one \in d.found :
            one.address = frame.from /\ frame.networks \subseteq one.networks
  /\ d.kind = "devices" =>
       /\ \A one, other \in d.found : one.device = other.device => one = other
       /\ \A frame \in d.heard : \E one \in d.found : one.device = frame.device

IsRequest(c) ==
  /\ c = [kind |-> "request", request |-> c.request, attempt |-> c.attempt]
  /\ c.request.kind = "request" /\ Numbered(c.request)
IsDiscovery(c) ==
  /\ c = [kind |-> c.kind, found |-> c.found, heard |-> c.heard]
  /\ c.kind \in {"devices", "routers"} /\ Lists(c)

\* What is returned of a request, and of a discovery.
Answers(r) ==
  /\ r.outcome # "found"
  /\ r.answer # None =>
       /\ r.answer.from = r.call.request.to
       /\ (r.call.request.of - r.answer.of) % Ids = 0
       /\ r.call.request.service # "write" /\ r.outcome = "ack" =>
            /\ r.answer.property = r.call.request.property
            /\ r.answer.service = r.call.request.service
Found(r) == r.outcome = "found" /\ r.answer = None /\ r.call.kind \in {"devices", "routers"} /\ Lists(r.call)

ClientInv ==
  /\ asked \in Nat /\ next_id = asked % Ids
  /\ \A frame \in wire : frame.kind \in {"request", "answer"} /\ Numbered(frame)
  /\ call # None => IsRequest(call) \/ IsDiscovery(call)
  /\ result = <<>> \/ \E r : result = <<r>> /\ (Answers(r) \/ Found(r))

LEMMA SameRemainder ==
  ASSUME NEW n \in Nat \ {0}, NEW a \in Nat, NEW b \in Nat, a % n = b % n
  PROVE  (a - b) % n = 0
<1>1. /\ a = n * (a \div n) + (a % n) /\ a \div n \in Int /\ a % n \in Int
      /\ b = n * (b \div n) + (b % n) /\ b \div n \in Int /\ b % n \in Int
  BY SMTT(30)
<1>. DEFINE q == (a \div n) - (b \div n)
<1>2. q \in Int /\ a - b = n * q
  BY <1>1, SMTT(30)
<1>. HIDE DEF q
<1>3. (n * q) % n = 0
  BY <1>2, SMTT(30)
<1>. QED  BY <1>2, <1>3

LEMMA NextNumber ==
  ASSUME NEW n \in Nat \ {0}, NEW a \in Nat
  PROVE  ((a % n) + 1) % n = (a + 1) % n
<1>. DEFINE q == a \div n
            k == a % n
<1>1. a = n * q + k /\ q \in Nat /\ k \in 0..(n - 1)
  BY SMTT(30)
<1>. HIDE DEF q, k
<1>2. CASE k + 1 < n
  <2>1. a + 1 = n * q + (k + 1) /\ k + 1 \in 0..(n - 1)
    BY <1>1, <1>2
  <2>2. (n * q + (k + 1)) % n = k + 1 /\ (k + 1) % n = k + 1
    BY <1>1, <2>1, SMTT(30)
  <2>. QED  BY <2>1, <2>2 DEF k
<1>3. CASE k + 1 = n
  <2>1. a + 1 = n * (q + 1)
    BY <1>1, <1>3, SMTT(30)
  <2>2. (n * (q + 1)) % n = 0 /\ (k + 1) % n = 0
    BY <1>1, <1>3, SMTT(30)
  <2>. QED  BY <2>1, <2>2 DEF k
<1>. QED  BY <1>1, <1>2, <1>3

\* A router is listed once, with what it now names, and with what it named before.
LEMMA Merged ==
  ASSUME NEW found, NEW frame,
         \A one, other \in found : one.address = other.address => one = other
  PROVE  /\ \A one, other \in Client!Merge(found, frame) : one.address = other.address => one = other
         /\ \E one \in Client!Merge(found, frame) :
              one.address = frame.from /\ frame.networks \subseteq one.networks
         /\ \A one \in found : \E other \in Client!Merge(found, frame) :
              other.address = one.address /\ one.networks \subseteq other.networks
<1>. DEFINE before == {one \in found : one.address = frame.from}
            nets == frame.networks \cup UNION {one.networks : one \in before}
            new == [address |-> frame.from, networks |-> nets]
            merged == (found \ before) \cup {new}
<1>1. Client!Merge(found, frame) = merged
  BY DEF Client!Merge
<1>2. new.address = frame.from /\ new.networks = nets
  OBVIOUS
<1>3. frame.networks \subseteq nets /\ \A one \in before : one.networks \subseteq nets
  OBVIOUS
<1>. HIDE DEF new, nets
<1>4. \A one, other \in merged : one.address = other.address => one = other
  BY <1>2
<1>5. new \in merged /\ new.address = frame.from /\ frame.networks \subseteq new.networks
  BY <1>2, <1>3
<1>6. ASSUME NEW one \in found
      PROVE  \E other \in merged : other.address = one.address /\ one.networks \subseteq other.networks
  <2>1. CASE one \in before
    BY <1>2, <1>3, <2>1
  <2>2. CASE one \notin before
    BY <2>2
  <2>. QED  BY <2>1, <2>2
<1>. HIDE DEF merged
<1>. QED  BY <1>1, <1>4, <1>5, <1>6

LEMMA ClientStep ==
  ASSUME Client!SyncAssumption, ClientInv, Client!Next
  PROVE  ClientInv'
<1>0. Ids \in Nat \ {0}
  BY DEF Client!SyncAssumption
<1>s. ASSUME NEW to, NEW service, NEW property, Client!Start(to, service, property)
      PROVE  ClientInv'
  <2>. DEFINE request == Client!Request(next_id, to, service, property, asked)
              new == [kind |-> "request", request |-> request, attempt |-> 0]
  <2>1. /\ call' = new /\ next_id' = (next_id + 1) % Ids /\ asked' = asked + 1
        /\ wire' = wire \cup {request} /\ result' = result
    BY <1>s DEF Client!Start, Client!Begins
  <2>2. request.kind = "request" /\ Numbered(request)
    BY DEF ClientInv, Client!Request, Numbered
  <2>. HIDE DEF request
  <2>3. IsRequest(new)
    BY <2>2 DEF IsRequest
  <2>. HIDE DEF new
  <2>4. asked' \in Nat /\ next_id' = asked' % Ids
    <3>1. asked \in Nat /\ next_id = asked % Ids
      BY DEF ClientInv
    <3>2. ((asked % Ids) + 1) % Ids = (asked + 1) % Ids
      BY <1>0, <3>1, NextNumber
    <3>. QED  BY <2>1, <3>1, <3>2
  <2>5. IsRequest(call)'
    BY <2>1, <2>3 DEF IsRequest, Numbered
  <2>6. (\A frame \in wire : frame.kind \in {"request", "answer"} /\ Numbered(frame))'
    BY <2>1, <2>2 DEF ClientInv, Numbered
  <2>7. (result = <<>> \/ \E r : result = <<r>> /\ (Answers(r) \/ Found(r)))'
    BY <2>1 DEF ClientInv, Answers, Found, Lists
  <2>. QED  BY <2>4, <2>5, <2>6, <2>7 DEF ClientInv
<1>1. ASSUME NEW frame \in wire, Client!Receive(frame)
      PROVE  ClientInv'
  <2>. DEFINE r == [call |-> call, outcome |-> Client!Outcome(frame), answer |-> frame]
  <2>1. /\ call # None /\ call.kind = "request" /\ frame.kind = "answer"
        /\ frame.from = call.request.to /\ frame.id = call.request.id
        /\ result' = <<r>> /\ call' = None /\ UNCHANGED <<next_id, wire, calls, asked>>
    BY <1>1 DEF Client!Receive, Client!Returns, Client!Asking, Client!Matches
  <2>2. IsRequest(call)
    BY <2>1 DEF ClientInv, IsDiscovery
  <2>3. (call.request.of - frame.of) % Ids = 0
    <3>1. /\ call.request.of \in Nat /\ call.request.id = call.request.of % Ids
          /\ frame.of \in Nat /\ frame.id = frame.of % Ids
      BY <2>2 DEF IsRequest, Numbered, ClientInv
    <3>. QED  BY <1>0, <2>1, <3>1, SameRemainder
  <2>4. Client!Outcome(frame) # "found"
    BY DEF Client!Outcome
  <2>5. Client!Outcome(frame) = "ack" /\ call.request.service # "write" =>
          frame.property = call.request.property /\ frame.service = call.request.service
    BY DEF Client!Outcome, Client!Understood, Client!TheProperty, Client!TheObject
  <2>6. r.call = call /\ r.outcome = Client!Outcome(frame) /\ r.answer = frame
    OBVIOUS
  <2>. HIDE DEF r
  <2>7. Answers(r)
    BY <2>1, <2>3, <2>4, <2>5, <2>6 DEF Answers
  <2>. QED  BY <2>1, <2>7 DEF ClientInv, Numbered, Answers
<1>2. ASSUME NEW frame \in wire, Client!Skip(frame)
      PROVE  ClientInv'
  BY <1>2 DEF Client!Skip, ClientInv, Numbered, IsRequest, IsDiscovery, Lists, Answers, Found
<1>3. CASE Client!AttemptEnds
  <2>1. call # None /\ call.kind = "request" /\ IsRequest(call)
    BY <1>3 DEF Client!AttemptEnds, Client!Asking, ClientInv, IsDiscovery
  <2>2. CASE call.attempt < Retries
    <3>1. /\ call' = [call EXCEPT !.attempt = @ + 1] /\ wire' = wire \cup {call.request}
          /\ UNCHANGED <<next_id, calls, asked, result>>
      BY <1>3, <2>2 DEF Client!AttemptEnds
    <3>2. call' = [kind |-> "request", request |-> call.request, attempt |-> call.attempt + 1]
      BY <2>1, <3>1 DEF IsRequest
    <3>3. IsRequest(call)'
      BY <2>1, <3>2 DEF IsRequest, Numbered
    <3>. QED  BY <2>1, <3>1, <3>3 DEF ClientInv, IsRequest, Numbered, Answers, Found, Lists
  <2>3. CASE ~(call.attempt < Retries)
    <3>. DEFINE r == [call |-> call, outcome |-> "timeout", answer |-> None]
    <3>1. result' = <<r>> /\ call' = None /\ UNCHANGED <<next_id, wire, calls, asked>>
      BY <1>3, <2>3 DEF Client!AttemptEnds, Client!Returns
    <3>2. Answers(r)
      BY DEF Answers
    <3>. HIDE DEF r
    <3>. QED  BY <3>1, <3>2 DEF ClientInv, Numbered, Answers
  <2>. QED  BY <2>2, <2>3
<1>4. ASSUME NEW kind \in {"devices", "routers"}, Client!StartDiscovery(kind)
      PROVE  ClientInv'
  <2>. DEFINE new == [kind |-> kind, found |-> {}, heard |-> {}]
  <2>1. call' = new /\ UNCHANGED <<next_id, wire, asked, result>>
    BY <1>4 DEF Client!StartDiscovery, Client!Begins
  <2>2. IsDiscovery(new)
    BY DEF IsDiscovery, Lists
  <2>. HIDE DEF new
  <2>. QED  BY <2>1, <2>2 DEF ClientInv, Numbered, IsDiscovery, Lists, Answers, Found
<1>c. ASSUME NEW new, call' = new, IsDiscovery(new), UNCHANGED <<next_id, wire, asked, result>>
      PROVE  ClientInv'
  BY <1>c DEF ClientInv, Numbered, IsDiscovery, Lists, Answers, Found
<1>5. ASSUME NEW frame, Client!CollectIAm(frame)
      PROVE  ClientInv'
  <2>1. call # None /\ call.kind = "devices" /\ IsDiscovery(call)
    BY <1>5 DEF Client!CollectIAm, Client!Discovering, ClientInv, IsRequest
  <2>. DEFINE one == [device |-> frame.device, address |-> frame.from]
              more == IF \E x \in call.found : x.device = frame.device THEN call.found
                      ELSE call.found \cup {one}
              new == [kind |-> "devices", found |-> more, heard |-> call.heard \cup {frame}]
  <2>2. call' = new /\ UNCHANGED <<next_id, wire, asked, result>>
    BY <1>5, <2>1 DEF Client!CollectIAm, IsDiscovery
  <2>3. one.device = frame.device
    OBVIOUS
  <2>. HIDE DEF one
  <2>4. /\ \A x, y \in more : x.device = y.device => x = y
        /\ \A h \in call.heard \cup {frame} : \E x \in more : x.device = h.device
    BY <2>1, <2>3 DEF IsDiscovery, Lists
  <2>. HIDE DEF more
  <2>5. IsDiscovery(new)
    BY <2>4 DEF IsDiscovery, Lists
  <2>. QED  BY <1>c, <2>2, <2>5
<1>6. ASSUME NEW frame, Client!CollectRouter(frame)
      PROVE  ClientInv'
  <2>1. call # None /\ call.kind = "routers" /\ IsDiscovery(call)
    BY <1>6 DEF Client!CollectRouter, Client!Discovering, ClientInv, IsRequest
  <2>. DEFINE more == Client!Merge(call.found, frame)
              new == [kind |-> "routers", found |-> more, heard |-> call.heard \cup {frame}]
  <2>2. call' = new /\ UNCHANGED <<next_id, wire, asked, result>>
    BY <1>6, <2>1 DEF Client!CollectRouter, IsDiscovery
  <2>3. /\ \A x, y \in more : x.address = y.address => x = y
        /\ \A h \in call.heard \cup {frame} : \E x \in more :
             x.address = h.from /\ h.networks \subseteq x.networks
    <3>1. /\ \A x, y \in call.found : x.address = y.address => x = y
          /\ \A h \in call.heard : \E x \in call.found :
               x.address = h.from /\ h.networks \subseteq x.networks
      BY <2>1 DEF IsDiscovery, Lists
    <3>2. /\ \A x, y \in more : x.address = y.address => x = y
          /\ \E x \in more : x.address = frame.from /\ frame.networks \subseteq x.networks
          /\ \A x \in call.found : \E y \in more :
               y.address = x.address /\ x.networks \subseteq y.networks
      BY <3>1, Merged
    <3>. HIDE DEF more
    <3>3. ASSUME NEW h \in call.heard
          PROVE  \E x \in more : x.address = h.from /\ h.networks \subseteq x.networks
      <4>1. PICK x \in call.found : x.address = h.from /\ h.networks \subseteq x.networks
        BY <3>1
      <4>2. PICK y \in more : y.address = x.address /\ x.networks \subseteq y.networks
        BY <3>2
      <4>. QED  BY <4>1, <4>2
    <3>. QED  BY <3>2, <3>3
  <2>. HIDE DEF more
  <2>4. IsDiscovery(new)
    BY <2>3 DEF IsDiscovery, Lists
  <2>. QED  BY <1>c, <2>2, <2>4
<1>7. CASE Client!DiscoveryEnds
  <2>. DEFINE r == [call |-> call, outcome |-> "found", answer |-> None]
  <2>1. /\ call # None /\ call.kind \in {"devices", "routers"}
        /\ result' = <<r>> /\ call' = None /\ UNCHANGED <<next_id, wire, calls, asked>>
    BY <1>7 DEF Client!DiscoveryEnds, Client!Discovering, Client!Returns
  <2>2. IsDiscovery(call)
    BY <2>1 DEF ClientInv, IsRequest
  <2>3. Found(r)
    BY <2>2 DEF Found, IsDiscovery
  <2>. HIDE DEF r
  <2>. QED  BY <2>1, <2>3 DEF ClientInv, Numbered, Found, Lists
<1>8. ASSUME NEW request \in wire, NEW says, Client!DeviceAnswers(request, says)
      PROVE  ClientInv'
  <2>. DEFINE new == [kind |-> "answer", from |-> request.to, id |-> request.id, says |-> says,
                      service |-> request.service, property |-> request.property, of |-> request.of]
  <2>1. wire' = wire \cup {new} /\ UNCHANGED <<next_id, call, calls, asked, result>>
    BY <1>8 DEF Client!DeviceAnswers
  <2>2. new.kind = "answer" /\ Numbered(new)
    BY DEF ClientInv, Numbered
  <2>. HIDE DEF new
  <2>. QED  BY <2>1, <2>2 DEF ClientInv, Numbered, IsRequest, IsDiscovery, Lists, Answers, Found
<1>. QED
  BY <1>s, <1>1, <1>2, <1>3, <1>4, <1>5, <1>6, <1>7, <1>8
  DEF Client!Next, Client!ReadProperty, Client!WriteProperty, Client!ReadObjectList,
      Client!ReadObjectProperties

\* What a call returns belongs to it, however many invoke IDs there are and however late,
\* repeated and mixed up the answers come: a request's answer is its own, or that of the request
\* a whole number of cycles of IDs before; a discovery lists what announced itself, once.
THEOREM ReturnsItsOwn ==
  ASSUME Client!SyncAssumption
  PROVE  Client!Spec => []Client!AnswersBelong
<1>0. Ids \in Nat \ {0}
  BY DEF Client!SyncAssumption
<1>1. Client!Init => ClientInv
  BY <1>0, SMTT(30) DEF Client!Init, ClientInv
<1>2. ClientInv /\ [Client!Next]_(Client!vars) => ClientInv'
  <2>1. CASE Client!Next
    BY <2>1, ClientStep
  <2>2. CASE UNCHANGED Client!vars
    BY <2>2 DEF Client!vars, ClientInv, Numbered, IsRequest, IsDiscovery, Lists, Answers, Found
  <2>. QED  BY <2>1, <2>2
<1>3. ClientInv => Client!AnswersBelong
  <2>. SUFFICES ASSUME ClientInv, NEW r \in Client!Range(result)
                PROVE  Answers(r) \/ Found(r)
    BY DEF Client!AnswersBelong, Answers, Found, Lists
  <2>1. \E x : result = <<x>> /\ (Answers(x) \/ Found(x))
    BY DEF ClientInv, Client!Range
  <2>. QED  BY <2>1 DEF Client!Range
<1>. QED  BY <1>1, <1>2, <1>3, PTL DEF Client!Spec

-----------------------------------------------------------------------------
(* The requests a transport keeps the time of *)

CONSTANTS Timeouts, MaxSends, MaxClock
VARIABLES active, clock, tracked

Tracked == INSTANCE TransportRequests WITH sent <- tracked

\* IDs from 1 to the last, and times as numbers.
IdsAndTimes == Ids \in Nat \ {0} /\ Timeouts \subseteq Nat

Tries == 1..Len(tracked)
Fates == {"no", "overwritten", "timed_out", "completed", "cleared"}
SentRequests == [id : 1..Ids, start : Nat, timeout : Nat, ended : Fates, at : Nat]

\* The IDs come round in the order of the requests.
InTurn == next_id = (Len(tracked) % Ids) + 1 /\ \A n \in Tries : tracked[n].id = ((n - 1) % Ids) + 1

IsTracked(n) == active[tracked[n].id] = [start |-> tracked[n].start, timeout |-> tracked[n].timeout]
Alone(n) == \A m \in Tries : Tracked!Open(m) /\ tracked[m].id = tracked[n].id => m = n

TrackedInv ==
  /\ clock \in Nat /\ tracked \in Seq(SentRequests) /\ InTurn
  /\ DOMAIN active = {tracked[n].id : n \in {k \in Tries : Tracked!Open(k)}}
  /\ \A n \in Tries : Tracked!Open(n) => IsTracked(n) /\ Alone(n)
  /\ \A n \in Tries : tracked[n].ended = "overwritten" => n + Ids <= Len(tracked)
  /\ \A n \in Tries : tracked[n].ended = "timed_out" => tracked[n].at - tracked[n].start > tracked[n].timeout

LEMMA SentIs ==
  ASSUME TrackedInv
  PROVE  /\ Len(tracked) \in Nat /\ DOMAIN tracked = Tries
         /\ \A n \in Tries : /\ tracked[n] \in SentRequests /\ tracked[n].id \in 1..Ids
                             /\ tracked[n].start \in Nat /\ tracked[n].timeout \in Nat
<1>1. tracked \in Seq(SentRequests)
  BY DEF TrackedInv
<1>2. Len(tracked) \in Nat /\ DOMAIN tracked = Tries /\ \A n \in Tries : tracked[n] \in SentRequests
  BY <1>1 DEF Tries
<1>3. \A r \in SentRequests : r.id \in 1..Ids /\ r.start \in Nat /\ r.timeout \in Nat
  BY DEF SentRequests
<1>. QED  BY <1>2, <1>3

\* IDs follow one another as numbers do, and the same ID comes again after all others.
LEMMA FollowingId ==
  ASSUME Ids \in Nat \ {0}, NEW n \in Nat
  PROVE  Tracked!Following((n % Ids) + 1) = ((n + 1) % Ids) + 1
<1>. DEFINE k == n % Ids
<1>1. k \in 0..(Ids - 1)
  BY SMTT(30)
<1>2. (k + 1) % Ids = (n + 1) % Ids
  BY NextNumber
<1>. HIDE DEF k
<1>3. CASE k + 1 = Ids
  <2>1. (k + 1) % Ids = 0
    BY <1>1, <1>3, SMTT(30)
  <2>2. Tracked!Following(k + 1) = 1
    BY <1>3 DEF Tracked!Following
  <2>. QED  BY <1>2, <2>1, <2>2 DEF k
<1>4. CASE k + 1 # Ids
  <2>1. (k + 1) % Ids = k + 1
    BY <1>1, <1>4, SMTT(30)
  <2>2. Tracked!Following(k + 1) = (k + 1) + 1
    BY <1>4 DEF Tracked!Following
  <2>. QED  BY <1>2, <2>1, <2>2 DEF k
<1>. QED  BY <1>3, <1>4

LEMMA ACycleApart ==
  ASSUME Ids \in Nat \ {0}, NEW m \in Nat, NEW n \in Nat, m < n, m % Ids = n % Ids
  PROVE  m + Ids <= n
<1>1. (n - m) % Ids = 0
  BY SameRemainder
<1>. DEFINE d == n - m
<1>2. d \in Nat /\ d > 0
  OBVIOUS
<1>. HIDE DEF d
<1>3. d < Ids => d % Ids = d
  BY <1>2, SMTT(30)
<1>. QED  BY <1>1, <1>2, <1>3 DEF d

\* What ends of the requests that were sent.
LEMMA EndedIs ==
  ASSUME TrackedInv, NEW ids, NEW how \in Fates
  PROVE  LET after == Tracked!Ended(ids, how) IN
         /\ after \in Seq(SentRequests) /\ Len(after) = Len(tracked)
         /\ \A n \in Tries :
              /\ after[n].id = tracked[n].id /\ after[n].start = tracked[n].start
              /\ after[n].timeout = tracked[n].timeout
              /\ IF tracked[n].id \in ids /\ Tracked!Open(n) THEN after[n].ended = how /\ after[n].at = clock
                 ELSE after[n].ended = tracked[n].ended /\ after[n].at = tracked[n].at
<1>. DEFINE after == Tracked!Ended(ids, how)
<1>1. after = [n \in Tries |-> IF tracked[n].id \in ids /\ tracked[n].ended = "no"
                               THEN [tracked[n] EXCEPT !.ended = how, !.at = clock] ELSE tracked[n]]
  BY SentIs DEF Tracked!Ended
<1>2. ASSUME NEW n \in Tries
      PROVE  /\ after[n] \in SentRequests
             /\ after[n].id = tracked[n].id /\ after[n].start = tracked[n].start
             /\ after[n].timeout = tracked[n].timeout
             /\ IF tracked[n].id \in ids /\ Tracked!Open(n) THEN after[n].ended = how /\ after[n].at = clock
                ELSE after[n].ended = tracked[n].ended /\ after[n].at = tracked[n].at
  <2>1. tracked[n] \in SentRequests /\ clock \in Nat
    BY SentIs DEF TrackedInv
  <2>2. CASE tracked[n].id \in ids /\ tracked[n].ended = "no"
    <3>1. after[n] = [tracked[n] EXCEPT !.ended = how, !.at = clock]
      BY <1>1, <2>2
    <3>. QED  BY <2>1, <2>2, <3>1 DEF SentRequests, Tracked!Open
  <2>3. CASE ~(tracked[n].id \in ids /\ tracked[n].ended = "no")
    <3>1. after[n] = tracked[n]
      BY <1>1, <2>3
    <3>. QED  BY <2>1, <2>3, <3>1 DEF Tracked!Open
  <2>. QED  BY <2>2, <2>3
<1>3. after \in Seq(SentRequests) /\ Len(after) = Len(tracked)
  <2>1. after \in [Tries -> SentRequests]
    BY <1>1, <1>2
  <2>. HIDE DEF after
  <2>. QED  BY <2>1, SentIs DEF Tries
<1>. QED  BY <1>2, <1>3

LEMMA ForgetStep ==
  ASSUME TrackedInv, NEW ids, NEW how \in {"timed_out", "completed", "cleared"},
         Tracked!Forget(ids, how), how = "timed_out" => ids = Tracked!Late
  PROVE  TrackedInv'
<1>1. /\ tracked' = Tracked!Ended(ids, how) /\ UNCHANGED <<next_id, clock>>
      /\ active' = [id \in DOMAIN active \ ids |-> active[id]]
  BY DEF Tracked!Forget, Tracked!Restrict
<1>2. /\ tracked' \in Seq(SentRequests) /\ Len(tracked') = Len(tracked) /\ Tries' = Tries
      /\ \A n \in Tries :
           /\ tracked'[n].id = tracked[n].id /\ tracked'[n].start = tracked[n].start
           /\ tracked'[n].timeout = tracked[n].timeout
           /\ IF tracked[n].id \in ids /\ Tracked!Open(n) THEN tracked'[n].ended = how /\ tracked'[n].at = clock
              ELSE tracked'[n].ended = tracked[n].ended /\ tracked'[n].at = tracked[n].at
  BY <1>1, EndedIs DEF Fates, Tries
<1>3. \A n \in Tries : Tracked!Open(n)' <=> Tracked!Open(n) /\ tracked[n].id \notin ids
  BY <1>2 DEF Tracked!Open
<1>4. InTurn'
  BY <1>1, <1>2 DEF TrackedInv, InTurn
<1>5. (DOMAIN active = {tracked[n].id : n \in {k \in Tries : Tracked!Open(k)}})'
  <2>1. DOMAIN active' = DOMAIN active \ ids
    BY <1>1
  <2>2. DOMAIN active = {tracked[n].id : n \in {k \in Tries : Tracked!Open(k)}}
    BY DEF TrackedInv
  <2>3. {k \in Tries : Tracked!Open(k)}' = {k \in Tries : Tracked!Open(k) /\ tracked[k].id \notin ids}
    BY <1>2, <1>3
  <2>4. {tracked[n].id : n \in {k \in Tries : Tracked!Open(k)}}' =
          {tracked[n].id : n \in {k \in Tries : Tracked!Open(k) /\ tracked[k].id \notin ids}}
    BY <1>2, <2>3
  <2>. QED  BY <2>1, <2>2, <2>4
<1>6. ASSUME NEW n \in Tries, Tracked!Open(n)' PROVE IsTracked(n)' /\ Alone(n)'
  <2>1. Tracked!Open(n) /\ tracked[n].id \notin ids /\ IsTracked(n) /\ Alone(n)
    BY <1>3, <1>6 DEF TrackedInv
  <2>2. tracked[n].id \in DOMAIN active
    BY <2>1 DEF TrackedInv
  <2>3. IsTracked(n)'
    BY <1>1, <1>2, <2>1, <2>2 DEF IsTracked
  <2>4. Alone(n)'
    BY <1>2, <1>3, <2>1 DEF Alone
  <2>. QED  BY <2>3, <2>4
<1>7. ASSUME NEW n \in Tries, tracked'[n].ended = "overwritten" PROVE n + Ids <= Len(tracked')
  BY <1>2, <1>7 DEF TrackedInv
<1>8. ASSUME NEW n \in Tries, tracked'[n].ended = "timed_out"
      PROVE  tracked'[n].at - tracked'[n].start > tracked'[n].timeout
  <2>1. CASE tracked[n].id \in ids /\ Tracked!Open(n)
    <3>1. how = "timed_out" /\ tracked'[n].at = clock
      BY <1>2, <1>8, <2>1
    <3>2. tracked[n].id \in Tracked!Late /\ IsTracked(n)
      BY <2>1, <3>1 DEF TrackedInv
    <3>3. clock - tracked[n].start > tracked[n].timeout
      BY <3>2 DEF Tracked!Late, Tracked!Elapsed, IsTracked
    <3>. QED  BY <1>2, <3>1, <3>3
  <2>2. CASE ~(tracked[n].id \in ids /\ Tracked!Open(n))
    BY <1>2, <1>8, <2>2 DEF TrackedInv
  <2>. QED  BY <2>1, <2>2
<1>. QED  BY <1>1, <1>2, <1>4, <1>5, <1>6, <1>7, <1>8 DEF TrackedInv

LEMMA SendStep ==
  ASSUME IdsAndTimes, TrackedInv, NEW timeout \in Timeouts, Tracked!SendConfirmedRequest(timeout)
  PROVE  TrackedInv'
<1>. DEFINE before == Tracked!Ended({next_id}, "overwritten")
            request == [id |-> next_id, start |-> clock, timeout |-> timeout, ended |-> "no", at |-> clock]
<1>0. PICK count \in Nat : count = Len(tracked)
  BY SentIs
<1>1. /\ tracked' = Append(before, request) /\ next_id' = Tracked!Following(next_id) /\ UNCHANGED clock
      /\ active' = [id \in DOMAIN active \cup {next_id} |->
                      IF id = next_id THEN [start |-> clock, timeout |-> timeout] ELSE active[id]]
  BY DEF Tracked!SendConfirmedRequest
<1>2. /\ next_id = (count % Ids) + 1 /\ next_id \in 1..Ids
      /\ next_id' = ((count + 1) % Ids) + 1
  <2>1. next_id = (count % Ids) + 1
    BY <1>0 DEF TrackedInv, InTurn
  <2>2. count % Ids \in 0..(Ids - 1)
    BY SMTT(30) DEF IdsAndTimes
  <2>3. next_id \in 1..Ids
    BY <2>1, <2>2 DEF IdsAndTimes
  <2>4. Tracked!Following((count % Ids) + 1) = ((count + 1) % Ids) + 1
    BY FollowingId DEF IdsAndTimes
  <2>. QED  BY <1>1, <2>1, <2>3, <2>4
<1>3. request \in SentRequests
  BY <1>2 DEF SentRequests, IdsAndTimes, Fates, TrackedInv
<1>4. /\ before \in Seq(SentRequests) /\ Len(before) = count
      /\ \A n \in Tries :
           /\ before[n].id = tracked[n].id /\ before[n].start = tracked[n].start
           /\ before[n].timeout = tracked[n].timeout
           /\ IF tracked[n].id = next_id /\ Tracked!Open(n)
              THEN before[n].ended = "overwritten" /\ before[n].at = clock
              ELSE before[n].ended = tracked[n].ended /\ before[n].at = tracked[n].at
  BY <1>0, EndedIs DEF Fates
<1>. HIDE DEF before
<1>5. /\ tracked' \in Seq(SentRequests) /\ Len(tracked') = count + 1 /\ tracked'[count + 1] = request
      /\ \A n \in 1..count : tracked'[n] = before[n]
  BY <1>1, <1>3, <1>4, AppendProperties
<1>6. Tries = 1..count /\ Tries' = 1..(count + 1) /\ \A n \in Tries' : n = count + 1 \/ n \in Tries
  BY <1>0, <1>5 DEF Tries
\* Whoever has the ID is a cycle behind.
<1>7. \A n \in Tries : tracked[n].id = next_id => n + Ids <= count + 1
  <2>. TAKE n \in Tries
  <2>1. n - 1 \in Nat /\ n - 1 < count /\ n \in Nat
    BY <1>6
  <2>2. (n - 1) % Ids \in Int /\ count % Ids \in Int /\ tracked[n].id = ((n - 1) % Ids) + 1
    <3>1. (n - 1) % Ids \in Int /\ count % Ids \in Int
      BY <2>1, SMTT(30) DEF IdsAndTimes
    <3>. QED  BY <3>1 DEF TrackedInv, InTurn
  <2>3. tracked[n].id = next_id => (n - 1) % Ids = count % Ids
    BY <1>2, <2>2
  <2>. SUFFICES ASSUME tracked[n].id = next_id PROVE n + Ids <= count + 1
    OBVIOUS
  <2>4. (n - 1) + Ids <= count
    BY <2>1, <2>3, ACycleApart DEF IdsAndTimes
  <2>. QED  BY <2>1, <2>4 DEF IdsAndTimes
<1>8. \A n \in Tries : Tracked!Open(n)' <=> Tracked!Open(n) /\ tracked[n].id # next_id
  BY <1>4, <1>5, <1>6 DEF Tracked!Open
<1>9. Tracked!Open(count + 1)' /\ tracked'[count + 1].id = next_id
  <2>1. tracked'[count + 1].ended = "no" /\ tracked'[count + 1].id = next_id
    BY <1>5
  <2>. QED  BY <2>1 DEF Tracked!Open
<1>10. InTurn'
  <2>1. \A n \in Tries : tracked'[n].id = ((n - 1) % Ids) + 1
    BY <1>4, <1>5, <1>6 DEF TrackedInv, InTurn
  <2>2. tracked'[count + 1].id = (((count + 1) - 1) % Ids) + 1
    <3>1. (count + 1) - 1 = count
      OBVIOUS
    <3>. QED  BY <1>2, <1>9, <3>1
  <2>. QED  BY <1>2, <1>5, <1>6, <2>1, <2>2 DEF InTurn
<1>11. (DOMAIN active = {tracked[n].id : n \in {k \in Tries : Tracked!Open(k)}})'
  <2>1. DOMAIN active' = DOMAIN active \cup {next_id}
    BY <1>1
  <2>2. DOMAIN active = {tracked[n].id : n \in {k \in Tries : Tracked!Open(k)}}
    BY DEF TrackedInv
  <2>3. ASSUME NEW n \in Tries', Tracked!Open(n)'
        PROVE tracked'[n].id \in DOMAIN active \cup {next_id}
    <3>1. CASE n = count + 1
      BY <1>9, <3>1
    <3>2. CASE n \in Tries
      BY <1>4, <1>5, <1>6, <1>8, <2>2, <2>3, <3>2
    <3>. QED  BY <1>6, <3>1, <3>2
  <2>4. ASSUME NEW id \in DOMAIN active, id # next_id
        PROVE  \E n \in Tries' : Tracked!Open(n)' /\ tracked'[n].id = id
    <3>1. PICK n \in Tries : Tracked!Open(n) /\ tracked[n].id = id
      BY <2>2
    <3>. QED  BY <1>4, <1>5, <1>6, <1>8, <2>4, <3>1
  <2>5. count + 1 \in Tries'
    BY <1>6
  <2>6. {tracked[n].id : n \in {k \in Tries : Tracked!Open(k)}}' =
          {tracked'[n].id : n \in {k \in Tries' : Tracked!Open(k)'}}
    OBVIOUS
  <2>. QED  BY <1>9, <2>1, <2>3, <2>4, <2>5, <2>6
<1>12. ASSUME NEW n \in Tries', Tracked!Open(n)' PROVE IsTracked(n)' /\ Alone(n)'
  <2>1. CASE n = count + 1
    <3>1. IsTracked(n)'
      BY <1>1, <1>5, <2>1 DEF IsTracked
    <3>2. Alone(n)'
      BY <1>4, <1>5, <1>6, <1>8, <1>9, <2>1 DEF Alone
    <3>. QED  BY <3>1, <3>2
  <2>2. CASE n \in Tries
    <3>1. Tracked!Open(n) /\ tracked[n].id # next_id /\ IsTracked(n) /\ Alone(n)
      BY <1>8, <1>12, <2>2 DEF TrackedInv
    <3>2. tracked[n].id \in DOMAIN active /\ tracked'[n].id = tracked[n].id
          /\ tracked'[n].start = tracked[n].start /\ tracked'[n].timeout = tracked[n].timeout
      BY <1>4, <1>5, <1>6, <2>2, <3>1 DEF TrackedInv
    <3>3. IsTracked(n)'
      BY <1>1, <3>1, <3>2 DEF IsTracked
    <3>4. Alone(n)'
      BY <1>4, <1>5, <1>6, <1>8, <1>9, <3>1, <3>2 DEF Alone
    <3>. QED  BY <3>3, <3>4
  <2>. QED  BY <1>6, <2>1, <2>2
<1>13. ASSUME NEW n \in Tries', tracked'[n].ended = "overwritten" PROVE n + Ids <= Len(tracked')
  <2>1. n \in Tries
    BY <1>5, <1>6, <1>13
  <2>2. CASE tracked[n].id = next_id /\ Tracked!Open(n)
    BY <1>5, <1>7, <2>1, <2>2
  <2>3. CASE ~(tracked[n].id = next_id /\ Tracked!Open(n))
    <3>1. tracked[n].ended = "overwritten"
      BY <1>4, <1>5, <1>6, <1>13, <2>1, <2>3
    <3>2. n + Ids <= count
      BY <1>0, <2>1, <3>1 DEF TrackedInv
    <3>3. n \in Nat
      BY <1>6, <2>1
    <3>. QED  BY <1>5, <3>2, <3>3 DEF IdsAndTimes
  <2>. QED  BY <2>2, <2>3
<1>14. ASSUME NEW n \in Tries', tracked'[n].ended = "timed_out"
       PROVE  tracked'[n].at - tracked'[n].start > tracked'[n].timeout
  <2>1. n \in Tries
    BY <1>5, <1>6, <1>14
  <2>2. tracked[n].ended = "timed_out" /\ tracked'[n].at = tracked[n].at /\ tracked'[n].start = tracked[n].start
        /\ tracked'[n].timeout = tracked[n].timeout
    BY <1>4, <1>5, <1>6, <1>14, <2>1 DEF Tracked!Open
  <2>. QED  BY <2>1, <2>2 DEF TrackedInv
<1>15. clock' \in Nat
  BY <1>1 DEF TrackedInv
<1>. QED  BY <1>5, <1>10, <1>11, <1>12, <1>13, <1>14, <1>15 DEF TrackedInv

LEMMA TrackedStep ==
  ASSUME IdsAndTimes, TrackedInv, [Tracked!Next]_Tracked!requests
  PROVE  TrackedInv'
<1>1. ASSUME NEW timeout \in Timeouts, Tracked!SendConfirmedRequest(timeout) PROVE TrackedInv'
  BY <1>1, SendStep
<1>2. ASSUME NEW id \in 1..Ids, Tracked!CompleteRequest(id) PROVE TrackedInv'
  BY <1>2, ForgetStep DEF Tracked!CompleteRequest
<1>3. CASE Tracked!CheckTimeouts
  BY <1>3, ForgetStep DEF Tracked!CheckTimeouts
<1>4. CASE Tracked!Clear
  BY <1>4, ForgetStep DEF Tracked!Clear
<1>5. CASE Tracked!Tick
  <2>1. clock' \in Nat /\ UNCHANGED <<active, next_id, tracked>>
    BY <1>5 DEF Tracked!Tick, TrackedInv
  <2>. QED  BY <2>1 DEF TrackedInv, InTurn, Tries, IsTracked, Alone, Tracked!Open
<1>6. CASE UNCHANGED Tracked!requests
  BY <1>6 DEF Tracked!requests, TrackedInv, InTurn, Tries, IsTracked, Alone, Tracked!Open
<1>. QED  BY <1>1, <1>2, <1>3, <1>4, <1>5, <1>6 DEF Tracked!Next

\* However often the IDs come round, a request is tracked with its own time until it is
\* completed, cleared or over its time, or the request a whole cycle of IDs later takes its place.
THEOREM TrackedToTheEnd ==
  ASSUME IdsAndTimes
  PROVE  Tracked!Spec => []Tracked!TrackedForACycle
<1>1. Tracked!Init => TrackedInv
  <2>. SUFFICES ASSUME Tracked!Init PROVE TrackedInv
    OBVIOUS
  <2>1. Len(tracked) = 0 /\ tracked \in Seq(SentRequests) /\ Tries = {} /\ clock = 0
        /\ active = <<>> /\ next_id = 1
    BY DEF Tracked!Init, Tries
  <2>2. 0 % Ids = 0
    BY SMTT(30) DEF IdsAndTimes
  <2>3. DOMAIN active = {}
    BY <2>1
  <2>. QED  BY <2>1, <2>2, <2>3 DEF TrackedInv, InTurn
<1>2. TrackedInv /\ [Tracked!Next]_Tracked!requests => TrackedInv'
  BY TrackedStep
<1>3. TrackedInv => Tracked!TrackedForACycle
  <2>. SUFFICES ASSUME TrackedInv PROVE Tracked!TrackedForACycle
    OBVIOUS
  <2>1. DOMAIN tracked = Tries
    BY SentIs
  <2>2. \A n \in Tries : tracked[n].ended = "overwritten" => n + Ids \in Tries
    BY SentIs DEF TrackedInv, Tries, IdsAndTimes
  <2>3. ASSUME NEW id \in Tracked!Late PROVE Tracked!RemainingTime(id) = 0
    <3>1. PICK n \in Tries : Tracked!Open(n) /\ tracked[n].id = id
      BY DEF Tracked!Late, TrackedInv
    <3>2. active[id].start \in Nat /\ active[id].timeout \in Nat
      <4>1. active[id] = [start |-> tracked[n].start, timeout |-> tracked[n].timeout]
        BY <3>1 DEF TrackedInv, IsTracked
      <4>. QED  BY <4>1, SentIs
    <3>3. Tracked!Elapsed(id) > active[id].timeout /\ Tracked!Elapsed(id) \in Int
      BY <3>2 DEF Tracked!Late, Tracked!Elapsed, TrackedInv
    <3>. QED  BY <3>2, <3>3 DEF Tracked!RemainingTime
  <2>4. \A n \in Tries : Tracked!Open(n) => \A m \in Tries : Tracked!Open(m) /\ tracked[m].id = tracked[n].id => m = n
    BY DEF TrackedInv, Alone
  <2>. QED  BY <2>1, <2>2, <2>3, <2>4 DEF TrackedInv, IsTracked, Tracked!TrackedForACycle
<1>. QED  BY <1>1, <1>2, <1>3, PTL DEF Tracked!Spec

-----------------------------------------------------------------------------
(* Sequences, and tables of which some entries are retained *)

\* A sequence, of whatever is in it.
IsList(q) == q \in Seq({q[i] : i \in DOMAIN q})

\* Lists are what the members of Seq(S) are.
LEMMA MembersAreLists ==
  ASSUME NEW S, NEW q \in Seq(S)
  PROVE  /\ IsList(q) /\ Len(q) \in Nat /\ DOMAIN q = 1..Len(q)
         /\ \A i \in DOMAIN q : q[i] \in S
<1>1. Len(q) \in Nat /\ DOMAIN q = 1..Len(q) /\ \A i \in 1..Len(q) : q[i] \in S
  OBVIOUS
<1>2. q \in [1..Len(q) -> {q[i] : i \in DOMAIN q}]
  BY <1>1
<1>. QED  BY <1>1, <1>2 DEF IsList

LEMMA ListLength ==
  ASSUME NEW q, IsList(q)
  PROVE  Len(q) \in Nat /\ DOMAIN q = 1..Len(q)
  BY MembersAreLists DEF IsList

\* One list after another has the entries of both.
LEMMA JoinedLists ==
  ASSUME NEW q, NEW r, IsList(q), IsList(r)
  PROVE  /\ IsList(q \o r)
         /\ \A i \in DOMAIN (q \o r) :
              \/ \E j \in DOMAIN q : (q \o r)[i] = q[j]
              \/ \E j \in DOMAIN r : (q \o r)[i] = r[j]
<1>. DEFINE Q == {q[i] : i \in DOMAIN q}
            T == {r[i] : i \in DOMAIN r}
<1>1. q \in Seq(Q \cup T) /\ r \in Seq(Q \cup T)
  BY MembersAreLists DEF IsList
<1>2. q \o r \in Seq(Q \cup T)
  BY <1>1, ConcatProperties
<1>3. \A i \in DOMAIN (q \o r) : (q \o r)[i] \in Q \cup T
  BY <1>2, MembersAreLists
<1>4. IsList(q \o r)
  BY <1>2, MembersAreLists
<1>. QED  BY <1>3, <1>4

LEMMA RestOfList ==
  ASSUME NEW q, IsList(q), q # <<>>
  PROVE  /\ IsList(Tail(q)) /\ 1 \in DOMAIN q /\ Head(q) = q[1]
         /\ \A i \in DOMAIN Tail(q) : \E j \in DOMAIN q : Tail(q)[i] = q[j]
<1>. DEFINE Q == {q[i] : i \in DOMAIN q}
<1>1. q \in Seq(Q) /\ Len(q) \in Nat /\ DOMAIN q = 1..Len(q)
  BY ListLength DEF IsList
<1>2. Tail(q) \in Seq(Q) /\ Head(q) = q[1] /\ Len(q) # 0
  BY <1>1, HeadTailProperties, EmptySeq
<1>3. IsList(Tail(q)) /\ \A i \in DOMAIN Tail(q) : Tail(q)[i] \in Q
  BY <1>2, MembersAreLists
<1>. QED  BY <1>1, <1>2, <1>3

\* The place in a set of numbers at which each of its members stands, counted from zero.
Rank(places, i) == Cardinality({j \in places : j < i})

\* Of the places of a list each has a rank, and each rank a place.
LEMMA RanksArePlaces ==
  ASSUME NEW n \in Nat, NEW places \in SUBSET (1..n)
  PROVE  /\ Cardinality(places) \in Nat
         /\ \A k \in 0..(Cardinality(places) - 1) : \E i \in places : Rank(places, i) = k
<1>. DEFINE below(i) == {j \in places : j < i}
            c == Cardinality(places)
            rank == [i \in places |-> Rank(places, i)]
            ranks == {rank[i] : i \in places}
<1>1. IsFiniteSet(places) /\ c \in Nat
  <2>1. IsFiniteSet(1..n)
    BY FS_Interval
  <2>. QED  BY <2>1, FS_Subset, FS_CardinalityType
<1>2. \A i \in places : IsFiniteSet(below(i)) /\ Rank(places, i) \in 0..(c - 1)
  <2>. SUFFICES ASSUME NEW i \in places
                PROVE  IsFiniteSet(below(i)) /\ Cardinality(below(i)) \in 0..(c - 1)
    BY DEF Rank
  <2>1. below(i) \subseteq places /\ i \notin below(i) /\ i \in Nat
    OBVIOUS
  <2>2. IsFiniteSet(below(i)) /\ Cardinality(below(i)) \in Nat
    BY <1>1, <2>1, FS_Subset, FS_CardinalityType
  <2>3. Cardinality(below(i)) <= c /\ (Cardinality(below(i)) = c => below(i) = places)
    BY <1>1, <2>1, FS_Subset
  <2>. QED  BY <1>1, <2>1, <2>2, <2>3
<1>3. \A i, j \in places : i < j => Rank(places, i) < Rank(places, j)
  <2>. SUFFICES ASSUME NEW i \in places, NEW j \in places, i < j
                PROVE  Cardinality(below(i)) < Cardinality(below(j))
    BY DEF Rank
  <2>0. i \in Nat /\ ~(i < i) /\ \A k \in places : k < i => k < j
    <3>1. i \in Nat /\ j \in Nat /\ \A k \in places : k \in Nat
      OBVIOUS
    <3>. QED  BY <3>1
  <2>1. i \in below(j) /\ i \notin below(i) /\ below(i) \subseteq below(j)
    BY <2>0
  <2>2. /\ Cardinality(below(i)) <= Cardinality(below(j))
        /\ Cardinality(below(i)) = Cardinality(below(j)) => below(i) = below(j)
    BY <1>2, <2>1, FS_Subset
  <2>3. Cardinality(below(i)) \in Nat /\ Cardinality(below(j)) \in Nat
    BY <1>2, FS_CardinalityType
  <2>. QED  BY <2>1, <2>2, <2>3
<1>4. \A i, j \in places : rank[i] = rank[j] => i = j
  <2>. SUFFICES ASSUME NEW i \in places, NEW j \in places, i # j PROVE rank[i] # rank[j]
    OBVIOUS
  <2>1. i \in Nat /\ j \in Nat /\ (i < j \/ j < i)
    OBVIOUS
  <2>2. Rank(places, i) \in 0..(c - 1) /\ Rank(places, j) \in 0..(c - 1)
    BY <1>2
  <2>3. Rank(places, i) \in Int /\ Rank(places, j) \in Int
    BY <1>1, <2>2
  <2>4. Rank(places, i) # Rank(places, j)
    BY <1>3, <2>1, <2>3
  <2>. QED  BY <2>4
<1>5. ranks \subseteq 0..(c - 1) /\ IsFiniteSet(0..(c - 1)) /\ Cardinality(0..(c - 1)) = c
  <2>1. IsFiniteSet(0..(c - 1)) /\ Cardinality(0..(c - 1)) = IF 0 > c - 1 THEN 0 ELSE (c - 1) - 0 + 1
    BY <1>1, FS_Interval
  <2>2. ranks \subseteq 0..(c - 1)
    BY <1>2
  <2>. HIDE DEF ranks, c
  <2>. QED  BY <1>1, <2>1, <2>2
<1>6. Cardinality(ranks) = c
  <2>1. rank \in Bijection(places, ranks)
    BY <1>4 DEF Bijection, Injection, Surjection, IsInjective
  <2>. QED  BY <1>1, <2>1, FS_Bijection DEF ExistsBijection
<1>7. ranks = 0..(c - 1)
  BY <1>5, <1>6, FS_Subset
<1>. QED  BY <1>1, <1>7

\* The entries at some places of a list, as the tables of several components retain them.
Retained(q, places) ==
  [n \in 1..Cardinality(places) |->
     q[CHOOSE i \in places : Cardinality({j \in places : j < i}) = n - 1]]

\* What is retained of a list are the entries at the places that are retained, each once.
LEMMA RetainedPlaces ==
  ASSUME NEW q, IsList(q), NEW places \in SUBSET DOMAIN q
  PROVE  /\ IsList(Retained(q, places)) /\ Cardinality(places) \in Nat
         /\ \E at \in Bijection(1..Cardinality(places), places) :
              Retained(q, places) = [n \in 1..Cardinality(places) |-> q[at[n]]]
<1>. DEFINE c == Cardinality(places)
            place(n) == CHOOSE i \in places : Cardinality({j \in places : j < i}) = n - 1
            at == [n \in 1..c |-> place(n)]
            kept == [n \in 1..c |-> q[at[n]]]
<1>1. Len(q) \in Nat /\ DOMAIN q = 1..Len(q)
  BY ListLength
<1>2. c \in Nat /\ \A k \in 0..(c - 1) : \E i \in places : Rank(places, i) = k
  BY <1>1, RanksArePlaces
<1>3. \A n \in 1..c : place(n) \in places /\ Rank(places, place(n)) = n - 1
  <2>. SUFFICES ASSUME NEW n \in 1..c
                PROVE  \E i \in places : Cardinality({j \in places : j < i}) = n - 1
    BY DEF Rank
  <2>1. n - 1 \in 0..(c - 1)
    BY <1>2
  <2>. QED  BY <1>2, <2>1 DEF Rank
<1>4. Retained(q, places) = kept
  BY DEF Retained
<1>5. \A n \in 1..c : at[n] \in places /\ Rank(places, at[n]) = n - 1
  BY <1>3
<1>. HIDE DEF place, at
<1>6. kept \in Seq({kept[i] : i \in DOMAIN kept})
  BY <1>2
<1>7. at \in Bijection(1..c, places)
  <2>1. at \in [1..c -> places]
    BY <1>5 DEF at
  <2>2. \A m, n \in 1..c : at[m] = at[n] => m = n
    <3>. SUFFICES ASSUME NEW m \in 1..c, NEW n \in 1..c, at[m] = at[n]
                  PROVE  m = n
      OBVIOUS
    <3>1. m - 1 = n - 1
      BY <1>5
    <3>. QED  BY <1>2, <3>1
  <2>3. at \in Injection(1..c, places)
    BY <2>1, <2>2 DEF Injection, IsInjective
  <2>4. at \in Surjection(1..c, places)
    <3>. DEFINE hit == {at[n] : n \in 1..c}
    <3>1. hit \subseteq places
      BY <2>1
    <3>2. at \in Bijection(1..c, hit)
      BY <2>1, <2>2 DEF Bijection, Injection, Surjection, IsInjective
    <3>3. IsFiniteSet(1..c) /\ Cardinality(1..c) = c
      BY <1>2, FS_Interval
    <3>4. Cardinality(hit) = c
      BY <3>2, <3>3, FS_Bijection DEF ExistsBijection
    <3>5. IsFiniteSet(places)
      <4>1. IsFiniteSet(1..Len(q)) /\ places \subseteq 1..Len(q)
        BY <1>1, FS_Interval
      <4>. QED  BY <4>1, FS_Subset
    <3>6. hit = places
      BY <3>1, <3>4, <3>5, FS_Subset
    <3>. QED  BY <2>1, <3>6 DEF Surjection
  <2>. QED  BY <2>3, <2>4 DEF Bijection
<1>. QED  BY <1>2, <1>4, <1>6, <1>7 DEF IsList

\* The table of routes retains entries that way.
LEMMA KeptOfList ==
  ASSUME NEW q, IsList(q), NEW places \in SUBSET DOMAIN q
  PROVE  /\ IsList(R!Kept(q, places))
         /\ \A i \in DOMAIN R!Kept(q, places) : \E j \in places : R!Kept(q, places)[i] = q[j]
<1>1. R!Kept(q, places) = Retained(q, places)
  BY DEF R!Kept, R!Cardinality, Cardinality, Retained
<1>2. PICK at \in Bijection(1..Cardinality(places), places) :
        Retained(q, places) = [n \in 1..Cardinality(places) |-> q[at[n]]]
  BY RetainedPlaces
<1>3. at \in [1..Cardinality(places) -> places]
  BY DEF Bijection, Injection
<1>. QED  BY <1>1, <1>2, <1>3, RetainedPlaces

-----------------------------------------------------------------------------
(* A station and a virtual router *)

\* The networks that are there or once were.
Ever == networks \cup gone

ReachedFor(address, for) ==
  for.network # GLOBAL_BROADCAST =>
    address.network = for.network /\ (for.mac # None => address = for)

\* What an answer says was so when its frame came; of the router's own, a network is
\* announced that was there, and rejected, if the frame was routed, when it was removed.
SaysTrue(reply, removed, ever) ==
  /\ reply.source # None =>
       /\ ReachedFor(reply.source, reply.frame.destination)
       /\ reply.frame.origin # None => reply.to = reply.frame.origin
       /\ reply.frame.request.type = "WhoIs" => reply.device \in reply.frame.request.asks
  /\ reply.type = "RejectMessage" /\ reply.frame.routed => reply.networks \subseteq removed
  /\ reply.type = "IAmRouter" => reply.networks \subseteq ever

\* What was routed goes to a network that was announced, as stations know no other.
WireInv == \A frame \in wire : frame.routed => frame.destination.network \in Ever
RoutesInv ==
  IsList(routers) /\ \A i \in DOMAIN routers : routers[i].networks \subseteq Ever

JobInv ==
  /\ job = [at |-> job.at, frame |-> job.frame, reached |-> job.reached,
            replies |-> job.replies, alone |-> job.alone]
  /\ \A r \in job.reached : ReachedFor(r.address, job.frame.destination)
  /\ IsList(job.replies)
  /\ \A i \in DOMAIN job.replies : SaysTrue(job.replies[i], gone, Ever)
SentInv == \A reply \in sent : SaysTrue(reply, gone, Ever)

SiteInv == WireInv /\ RoutesInv /\ JobInv /\ SentInv

\* What was once true stays true when networks are added and removed.
LEMMA StaysTrue ==
  ASSUME NEW reply, NEW removed, NEW ever, NEW r, NEW e, SaysTrue(reply, removed, ever),
         removed \subseteq r, ever \subseteq e
  PROVE  SaysTrue(reply, r, e)
  BY DEF SaysTrue

\* The empty list and a list of one.
LEMMA ShortLists ==
  /\ IsList(<<>>)
  /\ \A x : IsList(<<x>>)
<1>1. ASSUME NEW x PROVE <<x>> \in Seq({x}) /\ <<>> \in Seq({x})
  OBVIOUS
<1>. QED  BY <1>1, MembersAreLists

\* A step of the station leaves the router alone.
LEMMA StationMoves ==
  ASSUME SiteInv, UNCHANGED vars, WireInv', RoutesInv'
  PROVE  SiteInv'
  BY DEF SiteInv, JobInv, SentInv, Ever, vars

\* A step of the router leaves the station alone.
LEMMA RouterMoves ==
  ASSUME SiteInv, UNCHANGED <<wire, routers>>, Ever \subseteq Ever', JobInv', SentInv'
  PROVE  SiteInv'
<1>1. WireInv'
  BY DEF SiteInv, WireInv
<1>2. RoutesInv'
  BY DEF SiteInv, RoutesInv
<1>. QED  BY <1>1, <1>2 DEF SiteInv

\* What a router answers on its table leaves the table.
LEMMA AnswerMoves ==
  ASSUME SiteInv, UNCHANGED <<wire, routers, networks, gone>>, JobInv',
         sent' = sent \/ \E reply : sent' = sent \cup {reply} /\ SaysTrue(reply, gone, Ever)
  PROVE  SiteInv'
<1>1. SentInv'
  BY DEF SiteInv, SentInv, Ever
<1>. QED  BY <1>1, RouterMoves DEF Ever

\* The station believes the networks of an announcement, and no others.
LEMMA Heard ==
  ASSUME SiteInv, NEW reply \in sent, Hear(reply)
  PROVE  SiteInv'
<1>1. UNCHANGED vars /\ UNCHANGED wire
  BY DEF Hear
<1>2. WireInv'
  BY <1>1 DEF SiteInv, WireInv, Ever, vars
<1>3. CASE reply.type = "IAmRouter"
  <2>. DEFINE left == R!Without(Site)
              new == [networks |-> reply.networks, address |-> Site]
  <2>1. routers' = Append(left, new) /\ reply.networks \subseteq Ever
    BY <1>3 DEF Hear, R!AddRouter, SiteInv, SentInv, SaysTrue
  <2>2. /\ IsList(left)
        /\ \A i \in DOMAIN left : \E j \in DOMAIN routers : left[i] = routers[j]
    BY KeptOfList DEF R!Without, SiteInv, RoutesInv
  <2>. HIDE DEF left
  <2>3. left \o <<new>> = Append(left, new)
    BY <2>2 DEF IsList
  <2>4. /\ IsList(left \o <<new>>)
        /\ \A i \in DOMAIN (left \o <<new>>) :
             \/ \E j \in DOMAIN left : (left \o <<new>>)[i] = left[j]
             \/ (left \o <<new>>)[i] = new
    BY <2>2, ShortLists, JoinedLists
  <2>5. \A j \in DOMAIN left : left[j].networks \subseteq Ever
    BY <2>2 DEF SiteInv, RoutesInv
  <2>6. new.networks \subseteq Ever /\ Ever' = Ever
    BY <1>1, <2>1 DEF Ever, vars
  <2>. HIDE DEF new
  <2>7. RoutesInv'
    BY <2>1, <2>3, <2>4, <2>5, <2>6 DEF RoutesInv
  <2>. QED  BY <1>1, <1>2, <2>7, StationMoves
<1>4. CASE reply.type # "IAmRouter"
  <2>1. routers' = routers
    BY <1>4 DEF Hear, R!ProcessNetworkMessage, R!SetNetworkBusy, R!vars
  <2>2. RoutesInv'
    BY <1>1, <2>1 DEF SiteInv, RoutesInv, Ever, vars
  <2>. QED  BY <1>1, <1>2, <2>2, StationMoves
<1>. QED  BY <1>3, <1>4

\* A request is put on the wire only when an entry of the table has its network.
LEMMA RoutedIsKnown ==
  ASSUME NEW message, R!Verdict(message) = "routed"
  PROVE  \E i \in DOMAIN routers : message.destination.network \in routers[i].networks
  BY DEF R!Verdict, R!FindRoute

LEMMA StationAsks ==
  ASSUME SiteInv, NEW message \in Requests, Ask(message)
  PROVE  SiteInv'
<1>1. UNCHANGED vars /\ routers' = routers
  BY DEF Ask, R!RouteMessage, R!Counts, R!vars
<1>2. RoutesInv' /\ Ever' = Ever
  BY <1>1 DEF SiteInv, RoutesInv, Ever, vars
<1>3. CASE R!Verdict(message) # "routed"
  <2>1. WireInv'
    BY <1>2, <1>3 DEF Ask, SiteInv, WireInv
  <2>. QED  BY <1>1, <1>2, <2>1, StationMoves
<1>4. CASE R!Verdict(message) = "routed"
  <2>1. wire' = wire \cup {Frame(R!Routed(message))}
    BY <1>4 DEF Ask
  <2>2. message.destination.network \in Ever
    BY <1>4, RoutedIsKnown DEF SiteInv, RoutesInv
  <2>3. R!Routed(message).destination = message.destination
    BY SiteAssumption DEF R!Routed, R!HopTaken
  <2>4. Frame(R!Routed(message)).destination.network \in Ever
    BY <2>2, <2>3 DEF Frame
  <2>5. WireInv'
    BY <1>2, <2>1, <2>4 DEF SiteInv, WireInv
  <2>. QED  BY <1>1, <1>2, <2>5, StationMoves
<1>. QED  BY <1>3, <1>4

\* Of what the station says, only its requests are routed; of what it hears, only
\* announcements add to its table.
LEMMA TalkStep ==
  ASSUME SiteInv, Talk
  PROVE  SiteInv'
<1>1. ASSUME NEW network \in Networks \cup {None}, AskRouters(network) PROVE SiteInv'
  <2>1. /\ UNCHANGED <<vars, routers>>
        /\ \A frame \in wire' : frame \in wire \/ frame.routed = FALSE
    BY <1>1 DEF AskRouters, Puts, station
  <2>2. WireInv' /\ RoutesInv'
    BY <2>1 DEF SiteInv, WireInv, RoutesInv, Ever, vars
  <2>. QED  BY <2>1, <2>2, StationMoves
<1>2. ASSUME NEW message, Asked(message) PROVE SiteInv'
  <2>1. /\ UNCHANGED <<vars, routers>>
        /\ \A frame \in wire' : frame \in wire \/ frame.routed = FALSE
    BY <1>2 DEF Asked, R!ProcessNetworkMessage, R!SetNetworkBusy, R!vars
  <2>2. WireInv' /\ RoutesInv'
    BY <2>1 DEF SiteInv, WireInv, RoutesInv, Ever, vars
  <2>. QED  BY <2>1, <2>2, StationMoves
<1>3. ASSUME NEW frame \in Broadcasts, Broadcast(frame) PROVE SiteInv'
  <2>1. UNCHANGED <<vars, routers>> /\ wire' = wire \cup {frame} /\ frame.routed = FALSE
    BY <1>3, SiteAssumption DEF Broadcast, Puts, station
  <2>2. WireInv' /\ RoutesInv'
    BY <2>1 DEF SiteInv, WireInv, RoutesInv, Ever, vars
  <2>. QED  BY <2>1, <2>2, StationMoves
<1>4. ASSUME NEW network, NEW is, HearBusy(network, is) PROVE SiteInv'
  <2>1. UNCHANGED <<vars, routers, wire>>
    BY <1>4 DEF HearBusy, R!ProcessNetworkMessage, R!SetNetworkBusy, R!vars
  <2>2. WireInv' /\ RoutesInv'
    BY <2>1 DEF SiteInv, WireInv, RoutesInv, Ever, vars
  <2>. QED  BY <2>1, <2>2, StationMoves
<1>5. CASE Reset
  <2>1. UNCHANGED <<vars, routers, wire>>
    BY <1>5 DEF Reset, R!ResetMetrics
  <2>2. WireInv' /\ RoutesInv'
    BY <2>1 DEF SiteInv, WireInv, RoutesInv, Ever, vars
  <2>. QED  BY <2>1, <2>2, StationMoves
<1>6. CASE Forget
  <2>1. UNCHANGED <<vars, wire>> /\ routers' = R!Without(Site)
    BY <1>6 DEF Forget, R!RemoveRouter
  <2>. DEFINE left == R!Without(Site)
  <2>2. /\ IsList(left)
        /\ \A i \in DOMAIN left : \E j \in DOMAIN routers : left[i] = routers[j]
    <3>1. IsList(routers)
      BY DEF SiteInv, RoutesInv
    <3>. DEFINE others == {i \in DOMAIN routers : routers[i].address # Site}
    <3>2. left = R!Kept(routers, others)
      BY DEF R!Without
    <3>3. others \in SUBSET DOMAIN routers
      OBVIOUS
    <3>. HIDE DEF left, others
    <3>4. /\ IsList(left)
          /\ \A i \in DOMAIN left : \E j \in others : left[i] = routers[j]
      BY <3>1, <3>2, <3>3, KeptOfList
    <3>. QED  BY <3>3, <3>4
  <2>. HIDE DEF left
  <2>3. WireInv' /\ RoutesInv'
    BY <2>1, <2>2 DEF SiteInv, WireInv, RoutesInv, Ever, vars, left
  <2>. QED  BY <2>1, <2>3, StationMoves
<1>. QED  BY <1>1, <1>2, <1>3, <1>4, <1>5, <1>6, StationAsks, Heard DEF Talk

\* A frame reaches the devices it is for; and a network no frame of a route should name is
\* one that was removed.
LEMMA ReceiveStep ==
  ASSUME SiteInv, NEW frame \in wire, Receive(frame), UNCHANGED <<wire, routers>>
  PROVE  SiteInv'
<1>1. UNCHANGED <<wire, routers, networks, gone, sent>> /\ Ever' = Ever
  BY DEF Receive, Ever
<1>2. CASE job' = job
  <2>1. JobInv'
    BY <1>1, <1>2 DEF SiteInv, JobInv
  <2>. QED  BY <1>1, <2>1, AnswerMoves
<1>3. ASSUME NEW replies, Sends(frame, replies), IsList(replies),
             \A i \in DOMAIN replies : SaysTrue(replies[i], gone, Ever)
      PROVE  SiteInv'
  <2>1. job' = [at |-> "sending", frame |-> frame, reached |-> {}, replies |-> replies, alone |-> FALSE]
    BY <1>3 DEF Sends, Idle
  <2>2. JobInv'
    BY <1>1, <1>3, <2>1 DEF JobInv
  <2>. QED  BY <1>1, <2>2, AnswerMoves
<1>4. CASE Sends(frame, NetworkMessage(frame))
  <2>. DEFINE told == NetworkMessage(frame)
  <2>1. \/ told = <<>>
        \/ /\ told = <<NetworkFrame(frame, "IAmRouter", Announced(frame.request.asks))>>
           /\ Announced(frame.request.asks) \subseteq networks
    BY DEF NetworkMessage, Announced
  <2>2. IsList(told)
    BY <2>1, ShortLists
  <2>3. \A i \in DOMAIN told : SaysTrue(told[i], gone, Ever)
    BY <2>1 DEF SaysTrue, NetworkFrame, Ever
  <2>. HIDE DEF told
  <2>. QED  BY <1>3, <1>4, <2>2, <2>3 DEF told
<1>5. CASE UnknownNetwork(frame) /\ Sends(frame, Rejection(frame))
  <2>. DEFINE told == Rejection(frame)
  <2>1. frame.routed => frame.destination.network \in gone
    BY <1>5 DEF UnknownNetwork, SiteInv, WireInv, Ever
  <2>2. \/ told = <<>>
        \/ told = <<NetworkFrame(frame, "RejectMessage", {frame.destination.network})>>
    BY DEF Rejection
  <2>3. IsList(told)
    BY <2>2, ShortLists
  <2>4. \A i \in DOMAIN told : SaysTrue(told[i], gone, Ever)
    BY <2>1, <2>2 DEF SaysTrue, NetworkFrame
  <2>. HIDE DEF told
  <2>. QED  BY <1>3, <1>5, <2>3, <2>4 DEF told
<1>6. ASSUME NEW reached,
             reached = {[address |-> a, device |-> devices[a]] : a \in ReachedBy(frame.destination)},
             Serves(frame, "serving", reached, <<>>)
      PROVE  SiteInv'
  <2>1. \A r \in reached : ReachedFor(r.address, frame.destination)
    BY <1>6 DEF ReachedBy, OnNetwork, ReachedFor
  <2>2. JobInv'
    BY <1>6, <2>1, ShortLists DEF Serves, JobInv
  <2>. QED  BY <1>1, <2>2, AnswerMoves
<1>. QED  BY <1>2, <1>4, <1>5, <1>6 DEF Receive

\* One request has at most one answer.
LEMMA OneAnswer ==
  ASSUME NEW device, NEW request
  PROVE  LET answer == Dispatcher!Answer(device, request)
         IN  \/ answer = <<>>
             \/ /\ \E apdu : answer = <<apdu>>
                /\ request.type = "WhoIs" => device \in request.asks
  BY DEF Dispatcher!Answer, Dispatcher!Undecodable, Dispatcher!Dispatch

\* A device answers what was for it.
LEMMA AnswerStep ==
  ASSUME SiteInv, AnswerNext, UNCHANGED <<wire, routers>>
  PROVE  SiteInv'
<1>0. PICK next \in job.reached :
       LET answer == IF Handed THEN Dispatcher!Answer(next.device, job.frame.request) ELSE <<>> IN
       job' = [job EXCEPT !.reached = @ \ {next},
                          !.replies = @ \o [i \in DOMAIN answer |-> Said(next, answer[i])]]
  BY DEF AnswerNext
<1>. DEFINE answer == IF Handed THEN Dispatcher!Answer(next.device, job.frame.request) ELSE <<>>
            said == [i \in DOMAIN answer |-> Said(next, answer[i])]
<1>1. UNCHANGED <<wire, routers, networks, gone, sent>> /\ Ever' = Ever
  BY DEF AnswerNext, Ever
<1>2. job' = [at |-> job.at, frame |-> job.frame, reached |-> job.reached \ {next},
             replies |-> job.replies \o said, alone |-> job.alone]
  BY <1>0 DEF SiteInv, JobInv
<1>3. \/ said = <<>>
      \/ \E apdu : /\ said = <<Said(next, apdu)>>
                   /\ job.frame.request.type = "WhoIs" => next.device \in job.frame.request.asks
  <2>1. \/ answer = <<>>
        \/ /\ \E apdu : answer = <<apdu>>
           /\ job.frame.request.type = "WhoIs" => next.device \in job.frame.request.asks
    BY OneAnswer
  <2>. HIDE DEF answer
  <2>2. answer = <<>> => said = <<>>
    OBVIOUS
  <2>3. \A apdu : answer = <<apdu>> => said = <<Said(next, apdu)>>
    OBVIOUS
  <2>. HIDE DEF said
  <2>. QED  BY <2>1, <2>2, <2>3
<1>. HIDE DEF said
<1>4. \A i \in DOMAIN said : SaysTrue(said[i], gone, Ever)
  BY <1>3 DEF SiteInv, JobInv, SaysTrue, Said, ReplyTo
<1>5. IsList(said)
  BY <1>3, ShortLists
<1>. DEFINE both == job.replies \o said
<1>6. /\ IsList(both)
      /\ \A i \in DOMAIN both : \/ \E j \in DOMAIN job.replies : both[i] = job.replies[j]
                               \/ \E j \in DOMAIN said : both[i] = said[j]
  <2>1. IsList(job.replies)
    BY DEF SiteInv, JobInv
  <2>. QED  BY <1>5, <2>1, JoinedLists
<1>. HIDE DEF both
<1>7. \A i \in DOMAIN both : SaysTrue(both[i], gone, Ever)
  BY <1>4, <1>6 DEF SiteInv, JobInv
<1>8. \A r \in job.reached : ReachedFor(r.address, job.frame.destination)
  BY DEF SiteInv, JobInv
<1>9. JobInv'
  BY <1>1, <1>2, <1>6, <1>7, <1>8 DEF JobInv, both
<1>. QED  BY <1>1, <1>9, AnswerMoves

\* What the router sends is what was answered.
LEMMA SendReplyStep ==
  ASSUME SiteInv, SendNext, UNCHANGED <<wire, routers>>
  PROVE  SiteInv'
<1>1. UNCHANGED <<wire, routers, networks, gone>> /\ Ever' = Ever
  BY DEF SendNext, Ever
<1>2. CASE job.replies = <<>>
  <2>1. job' = Idle /\ sent' = sent
    BY <1>2 DEF SendNext
  <2>2. JobInv'
    BY <2>1, ShortLists DEF JobInv, Idle
  <2>. QED  BY <1>1, <2>1, <2>2, AnswerMoves
<1>3. CASE job.replies # <<>>
  <2>. DEFINE rest == Tail(job.replies)
  <2>1. sent' = sent \cup {Head(job.replies)}
    BY <1>3 DEF SendNext
  <2>2. job' = [at |-> job.at, frame |-> job.frame, reached |-> job.reached,
               replies |-> rest, alone |-> job.alone]
    BY <1>3 DEF SendNext, SiteInv, JobInv
  <2>3. /\ IsList(rest) /\ SaysTrue(Head(job.replies), gone, Ever)
        /\ \A i \in DOMAIN rest : SaysTrue(rest[i], gone, Ever)
    BY <1>3, RestOfList DEF SiteInv, JobInv
  <2>. HIDE DEF rest
  <2>4. JobInv'
    BY <1>1, <2>2, <2>3 DEF SiteInv, JobInv
  <2>. QED  BY <1>1, <2>1, <2>3, <2>4, AnswerMoves
<1>. QED  BY <1>2, <1>3

\* The host's edits add to what there was.
LEMMA EditStep ==
  ASSUME SiteInv, Edit, UNCHANGED <<wire, routers>>
  PROVE  SiteInv'
<1>1. UNCHANGED <<job, sent>> /\ gone \subseteq gone' /\ Ever \subseteq Ever'
  BY DEF Edit, AddNetwork, RemoveNetwork, InsertDevice, RemoveDevice, Ever
<1>2. JobInv'
  BY <1>1, StaysTrue DEF SiteInv, JobInv
<1>3. SentInv'
  BY <1>1, StaysTrue DEF SiteInv, SentInv
<1>. QED  BY <1>1, <1>2, <1>3, RouterMoves

LEMMA SiteStep ==
  ASSUME SiteInv, [SiteNext]_all
  PROVE  SiteInv'
<1>1. CASE Talk
  BY <1>1, TalkStep
<1>2. ASSUME NEW frame \in wire, Arrive(frame) PROVE SiteInv'
  BY <1>2, ReceiveStep DEF Arrive, station
<1>3. ASSUME NEW frame \in wire, Vanish(frame) PROVE SiteInv'
  <2>1. UNCHANGED <<vars, routers>> /\ wire' \subseteq wire
    BY <1>3 DEF Vanish, station
  <2>2. WireInv' /\ RoutesInv'
    BY <2>1 DEF SiteInv, WireInv, RoutesInv, Ever, vars
  <2>. QED  BY <2>1, <2>2, StationMoves
<1>4. CASE Serve /\ UNCHANGED <<station, wire, frames, edits>>
  <2>1. CASE AnswerNext
    BY <1>4, <2>1, AnswerStep DEF station
  <2>2. CASE AllAnswered
    <3>1. UNCHANGED <<wire, routers, networks, gone, sent>>
      BY <1>4, <2>2 DEF AllAnswered, station
    <3>2. JobInv'
      BY <2>2, <3>1 DEF AllAnswered, SiteInv, JobInv, Ever
    <3>. QED  BY <3>1, <3>2, AnswerMoves
  <2>3. CASE Fail
    <3>1. UNCHANGED <<wire, routers, networks, gone, sent>> /\ job' = Idle
      BY <1>4, <2>3 DEF Fail, station
    <3>2. JobInv'
      BY <3>1, ShortLists DEF JobInv, Idle
    <3>. QED  BY <3>1, <3>2, AnswerMoves
  <2>4. CASE SendNext
    BY <1>4, <2>4, SendReplyStep DEF station
  <2>. QED  BY <1>4, <2>1, <2>2, <2>3, <2>4 DEF Serve
<1>5. CASE Edit /\ UNCHANGED <<station, wire, frames>>
  BY <1>5, EditStep DEF station
<1>6. CASE UNCHANGED all
  BY <1>6 DEF all, vars, station, SiteInv, WireInv, RoutesInv, JobInv, SentInv, Ever
<1>. QED  BY <1>1, <1>2, <1>3, <1>4, <1>5, <1>6 DEF SiteNext

\* Whatever is lost, repeated and reordered on the network, and however the host edits its
\* table while frames are served: what a device answers comes from where its request was
\* for and goes to who asked, and a station that sends only where a router announced the
\* network is told that it is unknown only if it was removed.
THEOREM AnswersAreTrue == SiteSpec => []RouterIsTruthful
<1>1. SiteInit => SiteInv
  BY ShortLists DEF SiteInit, SiteInv, WireInv, RoutesInv, JobInv, SentInv, Idle, R!Init
<1>2. SiteInv /\ [SiteNext]_all => SiteInv'
  BY SiteStep
<1>3. SiteInv => RouterIsTruthful
  BY DEF SiteInv, SentInv, SaysTrue, ReachedFor, RouterIsTruthful, AnsweredByTheAsked,
         RejectedOnlyWhenGone
<1>. QED  BY <1>1, <1>2, <1>3, PTL DEF SiteSpec

-----------------------------------------------------------------------------
(* The tables whose owner tells them the time *)

CONSTANTS Stations, Ttls, Masks, Elapses, MaxEntries, Observers, Lifetimes, MaxSeconds
VARIABLES entries, peers, seconds, until, meant, subscribed, told, ends

Tables == INSTANCE TimedTables WITH Addresses <- Stations

Rows(q) == {q[i] : i \in DOMAIN q}

\* No two entries of a list of a table are for one address, or for one subscriber to an object.
OnePerAddress(q) == \A i, j \in DOMAIN q : q[i].address = q[j].address => i = j
OnePerKey(q) == \A i, j \in DOMAIN q : Tables!KeyOf(q[i]) = Tables!KeyOf(q[j]) => i = j

\* These tables retain entries as the others do.
LEMMA KeptRows ==
  ASSUME NEW q, IsList(q), NEW places \in SUBSET DOMAIN q
  PROVE  LET kept == Tables!Kept(q, places) IN
         /\ IsList(kept) /\ Rows(kept) = {q[i] : i \in places}
         /\ OnePerAddress(q) => OnePerAddress(kept)
         /\ OnePerKey(q) => OnePerKey(kept)
<1>. DEFINE c == Cardinality(places)
            kept == Tables!Kept(q, places)
<1>1. PICK at \in Bijection(1..c, places) : Retained(q, places) = [n \in 1..c |-> q[at[n]]]
  BY RetainedPlaces
<1>2. kept = [n \in 1..c |-> q[at[n]]]
  BY <1>1 DEF Tables!Kept, Tables!Cardinality, Cardinality, Retained
<1>3. IsList(kept)
  BY <1>1, <1>2, RetainedPlaces
<1>4. /\ at \in [1..c -> places] /\ \A i \in places : \E n \in 1..c : at[n] = i
      /\ \A m, n \in 1..c : at[m] = at[n] => m = n
  BY DEF Bijection, Injection, Surjection, IsInjective
<1>5. DOMAIN kept = 1..c /\ \A n \in 1..c : kept[n] = q[at[n]] /\ at[n] \in places
  BY <1>2, <1>4
<1>. HIDE DEF kept
<1>6. Rows(kept) = {q[i] : i \in places}
  BY <1>4, <1>5 DEF Rows
<1>7. OnePerAddress(q) => OnePerAddress(kept)
  BY <1>4, <1>5 DEF OnePerAddress
<1>8. OnePerKey(q) => OnePerKey(kept)
  BY <1>4, <1>5 DEF OnePerKey
<1>. QED  BY <1>3, <1>6, <1>7, <1>8 DEF kept

\* A list one longer.
LEMMA OneMore ==
  ASSUME NEW q, IsList(q), NEW entry
  PROVE  /\ IsList(Append(q, entry)) /\ Rows(Append(q, entry)) = Rows(q) \cup {entry}
         /\ DOMAIN Append(q, entry) = 1..(Len(q) + 1)
         /\ Append(q, entry)[Len(q) + 1] = entry
         /\ \A i \in 1..Len(q) : Append(q, entry)[i] = q[i]
<1>. DEFINE S == Rows(q) \cup {entry}
<1>1. q \in Seq(S) /\ Len(q) \in Nat /\ DOMAIN q = 1..Len(q)
  BY ListLength, MembersAreLists DEF IsList, Rows
<1>2. /\ Append(q, entry) \in Seq(S) /\ Len(Append(q, entry)) = Len(q) + 1
      /\ Append(q, entry)[Len(q) + 1] = entry
      /\ \A i \in 1..Len(q) : Append(q, entry)[i] = q[i]
  BY <1>1, AppendProperties
<1>3. IsList(Append(q, entry)) /\ DOMAIN Append(q, entry) = 1..(Len(q) + 1)
  BY <1>2, MembersAreLists
<1>4. \A i \in 1..(Len(q) + 1) : i \in 1..Len(q) \/ i = Len(q) + 1
  BY <1>1
<1>5. 1..Len(q) \subseteq 1..(Len(q) + 1) /\ Len(q) + 1 \in 1..(Len(q) + 1)
  BY <1>1
<1>. QED  BY <1>1, <1>2, <1>3, <1>4, <1>5 DEF Rows

\* An entry takes the place of the one for its address.
LEMMA Placed ==
  ASSUME NEW q, IsList(q), OnePerAddress(q), NEW entry
  PROVE  LET placed == Tables!Place(q, entry) IN
         /\ IsList(placed) /\ OnePerAddress(placed)
         /\ Rows(placed) = {row \in Rows(q) : row.address # entry.address} \cup {entry}
<1>. DEFINE placed == Tables!Place(q, entry)
            own == Tables!Of(q, entry.address)
<1>1. Len(q) \in Nat /\ DOMAIN q = 1..Len(q)
  BY ListLength
<1>2. CASE own = {}
  <2>1. placed = Append(q, entry)
    BY <1>2 DEF Tables!Place, Tables!HasEntry
  <2>2. \A i \in DOMAIN q : q[i].address # entry.address
    BY <1>2 DEF Tables!Of
  <2>3. OnePerAddress(Append(q, entry))
    BY <1>1, <2>2, OneMore DEF OnePerAddress
  <2>4. {row \in Rows(q) : row.address # entry.address} = Rows(q)
    BY <2>2 DEF Rows
  <2>. QED  BY <2>1, <2>3, <2>4, OneMore
<1>3. CASE own # {}
  <2>1. PICK first \in own : own = {first}
    BY <1>3 DEF Tables!Of, OnePerAddress
  <2>2. first \in DOMAIN q /\ q[first].address = entry.address
    BY <2>1 DEF Tables!Of
  <2>3. \A i \in own : (\A j \in own : i <= j) <=> i = first
    BY <1>1, <2>1, <2>2
  <2>4. (CHOOSE i \in own : \A j \in own : i <= j) = first
    BY <2>1, <2>3
  <2>5. placed = [q EXCEPT ![first] = entry]
    BY <1>3, <2>4 DEF Tables!Place, Tables!HasEntry
  <2>6. DOMAIN placed = 1..Len(q) /\ \A i \in 1..Len(q) : placed[i] = IF i = first THEN entry ELSE q[i]
    BY <1>1, <2>2, <2>5
  <2>. HIDE DEF placed, own
  <2>7. placed \in Seq({placed[i] : i \in DOMAIN placed})
    <3>1. placed = [i \in 1..Len(q) |-> placed[i]]
      BY <1>1, <2>2, <2>5
    <3>. QED  BY <1>1, <2>6, <3>1
  <2>8. OnePerAddress(placed)
    BY <1>1, <2>2, <2>6 DEF OnePerAddress
  <2>9. \A i \in DOMAIN q : q[i].address = entry.address <=> i = first
    BY <2>2 DEF OnePerAddress
  <2>10. Rows(placed) = {row \in Rows(q) : row.address # entry.address} \cup {entry}
    BY <1>1, <2>2, <2>6, <2>9 DEF Rows
  <2>. QED  BY <2>7, <2>8, <2>10 DEF IsList, placed
<1>. QED  BY <1>2, <1>3

\* What is dropped are the entries for an address.
LEMMA Dropped ==
  ASSUME NEW q, IsList(q), OnePerAddress(q), NEW address
  PROVE  LET left == Tables!Without(q, address) IN
         /\ IsList(left) /\ OnePerAddress(left)
         /\ Rows(left) = {row \in Rows(q) : row.address # address}
<1>. DEFINE others == DOMAIN q \ Tables!Of(q, address)
<1>1. others \in SUBSET DOMAIN q /\ others = {i \in DOMAIN q : q[i].address # address}
  BY DEF Tables!Of
<1>2. Tables!Without(q, address) = Tables!Kept(q, others)
  BY DEF Tables!Without
<1>3. {q[i] : i \in others} = {row \in Rows(q) : row.address # address}
  BY <1>1 DEF Rows
<1>. HIDE DEF others
<1>. QED  BY <1>1, <1>2, <1>3, KeptRows

\* A list in which nothing stands twice is as long as the set of what is in it.
LEMMA EachOnce ==
  ASSUME NEW q, IsList(q), \A i, j \in DOMAIN q : q[i] = q[j] => i = j
  PROVE  Tables!ListsOnce(q, Rows(q))
<1>1. Len(q) \in Nat /\ DOMAIN q = 1..Len(q)
  BY ListLength
<1>2. q \in [1..Len(q) -> Rows(q)] /\ \A row \in Rows(q) : \E i \in 1..Len(q) : q[i] = row
  <2>1. q = [i \in 1..Len(q) |-> q[i]]
    BY <1>1 DEF IsList
  <2>. QED  BY <1>1, <2>1 DEF Rows
<1>3. q \in Bijection(1..Len(q), Rows(q))
  BY <1>1, <1>2 DEF Bijection, Injection, Surjection, IsInjective
<1>4. IsFiniteSet(1..Len(q)) /\ Cardinality(1..Len(q)) = Len(q)
  BY <1>1, FS_Interval
<1>5. Cardinality(Rows(q)) = Len(q)
  BY <1>3, <1>4, FS_Bijection DEF ExistsBijection
<1>. QED  BY <1>5 DEF Tables!ListsOnce, Tables!Range, Rows, Tables!Cardinality, Cardinality

\* The columns of a list of which no two entries have the same there.
LEMMA AddressColumn ==
  ASSUME NEW q, IsList(q), OnePerAddress(q)
  PROVE  Tables!ListsOnce([i \in DOMAIN q |-> q[i].address], {q[i].address : i \in DOMAIN q})
<1>. DEFINE column == [i \in DOMAIN q |-> q[i].address]
<1>1. Len(q) \in Nat /\ DOMAIN q = 1..Len(q)
  BY ListLength
<1>2. DOMAIN column = 1..Len(q) /\ column = [i \in 1..Len(q) |-> column[i]]
  BY <1>1
<1>3. column \in Seq({column[i] : i \in DOMAIN column})
  BY <1>1, <1>2
<1>4. \A i, j \in DOMAIN column : column[i] = column[j] => i = j
  BY <1>1 DEF OnePerAddress
<1>5. Rows(column) = {q[i].address : i \in DOMAIN q}
  BY DEF Rows
<1>. HIDE DEF column
<1>6. Tables!ListsOnce(column, Rows(column))
  BY <1>3, <1>4, EachOnce DEF IsList
<1>. QED  BY <1>5, <1>6 DEF column

LEMMA KeyColumn ==
  ASSUME NEW q, IsList(q), OnePerKey(q)
  PROVE  Tables!ListsOnce([i \in DOMAIN q |-> Tables!KeyOf(q[i])],
                          {Tables!KeyOf(q[i]) : i \in DOMAIN q})
<1>. DEFINE column == [i \in DOMAIN q |-> Tables!KeyOf(q[i])]
<1>1. Len(q) \in Nat /\ DOMAIN q = 1..Len(q)
  BY ListLength
<1>2. DOMAIN column = 1..Len(q) /\ column = [i \in 1..Len(q) |-> column[i]]
  BY <1>1
<1>3. column \in Seq({column[i] : i \in DOMAIN column})
  BY <1>1, <1>2
<1>4. \A i, j \in DOMAIN column : column[i] = column[j] => i = j
  BY <1>1 DEF OnePerKey
<1>5. Rows(column) = {Tables!KeyOf(q[i]) : i \in DOMAIN q}
  BY DEF Rows
<1>. HIDE DEF column
<1>6. Tables!ListsOnce(column, Rows(column))
  BY <1>3, <1>4, EachOnce DEF IsList
<1>. QED  BY <1>5, <1>6 DEF column

-----------------------------------------------------------------------------
(* Foreign devices: an entry has what is left of the time it was registered for *)

RegistersInv ==
  /\ IsList(entries) /\ OnePerAddress(entries)
  /\ \A row \in Rows(entries) :
       /\ row = [address |-> row.address, ttl |-> row.ttl, remaining_time |-> row.remaining_time]
       /\ row.ttl \in Nat /\ row.remaining_time \in Nat
       /\ row.ttl > 0 => row.remaining_time > 0
       /\ row.address \in DOMAIN until /\ until[row.address] = seconds + row.remaining_time
  /\ seconds \in Nat
  /\ \A address \in DOMAIN until :
       /\ until[address] \in Nat
       /\ seconds < until[address] => \E row \in Rows(entries) : row.address = address

LEMMA RegistersStep ==
  ASSUME Tables!TablesAssumption, RegistersInv, Tables!DevicesNext
  PROVE  RegistersInv'
<1>1. ASSUME NEW address, NEW ttl \in Ttls, Tables!Register(address, ttl) PROVE RegistersInv'
  <2>. DEFINE entry == [address |-> address, ttl |-> ttl, remaining_time |-> ttl]
  <2>1. entries' = Tables!Place(entries, entry) /\ seconds' = seconds
    BY <1>1 DEF Tables!Register
  <2>2. /\ IsList(entries') /\ OnePerAddress(entries')
        /\ Rows(entries') = {row \in Rows(entries) : row.address # address} \cup {entry}
    BY <2>1, Placed DEF RegistersInv
  <2>3. /\ DOMAIN until' = DOMAIN until \cup {address} /\ until'[address] = seconds + ttl
        /\ \A a \in DOMAIN until : a # address => until'[a] = until[a]
    BY <1>1 DEF Tables!Register
  <2>4. ttl \in Nat
    BY DEF Tables!TablesAssumption
  <2>. QED  BY <2>1, <2>2, <2>3, <2>4 DEF RegistersInv
<1>2. ASSUME NEW address, Tables!Delete(address) PROVE RegistersInv'
  <2>1. entries' = Tables!Without(entries, address) /\ seconds' = seconds
    BY <1>2 DEF Tables!Delete
  <2>2. /\ IsList(entries') /\ OnePerAddress(entries')
        /\ Rows(entries') = {row \in Rows(entries) : row.address # address}
    BY <2>1, Dropped DEF RegistersInv
  <2>3. DOMAIN until' = DOMAIN until \ {address} /\ \A a \in DOMAIN until' : until'[a] = until[a]
    BY <1>2 DEF Tables!Delete, Tables!Restrict
  <2>. QED  BY <2>1, <2>2, <2>3 DEF RegistersInv
<1>3. ASSUME NEW elapsed \in Elapses, Tables!UpdateTimes(elapsed) PROVE RegistersInv'
  <2>. DEFINE lasting == {i \in DOMAIN entries : entries[i].remaining_time > elapsed}
              alive == Tables!Kept(entries, lasting)
              older(row) == [row EXCEPT !.remaining_time = row.remaining_time - elapsed]
  <2>1. entries' = [i \in DOMAIN alive |-> older(alive[i])]
    BY <1>3 DEF Tables!UpdateTimes, Tables!Remaining
  <2>2. seconds' = seconds + elapsed /\ until' = until /\ elapsed \in Nat
    BY <1>3 DEF Tables!UpdateTimes, Tables!TablesAssumption
  <2>3. /\ IsList(alive) /\ OnePerAddress(alive)
        /\ Rows(alive) = {entries[i] : i \in lasting}
    BY KeptRows DEF RegistersInv
  <2>4. Rows(alive) = {row \in Rows(entries) : row.remaining_time > elapsed}
    BY <2>3 DEF Rows
  <2>. HIDE DEF alive
  <2>5. Len(alive) \in Nat /\ DOMAIN alive = 1..Len(alive)
    BY <2>3, ListLength
  <2>6. IsList(entries') /\ Rows(entries') = {older(row) : row \in Rows(alive)}
    <3>1. entries' \in Seq({entries'[i] : i \in DOMAIN entries'})
      BY <2>1, <2>5
    <3>. QED  BY <2>1, <3>1 DEF IsList, Rows
  <2>7. \A row \in Rows(alive) :
          older(row) = [address |-> row.address, ttl |-> row.ttl,
                        remaining_time |-> row.remaining_time - elapsed]
    BY <2>4 DEF RegistersInv
  <2>8. OnePerAddress(entries')
    <3>1. \A i \in DOMAIN alive : entries'[i].address = alive[i].address
      BY <2>1, <2>7 DEF Rows
    <3>. QED  BY <2>1, <2>3, <3>1 DEF OnePerAddress
  <2>. HIDE DEF older
  <2>9. ASSUME NEW row \in Rows(entries')
        PROVE  /\ row = [address |-> row.address, ttl |-> row.ttl, remaining_time |-> row.remaining_time]
               /\ row.ttl \in Nat /\ row.remaining_time \in Nat /\ row.remaining_time > 0
               /\ row.address \in DOMAIN until
               /\ until[row.address] = seconds + elapsed + row.remaining_time
    <3>1. PICK was \in Rows(entries) :
            /\ was.remaining_time > elapsed
            /\ row = [address |-> was.address, ttl |-> was.ttl,
                      remaining_time |-> was.remaining_time - elapsed]
      BY <2>4, <2>6, <2>7
    <3>. QED  BY <2>2, <3>1 DEF RegistersInv
  <2>10. ASSUME NEW address \in DOMAIN until, seconds + elapsed < until[address]
         PROVE  \E row \in Rows(entries') : row.address = address
    <3>1. PICK row \in Rows(entries) : row.address = address
      BY <2>2, <2>10 DEF RegistersInv
    <3>2. row.remaining_time > elapsed
      BY <2>2, <2>10, <3>1 DEF RegistersInv
    <3>3. older(row) \in Rows(entries') /\ older(row).address = address
      BY <2>4, <2>6, <2>7, <3>1, <3>2
    <3>. QED  BY <3>3
  <2>. QED  BY <2>2, <2>6, <2>8, <2>9, <2>10 DEF RegistersInv
<1>. QED  BY <1>1, <1>2, <1>3 DEF Tables!DevicesNext

-----------------------------------------------------------------------------
(* Peers: an entry has the networks that were last said *)

PeersInv ==
  /\ IsList(peers) /\ OnePerAddress(peers)
  /\ \A row \in Rows(peers) :
       /\ row.address \in DOMAIN meant
       /\ meant[row.address] = IF row.valid THEN row.networks ELSE {}
  /\ \A address \in DOMAIN meant : \E row \in Rows(peers) : row.address = address

LEMMA PeersStep ==
  ASSUME PeersInv, Tables!PeersNext
  PROVE  PeersInv'
<1>1. ASSUME NEW address, NEW mask, NEW valid \in BOOLEAN, Tables!UpdateEntry(address, mask, valid)
      PROVE  PeersInv'
  <2>. DEFINE entry == [address |-> address, networks |-> mask, valid |-> valid]
  <2>1. peers' = Tables!Place(peers, entry)
    BY <1>1 DEF Tables!UpdateEntry
  <2>2. /\ IsList(peers') /\ OnePerAddress(peers')
        /\ Rows(peers') = {row \in Rows(peers) : row.address # address} \cup {entry}
    BY <2>1, Placed DEF PeersInv
  <2>3. /\ DOMAIN meant' = DOMAIN meant \cup {address}
        /\ meant'[address] = IF valid THEN mask ELSE {}
        /\ \A a \in DOMAIN meant : a # address => meant'[a] = meant[a]
    BY <1>1 DEF Tables!UpdateEntry
  <2>4. entry.address = address /\ meant'[address] = IF entry.valid THEN entry.networks ELSE {}
    BY <2>3
  <2>. HIDE DEF entry
  <2>. QED  BY <2>2, <2>3, <2>4 DEF PeersInv
<1>2. ASSUME NEW address, Tables!RemoveEntry(address) PROVE PeersInv'
  <2>1. peers' = Tables!Without(peers, address)
    BY <1>2 DEF Tables!RemoveEntry
  <2>2. /\ IsList(peers') /\ OnePerAddress(peers')
        /\ Rows(peers') = {row \in Rows(peers) : row.address # address}
    BY <2>1, Dropped DEF PeersInv
  <2>3. DOMAIN meant' = DOMAIN meant \ {address} /\ \A a \in DOMAIN meant' : meant'[a] = meant[a]
    BY <1>2 DEF Tables!RemoveEntry, Tables!Restrict
  <2>. QED  BY <2>2, <2>3 DEF PeersInv
<1>3. CASE Tables!Clear
  BY <1>3, ShortLists DEF Tables!Clear, PeersInv, Rows, OnePerAddress
<1>. QED  BY <1>1, <1>2, <1>3 DEF Tables!PeersNext

-----------------------------------------------------------------------------
(* Subscribers to objects: an entry has what is left of its lifetime *)

\* When the last subscription of a subscriber ends, told from what is left of it.
EndsAt(row) ==
  IF row.lifetime = 0 THEN ends[Tables!KeyOf(row)] = MaxSeconds + 1
  ELSE \/ row.time_remaining > 0 /\ ends[Tables!KeyOf(row)] = told + row.time_remaining
       \/ row.time_remaining = 0 /\ ends[Tables!KeyOf(row)] <= told

SubscribersInv ==
  /\ IsList(subscribed) /\ OnePerKey(subscribed)
  /\ \A row \in Rows(subscribed) :
       /\ row = [subscriber |-> row.subscriber, object |-> row.object,
                 lifetime |-> row.lifetime, time_remaining |-> row.time_remaining]
       /\ row.lifetime \in Nat /\ row.time_remaining \in Nat
       /\ Tables!KeyOf(row) \in DOMAIN ends /\ EndsAt(row)
  /\ told \in Nat /\ told <= MaxSeconds
  /\ \A key \in DOMAIN ends :
       /\ key = <<key[1], key[2]>> /\ ends[key] \in Nat
       /\ told < ends[key] => \E row \in Rows(subscribed) : Tables!KeyOf(row) = key

\* What is left when the subscription of a subscriber to an object is dropped.
LEMMA OthersLeft ==
  ASSUME SubscribersInv, NEW key
  PROVE  LET left == Tables!AllBut(key) IN
         /\ IsList(left) /\ OnePerKey(left)
         /\ Rows(left) = {row \in Rows(subscribed) : Tables!KeyOf(row) # key}
<1>. DEFINE others == {i \in DOMAIN subscribed : Tables!KeyOf(subscribed[i]) # key}
<1>1. /\ IsList(Tables!Kept(subscribed, others)) /\ OnePerKey(Tables!Kept(subscribed, others))
      /\ Rows(Tables!Kept(subscribed, others)) = {subscribed[i] : i \in others}
  BY KeptRows DEF SubscribersInv
<1>2. {subscribed[i] : i \in others} = {row \in Rows(subscribed) : Tables!KeyOf(row) # key}
  BY DEF Rows
<1>. QED  BY <1>1, <1>2 DEF Tables!AllBut

LEMMA SubscribersStep ==
  ASSUME Tables!TablesAssumption, SubscribersInv, Tables!SubscriptionsNext
  PROVE  SubscribersInv'
<1>1. ASSUME NEW key \in Observers \X Objects, NEW lifetime \in Lifetimes,
             Tables!AddSubscription(key, lifetime)
      PROVE  SubscribersInv'
  <2>. DEFINE left == Tables!AllBut(key)
              entry == [subscriber |-> key[1], object |-> key[2], lifetime |-> lifetime,
                        time_remaining |-> lifetime]
  <2>1. subscribed' = Append(left, entry) /\ told' = told
    BY <1>1 DEF Tables!AddSubscription
  <2>2. /\ IsList(left) /\ OnePerKey(left)
        /\ Rows(left) = {row \in Rows(subscribed) : Tables!KeyOf(row) # key}
    BY OthersLeft
  <2>3. /\ DOMAIN ends' = DOMAIN ends \cup {key}
        /\ ends'[key] = IF lifetime = 0 THEN MaxSeconds + 1 ELSE told + lifetime
        /\ \A k \in DOMAIN ends : k # key => ends'[k] = ends[k]
    BY <1>1 DEF Tables!AddSubscription, Tables!Never
  <2>4. lifetime \in Nat /\ MaxSeconds \in Nat
    BY DEF Tables!TablesAssumption
  <2>5. Tables!KeyOf(entry) = key /\ key = <<key[1], key[2]>>
    BY DEF Tables!KeyOf
  <2>. HIDE DEF left
  <2>6. /\ IsList(subscribed') /\ Rows(subscribed') = Rows(left) \cup {entry}
        /\ DOMAIN subscribed' = 1..(Len(left) + 1) /\ subscribed'[Len(left) + 1] = entry
        /\ \A i \in 1..Len(left) : subscribed'[i] = left[i]
    BY <2>1, <2>2, OneMore
  <2>7. Len(left) \in Nat /\ DOMAIN left = 1..Len(left)
    BY <2>2, ListLength
  <2>8. OnePerKey(subscribed')
    <3>1. \A i \in 1..Len(left) : Tables!KeyOf(left[i]) # key
      BY <2>2, <2>7 DEF Rows
    <3>2. \A i \in DOMAIN subscribed' : i \in 1..Len(left) \/ i = Len(left) + 1
      BY <2>6, <2>7
    <3>. QED  BY <2>2, <2>5, <2>6, <2>7, <3>1, <3>2 DEF OnePerKey
  <2>9. ASSUME NEW row \in Rows(left)
        PROVE  Tables!KeyOf(row) \in DOMAIN ends' /\ EndsAt(row)'
    BY <2>1, <2>2, <2>3 DEF SubscribersInv, EndsAt
  <2>10. Tables!KeyOf(entry) \in DOMAIN ends' /\ EndsAt(entry)'
    BY <2>1, <2>3, <2>4, <2>5 DEF SubscribersInv, EndsAt
  <2>11. ASSUME NEW k \in DOMAIN ends'
         PROVE  /\ k = <<k[1], k[2]>> /\ ends'[k] \in Nat
                /\ told < ends'[k] => \E row \in Rows(subscribed') : Tables!KeyOf(row) = k
    <3>1. CASE k = key
      BY <2>3, <2>4, <2>5, <2>6, <3>1 DEF SubscribersInv
    <3>2. CASE k # key
      BY <2>2, <2>3, <2>6, <3>2 DEF SubscribersInv
    <3>. QED  BY <3>1, <3>2
  <2>12. entry = [subscriber |-> entry.subscriber, object |-> entry.object,
                  lifetime |-> entry.lifetime, time_remaining |-> entry.time_remaining]
         /\ entry.lifetime \in Nat /\ entry.time_remaining \in Nat
    BY <2>4
  <2>. HIDE DEF entry
  <2>. QED  BY <2>1, <2>2, <2>6, <2>8, <2>9, <2>10, <2>11, <2>12 DEF SubscribersInv
<1>2. ASSUME NEW key \in Observers \X Objects, Tables!RemoveSubscription(key)
      PROVE  SubscribersInv'
  <2>1. subscribed' = Tables!AllBut(key) /\ told' = told
    BY <1>2 DEF Tables!RemoveSubscription
  <2>2. /\ IsList(subscribed') /\ OnePerKey(subscribed')
        /\ Rows(subscribed') = {row \in Rows(subscribed) : Tables!KeyOf(row) # key}
    BY <2>1, OthersLeft
  <2>3. DOMAIN ends' = DOMAIN ends \ {key} /\ \A k \in DOMAIN ends' : ends'[k] = ends[k]
    BY <1>2 DEF Tables!RemoveSubscription, Tables!Restrict
  <2>4. \A row \in Rows(subscribed') : Tables!KeyOf(row) \in DOMAIN ends' /\ EndsAt(row)'
    BY <2>1, <2>2, <2>3 DEF SubscribersInv, EndsAt
  <2>. QED  BY <2>1, <2>2, <2>3, <2>4 DEF SubscribersInv
<1>3. ASSUME NEW elapsed \in Elapses, Tables!UpdateTimers(elapsed) PROVE SubscribersInv'
  <2>. DEFINE older(row) == Tables!Older(row, elapsed)
  <2>1. subscribed' = [i \in DOMAIN subscribed |-> older(subscribed[i])]
    BY <1>3 DEF Tables!UpdateTimers
  <2>2. /\ told' = told + elapsed /\ ends' = ends /\ elapsed \in Nat
        /\ told + elapsed <= MaxSeconds /\ MaxSeconds \in Nat
    BY <1>3 DEF Tables!UpdateTimers, Tables!TablesAssumption
  <2>3. Len(subscribed) \in Nat /\ DOMAIN subscribed = 1..Len(subscribed)
    BY ListLength DEF SubscribersInv
  <2>4. ASSUME NEW row \in Rows(subscribed)
        PROVE  /\ older(row) = [subscriber |-> row.subscriber, object |-> row.object,
                                lifetime |-> row.lifetime,
                                time_remaining |-> older(row).time_remaining]
               /\ older(row).time_remaining =
                    IF row.lifetime = 0 THEN row.time_remaining
                    ELSE IF row.time_remaining > elapsed THEN row.time_remaining - elapsed ELSE 0
               /\ row.lifetime \in Nat /\ row.time_remaining \in Nat
    BY <2>2 DEF SubscribersInv, Tables!Older
  <2>. HIDE DEF older
  <2>5. IsList(subscribed') /\ Rows(subscribed') = {older(row) : row \in Rows(subscribed)}
    <3>1. subscribed' \in Seq({subscribed'[i] : i \in DOMAIN subscribed'})
      BY <2>1, <2>3
    <3>. QED  BY <2>1, <3>1 DEF IsList, Rows
  <2>6. \A row \in Rows(subscribed) : Tables!KeyOf(older(row)) = Tables!KeyOf(row)
    BY <2>4 DEF Tables!KeyOf
  <2>7. OnePerKey(subscribed')
    BY <2>1, <2>6 DEF OnePerKey, SubscribersInv, Rows
  <2>8. ASSUME NEW row \in Rows(subscribed)
        PROVE  EndsAt(older(row))'
    <3>1. older(row).lifetime = row.lifetime
      BY <2>4
    <3>. HIDE DEF Rows
    <3>2. EndsAt(row) /\ ends[Tables!KeyOf(row)] \in Nat /\ told \in Nat
      BY DEF SubscribersInv
    <3>. QED  BY <2>2, <2>4, <2>6, <3>1, <3>2 DEF EndsAt
  <2>9. ASSUME NEW key \in DOMAIN ends, told + elapsed < ends[key]
        PROVE  \E row \in Rows(subscribed') : Tables!KeyOf(row) = key
    <3>1. told < ends[key]
      BY <2>2, <2>9 DEF SubscribersInv
    <3>2. PICK row \in Rows(subscribed) : Tables!KeyOf(row) = key
      BY <3>1 DEF SubscribersInv
    <3>. QED  BY <2>5, <2>6, <3>2
  <2>10. ASSUME NEW row \in Rows(subscribed)
         PROVE  /\ older(row) = [subscriber |-> older(row).subscriber, object |-> older(row).object,
                                 lifetime |-> older(row).lifetime,
                                 time_remaining |-> older(row).time_remaining]
                /\ older(row).lifetime \in Nat /\ older(row).time_remaining \in Nat
                /\ Tables!KeyOf(older(row)) \in DOMAIN ends
    <3>1. /\ older(row).subscriber = row.subscriber /\ older(row).object = row.object
          /\ older(row).lifetime = row.lifetime
      BY <2>4
    <3>2. older(row).time_remaining \in Nat
      BY <2>2, <2>4
    <3>. QED  BY <2>4, <2>6, <3>1, <3>2 DEF SubscribersInv
  <2>11. told' \in Nat /\ told' <= MaxSeconds
    BY <2>2 DEF SubscribersInv
  <2>. QED  BY <2>2, <2>5, <2>7, <2>8, <2>9, <2>10, <2>11 DEF SubscribersInv
<1>4. CASE Tables!CleanupExpired
  <2>. DEFINE lasting == {i \in DOMAIN subscribed : ~Tables!IsExpired(subscribed[i])}
  <2>1. subscribed' = Tables!Kept(subscribed, lasting) /\ told' = told /\ ends' = ends
    BY <1>4 DEF Tables!CleanupExpired
  <2>2. /\ IsList(subscribed') /\ OnePerKey(subscribed')
        /\ Rows(subscribed') = {subscribed[i] : i \in lasting}
    BY <2>1, KeptRows DEF SubscribersInv
  <2>3. Rows(subscribed') = {row \in Rows(subscribed) : ~Tables!IsExpired(row)}
    BY <2>2 DEF Rows
  <2>4. ASSUME NEW row \in Rows(subscribed), told < ends[Tables!KeyOf(row)]
        PROVE  row \in Rows(subscribed')
    BY <2>3, <2>4 DEF SubscribersInv, EndsAt, Tables!IsExpired
  <2>5. \A row \in Rows(subscribed') : EndsAt(row)'
    BY <2>1, <2>3 DEF SubscribersInv, EndsAt
  <2>. QED  BY <2>1, <2>2, <2>3, <2>4, <2>5 DEF SubscribersInv
<1>. QED  BY <1>1, <1>2, <1>3, <1>4 DEF Tables!SubscriptionsNext

-----------------------------------------------------------------------------
(* Who is sent what *)

TablesInv == RegistersInv /\ PeersInv /\ SubscribersInv

\* The addresses of the table's devices, or of its peers for a network, each once.
LEMMA DevicesListed ==
  ASSUME RegistersInv
  PROVE  Tables!ListsOnce(Tables!ActiveDevices, Tables!Range(Tables!ActiveDevices))
<1>1. Tables!ListsOnce(Tables!ActiveDevices, {entries[i].address : i \in DOMAIN entries})
  BY AddressColumn DEF RegistersInv, Tables!ActiveDevices
<1>2. {entries[i].address : i \in DOMAIN entries} = Tables!Range(Tables!ActiveDevices)
  BY DEF Tables!ActiveDevices, Tables!Range
<1>. QED  BY <1>1, <1>2

LEMMA PeersListed ==
  ASSUME PeersInv, NEW network
  PROVE  Tables!ListsOnce(Tables!BroadcastAddresses(network),
                          {a \in DOMAIN meant : network \in meant[a]})
<1>. DEFINE places == {i \in DOMAIN peers : peers[i].valid /\ network \in peers[i].networks}
            taking == Tables!Kept(peers, places)
            column == [i \in DOMAIN taking |-> taking[i].address]
<1>1. IsList(taking) /\ OnePerAddress(taking) /\ Rows(taking) = {peers[i] : i \in places}
  BY KeptRows DEF PeersInv
<1>2. Tables!BroadcastAddresses(network) = column
  BY DEF Tables!BroadcastAddresses
<1>3. Rows(taking) = {row \in Rows(peers) : row.valid /\ network \in row.networks}
  BY <1>1 DEF Rows
<1>. HIDE DEF taking
<1>. DEFINE listed == {taking[i].address : i \in DOMAIN taking}
<1>4. Tables!ListsOnce(column, listed)
  BY <1>1, AddressColumn
<1>5. listed = {row.address : row \in Rows(taking)}
  BY DEF Rows
<1>. HIDE DEF listed
<1>6. ASSUME NEW address \in DOMAIN meant, network \in meant[address]
      PROVE  \E row \in Rows(taking) : row.address = address
  <2>1. PICK row \in Rows(peers) : row.address = address
    BY DEF PeersInv
  <2>2. row.valid /\ network \in row.networks
    BY <1>6, <2>1 DEF PeersInv
  <2>. QED  BY <1>3, <2>1, <2>2
<1>7. ASSUME NEW row \in Rows(taking)
      PROVE  row.address \in DOMAIN meant /\ network \in meant[row.address]
  BY <1>3 DEF PeersInv
<1>8. listed = {a \in DOMAIN meant : network \in meant[a]}
  BY <1>5, <1>6, <1>7
<1>. QED  BY <1>2, <1>4, <1>8

\* Those told of an object, each once.
LEMMA SubscribersListed ==
  ASSUME Tables!TablesAssumption, SubscribersInv, NEW object
  PROVE  LET listed == Tables!SubscriptionsFor(object)
         IN  Tables!ListsOnce([i \in DOMAIN listed |-> Tables!KeyOf(listed[i])],
                              {key \in DOMAIN ends : key[2] = object /\ told < ends[key]})
<1>. DEFINE places == {i \in DOMAIN subscribed :
                         subscribed[i].object = object /\ ~Tables!IsExpired(subscribed[i])}
            listed == Tables!Kept(subscribed, places)
            column == [i \in DOMAIN listed |-> Tables!KeyOf(listed[i])]
<1>1. IsList(listed) /\ OnePerKey(listed) /\ Rows(listed) = {subscribed[i] : i \in places}
  BY KeptRows DEF SubscribersInv
<1>2. Tables!SubscriptionsFor(object) = listed
  BY DEF Tables!SubscriptionsFor
<1>3. Rows(listed) = {row \in Rows(subscribed) : row.object = object /\ ~Tables!IsExpired(row)}
  BY <1>1 DEF Rows
<1>. HIDE DEF listed
<1>. DEFINE keys == {Tables!KeyOf(listed[i]) : i \in DOMAIN listed}
<1>4. Tables!ListsOnce(column, keys)
  BY <1>1, KeyColumn
<1>5. keys = {Tables!KeyOf(row) : row \in Rows(listed)}
  BY DEF Rows
<1>. HIDE DEF keys
<1>6. ASSUME NEW row \in Rows(subscribed)
      PROVE  ~Tables!IsExpired(row) <=> told < ends[Tables!KeyOf(row)]
  <2>1. /\ EndsAt(row) /\ row.lifetime \in Nat /\ row.time_remaining \in Nat
        /\ told \in Nat /\ told <= MaxSeconds /\ MaxSeconds \in Nat
        /\ ends[Tables!KeyOf(row)] \in Nat
    BY DEF SubscribersInv, Tables!TablesAssumption
  <2>. QED  BY <2>1 DEF EndsAt, Tables!IsExpired
<1>7. ASSUME NEW key \in DOMAIN ends, key[2] = object, told < ends[key]
      PROVE  \E row \in Rows(listed) : Tables!KeyOf(row) = key
  <2>1. PICK row \in Rows(subscribed) : Tables!KeyOf(row) = key
    BY <1>7 DEF SubscribersInv
  <2>2. row.object = object
    BY <1>7, <2>1 DEF Tables!KeyOf
  <2>. QED  BY <1>3, <1>6, <1>7, <2>1, <2>2
<1>8. ASSUME NEW row \in Rows(listed)
      PROVE  LET key == Tables!KeyOf(row) IN
             key \in DOMAIN ends /\ key[2] = object /\ told < ends[key]
  <2>1. row \in Rows(subscribed) /\ row.object = object /\ ~Tables!IsExpired(row)
    BY <1>3
  <2>. QED  BY <1>6, <2>1 DEF SubscribersInv, Tables!KeyOf
<1>9. keys = {key \in DOMAIN ends : key[2] = object /\ told < ends[key]}
  BY <1>5, <1>7, <1>8
<1>. QED  BY <1>2, <1>4, <1>9

\* Whatever the owner of the tables does and in whatever pieces it tells the time: a foreign
\* device is sent broadcasts for as long as it registered, a peer those of the networks it was
\* last said to take, a subscriber is told of an object until its last subscription to it ends;
\* each once, and nobody else.
THEOREM ServedForTheirTime ==
  ASSUME Tables!TablesAssumption
  PROVE  Tables!Spec => []Tables!RegisteredForItsTime
<1>1. Tables!Init => TablesInv
  BY ShortLists DEF Tables!Init, Tables!TablesAssumption, TablesInv, RegistersInv, PeersInv,
     SubscribersInv, Rows, OnePerAddress, OnePerKey
<1>2. TablesInv /\ [Tables!Next]_Tables!tables => TablesInv'
  <2>. SUFFICES ASSUME TablesInv, [Tables!Next]_Tables!tables
                PROVE  TablesInv'
    OBVIOUS
  <2>1. ASSUME UNCHANGED <<entries, seconds, until>> PROVE RegistersInv'
    BY <2>1 DEF TablesInv, RegistersInv, Rows, OnePerAddress
  <2>2. ASSUME UNCHANGED <<peers, meant>> PROVE PeersInv'
    BY <2>2 DEF TablesInv, PeersInv, Rows, OnePerAddress
  <2>3. ASSUME UNCHANGED <<subscribed, told, ends>> PROVE SubscribersInv'
    BY <2>3 DEF TablesInv, SubscribersInv, Rows, OnePerKey, EndsAt
  <2>4. CASE Tables!DevicesNext /\ UNCHANGED <<Tables!distribution, Tables!managed>>
    BY <2>2, <2>3, <2>4, RegistersStep DEF TablesInv, Tables!distribution, Tables!managed
  <2>5. CASE Tables!PeersNext /\ UNCHANGED <<Tables!registrations, Tables!managed>>
    BY <2>1, <2>3, <2>5, PeersStep DEF TablesInv, Tables!registrations, Tables!managed
  <2>6. CASE Tables!SubscriptionsNext /\ UNCHANGED <<Tables!registrations, Tables!distribution>>
    BY <2>1, <2>2, <2>6, SubscribersStep
       DEF TablesInv, Tables!registrations, Tables!distribution
  <2>7. CASE UNCHANGED Tables!tables
    BY <2>1, <2>2, <2>3, <2>7
       DEF TablesInv, Tables!tables, Tables!registrations, Tables!distribution, Tables!managed
  <2>. QED  BY <2>4, <2>5, <2>6, <2>7 DEF Tables!Next
<1>3. TablesInv => Tables!RegisteredForItsTime
  <2>. SUFFICES ASSUME TablesInv
                PROVE  Tables!RegisteredForItsTime
    OBVIOUS
  <2>1. ASSUME NEW address \in DOMAIN until, seconds < until[address]
        PROVE  Tables!HasEntry(entries, address)
    BY <2>1 DEF TablesInv, RegistersInv, Rows, Tables!HasEntry, Tables!Of
  <2>2. ASSUME NEW i \in DOMAIN entries, entries[i].ttl > 0
        PROVE  seconds < until[entries[i].address]
    <3>1. entries[i] \in Rows(entries)
      BY DEF Rows
    <3>. QED  BY <2>2, <3>1 DEF TablesInv, RegistersInv
  <2>. QED  BY <2>1, <2>2, DevicesListed, PeersListed, SubscribersListed
            DEF TablesInv, Tables!RegisteredForItsTime
<1>. QED  BY <1>1, <1>2, <1>3, PTL DEF Tables!Spec

-----------------------------------------------------------------------------
(* The file the client keeps devices in *)

CONSTANT Caches
VARIABLES file, saved, whole, loaded

Cache == INSTANCE AddressFile

\* What is saved are lists of devices, and None is no number and no segmentation.
CachesFit ==
  /\ Cache!CachesAssumption /\ \A listed \in Caches : IsList(listed)
  /\ None \notin Nat /\ None \notin Cache!Segmentations

\* Of the first places of a list, all are retained where they were.
LEMMA RetainedFirst ==
  ASSUME NEW q, IsList(q), NEW m \in 0..Len(q)
  PROVE  Retained(q, 1..m) = [n \in 1..m |-> q[n]]
<1>1. Len(q) \in Nat /\ DOMAIN q = 1..Len(q)
  BY ListLength
<1>2. Cardinality(1..m) = m
  BY <1>1, FS_Interval
<1>3. \A i \in 1..m : Cardinality({j \in 1..m : j < i}) = i - 1
  <2>. SUFFICES ASSUME NEW i \in 1..m
                PROVE  Cardinality({j \in 1..m : j < i}) = i - 1
    OBVIOUS
  <2>1. {j \in 1..m : j < i} = 1..(i - 1)
    BY <1>1
  <2>2. Cardinality(1..(i - 1)) = i - 1
    BY <1>1, FS_Interval
  <2>. QED  BY <2>1, <2>2
<1>. DEFINE place(n) == CHOOSE i \in 1..m : Cardinality({j \in 1..m : j < i}) = n - 1
<1>4. \A n \in 1..m : place(n) = n
  <2>. SUFFICES ASSUME NEW n \in 1..m
                PROVE  place(n) = n
    OBVIOUS
  <2>1. \A i \in 1..m : Cardinality({j \in 1..m : j < i}) = n - 1 <=> i = n
    BY <1>1, <1>3
  <2>. QED  BY <2>1
<1>5. Retained(q, 1..m) = [n \in 1..m |-> q[place(n)]]
  BY <1>2 DEF Retained
<1>. HIDE DEF place
<1>. QED  BY <1>4, <1>5

\* A line that was written whole is read as the device it was written for.
LEMMA ReadBack ==
  ASSUME None \notin Nat, None \notin Cache!Segmentations, NEW device, Cache!IsDevice(device)
  PROVE  /\ Cache!Readable(Cache!FormatLine(device))
         /\ Cache!ParseLine(Cache!FormatLine(device)) = device
<1>. DEFINE line == Cache!FormatLine(device)
<1>0. /\ device = [device_id |-> device.device_id, address |-> device.address,
                  route |-> device.route, max_apdu |-> device.max_apdu,
                  segmentation |-> device.segmentation]
      /\ device.route # None =>
           device.route = [network |-> device.route.network, mac |-> device.route.mac]
  BY DEF Cache!IsDevice
<1>1. /\ Len(line) = 6 /\ line[1] = device.device_id /\ line[2] = device.address
      /\ line[3] = IF device.route = None THEN 0 ELSE device.route.network
      /\ line[4] = IF device.route = None THEN <<>> ELSE device.route.mac
      /\ line[5] = device.max_apdu /\ line[6] = device.segmentation
  BY DEF Cache!FormatLine
<1>. HIDE DEF line
<1>2. Cache!Readable(line)
  BY <1>1 DEF Cache!Readable, Cache!IsDevice
<1>3. Cache!SegmentationOf(line) = device.segmentation
  BY <1>1 DEF Cache!SegmentationOf, Cache!Field, Cache!IsDevice
<1>4. Cache!ParseLine(line) = device
  <2>1. CASE device.route = None
    BY <1>0, <1>1, <1>3, <2>1 DEF Cache!ParseLine
  <2>2. CASE device.route # None
    <3>1. line[3] # 0 /\ line[4] # None
      BY <1>1, <2>2 DEF Cache!IsDevice
    <3>. QED  BY <1>0, <1>1, <1>3, <2>2, <3>1 DEF Cache!ParseLine
  <2>. QED  BY <2>1, <2>2
<1>. QED  BY <1>2, <1>4 DEF line

\* Of a line that was cut, if it can be read at all, what is read claims no more.
Less(read, device) ==
  /\ read.max_apdu <= device.max_apdu
  /\ read.segmentation \in {device.segmentation, "none"}
  /\ \A key \in {"device_id", "address", "route"} : read[key] = device[key]

LEMMA CutsClaimLess ==
  ASSUME None \notin Nat, None \notin Cache!Segmentations, NEW device, Cache!IsDevice(device),
         NEW part \in Cache!CutLines(Cache!FormatLine(device)), Cache!Readable(part)
  PROVE  Less(Cache!ParseLine(part), device)
<1>. DEFINE line == Cache!FormatLine(device)
            S == {line[i] : i \in 1..6}
<1>1. /\ line \in Seq(S) /\ Len(line) = 6
      /\ line[1] = device.device_id /\ line[2] = device.address
      /\ line[3] = IF device.route = None THEN 0 ELSE device.route.network
      /\ line[4] = IF device.route = None THEN <<>> ELSE device.route.mac
      /\ line[5] = device.max_apdu /\ line[6] = device.segmentation
  BY DEF Cache!FormatLine
<1>. HIDE DEF line
<1>2. Len(part) >= 5
  BY DEF Cache!Readable
<1>3. /\ \A i \in 1..4 : part[i] = line[i]
      /\ part[5] = line[5] \/ \E tens \in {10, 100, 1000, 10000, 100000, 1000000} : part[5] = line[5] \div tens
      /\ Cache!Field(part, 6) \in {line[6], None}
  <2>1. ASSUME NEW n \in 0..6, part = SubSeq(line, 1, n)
        PROVE  <1>3
    <3>1. Len(part) = n /\ \A i \in 1..n : part[i] = line[i]
      BY <1>1, <2>1
    <3>. QED  BY <1>2, <3>1 DEF Cache!Field
  <2>2. ASSUME NEW n \in 1..6, NEW torn \in Cache!Torn(line[n], n),
               part = Append(SubSeq(line, 1, n - 1), torn)
        PROVE  <1>3
    <3>1. /\ SubSeq(line, 1, n - 1) \in Seq(S) /\ Len(SubSeq(line, 1, n - 1)) = n - 1
          /\ \A i \in 1..(n - 1) : SubSeq(line, 1, n - 1)[i] = line[i]
      BY <1>1
    <3>. DEFINE before == SubSeq(line, 1, n - 1)
    <3>2. Len(part) = n /\ part[n] = torn /\ \A i \in 1..(n - 1) : part[i] = line[i]
      <4>1. IsList(before)
        BY <3>1, MembersAreLists
      <4>. HIDE DEF before
      <4>2. /\ IsList(part) /\ DOMAIN part = 1..n /\ part[n] = torn
            /\ \A i \in 1..(n - 1) : part[i] = before[i]
        BY <2>2, <3>1, <4>1, OneMore DEF before
      <4>. QED  BY <3>1, <4>2, ListLength DEF before
    <3>3. n = 5 \/ n = 6
      BY <1>2, <3>2
    <3>4. CASE n = 5
      BY <2>2, <3>2, <3>4 DEF Cache!Torn, Cache!IsNumber, Cache!Field
    <3>5. CASE n = 6
      BY <2>2, <3>2, <3>5 DEF Cache!Torn, Cache!IsNumber, Cache!Field
    <3>. QED  BY <3>3, <3>4, <3>5
  <2>. QED  BY <1>1, <2>1, <2>2 DEF Cache!CutLines, line
<1>4. device.max_apdu \in Nat /\ part[5] <= device.max_apdu
  <2>1. \A x \in Nat : /\ x \div 10 <= x /\ x \div 100 <= x /\ x \div 1000 <= x
                        /\ x \div 10000 <= x /\ x \div 100000 <= x /\ x \div 1000000 <= x
    OBVIOUS
  <2>2. device.max_apdu \in Nat /\ line[5] = device.max_apdu
    BY <1>1 DEF Cache!IsDevice
  <2>. QED  BY <1>3, <2>1, <2>2
<1>5. Cache!SegmentationOf(part) \in {device.segmentation, "none"}
  BY <1>1, <1>3 DEF Cache!SegmentationOf, Cache!Field
<1>6. (IF part[3] = 0 \/ part[4] = None THEN None ELSE [network |-> part[3], mac |-> part[4]])
        = device.route
  <2>1. CASE device.route = None
    BY <1>1, <1>3, <2>1
  <2>2. CASE device.route # None
    <3>1. /\ device.route.network # 0 /\ device.route.mac # None
          /\ device.route = [network |-> device.route.network, mac |-> device.route.mac]
      BY <2>2 DEF Cache!IsDevice
    <3>. QED  BY <1>1, <1>3, <2>2, <3>1
  <2>. QED  BY <2>1, <2>2
<1>. QED  BY <1>1, <1>3, <1>4, <1>5, <1>6 DEF Less, Cache!ParseLine

\* A file that was written whole has a line to a device; one that was not ends somewhere, in
\* a part of a line.
FileInv ==
  /\ IsList(saved) /\ IsList(file) /\ Len(file) <= Len(saved)
  /\ \A i \in DOMAIN saved : Cache!IsDevice(saved[i])
  /\ whole \in BOOLEAN /\ whole => file = Cache!Lines(saved)
  /\ \A i \in DOMAIN file :
       \/ file[i] = Cache!FormatLine(saved[i])
       \/ i = Len(file) /\ file[i] \in Cache!CutLines(Cache!FormatLine(saved[i]))
  /\ Cache!NeverClaimsMore

LEMMA LinesAreList ==
  ASSUME NEW q, IsList(q)
  PROVE  /\ IsList(Cache!Lines(q)) /\ Len(Cache!Lines(q)) = Len(q)
         /\ DOMAIN Cache!Lines(q) = 1..Len(q)
         /\ \A i \in 1..Len(q) : Cache!Lines(q)[i] = Cache!FormatLine(q[i])
<1>. DEFINE lines == Cache!Lines(q)
<1>1. Len(q) \in Nat /\ DOMAIN q = 1..Len(q)
  BY ListLength
<1>2. DOMAIN lines = 1..Len(q) /\ \A i \in 1..Len(q) : lines[i] = Cache!FormatLine(q[i])
  BY <1>1 DEF Cache!Lines
<1>3. lines = [i \in 1..Len(q) |-> lines[i]]
  BY <1>1 DEF Cache!Lines
<1>. HIDE DEF lines
<1>4. lines \in Seq({lines[i] : i \in DOMAIN lines})
  BY <1>1, <1>2, <1>3
<1>5. Len(lines) = Len(q)
  BY <1>1, <1>2, <1>4
<1>. QED  BY <1>2, <1>4, <1>5 DEF IsList, lines

\* What is read is as many of the devices as there are lines that can be read, in their order.
LEMMA LoadStep ==
  ASSUME CachesFit, FileInv, Cache!Load
  PROVE  FileInv'
<1>. DEFINE places == {i \in DOMAIN file : Cache!Readable(file[i])}
            readable == Cache!Kept(file, places)
<1>1. UNCHANGED <<file, saved, whole>> /\ loaded' = [i \in DOMAIN readable |-> Cache!ParseLine(readable[i])]
  BY DEF Cache!Load
<1>2. /\ Len(file) \in Nat /\ DOMAIN file = 1..Len(file)
      /\ Len(saved) \in Nat /\ DOMAIN saved = 1..Len(saved) /\ Len(file) <= Len(saved)
  BY ListLength DEF FileInv
<1>3. /\ \A i \in DOMAIN file : file[i] = Cache!FormatLine(saved[i]) =>
                                  i \in places /\ Cache!ParseLine(file[i]) = saved[i]
      /\ \A i \in places : \/ Cache!ParseLine(file[i]) = saved[i]
                            \/ Less(Cache!ParseLine(file[i]), saved[i])
  <2>. SUFFICES ASSUME NEW i \in DOMAIN file
                PROVE  /\ file[i] = Cache!FormatLine(saved[i]) =>
                             i \in places /\ Cache!ParseLine(file[i]) = saved[i]
                       /\ i \in places => \/ Cache!ParseLine(file[i]) = saved[i]
                                          \/ Less(Cache!ParseLine(file[i]), saved[i])
    OBVIOUS
  <2>1. i \in DOMAIN saved /\ Cache!IsDevice(saved[i])
    BY <1>2 DEF FileInv
  <2>2. file[i] = Cache!FormatLine(saved[i]) =>
          Cache!Readable(file[i]) /\ Cache!ParseLine(file[i]) = saved[i]
    BY <2>1, ReadBack DEF CachesFit
  <2>3. file[i] \in Cache!CutLines(Cache!FormatLine(saved[i])) /\ Cache!Readable(file[i]) =>
          Less(Cache!ParseLine(file[i]), saved[i])
    BY <2>1, CutsClaimLess DEF CachesFit
  <2>. QED  BY <2>2, <2>3 DEF FileInv
<1>4. PICK m \in 0..Len(file) : places = 1..m /\ (whole => m = Len(file))
  <2>. DEFINE n == Len(file)
  <2>1. \A i \in 1..n : i # n => i \in places
    BY <1>2, <1>3 DEF FileInv
  <2>2. places \subseteq 1..n /\ n \in Nat
    BY <1>2
  <2>3. whole /\ n # 0 => n \in places
    <3>. SUFFICES ASSUME whole, n # 0
                  PROVE  n \in places
      OBVIOUS
    <3>1. file = Cache!Lines(saved) /\ n \in DOMAIN file /\ n \in 1..Len(saved)
      BY <1>2, <2>2 DEF FileInv
    <3>2. file[n] = Cache!FormatLine(saved[n])
      BY <3>1, LinesAreList DEF FileInv
    <3>. QED  BY <1>3, <3>1, <3>2
  <2>. HIDE DEF places, n
  <2>4. CASE n \in places \/ n = 0
    <3>1. \A i \in 1..n : i \in places
      BY <2>1, <2>2, <2>4
    <3>2. places = 1..n
      BY <2>2, <3>1
    <3>3. n \in 0..n
      BY <2>2
    <3>. QED  BY <3>2, <3>3 DEF n
  <2>5. CASE n \notin places /\ n # 0
    <3>1. 1..(n - 1) \subseteq 1..n /\ n - 1 \in 0..n /\ n \notin 1..(n - 1)
          /\ \A i \in 1..n : i # n => i \in 1..(n - 1)
      BY <2>2, <2>5
    <3>2. places \subseteq 1..(n - 1)
      BY <2>2, <2>5, <3>1
    <3>3. 1..(n - 1) \subseteq places
      BY <2>1, <3>1
    <3>. QED  BY <2>3, <2>5, <3>1, <3>2, <3>3 DEF n
  <2>. QED  BY <2>4, <2>5
<1>5. readable = [n \in 1..m |-> file[n]]
  <2>1. Cache!Kept(file, 1..m) = Retained(file, 1..m)
    BY DEF Cache!Kept, Cache!Cardinality, Cardinality, Retained
  <2>. QED  BY <1>4, <2>1, RetainedFirst DEF FileInv
<1>6. loaded' = [i \in 1..m |-> Cache!ParseLine(file[i])]
  BY <1>1, <1>5
<1>. HIDE DEF readable
<1>7. \A i \in 1..m : \/ loaded'[i] = saved[i]
                      \/ Less(loaded'[i], saved[i])
  BY <1>2, <1>3, <1>4, <1>6
<1>8. whole => loaded' = saved
  <2>. SUFFICES ASSUME whole
                PROVE  loaded' = saved
    OBVIOUS
  <2>1. file = Cache!Lines(saved) /\ m = Len(saved)
    BY <1>4, LinesAreList DEF FileInv
  <2>2. \A i \in 1..m : loaded'[i] = saved[i]
    BY <1>2, <1>3, <1>6, <2>1, LinesAreList DEF FileInv
  <2>3. saved = [i \in 1..m |-> saved[i]]
    BY <1>2, <2>1 DEF FileInv, IsList
  <2>. QED  BY <1>6, <2>2, <2>3
<1>9. \A i \in 1..m : Less(loaded'[i], saved[i])
  <2>. SUFFICES ASSUME NEW i \in 1..m, loaded'[i] = saved[i]
                PROVE  Less(loaded'[i], saved[i])
    BY <1>7
  <2>1. Cache!IsDevice(saved[i])
    BY <1>2 DEF FileInv
  <2>. QED  BY <2>1 DEF Less, Cache!IsDevice
<1>10. Cache!NeverClaimsMore'
  BY <1>1, <1>6, <1>8, <1>9 DEF Cache!NeverClaimsMore, Less
<1>. QED  BY <1>1, <1>10 DEF FileInv

LEMMA SaveStep ==
  ASSUME CachesFit, NEW listed \in Caches, Cache!Save(listed) \/ Cache!SaveIsCut(listed)
  PROVE  FileInv'
<1>1. saved' = listed /\ loaded' = None
  BY DEF Cache!Save, Cache!SaveIsCut
<1>2. IsList(listed) /\ \A i \in DOMAIN listed : Cache!IsDevice(listed[i])
  BY DEF CachesFit, Cache!CachesAssumption
<1>3. Len(listed) \in Nat /\ DOMAIN listed = 1..Len(listed)
  BY <1>2, ListLength
<1>4. CASE Cache!Save(listed)
  <2>1. file' = Cache!Lines(listed) /\ whole' = TRUE
    BY <1>4 DEF Cache!Save
  <2>. QED  BY <1>1, <1>2, <1>3, <2>1, LinesAreList DEF FileInv, Cache!NeverClaimsMore
<1>5. CASE Cache!SaveIsCut(listed)
  <2>1. PICK n \in 1..Len(listed) : \E part \in Cache!CutLines(Cache!FormatLine(listed[n])) :
          file' = Append(SubSeq(Cache!Lines(listed), 1, n - 1), part)
    BY <1>5 DEF Cache!SaveIsCut
  <2>2. PICK part \in Cache!CutLines(Cache!FormatLine(listed[n])) :
          file' = Append(SubSeq(Cache!Lines(listed), 1, n - 1), part)
    BY <2>1
  <2>. DEFINE lines == Cache!Lines(listed)
              before == SubSeq(lines, 1, n - 1)
  <2>3. /\ lines \in Seq(Rows(lines)) /\ Len(lines) = Len(listed)
        /\ \A i \in 1..Len(listed) : lines[i] = Cache!FormatLine(listed[i])
    BY <1>2, LinesAreList DEF IsList, Rows
  <2>. HIDE DEF lines
  <2>4. /\ before \in Seq(Rows(lines)) /\ Len(before) = n - 1
        /\ \A i \in 1..(n - 1) : before[i] = lines[i]
    BY <1>3, <2>3
  <2>. HIDE DEF before
  <2>5. IsList(before)
    BY <2>4, MembersAreLists
  <2>6. /\ IsList(file') /\ DOMAIN file' = 1..n /\ file'[n] = part
        /\ \A i \in 1..(n - 1) : file'[i] = before[i]
    BY <1>3, <2>2, <2>4, <2>5, OneMore DEF before, lines
  <2>7. Len(file') = n
    BY <1>3, <2>6, ListLength
  <2>8. \A i \in 1..n : i = n \/ i \in 1..(n - 1)
    BY <1>3
  <2>9. whole' = FALSE
    BY <1>5 DEF Cache!SaveIsCut
  <2>10. \A i \in DOMAIN file' : \/ file'[i] = Cache!FormatLine(listed[i])
                                 \/ i = Len(file') /\ file'[i] \in Cache!CutLines(Cache!FormatLine(listed[i]))
    BY <1>3, <2>3, <2>4, <2>6, <2>7, <2>8
  <2>. QED  BY <1>1, <1>2, <1>3, <2>6, <2>7, <2>9, <2>10 DEF FileInv, Cache!NeverClaimsMore
<1>. QED  BY <1>4, <1>5

\* Whatever is saved, wherever a crash cuts it off, and however often it is loaded: a client
\* learns from its file no device that it had not found, none elsewhere, and none with more
\* than it has; and everything, if nothing happened to the file.
THEOREM CacheClaimsNoMore ==
  ASSUME CachesFit
  PROVE  Cache!Spec => []Cache!NeverClaimsMore
<1>1. Cache!Init => FileInv
  BY ShortLists DEF Cache!Init, FileInv, Cache!NeverClaimsMore, Cache!Lines
<1>2. FileInv /\ [Cache!Next]_Cache!vars => FileInv'
  <2>. SUFFICES ASSUME FileInv, [Cache!Next]_Cache!vars
                PROVE  FileInv'
    OBVIOUS
  <2>1. CASE Cache!Load
    BY <2>1, LoadStep
  <2>2. CASE UNCHANGED Cache!vars
    BY <2>2 DEF Cache!vars, FileInv, Cache!NeverClaimsMore
  <2>. QED  BY <2>1, <2>2, SaveStep DEF Cache!Next
<1>3. FileInv => Cache!NeverClaimsMore
  BY DEF FileInv
<1>. QED  BY <1>1, <1>2, <1>3, PTL DEF Cache!Spec

-----------------------------------------------------------------------------
(* The tables of a host that sends requests itself *)

CONSTANTS MaxTransactions, MaxQueue, Supported, Services, MaxRequests
VARIABLES next_invoke, active_ids, transactions, queue, handlers, returned, made

Host == INSTANCE ApplicationLayer WITH requests <- made, reply <- returned

InvokeIds == 0..(Ids - 1)

\* The IDs behind one, up to where the next is looked for; and those passed over from there on
\* until one is found.
Behind(x, n) == {y \in InvokeIds : IF x < n THEN x < y /\ y < n ELSE x < y \/ y < n}
PassedOver(n, x) == {y \in InvokeIds : IF n <= x THEN n <= y /\ y < x ELSE n <= y \/ y < x}

LEMMA WrapsOnce ==
  ASSUME Ids \in Nat \ {0}, NEW a \in 0..(2 * Ids - 1)
  PROVE  a % Ids = IF a < Ids THEN a ELSE a - Ids
<1>1. CASE a < Ids
  <2>1. \A m, k \in Nat : m > k => k % m = k
    OBVIOUS
  <2>. QED  BY <1>1, <2>1
<1>2. CASE ~(a < Ids)
  <2>1. \A m, k \in Nat : m > 0 /\ k >= m /\ k < 2 * m => k % m = k - m
    OBVIOUS
  <2>. QED  BY <1>2, <2>1
<1>. QED  BY <1>1, <1>2

LEMMA Least ==
  ASSUME NEW S \in SUBSET Nat, S # {}
  PROVE  \E least \in S : \A other \in S : least <= other
<1>. DEFINE Below == OpToRel(<, Nat)
<1>1. PICK least \in S : \A other \in S : ~(<<other, least>> \in Below)
  <2>1. IsWellFoundedOn(Below, Nat) BY NatLessThanWellFounded
  <2>. HIDE DEF Below
  <2>. QED  BY <2>1, WFMin
<1>2. \A i, j \in Nat : ~(<<j, i>> \in Below) => i <= j
  BY DEF OpToRel
<1>. HIDE DEF Below
<1>. QED  BY <1>1, <1>2

\* The next ID is free, and all those passed over for it are not.
LEMMA NextIdIs ==
  ASSUME Ids \in Nat \ {0}, next_invoke \in InvokeIds, Host!NextId # None
  PROVE  /\ Host!NextId \in InvokeIds \ active_ids
         /\ PassedOver(next_invoke, Host!NextId) \subseteq active_ids
<1>. DEFINE free == Host!FreeFrom(next_invoke)
<1>1. free # {} /\ free \subseteq InvokeIds
  BY DEF Host!NextId, Host!FreeFrom, InvokeIds
<1>2. PICK m \in free : \A j \in free : m <= j
  BY <1>1, Least DEF InvokeIds
<1>3. \A k \in free : (\A j \in free : k <= j) => k = m
  BY <1>1, <1>2 DEF InvokeIds
<1>4. Host!NextId = (next_invoke + m) % Ids
  BY <1>1, <1>2, <1>3 DEF Host!NextId
<1>5. \A k \in InvokeIds : (next_invoke + k) % Ids =
                              IF next_invoke + k < Ids THEN next_invoke + k ELSE next_invoke + k - Ids
  BY WrapsOnce DEF InvokeIds
<1>6. Host!NextId \in InvokeIds \ active_ids
  BY <1>1, <1>2, <1>4, <1>5 DEF Host!FreeFrom, InvokeIds
<1>7. ASSUME NEW y \in PassedOver(next_invoke, Host!NextId), y \notin active_ids PROVE FALSE
  <2>. DEFINE j == IF next_invoke <= y THEN y - next_invoke ELSE y + Ids - next_invoke
  <2>1. j \in InvokeIds /\ (next_invoke + j) % Ids = y
    BY <1>5, <1>7 DEF PassedOver, InvokeIds
  <2>2. j < m
    BY <1>1, <1>2, <1>4, <1>5, <1>7 DEF PassedOver, InvokeIds
  <2>3. j \in free
    BY <1>7, <2>1 DEF Host!FreeFrom, InvokeIds
  <2>. QED  BY <1>1, <1>2, <2>2, <2>3 DEF InvokeIds
<1>. QED  BY <1>6, <1>7

LEMMA ListsHaveLengths ==
  ASSUME NEW n \in Nat, NEW q, q = [i \in 1..n |-> q[i]]
  PROVE  IsList(q)
<1>1. DOMAIN q = 1..n
  OBVIOUS
<1>. DEFINE S == {q[i] : i \in DOMAIN q}
<1>2. q \in [1..n -> S]
  BY <1>1
<1>. HIDE DEF S
<1>. QED  BY <1>2 DEF IsList, S

Fields == {"invoke_id", "at", "answered", "ended", "released", "beside"}
HasShape(q) == q = [field \in Fields |-> q[field]]

\* Not yet queued, so nothing has ended it.
Early(place) == place \in {"named", "started"}

IsHosted(q) ==
  /\ HasShape(q)
  /\ q.invoke_id \in InvokeIds /\ q.ended \in BOOLEAN /\ q.released \in BOOLEAN
  /\ q.released => q.ended
  /\ Early(q.at) => ~q.ended

\* What a step writes into a request.
Writes(w, q, field, v) == w = [q EXCEPT ![field] = v]
WritesBoth(w, q, field, v, ended) == w = [q EXCEPT ![field] = v, !["ended"] = ended]

Ends(w, q, field, v) == WritesBoth(w, q, field, v, TRUE)

LEMMA FieldWritten ==
  ASSUME NEW q, HasShape(q), NEW field \in Fields, NEW v, NEW w, Writes(w, q, field, v)
  PROVE  HasShape(w) /\ w[field] = v /\ \A other \in Fields : other # field => w[other] = q[other]
  BY DEF HasShape, Writes

LEMMA Rewritten ==
  ASSUME NEW q, HasShape(q), NEW field \in Fields, field # "ended", NEW v, NEW ended, NEW w,
         WritesBoth(w, q, field, v, ended)
  PROVE  /\ HasShape(w) /\ w[field] = v /\ w["ended"] = ended
         /\ \A other \in Fields : other # field /\ other # "ended" => w[other] = q[other]
<1>1. PICK first : first = [q EXCEPT ![field] = v]
  OBVIOUS
<1>2. [q EXCEPT ![field] = v, !["ended"] = ended] = [[q EXCEPT ![field] = v] EXCEPT !["ended"] = ended]
  OBVIOUS
<1>3. w = [first EXCEPT !["ended"] = ended]
  BY <1>1, <1>2, Zenon DEF WritesBoth
<1>4. Writes(first, q, field, v) /\ Writes(w, first, "ended", ended)
  BY <1>1, <1>3, Zenon DEF Writes
<1>5. /\ HasShape(first) /\ first[field] = v
      /\ \A other \in Fields : other # field => first[other] = q[other]
  BY <1>4, FieldWritten
<1>6. /\ HasShape(w) /\ w["ended"] = ended
      /\ \A other \in Fields : other # "ended" => w[other] = first[other]
  <2>1. "ended" \in Fields
    BY DEF Fields
  <2>. QED  BY <1>4, <1>5, <2>1, FieldWritten
<1>. QED  BY <1>5, <1>6

HasEnded(w, q, place) ==
  /\ IsHosted(w) /\ w.at = place /\ w.ended = TRUE
  /\ w.invoke_id = q.invoke_id /\ w.released = q.released /\ w.beside = q.beside

LEMMA RequestEnds ==
  ASSUME NEW q, IsHosted(q), NEW place, NEW w, Ends(w, q, "at", place),
         ~Early(place)
  PROVE  HasEnded(w, q, place)
<1>1. PICK ended : ended = TRUE
  OBVIOUS
<1>2. WritesBoth(w, q, "at", place, ended)
  BY <1>1, Zenon DEF Ends
<1>3. HasShape(q) /\ "at" \in Fields /\ "at" # "ended"
  BY DEF IsHosted, Fields
<1>4. /\ HasShape(w) /\ w["at"] = place /\ w["ended"] = ended
      /\ \A other \in Fields : other # "at" /\ other # "ended" => w[other] = q[other]
  BY <1>2, <1>3, Rewritten
<1>5. w.invoke_id = q.invoke_id /\ w.released = q.released /\ w.beside = q.beside
  BY <1>4 DEF Fields
<1>6. w.ended = TRUE
  BY <1>1, <1>4
<1>. QED  BY <1>4, <1>5, <1>6 DEF IsHosted, Early, HasEnded

LEMMA RequestAnswered ==
  ASSUME NEW q, IsHosted(q), NEW w, Ends(w, q, "answered", TRUE), q.at = "sent"
  PROVE  HasEnded(w, q, "sent")
<1>1. PICK ended : ended = TRUE
  OBVIOUS
<1>2. WritesBoth(w, q, "answered", ended, ended)
  BY <1>1, Zenon DEF Ends
<1>3. HasShape(q) /\ "answered" \in Fields /\ "answered" # "ended"
  BY DEF IsHosted, Fields
<1>4. /\ HasShape(w) /\ w["ended"] = ended
      /\ \A other \in Fields : other # "answered" /\ other # "ended" => w[other] = q[other]
  BY <1>2, <1>3, Rewritten
<1>5. /\ w.invoke_id = q.invoke_id /\ w.released = q.released /\ w.beside = q.beside
      /\ w.at = q.at
  BY <1>4 DEF Fields
<1>6. w.ended = TRUE
  BY <1>1, <1>4
<1>. QED  BY <1>4, <1>5, <1>6 DEF IsHosted, Early, HasEnded

RequestsInv == IsList(made) /\ \A q \in DOMAIN made : IsHosted(made[q])

\* What other IDs were in use when the request got its own, or are given out since.
InUseBy(q, id) ==
  \/ id \in made[q].beside
  \/ \E later \in DOMAIN made : q < later /\ made[later].invoke_id = id

\* Since a request got its ID those behind it were in use, up to where the next is looked for.
IdsInv ==
  /\ next_invoke \in InvokeIds /\ Host!IdsComeRound
  /\ \A q, r \in DOMAIN made :
       q < r /\ ~made[q].released => made[q].invoke_id \in made[r].beside
  /\ \A q \in DOMAIN made : \A id \in Behind(made[q].invoke_id, next_invoke) : InUseBy(q, id)

\* Requests get their IDs one after another.
LEMMA TakeIdStep ==
  ASSUME Ids \in Nat \ {0}, RequestsInv, IdsInv, Host!TakeId
  PROVE  RequestsInv' /\ IdsInv'
<1>2. PICK id \in InvokeIds \ active_ids :
        id = Host!NextId /\ PassedOver(next_invoke, id) \subseteq active_ids
  BY NextIdIs DEF Host!TakeId, IdsInv
<1>. DEFINE n == Len(made)
            row == [invoke_id |-> id, at |-> "named", answered |-> FALSE, ended |-> FALSE,
                    released |-> FALSE, beside |-> active_ids]
<1>1. n \in Nat /\ DOMAIN made = 1..n
  BY ListLength DEF RequestsInv
<1>3. /\ IsList(made') /\ DOMAIN made' = 1..(n + 1) /\ made'[n + 1] = row
      /\ \A q \in 1..n : made'[q] = made[q]
  BY <1>1, <1>2, OneMore DEF Host!TakeId, RequestsInv
<1>4. next_invoke' = (IF id + 1 < Ids THEN id + 1 ELSE 0) /\ active_ids' = active_ids \cup {id}
  <2>1. id + 1 \in 0..(2 * Ids - 1) /\ (id + 1 < Ids \/ id + 1 = Ids)
    BY <1>2 DEF InvokeIds
  <2>2. (id + 1) % Ids = IF id + 1 < Ids THEN id + 1 ELSE (id + 1) - Ids
    BY <2>1, WrapsOnce
  <2>. QED  BY <1>2, <2>1, <2>2 DEF Host!TakeId
<1>5. \A q \in DOMAIN made' : q \in 1..n \/ q = n + 1
  BY <1>1, <1>3
<1>6. IsHosted(row) /\ row.invoke_id = id /\ ~row.released /\ row.beside = active_ids
  BY <1>2 DEF IsHosted, HasShape, Fields, Early
<1>. HIDE DEF row, n
<1>7. RequestsInv'
  BY <1>1, <1>3, <1>5, <1>6 DEF RequestsInv
<1>8. ASSUME NEW q \in 1..n, NEW y \in active_ids, made[q].released \/ made[q].invoke_id # y
      PROVE  InUseBy(q, y)
  <2>1. PICK p \in DOMAIN made : ~made[p].released /\ made[p].invoke_id = y
    BY DEF IdsInv, Host!IdsComeRound
  <2>2. p < q \/ q < p
    BY <1>1, <1>8, <2>1
  <2>. QED  BY <1>1, <2>1, <2>2 DEF IdsInv, InUseBy
<1>9. \A q \in 1..n : \A y : InUseBy(q, y) => InUseBy(q, y)'
  BY <1>1, <1>3 DEF InUseBy
<1>10. \A q \in 1..n : InUseBy(q, id)'
  BY <1>1, <1>3, <1>6 DEF InUseBy
<1>11. Host!IdsComeRound'
  <2>1. active_ids' = {made'[r].invoke_id : r \in {q \in DOMAIN made' : ~made'[q].released}}
    <3>1. active_ids = {made[r].invoke_id : r \in {q \in DOMAIN made : ~made[q].released}}
      BY DEF IdsInv, Host!IdsComeRound
    <3>. QED  BY <1>1, <1>3, <1>4, <1>5, <1>6, <3>1
  <2>2. ASSUME NEW q \in 1..n, made[q].invoke_id = id
        PROVE  /\ made[q].released
               /\ \A y \in InvokeIds \ {id} :
                    \/ y \in made[q].beside
                    \/ \E between \in (q + 1)..n : made[between].invoke_id = y
    <3>1. made[q].released
      BY <1>1, <1>2, <2>2 DEF IdsInv, Host!IdsComeRound
    <3>2. ASSUME NEW y \in InvokeIds \ {id} PROVE InUseBy(q, y)
      <4>1. y \in Behind(id, next_invoke) \/ y \in PassedOver(next_invoke, id)
        BY <1>2 DEF Behind, PassedOver, InvokeIds, IdsInv
      <4>. QED  BY <1>1, <1>2, <1>8, <2>2, <3>1, <4>1 DEF IdsInv
    <3>3. \A later \in 1..n : q < later => later \in (q + 1)..n
      BY <1>1
    <3>. QED  BY <1>1, <3>1, <3>2, <3>3 DEF InUseBy
  <2>3. \A q, r \in 1..n : q < r /\ made[q].invoke_id = made[r].invoke_id =>
          /\ made[q].released
          /\ \A y \in InvokeIds \ {made[r].invoke_id} :
               \/ y \in made[q].beside
               \/ \E between \in (q + 1)..(r - 1) : made[between].invoke_id = y
    BY <1>1 DEF IdsInv, Host!IdsComeRound, InvokeIds
  <2>4. \A q, r \in 1..n : \A between \in (q + 1)..(r - 1) : between \in 1..n
    BY <1>1
  <2>5. ASSUME NEW q \in DOMAIN made', NEW r \in DOMAIN made', q < r,
               made'[q].invoke_id = made'[r].invoke_id
        PROVE  /\ made'[q].released
               /\ \A y \in InvokeIds \ {made'[r].invoke_id} :
                    \/ y \in made'[q].beside
                    \/ \E between \in (q + 1)..(r - 1) : made'[between].invoke_id = y
    <3>1. q \in 1..n
      BY <1>1, <1>3, <2>5
    <3>2. CASE r \in 1..n
      BY <1>3, <2>3, <2>4, <2>5, <3>1, <3>2
    <3>3. CASE r = n + 1
      <4>1. (n + 1) - 1 = n /\ \A between \in (q + 1)..n : between \in 1..n
        BY <1>1, <3>1
      <4>. QED  BY <1>3, <1>6, <2>2, <2>5, <3>1, <3>3, <4>1
    <3>. QED  BY <1>5, <3>2, <3>3
  <2>. QED  BY <2>1, <2>5 DEF Host!IdsComeRound, InvokeIds
<1>12. \A q, r \in DOMAIN made' :
         q < r /\ ~made'[q].released => made'[q].invoke_id \in made'[r].beside
  <2>1. \A q \in 1..n : ~made[q].released => made[q].invoke_id \in active_ids
    BY <1>1 DEF IdsInv, Host!IdsComeRound
  <2>2. \A q \in DOMAIN made', r \in DOMAIN made' : q < r => q \in 1..n
    BY <1>1, <1>3
  <2>. QED  BY <1>1, <1>3, <1>5, <1>6, <2>1, <2>2 DEF IdsInv
<1>13. ASSUME NEW q \in DOMAIN made', NEW y \in Behind(made'[q].invoke_id, next_invoke')
       PROVE  InUseBy(q, y)'
  <2>1. CASE q = n + 1
    <3>1. Behind(id, next_invoke') = {}
      BY <1>2, <1>4 DEF Behind, InvokeIds
    <3>. QED  BY <1>3, <1>6, <1>13, <2>1, <3>1
  <2>2. CASE q \in 1..n
    <3>. DEFINE x == made[q].invoke_id
    <3>1. x \in InvokeIds /\ made'[q].invoke_id = x
      BY <1>1, <1>3, <2>2 DEF RequestsInv, IsHosted
    <3>. HIDE DEF x
    <3>2. /\ y \in InvokeIds /\ y # x
          /\ \/ y \in Behind(x, next_invoke) \/ y = id \/ y \in PassedOver(next_invoke, id)
      BY <1>2, <1>4, <1>13, <3>1 DEF Behind, PassedOver, InvokeIds, IdsInv
    <3>3. CASE y \in Behind(x, next_invoke)
      BY <1>1, <1>9, <2>2, <3>3 DEF IdsInv, x
    <3>4. CASE y \in PassedOver(next_invoke, id)
      BY <1>2, <1>8, <1>9, <2>2, <3>2, <3>4 DEF x
    <3>. QED  BY <1>10, <2>2, <3>2, <3>3, <3>4
  <2>. QED  BY <1>5, <2>1, <2>2
<1>14. next_invoke' \in InvokeIds
  BY <1>2, <1>4 DEF InvokeIds
<1>. QED  BY <1>7, <1>11, <1>12, <1>13, <1>14 DEF IdsInv

\* Where a request is, and whether it has ended, is nothing to the IDs.
LEMMA IdsStay ==
  ASSUME RequestsInv, IdsInv, UNCHANGED <<next_invoke, active_ids>>, DOMAIN made' = DOMAIN made,
         \A q \in DOMAIN made : /\ made'[q].invoke_id = made[q].invoke_id
                                /\ made'[q].beside = made[q].beside
                                /\ made'[q].released = made[q].released
  PROVE  IdsInv'

<1>1. /\ Host!IdsComeRound'
      /\ \A q, r \in DOMAIN made' :
           q < r /\ ~made'[q].released => made'[q].invoke_id \in made'[r].beside
  <2>1. active_ids' = {made'[r].invoke_id : r \in {q \in DOMAIN made' : ~made'[q].released}}
    BY DEF IdsInv, Host!IdsComeRound
  <2>2. ASSUME NEW q \in DOMAIN made, NEW r \in DOMAIN made, q < r,
               made[q].invoke_id = made[r].invoke_id
        PROVE  \A between \in (q + 1)..(r - 1) : between \in DOMAIN made
    BY <2>2, ListLength DEF RequestsInv
  <2>. QED  BY <2>1, <2>2 DEF IdsInv, Host!IdsComeRound
<1>2. \A id : \A q \in DOMAIN made : InUseBy(q, id) => InUseBy(q, id)'
  BY DEF InUseBy
<1>. QED  BY <1>1, <1>2 DEF IdsInv

-----------------------------------------------------------------------------
(* The transactions *)

IsAsking(r) == made[r].at \in {"started", "queued", "unsent", "sent"}

\* A transaction is of a request that asks.
Recorded(t) ==
  /\ t = [invoke_id |-> t.invoke_id, of |-> t.of, state |-> t.state, behind |-> t.behind]
  /\ t.of \in DOMAIN made /\ t.invoke_id = made[t.of].invoke_id /\ IsAsking(t.of)
  /\ t.state \in {"AwaitConfirmation", "Complete"}

\* It is as complete as its request is.
Agrees(t) ==
  IF made[t.of].ended THEN ~Host!Awaiting(t) \/ t.behind = TRUE
                      ELSE Host!Awaiting(t) \/ Host!MayCross(t.of)

HasTransaction(r) == \E i \in DOMAIN transactions : transactions[i].of = r

TransactionsInv ==
  /\ IsList(transactions)
  /\ \A i \in DOMAIN transactions : Recorded(transactions[i]) /\ Agrees(transactions[i])
  \* Of two with an ID only the last may await, and it knows of the other.
  /\ \A i, j \in DOMAIN transactions :
       transactions[i].invoke_id = transactions[j].invoke_id /\ i < j =>
         ~Host!Awaiting(transactions[i]) /\ transactions[j].behind = TRUE
  /\ \A r \in DOMAIN made :
       IsAsking(r) /\ ~made[r].ended => HasTransaction(r) \/ Host!MayCross(r)

\* What is queued is there once.
MessagesInv ==
  /\ queue = [p \in Host!Priorities |-> queue[p]]
  /\ \A p \in Host!Priorities : IsList(queue[p])
  /\ \A p \in Host!Priorities : \A i \in DOMAIN queue[p] :
       queue[p][i] \in DOMAIN made /\ made[queue[p][i]].at = "queued"
  /\ \A p, o \in Host!Priorities : \A i \in DOMAIN queue[p], j \in DOMAIN queue[o] :
       queue[p][i] = queue[o][j] => p = o /\ i = j

HostInv == RequestsInv /\ IdsInv /\ TransactionsInv /\ MessagesInv

\* A request gets further: it may start, be queued, be sent or end, but not be unsent.
Onwards ==
  /\ IsList(made') /\ DOMAIN made' = DOMAIN made
  /\ \A q \in DOMAIN made : /\ IsHosted(made'[q])
                            /\ made'[q].invoke_id = made[q].invoke_id
                            /\ made'[q].beside = made[q].beside
                            /\ made[q].at = "sent" => made'[q].at = "sent"

LEMMA StillMayCross ==
  ASSUME Onwards, RequestsInv, NEW r \in DOMAIN made, Host!MayCross(r)
  PROVE  Host!MayCross(r)'
<1>1. \A q \in 1..(r - 1) : q \in DOMAIN made
  BY ListLength DEF RequestsInv
<1>. QED  BY <1>1 DEF Host!MayCross, Onwards

\* One request goes on.
LEMMA OneGoesOn ==
  ASSUME RequestsInv, NEW r \in DOMAIN made, NEW row, IsHosted(row),
         made' = [made EXCEPT ![r] = row],
         row.invoke_id = made[r].invoke_id, row.beside = made[r].beside,
         made[r].at = "sent" => row.at = "sent"
  PROVE  /\ Onwards /\ RequestsInv' /\ made'[r] = row
         /\ \A q \in DOMAIN made : q # r => made'[q] = made[q]
<1>1. Len(made) \in Nat /\ DOMAIN made = 1..Len(made)
  BY ListLength DEF RequestsInv
<1>2. DOMAIN made' = DOMAIN made /\ made'[r] = row /\ \A q \in DOMAIN made : q # r => made'[q] = made[q]
  OBVIOUS
<1>3. IsList(made')
  <2>1. made' = [i \in 1..Len(made) |-> made'[i]]
    BY <1>1
  <2>. QED  BY <1>1, <2>1, ListsHaveLengths
<1>. QED  BY <1>2, <1>3 DEF Onwards, RequestsInv

\* The tables but that of transactions do not move while none starts or ends.
LEMMA TransactionsStay ==
  ASSUME RequestsInv, TransactionsInv, Onwards, UNCHANGED transactions,
         \A q \in DOMAIN made : /\ made'[q].ended = made[q].ended
                                /\ IsAsking(q)' <=> IsAsking(q)
  PROVE  TransactionsInv'
<1>1. \A r \in DOMAIN made : Host!MayCross(r) => Host!MayCross(r)'
  BY StillMayCross
<1>. QED  BY <1>1 DEF TransactionsInv, Onwards, Recorded, Agrees, HasTransaction, Host!Awaiting

\* A request is started, with a transaction of its own or none.
LEMMA StartStep ==
  ASSUME HostInv, NEW r \in DOMAIN made, Host!Start(r)
  PROVE  HostInv'
<1>. DEFINE id == made[r].invoke_id
<1>1. IsHosted(made[r]) /\ made[r].at = "named" /\ ~made[r].ended /\ ~made[r].released
  BY DEF HostInv, RequestsInv, Host!Start, IsHosted, Early
<1>2. UNCHANGED <<next_invoke, active_ids, queue>>
  BY DEF Host!Start
<1>3. ~IsAsking(r) /\ \A i \in DOMAIN transactions : transactions[i].of # r
  BY <1>1 DEF HostInv, TransactionsInv, Recorded, IsAsking
<1>4. CASE Host!Admits(id)
  <2>. DEFINE row == [made[r] EXCEPT !.at = "started"]
              t == [invoke_id |-> id, of |-> r, state |-> "AwaitConfirmation",
                    behind |-> Host!With(id) # {}]
              n == Len(transactions)
  <2>1. made' = [made EXCEPT ![r] = row] /\ transactions' = Append(transactions, t)
    BY <1>4 DEF Host!Start
  <2>2. IsHosted(row) /\ row.invoke_id = id /\ row.beside = made[r].beside
        /\ row.at = "started" /\ ~row.ended /\ row.released = made[r].released
    BY <1>1 DEF IsHosted, HasShape, Fields, Early
  <2>3. /\ Onwards /\ RequestsInv' /\ made'[r] = row
        /\ \A q \in DOMAIN made : q # r => made'[q] = made[q]
    BY <1>1, <2>1, <2>2, OneGoesOn DEF HostInv
  <2>4. IdsInv'
    BY <1>2, <2>2, <2>3, IdsStay DEF HostInv, Onwards
  <2>5. MessagesInv'
    BY <1>1, <1>2, <2>3 DEF HostInv, MessagesInv, Onwards
  <2>6. /\ IsList(transactions') /\ DOMAIN transactions' = 1..(n + 1) /\ transactions'[n + 1] = t
        /\ n \in Nat /\ DOMAIN transactions = 1..n
        /\ \A i \in 1..n : transactions'[i] = transactions[i]
    BY <2>1, OneMore, ListLength DEF HostInv, TransactionsInv
  <2>7. /\ t.invoke_id = id /\ t.of = r /\ t.state = "AwaitConfirmation"
        /\ t.behind = (Host!With(id) # {})
        /\ t = [invoke_id |-> t.invoke_id, of |-> t.of, state |-> t.state, behind |-> t.behind]
    OBVIOUS
  <2>8. IsAsking(r)' /\ \A q \in DOMAIN made : q # r => (IsAsking(q)' <=> IsAsking(q))
    BY <2>2, <2>3 DEF IsAsking
  <2>9. \A q \in DOMAIN made : Host!MayCross(q) => Host!MayCross(q)'
    BY <2>3, StillMayCross DEF HostInv
  <2>10. \A i \in 1..(n + 1) : i \in 1..n \/ i = n + 1
    BY <2>6
  <2>. HIDE DEF row, t, n
  <2>11. ASSUME NEW i \in DOMAIN transactions'
         PROVE  Recorded(transactions[i])' /\ Agrees(transactions[i])'
    <3>1. CASE i = n + 1
      <4>1. transactions'[i] = t /\ r \in DOMAIN made' /\ made'[r].invoke_id = id
        BY <2>2, <2>3, <2>6, <3>1 DEF Onwards
      <4>2. Recorded(transactions[i])'
        BY <2>7, <2>8, <4>1 DEF Recorded
      <4>3. Agrees(transactions[i])'
        BY <2>2, <2>3, <2>7, <4>1 DEF Agrees, Host!Awaiting
      <4>. QED  BY <4>2, <4>3
    <3>2. CASE i \in 1..n
      <4>1. /\ transactions'[i] = transactions[i] /\ transactions[i].of # r
            /\ Recorded(transactions[i]) /\ Agrees(transactions[i])
        BY <1>3, <2>6, <3>2 DEF HostInv, TransactionsInv
      <4>2. Recorded(transactions[i])'
        BY <2>3, <2>8, <4>1 DEF Recorded, Onwards
      <4>3. Agrees(transactions[i])'
        BY <2>3, <2>9, <4>1 DEF Agrees, Recorded, Host!Awaiting
      <4>. QED  BY <4>2, <4>3
    <3>. QED  BY <2>6, <2>10, <3>1, <3>2
  <2>12. \A i, j \in DOMAIN transactions' :
           transactions'[i].invoke_id = transactions'[j].invoke_id /\ i < j =>
             ~Host!Awaiting(transactions'[i]) /\ transactions'[j].behind = TRUE
    <3>1. \A i \in 1..n : transactions[i].invoke_id = id =>
            ~Host!Awaiting(transactions[i]) /\ Host!With(id) # {}
      BY <1>4, <2>6 DEF Host!Admits, Host!With
    <3>2. \A i, j \in DOMAIN transactions' : i < j => i \in 1..n
      BY <2>6
    <3>3. ASSUME NEW i \in DOMAIN transactions', NEW j \in DOMAIN transactions', i < j,
                 transactions'[i].invoke_id = transactions'[j].invoke_id
          PROVE  ~Host!Awaiting(transactions'[i]) /\ transactions'[j].behind = TRUE
      <4>1. i \in 1..n /\ transactions'[i] = transactions[i]
        BY <2>6, <3>2, <3>3
      <4>2. CASE j = n + 1
        BY <2>6, <2>7, <3>1, <3>3, <4>1, <4>2
      <4>3. CASE j \in 1..n
        BY <2>6, <3>3, <4>1, <4>3 DEF HostInv, TransactionsInv
      <4>. QED  BY <2>6, <2>10, <4>2, <4>3
    <3>. QED  BY <3>3
  <2>13. ASSUME NEW q \in DOMAIN made, IsAsking(q)', ~made'[q].ended
         PROVE  HasTransaction(q)' \/ Host!MayCross(q)'
    <3>1. n + 1 \in DOMAIN transactions' /\ 1..n \subseteq DOMAIN transactions'
      BY <2>6
    <3>2. CASE q = r
      BY <2>6, <2>7, <3>1, <3>2 DEF HasTransaction
    <3>3. CASE q # r
      <4>1. HasTransaction(q) \/ Host!MayCross(q)
        BY <2>3, <2>8, <2>13, <3>3 DEF HostInv, TransactionsInv
      <4>. QED  BY <2>6, <2>9, <3>1, <4>1 DEF HasTransaction
    <3>. QED  BY <3>2, <3>3
  <2>14. TransactionsInv'
    BY <2>3, <2>6, <2>11, <2>12, <2>13 DEF TransactionsInv, Onwards, Host!Awaiting
  <2>. QED  BY <2>3, <2>4, <2>5, <2>14 DEF HostInv
<1>5. CASE ~Host!Admits(id)
  <2>. DEFINE row == [made[r] EXCEPT !.at = "refused", !.ended = TRUE]
  <2>1. made' = [made EXCEPT ![r] = row] /\ UNCHANGED transactions
    BY <1>5 DEF Host!Start
  <2>2. /\ IsHosted(row) /\ row.invoke_id = id /\ row.beside = made[r].beside
        /\ row.at = "refused" /\ row.ended = TRUE /\ row.released = made[r].released
    <3>1. Ends(row, made[r], "at", "refused")
      BY Zenon DEF Ends, WritesBoth
    <3>. HIDE DEF row
    <3>2. ~Early("refused")
      BY DEF Early
    <3>3. HasEnded(row, made[r], "refused")
      BY <1>1, <3>1, <3>2, RequestEnds, Zenon
    <3>. QED  BY <3>3 DEF HasEnded
  <2>3. /\ Onwards /\ RequestsInv' /\ made'[r] = row
        /\ \A q \in DOMAIN made : q # r => made'[q] = made[q]
    BY <1>1, <2>1, <2>2, OneGoesOn DEF HostInv
  <2>4. IdsInv'
    BY <1>2, <2>2, <2>3, IdsStay DEF HostInv, Onwards
  <2>5. MessagesInv'
    BY <1>1, <1>2, <2>3 DEF HostInv, MessagesInv, Onwards
  <2>6. \A q \in DOMAIN made : Host!MayCross(q) => Host!MayCross(q)'
    BY <2>3, StillMayCross DEF HostInv
  <2>7. \A q \in DOMAIN made : IsAsking(q)' <=> IsAsking(q)
    BY <1>1, <2>2, <2>3 DEF IsAsking
  <2>8. ASSUME NEW i \in DOMAIN transactions'
        PROVE  Recorded(transactions[i])' /\ Agrees(transactions[i])'
    <3>1. /\ transactions'[i] = transactions[i] /\ transactions[i].of # r
          /\ Recorded(transactions[i]) /\ Agrees(transactions[i])
      BY <1>3, <2>1 DEF HostInv, TransactionsInv
    <3>2. Recorded(transactions[i])'
      BY <2>3, <2>7, <3>1 DEF Recorded, Onwards
    <3>3. Agrees(transactions[i])'
      BY <2>3, <2>6, <3>1 DEF Agrees, Recorded, Host!Awaiting
    <3>. QED  BY <3>2, <3>3
  <2>9. TransactionsInv'
    BY <1>3, <2>1, <2>2, <2>3, <2>6, <2>7, <2>8
    DEF HostInv, TransactionsInv, HasTransaction, Onwards, Host!Awaiting
  <2>. QED  BY <2>3, <2>4, <2>5, <2>9 DEF HostInv
<1>. QED  BY <1>4, <1>5

IsCompleted(w, t) ==
  /\ w = [invoke_id |-> w.invoke_id, of |-> w.of, state |-> w.state, behind |-> w.behind]
  /\ w.invoke_id = t.invoke_id /\ w.of = t.of /\ w.behind = t.behind /\ w.state = "Complete"

\* An answer, or the end of a host's patience, completes the first transaction with the ID.
LEMMA CompletedIs ==
  ASSUME TransactionsInv, NEW id
  PROVE  LET completed == Host!Completed(id) IN
         /\ IsList(completed) /\ DOMAIN completed = DOMAIN transactions
         /\ \/ Host!With(id) = {} /\ completed = transactions
            \/ \E first \in Host!With(id) :
                 /\ \A i \in Host!With(id) : first <= i
                 /\ \A i \in DOMAIN transactions : i # first => completed[i] = transactions[i]
                 /\ IsCompleted(completed[first], transactions[first])
<1>. DEFINE completed == Host!Completed(id)
<1>1. Len(transactions) \in Nat /\ DOMAIN transactions = 1..Len(transactions)
  BY ListLength DEF TransactionsInv
<1>2. CASE Host!With(id) = {}
  <2>1. completed = transactions
    BY <1>2 DEF Host!Completed
  <2>. QED  BY <1>2, <2>1 DEF TransactionsInv
<1>3. CASE Host!With(id) # {}
  <2>1. Host!With(id) \subseteq DOMAIN transactions /\ DOMAIN transactions \subseteq Nat
    BY <1>1 DEF Host!With
  <2>2. PICK first \in Host!With(id) : \A i \in Host!With(id) : first <= i
    BY <1>3, <2>1, Least
  <2>3. \A i \in Host!With(id) : (\A j \in Host!With(id) : i <= j) => i = first
    BY <2>1, <2>2
  <2>4. (CHOOSE i \in Host!With(id) : \A j \in Host!With(id) : i <= j) = first
    BY <2>2, <2>3
  <2>5. completed = [transactions EXCEPT ![first].state = "Complete"]
    BY <1>3, <2>4 DEF Host!Completed
  <2>6. first \in DOMAIN transactions /\ transactions[first].invoke_id = id
    BY <2>2 DEF Host!With
  <2>7. /\ DOMAIN completed = DOMAIN transactions
        /\ \A i \in DOMAIN transactions : i # first => completed[i] = transactions[i]
        /\ completed[first] = [transactions[first] EXCEPT !.state = "Complete"]
    BY <2>5, <2>6
  <2>. HIDE DEF completed
  <2>8. IsList(completed)
    <3>1. completed = [i \in 1..Len(transactions) |-> completed[i]]
      BY <1>1, <2>5, <2>7
    <3>. QED  BY <1>1, <3>1, ListsHaveLengths
  <2>9. completed[first] = [invoke_id |-> id, of |-> transactions[first].of,
                            state |-> "Complete", behind |-> transactions[first].behind]
    BY <2>6, <2>7 DEF TransactionsInv, Recorded
  <2>10. IsCompleted(completed[first], transactions[first])
    BY <2>6, <2>9 DEF IsCompleted
  <2>. QED  BY <2>2, <2>7, <2>8, <2>10 DEF completed
<1>. QED  BY <1>2, <1>3

\* Of two requests with an ID the first has released it, so it has ended, and may cross the
\* second if it was sent.
LEMMA EarlierHasEnded ==
  ASSUME RequestsInv, IdsInv, NEW q \in DOMAIN made, NEW r \in DOMAIN made, q < r,
         made[q].invoke_id = made[r].invoke_id
  PROVE  made[q].ended /\ (made[q].at = "sent" => Host!MayCross(r))
<1>1. made[q].released
  BY DEF IdsInv, Host!IdsComeRound
<1>2. q \in 1..(r - 1)
  BY ListLength DEF RequestsInv
<1>. QED  BY <1>1, <1>2 DEF RequestsInv, IsHosted, Host!MayCross

LEMMA EndStep ==
  ASSUME HostInv, NEW r \in DOMAIN made, IsAsking(r), made[r].at # "queued",
         made[r].ended => made[r].at = "sent",
         NEW row, NEW place, HasEnded(row, made[r], place),
         place = IF made[r].at = "started" THEN "unsent" ELSE made[r].at,
         made' = [made EXCEPT ![r] = row],
         transactions' = Host!Completed(made[r].invoke_id),
         UNCHANGED <<next_invoke, active_ids, queue>>
  PROVE  HostInv'
<1>. DEFINE id == made[r].invoke_id
<1>1. /\ IsHosted(row) /\ row.at = place /\ row.ended = TRUE
      /\ row.invoke_id = id /\ row.released = made[r].released /\ row.beside = made[r].beside
  BY DEF HasEnded
<1>2. made[r].at = "sent" => row.at = "sent"
  BY <1>1
<1>3. /\ Onwards /\ RequestsInv' /\ made'[r] = row
      /\ \A q \in DOMAIN made : q # r => made'[q] = made[q]
  BY <1>1, <1>2, OneGoesOn DEF HostInv
<1>4. IdsInv'
  BY <1>1, <1>3, IdsStay DEF HostInv, Onwards
<1>5. MessagesInv'
  BY <1>3 DEF HostInv, MessagesInv, Onwards
<1>6. \A q \in DOMAIN made : Host!MayCross(q) => Host!MayCross(q)'
  BY <1>3, StillMayCross DEF HostInv
<1>7. \A q \in DOMAIN made : IsAsking(q)' <=> IsAsking(q)
  BY <1>1, <1>3 DEF IsAsking
<1>8. /\ IsList(transactions') /\ DOMAIN transactions' = DOMAIN transactions
      /\ \/ Host!With(id) = {} /\ transactions' = transactions
         \/ \E first \in Host!With(id) :
              /\ \A i \in Host!With(id) : first <= i
              /\ \A i \in DOMAIN transactions : i # first => transactions'[i] = transactions[i]
              /\ IsCompleted(transactions'[first], transactions[first])
  BY CompletedIs DEF HostInv
<1>. DEFINE Touched(i) == i \in Host!With(id) /\ IsCompleted(transactions'[i], transactions[i])
<1>14. \A i \in DOMAIN transactions : transactions'[i] = transactions[i] \/ Touched(i)
  BY <1>8
<1>9. ASSUME NEW i \in DOMAIN transactions
      PROVE  /\ Recorded(transactions[i])' /\ transactions'[i].of = transactions[i].of
             /\ transactions'[i].invoke_id = transactions[i].invoke_id
             /\ transactions'[i].behind = transactions[i].behind
             /\ transactions'[i].state \in {transactions[i].state, "Complete"}
  <2>1. Recorded(transactions[i])
    BY DEF HostInv, TransactionsInv
  <2>2. CASE transactions'[i] = transactions[i]
    BY <1>3, <1>7, <2>1, <2>2 DEF Recorded, Onwards
  <2>3. CASE Touched(i)
    <3>1. PICK w, p : w = transactions'[i] /\ p = transactions[i].of
      OBVIOUS
    <3>2. /\ w = [invoke_id |-> w.invoke_id, of |-> w.of, state |-> w.state, behind |-> w.behind]
          /\ w.invoke_id = transactions[i].invoke_id /\ w.of = p
          /\ w.behind = transactions[i].behind /\ w.state = "Complete"
      BY <2>3, <3>1 DEF IsCompleted
    <3>3. p \in DOMAIN made' /\ IsAsking(p)' /\ w.invoke_id = made'[p].invoke_id
      BY <1>3, <1>7, <2>1, <3>1, <3>2 DEF Recorded, Onwards
    <3>4. Recorded(w)'
      BY <3>2, <3>3 DEF Recorded
    <3>5. Recorded(transactions[i])'
      BY <3>1, <3>4 DEF Recorded
    <3>. QED  BY <3>1, <3>2, <3>5
  <2>. QED  BY <1>14, <2>2, <2>3
<1>10. \A i, j \in DOMAIN transactions' :
         transactions'[i].invoke_id = transactions'[j].invoke_id /\ i < j =>
           ~Host!Awaiting(transactions'[i]) /\ transactions'[j].behind = TRUE
  BY <1>8, <1>9 DEF HostInv, TransactionsInv, Host!Awaiting
<1>11. ASSUME NEW i \in DOMAIN transactions
       PROVE  Agrees(transactions[i])'
  <2>. DEFINE p == transactions[i].of
  <2>1. /\ Recorded(transactions[i]) /\ Agrees(transactions[i])
        /\ p \in DOMAIN made /\ transactions[i].invoke_id = made[p].invoke_id
    BY DEF HostInv, TransactionsInv, Recorded
  <2>2. transactions'[i].of = p /\ transactions'[i].behind = transactions[i].behind
    BY <1>9
  <2>3. CASE p = r
    <3>1. i \in Host!With(id)
      BY <2>1, <2>3 DEF Host!With
    <3>2. PICK first \in Host!With(id) :
            /\ \A j \in Host!With(id) : first <= j
            /\ IsCompleted(transactions'[first], transactions[first])
      BY <1>8, <3>1
    <3>3. first \in DOMAIN transactions /\ transactions[first].invoke_id = id
      BY DEF Host!With
    <3>4. first = i \/ first < i
      BY <3>1, <3>2, <3>3, ListLength DEF HostInv, TransactionsInv
    <3>5. first < i => transactions[i].behind = TRUE
      BY <2>1, <2>3, <3>3 DEF HostInv, TransactionsInv
    <3>. QED  BY <1>1, <1>3, <2>2, <2>3, <3>2, <3>4, <3>5 DEF Agrees, IsCompleted, Host!Awaiting
  <2>4. CASE p # r /\ transactions'[i] = transactions[i]
    BY <1>3, <1>6, <2>1, <2>2, <2>4 DEF Agrees, Host!Awaiting
  <2>5. CASE p # r /\ Touched(i)
    <3>1. made[p].invoke_id = made[r].invoke_id
      BY <2>1, <2>5 DEF Host!With
    <3>2. p < r \/ r < p
      BY <2>1, <2>5, ListLength DEF HostInv, RequestsInv
    <3>3. made[p].ended \/ Host!MayCross(p)
      BY <2>1, <3>1, <3>2, EarlierHasEnded DEF HostInv
    <3>. QED  BY <1>3, <1>6, <2>1, <2>2, <2>5, <3>3 DEF Agrees, IsCompleted, Host!Awaiting
  <2>. QED  BY <1>14, <2>3, <2>4, <2>5
<1>12. ASSUME NEW q \in DOMAIN made, IsAsking(q)', ~made'[q].ended
       PROVE  HasTransaction(q)' \/ Host!MayCross(q)'
  <2>1. q # r /\ IsAsking(q) /\ ~made[q].ended
    BY <1>1, <1>3, <1>7, <1>12
  <2>2. HasTransaction(q) \/ Host!MayCross(q)
    BY <2>1 DEF HostInv, TransactionsInv
  <2>. QED  BY <1>6, <1>8, <1>9, <2>2 DEF HasTransaction
<1>13. TransactionsInv'
  BY <1>3, <1>8, <1>9, <1>10, <1>11, <1>12 DEF TransactionsInv, Onwards
<1>. QED  BY <1>3, <1>4, <1>5, <1>13 DEF HostInv

\* A new request has no transaction yet, and is not queued.
LEMMA TakeIdKeeps ==
  ASSUME Ids \in Nat \ {0}, HostInv, Host!TakeId
  PROVE  HostInv'
<1>. DEFINE n == Len(made)
<1>1. RequestsInv' /\ IdsInv'
  BY TakeIdStep DEF HostInv
<1>2. n \in Nat /\ DOMAIN made = 1..n
  BY ListLength DEF HostInv, RequestsInv
<1>3. /\ DOMAIN made' = 1..(n + 1) /\ made'[n + 1].at = "named"
      /\ \A q \in 1..n : made'[q] = made[q]
  BY OneMore DEF Host!TakeId, HostInv, RequestsInv
<1>4. UNCHANGED <<transactions, queue>>
  BY DEF Host!TakeId
<1>5. \A q \in DOMAIN made' : q \in 1..n \/ q = n + 1
  BY <1>2, <1>3
<1>. HIDE DEF n
<1>6. \A q \in DOMAIN made : q \in DOMAIN made' /\ (IsAsking(q)' <=> IsAsking(q))
  BY <1>2, <1>3 DEF IsAsking
<1>7. \A r \in DOMAIN made : Host!MayCross(r) <=> Host!MayCross(r)'
  <2>1. \A r \in 1..n : \A q \in 1..(r - 1) : q \in 1..n
    BY <1>2
  <2>. QED  BY <1>2, <1>3, <2>1 DEF Host!MayCross
<1>8. ASSUME NEW i \in DOMAIN transactions
      PROVE Recorded(transactions[i])' /\ Agrees(transactions[i])'
  <2>1. Recorded(transactions[i]) /\ Agrees(transactions[i])
    BY DEF HostInv, TransactionsInv
  <2>. QED  BY <1>2, <1>3, <1>4, <1>6, <1>7, <2>1 DEF Recorded, Agrees, Host!Awaiting
<1>9. ASSUME NEW q \in DOMAIN made', IsAsking(q)', ~made'[q].ended
      PROVE  HasTransaction(q)' \/ Host!MayCross(q)'
  <2>1. q \in DOMAIN made
    <3>1. CASE q = n + 1
      BY <1>3, <1>9, <3>1 DEF IsAsking
    <3>. QED  BY <1>2, <1>5, <3>1
  <2>. QED  BY <1>2, <1>3, <1>4, <1>6, <1>7, <1>9, <2>1 DEF HostInv, TransactionsInv, HasTransaction
<1>10. TransactionsInv'
  BY <1>4, <1>8, <1>9 DEF HostInv, TransactionsInv, Host!Awaiting
<1>11. MessagesInv'
  BY <1>2, <1>3, <1>4, <1>6 DEF HostInv, MessagesInv
<1>. QED  BY <1>1, <1>10, <1>11 DEF HostInv

\* An ID that is released was of a request that ended.
LEMMA ReleaseStep ==
  ASSUME HostInv, NEW r \in DOMAIN made, Host!Release(r)
  PROVE  HostInv'
<1>. DEFINE row == [made[r] EXCEPT !.released = TRUE]
<1>1. IsHosted(made[r]) /\ made[r].ended /\ ~made[r].released
  BY DEF HostInv, RequestsInv, Host!Release
<1>2. made' = [made EXCEPT ![r] = row]
  BY DEF Host!Release
<1>3. UNCHANGED <<next_invoke, transactions, queue>> /\ active_ids' = active_ids \ {made[r].invoke_id}
  BY DEF Host!Release
<1>4. /\ IsHosted(row) /\ row.invoke_id = made[r].invoke_id /\ row.beside = made[r].beside
      /\ row.at = made[r].at /\ row.ended = made[r].ended /\ row.released
  BY <1>1 DEF IsHosted, HasShape, Fields
<1>. HIDE DEF row
<1>5. /\ Onwards /\ RequestsInv' /\ made'[r] = row
      /\ \A q \in DOMAIN made : q # r => made'[q] = made[q]
  BY <1>2, <1>4, OneGoesOn DEF HostInv
<1>6. TransactionsInv'
  BY <1>3, <1>4, <1>5, TransactionsStay DEF HostInv, IsAsking
<1>7. MessagesInv'
  BY <1>3, <1>4, <1>5 DEF HostInv, MessagesInv, Onwards
<1>8. \A q \in DOMAIN made : made[q].released => made'[q].released
  BY <1>4, <1>5
<1>9. /\ DOMAIN made' = DOMAIN made
      /\ \A q \in DOMAIN made : made'[q].invoke_id = made[q].invoke_id /\ made'[q].beside = made[q].beside
  BY <1>5 DEF Onwards
<1>10. Host!IdsComeRound'
  <2>1. active_ids' = {made'[q].invoke_id : q \in {p \in DOMAIN made' : ~made'[p].released}}
    <3>1. active_ids = {made[q].invoke_id : q \in {p \in DOMAIN made : ~made[p].released}}
      BY DEF HostInv, IdsInv, Host!IdsComeRound
    <3>2. ASSUME NEW q \in DOMAIN made, q # r, ~made[q].released
          PROVE  made[q].invoke_id # made[r].invoke_id
      <4>1. q < r \/ r < q
        BY <3>2, ListLength DEF HostInv, RequestsInv
      <4>. QED  BY <1>1, <3>2, <4>1 DEF HostInv, IdsInv, Host!IdsComeRound
    <3>3. \A q \in DOMAIN made : ~made'[q].released <=> q # r /\ ~made[q].released
      BY <1>4, <1>5
    <3>. QED  BY <1>3, <1>9, <3>1, <3>2, <3>3
  <2>2. ASSUME NEW q \in DOMAIN made, NEW p \in DOMAIN made, q < p
        PROVE  \A between \in (q + 1)..(p - 1) : between \in DOMAIN made
    BY <2>2, ListLength DEF HostInv, RequestsInv
  <2>. QED  BY <1>8, <1>9, <2>1, <2>2 DEF HostInv, IdsInv, Host!IdsComeRound
<1>11. \A id : \A q \in DOMAIN made : InUseBy(q, id) => InUseBy(q, id)'
  BY <1>9 DEF InUseBy
<1>12. IdsInv'
  BY <1>3, <1>8, <1>9, <1>10, <1>11 DEF HostInv, IdsInv
<1>. QED  BY <1>5, <1>6, <1>7, <1>12 DEF HostInv

\* Of what awaits there is one to an ID, so that what is left knows of no other.
LEMMA CleanupStep ==
  ASSUME HostInv, Host!Cleanup
  PROVE  HostInv'
<1>. DEFINE open == {i \in DOMAIN transactions : transactions[i].state # "Complete"}
            c == Cardinality(open)
<1>1. UNCHANGED <<next_invoke, active_ids, queue, made>>
  BY DEF Host!Cleanup
<1>2. transactions' = Retained(transactions, open)
  BY DEF Host!Cleanup, Host!CleanupCompleted, Host!Kept, Host!Cardinality, Cardinality, Retained
<1>3. open \in SUBSET DOMAIN transactions /\ IsList(transactions)
  BY DEF HostInv, TransactionsInv
<1>4. /\ IsList(transactions') /\ c \in Nat
      /\ \E at \in Bijection(1..c, open) : transactions' = [m \in 1..c |-> transactions[at[m]]]
  BY <1>2, <1>3, RetainedPlaces
<1>5. PICK at \in Bijection(1..c, open) : transactions' = [m \in 1..c |-> transactions[at[m]]]
  BY <1>4
<1>6. /\ at \in [1..c -> open] /\ \A m, k \in 1..c : at[m] = at[k] => m = k
      /\ \A i \in open : \E m \in 1..c : at[m] = i
  BY DEF Bijection, Injection, Surjection, IsInjective
<1>7. /\ DOMAIN transactions' = 1..c
      /\ \A m \in 1..c : /\ transactions'[m] = transactions[at[m]] /\ at[m] \in DOMAIN transactions
                         /\ transactions[at[m]].state # "Complete"
  BY <1>5, <1>6
<1>8. \A i \in DOMAIN transactions : transactions[i].state # "Complete" =>
        \E m \in 1..c : at[m] = i
  BY <1>6
<1>. HIDE DEF c, open
<1>9. \A i \in DOMAIN transactions : i \in Nat /\ Recorded(transactions[i]) /\ Agrees(transactions[i])
  BY ListLength DEF HostInv, TransactionsInv
<1>10. ASSUME NEW m \in 1..c
       PROVE  /\ Host!Awaiting(transactions'[m]) /\ Recorded(transactions[m])'
              /\ Agrees(transactions[m])'
  <2>1. PICK t : t = transactions'[m]
    OBVIOUS
  <2>2. Recorded(t) /\ Agrees(t) /\ Host!Awaiting(t)
    BY <1>7, <1>9, <2>1 DEF Recorded, Host!Awaiting
  <2>3. Recorded(t)' /\ Agrees(t)'
    BY <1>1, <2>2 DEF Recorded, Agrees, IsAsking, Host!MayCross, Host!Awaiting
  <2>. QED  BY <2>1, <2>2, <2>3 DEF Recorded, Agrees, Host!Awaiting
<1>11. ASSUME NEW m \in 1..c, NEW k \in 1..c, m < k,
              transactions'[m].invoke_id = transactions'[k].invoke_id
       PROVE  FALSE
  <2>1. at[m] # at[k] /\ m # k
    BY <1>4, <1>6, <1>11
  <2>2. at[m] < at[k] \/ at[k] < at[m]
    BY <1>7, <1>9, <2>1
  <2>3. Host!Awaiting(transactions[at[m]]) /\ Host!Awaiting(transactions[at[k]])
    BY <1>7, <1>10
  <2>. QED  BY <1>7, <1>11, <2>2, <2>3 DEF HostInv, TransactionsInv
<1>12. ASSUME NEW r \in DOMAIN made, IsAsking(r), ~made[r].ended
       PROVE  HasTransaction(r)' \/ Host!MayCross(r)
  <2>1. CASE Host!MayCross(r)
    BY <2>1
  <2>2. CASE HasTransaction(r) /\ ~Host!MayCross(r)
    <3>1. PICK i \in DOMAIN transactions : transactions[i].of = r
      BY <2>2 DEF HasTransaction
    <3>2. transactions[i].state # "Complete"
      BY <1>9, <1>12, <2>2, <3>1 DEF Agrees, Host!Awaiting
    <3>. QED  BY <1>7, <1>8, <3>1, <3>2 DEF HasTransaction
  <2>. QED  BY <1>12, <2>1, <2>2 DEF HostInv, TransactionsInv
<1>13. TransactionsInv'
  <2>1. \A r \in DOMAIN made : (IsAsking(r)' <=> IsAsking(r)) /\ (Host!MayCross(r)' <=> Host!MayCross(r))
    BY <1>1 DEF IsAsking, Host!MayCross
  <2>. QED  BY <1>1, <1>4, <1>7, <1>10, <1>11, <1>12, <2>1 DEF TransactionsInv
<1>14. RequestsInv' /\ IdsInv' /\ MessagesInv'
  <2>1. IdsInv'
    BY <1>1, IdsStay DEF HostInv
  <2>. QED  BY <1>1, <2>1 DEF HostInv, RequestsInv, MessagesInv
<1>. QED  BY <1>13, <1>14 DEF HostInv

\* What moves a request, and nothing else of it, is nothing to the IDs and the transactions.
LEMMA MovedOn ==
  ASSUME HostInv, NEW r \in DOMAIN made, NEW row, NEW place, Writes(row, made[r], "at", place),
         made' = [made EXCEPT ![r] = row], UNCHANGED <<next_invoke, active_ids, transactions>>,
         IsAsking(r), ~Early(place), place \in {"queued", "sent"}, made[r].at # "sent"
  PROVE  /\ RequestsInv' /\ IdsInv' /\ TransactionsInv' /\ made'[r].at = place
         /\ DOMAIN made' = DOMAIN made /\ \A q \in DOMAIN made : q # r => made'[q] = made[q]
<1>1. IsHosted(made[r]) /\ HasShape(made[r]) /\ "at" \in Fields
  BY DEF HostInv, RequestsInv, IsHosted, Fields
<1>2. HasShape(row) /\ row["at"] = place /\ \A other \in Fields : other # "at" => row[other] = made[r][other]
  BY <1>1, FieldWritten
<1>3. /\ row.at = place /\ row.invoke_id = made[r].invoke_id /\ row.beside = made[r].beside
      /\ row.ended = made[r].ended /\ row.released = made[r].released
  BY <1>2 DEF Fields
<1>4. IsHosted(row)
  BY <1>1, <1>2, <1>3 DEF IsHosted
<1>5. /\ Onwards /\ RequestsInv' /\ made'[r] = row
      /\ \A q \in DOMAIN made : q # r => made'[q] = made[q]
  BY <1>3, <1>4, OneGoesOn DEF HostInv
<1>6. IdsInv'
  BY <1>3, <1>5, IdsStay DEF HostInv, Onwards
<1>7. \A q \in DOMAIN made : made'[q].ended = made[q].ended /\ (IsAsking(q)' <=> IsAsking(q))
  BY <1>3, <1>5 DEF IsAsking
<1>8. TransactionsInv'
  BY <1>5, <1>7, TransactionsStay DEF HostInv
<1>. QED  BY <1>3, <1>5, <1>6, <1>8 DEF Onwards

LEMMA EnqueueStep ==
  ASSUME HostInv, NEW r \in DOMAIN made, NEW priority \in Host!Priorities,
         Host!Enqueue(r, priority)
  PROVE  HostInv'
<1>1. made[r].at = "started" /\ IsAsking(r) /\ IsHosted(made[r]) /\ ~made[r].ended
  BY DEF Host!Enqueue, IsAsking, HostInv, RequestsInv, IsHosted, Early
<1>2. UNCHANGED <<next_invoke, active_ids>>
  BY DEF Host!Enqueue
<1>3. CASE Len(queue[priority]) < MaxQueue
  <2>. DEFINE row == [made[r] EXCEPT !["at"] = "queued"]
  <2>1. /\ made' = [made EXCEPT ![r] = row] /\ UNCHANGED transactions
        /\ queue' = [queue EXCEPT ![priority] = Append(@, r)]
    BY <1>3 DEF Host!Enqueue
  <2>2. Writes(row, made[r], "at", "queued")
    BY Zenon DEF Writes
  <2>. HIDE DEF row
  <2>3. ~Early("queued") /\ "queued" \in {"queued", "sent"} /\ made[r].at # "sent"
    BY <1>1 DEF Early
  <2>4. /\ RequestsInv' /\ IdsInv' /\ TransactionsInv' /\ made'[r].at = "queued"
        /\ DOMAIN made' = DOMAIN made /\ \A q \in DOMAIN made : q # r => made'[q] = made[q]
    BY <1>1, <1>2, <2>1, <2>2, <2>3, MovedOn, Zenon
  <2>. DEFINE n == Len(queue[priority])
  <2>5. /\ IsList(queue[priority]) /\ n \in Nat /\ DOMAIN queue[priority] = 1..n
        /\ queue = [p \in Host!Priorities |-> queue[p]]
    BY ListLength DEF HostInv, MessagesInv
  <2>6. /\ queue' = [p \in Host!Priorities |-> queue'[p]]
        /\ queue'[priority] = Append(queue[priority], r)
        /\ \A p \in Host!Priorities : p # priority => queue'[p] = queue[p]
    BY <2>1, <2>5
  <2>7. /\ IsList(queue'[priority]) /\ DOMAIN queue'[priority] = 1..(n + 1)
        /\ queue'[priority][n + 1] = r
        /\ \A i \in 1..n : queue'[priority][i] = queue[priority][i]
    BY <2>5, <2>6, OneMore
  <2>8. \A i \in 1..(n + 1) : i \in 1..n \/ i = n + 1
    BY <2>5
  <2>. HIDE DEF n
  <2>9. \A p \in Host!Priorities : \A i \in DOMAIN queue[p] :
          queue[p][i] \in DOMAIN made /\ made[queue[p][i]].at = "queued" /\ queue[p][i] # r
    BY <1>1 DEF HostInv, MessagesInv
  <2>10. \A p \in Host!Priorities : \A i \in DOMAIN queue'[p] :
           \/ i \in DOMAIN queue[p] /\ queue'[p][i] = queue[p][i]
           \/ p = priority /\ i = n + 1 /\ queue'[p][i] = r
    BY <2>5, <2>6, <2>7, <2>8
  <2>11. MessagesInv'
    <3>1. \A p \in Host!Priorities : IsList(queue'[p])
      BY <2>6, <2>7 DEF HostInv, MessagesInv
    <3>2. \A p \in Host!Priorities : \A i \in DOMAIN queue'[p] :
            queue'[p][i] \in DOMAIN made' /\ made'[queue'[p][i]].at = "queued"
      BY <2>4, <2>9, <2>10
    <3>3. \A p, o \in Host!Priorities : \A i \in DOMAIN queue'[p], j \in DOMAIN queue'[o] :
            queue'[p][i] = queue'[o][j] => p = o /\ i = j
      BY <2>9, <2>10 DEF HostInv, MessagesInv
    <3>. QED  BY <2>6, <3>1, <3>2, <3>3 DEF MessagesInv, Host!Priorities
  <2>. QED  BY <2>4, <2>11 DEF HostInv
<1>4. CASE ~(Len(queue[priority]) < MaxQueue)
  <2>. DEFINE row == [made[r] EXCEPT !["at"] = "unsent", !["ended"] = TRUE]
  <2>1. /\ made' = [made EXCEPT ![r] = row] /\ UNCHANGED queue
        /\ transactions' = Host!Completed(made[r].invoke_id)
    BY <1>4 DEF Host!Enqueue
  <2>2. Ends(row, made[r], "at", "unsent")
    BY Zenon DEF Ends, WritesBoth
  <2>. HIDE DEF row
  <2>3. ~Early("unsent")
    BY DEF Early
  <2>4. HasEnded(row, made[r], "unsent")
    BY <1>1, <2>2, <2>3, RequestEnds, Zenon
  <2>5. /\ made[r].at # "queued" /\ (made[r].ended => made[r].at = "sent")
        /\ "unsent" = IF made[r].at = "started" THEN "unsent" ELSE made[r].at
    BY <1>1
  <2>. QED  BY <1>1, <1>2, <2>1, <2>4, <2>5, EndStep
<1>. QED  BY <1>3, <1>4

LEMMA AnswerArrives ==
  ASSUME HostInv, NEW r \in DOMAIN made, Host!Answer(r) \/ Host!GiveUp(r)
  PROVE  HostInv'
<1>1. /\ IsHosted(made[r]) /\ IsAsking(r) /\ made[r].at # "queued"
      /\ made[r].ended => made[r].at = "sent"
      /\ made[r].at = IF made[r].at = "started" THEN "unsent" ELSE made[r].at
      /\ UNCHANGED <<next_invoke, active_ids, queue>>
      /\ transactions' = Host!Completed(made[r].invoke_id)
  BY DEF HostInv, RequestsInv, Host!Answer, Host!GiveUp, IsAsking
<1>2. CASE Host!Answer(r)
  <2>. DEFINE row == [made[r] EXCEPT !["answered"] = TRUE, !["ended"] = TRUE]
  <2>1. made' = [made EXCEPT ![r] = row] /\ made[r].at = "sent"
    BY <1>2 DEF Host!Answer
  <2>2. Ends(row, made[r], "answered", TRUE)
    BY Zenon DEF Ends, WritesBoth
  <2>. HIDE DEF row
  <2>3. HasEnded(row, made[r], "sent")
    BY <1>1, <2>1, <2>2, RequestAnswered, Zenon
  <2>4. HasEnded(row, made[r], made[r].at)
    BY <2>1, <2>3
  <2>. QED  BY <1>1, <2>1, <2>4, EndStep
<1>3. CASE Host!GiveUp(r)
  <2>. DEFINE row == [made[r] EXCEPT !.ended = TRUE]
  <2>1. made' = [made EXCEPT ![r] = row] /\ made[r].at \in {"sent", "unsent"}
    BY <1>3 DEF Host!GiveUp
  <2>2. HasEnded(row, made[r], made[r].at)
    BY <1>1, <2>1 DEF HasEnded, IsHosted, HasShape, Fields, Early
  <2>. HIDE DEF row
  <2>. QED  BY <1>1, <2>1, <2>2, EndStep
<1>. QED  BY <1>2, <1>3

\* The last of a queue goes out.
LEMMA DequeueStep ==
  ASSUME HostInv, NEW priority \in Host!Priorities, Host!Dequeue(priority)
  PROVE  HostInv'
<1>. DEFINE q == queue[priority]
            n == Len(q)
            r == q[n]
            row == [made[r] EXCEPT !["at"] = "sent"]
<1>1. /\ IsList(q) /\ q \in Seq({q[i] : i \in DOMAIN q}) /\ n \in Nat /\ DOMAIN q = 1..n
      /\ queue = [p \in Host!Priorities |-> queue[p]]
  BY ListLength DEF HostInv, MessagesInv, IsList
<1>2. q # <<>> /\ n \in 1..n
  <2>1. q # <<>>
    BY DEF Host!Dequeue
  <2>. QED  BY <1>1, <2>1, EmptySeq
<1>3. r \in DOMAIN made /\ made[r].at = "queued" /\ IsAsking(r)
  BY <1>1, <1>2 DEF HostInv, MessagesInv, IsAsking
<1>4. /\ queue' = [queue EXCEPT ![priority] = Host!Front(q)] /\ made' = [made EXCEPT ![r] = row]
      /\ UNCHANGED <<next_invoke, active_ids, transactions>>
  BY DEF Host!Dequeue, Host!Last
<1>5. Writes(row, made[r], "at", "sent")
  BY Zenon DEF Writes
<1>. HIDE DEF row
<1>6. ~Early("sent") /\ "sent" \in {"queued", "sent"} /\ made[r].at # "sent"
  BY <1>3 DEF Early
<1>7. /\ RequestsInv' /\ IdsInv' /\ TransactionsInv' /\ DOMAIN made' = DOMAIN made
      /\ \A other \in DOMAIN made : other # r => made'[other] = made[other]
  BY <1>3, <1>4, <1>5, <1>6, MovedOn, Zenon
<1>8. Host!Front(q) = [i \in 1..(n - 1) |-> q[i]] /\ n - 1 \in Nat
  BY <1>1, <1>2 DEF Host!Front
<1>9. /\ queue' = [p \in Host!Priorities |-> queue'[p]] /\ queue'[priority] = Host!Front(q)
      /\ \A p \in Host!Priorities : p # priority => queue'[p] = queue[p]
  BY <1>1, <1>4
<1>10. /\ IsList(Host!Front(q)) /\ DOMAIN Host!Front(q) = 1..(n - 1)
       /\ \A i \in 1..(n - 1) : i \in DOMAIN q /\ i # n /\ Host!Front(q)[i] = q[i]
  BY <1>1, <1>2, <1>8, ListsHaveLengths
<1>11. \A p \in Host!Priorities : \A i \in DOMAIN queue'[p] :
         /\ i \in DOMAIN queue[p] /\ queue'[p][i] = queue[p][i]
         /\ p = priority => i # n
  BY <1>9, <1>10
<1>12. ASSUME NEW p \in Host!Priorities, NEW i \in DOMAIN queue'[p]
       PROVE  queue'[p][i] \in DOMAIN made' /\ made'[queue'[p][i]].at = "queued"
  <2>1. i \in DOMAIN queue[p] /\ queue'[p][i] = queue[p][i] /\ (p = priority => i # n)
    BY <1>11
  <2>2. queue[p][i] # r
    BY <1>1, <1>2, <2>1 DEF HostInv, MessagesInv
  <2>3. queue[p][i] \in DOMAIN made /\ made[queue[p][i]].at = "queued"
    BY <2>1 DEF HostInv, MessagesInv
  <2>. QED  BY <1>7, <2>1, <2>2, <2>3
<1>13. MessagesInv'
  <2>1. \A p \in Host!Priorities : IsList(queue'[p])
    BY <1>9, <1>10 DEF HostInv, MessagesInv
  <2>2. \A p, o \in Host!Priorities : \A i \in DOMAIN queue'[p], j \in DOMAIN queue'[o] :
          queue'[p][i] = queue'[o][j] => p = o /\ i = j
    BY <1>11 DEF HostInv, MessagesInv
  <2>. QED  BY <1>9, <1>12, <2>1, <2>2 DEF MessagesInv, Host!Priorities
<1>. QED  BY <1>7, <1>13 DEF HostInv

\* Nothing is queued any more, and what was is never sent.
LEMMA ClearStep ==
  ASSUME HostInv, Host!Clear
  PROVE  HostInv'
<1>1. /\ UNCHANGED <<next_invoke, active_ids, transactions>> /\ queue' = [p \in Host!Priorities |-> <<>>]
      /\ made' = [r \in DOMAIN made |-> IF made[r].at = "queued" THEN [made[r] EXCEPT !.at = "unsent"]
                                                                 ELSE made[r]]
  BY DEF Host!Clear, Host!NoMessages
<1>2. Len(made) \in Nat /\ DOMAIN made = 1..Len(made)
  BY ListLength DEF HostInv, RequestsInv
<1>3. DOMAIN made' = DOMAIN made /\ IsList(made')
  <2>1. DOMAIN made' = DOMAIN made /\ made' = [r \in 1..Len(made) |-> made'[r]]
    BY <1>1, <1>2
  <2>. QED  BY <1>2, <2>1, ListsHaveLengths
<1>4. ASSUME NEW r \in DOMAIN made
      PROVE  /\ IsHosted(made'[r]) /\ made'[r].invoke_id = made[r].invoke_id
             /\ made'[r].beside = made[r].beside /\ made'[r].released = made[r].released
             /\ made'[r].ended = made[r].ended
             /\ made'[r].at = IF made[r].at = "queued" THEN "unsent" ELSE made[r].at
  <2>1. IsHosted(made[r])
    BY DEF HostInv, RequestsInv
  <2>2. CASE made[r].at = "queued"
    <3>1. made'[r] = [made[r] EXCEPT !.at = "unsent"]
      BY <1>1, <2>2
    <3>. QED  BY <2>1, <2>2, <3>1 DEF IsHosted, HasShape, Fields, Early
  <2>3. CASE made[r].at # "queued"
    <3>1. made'[r] = made[r]
      BY <1>1, <2>3
    <3>. QED  BY <2>1, <2>3, <3>1
  <2>. QED  BY <2>2, <2>3
<1>5. Onwards /\ RequestsInv'
  BY <1>3, <1>4 DEF Onwards, RequestsInv
<1>6. IdsInv'
  BY <1>1, <1>3, <1>4, IdsStay DEF HostInv
<1>7. \A q \in DOMAIN made : made'[q].ended = made[q].ended /\ (IsAsking(q)' <=> IsAsking(q))
  BY <1>4 DEF IsAsking
<1>8. TransactionsInv'
  BY <1>1, <1>5, <1>7, TransactionsStay DEF HostInv
<1>9. MessagesInv'
  BY <1>1, ShortLists DEF MessagesInv, Host!Priorities
<1>. QED  BY <1>5, <1>6, <1>8, <1>9 DEF HostInv

\* Whatever a host asks for, is refused, cleans up and is answered late and again: a request
\* that ended has its transaction complete, but behind a complete one with its ID that was not
\* cleaned up; one that has not keeps its transaction open, but for a late answer to an earlier
\* request with its ID; and an ID comes round only after it was released and every other was in
\* use.
THEOREM AnsweredAndReleased ==
  ASSUME Host!HostAssumption
  PROVE  Host!Spec => []Host!AnsweredIsComplete
<1>1. Host!Init => HostInv
  <2>. SUFFICES ASSUME Host!Init
                PROVE  HostInv
    OBVIOUS
  <2>1. /\ next_invoke = 0 /\ active_ids = {} /\ transactions = <<>> /\ made = <<>>
        /\ queue = [p \in Host!Priorities |-> <<>>]
    BY DEF Host!Init, Host!NoMessages
  <2>2. RequestsInv /\ TransactionsInv
    BY <2>1, ShortLists DEF RequestsInv, TransactionsInv
  <2>3. IdsInv
    BY <2>1 DEF IdsInv, Host!IdsComeRound, InvokeIds, Host!HostAssumption
  <2>4. MessagesInv
    BY <2>1, ShortLists DEF MessagesInv, Host!Priorities
  <2>. QED  BY <2>2, <2>3, <2>4 DEF HostInv
<1>2. HostInv /\ [Host!TablesNext \/ Host!HandlerNext]_Host!host => HostInv'
  <2>. SUFFICES ASSUME HostInv, [Host!TablesNext \/ Host!HandlerNext]_Host!host
                PROVE  HostInv'
    OBVIOUS
  <2>1. CASE Host!TablesNext
    <3>1. CASE Host!TakeId
      BY <3>1, TakeIdKeeps DEF Host!HostAssumption
    <3>2. CASE Host!Cleanup
      BY <3>2, CleanupStep
    <3>3. CASE Host!Clear
      BY <3>3, ClearStep
    <3>4. ASSUME NEW r \in DOMAIN made,
                 Host!Start(r) \/ Host!Answer(r) \/ Host!GiveUp(r) \/ Host!Release(r)
          PROVE  HostInv'
      BY <3>4, StartStep, AnswerArrives, ReleaseStep
    <3>5. ASSUME NEW r \in DOMAIN made, NEW priority \in Host!Priorities, Host!Enqueue(r, priority)
          PROVE  HostInv'
      BY <3>5, EnqueueStep
    <3>6. ASSUME NEW priority \in Host!Priorities, Host!Dequeue(priority)
          PROVE  HostInv'
      BY <3>6, DequeueStep
    <3>. QED  BY <2>1, <3>1, <3>2, <3>3, <3>4, <3>5, <3>6 DEF Host!TablesNext
  <2>2. CASE UNCHANGED Host!tables
    <3>1. UNCHANGED <<next_invoke, active_ids, transactions, queue, made>>
      BY <2>2 DEF Host!tables
    <3>2. RequestsInv' /\ MessagesInv'
      BY <3>1 DEF HostInv, RequestsInv, MessagesInv
    <3>3. IdsInv'
      BY <3>1, IdsStay DEF HostInv
    <3>4. Onwards /\ \A q \in DOMAIN made : made'[q].ended = made[q].ended /\ (IsAsking(q)' <=> IsAsking(q))
      BY <3>1 DEF Onwards, HostInv, RequestsInv, IsAsking
    <3>5. TransactionsInv'
      BY <3>1, <3>4, TransactionsStay DEF HostInv
    <3>. QED  BY <3>2, <3>3, <3>5 DEF HostInv
  <2>. QED  BY <2>1, <2>2 DEF Host!HandlerNext, Host!host
<1>3. HostInv => Host!AnsweredIsComplete
  <2>. SUFFICES ASSUME HostInv
                PROVE  Host!AnsweredIsComplete
    OBVIOUS
  <2>1. \A i \in DOMAIN transactions : LET t == transactions[i] IN
          IF made[t.of].ended THEN ~Host!Awaiting(t) \/ t.behind
                              ELSE Host!Awaiting(t) \/ Host!MayCross(t.of)
    BY DEF HostInv, TransactionsInv, Agrees
  <2>2. \A r \in DOMAIN made :
          made[r].at \in {"started", "queued", "unsent", "sent"} /\ ~made[r].ended =>
            (\E i \in DOMAIN transactions : transactions[i].of = r) \/ Host!MayCross(r)
    BY DEF HostInv, TransactionsInv, IsAsking, HasTransaction
  <2>3. \A i, j \in DOMAIN transactions :
          transactions[i].invoke_id = transactions[j].invoke_id /\ i < j =>
            ~Host!Awaiting(transactions[i])
    BY DEF HostInv, TransactionsInv
  <2>. QED  BY <2>1, <2>2, <2>3 DEF Host!AnsweredIsComplete, HostInv, IdsInv
<1>. QED  BY <1>1, <1>2, <1>3, PTL DEF Host!Spec

-----------------------------------------------------------------------------
(* Messages in segments *)

\* What holds of zero, and of every number that follows one of which it holds, holds of all.
LEMMA AllNumbers ==
  ASSUME NEW S, 0 \in S, \A n \in Nat : n \in S => n + 1 \in S
  PROVE  Nat \subseteq S
<1>. DEFINE Below == OpToRel(<, Nat)
            others == Nat \ S
<1>1. SUFFICES ASSUME others # {} PROVE FALSE
  OBVIOUS
<1>2. PICK x \in others : \A y \in others : ~(<<y, x>> \in Below)
  <2>1. IsWellFoundedOn(Below, Nat) BY NatLessThanWellFounded
  <2>. HIDE DEF Below
  <2>. QED  BY <1>1, <2>1, WFMin
<1>3. x # 0 /\ x - 1 \in Nat /\ x - 1 + 1 = x
  OBVIOUS
<1>4. x - 1 \notin others
  <2>1. <<x - 1, x>> \in Below
    BY <1>3 DEF OpToRel
  <2>. QED  BY <1>2, <2>1
<1>. QED  BY <1>3, <1>4

\* One list after another is a list, up to each number; and no two are.
JoinedTo(pieces, m, f) ==
  f = [n \in 0..m |-> IF n = 0 THEN <<>> ELSE f[n - 1] \o pieces[n - 1]]

LEMMA JoinedToEach ==
  ASSUME NEW pieces, NEW m \in Nat
  PROVE  \E f : JoinedTo(pieces, m, f)
<1>. DEFINE S == {k \in Nat : \E f : JoinedTo(pieces, k, f)}
<1>1. 0 \in S
  <2>. DEFINE f == [n \in 0..0 |-> <<>>]
  <2>1. JoinedTo(pieces, 0, f)
    BY DEF JoinedTo
  <2>. QED  BY <2>1
<1>2. ASSUME NEW k \in Nat, k \in S PROVE k + 1 \in S
  <2>1. PICK f : JoinedTo(pieces, k, f)
    BY <1>2
  <2>. DEFINE g == [n \in 0..(k + 1) |-> IF n = k + 1 THEN f[k] \o pieces[k] ELSE f[n]]
  <2>2. ASSUME NEW n \in 0..(k + 1)
        PROVE  g[n] = IF n = 0 THEN <<>> ELSE g[n - 1] \o pieces[n - 1]
    <3>1. CASE n = k + 1
      <4>1. g[n] = f[k] \o pieces[k] /\ g[n - 1] = f[k] /\ n - 1 = k /\ n # 0
        BY <3>1
      <4>. QED  BY <4>1
    <3>2. CASE n # k + 1
      <4>1. n \in 0..k /\ g[n] = f[n] /\ (n # 0 => g[n - 1] = f[n - 1])
        BY <3>2
      <4>2. f[n] = IF n = 0 THEN <<>> ELSE f[n - 1] \o pieces[n - 1]
        BY <2>1, <4>1 DEF JoinedTo
      <4>. QED  BY <4>1, <4>2
    <3>. QED  BY <3>1, <3>2
  <2>3. g = [n \in 0..(k + 1) |-> g[n]]
    OBVIOUS
  <2>. HIDE DEF g
  <2>4. JoinedTo(pieces, k + 1, g)
    BY <2>2, <2>3 DEF JoinedTo
  <2>. QED  BY <2>4
<1>. HIDE DEF S
<1>3. m \in S
  BY <1>1, <1>2, AllNumbers
<1>. QED  BY <1>3 DEF S

LEMMA JoinedToAgree ==
  ASSUME NEW pieces, NEW m \in Nat, NEW f, NEW g, NEW k \in Nat, NEW n \in Nat,
         n <= m, n <= k, JoinedTo(pieces, m, f), JoinedTo(pieces, k, g)
  PROVE  f[n] = g[n]
<1>. DEFINE S == {i \in Nat : i <= m /\ i <= k => f[i] = g[i]}
<1>1. 0 \in S
  BY DEF JoinedTo
<1>2. ASSUME NEW i \in Nat, i \in S PROVE i + 1 \in S
  <2>1. SUFFICES ASSUME i + 1 <= m, i + 1 <= k PROVE f[i + 1] = g[i + 1]
    OBVIOUS
  <2>2. f[i] = g[i] /\ i + 1 \in 0..m /\ i + 1 \in 0..k /\ i + 1 # 0 /\ i + 1 - 1 = i
    BY <1>2, <2>1
  <2>3. f[i + 1] = f[i] \o pieces[i] /\ g[i + 1] = g[i] \o pieces[i]
    BY <2>2 DEF JoinedTo
  <2>. QED  BY <2>2, <2>3
<1>. HIDE DEF S
<1>3. n \in S
  BY <1>1, <1>2, AllNumbers
<1>. QED  BY <1>3 DEF S

\* The lists of all numbers of pieces, as they are defined.
LEMMA JoinedExists ==
  ASSUME NEW pieces
  PROVE  \E f : f = [n \in Nat |-> IF n = 0 THEN <<>> ELSE f[n - 1] \o pieces[n - 1]]
<1>. DEFINE to(m) == CHOOSE f : JoinedTo(pieces, m, f)
            joinedAll == [n \in Nat |-> to(n)[n]]
<1>1. \A m \in Nat : JoinedTo(pieces, m, to(m))
  BY JoinedToEach
<1>. HIDE DEF to
<1>2. ASSUME NEW n \in Nat
      PROVE  joinedAll[n] = IF n = 0 THEN <<>> ELSE joinedAll[n - 1] \o pieces[n - 1]
  <2>1. JoinedTo(pieces, n, to(n))
    BY <1>1
  <2>2. to(n)[n] = IF n = 0 THEN <<>> ELSE to(n)[n - 1] \o pieces[n - 1]
    <3>. HIDE DEF joinedAll
    <3>. QED  BY <2>1 DEF JoinedTo
  <2>3. n # 0 => to(n)[n - 1] = to(n - 1)[n - 1]
    <3>1. SUFFICES ASSUME n # 0 PROVE to(n)[n - 1] = to(n - 1)[n - 1]
      OBVIOUS
    <3>2. n - 1 \in Nat /\ n - 1 <= n /\ n - 1 <= n - 1
      BY <3>1
    <3>3. JoinedTo(pieces, n - 1, to(n - 1))
      BY <1>1, <3>2
    <3>. QED  BY <2>1, <3>2, <3>3, JoinedToAgree
  <2>. QED  BY <2>2, <2>3
<1>3. joinedAll = [n \in Nat |-> joinedAll[n]]
  OBVIOUS
<1>. HIDE DEF joinedAll
<1>4. joinedAll = [n \in Nat |-> IF n = 0 THEN <<>> ELSE joinedAll[n - 1] \o pieces[n - 1]]
  BY <1>2, <1>3
<1>. QED  BY <1>4

CONSTANTS Messages, MaxSegmentSize, MaxSegments, MaxConcurrentReassemblies, MaxApduLength
VARIABLES buffers, begun, delivered

Segments == INSTANCE Reassembly

\* What segments in a buffer make up, one more at a time.
LEMMA InOrderIs ==
  ASSUME NEW buffer
  PROVE  \E f : /\ Segments!InOrder(buffer) = f[buffer.total]
                /\ f = [n \in Nat |-> IF n = 0 THEN <<>> ELSE f[n - 1] \o buffer.segments[n - 1]]
<1>. DEFINE f == CHOOSE joined : joined = [n \in Nat |->
                   IF n = 0 THEN <<>> ELSE joined[n - 1] \o buffer.segments[n - 1]]
<1>1. \E joined : joined = [n \in Nat |->
         IF n = 0 THEN <<>> ELSE joined[n - 1] \o buffer.segments[n - 1]]
  BY JoinedExists
<1>2. f = [n \in Nat |-> IF n = 0 THEN <<>> ELSE f[n - 1] \o buffer.segments[n - 1]]
  BY <1>1
<1>3. Segments!InOrder(buffer) = f[buffer.total]
  BY DEF Segments!InOrder
<1>. HIDE DEF f
<1>. QED  BY <1>2, <1>3

-----------------------------------------------------------------------------
(* How a message is cut *)

LEMMA Division ==
  ASSUME NEW a \in Nat, NEW b \in Nat, b > 0
  PROVE  /\ a \div b \in Nat
         /\ b * (a \div b) <= a /\ a < b * (a \div b) + b
  OBVIOUS

LEMMA CeilDivIs ==
  ASSUME NEW a \in Nat, NEW b \in Nat, b > 0
  PROVE  /\ Segments!CeilDiv(a, b) \in Nat
         /\ a <= Segments!CeilDiv(a, b) * b /\ a + b > Segments!CeilDiv(a, b) * b
<1>1. a + b - 1 \in Nat
  OBVIOUS
<1>. DEFINE k == (a + b - 1) \div b
<1>2. k \in Nat /\ b * k <= a + b - 1 /\ a + b - 1 < b * k + b
  BY <1>1, Division
<1>3. b * k = k * b /\ k * b \in Nat
  BY <1>2
<1>4. Segments!CeilDiv(a, b) = k
  BY DEF Segments!CeilDiv
<1>. HIDE DEF k
<1>. QED  BY <1>2, <1>3, <1>4

\* Two parts of a sequence that are next to each other.
LEMMA NextToEachOther ==
  ASSUME NEW S, NEW q \in Seq(S), NEW a \in Nat, NEW b \in Nat, a <= b, b <= Len(q)
  PROVE  SubSeq(q, 1, a) \o SubSeq(q, a + 1, b) = SubSeq(q, 1, b)
<1>1. SubSeq(q, 1, a) \in Seq(S) /\ Len(SubSeq(q, 1, a)) = a
      /\ \A i \in 1..a : SubSeq(q, 1, a)[i] = q[i]
  OBVIOUS
<1>2. SubSeq(q, a + 1, b) \in Seq(S) /\ Len(SubSeq(q, a + 1, b)) = b - a
      /\ \A i \in 1..(b - a) : SubSeq(q, a + 1, b)[i] = q[a + i]
  OBVIOUS
<1>3. SubSeq(q, 1, b) \in Seq(S) /\ Len(SubSeq(q, 1, b)) = b
      /\ \A i \in 1..b : SubSeq(q, 1, b)[i] = q[i]
  OBVIOUS
<1>. DEFINE one == SubSeq(q, 1, a) two == SubSeq(q, a + 1, b) both == SubSeq(q, 1, b)
<1>. HIDE DEF one, two, both
<1>4. one \o two \in Seq(S) /\ Len(one \o two) = b
  BY <1>1, <1>2 DEF one, two
<1>5. ASSUME NEW i \in 1..b PROVE (one \o two)[i] = both[i]
  <2>1. CASE i <= a
    <3>1. (one \o two)[i] = one[i]
      BY <1>1, <1>2, <2>1 DEF one, two
    <3>. QED  BY <1>1, <1>3, <2>1, <3>1 DEF one, both
  <2>2. CASE i > a
    <3>0. one \in Seq(S) /\ two \in Seq(S) /\ Len(one) = a /\ Len(two) = b - a
      BY <1>1, <1>2 DEF one, two
    <3>1. (one \o two)[i] = two[i - a]
      BY <2>2, <3>0, ConcatProperties
    <3>2. i - a \in 1..(b - a) /\ a + (i - a) = i
      BY <2>2
    <3>. QED  BY <1>2, <1>3, <3>1, <3>2 DEF two, both
  <2>3. i <= a \/ i > a
    OBVIOUS
  <2>. QED  BY <2>1, <2>2, <2>3, Zenon
<1>6. both \in Seq(S) /\ Len(both) = b
  BY <1>3 DEF both
<1>7. one \o two = both
  BY <1>4, <1>5, <1>6, SeqEqual
<1>. QED  BY <1>7 DEF one, two, both

Chunks(message) == Segments!SegmentMessage(Segments!Data(message))
UpTo(message, n) ==
  IF n * MaxSegmentSize < message.length THEN n * MaxSegmentSize ELSE message.length

LEMMA DataIs ==
  ASSUME NEW message, message.length \in Nat
  PROVE  \E S : /\ Segments!Data(message) \in Seq(S)
                /\ Len(Segments!Data(message)) = message.length
                /\ Segments!Data(message) = <<>> <=> message.length = 0
<1>. DEFINE S == {[of |-> message, at |-> i] : i \in 1..message.length}
            data == [i \in 1..message.length |-> [of |-> message, at |-> i]]
<1>1. data \in [1..message.length -> S]
  OBVIOUS
<1>2. Segments!Data(message) = data
  BY DEF Segments!Data
<1>. HIDE DEF data, S
<1>3. data \in Seq(S) /\ Len(data) = message.length
  BY <1>1
<1>4. data = <<>> <=> message.length = 0
  BY <1>3, EmptySeq
<1>. QED  BY <1>2, <1>3, <1>4

\* The segments of a message are its octets, as many at a time as fit into one.
LEMMA ChunksAre ==
  ASSUME MaxSegmentSize \in Nat \ {0}, NEW message, message.length \in Nat
  PROVE  /\ Len(Chunks(message)) \in Nat \ {0}
         /\ DOMAIN Chunks(message) = 1..Len(Chunks(message))
         /\ UpTo(message, Len(Chunks(message))) = message.length
         /\ \A n \in 1..Len(Chunks(message)) :
              /\ Chunks(message)[n] = SubSeq(Segments!Data(message),
                                             (n - 1) * MaxSegmentSize + 1, UpTo(message, n))
              /\ (n - 1) * MaxSegmentSize = UpTo(message, n - 1)
              /\ UpTo(message, n - 1) \in Nat /\ UpTo(message, n) \in Nat
              /\ UpTo(message, n - 1) <= UpTo(message, n) /\ UpTo(message, n) <= message.length
<1>. DEFINE data == Segments!Data(message)
            k == Segments!CeilDiv(message.length, MaxSegmentSize)
            chunk(n) == SubSeq(data, (n - 1) * MaxSegmentSize + 1, UpTo(message, n))
<1>1. PICK S : data \in Seq(S) /\ Len(data) = message.length /\ (data = <<>> <=> message.length = 0)
  BY DataIs
<1>. HIDE DEF data
<1>2. CASE message.length = 0
  <2>1. Chunks(message) = << <<>> >>
    BY <1>1, <1>2 DEF Chunks, Segments!SegmentMessage, data
  <2>2. Len(Chunks(message)) = 1 /\ DOMAIN Chunks(message) = 1..1 /\ Chunks(message)[1] = <<>>
    BY <2>1
  <2>3. UpTo(message, 0) = 0 /\ UpTo(message, 1) = 0 /\ (1 - 1) * MaxSegmentSize = 0
    BY <1>2 DEF UpTo
  <2>4. chunk(1) = <<>>
    BY <1>1, <2>3, SubSeqEmpty
  <2>5. Chunks(message)[1] = chunk(1)
    BY <2>2, <2>4
  <2>6. \A n \in 1..1 : n = 1 /\ n - 1 = 0
    OBVIOUS
  <2>7. /\ UpTo(message, 1 - 1) = 0
        /\ \A n \in 1..1 : UpTo(message, n - 1) = 0 /\ UpTo(message, n) = 0
                         /\ (n - 1) * MaxSegmentSize = 0
    BY <2>3, <2>6
  <2>8. \A n \in 1..1 : Chunks(message)[n] = chunk(n)
    <3>. HIDE DEF chunk
    <3>. QED  BY <2>5, <2>6
  <2>. QED  BY <1>2, <2>2, <2>3, <2>7, <2>8 DEF data
<1>3. CASE message.length # 0
  <2>1. k \in Nat /\ message.length <= k * MaxSegmentSize
        /\ message.length + MaxSegmentSize > k * MaxSegmentSize
    BY CeilDivIs
  <2>. HIDE DEF k
  <2>2. k # 0
    BY <1>3, <2>1
  <2>3. \A n \in Nat : n * MaxSegmentSize < Len(data)
                       <=> n * MaxSegmentSize < message.length
    BY <1>1
  <2>4. Chunks(message) = [n \in 1..k |-> chunk(n)]
    BY <1>1, <1>3 DEF Chunks, Segments!SegmentMessage, data, k, UpTo
  <2>5. Len(Chunks(message)) = k /\ DOMAIN Chunks(message) = 1..k
        /\ \A n \in 1..k : Chunks(message)[n] = chunk(n)
    <3>. HIDE DEF chunk
    <3>. QED  BY <2>1, <2>4
  <2>6. UpTo(message, k) = message.length
    BY <2>1 DEF UpTo
  <2>7. ASSUME NEW n \in 1..k
        PROVE  /\ (n - 1) * MaxSegmentSize = UpTo(message, n - 1)
               /\ UpTo(message, n - 1) \in Nat /\ UpTo(message, n) \in Nat
               /\ UpTo(message, n - 1) <= UpTo(message, n) /\ UpTo(message, n) <= message.length
    <3>1. n \in Nat /\ n - 1 \in Nat /\ n * MaxSegmentSize \in Nat /\ (n - 1) * MaxSegmentSize \in Nat
          /\ (n - 1) * MaxSegmentSize <= n * MaxSegmentSize
      BY <2>1
    <3>2. n * MaxSegmentSize <= k * MaxSegmentSize
      BY <2>1
    <3>3. (n - 1) * MaxSegmentSize = n * MaxSegmentSize - MaxSegmentSize
      BY <2>1
    <3>4. (n - 1) * MaxSegmentSize < message.length
      BY <2>1, <3>1, <3>2, <3>3
    <3>. QED  BY <3>1, <3>4 DEF UpTo
  <2>. QED  BY <2>1, <2>2, <2>5, <2>6, <2>7 DEF data
<1>. QED  BY <1>2, <1>3

-----------------------------------------------------------------------------
(* What is put together *)

\* A buffer with segments of a message, and no others.
Buffered(message, buffer) ==
  /\ buffer.total \in {None, Len(Chunks(message))}
  /\ DOMAIN buffer.segments \subseteq 0..(Len(Chunks(message)) - 1)
  /\ \A n \in DOMAIN buffer.segments : buffer.segments[n] = Chunks(message)[n + 1]

LEMMA PutTogether ==
  ASSUME MaxSegmentSize \in Nat \ {0}, NEW message, message.length \in Nat,
         NEW buffer, Buffered(message, buffer), Segments!IsComplete(buffer)
  PROVE  Segments!InOrder(buffer) = Segments!Data(message)
<1>. DEFINE data == Segments!Data(message)
            k == Len(Chunks(message))
            upTo(n) == SubSeq(data, 1, UpTo(message, n))
<1>1. PICK D : data \in Seq(D) /\ Len(data) = message.length
  BY DataIs
<1>2. PICK f : /\ Segments!InOrder(buffer) = f[buffer.total]
               /\ f = [n \in Nat |-> IF n = 0 THEN <<>> ELSE f[n - 1] \o buffer.segments[n - 1]]
  BY InOrderIs
<1>3. k \in Nat \ {0} /\ UpTo(message, k) = message.length
  BY ChunksAre
<1>4. buffer.total = k /\ DOMAIN buffer.segments = 0..(k - 1)
      /\ \A n \in 0..(k - 1) : buffer.segments[n] = Chunks(message)[n + 1]
  BY DEF Buffered, Segments!IsComplete
<1>10. ASSUME NEW n \in Nat, n + 1 <= k
       PROVE  /\ Chunks(message)[n + 1]
                   = SubSeq(data, n * MaxSegmentSize + 1, UpTo(message, n + 1))
              /\ n * MaxSegmentSize = UpTo(message, n)
              /\ UpTo(message, n) \in Nat /\ UpTo(message, n + 1) \in Nat
              /\ UpTo(message, n) <= UpTo(message, n + 1)
              /\ UpTo(message, n + 1) <= message.length
  <2>. DEFINE m == n + 1
  <2>1. m \in 1..k /\ m - 1 = n
    BY <1>3, <1>10
  <2>. HIDE DEF m
  <2>2. /\ Chunks(message)[m] = SubSeq(data, (m - 1) * MaxSegmentSize + 1, UpTo(message, m))
        /\ (m - 1) * MaxSegmentSize = UpTo(message, m - 1)
        /\ UpTo(message, m - 1) \in Nat /\ UpTo(message, m) \in Nat
        /\ UpTo(message, m - 1) <= UpTo(message, m) /\ UpTo(message, m) <= message.length
    BY <2>1, ChunksAre
  <2>3. /\ Chunks(message)[m] = SubSeq(data, n * MaxSegmentSize + 1, UpTo(message, m))
        /\ n * MaxSegmentSize = UpTo(message, n)
        /\ UpTo(message, n) \in Nat /\ UpTo(message, m) \in Nat
        /\ UpTo(message, n) <= UpTo(message, m) /\ UpTo(message, m) <= message.length
    <3>. HIDE DEF data
    <3>. QED  BY <2>1, <2>2, Zenon
  <2>. QED  BY <2>3 DEF m
<1>11. f[0] = <<>>
  BY <1>2
<1>12. ASSUME NEW n \in Nat PROVE f[n + 1] = f[n] \o buffer.segments[n]
  <2>. DEFINE m == n + 1
  <2>1. m \in Nat /\ m # 0 /\ m - 1 = n
    OBVIOUS
  <2>. HIDE DEF m
  <2>2. \A i \in Nat : f[i] = IF i = 0 THEN <<>> ELSE f[i - 1] \o buffer.segments[i - 1]
    BY <1>2
  <2>3. f[m] = f[n] \o buffer.segments[n]
    BY <2>1, <2>2
  <2>. QED  BY <2>3 DEF m
<1>. HIDE DEF data
<1>. DEFINE S == {n \in Nat : n <= k => f[n] = upTo(n)}
<1>5. 0 \in S
  <2>1. UpTo(message, 0) = 0
    BY DEF UpTo
  <2>2. upTo(0) = <<>>
    BY <1>1, <2>1, SubSeqEmpty
  <2>3. f[0] = <<>>
    BY <1>11
  <2>. QED  BY <2>2, <2>3
<1>6. ASSUME NEW n \in Nat, n \in S PROVE n + 1 \in S
  <2>1. SUFFICES ASSUME n + 1 <= k PROVE f[n + 1] = upTo(n + 1)
    OBVIOUS
  <2>2. n + 1 \in 1..k /\ n + 1 - 1 = n /\ n \in 0..(k - 1) /\ n + 1 # 0 /\ n <= k
    BY <1>3, <2>1
  <2>. DEFINE chunk == SubSeq(data, n * MaxSegmentSize + 1, UpTo(message, n + 1))
  <2>3. /\ Chunks(message)[n + 1] = chunk
        /\ n * MaxSegmentSize = UpTo(message, n)
        /\ UpTo(message, n) \in Nat /\ UpTo(message, n + 1) \in Nat
        /\ UpTo(message, n) <= UpTo(message, n + 1) /\ UpTo(message, n + 1) <= message.length
    BY <1>10, <2>1
  <2>4. f[n + 1] = f[n] \o buffer.segments[n]
    BY <1>12
  <2>5. f[n] = upTo(n) /\ buffer.segments[n] = chunk
    BY <1>4, <1>6, <2>2, <2>3
  <2>6. upTo(n) \o SubSeq(data, UpTo(message, n) + 1, UpTo(message, n + 1)) = upTo(n + 1)
    BY <1>1, <2>3, NextToEachOther
  <2>. QED  BY <2>3, <2>4, <2>5, <2>6
<1>. HIDE DEF S
<1>7. k \in S
  BY <1>3, <1>5, <1>6, AllNumbers
<1>8. f[k] = SubSeq(data, 1, message.length)
  BY <1>3, <1>7 DEF S
<1>9. SubSeq(data, 1, message.length) = data
  BY <1>1, SubSeqFull
<1>. QED  BY <1>2, <1>4, <1>8, <1>9 DEF data

-----------------------------------------------------------------------------
(* Buffers *)

\* The segments of a message as they are sent.
Cut(message) ==
  {[id |-> message.id, sequence |-> n - 1, data |-> Chunks(message)[n],
    more |-> n < Len(Chunks(message))] : n \in DOMAIN Chunks(message)}

Begun(id) == \E message \in begun : message.id = id
OnlyOne(message) == \A other \in begun : other.id = message.id => other = message

BuffersInv ==
  /\ IsList(buffers)
  /\ \A i \in DOMAIN buffers :
       buffers[i] = [id |-> buffers[i].id, total |-> buffers[i].total,
                     segments |-> buffers[i].segments]
\* All there is comes from messages that were sent
BegunInv ==
  /\ IsFiniteSet(begun) /\ begun \subseteq Messages
  /\ \A segment \in wire : Begun(segment.id)
  /\ \A i \in DOMAIN buffers : Begun(buffers[i].id)
  /\ \A one \in delivered : Begun(one.id)
\* and, when one alone was sent under an ID, from that one.
AllOf(message) ==
  /\ \A segment \in wire : segment.id = message.id => segment \in Cut(message)
  /\ \A i \in DOMAIN buffers : buffers[i].id = message.id => Buffered(message, buffers[i])
  /\ \A one \in delivered : one.id = message.id => one.data = Segments!Data(message)
UnmixedInv == \A message \in begun : OnlyOne(message) => AllOf(message)

SegmentsInv == BuffersInv /\ BegunInv /\ UnmixedInv

LEMMA BeginStep ==
  ASSUME SegmentsInv, NEW message \in Messages, Segments!SendMessage(message)
  PROVE  SegmentsInv'
<1>1. wire' = wire \cup Cut(message) /\ begun' = begun \cup {message}
      /\ buffers' = buffers /\ delivered' = delivered
  BY DEF Segments!SendMessage, Cut, Chunks
<1>2. \A segment \in Cut(message) : segment.id = message.id
  BY DEF Cut
<1>3. IsFiniteSet(begun') /\ begun' \subseteq Messages
  BY <1>1, FS_AddElement DEF SegmentsInv, BegunInv
<1>4. \A id : Begun(id) => Begun(id)'
  BY <1>1 DEF Begun
<1>5. Begun(message.id)'
  BY <1>1 DEF Begun
<1>6. \A segment \in wire' : Begun(segment.id)'
  BY <1>1, <1>2, <1>4, <1>5 DEF SegmentsInv, BegunInv
<1>7. ASSUME NEW one \in begun', OnlyOne(one)' PROVE AllOf(one)'
  <2>1. \A other \in begun : other.id = one.id => other = one
    BY <1>1, <1>7 DEF OnlyOne
  <2>2. message.id = one.id => message = one
    BY <1>1, <1>7 DEF OnlyOne
  <2>3. CASE one \in begun
    <3>1. AllOf(one)
      BY <2>1, <2>3 DEF OnlyOne, SegmentsInv, UnmixedInv
    <3>. QED  BY <1>1, <1>2, <2>2, <3>1 DEF AllOf
  <2>4. CASE one \notin begun
    <3>1. one = message /\ ~Begun(one.id)
      BY <1>1, <2>1, <2>4 DEF Begun
    <3>. QED  BY <1>1, <1>2, <3>1 DEF SegmentsInv, BegunInv, AllOf
  <2>. QED  BY <2>3, <2>4
<1>8. BuffersInv'
  BY <1>1 DEF SegmentsInv, BuffersInv
<1>9. BegunInv'
  BY <1>1, <1>3, <1>4, <1>6 DEF SegmentsInv, BegunInv
<1>10. UnmixedInv'
  BY <1>7 DEF UnmixedInv
<1>. QED  BY <1>8, <1>9, <1>10 DEF SegmentsInv

\* The segment of a message is in a buffer like those that were.
LEMMA Added ==
  ASSUME MaxSegmentSize \in Nat \ {0}, NEW message, message.length \in Nat,
         NEW segment \in Cut(message), NEW buffer,
         buffer = [id |-> buffer.id, total |-> buffer.total, segments |-> buffer.segments],
         Buffered(message, buffer)
  PROVE  Buffered(message, Segments!AddSegment(buffer, segment))
<1>. DEFINE k == Len(Chunks(message))
            added == Segments!AddSegment(buffer, segment)
<1>1. k \in Nat \ {0} /\ DOMAIN Chunks(message) = 1..k
  BY ChunksAre
<1>2. PICK n \in 1..k :
        segment = [id |-> message.id, sequence |-> n - 1, data |-> Chunks(message)[n],
                   more |-> n < k]
  BY <1>1 DEF Cut
<1>3. segment.sequence = n - 1 /\ segment.data = Chunks(message)[n] /\ (segment.more <=> n < k)
  BY <1>2
<1>4. /\ added.total = Segments!Total(buffer, segment)
      /\ added.segments = [i \in DOMAIN buffer.segments \cup {segment.sequence} |->
           IF i \in DOMAIN buffer.segments THEN buffer.segments[i] ELSE segment.data]
  BY DEF Segments!AddSegment
<1>5. Segments!Total(buffer, segment) \in {None, k}
  <2>1. CASE n < k
    BY <1>3, <2>1 DEF Segments!Total, Buffered
  <2>2. CASE ~(n < k)
    <3>1. n - 1 + 1 = k
      BY <1>1, <2>2
    <3>. QED  BY <1>3, <2>2, <3>1 DEF Segments!Total
  <2>. QED  BY <2>1, <2>2
<1>6. n - 1 \in 0..(k - 1) /\ n - 1 + 1 = n
  BY <1>1
<1>7. DOMAIN added.segments = DOMAIN buffer.segments \cup {n - 1}
  BY <1>3, <1>4
<1>8. ASSUME NEW i \in DOMAIN added.segments PROVE added.segments[i] = Chunks(message)[i + 1]
  <2>1. CASE i \in DOMAIN buffer.segments
    BY <1>4, <2>1 DEF Buffered
  <2>2. CASE i \notin DOMAIN buffer.segments
    <3>1. i = n - 1 /\ added.segments[i] = segment.data
      BY <1>3, <1>4, <1>7, <2>2
    <3>. QED  BY <1>3, <1>6, <3>1
  <2>. QED  BY <2>1, <2>2
<1>. HIDE DEF added
<1>9. DOMAIN added.segments \subseteq 0..(k - 1)
  BY <1>6, <1>7 DEF Buffered
<1>10. added.total \in {None, k}
  BY <1>4, <1>5
<1>11. Buffered(message, added)
  BY <1>8, <1>9, <1>10 DEF Buffered
<1>. QED  BY <1>11 DEF added

LEMMA KeptBuffers ==
  ASSUME IsList(buffers), NEW places \in SUBSET DOMAIN buffers
  PROVE  /\ IsList(Segments!Kept(places))
         /\ \A i \in DOMAIN Segments!Kept(places) :
              \E j \in DOMAIN buffers : Segments!Kept(places)[i] = buffers[j]
<1>1. Segments!Kept(places) = Retained(buffers, places)
  BY DEF Segments!Kept, Segments!Cardinality, Cardinality, Retained
<1>2. PICK at \in Bijection(1..Cardinality(places), places) :
        Retained(buffers, places) = [n \in 1..Cardinality(places) |-> buffers[at[n]]]
  BY RetainedPlaces
<1>3. at \in [1..Cardinality(places) -> places]
  BY DEF Bijection, Injection
<1>. QED  BY <1>1, <1>2, <1>3, RetainedPlaces

\* What a step leaves of the buffers, with at most one more, that has an ID that was sent.
LEMMA BuffersMove ==
  ASSUME SegmentsInv, wire' = wire, begun' = begun, NEW left, IsList(left),
         \A i \in DOMAIN left : \E j \in DOMAIN buffers : left[i] = buffers[j],
         NEW new, new = [id |-> new.id, total |-> new.total, segments |-> new.segments],
         Begun(new.id),
         \A message \in begun :
           OnlyOne(message) /\ new.id = message.id => Buffered(message, new),
         buffers' \in {left, Append(left, new)},
         \A one \in delivered' : one \in delivered \/
           /\ Begun(one.id)
           /\ \A message \in begun :
                OnlyOne(message) /\ one.id = message.id => one.data = Segments!Data(message)
  PROVE  SegmentsInv'
<1>1. /\ IsList(buffers')
      /\ \A i \in DOMAIN buffers' :
           buffers'[i] = new \/ \E j \in DOMAIN buffers : buffers'[i] = buffers[j]
  <2>1. CASE buffers' = left
    BY <2>1
  <2>2. CASE buffers' = Append(left, new)
    <3>1. Append(left, new) = left \o <<new>> /\ IsList(<<new>>)
      <4>1. left \in Seq({left[i] : i \in DOMAIN left})
        BY DEF IsList
      <4>. QED  BY <4>1, ShortLists, AppendIsConcat
    <3>2. \A j \in DOMAIN <<new>> : <<new>>[j] = new
      OBVIOUS
    <3>. QED  BY <2>2, <3>1, <3>2, JoinedLists
  <2>. QED  BY <2>1, <2>2
<1>2. BuffersInv'
  BY <1>1 DEF BuffersInv, SegmentsInv, IsList
<1>3. \A id : Begun(id)' <=> Begun(id)
  BY DEF Begun
<1>4. BegunInv'
  <2>1. \A i \in DOMAIN buffers' : Begun(buffers'[i].id)
    BY <1>1 DEF SegmentsInv, BegunInv
  <2>2. \A one \in delivered' : Begun(one.id)
    BY DEF SegmentsInv, BegunInv
  <2>. QED  BY <2>1, <2>2 DEF SegmentsInv, BegunInv, Begun
<1>5. ASSUME NEW message \in begun, OnlyOne(message) PROVE AllOf(message)'
  <2>1. AllOf(message)
    BY <1>5 DEF SegmentsInv, UnmixedInv
  <2>2. \A i \in DOMAIN buffers' : buffers'[i].id = message.id => Buffered(message, buffers'[i])
    BY <1>1, <1>5, <2>1 DEF AllOf
  <2>3. \A one \in delivered' : one.id = message.id => one.data = Segments!Data(message)
    BY <1>5, <2>1 DEF AllOf
  <2>. QED  BY <2>1, <2>2, <2>3 DEF AllOf
<1>6. UnmixedInv'
  BY <1>5 DEF UnmixedInv, OnlyOne
<1>. QED  BY <1>2, <1>4, <1>6 DEF SegmentsInv

LEMMA RecordWithTwo ==
  ASSUME NEW a, NEW b, NEW c, NEW t, NEW r
  PROVE  [[id |-> a, total |-> b, segments |-> c] EXCEPT !.total = t, !.segments = r]
         = [id |-> a, total |-> t, segments |-> r]
<1>1. [[id |-> a, total |-> b, segments |-> c] EXCEPT !.total = t]
      = [id |-> a, total |-> t, segments |-> c]
  OBVIOUS
<1>2. [[id |-> a, total |-> t, segments |-> c] EXCEPT !.segments = r]
      = [id |-> a, total |-> t, segments |-> r]
  OBVIOUS
<1>. QED  BY <1>1, <1>2

LEMMA AddedIs ==
  ASSUME NEW buffer, NEW segment,
         buffer = [id |-> buffer.id, total |-> buffer.total, segments |-> buffer.segments]
  PROVE  LET new == Segments!AddSegment(buffer, segment) IN
         new = [id |-> new.id, total |-> new.total, segments |-> new.segments] /\ new.id = buffer.id
<1>. DEFINE t == Segments!Total(buffer, segment)
            r == [n \in DOMAIN buffer.segments \cup {segment.sequence} |->
                    IF n \in DOMAIN buffer.segments THEN buffer.segments[n] ELSE segment.data]
            new == Segments!AddSegment(buffer, segment)
<1>1. new = [buffer EXCEPT !.total = t, !.segments = r]
  BY DEF Segments!AddSegment
<1>. HIDE DEF t, r, new
<1>2. ASSUME NEW a, NEW b, NEW c, buffer = [id |-> a, total |-> b, segments |-> c]
      PROVE  new = [id |-> a, total |-> t, segments |-> r]
  BY <1>1, <1>2, RecordWithTwo
<1>3. new = [id |-> buffer.id, total |-> t, segments |-> r]
  BY <1>2
<1>. QED  BY <1>3 DEF new

LEMMA ProcessStep ==
  ASSUME Segments!ReassemblyAssumption, SegmentsInv,
         NEW segment \in wire, Segments!ProcessSegment(segment)
  PROVE  SegmentsInv'
<1>. DEFINE id == segment.id
            having == Segments!Having(id)
            known == having # {}
            others == IF known THEN Segments!Others(id) ELSE Segments!MadeRoom
            old == IF known THEN buffers[CHOOSE i \in having : TRUE] ELSE Segments!NewBuffer(id)
            new == Segments!AddSegment(old, segment)
<1>1. /\ wire' = wire /\ begun' = begun /\ buffers' \in {others, Append(others, new)}
      /\ \A one \in delivered' : one \in delivered \/
           /\ Segments!IsComplete(new)
           /\ one = [id |-> id, data |-> Segments!InOrder(new)]
  BY DEF Segments!ProcessSegment
<1>2. IsList(buffers) /\ Len(buffers) \in Nat /\ DOMAIN buffers = 1..Len(buffers)
  BY ListLength DEF SegmentsInv, BuffersInv
<1>3. IsList(others) /\ \A i \in DOMAIN others : \E j \in DOMAIN buffers : others[i] = buffers[j]
  <2>1. CASE known
    BY <1>2, <2>1, KeptBuffers DEF Segments!Others
  <2>2. CASE ~known /\ Len(buffers) >= MaxConcurrentReassemblies
    <3>1. others = Tail(buffers) /\ buffers # <<>>
      BY <1>2, <2>2 DEF Segments!MadeRoom, Segments!ReassemblyAssumption
    <3>. HIDE DEF others
    <3>. QED  BY <1>2, <3>1, RestOfList
  <2>3. CASE ~known /\ ~(Len(buffers) >= MaxConcurrentReassemblies)
    <3>1. others = buffers
      BY <2>3 DEF Segments!MadeRoom
    <3>. QED  BY <1>2, <3>1
  <2>. QED  BY <2>1, <2>2, <2>3
<1>4. /\ old = [id |-> old.id, total |-> old.total, segments |-> old.segments] /\ old.id = id
      /\ known => \E j \in DOMAIN buffers : old = buffers[j]
      /\ ~known => old = [id |-> id, total |-> None, segments |-> [n \in {} |-> <<>>]]
  <2>1. CASE known
    <3>1. PICK j \in DOMAIN buffers : old = buffers[j] /\ buffers[j].id = id
      BY <2>1 DEF Segments!Having
    <3>. QED  BY <2>1, <3>1 DEF SegmentsInv, BuffersInv
  <2>2. CASE ~known
    <3>1. old = [id |-> id, total |-> None, segments |-> [n \in {} |-> <<>>]]
      BY <2>2 DEF Segments!NewBuffer
    <3>. QED  BY <2>2, <3>1
  <2>. QED  BY <2>1, <2>2
<1>. HIDE DEF others, old, known
<1>5. new = [id |-> new.id, total |-> new.total, segments |-> new.segments] /\ new.id = id
  <2>. QED  BY <1>4, AddedIs
<1>6. Begun(id)
  BY DEF SegmentsInv, BegunInv
<1>7. ASSUME NEW message \in begun, OnlyOne(message), id = message.id
      PROVE  /\ Buffered(message, new)
             /\ Segments!IsComplete(new) => Segments!InOrder(new) = Segments!Data(message)
  <2>1. /\ segment \in Cut(message) /\ MaxSegmentSize \in Nat \ {0} /\ message.length \in Nat
        /\ \A j \in DOMAIN buffers : buffers[j].id = message.id => Buffered(message, buffers[j])
    BY <1>7 DEF SegmentsInv, BegunInv, UnmixedInv, AllOf, Segments!ReassemblyAssumption
  <2>2. Buffered(message, old)
    <3>1. CASE known
      BY <1>4, <1>7, <2>1, <3>1
    <3>2. CASE ~known
      BY <1>4, <3>2 DEF Buffered
    <3>. QED  BY <3>1, <3>2
  <2>3. Buffered(message, new)
    BY <1>4, <2>1, <2>2, Added
  <2>. HIDE DEF new
  <2>. QED  BY <2>1, <2>3, PutTogether
<1>. HIDE DEF new
<1>8. ASSUME NEW one \in delivered'
      PROVE  one \in delivered \/
               /\ Begun(one.id)
               /\ \A message \in begun :
                    OnlyOne(message) /\ one.id = message.id => one.data = Segments!Data(message)
  <2>1. SUFFICES ASSUME one \notin delivered
                 PROVE  /\ Begun(one.id)
                        /\ \A message \in begun : OnlyOne(message) /\ one.id = message.id =>
                             one.data = Segments!Data(message)
    OBVIOUS
  <2>2. one.id = id /\ one.data = Segments!InOrder(new) /\ Segments!IsComplete(new)
    BY <1>1, <2>1
  <2>. QED  BY <1>6, <1>7, <2>2
<1>9. \A message \in begun : OnlyOne(message) /\ new.id = message.id => Buffered(message, new)
  BY <1>5, <1>7
<1>. QED  BY <1>1, <1>3, <1>5, <1>6, <1>8, <1>9, BuffersMove

LEMMA BuffersDropped ==
  ASSUME SegmentsInv, NEW n \in Nat, Segments!CleanupTimedOutBuffers(n)
  PROVE  SegmentsInv'
<1>1. IsList(buffers) /\ Len(buffers) \in Nat /\ DOMAIN buffers = 1..Len(buffers)
  BY ListLength DEF SegmentsInv, BuffersInv
<1>. DEFINE left == SubSeq(buffers, n + 1, Len(buffers))
            S == {buffers[i] : i \in DOMAIN buffers}
<1>2. /\ wire' = wire /\ begun' = begun /\ delivered' = delivered /\ buffers' = left
      /\ n \in 1..Len(buffers)
  BY DEF Segments!CleanupTimedOutBuffers
<1>3. buffers \in Seq(S)
  BY <1>1 DEF IsList
<1>4. left \in Seq(S)
  <2>. HIDE DEF S
  <2>. QED  BY <1>1, <1>2, <1>3, SubSeqProperties
<1>. HIDE DEF left
<1>5. IsList(left) /\ \A i \in DOMAIN left : left[i] \in S
  <2>. HIDE DEF S
  <2>. QED  BY <1>4, MembersAreLists
<1>6. \A i \in DOMAIN left : \E j \in DOMAIN buffers : left[i] = buffers[j]
  BY <1>5
<1>. DEFINE new == buffers[1]
<1>7. /\ new = [id |-> new.id, total |-> new.total, segments |-> new.segments]
      /\ Begun(new.id)
      /\ \A message \in begun : OnlyOne(message) /\ new.id = message.id => Buffered(message, new)
  BY <1>1, <1>2 DEF SegmentsInv, BuffersInv, BegunInv, UnmixedInv, AllOf
<1>. HIDE DEF new, S
<1>. QED  BY <1>2, <1>5, <1>6, <1>7, BuffersMove

\* Segments are lost, repeated and reordered, buffers are dropped, and those of an abandoned
\* message meet those of others: what is put together under an ID is the message that was
\* sent under it, whole and in order, if it was one message.
THEOREM MessagesAreWhole ==
  ASSUME Segments!ReassemblyAssumption
  PROVE  Segments!Spec => []Segments!ReassembledWhole
<1>1. Segments!Init => SegmentsInv
  BY ShortLists, FS_EmptySet
  DEF Segments!Init, SegmentsInv, BuffersInv, BegunInv, UnmixedInv
<1>2. SegmentsInv /\ [Segments!Next]_Segments!vars => SegmentsInv'
  <2>. SUFFICES ASSUME SegmentsInv, [Segments!Next]_Segments!vars PROVE SegmentsInv'
    OBVIOUS
  <2>1. CASE \E message \in Messages : Segments!SendMessage(message)
    BY <2>1, BeginStep
  <2>2. CASE \E segment \in wire : Segments!ProcessSegment(segment)
    BY <2>2, ProcessStep
  <2>3. CASE \E n \in 1..MaxConcurrentReassemblies : Segments!CleanupTimedOutBuffers(n)
    BY <2>3, BuffersDropped DEF Segments!ReassemblyAssumption
  <2>4. CASE UNCHANGED Segments!vars
    BY <2>4 DEF Segments!vars, SegmentsInv, BuffersInv, BegunInv, UnmixedInv, AllOf, Begun, OnlyOne
  <2>. QED  BY <2>1, <2>2, <2>3, <2>4 DEF Segments!Next
<1>3. SegmentsInv => Segments!ReassembledWhole
  <2>. SUFFICES ASSUME SegmentsInv, NEW one \in delivered,
                       Segments!Cardinality({m \in begun : m.id = one.id}) = 1,
                       NEW message \in {m \in begun : m.id = one.id}
                PROVE  one.data = Segments!Data(message)
    BY DEF Segments!ReassembledWhole
  <2>. DEFINE alike == {m \in begun : m.id = one.id}
  <2>1. IsFiniteSet(alike)
    BY FS_Subset DEF SegmentsInv, BegunInv
  <2>2. Cardinality(alike) = 1
    BY DEF Segments!Cardinality, Cardinality
  <2>. HIDE DEF alike
  <2>3. PICK only : alike = {only}
    BY <2>1, <2>2, FS_Singleton
  <2>4. OnlyOne(message)
    BY <2>3 DEF OnlyOne, alike
  <2>. QED  BY <2>4 DEF SegmentsInv, UnmixedInv, AllOf
<1>. QED  BY <1>1, <1>2, <1>3, PTL DEF Segments!Spec

-----------------------------------------------------------------------------
(* Paths through a topology *)

CONSTANTS Nodes, Links, U16Max
VARIABLES links, cache, found

Topology == INSTANCE PathDiscovery WITH Networks <- Nodes

\* Steps that stay in a set can be taken one after another.
CanStep(V, base, m, next) ==
  \E f \in [0..m -> V] : \A n \in 0..m : f[n] = IF n = 0 THEN base ELSE next[n][f[n - 1]]

LEMMA StepsExist ==
  ASSUME NEW V, NEW base \in V, NEW m \in Nat, NEW next \in [1..m -> [V -> V]]
  PROVE  CanStep(V, base, m, next)
<1>. DEFINE Steps(k, f) == \A n \in 0..k : f[n] = IF n = 0 THEN base ELSE next[n][f[n - 1]]
            S == {k \in Nat : k <= m => \E f \in [0..k -> V] : Steps(k, f)}
<1>1. 0 \in S
  <2>. DEFINE f == [n \in 0..0 |-> base]
  <2>1. f \in [0..0 -> V] /\ Steps(0, f)
    OBVIOUS
  <2>. QED  BY <2>1
<1>2. ASSUME NEW k \in Nat, k \in S PROVE k + 1 \in S
  <2>1. SUFFICES ASSUME k + 1 <= m PROVE \E g \in [0..(k + 1) -> V] : Steps(k + 1, g)
    OBVIOUS
  <2>2. PICK f \in [0..k -> V] : Steps(k, f)
    BY <1>2, <2>1
  <2>. DEFINE g == [n \in 0..(k + 1) |-> IF n = k + 1 THEN next[k + 1][f[k]] ELSE f[n]]
  <2>3. next[k + 1] \in [V -> V] /\ f[k] \in V /\ next[k + 1][f[k]] \in V
    <3>1. k + 1 \in 1..m /\ k \in 0..k
      BY <2>1
    <3>2. next[k + 1] \in [V -> V] /\ f[k] \in V
      BY <2>2, <3>1
    <3>. QED  BY <3>2
  <2>4. g \in [0..(k + 1) -> V]
    BY <2>2, <2>3
  <2>5. ASSUME NEW n \in 0..(k + 1)
        PROVE  g[n] = IF n = 0 THEN base ELSE next[n][g[n - 1]]
    <3>1. CASE n = k + 1
      <4>1. g[n] = next[k + 1][f[k]] /\ g[n - 1] = f[k] /\ n # 0
        BY <3>1
      <4>. QED  BY <3>1, <4>1
    <3>2. CASE n # k + 1
      <4>1. n \in 0..k /\ g[n] = f[n] /\ (n # 0 => g[n - 1] = f[n - 1])
        BY <3>2
      <4>. QED  BY <2>2, <4>1
    <3>. QED  BY <3>1, <3>2
  <2>. HIDE DEF g
  <2>6. Steps(k + 1, g)
    BY <2>5
  <2>. QED  BY <2>4, <2>6
<1>. HIDE DEF S, Steps
<1>3. m \in S
  BY <1>1, <1>2, AllNumbers
<1>4. \E f \in [0..m -> V] : Steps(m, f)
  BY <1>3 DEF S
<1>. QED  BY <1>4 DEF Steps, CanStep

\* The cost of a path is that of its links, one after another.
LEMMA CostIs ==
  ASSUME NEW path, Len(path) \in Nat \ {0},
         \A i \in 1..(Len(path) - 1) : Topology!Between(path[i], path[i + 1]) \in Nat
  PROVE  \E c \in [0..(Len(path) - 1) -> Nat] :
           /\ c[0] = 0 /\ Topology!CostOf(path) = c[Len(path) - 1]
           /\ \A i \in 1..(Len(path) - 1) :
                c[i] = c[i - 1] + Topology!Between(path[i], path[i + 1])
<1>. DEFINE m == Len(path) - 1
            b(i) == Topology!Between(path[i], path[i + 1])
            next == [i \in 1..m |-> [v \in Nat |-> v + b(i)]]
            c == CHOOSE cost : cost = [i \in 0..m |-> IF i = 0 THEN 0 ELSE cost[i - 1] + b(i)]
<1>1. m \in Nat /\ \A i \in 1..m : b(i) \in Nat
  OBVIOUS
<1>2. Topology!CostOf(path) = c[m]
  BY DEF Topology!CostOf
<1>. HIDE DEF m, b
<1>3. next \in [1..m -> [Nat -> Nat]]
  BY <1>1
<1>4. PICK f \in [0..m -> Nat] : \A n \in 0..m : f[n] = IF n = 0 THEN 0 ELSE next[n][f[n - 1]]
  <2>. DEFINE V == Nat
              none == 0
  <2>1. m \in Nat /\ none \in V /\ next \in [1..m -> [V -> V]]
    BY <1>1, <1>3
  <2>. HIDE DEF next, V, none
  <2>2. \E f \in [0..m -> V] :
          \A n \in 0..m : f[n] = IF n = 0 THEN none ELSE next[n][f[n - 1]]
    BY <2>1, StepsExist DEF CanStep
  <2>. QED  BY <2>2 DEF V, none
<1>5. \A n \in 1..m : n - 1 \in 0..m /\ n \in 0..m /\ n # 0
  BY <1>1
<1>6. \A n \in 1..m : f[n] = f[n - 1] + b(n)
  BY <1>4, <1>5
<1>7. f = [i \in 0..m |-> IF i = 0 THEN 0 ELSE f[i - 1] + b(i)]
  <2>1. \A i \in 0..m : f[i] = IF i = 0 THEN 0 ELSE f[i - 1] + b(i)
    <3>1. \A i \in 0..m : i = 0 \/ i \in 1..m
      BY <1>1
    <3>2. f[0] = 0
      <4>1. 0 \in 0..m
        BY <1>1
      <4>. HIDE DEF next
      <4>. QED  BY <1>4, <4>1
    <3>. QED  BY <1>5, <1>6, <3>1, <3>2
  <2>2. f = [i \in 0..m |-> f[i]]
    OBVIOUS
  <2>. QED  BY <2>1, <2>2
<1>8. c = [i \in 0..m |-> IF i = 0 THEN 0 ELSE c[i - 1] + b(i)]
  BY <1>7
<1>. HIDE DEF c, next
<1>9. /\ c[0] = 0
      /\ \A i \in 1..m : c[i] = c[i - 1] + b(i)
  <2>1. \A i \in 0..m : c[i] = IF i = 0 THEN 0 ELSE c[i - 1] + b(i)
    BY <1>8
  <2>. QED  BY <1>1, <1>5, <2>1
<1>. DEFINE S == {i \in Nat : i <= m => c[i] \in Nat}
<1>10. 0 \in S
  BY <1>9
<1>11. ASSUME NEW i \in Nat, i \in S PROVE i + 1 \in S
  <2>1. SUFFICES ASSUME i + 1 <= m PROVE c[i + 1] \in Nat
    OBVIOUS
  <2>. DEFINE j == i + 1
  <2>2. j \in 1..m /\ j - 1 = i /\ c[i] \in Nat
    BY <1>1, <1>11, <2>1
  <2>. HIDE DEF j
  <2>3. c[j] = c[j - 1] + b(j) /\ b(j) \in Nat
    BY <1>1, <1>9, <2>2
  <2>4. c[j] \in Nat
    BY <2>2, <2>3
  <2>. QED  BY <2>4 DEF j
<1>. HIDE DEF S
<1>12. \A i \in 0..m : c[i] \in Nat
  <2>1. Nat \subseteq S
    BY <1>10, <1>11, AllNumbers
  <2>. QED  BY <1>1, <2>1 DEF S
<1>13. c \in [0..m -> Nat]
  <2>1. c = [i \in 0..m |-> c[i]]
    BY <1>8
  <2>. QED  BY <1>12, <2>1
<1>. QED  BY <1>2, <1>9, <1>13 DEF m, b

-----------------------------------------------------------------------------
(* The search *)

\* The networks that links name.
K == Topology!Known

\* Between two networks there is one link at most.
LinksInv ==
  /\ links \subseteq Links
  /\ \A l, k \in links : l.source = k.source /\ l.destination = k.destination => l = k

LEMMA KnownIs ==
  ASSUME Topology!PathAssumption, LinksInv
  PROVE  /\ K \subseteq Nodes /\ K \subseteq Nat /\ IsFiniteSet(K) /\ Cardinality(K) \in Nat
         /\ \A l \in links : l.source \in K /\ l.destination \in K /\ l.cost \in Nat
<1>1. \A l \in links : l.source \in K /\ l.destination \in K
  BY DEF K, Topology!Known
<1>2. \A x \in K : \E l \in links : x = l.source \/ x = l.destination
  BY DEF K, Topology!Known
<1>3. K \subseteq Nodes
  BY <1>2 DEF LinksInv, Topology!PathAssumption
<1>4. IsFiniteSet(Nodes) /\ Nodes \subseteq Nat
  BY DEF Topology!PathAssumption, Topology!IsFiniteSet, IsFiniteSet
<1>5. IsFiniteSet(K) /\ Cardinality(K) \in Nat
  BY <1>3, <1>4, FS_Subset, FS_CardinalityType
<1>. QED  BY <1>1, <1>3, <1>4, <1>5 DEF LinksInv, Topology!PathAssumption

\* What a search knows, whatever it has found.
Searches(source) ==
  [distance : [K \cup {source} -> 0..U16Max], previous : UNION {[D -> K] : D \in SUBSET K},
   unvisited : SUBSET K]

LEMMA NearestIs ==
  ASSUME Topology!PathAssumption, LinksInv, NEW source, NEW st \in Searches(source),
         st.unvisited # {}
  PROVE  LET current == Topology!Nearest(st) IN
         /\ current \in st.unvisited
         /\ \A m \in st.unvisited : st.distance[current] <= st.distance[m]
<1>. DEFINE unv == st.unvisited
            dist == st.distance
            distances == {dist[n] : n \in unv}
<1>1. unv \subseteq Nat /\ U16Max \in Nat /\ \A n \in unv : dist[n] \in Nat /\ n \in Nat
  <2>1. unv \subseteq K /\ dist \in [K \cup {source} -> 0..U16Max] /\ U16Max \in Nat
    BY DEF Searches, Topology!PathAssumption
  <2>2. unv \subseteq Nat
    BY <2>1, KnownIs
  <2>. HIDE DEF unv, dist
  <2>. QED  BY <2>1, <2>2
<1>. HIDE DEF unv, dist
<1>2. distances \subseteq Nat /\ distances # {}
  BY <1>1 DEF unv
<1>3. PICK n \in unv : \A m \in unv : dist[n] <= dist[m]
  <2>1. PICK least \in distances : \A other \in distances : least <= other
    <3>. HIDE DEF distances
    <3>. QED  BY <1>2, Least
  <2>. QED  BY <2>1
<1>. DEFINE nearest == {m \in unv : dist[m] = dist[n]}
<1>4. nearest \subseteq Nat /\ nearest # {}
  BY <1>1, <1>3
<1>5. PICK least \in nearest : \A other \in nearest : least <= other
  <2>. HIDE DEF nearest
  <2>. QED  BY <1>4, Least
<1>6. \A m \in unv : dist[least] < dist[m] \/ (dist[least] = dist[m] /\ least <= m)
  BY <1>1, <1>3, <1>5
<1>7. Topology!Nearest(st) = CHOOSE x \in unv : \A m \in unv :
        dist[x] < dist[m] \/ (dist[x] = dist[m] /\ x <= m)
  BY DEF Topology!Nearest, unv, dist
<1>. DEFINE current == CHOOSE x \in unv : \A m \in unv :
              dist[x] < dist[m] \/ (dist[x] = dist[m] /\ x <= m)
<1>8. current \in unv /\ \A m \in unv :
        dist[current] < dist[m] \/ (dist[current] = dist[m] /\ current <= m)
  BY <1>5, <1>6
<1>. HIDE DEF current
<1>9. current \in unv /\ \A m \in unv : dist[current] <= dist[m]
  BY <1>1, <1>8
<1>. QED  BY <1>7, <1>9 DEF current, unv, dist

\* What a visit of a network makes of a search: from there some that are left are nearer.
Via(st, l) == Topology!SaturatingAdd(st.distance[l.source], l.cost)

Relaxed(st, x, new) ==
  /\ new.unvisited = st.unvisited \ {x}
  /\ \A n \in DOMAIN new.distance :
       \/ /\ new.distance[n] = st.distance[n]
          /\ n \in DOMAIN new.previous <=> n \in DOMAIN st.previous
          /\ n \in DOMAIN st.previous => new.previous[n] = st.previous[n]
       \/ \E l \in links :
            /\ l.source = x /\ l.destination = n /\ n \in new.unvisited
            /\ new.distance[n] = Via(st, l) /\ Via(st, l) < st.distance[n]
            /\ n \in DOMAIN new.previous /\ new.previous[n] = x
  /\ \A l \in links : l.source = x /\ l.destination \in new.unvisited =>
       new.distance[l.destination] <= Via(st, l)

LEMMA SumsSaturate ==
  ASSUME Topology!PathAssumption, NEW a \in 0..U16Max, NEW b \in Nat
  PROVE  /\ Topology!SaturatingAdd(a, b) \in 0..U16Max
         /\ a <= Topology!SaturatingAdd(a, b) /\ Topology!SaturatingAdd(a, b) <= a + b
         /\ Topology!SaturatingAdd(a, b) < U16Max => Topology!SaturatingAdd(a, b) = a + b
  BY DEF Topology!PathAssumption, Topology!SaturatingAdd

LEMMA VisitRelaxes ==
  ASSUME Topology!PathAssumption, LinksInv, NEW source, NEW st \in Searches(source),
         st.unvisited # {}
  PROVE  /\ Topology!Visit(st) \in Searches(source)
         /\ Relaxed(st, Topology!Nearest(st), Topology!Visit(st))
<1>. DEFINE current == Topology!Nearest(st)
            left == st.unvisited \ {current}
            via(l) == Topology!SaturatingAdd(st.distance[current], l.cost)
            nearer == {l \in links : l.source = current /\ l.destination \in left
                                       /\ via(l) < st.distance[l.destination]}
            to(n) == CHOOSE l \in nearer : l.destination = n
            reached == {l.destination : l \in nearer}
            dist == [n \in DOMAIN st.distance |->
                       IF n \in reached THEN via(to(n)) ELSE st.distance[n]]
            prev == [n \in DOMAIN st.previous \cup reached |->
                       IF n \in reached THEN current ELSE st.previous[n]]
            new == Topology!Visit(st)
<1>1. new = [distance |-> dist, previous |-> prev, unvisited |-> left]
  BY DEF Topology!Visit
<1>2. current \in st.unvisited
  BY NearestIs
<1>3. /\ st.unvisited \subseteq K /\ st.distance \in [K \cup {source} -> 0..U16Max]
      /\ DOMAIN st.previous \subseteq K /\ \A n \in DOMAIN st.previous : st.previous[n] \in K
  <2>1. st.previous \in UNION {[D -> K] : D \in SUBSET K}
    BY DEF Searches
  <2>2. PICK D \in SUBSET K : st.previous \in [D -> K]
    BY <2>1
  <2>. QED  BY <2>2 DEF Searches
<1>. HIDE DEF current, new
<1>4. \A l \in links : via(l) \in 0..U16Max
  BY <1>2, <1>3, KnownIs, SumsSaturate
<1>5. \A n \in reached : to(n) \in nearer /\ to(n).destination = n
  OBVIOUS
<1>6. \A l \in nearer : to(l.destination) = l
  BY <1>5 DEF LinksInv
<1>7. reached \subseteq left
  OBVIOUS
<1>. HIDE DEF to
<1>8. dist \in [K \cup {source} -> 0..U16Max]
  <2>1. DOMAIN st.distance = K \cup {source}
    BY <1>3
  <2>2. \A n \in reached : via(to(n)) \in 0..U16Max
    BY <1>4, <1>5
  <2>. HIDE DEF via, reached
  <2>. QED  BY <1>3, <2>1, <2>2
<1>9. prev \in UNION {[D -> K] : D \in SUBSET K}
  <2>. DEFINE D == DOMAIN st.previous \cup reached
  <2>1. D \in SUBSET K /\ current \in K
    BY <1>2, <1>3, <1>7
  <2>. HIDE DEF reached
  <2>2. prev \in [D -> K]
    BY <1>3, <2>1
  <2>. QED  BY <2>1, <2>2
<1>10. new \in Searches(source)
  <2>. HIDE DEF dist, prev
  <2>. QED  BY <1>1, <1>3, <1>8, <1>9 DEF Searches
<1>11. \A l \in links : l.source = current => Via(st, l) = via(l)
  BY DEF Via
<1>12. ASSUME NEW n \in DOMAIN dist
       PROVE  \/ /\ dist[n] = st.distance[n]
                 /\ n \in DOMAIN prev <=> n \in DOMAIN st.previous
                 /\ n \in DOMAIN st.previous => prev[n] = st.previous[n]
              \/ \E l \in links :
                   /\ l.source = current /\ l.destination = n /\ n \in left
                   /\ dist[n] = Via(st, l) /\ Via(st, l) < st.distance[n]
                   /\ n \in DOMAIN prev /\ prev[n] = current
  <2>1. CASE n \in reached
    <3>1. to(n) \in links /\ to(n).source = current /\ to(n).destination = n /\ n \in left
          /\ via(to(n)) < st.distance[n]
      BY <1>5, <2>1
    <3>2. dist[n] = via(to(n)) /\ prev[n] = current /\ n \in DOMAIN prev
      BY <2>1
    <3>. HIDE DEF dist, prev, via
    <3>. QED  BY <1>11, <3>1, <3>2
  <2>2. CASE n \notin reached
    <3>. HIDE DEF reached
    <3>. QED  BY <2>2
  <2>. QED  BY <2>1, <2>2
<1>13. ASSUME NEW l \in links, l.source = current, l.destination \in left
       PROVE  dist[l.destination] <= Via(st, l)
  <2>1. l.destination \in DOMAIN st.distance /\ st.distance[l.destination] \in 0..U16Max
        /\ via(l) \in 0..U16Max /\ Via(st, l) = via(l) /\ U16Max \in Nat
    BY <1>3, <1>4, <1>11, <1>13 DEF Topology!PathAssumption
  <2>2. CASE l.destination \in reached
    <3>1. PICK k \in nearer : k.destination = l.destination
      BY <2>2
    <3>2. k = l
      BY <1>13, <3>1 DEF LinksInv
    <3>3. dist[l.destination] = via(l)
      BY <1>6, <2>1, <2>2, <3>1, <3>2
    <3>. HIDE DEF via, dist
    <3>. QED  BY <2>1, <3>3
  <2>3. CASE l.destination \notin reached
    <3>1. ~(via(l) < st.distance[l.destination])
      BY <1>13, <2>3
    <3>2. dist[l.destination] = st.distance[l.destination]
      <4>. HIDE DEF reached
      <4>. QED  BY <2>1, <2>3
    <3>. HIDE DEF via, dist
    <3>. QED  BY <2>1, <3>1, <3>2
  <2>. QED  BY <2>2, <2>3
<1>14. Relaxed(st, current, new)
  <2>. HIDE DEF dist, prev
  <2>. QED  BY <1>1, <1>12, <1>13 DEF Relaxed
<1>. QED  BY <1>10, <1>14 DEF current, new

\* Where a search has found a way to, and how far.
WaysInv(st, source) ==
  /\ st.distance[source] = 0 /\ source \notin DOMAIN st.previous
  /\ \A x \in DOMAIN st.previous :
       /\ st.previous[x] \in K \ st.unvisited /\ st.distance[x] < U16Max
       /\ \E l \in links : /\ l.source = st.previous[x] /\ l.destination = x
                           /\ st.distance[x] = st.distance[st.previous[x]] + l.cost
  /\ \A x \in K : x # source /\ x \notin DOMAIN st.previous => st.distance[x] = U16Max
\* From what was visited nothing is nearer than was found, and nothing else is nearer than it.
NearestFirst(st) ==
  /\ \A l \in links : l.source \notin st.unvisited => st.distance[l.destination] <= Via(st, l)
  /\ \A w \in K \ st.unvisited, u \in st.unvisited : st.distance[w] <= st.distance[u]
\* The ways lead back to what was visited before.
OneByOne(st, at) ==
  \A x \in DOMAIN st.previous : x \notin st.unvisited => at[st.previous[x]] < at[x]
VisitedInTurn(st, n) == \E at \in [K \ st.unvisited -> 1..n] : OneByOne(st, at)

LEMMA VisitKeeps ==
  ASSUME Topology!PathAssumption, LinksInv, NEW source, NEW st \in Searches(source),
         NEW new \in Searches(source), NEW x \in st.unvisited, Relaxed(st, x, new),
         \A m \in st.unvisited : st.distance[x] <= st.distance[m],
         NEW n \in Nat, WaysInv(st, source), NearestFirst(st), VisitedInTurn(st, n)
  PROVE  WaysInv(new, source) /\ NearestFirst(new) /\ VisitedInTurn(new, n + 1)
<1>. DEFINE old == st.distance
            dist == new.distance
<1>1. /\ U16Max \in Nat /\ x \in K /\ st.unvisited \subseteq K
      /\ old \in [K \cup {source} -> 0..U16Max] /\ dist \in [K \cup {source} -> 0..U16Max]
      /\ DOMAIN st.previous \subseteq K /\ DOMAIN new.previous \subseteq K
      /\ new.unvisited = st.unvisited \ {x}
  <2>1. \A s \in Searches(source) : DOMAIN s.previous \subseteq K
    <3>1. SUFFICES ASSUME NEW s \in Searches(source) PROVE DOMAIN s.previous \subseteq K
      OBVIOUS
    <3>2. s.previous \in UNION {[D -> K] : D \in SUBSET K}
      BY DEF Searches
    <3>. QED  BY <3>2
  <2>. QED  BY <2>1 DEF Searches, Topology!PathAssumption, Relaxed
<1>2. \A a \in K \cup {source} : old[a] \in Nat /\ old[a] <= U16Max /\ dist[a] \in Nat
  BY <1>1
<1>3. \A l \in links : /\ l.source \in K /\ l.destination \in K /\ l.cost \in Nat
                       /\ Via(st, l) \in Nat /\ old[l.source] <= Via(st, l)
                       /\ Via(st, l) <= old[l.source] + l.cost
                       /\ Via(st, l) < U16Max => Via(st, l) = old[l.source] + l.cost
  <2>1. SUFFICES ASSUME NEW l \in links
                 PROVE  /\ l.source \in K /\ l.destination \in K /\ l.cost \in Nat
                        /\ Via(st, l) \in Nat /\ old[l.source] <= Via(st, l)
                        /\ Via(st, l) <= old[l.source] + l.cost
                        /\ Via(st, l) < U16Max => Via(st, l) = old[l.source] + l.cost
    OBVIOUS
  <2>2. l.source \in K /\ l.destination \in K /\ l.cost \in Nat
    BY KnownIs
  <2>3. old[l.source] \in 0..U16Max
    BY <1>1, <2>2
  <2>4. Via(st, l) = Topology!SaturatingAdd(old[l.source], l.cost)
    BY DEF Via
  <2>. HIDE DEF old
  <2>5. /\ Topology!SaturatingAdd(old[l.source], l.cost) \in 0..U16Max
        /\ old[l.source] <= Topology!SaturatingAdd(old[l.source], l.cost)
        /\ Topology!SaturatingAdd(old[l.source], l.cost) <= old[l.source] + l.cost
        /\ Topology!SaturatingAdd(old[l.source], l.cost) < U16Max =>
             Topology!SaturatingAdd(old[l.source], l.cost) = old[l.source] + l.cost
    BY <2>2, <2>3, SumsSaturate
  <2>. QED  BY <1>1, <2>2, <2>4, <2>5
\* What is no longer left stays as it was; the rest comes no farther.
<1>4. ASSUME NEW a \in K \cup {source}
      PROVE  \/ /\ dist[a] = old[a]
                /\ a \in DOMAIN new.previous <=> a \in DOMAIN st.previous
                /\ a \in DOMAIN st.previous => new.previous[a] = st.previous[a]
             \/ \E l \in links :
                  /\ l.source = x /\ l.destination = a /\ a \in new.unvisited
                  /\ dist[a] = Via(st, l) /\ Via(st, l) < old[a]
                  /\ a \in DOMAIN new.previous /\ new.previous[a] = x
  BY <1>1 DEF Relaxed
<1>. HIDE DEF old, dist
<1>5. \A a \in K \cup {source} : a \notin new.unvisited =>
        /\ dist[a] = old[a]
        /\ a \in DOMAIN new.previous <=> a \in DOMAIN st.previous
        /\ a \in DOMAIN st.previous => new.previous[a] = st.previous[a]
  BY <1>4
<1>6. \A a \in K \cup {source} : dist[a] <= old[a]
  BY <1>2, <1>3, <1>4
<1>7. dist[x] = old[x] /\ \A w \in K \ st.unvisited : dist[w] = old[w] /\ old[w] <= old[x]
  BY <1>1, <1>5 DEF NearestFirst, old
<1>8. WaysInv(new, source)
  <2>1. dist[source] = 0 /\ source \notin DOMAIN new.previous
    <3>1. old[source] = 0 /\ source \notin DOMAIN st.previous
      BY DEF WaysInv, old
    <3>2. ~\E l \in links : Via(st, l) < old[source]
      BY <1>3, <3>1
    <3>. QED  BY <1>4, <3>1, <3>2
  <2>2. ASSUME NEW a \in DOMAIN new.previous
        PROVE  /\ new.previous[a] \in K \ new.unvisited /\ dist[a] < U16Max
               /\ \E l \in links : /\ l.source = new.previous[a] /\ l.destination = a
                                   /\ dist[a] = dist[new.previous[a]] + l.cost
    <3>1. a \in K
      BY <1>1
    <3>2. CASE \E l \in links :
                  /\ l.source = x /\ l.destination = a /\ a \in new.unvisited
                  /\ dist[a] = Via(st, l) /\ Via(st, l) < old[a]
                  /\ a \in DOMAIN new.previous /\ new.previous[a] = x
      <4>1. PICK l \in links :
                  /\ l.source = x /\ l.destination = a
                  /\ dist[a] = Via(st, l) /\ Via(st, l) < old[a] /\ new.previous[a] = x
        BY <3>2
      <4>2. Via(st, l) < U16Max
        BY <1>1, <1>2, <1>3, <3>1, <4>1
      <4>3. dist[a] = old[x] + l.cost
        BY <1>3, <4>1, <4>2
      <4>. QED  BY <1>1, <1>7, <4>1, <4>2, <4>3
    <3>3. CASE /\ dist[a] = old[a]
               /\ a \in DOMAIN st.previous
               /\ new.previous[a] = st.previous[a]
      <4>1. /\ st.previous[a] \in K \ st.unvisited /\ old[a] < U16Max
            /\ \E l \in links : /\ l.source = st.previous[a] /\ l.destination = a
                                /\ old[a] = old[st.previous[a]] + l.cost
        BY <3>3 DEF WaysInv, old
      <4>. QED  BY <1>1, <1>7, <3>3, <4>1
    <3>. QED  BY <1>4, <3>1, <3>2, <3>3
  <2>3. ASSUME NEW a \in K, a # source, a \notin DOMAIN new.previous PROVE dist[a] = U16Max
    <3>1. dist[a] = old[a] /\ a \notin DOMAIN st.previous
      BY <1>4, <2>3
    <3>. QED  BY <2>3, <3>1 DEF WaysInv, old
  <2>. QED  BY <2>1, <2>2, <2>3 DEF WaysInv, dist
<1>9. NearestFirst(new)
  <2>1. ASSUME NEW l \in links, l.source \notin new.unvisited
        PROVE  dist[l.destination] <= Via(new, l)
    <3>1. l.source \in K /\ dist[l.source] = old[l.source]
      BY <1>3, <1>5, <2>1
    <3>2. Via(new, l) = Via(st, l)
      BY <3>1 DEF Via, dist, old
    <3>3. CASE l.source # x
      <4>1. old[l.destination] <= Via(st, l)
        BY <1>1, <2>1, <3>3 DEF NearestFirst, old
      <4>. QED  BY <1>2, <1>3, <1>6, <3>2, <4>1
    <3>4. CASE l.source = x /\ l.destination \in new.unvisited
      BY <3>2, <3>4 DEF Relaxed, dist
    <3>5. CASE l.source = x /\ l.destination \notin new.unvisited
      <4>1. l.destination = x \/ l.destination \in K \ st.unvisited
        BY <1>1, <1>3, <3>5
      <4>2. dist[l.destination] <= old[x]
        BY <1>1, <1>2, <1>7, <4>1
      <4>. QED  BY <1>1, <1>2, <1>3, <3>2, <3>5, <4>2
    <3>. QED  BY <3>3, <3>4, <3>5
  <2>2. ASSUME NEW w \in K \ new.unvisited, NEW u \in new.unvisited
        PROVE  dist[w] <= dist[u]
    <3>1. u \in st.unvisited /\ u \in K /\ old[x] <= old[u]
      BY <1>1 DEF old
    <3>2. dist[w] <= old[x]
      BY <1>1, <1>2, <1>7
    <3>3. old[x] <= dist[u]
      BY <1>3, <1>4, <3>1
    <3>. QED  BY <1>1, <1>2, <3>1, <3>2, <3>3
  <2>. QED  BY <2>1, <2>2 DEF NearestFirst, dist
<1>10. VisitedInTurn(new, n + 1)
  <2>1. PICK at \in [K \ st.unvisited -> 1..n] : OneByOne(st, at)
    BY DEF VisitedInTurn
  <2>. DEFINE also == [w \in K \ new.unvisited |-> IF w = x THEN n + 1 ELSE at[w]]
  <2>2. \A w \in K \ new.unvisited : w = x \/ w \in K \ st.unvisited
    BY <1>1
  <2>3. also \in [K \ new.unvisited -> 1..(n + 1)]
    BY <2>2
  <2>4. ASSUME NEW a \in DOMAIN new.previous, a \notin new.unvisited
        PROVE  also[new.previous[a]] < also[a]
    <3>1. a \in K /\ a \in DOMAIN st.previous /\ new.previous[a] = st.previous[a]
      BY <1>1, <1>5, <2>4
    <3>2. st.previous[a] \in K \ st.unvisited
      BY <3>1 DEF WaysInv
    <3>. DEFINE p == st.previous[a]
    <3>3. p # x /\ p \in K \ new.unvisited /\ also[p] = at[p] /\ at[p] \in 1..n
      BY <1>1, <3>2
    <3>4. CASE a = x
      BY <2>4, <3>1, <3>3, <3>4
    <3>5. CASE a # x
      <4>1. a \notin st.unvisited /\ also[a] = at[a]
        BY <1>1, <2>4, <3>1, <3>5
      <4>2. at[p] < at[a]
        BY <2>1, <3>1, <4>1 DEF OneByOne
      <4>. QED  BY <3>1, <3>3, <4>1, <4>2
    <3>. QED  BY <3>4, <3>5
  <2>. HIDE DEF also
  <2>. QED  BY <2>3, <2>4 DEF VisitedInTurn, OneByOne
<1>. QED  BY <1>8, <1>9, <1>10

\* A search that is not over, or not for want of steps.
SearchInv(st, source, destination, n) ==
  /\ st \in Searches(source) /\ WaysInv(st, source) /\ NearestFirst(st)
  /\ \E m \in 0..n : VisitedInTurn(st, m)
  /\ destination \in K => destination \in st.unvisited
  /\ Topology!Over(st, destination) \/ Cardinality(st.unvisited) = Cardinality(K) - n

LEMMA StartIs ==
  ASSUME Topology!PathAssumption, LinksInv, NEW source, NEW destination
  PROVE  SearchInv(Topology!Start(source), source, destination, 0)
<1>. DEFINE st == Topology!Start(source)
            dist == [n \in K \cup {source} |-> IF n = source THEN 0 ELSE U16Max]
            prev == [n \in {} |-> source]
<1>1. st = [distance |-> dist, previous |-> prev, unvisited |-> K]
  BY DEF Topology!Start, K
<1>2. U16Max \in Nat /\ dist \in [K \cup {source} -> 0..U16Max]
  BY DEF Topology!PathAssumption
<1>3. DOMAIN prev = {} /\ prev \in UNION {[D -> K] : D \in SUBSET K}
  <2>1. prev \in [{} -> K] /\ {} \in SUBSET K
    OBVIOUS
  <2>. QED  BY <2>1
<1>4. dist[source] = 0 /\ \A x \in K : x # source => dist[x] = U16Max
  OBVIOUS
<1>. HIDE DEF dist, prev, st
<1>5. st \in Searches(source)
  BY <1>1, <1>2, <1>3 DEF Searches
<1>6. WaysInv(st, source)
  BY <1>1, <1>3, <1>4 DEF WaysInv
<1>7. NearestFirst(st)
  BY <1>1, KnownIs DEF NearestFirst
<1>8. VisitedInTurn(st, 0)
  <2>. DEFINE at == [w \in {} |-> 0]
  <2>1. K \ st.unvisited = {} /\ at \in [{} -> 1..0]
    BY <1>1
  <2>2. OneByOne(st, at)
    BY <1>1, <1>3 DEF OneByOne
  <2>. QED  BY <2>1, <2>2 DEF VisitedInTurn
<1>9. Cardinality(st.unvisited) = Cardinality(K) - 0
  BY <1>1, KnownIs
<1>10. (destination \in K => destination \in st.unvisited) /\ 0 \in 0..0
  BY <1>1
<1>11. SearchInv(st, source, destination, 0)
  BY <1>5, <1>6, <1>7, <1>8, <1>9, <1>10 DEF SearchInv
<1>. QED  BY <1>11 DEF st

LEMMA VisitStep ==
  ASSUME Topology!PathAssumption, LinksInv, NEW source, NEW destination, NEW n \in Nat, NEW st,
         SearchInv(st, source, destination, n), ~Topology!Over(st, destination)
  PROVE  SearchInv(Topology!Visit(st), source, destination, n + 1)
<1>. DEFINE x == Topology!Nearest(st)
            new == Topology!Visit(st)
<1>1. st \in Searches(source) /\ st.unvisited # {} /\ x # destination
      /\ st.unvisited \subseteq K
  BY DEF SearchInv, Topology!Over, Searches
<1>2. new \in Searches(source) /\ Relaxed(st, x, new)
  BY <1>1, VisitRelaxes
<1>3. x \in st.unvisited /\ \A m \in st.unvisited : st.distance[x] <= st.distance[m]
  BY <1>1, NearestIs
<1>. HIDE DEF x, new
<1>4. PICK m \in 0..n : VisitedInTurn(st, m)
  BY DEF SearchInv
<1>5. WaysInv(new, source) /\ NearestFirst(new) /\ VisitedInTurn(new, m + 1)
  BY <1>1, <1>2, <1>3, <1>4, VisitKeeps DEF SearchInv
<1>6. new.unvisited = st.unvisited \ {x}
  BY <1>2 DEF Relaxed
<1>7. Cardinality(new.unvisited) = Cardinality(K) - (n + 1)
  <2>1. IsFiniteSet(st.unvisited)
    BY <1>1, KnownIs, FS_Subset
  <2>2. Cardinality(new.unvisited) = Cardinality(st.unvisited) - 1
    BY <1>3, <1>6, <2>1, FS_RemoveElement
  <2>3. Cardinality(st.unvisited) = Cardinality(K) - n
    BY DEF SearchInv
  <2>. QED  BY <2>2, <2>3, KnownIs
<1>8. m + 1 \in 0..(n + 1) /\ (destination \in K => destination \in new.unvisited)
  BY <1>1, <1>6 DEF SearchInv
<1>9. SearchInv(new, source, destination, n + 1)
  BY <1>2, <1>5, <1>7, <1>8 DEF SearchInv
<1>. QED  BY <1>9 DEF new

LEMMA SearchIs ==
  ASSUME Topology!PathAssumption, LinksInv, NEW source, NEW destination
  PROVE  /\ SearchInv(Topology!Searched(source, destination), source, destination, Cardinality(K))
         /\ Topology!Over(Topology!Searched(source, destination), destination)
<1>. DEFINE m == Cardinality(K)
            V == Searches(source)
            start == Topology!Start(source)
            On(st) == IF Topology!Over(st, destination) THEN st ELSE Topology!Visit(st)
            next == [n \in 1..m |-> [st \in V |-> On(st)]]
            step == CHOOSE step : step = [n \in 0..m |-> IF n = 0 THEN start ELSE On(step[n - 1])]
<1>1. m \in Nat
  BY KnownIs
<1>2. Topology!Searched(source, destination) = step[m]
  BY DEF Topology!Searched, K, Topology!Cardinality, Cardinality
<1>3. start \in V
  BY StartIs DEF SearchInv
<1>4. \A st \in V : On(st) \in V
  BY VisitRelaxes DEF Topology!Over
<1>. HIDE DEF m, V, start, On
<1>5. next \in [1..m -> [V -> V]]
  BY <1>4
<1>. HIDE DEF next, step
<1>6. PICK f \in [0..m -> V] :
        \A n \in 0..m : f[n] = IF n = 0 THEN start ELSE next[n][f[n - 1]]
  <2>1. m \in Nat /\ start \in V /\ next \in [1..m -> [V -> V]]
    BY <1>1, <1>3, <1>5
  <2>2. CanStep(V, start, m, next)
    BY <2>1, StepsExist
  <2>. QED  BY <2>2 DEF CanStep
<1>. USE DEF next, step
<1>7. \A n \in 0..m : f[n] = IF n = 0 THEN start ELSE On(f[n - 1])
  <2>1. SUFFICES ASSUME NEW n \in 0..m PROVE f[n] = IF n = 0 THEN start ELSE On(f[n - 1])
    OBVIOUS
  <2>2. CASE n = 0
    <3>. HIDE DEF next
    <3>. QED  BY <1>6, <2>2
  <2>3. CASE n # 0
    <3>1. n \in 1..m /\ n - 1 \in 0..m
      BY <1>1, <2>3
    <3>2. f[n - 1] \in V
      BY <1>6, <3>1
    <3>3. f[n] = next[n][f[n - 1]]
      <4>. HIDE DEF next
      <4>. QED  BY <1>6, <2>3
    <3>. QED  BY <2>3, <3>1, <3>2, <3>3
  <2>. QED  BY <2>2, <2>3
<1>8. f = [n \in 0..m |-> IF n = 0 THEN start ELSE On(f[n - 1])]
  <2>1. f = [n \in 0..m |-> f[n]]
    OBVIOUS
  <2>. QED  BY <1>7, <2>1
<1>9. step = [n \in 0..m |-> IF n = 0 THEN start ELSE On(step[n - 1])]
  BY <1>8
<1>. HIDE DEF step, next
<1>10. \A n \in 0..m : step[n] = IF n = 0 THEN start ELSE On(step[n - 1])
  BY <1>9
<1>. DEFINE S == {n \in Nat : n <= m => SearchInv(step[n], source, destination, n)}
<1>11. 0 \in S
  <2>1. step[0] = start
    BY <1>1, <1>10
  <2>2. SearchInv(start, source, destination, 0)
    BY StartIs DEF start
  <2>. QED  BY <2>1, <2>2
<1>12. ASSUME NEW n \in Nat, n \in S PROVE n + 1 \in S
  <2>1. SUFFICES ASSUME n + 1 <= m PROVE SearchInv(step[n + 1], source, destination, n + 1)
    OBVIOUS
  <2>2. SearchInv(step[n], source, destination, n)
    BY <1>1, <1>12, <2>1
  <2>3. step[n + 1] = On(step[n])
    <3>. DEFINE k == n + 1
    <3>1. k \in 0..m /\ k # 0 /\ k - 1 = n
      BY <1>1, <2>1
    <3>. HIDE DEF k
    <3>2. step[k] = On(step[n])
      BY <1>10, <3>1
    <3>. QED  BY <3>2 DEF k
  <2>4. CASE Topology!Over(step[n], destination)
    <3>1. step[n + 1] = step[n]
      BY <2>3, <2>4 DEF On
    <3>2. \A i \in 0..n : i \in 0..(n + 1)
      OBVIOUS
    <3>. QED  BY <2>2, <2>4, <3>1, <3>2 DEF SearchInv
  <2>5. CASE ~Topology!Over(step[n], destination)
    <3>1. step[n + 1] = Topology!Visit(step[n])
      BY <2>3, <2>5 DEF On
    <3>. QED  BY <2>2, <2>5, <3>1, VisitStep
  <2>. QED  BY <2>4, <2>5
<1>. HIDE DEF S
<1>13. m \in S
  BY <1>1, <1>11, <1>12, AllNumbers
<1>14. SearchInv(step[m], source, destination, m)
  BY <1>1, <1>13 DEF S
<1>15. Topology!Over(step[m], destination)
  <2>1. SUFFICES ASSUME Cardinality(step[m].unvisited) = m - m PROVE step[m].unvisited = {}
    BY <1>14 DEF SearchInv, Topology!Over, m
  <2>2. IsFiniteSet(step[m].unvisited)
    <3>1. step[m].unvisited \subseteq K
      BY <1>14 DEF SearchInv, Searches
    <3>. QED  BY <3>1, KnownIs, FS_Subset
  <2>. QED  BY <1>1, <2>1, <2>2, FS_EmptySet
<1>. QED  BY <1>2, <1>14, <1>15 DEF m

-----------------------------------------------------------------------------
(* What a search promises *)

\* A way through the topology: each is linked to the next.
Linked(path) ==
  /\ DOMAIN path = 1..Len(path) /\ Len(path) \in Nat \ {0}
  /\ \A i \in 1..(Len(path) - 1) :
       \E l \in links : l.source = path[i] /\ l.destination = path[i + 1]

LEMMA BetweenIs ==
  ASSUME LinksInv, NEW l \in links
  PROVE  Topology!Between(l.source, l.destination) = l.cost
<1>1. Topology!LinkOf(l.source, l.destination) = {l}
  BY DEF Topology!LinkOf, LinksInv
<1>2. (CHOOSE k \in {l} : TRUE) = l
  OBVIOUS
<1>. QED  BY <1>1, <1>2 DEF Topology!Between

\* The cost of a way, link by link.
Costs(path, c) ==
  /\ c \in [0..(Len(path) - 1) -> Nat]
  /\ c[0] = 0 /\ Topology!CostOf(path) = c[Len(path) - 1]
  /\ \A i \in 1..(Len(path) - 1) : \E l \in links :
       /\ l.source = path[i] /\ l.destination = path[i + 1]
       /\ l.cost \in Nat /\ c[i] = c[i - 1] + l.cost

LEMMA WayCosts ==
  ASSUME Topology!PathAssumption, LinksInv, NEW path, Linked(path)
  PROVE  \E c : Costs(path, c)
<1>1. ASSUME NEW i \in 1..(Len(path) - 1)
      PROVE  \E l \in links : /\ l.source = path[i] /\ l.destination = path[i + 1]
                              /\ l.cost \in Nat /\ Topology!Between(path[i], path[i + 1]) = l.cost
  <2>1. PICK l \in links : l.source = path[i] /\ l.destination = path[i + 1]
    BY DEF Linked
  <2>2. Topology!Between(l.source, l.destination) = l.cost /\ l.cost \in Nat
    BY BetweenIs, KnownIs
  <2>. QED  BY <2>1, <2>2
<1>2. Len(path) \in Nat \ {0}
  BY DEF Linked
<1>3. \A i \in 1..(Len(path) - 1) : Topology!Between(path[i], path[i + 1]) \in Nat
  BY <1>1
<1>4. PICK c \in [0..(Len(path) - 1) -> Nat] :
         /\ c[0] = 0 /\ Topology!CostOf(path) = c[Len(path) - 1]
         /\ \A i \in 1..(Len(path) - 1) :
              c[i] = c[i - 1] + Topology!Between(path[i], path[i + 1])
  BY <1>2, <1>3, CostIs
<1>5. ASSUME NEW i \in 1..(Len(path) - 1)
      PROVE  \E l \in links : /\ l.source = path[i] /\ l.destination = path[i + 1]
                              /\ l.cost \in Nat /\ c[i] = c[i - 1] + l.cost
  <2>1. PICK l \in links : /\ l.source = path[i] /\ l.destination = path[i + 1]
                           /\ l.cost \in Nat /\ Topology!Between(path[i], path[i + 1]) = l.cost
    BY <1>1
  <2>2. c[i] = c[i - 1] + l.cost
    BY <1>4, <2>1
  <2>. QED  BY <2>1, <2>2
<1>6. Costs(path, c)
  BY <1>4, <1>5 DEF Costs
<1>. QED  BY <1>6

\* No way from the source comes to less than what is nearest of those that are left, unless
\* it ends at one that was found as near.
LEMMA NoneIsNearer ==
  ASSUME Topology!PathAssumption, LinksInv, NEW source, NEW st \in Searches(source),
         WaysInv(st, source), NearestFirst(st), NEW bound \in 0..U16Max,
         \A u \in st.unvisited : bound <= st.distance[u],
         NEW path, Linked(path), path[1] = source
  PROVE  \/ bound <= Topology!CostOf(path)
         \/ st.distance[path[Len(path)]] <= Topology!CostOf(path)
<1>. DEFINE m == Len(path) - 1
            dist == st.distance
<1>0. PICK c : Costs(path, c)
  BY WayCosts
<1>1. /\ c \in [0..m -> Nat] /\ c[0] = 0 /\ Topology!CostOf(path) = c[m]
      /\ \A i \in 1..m : \E l \in links :
           /\ l.source = path[i] /\ l.destination = path[i + 1]
           /\ l.cost \in Nat /\ c[i] = c[i - 1] + l.cost
  BY <1>0 DEF Costs
<1>2. m \in Nat /\ Len(path) = m + 1
  BY DEF Linked
<1>3. U16Max \in Nat /\ dist \in [K \cup {source} -> 0..U16Max] /\ dist[source] = 0
      /\ bound \in Nat /\ \A x \in K \cup {source} : dist[x] \in Nat
  <2>1. U16Max \in Nat /\ dist \in [K \cup {source} -> 0..U16Max] /\ dist[source] = 0
    BY DEF Searches, WaysInv, Topology!PathAssumption
  <2>. HIDE DEF dist
  <2>. QED  BY <2>1
<1>. HIDE DEF m
<1>. DEFINE S == {i \in Nat : i <= m => bound <= c[i] \/ dist[path[i + 1]] <= c[i]}
<1>4. 0 \in S
  BY <1>1, <1>3
<1>5. ASSUME NEW i \in Nat, i \in S PROVE i + 1 \in S
  <2>. DEFINE k == i + 1
  <2>1. SUFFICES ASSUME k <= m PROVE bound <= c[k] \/ dist[path[k + 1]] <= c[k]
    OBVIOUS
  <2>2. k \in 1..m /\ k - 1 = i /\ i \in 0..m /\ k \in 0..m
    BY <1>2, <2>1
  <2>3. bound <= c[i] \/ dist[path[k]] <= c[i]
    BY <1>5, <2>2
  <2>. HIDE DEF k, dist
  <2>4. PICK l \in links : /\ l.source = path[k] /\ l.destination = path[k + 1]
                           /\ l.cost \in Nat /\ c[k] = c[i] + l.cost
    BY <1>1, <2>2
  <2>5. c[i] \in Nat /\ c[k] \in Nat
    BY <1>1, <2>2
  <2>6. CASE bound <= c[i]
    BY <1>3, <2>4, <2>5, <2>6
  <2>7. CASE ~(bound <= c[i])
    <3>1. l.source \in K /\ l.destination \in K
      BY KnownIs
    <3>2. dist[l.source] <= c[i] /\ ~(bound <= dist[l.source]) /\ dist[l.source] \in 0..U16Max
      BY <1>3, <2>3, <2>4, <2>5, <2>7, <3>1
    <3>3. dist[l.destination] <= Via(st, l)
      BY <3>1, <3>2 DEF NearestFirst, dist
    <3>4. Via(st, l) = Topology!SaturatingAdd(dist[l.source], l.cost)
      BY DEF Via, dist
    <3>5. /\ Topology!SaturatingAdd(dist[l.source], l.cost) \in 0..U16Max
          /\ Topology!SaturatingAdd(dist[l.source], l.cost) <= dist[l.source] + l.cost
      BY <2>4, <3>2, SumsSaturate
    <3>. DEFINE a == dist[l.source]
                b == dist[l.destination]
                v == Topology!SaturatingAdd(dist[l.source], l.cost)
    <3>6. a \in Nat /\ b \in Nat /\ v \in Nat /\ b <= v /\ v <= a + l.cost /\ a <= c[i]
          /\ c[k] = c[i] + l.cost /\ l.cost \in Nat
      BY <1>3, <2>4, <3>1, <3>2, <3>3, <3>4, <3>5
    <3>. HIDE DEF a, b, v
    <3>7. b <= c[k]
      BY <2>5, <3>6
    <3>. QED  BY <2>4, <3>7 DEF b
  <2>. QED  BY <2>6, <2>7
<1>. HIDE DEF S
<1>6. m \in S
  BY <1>2, <1>4, <1>5, AllNumbers
<1>. QED  BY <1>1, <1>2, <1>6 DEF S

\* What was reached was reached from what had been visited before it.
LEMMA Ranked ==
  ASSUME Topology!PathAssumption, LinksInv, NEW source, NEW destination, NEW n \in Nat, NEW st,
         SearchInv(st, source, destination, n)
  PROVE  \E rank \in [K -> 1..(n + 1)] :
           \A x \in DOMAIN st.previous : /\ x \in K /\ st.previous[x] \in K
                                         /\ rank[st.previous[x]] < rank[x]
<1>1. PICK m \in 0..n : VisitedInTurn(st, m)
  BY DEF SearchInv
<1>2. PICK at \in [K \ st.unvisited -> 1..m] : OneByOne(st, at)
  BY <1>1 DEF VisitedInTurn
<1>. DEFINE rank == [x \in K |-> IF x \in st.unvisited THEN m + 1 ELSE at[x]]
<1>3. rank \in [K -> 1..(n + 1)]
  <2>1. \A x \in K : x \notin st.unvisited => at[x] \in 1..m
    BY <1>2
  <2>. QED  BY <2>1
<1>4. ASSUME NEW x \in DOMAIN st.previous
      PROVE  x \in K /\ st.previous[x] \in K /\ rank[st.previous[x]] < rank[x]
  <2>1. x \in K
    <3>1. st.previous \in UNION {[D -> K] : D \in SUBSET K}
      BY DEF SearchInv, Searches
    <3>. QED  BY <3>1
  <2>2. st.previous[x] \in K \ st.unvisited
    BY DEF SearchInv, WaysInv
  <2>3. rank[st.previous[x]] = at[st.previous[x]] /\ at[st.previous[x]] \in 1..m
    BY <1>2, <2>2
  <2>4. CASE x \in st.unvisited
    <3>1. rank[x] = m + 1
      BY <2>1, <2>4
    <3>. HIDE DEF rank
    <3>. QED  BY <2>1, <2>2, <2>3, <3>1
  <2>5. CASE x \notin st.unvisited
    <3>1. rank[x] = at[x] /\ at[st.previous[x]] < at[x]
      BY <1>2, <2>1, <2>5 DEF OneByOne
    <3>. HIDE DEF rank
    <3>. QED  BY <2>1, <2>2, <2>3, <3>1
  <2>. QED  BY <2>4, <2>5
<1>. QED  BY <1>3, <1>4

\* The way back as far as it was followed: networks in the order they were visited, each as
\* far as its link from the one before it.
Ways == {p \in Seq(K) : p # <<>>}

Led(st, rank, destination, p) ==
  /\ p \in Ways /\ p[Len(p)] = destination /\ Topology!IsInjective(p)
  /\ st.distance[p[1]] < U16Max
  /\ \A i \in 2..Len(p) : rank[p[1]] < rank[p[i]]
  /\ \A i \in 1..(Len(p) - 1) : \E l \in links :
       /\ l.source = p[i] /\ l.destination = p[i + 1]
       /\ st.distance[p[i + 1]] = st.distance[p[i]] + l.cost

LEMMA LedFarther ==
  ASSUME Topology!PathAssumption, LinksInv, NEW source, NEW destination, NEW n \in Nat, NEW st,
         SearchInv(st, source, destination, n), NEW rank \in [K -> 1..(n + 1)],
         \A x \in DOMAIN st.previous : /\ x \in K /\ st.previous[x] \in K
                                       /\ rank[st.previous[x]] < rank[x],
         NEW p, Led(st, rank, destination, p), p[1] \in DOMAIN st.previous
  PROVE  LET new == <<st.previous[p[1]]>> \o p IN
         Led(st, rank, destination, new) /\ rank[new[1]] < rank[p[1]]
<1>. DEFINE x == p[1]
            y == st.previous[x]
            new == <<y>> \o p
            dist == st.distance
<1>1. p \in Seq(K) /\ Len(p) \in Nat \ {0} /\ x \in K /\ y \in K /\ rank[y] < rank[x]
  BY DEF Led, Ways
<1>2. PICK l \in links : l.source = y /\ l.destination = x /\ dist[x] = dist[y] + l.cost
  BY DEF SearchInv, WaysInv
<1>3. dist[x] < U16Max /\ dist[y] < U16Max
  <2>1. dist \in [K \cup {source} -> 0..U16Max] /\ U16Max \in Nat
    BY DEF SearchInv, Searches, Topology!PathAssumption
  <2>2. dist[x] < U16Max
    BY DEF Led
  <2>3. l.cost \in Nat
    BY KnownIs
  <2>. HIDE DEF dist, x, y
  <2>. QED  BY <1>1, <1>2, <2>1, <2>2, <2>3
<1>4. /\ \A i \in 2..Len(p) : rank[x] < rank[p[i]]
      /\ \A i \in 1..(Len(p) - 1) : \E k \in links :
           /\ k.source = p[i] /\ k.destination = p[i + 1]
           /\ dist[p[i + 1]] = dist[p[i]] + k.cost
      /\ p[Len(p)] = destination /\ \A i, j \in DOMAIN p : p[i] = p[j] => i = j
  BY DEF Led, Topology!IsInjective
<1>. HIDE DEF dist, y
<1>5. /\ new \in Seq(K) /\ Len(new) = Len(p) + 1 /\ new[1] = y
      /\ \A i \in 1..Len(p) : new[i + 1] = p[i]
      /\ DOMAIN p = 1..Len(p) /\ DOMAIN new = 1..Len(new)
  BY <1>1
<1>. HIDE DEF new
<1>6. \A i \in 1..Len(p) : rank[y] < rank[p[i]]
  <2>1. SUFFICES ASSUME NEW i \in 1..Len(p) PROVE rank[y] < rank[p[i]]
    OBVIOUS
  <2>2. p[i] \in K /\ rank[p[i]] \in Nat /\ rank[x] \in Nat /\ rank[y] \in Nat
    BY <1>1
  <2>3. CASE i = 1
    BY <1>1, <2>3
  <2>4. CASE i # 1
    <3>1. rank[x] < rank[p[i]]
      BY <1>4, <2>4
    <3>. HIDE DEF x
    <3>. QED  BY <1>1, <2>2, <3>1
  <2>. QED  BY <2>3, <2>4
<1>7. \A i \in 2..Len(new) : rank[new[1]] < rank[new[i]]
  <2>1. SUFFICES ASSUME NEW i \in 2..Len(new) PROVE rank[new[1]] < rank[new[i]]
    OBVIOUS
  <2>. DEFINE a == i - 1
  <2>2. a \in 1..Len(p) /\ a + 1 = i
    BY <1>1, <1>5
  <2>. HIDE DEF a
  <2>. QED  BY <1>5, <1>6, <2>2
<1>8. Topology!IsInjective(new)
  <2>1. ASSUME NEW i \in 1..Len(new), NEW j \in 1..Len(new), i < j PROVE new[i] # new[j]
    <3>1. j \in 2..Len(new)
      BY <1>1, <1>5, <2>1
    <3>2. CASE i = 1
      <4>1. new[1] \in K /\ new[j] \in K
        BY <1>1, <1>5, <3>1
      <4>2. rank[new[1]] < rank[new[j]] /\ rank[new[1]] \in Nat
        BY <1>7, <3>1, <4>1
      <4>. QED  BY <3>2, <4>2
    <3>3. CASE i # 1
      <4>1. i \in 2..Len(new)
        BY <3>3
      <4>. DEFINE a == i - 1
                  b == j - 1
      <4>2. a \in 1..Len(p) /\ b \in 1..Len(p) /\ a + 1 = i /\ b + 1 = j /\ a # b
        BY <1>1, <1>5, <2>1, <3>1, <4>1
      <4>. HIDE DEF a, b
      <4>3. new[i] = p[a] /\ new[j] = p[b]
        BY <1>5, <4>2
      <4>. QED  BY <1>4, <1>5, <4>2, <4>3
    <3>. QED  BY <3>2, <3>3
  <2>2. DOMAIN new = 1..Len(new) /\ Len(new) \in Nat
    BY <1>5
  <2>3. \A i, j \in DOMAIN new : new[i] = new[j] => i = j
    BY <2>1, <2>2
  <2>. QED  BY <2>3 DEF Topology!IsInjective
<1>9. ASSUME NEW i \in 1..(Len(new) - 1)
      PROVE  \E k \in links : /\ k.source = new[i] /\ k.destination = new[i + 1]
                              /\ dist[new[i + 1]] = dist[new[i]] + k.cost
  <2>1. i \in 1..Len(p) /\ new[i + 1] = p[i]
    <3>1. i \in 1..Len(p)
      BY <1>1, <1>5
    <3>. QED  BY <1>5, <3>1
  <2>2. CASE i = 1
    BY <1>2, <1>5, <2>1, <2>2
  <2>3. CASE i # 1
    <3>. DEFINE j == i - 1
    <3>0. i \in 1..Len(p) /\ i # 1 /\ Len(p) \in Nat
      BY <1>1, <2>1, <2>3
    <3>1. j \in 1..(Len(p) - 1) /\ j \in 1..Len(p) /\ j + 1 = i
      BY <3>0
    <3>. HIDE DEF j
    <3>3. new[i] = p[j]
      BY <1>5, <3>1
    <3>2. \E k \in links : /\ k.source = p[j] /\ k.destination = p[j + 1]
                           /\ dist[p[j + 1]] = dist[p[j]] + k.cost
      BY <1>4, <3>1
    <3>. QED  BY <2>1, <3>1, <3>2, <3>3
  <2>. QED  BY <2>2, <2>3
<1>10. new \in Ways /\ new[Len(new)] = destination
  <2>1. Len(p) \in 1..Len(p) /\ Len(new) = Len(p) + 1
    BY <1>1, <1>5
  <2>2. new[Len(new)] = p[Len(p)] /\ new # <<>>
    BY <1>1, <1>5, <2>1
  <2>. QED  BY <1>4, <1>5, <2>2 DEF Ways
<1>11. Led(st, rank, destination, new)
  BY <1>3, <1>5, <1>7, <1>8, <1>9, <1>10 DEF Led, dist
<1>12. rank[new[1]] < rank[p[1]]
  BY <1>1, <1>5
<1>. QED  BY <1>11, <1>12 DEF new, y

\* What was followed costs as much as was found on the way.
LEMMA LedCosts ==
  ASSUME Topology!PathAssumption, LinksInv, NEW destination, NEW st, NEW rank, NEW path,
         Led(st, rank, destination, path), Linked(path), st.distance[path[1]] = 0
  PROVE  Topology!CostOf(path) = st.distance[destination]
<1>. DEFINE e == Len(path) - 1
            dist == st.distance
<1>0. PICK c : Costs(path, c)
  BY WayCosts
<1>1. /\ c \in [0..e -> Nat] /\ c[0] = 0 /\ Topology!CostOf(path) = c[e]
      /\ \A i \in 1..e : \E l \in links :
           /\ l.source = path[i] /\ l.destination = path[i + 1]
           /\ l.cost \in Nat /\ c[i] = c[i - 1] + l.cost
  BY <1>0 DEF Costs
<1>2. \A i \in 1..e : \E l \in links :
        /\ l.source = path[i] /\ l.destination = path[i + 1]
        /\ dist[path[i + 1]] = dist[path[i]] + l.cost
  BY DEF Led
<1>3. e \in Nat /\ Len(path) = e + 1
  BY DEF Linked
<1>. HIDE DEF e, dist
<1>. DEFINE T == {i \in Nat : i <= e => c[i] = dist[path[i + 1]]}
<1>4. 0 \in T
  <2>1. dist[path[1]] = 0
    BY DEF dist
  <2>. QED  BY <1>1, <2>1
<1>5. ASSUME NEW i \in Nat, i \in T PROVE i + 1 \in T
  <2>. DEFINE k == i + 1
  <2>1. SUFFICES ASSUME k <= e PROVE c[k] = dist[path[k + 1]]
    OBVIOUS
  <2>2. k \in 1..e /\ k - 1 = i /\ c[i] = dist[path[k]]
    BY <1>3, <1>5, <2>1
  <2>. HIDE DEF k
  <2>3. PICK l \in links : /\ l.source = path[k] /\ l.destination = path[k + 1]
                           /\ l.cost \in Nat /\ c[k] = c[i] + l.cost
    BY <1>1, <2>2
  <2>4. PICK j \in links : /\ j.source = path[k] /\ j.destination = path[k + 1]
                           /\ dist[path[k + 1]] = dist[path[k]] + j.cost
    BY <1>2, <2>2
  <2>5. l = j
    BY <2>3, <2>4 DEF LinksInv
  <2>. QED  BY <2>2, <2>3, <2>4, <2>5
<1>. HIDE DEF T
<1>6. e \in T
  BY <1>3, <1>4, <1>5, AllNumbers
<1>7. path[Len(path)] = destination
  BY DEF Led
<1>8. c[e] = dist[path[e + 1]]
  BY <1>3, <1>6 DEF T
<1>. QED  BY <1>1, <1>3, <1>7, <1>8 DEF dist

\* The way back that is traced leads from the source, and is as long as was found.
LEMMA TracedIs ==
  ASSUME Topology!PathAssumption, LinksInv, NEW source, NEW destination, NEW st,
         SearchInv(st, source, destination, Cardinality(K)),
         destination \in K, source # destination, st.distance[destination] # U16Max
  PROVE  LET path == Topology!Traced(st, source, destination) IN
         /\ Linked(path) /\ Topology!IsInjective(path) /\ path[1] = source
         /\ path[Len(path)] = destination /\ Topology!CostOf(path) = st.distance[destination]
<1>. DEFINE m == Cardinality(K)
            On(p) == IF p[1] \in DOMAIN st.previous THEN <<st.previous[p[1]]>> \o p ELSE p
            first == <<destination>>
            V == Ways
            next == [n \in 1..m |-> [p \in V |-> On(p)]]
            back == CHOOSE back : back = [n \in 0..m |-> IF n = 0 THEN first ELSE On(back[n - 1])]
            path == Topology!Traced(st, source, destination)
<1>1. m \in Nat
  BY KnownIs
<1>2. path = back[m]
  BY DEF Topology!Traced, K, Topology!Cardinality, Cardinality
<1>3. first \in V
  BY DEF Ways
<1>4. PICK rank \in [K -> 1..(m + 1)] :
        \A x \in DOMAIN st.previous : /\ x \in K /\ st.previous[x] \in K
                                      /\ rank[st.previous[x]] < rank[x]
  BY <1>1, Ranked
<1>5. \A p \in V : On(p) \in V
  <2>1. SUFFICES ASSUME NEW p \in V, p[1] \in DOMAIN st.previous
                 PROVE  <<st.previous[p[1]]>> \o p \in V
    OBVIOUS
  <2>2. st.previous[p[1]] \in K /\ p \in Seq(K)
    BY <1>4, <2>1 DEF Ways
  <2>3. <<st.previous[p[1]]>> \o p \in Seq(K) /\ <<st.previous[p[1]]>> \o p # <<>>
    BY <2>2
  <2>. QED  BY <2>3 DEF Ways
<1>. HIDE DEF m, V, first, On, path
<1>6. next \in [1..m -> [V -> V]]
  BY <1>5
<1>. HIDE DEF next, back
<1>7. PICK f \in [0..m -> V] :
        \A n \in 0..m : f[n] = IF n = 0 THEN first ELSE next[n][f[n - 1]]
  <2>1. m \in Nat /\ first \in V /\ next \in [1..m -> [V -> V]]
    BY <1>1, <1>3, <1>6
  <2>2. CanStep(V, first, m, next)
    BY <2>1, StepsExist
  <2>. QED  BY <2>2 DEF CanStep
<1>. USE DEF next, back
<1>8. \A n \in 0..m : f[n] = IF n = 0 THEN first ELSE On(f[n - 1])
  <2>1. SUFFICES ASSUME NEW n \in 0..m PROVE f[n] = IF n = 0 THEN first ELSE On(f[n - 1])
    OBVIOUS
  <2>2. CASE n = 0
    <3>. HIDE DEF next
    <3>. QED  BY <1>7, <2>2
  <2>3. CASE n # 0
    <3>1. n \in 1..m /\ n - 1 \in 0..m
      BY <1>1, <2>3
    <3>2. f[n - 1] \in V
      BY <1>7, <3>1
    <3>3. f[n] = next[n][f[n - 1]]
      <4>. HIDE DEF next
      <4>. QED  BY <1>7, <2>3
    <3>. QED  BY <2>3, <3>1, <3>2, <3>3
  <2>. QED  BY <2>2, <2>3
<1>9. f = [n \in 0..m |-> IF n = 0 THEN first ELSE On(f[n - 1])]
  <2>1. f = [n \in 0..m |-> f[n]]
    OBVIOUS
  <2>. QED  BY <1>8, <2>1
<1>10. back = [n \in 0..m |-> IF n = 0 THEN first ELSE On(back[n - 1])]
  BY <1>9
<1>. HIDE DEF back, next
<1>11. \A n \in 0..m : back[n] = IF n = 0 THEN first ELSE On(back[n - 1])
  BY <1>10
\* Each step goes back to what was visited earlier, until there is nothing before.
<1>. DEFINE Far(n, p) == p[1] \in DOMAIN st.previous => rank[p[1]] + n <= m + 1
            S == {n \in Nat : n <= m => Led(st, rank, destination, back[n]) /\ Far(n, back[n])}
<1>12. 0 \in S
  <2>1. back[0] = first
    BY <1>1, <1>11
  <2>2. /\ first \in Ways /\ first[Len(first)] = destination /\ first[1] = destination
        /\ Len(first) = 1 /\ DOMAIN first = {1}
    BY DEF first, Ways
  <2>3. Topology!IsInjective(first)
    BY <2>2 DEF Topology!IsInjective
  <2>4. st.distance[destination] < U16Max
    <3>1. st.distance \in [K \cup {source} -> 0..U16Max] /\ U16Max \in Nat
      BY DEF SearchInv, Searches, Topology!PathAssumption
    <3>. QED  BY <3>1
  <2>5. Led(st, rank, destination, first)
    BY <2>2, <2>3, <2>4 DEF Led
  <2>6. Far(0, first)
    BY <1>1, <1>4, <2>2
  <2>. QED  BY <2>1, <2>5, <2>6
<1>13. ASSUME NEW n \in Nat, n \in S PROVE n + 1 \in S
  <2>1. SUFFICES ASSUME n + 1 <= m
                 PROVE  Led(st, rank, destination, back[n + 1]) /\ Far(n + 1, back[n + 1])
    OBVIOUS
  <2>. DEFINE p == back[n]
  <2>2. Led(st, rank, destination, p) /\ Far(n, p)
    BY <1>1, <1>13, <2>1
  <2>3. back[n + 1] = On(p)
    <3>. DEFINE k == n + 1
    <3>1. k \in 0..m /\ k # 0 /\ k - 1 = n
      BY <1>1, <2>1
    <3>. HIDE DEF k
    <3>2. back[k] = On(back[n])
      BY <1>11, <3>1
    <3>. QED  BY <3>2 DEF k
  <2>. HIDE DEF p
  <2>4. CASE p[1] \notin DOMAIN st.previous
    <3>1. back[n + 1] = p
      BY <2>3, <2>4 DEF On
    <3>. QED  BY <2>2, <2>4, <3>1
  <2>5. CASE p[1] \in DOMAIN st.previous
    <3>. DEFINE new == <<st.previous[p[1]]>> \o p
    <3>1. back[n + 1] = new
      BY <2>3, <2>5 DEF On
    <3>2. Led(st, rank, destination, new) /\ rank[new[1]] < rank[p[1]]
      BY <1>1, <1>4, <2>2, <2>5, LedFarther DEF m
    <3>. HIDE DEF new
    <3>3. new[1] \in K /\ p[1] \in K
      BY <1>4, <2>5, <3>2 DEF Led, Ways
    <3>4. rank[new[1]] \in Nat /\ rank[p[1]] \in Nat /\ rank[p[1]] + n <= m + 1
      BY <1>4, <2>2, <2>5, <3>3
    <3>5. Far(n + 1, new)
      BY <1>1, <3>2, <3>4
    <3>. QED  BY <3>1, <3>2, <3>5
  <2>. QED  BY <2>4, <2>5
<1>. HIDE DEF S
<1>14. m \in S
  BY <1>1, <1>12, <1>13, AllNumbers
<1>15. Led(st, rank, destination, path) /\ Far(m, path)
  BY <1>1, <1>2, <1>14 DEF S
<1>. HIDE DEF Far
<1>16. path \in Seq(K) /\ Len(path) \in Nat \ {0} /\ path[1] \in K
  BY <1>15 DEF Led, Ways
<1>17. path[1] \notin DOMAIN st.previous
  <2>1. SUFFICES ASSUME path[1] \in DOMAIN st.previous PROVE FALSE
    OBVIOUS
  <2>. DEFINE y == st.previous[path[1]]
  <2>2. y \in K /\ rank[y] < rank[path[1]]
    BY <1>4, <2>1
  <2>3. rank[y] \in Nat \ {0} /\ rank[path[1]] \in Nat
    BY <1>4, <1>16, <2>2
  <2>4. rank[path[1]] + m <= m + 1
    BY <1>15, <2>1 DEF Far
  <2>. HIDE DEF y
  <2>. QED  BY <1>1, <2>2, <2>3, <2>4
<1>18. path[1] = source
  <2>1. st.distance[path[1]] < U16Max /\ U16Max \in Nat
    BY <1>15 DEF Led, Topology!PathAssumption
  <2>2. path[1] # source => st.distance[path[1]] = U16Max
    BY <1>16, <1>17 DEF SearchInv, WaysInv
  <2>. QED  BY <2>1, <2>2
<1>19. Linked(path)
  <2>1. \A i \in 1..(Len(path) - 1) :
          \E l \in links : l.source = path[i] /\ l.destination = path[i + 1]
    BY <1>15 DEF Led
  <2>2. DOMAIN path = 1..Len(path)
    BY <1>16
  <2>. QED  BY <1>16, <2>1, <2>2 DEF Linked
<1>20. Topology!CostOf(path) = st.distance[destination]
  <2>1. st.distance[source] = 0
    BY DEF SearchInv, WaysInv
  <2>. QED  BY <1>15, <1>18, <1>19, <2>1, LedCosts
<1>. QED  BY <1>15, <1>18, <1>19, <1>20 DEF Led, path

-----------------------------------------------------------------------------
(* What is handed out *)

\* A path to the destination that costs no more than any other from where it starts.
Shortest(path, destination) ==
  /\ Topology!IsPath(path) /\ path[Len(path)] = destination
  /\ \A other \in Topology!Paths(path[1], destination) :
       Topology!CostOf(path) <= Topology!CostOf(other)
\* There is none that a cost could say.
TooFar(source, destination) ==
  \A path \in Topology!Paths(source, destination) : Topology!CostOf(path) >= U16Max

LEMMA PathsAreWays ==
  ASSUME NEW source, NEW destination, NEW path \in Topology!Paths(source, destination)
  PROVE  Linked(path) /\ path[1] = source /\ path[Len(path)] = destination
<1>1. /\ Topology!IsPath(path) /\ path[1] = source /\ path[Len(path)] = destination
      /\ path \in Topology!SeqOf(Nodes, Topology!Cardinality(Nodes))
  BY DEF Topology!Paths
<1>2. PICK k \in 0..Topology!Cardinality(Nodes) : path \in [1..k -> Nodes]
  BY <1>1 DEF Topology!SeqOf
<1>3. DOMAIN path = 1..Len(path) /\ Len(path) \in Nat
  <2>1. path \in Seq(Nodes)
    BY <1>2
  <2>. QED  BY <2>1
<1>4. Len(path) > 0
  BY <1>1 DEF Topology!IsPath
<1>5. \A i \in 1..(Len(path) - 1) :
        \E l \in links : l.source = path[i] /\ l.destination = path[i + 1]
  BY <1>1 DEF Topology!IsPath, Topology!LinkOf
<1>6. Len(path) \in Nat \ {0}
  BY <1>3, <1>4
<1>. QED  BY <1>1, <1>3, <1>5, <1>6 DEF Linked

LEMMA WaysCostSomething ==
  ASSUME Topology!PathAssumption, LinksInv, NEW path, Linked(path)
  PROVE  Topology!CostOf(path) \in Nat
<1>1. PICK c : Costs(path, c)
  BY WayCosts
<1>2. Len(path) - 1 \in 0..(Len(path) - 1)
  BY DEF Linked
<1>. QED  BY <1>1, <1>2 DEF Costs

LEMMA StayingCostsNothing ==
  ASSUME Topology!PathAssumption, LinksInv, NEW source
  PROVE  Shortest(<<source>>, source)
<1>. DEFINE path == <<source>>
<1>1. Len(path) = 1 /\ DOMAIN path = {1} /\ path[1] = source
  OBVIOUS
<1>. HIDE DEF path
<1>2. Topology!IsPath(path)
  <2>1. Topology!IsInjective(path)
    BY <1>1 DEF Topology!IsInjective
  <2>2. Len(path) > 0 /\ 1..(Len(path) - 1) = {}
    BY <1>1
  <2>. QED  BY <2>1, <2>2 DEF Topology!IsPath
<1>3. Topology!CostOf(path) = 0
  <2>1. Linked(path)
    <3>1. Len(path) \in Nat \ {0} /\ DOMAIN path = 1..Len(path) /\ 1..(Len(path) - 1) = {}
      BY <1>1
    <3>. QED  BY <3>1 DEF Linked
  <2>2. PICK c : Costs(path, c)
    BY <2>1, WayCosts
  <2>. QED  BY <1>1, <2>2 DEF Costs
<1>4. ASSUME NEW other \in Topology!Paths(path[1], source)
      PROVE  Topology!CostOf(path) <= Topology!CostOf(other)
  <2>1. Topology!CostOf(other) \in Nat
    BY PathsAreWays, WaysCostSomething
  <2>. QED  BY <1>3, <2>1
<1>5. Shortest(path, source)
  BY <1>1, <1>2, <1>4 DEF Shortest
<1>. QED  BY <1>5 DEF path

\* Dijkstra's algorithm finds a shortest path, and none only when none is short enough.
LEMMA DijkstraIs ==
  ASSUME Topology!PathAssumption, LinksInv, NEW source, NEW destination
  PROVE  IF Topology!Dijkstra(source, destination) = Topology!NoPath
         THEN TooFar(source, destination)
         ELSE Shortest(Topology!Dijkstra(source, destination), destination)
<1>. DEFINE st == Topology!Searched(source, destination)
            there == /\ st.unvisited # {} /\ Topology!Nearest(st) = destination
                     /\ st.distance[destination] # U16Max
            far == st.distance[destination]
            path == Topology!Traced(st, source, destination)
<1>1. /\ SearchInv(st, source, destination, Cardinality(K))
      /\ Topology!Over(st, destination)
  BY SearchIs
<1>2. Topology!Dijkstra(source, destination) =
        IF source = destination THEN <<source>>
        ELSE IF there THEN path ELSE Topology!NoPath
  BY DEF Topology!Dijkstra
<1>. HIDE DEF st, path, far
<1>3. /\ st \in Searches(source) /\ WaysInv(st, source) /\ NearestFirst(st)
      /\ st.distance \in [K \cup {source} -> 0..U16Max] /\ st.unvisited \subseteq K
      /\ U16Max \in Nat /\ (destination \in K => destination \in st.unvisited)
  <2>1. st \in Searches(source)
    BY <1>1 DEF SearchInv
  <2>. QED  BY <1>1, <2>1 DEF SearchInv, Searches, Topology!PathAssumption
<1>4. st.unvisited # {} => /\ Topology!Nearest(st) \in st.unvisited
                           /\ \A u \in st.unvisited :
                                st.distance[Topology!Nearest(st)] <= st.distance[u]
  BY <1>3, NearestIs
<1>5. CASE source = destination
  <2>1. Topology!Dijkstra(source, destination) = <<source>>
    BY <1>2, <1>5
  <2>2. <<source>> # Topology!NoPath
    BY DEF Topology!NoPath
  <2>. QED  BY <1>5, <2>1, <2>2, StayingCostsNothing
<1>6. CASE source # destination /\ there
  <2>1. Topology!Dijkstra(source, destination) = path
    BY <1>2, <1>6
  <2>2. destination \in K
    BY <1>3, <1>4, <1>6
  <2>3. /\ Linked(path) /\ Topology!IsInjective(path) /\ path[1] = source
        /\ path[Len(path)] = destination /\ Topology!CostOf(path) = far
    BY <1>1, <1>6, <2>2, TracedIs DEF path, far
  <2>4. Topology!IsPath(path) /\ path # Topology!NoPath
    BY <2>3 DEF Topology!IsPath, Topology!LinkOf, Linked, Topology!NoPath
  <2>5. ASSUME NEW other \in Topology!Paths(source, destination)
        PROVE  Topology!CostOf(path) <= Topology!CostOf(other)
    <3>1. Linked(other) /\ other[1] = source /\ other[Len(other)] = destination
      BY PathsAreWays
    <3>2. far \in 0..U16Max /\ \A u \in st.unvisited : far <= st.distance[u]
      BY <1>3, <1>4, <1>6, <2>2 DEF far
    <3>3. \/ far <= Topology!CostOf(other)
          \/ st.distance[other[Len(other)]] <= Topology!CostOf(other)
      BY <1>3, <3>1, <3>2, NoneIsNearer
    <3>. QED  BY <2>3, <3>1, <3>3 DEF far
  <2>6. Shortest(path, destination)
    BY <2>3, <2>4, <2>5 DEF Shortest
  <2>. QED  BY <2>1, <2>4, <2>6
<1>7. CASE source # destination /\ ~there
  <2>1. Topology!Dijkstra(source, destination) = Topology!NoPath
    BY <1>2, <1>7
  <2>2. \A u \in st.unvisited : U16Max <= st.distance[u]
    <3>1. SUFFICES ASSUME NEW u \in st.unvisited PROVE U16Max <= st.distance[u]
      OBVIOUS
    <3>2. st.distance[Topology!Nearest(st)] = U16Max
      BY <1>1, <1>7, <3>1 DEF Topology!Over
    <3>. QED  BY <1>4, <3>1, <3>2
  <2>3. ASSUME NEW other \in Topology!Paths(source, destination)
        PROVE  Topology!CostOf(other) >= U16Max
    <3>1. Linked(other) /\ other[1] = source /\ other[Len(other)] = destination
      BY PathsAreWays
    <3>2. destination \in K
      <4>. DEFINE e == Len(other)
                  i == e - 1
      <4>1. e \in Nat \ {0} /\ e # 1
        BY <1>7, <3>1 DEF Linked
      <4>. HIDE DEF e
      <4>2. i \in 1..(e - 1) /\ i + 1 = e
        BY <4>1
      <4>. HIDE DEF i
      <4>3. \E l \in links : l.destination = other[i + 1]
        BY <3>1, <4>2 DEF Linked, e
      <4>. QED  BY <3>1, <4>2, <4>3, KnownIs DEF e
    <3>3. U16Max <= st.distance[destination] /\ st.distance[destination] \in Nat
      BY <1>3, <2>2, <3>2
    <3>4. U16Max \in 0..U16Max
      BY <1>3
    <3>5. \/ U16Max <= Topology!CostOf(other)
          \/ st.distance[other[Len(other)]] <= Topology!CostOf(other)
      BY <1>3, <2>2, <3>1, <3>4, NoneIsNearer
    <3>6. Topology!CostOf(other) \in Nat
      BY <3>1, WaysCostSomething
    <3>. QED  BY <1>3, <3>1, <3>3, <3>5, <3>6
  <2>. QED  BY <2>1, <2>3 DEF TooFar
<1>. QED  BY <1>5, <1>6, <1>7

\* The cache keeps shortest paths of the topology as it is.
PathsInv ==
  /\ LinksInv
  /\ \A destination \in DOMAIN cache : Shortest(cache[destination], destination)
  /\ found # <<>> /\ found.path = Topology!NoPath => TooFar(found.source, found.destination)

LEMMA SamePaths ==
  ASSUME UNCHANGED links
  PROVE  /\ LinksInv => LinksInv'
         /\ \A path, d : Shortest(path, d) => Shortest(path, d)'
         /\ \A s, d : TooFar(s, d) => TooFar(s, d)'
<1>1. \A path : Topology!IsPath(path)' = Topology!IsPath(path)
  BY DEF Topology!IsPath, Topology!LinkOf
<1>2. \A path : Topology!CostOf(path)' = Topology!CostOf(path)
  BY DEF Topology!CostOf, Topology!Between, Topology!LinkOf
<1>3. \A s, d : Topology!Paths(s, d)' = Topology!Paths(s, d)
  BY <1>1 DEF Topology!Paths
<1>. QED  BY <1>1, <1>2, <1>3 DEF LinksInv, Shortest, TooFar

LEMMA AddLinkKeepsPaths ==
  ASSUME Topology!PathAssumption, PathsInv, NEW link \in Links, Topology!AddLink(link)
  PROVE  PathsInv'
<1>1. LinksInv'
  BY DEF PathsInv, LinksInv, Topology!AddLink, Topology!Elsewhere
<1>2. DOMAIN cache' = {} /\ found' = <<>>
  BY DEF Topology!AddLink, Topology!EmptyCache
<1>. QED  BY <1>1, <1>2 DEF PathsInv

LEMMA FindPathKeepsPaths ==
  ASSUME Topology!PathAssumption, PathsInv, NEW source, NEW destination,
         Topology!FindPath(source, destination)
  PROVE  PathsInv'
<1>. DEFINE path == Topology!Dijkstra(source, destination)
            handed == IF destination \in DOMAIN cache THEN cache[destination] ELSE path
<1>1. /\ UNCHANGED links
      /\ found' = [source |-> source, destination |-> destination, path |-> handed]
      /\ cache' = IF destination \in DOMAIN cache \/ path = Topology!NoPath THEN cache
                  ELSE [d \in DOMAIN cache \cup {destination} |->
                          IF d = destination THEN path ELSE cache[d]]
  BY DEF Topology!FindPath
<1>2. IF path = Topology!NoPath THEN TooFar(source, destination)
      ELSE Shortest(path, destination)
  BY DijkstraIs DEF PathsInv
<1>. HIDE DEF path
<1>3. \A d \in DOMAIN cache' : Shortest(cache'[d], d)
  BY <1>1, <1>2 DEF PathsInv
<1>4. handed = Topology!NoPath => TooFar(source, destination)
  <2>1. destination \in DOMAIN cache => cache[destination] # Topology!NoPath
    <3>1. SUFFICES ASSUME destination \in DOMAIN cache
                   PROVE  cache[destination] # Topology!NoPath
      OBVIOUS
    <3>2. Len(cache[destination]) > 0
      BY <3>1 DEF PathsInv, Shortest, Topology!IsPath
    <3>3. Len(Topology!NoPath) = 0
      BY DEF Topology!NoPath
    <3>. QED  BY <3>2, <3>3
  <2>. QED  BY <1>2, <2>1
<1>. HIDE DEF handed
<1>5. /\ LinksInv'
      /\ \A d \in DOMAIN cache' : Shortest(cache[d], d)'
      /\ handed = Topology!NoPath => TooFar(source, destination)'
  <2>1. UNCHANGED links
    BY <1>1
  <2>2. LinksInv'
    BY <2>1, SamePaths DEF PathsInv
  <2>3. handed = Topology!NoPath => TooFar(source, destination)'
    BY <1>4, <2>1, SamePaths
  <2>4. \A d \in DOMAIN cache' : Shortest(cache[d], d)'
    <3>1. \A p, d : Shortest(p, d) => Shortest(p, d)'
      BY <2>1, SamePaths
    <3>. QED  BY <1>3, <3>1
  <2>. QED  BY <2>2, <2>3, <2>4
<1>6. found' # <<>> /\ found'.path = Topology!NoPath => TooFar(found.source, found.destination)'
  <2>1. /\ found'.path = handed
        /\ found'.source = source /\ found'.destination = destination
    BY <1>1
  <2>. QED  BY <1>5, <2>1
<1>. QED  BY <1>5, <1>6 DEF PathsInv, Topology!NoPath

\* Whatever `find_path` hands out, from its cache or from the search, is a path of the
\* topology as it is now to the network that was asked for, and no other from where it starts
\* costs less; and when it finds none, every path costs more than a cost can say.
THEOREM ShortestPaths ==
  ASSUME Topology!PathAssumption
  PROVE  Topology!Spec => []Topology!PathsAreShortest
<1>1. Topology!Init => PathsInv
  BY DEF Topology!Init, Topology!EmptyCache, PathsInv, LinksInv
<1>2. PathsInv /\ [Topology!Next]_Topology!vars => PathsInv'
  <2>1. SUFFICES ASSUME PathsInv, [Topology!Next]_Topology!vars PROVE PathsInv'
    OBVIOUS
  <2>2. ASSUME NEW link \in Links, Topology!AddLink(link) PROVE PathsInv'
    BY <2>1, <2>2, AddLinkKeepsPaths
  <2>3. ASSUME NEW source \in Nodes, NEW destination \in Nodes,
               Topology!FindPath(source, destination)
        PROVE  PathsInv'
    BY <2>1, <2>3, FindPathKeepsPaths
  <2>4. CASE Topology!ClearCache
    <3>1. UNCHANGED <<links, found>> /\ DOMAIN cache' = {}
      BY <2>4 DEF Topology!ClearCache, Topology!EmptyCache
    <3>. QED  BY <2>1, <3>1, SamePaths DEF PathsInv, Topology!NoPath
  <2>5. CASE UNCHANGED Topology!vars
    <3>1. UNCHANGED <<links, cache, found>>
      BY <2>5 DEF Topology!vars
    <3>. QED  BY <2>1, <3>1, SamePaths DEF PathsInv, Topology!NoPath
  <2>. QED  BY <2>1, <2>2, <2>3, <2>4, <2>5 DEF Topology!Next
<1>3. PathsInv => Topology!PathsAreShortest
  BY DEF PathsInv, Shortest, TooFar, Topology!PathsAreShortest
<1>. QED  BY <1>1, <1>2, <1>3, PTL DEF Topology!Spec

-----------------------------------------------------------------------------
(* The days of a calendar *)

CONSTANTS Years, Ranges
VARIABLE today

Calendar == INSTANCE CalendarRules

Leap(y) == y % 4 = 0 /\ (y % 100 # 0 \/ y % 400 = 0)

\* One in four, in a hundred and in four hundred years.
LEMMA OneInSoMany ==
  ASSUME NEW y \in Int
  PROVE  /\ y \div 4 = (y - 1) \div 4 + (IF y % 4 = 0 THEN 1 ELSE 0)
         /\ y \div 100 = (y - 1) \div 100 + (IF y % 100 = 0 THEN 1 ELSE 0)
         /\ y \div 400 = (y - 1) \div 400 + (IF y % 400 = 0 THEN 1 ELSE 0)
         /\ y % 100 = 0 => y % 4 = 0
         /\ y % 400 = 0 => y % 100 = 0
  OBVIOUS

LEMMA DaysBeforeIs ==
  ASSUME NEW y \in Int
  PROVE  /\ Calendar!DaysBefore(y) \in Int
         /\ Calendar!DaysBefore(y) = (365 * (y - 1900)) + ((y - 1) \div 4) - ((y - 1) \div 100)
              + ((y - 1) \div 400) - 460
  BY DEF Calendar!DaysBefore

LEMMA YearsLengths ==
  ASSUME NEW y \in Int
  PROVE  Calendar!DaysBefore(y + 1) = Calendar!DaysBefore(y) + (IF Leap(y) THEN 366 ELSE 365)
<1>1. /\ Calendar!DaysBefore(y) = (365 * (y - 1900)) + ((y - 1) \div 4) - ((y - 1) \div 100)
            + ((y - 1) \div 400) - 460
      /\ Calendar!DaysBefore(y + 1) = (365 * (y - 1899)) + (y \div 4) - (y \div 100)
            + (y \div 400) - 460
  BY DEF Calendar!DaysBefore
<1>2. (y - 1) \div 4 \in Int /\ (y - 1) \div 100 \in Int /\ (y - 1) \div 400 \in Int
  OBVIOUS
<1>. DEFINE a == (y - 1) \div 4
            b == (y - 1) \div 100
            c == (y - 1) \div 400
            p == y \div 4
            q == y \div 100
            r == y \div 400
<1>3. /\ p = a + (IF y % 4 = 0 THEN 1 ELSE 0) /\ q = b + (IF y % 100 = 0 THEN 1 ELSE 0)
      /\ r = c + (IF y % 400 = 0 THEN 1 ELSE 0)
      /\ y % 100 = 0 => y % 4 = 0
      /\ y % 400 = 0 => y % 100 = 0
  BY OneInSoMany
<1>4. a \in Int /\ b \in Int /\ c \in Int
  BY <1>2
<1>5. /\ Calendar!DaysBefore(y) = (365 * (y - 1900)) + a - b + c - 460
      /\ Calendar!DaysBefore(y + 1) = (365 * (y - 1899)) + p - q + r - 460
  BY <1>1
<1>. HIDE DEF a, b, c, p, q, r
<1>. QED  BY <1>3, <1>4, <1>5 DEF Leap

LEMMA YearsInTurn ==
  ASSUME NEW y \in Int, NEW z \in Int, y < z
  PROVE  Calendar!DaysBefore(y + 1) <= Calendar!DaysBefore(z)
<1>. DEFINE n == z - 1 - y
<1>1. n \in Nat /\ z - 1 = y + n /\ z = y + n + 1
  OBVIOUS
<1>2. /\ (y + n) \div 4 >= y \div 4 /\ (y + n) \div 100 <= (y \div 100) + n
      /\ (y + n) \div 400 >= y \div 400
      /\ (y + n) \div 4 \in Int /\ (y + n) \div 100 \in Int /\ (y + n) \div 400 \in Int
      /\ y \div 4 \in Int /\ y \div 100 \in Int /\ y \div 400 \in Int
  <2>. HIDE DEF n
  <2>. QED  BY <1>1
<1>3. /\ Calendar!DaysBefore(y + 1) = (365 * (y - 1899)) + (y \div 4) - (y \div 100)
            + (y \div 400) - 460
      /\ Calendar!DaysBefore(z) = (365 * (y + n - 1899)) + ((y + n) \div 4) - ((y + n) \div 100)
            + ((y + n) \div 400) - 460
  BY <1>1 DEF Calendar!DaysBefore
<1>. HIDE DEF n
<1>. QED  BY <1>1, <1>2, <1>3

InYear(d, y) ==
  y \in Int /\ 1899 <= y /\ Calendar!DaysBefore(y) <= d /\ d < Calendar!DaysBefore(y + 1)

\* Every day from the first of 1899 is in one year, and the clock's year is that one.
LEMMA EveryDay ==
  ASSUME NEW d \in Int, -365 <= d
  PROVE  \E y : InYear(d, y)
<1>. DEFINE S == {n \in Nat : \E y : InYear(n - 365, y)}
<1>1. 0 \in S
  <2>1. Calendar!DaysBefore(1899) = -365 /\ Calendar!DaysBefore(1899 + 1) = 0
    BY DEF Calendar!DaysBefore
  <2>2. InYear(-365, 1899)
    BY <2>1 DEF InYear
  <2>3. 0 - 365 = -365
    OBVIOUS
  <2>. QED  BY <2>2, <2>3
<1>2. ASSUME NEW n \in Nat, n \in S PROVE n + 1 \in S
  <2>1. PICK y : InYear(n - 365, y)
    BY <1>2
  <2>2. /\ Calendar!DaysBefore(y) \in Int /\ Calendar!DaysBefore(y + 1) \in Int
        /\ Calendar!DaysBefore(y + 1) < Calendar!DaysBefore((y + 1) + 1)
    BY <2>1, DaysBeforeIs, YearsLengths DEF InYear
  <2>3. InYear(n + 1 - 365, y) \/ InYear(n + 1 - 365, y + 1)
    BY <2>1, <2>2 DEF InYear
  <2>. QED  BY <2>3
<1>. HIDE DEF S
<1>3. Nat \subseteq S
  BY <1>1, <1>2, AllNumbers
<1>. DEFINE n == d + 365
<1>4. n \in Nat /\ n - 365 = d
  OBVIOUS
<1>. HIDE DEF n
<1>5. n \in S
  BY <1>3, <1>4
<1>. QED  BY <1>4, <1>5 DEF S

LEMMA OneYear ==
  ASSUME NEW d \in Int, NEW y, NEW z, InYear(d, y),
         z \in Int, Calendar!DaysBefore(z) <= d, d < Calendar!DaysBefore(z + 1)
  PROVE  z = y
<1>1. /\ y < z => Calendar!DaysBefore(y + 1) <= Calendar!DaysBefore(z)
      /\ z < y => Calendar!DaysBefore(z + 1) <= Calendar!DaysBefore(y)
  BY YearsInTurn DEF InYear
<1>2. /\ Calendar!DaysBefore(y) \in Int /\ Calendar!DaysBefore(z) \in Int
      /\ Calendar!DaysBefore(y + 1) \in Int /\ Calendar!DaysBefore(z + 1) \in Int
  BY DaysBeforeIs DEF InYear
<1>. QED  BY <1>1, <1>2 DEF InYear

\* The years among which the clock's year is looked for.
LEMMA NearTheYear ==
  ASSUME NEW d \in Int, NEW y, InYear(d, y)
  PROVE  y \in (1899 + (d \div 366))..(1901 + (d \div 365))
<1>1. y \in Int /\ 1899 <= y
  BY DEF InYear
<1>. DEFINE before == Calendar!DaysBefore(y)
            after == Calendar!DaysBefore(y + 1)
<1>2. 365 * (y - 1901) <= before /\ before \in Int
  BY <1>1 DEF Calendar!DaysBefore
<1>3. after <= 366 * (y - 1898) /\ after \in Int
  BY <1>1 DEF Calendar!DaysBefore
<1>4. before <= d /\ d < after
  BY DEF InYear
<1>. HIDE DEF before, after
<1>5. 365 * (y - 1901) <= d /\ d < 366 * (y - 1898)
  BY <1>1, <1>2, <1>3, <1>4
<1>6. d \div 366 \in Int /\ d \div 365 \in Int /\ y - 1901 <= d \div 365 /\ d \div 366 <= y - 1899
  BY <1>1, <1>5
<1>. QED  BY <1>1, <1>6

-----------------------------------------------------------------------------
(* Months *)

Month == 1..12
Begins(y, m) == Calendar!BeginsOn(y, m)
Days(y, m) == Calendar!DaysInMonth(y, m)

LEMMA MonthsAre == \A m \in Month : m = 1 \/ m = 2 \/ m = 3 \/ m = 4 \/ m = 5 \/ m = 6
                                      \/ m = 7 \/ m = 8 \/ m = 9 \/ m = 10 \/ m = 11 \/ m = 12
  BY DEF Month

\* Months are as long as it is from where one begins to where the next does.
LEMMA MonthsLengths ==
  ASSUME NEW y \in Int, 1899 <= y
  PROVE  /\ \A m \in Month : Begins(y, m) \in Nat /\ Days(y, m) \in 28..31
         /\ Begins(y, 1) = 0
         /\ \A m \in 1..11 : Begins(y, m + 1) = Begins(y, m) + Days(y, m)
         /\ Calendar!DaysBefore(y + 1) = Calendar!DaysBefore(y) + Begins(y, 12) + Days(y, 12)
<1>. DEFINE extra == IF Leap(y) THEN 1 ELSE 0
            starts == <<0, 31, 59, 90, 120, 151, 181, 212, 243, 273, 304, 334>>
            before == Calendar!DaysBefore(y)
            after == Calendar!DaysBefore(y + 1)
<1>0. before \in Int /\ after = before + 365 + extra /\ extra \in {0, 1}
  <2>1. before \in Int
    BY DaysBeforeIs
  <2>2. after = before + (IF Leap(y) THEN 366 ELSE 365)
    BY YearsLengths
  <2>. HIDE DEF before, after
  <2>. QED  BY <2>1, <2>2
<1>1. Calendar!DaysOfYear(y) = 365 + extra /\ extra \in {0, 1}
  <2>1. Calendar!DaysOfYear(y) = after - before
    BY DEF Calendar!DaysOfYear
  <2>. HIDE DEF before, after, extra
  <2>. QED  BY <1>0, <2>1
<1>2. Calendar!IsLeapYear(y) <=> Leap(y)
  BY DEF Calendar!IsLeapYear, Calendar!UNSPECIFIED_YEAR, Leap
<1>. HIDE DEF extra
<1>3. \A m \in Month : Begins(y, m) = starts[m] + (IF m > 2 THEN extra ELSE 0)
  BY <1>1 DEF Begins, Calendar!BeginsOn, Month
<1>4. /\ starts[1] = 0 /\ starts[2] = 31 /\ starts[3] = 59 /\ starts[4] = 90
      /\ starts[5] = 120 /\ starts[6] = 151 /\ starts[7] = 181 /\ starts[8] = 212
      /\ starts[9] = 243 /\ starts[10] = 273 /\ starts[11] = 304 /\ starts[12] = 334
  OBVIOUS
<1>. HIDE DEF starts
<1>5. /\ Days(y, 1) = 31 /\ Days(y, 2) = 28 + extra /\ Days(y, 3) = 31 /\ Days(y, 4) = 30
      /\ Days(y, 5) = 31 /\ Days(y, 6) = 30 /\ Days(y, 7) = 31 /\ Days(y, 8) = 31
      /\ Days(y, 9) = 30 /\ Days(y, 10) = 31 /\ Days(y, 11) = 30 /\ Days(y, 12) = 31
  BY <1>2 DEF Days, Calendar!DaysInMonth, extra
<1>6. /\ Begins(y, 1) = 0 /\ Begins(y, 2) = 31 /\ Begins(y, 3) = 59 + extra
      /\ Begins(y, 4) = 90 + extra /\ Begins(y, 5) = 120 + extra /\ Begins(y, 6) = 151 + extra
      /\ Begins(y, 7) = 181 + extra /\ Begins(y, 8) = 212 + extra /\ Begins(y, 9) = 243 + extra
      /\ Begins(y, 10) = 273 + extra /\ Begins(y, 11) = 304 + extra /\ Begins(y, 12) = 334 + extra
  BY <1>3, <1>4 DEF Month
<1>7. \A m \in Month : Begins(y, m) \in Nat /\ Days(y, m) \in 28..31
  BY <1>1, <1>5, <1>6, MonthsAre
<1>8. \A m \in 1..11 : Begins(y, m + 1) = Begins(y, m) + Days(y, m)
  <2>1. SUFFICES ASSUME NEW m \in 1..11
                 PROVE  Begins(y, m + 1) = Begins(y, m) + Days(y, m)
    OBVIOUS
  <2>2. m = 1 \/ m = 2 \/ m = 3 \/ m = 4 \/ m = 5 \/ m = 6
          \/ m = 7 \/ m = 8 \/ m = 9 \/ m = 10 \/ m = 11
    OBVIOUS
  <2>. QED  BY <1>1, <1>5, <1>6, <2>2
<1>9. Calendar!DaysBefore(y + 1) = Calendar!DaysBefore(y) + Begins(y, 12) + Days(y, 12)
  <2>1. after = before + Begins(y, 12) + Days(y, 12)
    <3>. HIDE DEF before, after
    <3>. QED  BY <1>0, <1>5, <1>6
  <2>. QED  BY <2>1
<1>. QED  BY <1>6, <1>7, <1>8, <1>9

LEMMA MonthsInTurn ==
  ASSUME NEW y \in Int, 1899 <= y, NEW m \in Month, NEW n \in Month, m < n
  PROVE  Begins(y, m) + Days(y, m) <= Begins(y, n)
<1>. DEFINE S == {j \in Nat : (m + 1) + j <= 12 =>
                                Begins(y, m) + Days(y, m) <= Begins(y, (m + 1) + j)}
<1>1. m \in Nat /\ 1 <= m /\ m <= 12 /\ n \in Nat /\ n <= 12
  BY DEF Month
<1>2. 0 \in S
  <2>1. (m + 1) + 0 = m + 1 /\ m + 1 <= 12
    BY <1>1
  <2>2. m \in 1..11 /\ m + 1 \in Month
    BY <1>1, <2>1 DEF Month
  <2>3. Begins(y, m + 1) = Begins(y, m) + Days(y, m) /\ Begins(y, m + 1) \in Nat
    BY <2>2, MonthsLengths
  <2>. QED  BY <2>2, <2>3
<1>3. ASSUME NEW j \in Nat, j \in S PROVE j + 1 \in S
  <2>. DEFINE at == (m + 1) + j
  <2>1. SUFFICES ASSUME at + 1 <= 12 PROVE Begins(y, m) + Days(y, m) <= Begins(y, at + 1)
    <3>1. (m + 1) + (j + 1) = at + 1
      BY <1>1
    <3>. QED  BY <3>1
  <2>2. at \in 1..11 /\ at \in Month /\ Begins(y, m) + Days(y, m) <= Begins(y, at)
    BY <1>1, <1>3, <2>1 DEF Month
  <2>. HIDE DEF at
  <2>3. Begins(y, at + 1) = Begins(y, at) + Days(y, at) /\ Begins(y, at) \in Nat
        /\ Days(y, at) \in Nat /\ Begins(y, m) \in Nat /\ Days(y, m) \in Nat
    BY <2>2, MonthsLengths
  <2>. QED  BY <2>2, <2>3
<1>. HIDE DEF S
<1>4. Nat \subseteq S
  BY <1>2, <1>3, AllNumbers
<1>. DEFINE j == n - (m + 1)
<1>5. j \in Nat /\ (m + 1) + j = n
  BY <1>1
<1>. HIDE DEF j
<1>6. j \in S
  BY <1>4, <1>5
<1>. QED  BY <1>1, <1>5, <1>6 DEF S

\* A day by the numbers of its date.
Dated(d, y, m, k) ==
  /\ y \in Int /\ 1899 <= y /\ m \in Month /\ k \in 1..Days(y, m)
  /\ d = Calendar!DaysBefore(y) + Begins(y, m) + k - 1

LEMMA DatedInYear ==
  ASSUME NEW d, NEW y, NEW m, NEW k, Dated(d, y, m, k)
  PROVE  InYear(d, y) /\ d \in Int
<1>. DEFINE before == Calendar!DaysBefore(y)
            after == Calendar!DaysBefore(y + 1)
            b == Begins(y, m)
            n == Days(y, m)
            c == Begins(y, 12)
            o == Days(y, 12)
<1>1. y \in Int /\ 1899 <= y /\ m \in Month /\ k \in 1..n /\ d = before + b + k - 1
  BY DEF Dated
<1>2. 12 \in Month
  BY DEF Month
<1>3. before \in Int /\ b \in Nat /\ n \in 28..31 /\ c \in Nat /\ o \in 28..31
      /\ after = before + c + o
  BY <1>1, <1>2, MonthsLengths, DaysBeforeIs
<1>4. b + n <= c + o
  <2>1. CASE m = 12
    BY <1>3, <2>1
  <2>2. CASE m # 12
    <3>1. m < 12
      BY <1>1, <2>2 DEF Month
    <3>2. b + n <= c
      BY <1>1, <1>2, <3>1, MonthsInTurn
    <3>. HIDE DEF b, c, n, o
    <3>. QED  BY <1>3, <3>2
  <2>. QED  BY <2>1, <2>2
<1>. HIDE DEF before, after, b, n, c, o
<1>5. before <= d /\ d < after /\ d \in Int
  BY <1>1, <1>3, <1>4
<1>. QED  BY <1>1, <1>5 DEF InYear, before, after

LEMMA EveryDayIsDated ==
  ASSUME NEW d \in Int, -365 <= d
  PROVE  \E y, m, k : Dated(d, y, m, k)
<1>1. PICK y : InYear(d, y)
  BY EveryDay
<1>. DEFINE before == Calendar!DaysBefore(y)
            rest == d - before
            Fits(m) == Begins(y, m) <= rest /\ rest < Begins(y, m) + Days(y, m)
<1>2. y \in Int /\ 1899 <= y /\ before \in Int /\ rest \in Nat /\ d = before + rest
      /\ rest < Begins(y, 12) + Days(y, 12)
  <2>1. y \in Int /\ 1899 <= y /\ before <= d /\ d < Calendar!DaysBefore(y + 1)
    BY <1>1 DEF InYear
  <2>2. before \in Int /\ Calendar!DaysBefore(y + 1) = before + Begins(y, 12) + Days(y, 12)
        /\ Begins(y, 12) \in Nat /\ Days(y, 12) \in Nat
    <3>1. 12 \in Month
      BY DEF Month
    <3>2. before \in Int
      BY <2>1, DaysBeforeIs
    <3>3. Calendar!DaysBefore(y + 1) = before + Begins(y, 12) + Days(y, 12)
      BY <2>1, MonthsLengths
    <3>4. Begins(y, 12) \in Nat /\ Days(y, 12) \in Nat
      BY <2>1, <3>1, MonthsLengths
    <3>. QED  BY <3>2, <3>3, <3>4
  <2>. HIDE DEF before
  <2>. QED  BY <2>1, <2>2
<1>. HIDE DEF before, rest
<1>3. \E m \in Month : Fits(m)
  <2>1. SUFFICES ASSUME \A m \in Month : ~Fits(m) PROVE FALSE
    OBVIOUS
  <2>. DEFINE S == {j \in Nat : j + 1 <= 12 => Begins(y, j + 1) <= rest}
  <2>2. 0 \in S
    <3>1. Begins(y, 0 + 1) = 0
      BY <1>2, MonthsLengths
    <3>. QED  BY <1>2, <3>1
  <2>3. ASSUME NEW j \in Nat, j \in S PROVE j + 1 \in S
    <3>. DEFINE m == j + 1
    <3>1. SUFFICES ASSUME m + 1 <= 12 PROVE Begins(y, m + 1) <= rest
      OBVIOUS
    <3>2. m \in 1..11 /\ m \in Month /\ Begins(y, m) <= rest
      BY <2>3, <3>1 DEF Month
    <3>. HIDE DEF m
    <3>3. Begins(y, m + 1) = Begins(y, m) + Days(y, m) /\ Begins(y, m) \in Nat
          /\ Days(y, m) \in Nat
      BY <1>2, <3>2, MonthsLengths
    <3>4. ~(rest < Begins(y, m) + Days(y, m))
      BY <2>1, <3>2
    <3>. QED  BY <1>2, <3>3, <3>4
  <2>. HIDE DEF S
  <2>4. 11 \in S
    BY <2>2, <2>3, AllNumbers
  <2>5. Begins(y, 12) <= rest /\ 12 \in Month
    BY <2>4 DEF S, Month
  <2>. QED  BY <1>2, <2>1, <2>5
<1>4. PICK m \in Month : Fits(m)
  BY <1>3
<1>. DEFINE k == rest - Begins(y, m) + 1
<1>5. k \in 1..Days(y, m) /\ d = before + Begins(y, m) + k - 1
  <2>1. Begins(y, m) \in Nat /\ Days(y, m) \in Nat
    BY <1>2, MonthsLengths
  <2>. QED  BY <1>2, <1>4, <2>1
<1>. HIDE DEF k
<1>6. Dated(d, y, m, k)
  BY <1>2, <1>5 DEF Dated, before
<1>. QED  BY <1>6

\* The clock's date of a day.
LEMMA DateIs ==
  ASSUME NEW d, NEW y, NEW m, NEW k, Dated(d, y, m, k)
  PROVE  Calendar!DateOf(d) = <<y, m, k, (d % 7) + 1>>
<1>. DEFINE years == (1899 + (d \div 366))..(1901 + (d \div 365))
            year == CHOOSE z \in years :
                      Calendar!DaysBefore(z) <= d /\ d < Calendar!DaysBefore(z + 1)
            rest == d - Calendar!DaysBefore(y)
            month == CHOOSE n \in 1..12 :
                       Calendar!BeginsOn(y, n) <= rest
                         /\ (n < 12 => rest < Calendar!BeginsOn(y, n + 1))
<1>1. InYear(d, y) /\ d \in Int
  BY DatedInYear
<1>2. y \in years /\ \A z \in years : z \in Int
  BY <1>1, NearTheYear
<1>. HIDE DEF years
<1>3. year = y
  <2>1. \A z \in years : Calendar!DaysBefore(z) <= d /\ d < Calendar!DaysBefore(z + 1) => z = y
    BY <1>1, <1>2, OneYear
  <2>2. Calendar!DaysBefore(y) <= d /\ d < Calendar!DaysBefore(y + 1)
    BY <1>1 DEF InYear
  <2>. QED  BY <1>2, <2>1, <2>2
<1>4. /\ y \in Int /\ 1899 <= y /\ m \in Month /\ k \in 1..Days(y, m)
      /\ rest = Begins(y, m) + k - 1 /\ Begins(y, m) \in Nat /\ Days(y, m) \in Nat
      /\ k \in Nat /\ rest \in Nat
  <2>1. /\ y \in Int /\ 1899 <= y /\ m \in Month /\ k \in 1..Days(y, m)
        /\ d = Calendar!DaysBefore(y) + Begins(y, m) + k - 1
    BY DEF Dated
  <2>2. Calendar!DaysBefore(y) \in Int /\ Begins(y, m) \in Nat /\ Days(y, m) \in Nat
    BY <2>1, MonthsLengths, DaysBeforeIs
  <2>. QED  BY <2>1, <2>2
<1>. HIDE DEF rest, year
<1>5. month = m
  <2>. DEFINE Is(n) == Begins(y, n) <= rest /\ (n < 12 => rest < Begins(y, n + 1))
  <2>1. Is(m)
    <3>1. CASE m < 12
      <4>1. m \in 1..11
        BY <1>4, <3>1 DEF Month
      <4>2. Begins(y, m + 1) = Begins(y, m) + Days(y, m)
        BY <1>4, <4>1, MonthsLengths
      <4>. QED  BY <1>4, <4>2
    <3>2. CASE ~(m < 12)
      BY <1>4, <3>2
    <3>. QED  BY <3>1, <3>2
  <2>2. ASSUME NEW n \in Month, Is(n) PROVE n = m
    <3>1. Begins(y, n) \in Nat /\ Days(y, n) \in Nat
      BY <1>4, MonthsLengths
    <3>2. ~(m < n)
      <4>1. SUFFICES ASSUME m < n PROVE FALSE
        OBVIOUS
      <4>2. Begins(y, m) + Days(y, m) <= Begins(y, n)
        BY <1>4, <4>1, MonthsInTurn
      <4>. QED  BY <1>4, <2>2, <3>1, <4>2
    <3>3. ~(n < m)
      <4>1. SUFFICES ASSUME n < m PROVE FALSE
        OBVIOUS
      <4>2. Begins(y, n) + Days(y, n) <= Begins(y, m)
        BY <1>4, <4>1, MonthsInTurn
      <4>3. n \in 1..11 /\ n < 12
        BY <1>4, <4>1 DEF Month
      <4>4. Begins(y, n + 1) = Begins(y, n) + Days(y, n)
        BY <1>4, <4>3, MonthsLengths
      <4>. QED  BY <1>4, <2>2, <3>1, <4>2, <4>3, <4>4
    <3>. QED  BY <1>4, <3>2, <3>3 DEF Month
  <2>3. month = CHOOSE n \in Month : Is(n)
    BY DEF Month, Begins
  <2>. HIDE DEF Is, month
  <2>. QED  BY <1>4, <2>1, <2>2, <2>3
<1>6. Calendar!DateOf(d) = <<y, m, rest - Calendar!BeginsOn(y, m) + 1, (d % 7) + 1>>
  BY <1>3, <1>5 DEF Calendar!DateOf, year, rest, years
<1>7. rest - Calendar!BeginsOn(y, m) + 1 = k
  BY <1>4 DEF Begins
<1>. QED  BY <1>6, <1>7

\* Days follow one another as their dates do.
DatesInOrder(y, m, k, z, n, l) ==
  y < z \/ (y = z /\ m < n) \/ (y = z /\ m = n /\ k <= l)

LEMMA EarlierIs ==
  ASSUME NEW d, NEW y, NEW m, NEW k, Dated(d, y, m, k),
         NEW e, NEW z, NEW n, NEW l, Dated(e, z, n, l),
         y < z \/ (y = z /\ m < n) \/ (y = z /\ m = n /\ k < l)
  PROVE  d < e
<1>1. InYear(d, y) /\ InYear(e, z) /\ d \in Int /\ e \in Int
  BY DatedInYear
<1>2. CASE y < z
  <2>1. Calendar!DaysBefore(y + 1) <= Calendar!DaysBefore(z)
        /\ Calendar!DaysBefore(y + 1) \in Int /\ Calendar!DaysBefore(z) \in Int
    BY <1>1, <1>2, YearsInTurn, DaysBeforeIs DEF InYear
  <2>. QED  BY <1>1, <2>1 DEF InYear
<1>3. CASE y = z
  <2>. DEFINE before == Calendar!DaysBefore(y)
              b == Begins(y, m)
              c == Begins(y, n)
              o == Days(y, m)
  <2>1. /\ y \in Int /\ 1899 <= y /\ m \in Month /\ n \in Month /\ k \in 1..o
        /\ l \in 1..Days(y, n) /\ d = before + b + k - 1 /\ e = before + c + l - 1
    BY <1>3 DEF Dated
  <2>2. before \in Int /\ b \in Nat /\ c \in Nat /\ o \in 28..31 /\ Days(y, n) \in 28..31
    BY <2>1, MonthsLengths, DaysBeforeIs
  <2>3. m < n => b + o <= c
    BY <2>1, MonthsInTurn
  <2>4. m = n => b = c
    OBVIOUS
  <2>5. y \in Int /\ z \in Int /\ (m < n \/ (m = n /\ k < l))
    BY <1>3, <2>1
  <2>. HIDE DEF before, b, c, o
  <2>. QED  BY <2>1, <2>2, <2>3, <2>4, <2>5
<1>. QED  BY <1>2, <1>3

LEMMA OrderIs ==
  ASSUME NEW d, NEW y, NEW m, NEW k, Dated(d, y, m, k),
         NEW e, NEW z, NEW n, NEW l, Dated(e, z, n, l)
  PROVE  d <= e <=> DatesInOrder(y, m, k, z, n, l)
<1>1. d \in Int /\ e \in Int
  BY DatedInYear
<1>2. y \in Int /\ z \in Int /\ m \in Int /\ n \in Int /\ k \in Int /\ l \in Int
  <2>1. /\ y \in Int /\ 1899 <= y /\ m \in Month /\ k \in 1..Days(y, m)
        /\ z \in Int /\ 1899 <= z /\ n \in Month /\ l \in 1..Days(z, n)
    BY DEF Dated
  <2>2. Days(y, m) \in Int /\ Days(z, n) \in Int
    BY <2>1, MonthsLengths
  <2>. QED  BY <2>1, <2>2 DEF Month
<1>3. y < z \/ (y = z /\ m < n) \/ (y = z /\ m = n /\ k < l) => d < e
  BY EarlierIs
<1>4. z < y \/ (z = y /\ n < m) \/ (z = y /\ n = m /\ l < k) => e < d
  BY EarlierIs
<1>5. y = z /\ m = n /\ k = l => d = e
  BY DEF Dated
<1>. QED  BY <1>1, <1>2, <1>3, <1>4, <1>5 DEF DatesInOrder

\* Days of one month are as far apart as they are in it.
LEMMA SameMonthIs ==
  ASSUME NEW d, NEW y, NEW m, NEW k, Dated(d, y, m, k), NEW j \in Int, -365 <= d + j
  PROVE  Calendar!SameMonth(d, d + j) <=> k + j \in 1..Days(y, m)
<1>1. d \in Int /\ Calendar!DateOf(d) = <<y, m, k, (d % 7) + 1>>
  BY DatedInYear, DateIs
<1>. DEFINE e == d + j
<1>2. e \in Int /\ -365 <= e
  BY <1>1
<1>. HIDE DEF e
<1>3. PICK z, n, l : Dated(e, z, n, l)
  BY <1>2, EveryDayIsDated
<1>4. Calendar!DateOf(e) = <<z, n, l, (e % 7) + 1>>
  BY <1>3, DateIs
<1>5. Calendar!SameMonth(d, e) <=> y = z /\ m = n
  BY <1>1, <1>4 DEF Calendar!SameMonth
<1>. DEFINE before == Calendar!DaysBefore(y)
            b == Begins(y, m)
<1>6. /\ y \in Int /\ 1899 <= y /\ m \in Month /\ k \in 1..Days(y, m)
      /\ d = before + b + k - 1
  BY DEF Dated
<1>7. before \in Int /\ b \in Nat /\ Days(y, m) \in Nat /\ k \in Nat
  <2>1. before \in Int
    BY <1>6, DaysBeforeIs
  <2>2. b \in Nat /\ Days(y, m) \in 28..31
    BY <1>6, MonthsLengths
  <2>. HIDE DEF before, b
  <2>. QED  BY <1>6, <2>1, <2>2
<1>8. y = z /\ m = n => l = k + j /\ l \in 1..Days(y, m)
  <2>1. SUFFICES ASSUME y = z, m = n PROVE l = k + j /\ l \in 1..Days(y, m)
    OBVIOUS
  <2>2. l \in 1..Days(y, m) /\ e = before + b + l - 1
    BY <1>3, <2>1 DEF Dated
  <2>. HIDE DEF before, b
  <2>3. l = k + j
    BY <1>6, <1>7, <2>2 DEF e
  <2>. QED  BY <2>2, <2>3
<1>9. k + j \in 1..Days(y, m) => y = z /\ m = n
  <2>1. SUFFICES ASSUME k + j \in 1..Days(y, m) PROVE y = z /\ m = n
    OBVIOUS
  <2>2. e = before + b + (k + j) - 1
    <3>. HIDE DEF before, b
    <3>. QED  BY <1>6, <1>7 DEF e
  <2>3. Dated(e, y, m, k + j)
    BY <1>6, <2>1, <2>2 DEF Dated
  <2>4. Calendar!DateOf(e) = <<y, m, k + j, (e % 7) + 1>>
    BY <2>3, DateIs
  <2>. QED  BY <1>4, <2>4
<1>10. Calendar!SameMonth(d, e) <=> k + j \in 1..Days(y, m)
  BY <1>5, <1>8, <1>9
<1>. QED  BY <1>10 DEF e

-----------------------------------------------------------------------------
(* What the rules say of a day *)

LEMMA RulesByNumbers ==
  ASSUME NEW d, NEW y, NEW m, NEW k, Dated(d, y, m, k)
  PROVE  LET date == Calendar!DateOf(d) IN
         /\ Calendar!EntryMatches(Calendar!EveryYear(Calendar!LAST_DAY_OF_MONTH), date) <=>
              k = Days(y, m)
         /\ Calendar!EntryMatches(Calendar!InWeek(Calendar!LAST_WEEK_OF_MONTH), date) <=>
              k + 7 > Days(y, m)
         /\ \A week \in 1..5 :
              Calendar!EntryMatches(Calendar!InWeek(week), date) <=> week = (k + 6) \div 7
         /\ Calendar!EntryMatches(Calendar!EveryYear(Calendar!ODD_DAYS), date) <=> k % 2 = 1
         /\ Calendar!EntryMatches(Calendar!EveryYear(Calendar!EVEN_DAYS), date) <=> k % 2 = 0
         /\ \A day \in 1..31 :
              Calendar!EntryMatches(Calendar!EveryYear(day), date) <=> day = k
<1>. DEFINE date == Calendar!DateOf(d)
<1>1. date = <<y, m, k, (d % 7) + 1>>
  BY DateIs
<1>2. y \in Int /\ 1899 <= y /\ m \in Month /\ k \in 1..31 /\ Days(y, m) = Calendar!DaysInMonth(y, m)
  <2>1. /\ y \in Int /\ 1899 <= y /\ m \in Month /\ k \in 1..Days(y, m)
    BY DEF Dated
  <2>2. Days(y, m) \in 28..31
    BY <2>1, MonthsLengths
  <2>. QED  BY <2>1, <2>2 DEF Days
<1>3. date[1] = y /\ date[2] = m /\ date[3] = k
  BY <1>1
<1>. HIDE DEF date
<1>4. ASSUME NEW day \in 1..34
      PROVE  Calendar!EntryMatches(Calendar!EveryYear(day), date) <=> Calendar!DayMatches(day, date)
  <2>. DEFINE pattern == <<255, 255, day, 255>>
              entry == Calendar!EveryYear(day)
  <2>1. entry = [kind |-> "Date", date |-> pattern]
    BY DEF Calendar!EveryYear, Calendar!UNSPECIFIED_YEAR, Calendar!ANY
  <2>2. pattern[1] = 255 /\ pattern[2] = 255 /\ pattern[3] = day /\ pattern[4] = 255
    OBVIOUS
  <2>. HIDE DEF pattern, entry
  <2>3. entry.kind = "Date" /\ entry.date = pattern
    BY <2>1
  <2>4. Calendar!EntryMatches(entry, date) <=> Calendar!DatePatternMatches(pattern, date)
    BY <2>3 DEF Calendar!EntryMatches
  <2>5. Calendar!DatePatternMatches(pattern, date) <=> Calendar!DayMatches(day, date)
    BY <2>2 DEF Calendar!DatePatternMatches, Calendar!UNSPECIFIED_YEAR, Calendar!MonthMatches,
                Calendar!ANY, Calendar!ODD_MONTHS, Calendar!EVEN_MONTHS
  <2>. QED  BY <2>4, <2>5 DEF entry
<1>5. ASSUME NEW week \in 1..6
      PROVE  Calendar!EntryMatches(Calendar!InWeek(week), date) <=> Calendar!WeekMatches(week, date)
  <2>. DEFINE entry == Calendar!InWeek(week)
  <2>1. /\ entry.kind = "WeekNDay" /\ entry.month = 255 /\ entry.week_of_month = week
        /\ entry.day_of_week = 255
    BY DEF Calendar!InWeek, Calendar!ANY
  <2>. HIDE DEF entry
  <2>2. Calendar!EntryMatches(entry, date) <=> Calendar!WeekNDayMatches(entry, date)
    BY <2>1 DEF Calendar!EntryMatches
  <2>3. Calendar!WeekNDayMatches(entry, date) <=> Calendar!WeekMatches(week, date)
    BY <2>1 DEF Calendar!WeekNDayMatches, Calendar!MonthMatches, Calendar!ANY,
                Calendar!ODD_MONTHS, Calendar!EVEN_MONTHS
  <2>. QED  BY <2>2, <2>3 DEF entry
<1>6. Calendar!DayMatches(Calendar!LAST_DAY_OF_MONTH, date) <=> k = Days(y, m)
  BY <1>2, <1>3 DEF Calendar!DayMatches, Calendar!LAST_DAY_OF_MONTH, Calendar!ANY,
                    Calendar!ODD_DAYS, Calendar!EVEN_DAYS
<1>7. Calendar!DayMatches(Calendar!ODD_DAYS, date) <=> k % 2 = 1
  BY <1>3 DEF Calendar!DayMatches, Calendar!LAST_DAY_OF_MONTH, Calendar!ANY, Calendar!ODD_DAYS,
              Calendar!EVEN_DAYS
<1>8. Calendar!DayMatches(Calendar!EVEN_DAYS, date) <=> k % 2 = 0
  BY <1>3 DEF Calendar!DayMatches, Calendar!LAST_DAY_OF_MONTH, Calendar!ANY, Calendar!ODD_DAYS,
              Calendar!EVEN_DAYS
<1>9. \A day \in 1..31 : Calendar!DayMatches(day, date) <=> day = k
  BY <1>3 DEF Calendar!DayMatches, Calendar!LAST_DAY_OF_MONTH, Calendar!ANY, Calendar!ODD_DAYS,
              Calendar!EVEN_DAYS
<1>10. Calendar!WeekMatches(Calendar!LAST_WEEK_OF_MONTH, date) <=> k + 7 > Days(y, m)
  BY <1>2, <1>3 DEF Calendar!WeekMatches, Calendar!LAST_WEEK_OF_MONTH, Calendar!ANY
<1>11. \A week \in 1..5 : Calendar!WeekMatches(week, date) <=> week = (k + 6) \div 7
  BY <1>2, <1>3 DEF Calendar!WeekMatches, Calendar!LAST_WEEK_OF_MONTH, Calendar!ANY
<1>12. /\ Calendar!LAST_DAY_OF_MONTH \in 1..34 /\ Calendar!ODD_DAYS \in 1..34
       /\ Calendar!EVEN_DAYS \in 1..34 /\ Calendar!LAST_WEEK_OF_MONTH \in 1..6
  BY DEF Calendar!LAST_DAY_OF_MONTH, Calendar!ODD_DAYS, Calendar!EVEN_DAYS,
         Calendar!LAST_WEEK_OF_MONTH
<1>13. /\ \A day \in 1..31 : day \in 1..34
       /\ \A week \in 1..5 : week \in 1..6
  OBVIOUS
<1>14. /\ \A week \in 1..5 :
            Calendar!EntryMatches(Calendar!InWeek(week), date) <=> week = (k + 6) \div 7
       /\ \A day \in 1..31 :
            Calendar!EntryMatches(Calendar!EveryYear(day), date) <=> day = k
  BY <1>4, <1>5, <1>9, <1>11, <1>13
<1>. QED  BY <1>4, <1>5, <1>6, <1>7, <1>8, <1>10, <1>12, <1>14 DEF date

\* The weekdays of a month that came before a day are as many as whole weeks did.
LEMMA WeeksBefore ==
  ASSUME NEW d \in Nat, NEW y, NEW m, NEW k, Dated(d, y, m, k)
  PROVE  Cardinality({j \in 1..5 : Calendar!SameMonth(d, d - (7 * j))}) = (k - 1) \div 7
<1>. DEFINE n == (k - 1) \div 7
<1>1. k \in 1..31 /\ k <= Days(y, m) /\ Days(y, m) \in 28..31
  <2>1. y \in Int /\ 1899 <= y /\ m \in Month /\ k \in 1..Days(y, m)
    BY DEF Dated
  <2>2. Days(y, m) \in 28..31
    BY <2>1, MonthsLengths
  <2>. QED  BY <2>1, <2>2
<1>2. n \in 0..4 /\ \A j \in 1..5 : k - (7 * j) >= 1 <=> j <= n
  BY <1>1
<1>3. ASSUME NEW j \in 1..5
      PROVE  Calendar!SameMonth(d, d - (7 * j)) <=> k - (7 * j) >= 1
  <2>. DEFINE i == 0 - (7 * j)
  <2>1. i \in Int /\ -365 <= d + i /\ d + i = d - (7 * j) /\ k + i = k - (7 * j)
        /\ k + i <= k
    BY <1>1
  <2>. HIDE DEF i
  <2>2. Calendar!SameMonth(d, d + i) <=> k + i \in 1..Days(y, m)
    BY <2>1, SameMonthIs
  <2>3. k + i \in 1..Days(y, m) <=> k + i >= 1
    BY <1>1, <2>1
  <2>. QED  BY <2>1, <2>2, <2>3
<1>. HIDE DEF n
<1>4. {j \in 1..5 : Calendar!SameMonth(d, d - (7 * j))} = 1..n
  BY <1>2, <1>3
<1>5. Cardinality(1..n) = n
  <2>1. Cardinality(1..n) = IF 1 > n THEN 0 ELSE n - 1 + 1
    BY <1>2, FS_Interval
  <2>. QED  BY <1>2, <2>1
<1>. QED  BY <1>4, <1>5 DEF n

\* An end of a range is before or after a day as its date says.
LEMMA EndsAre ==
  ASSUME Calendar!CalendarAssumption, NEW d \in Nat, NEW end \in Nat \cup {None}
  PROVE  LET date == Calendar!CalendarOrdinal(Calendar!DateOf(d))
             bound == Calendar!CalendarOrdinal(Calendar!Bound(end)) IN
         /\ date # None
         /\ Calendar!NotAfter(bound, date) <=> (end # None => end <= d)
         /\ Calendar!NotAfter(date, bound) <=> (end # None => d <= end)
<1>. DEFINE date == Calendar!CalendarOrdinal(Calendar!DateOf(d))
            bound == Calendar!CalendarOrdinal(Calendar!Bound(end))
<1>1. ASSUME NEW e \in Nat
      PROVE  \E y, m, k : /\ Dated(e, y, m, k) /\ <<y, m, k>> # None
                          /\ y \in Nat /\ m \in Nat /\ k \in Nat
                          /\ Calendar!CalendarOrdinal(Calendar!DateOf(e)) = <<y, m, k>>
  <2>1. PICK y, m, k : Dated(e, y, m, k)
    BY EveryDayIsDated
  <2>2. y \in Int /\ 1899 <= y /\ m \in 1..12 /\ k \in 1..31
    <3>1. y \in Int /\ 1899 <= y /\ m \in Month /\ k \in 1..Days(y, m)
      BY <2>1 DEF Dated
    <3>2. Days(y, m) \in 28..31
      BY <3>1, MonthsLengths
    <3>. QED  BY <3>1, <3>2 DEF Month
  <2>. DEFINE written == Calendar!DateOf(e)
  <2>3. written[1] = y /\ written[2] = m /\ written[3] = k
    BY <2>1, DateIs
  <2>. HIDE DEF written
  <2>4. Calendar!CalendarOrdinal(written) = <<y, m, k>>
    BY <2>2, <2>3 DEF Calendar!CalendarOrdinal, Calendar!UNSPECIFIED_YEAR
  <2>5. y \in Nat /\ m \in Nat /\ k \in Nat
    BY <2>2
  <2>6. <<y, m, k>> # None
    BY <2>5 DEF Calendar!CalendarAssumption
  <2>. QED  BY <2>1, <2>4, <2>5, <2>6 DEF written
<1>2. PICK y, m, k : /\ Dated(d, y, m, k) /\ <<y, m, k>> # None
                     /\ y \in Nat /\ m \in Nat /\ k \in Nat /\ date = <<y, m, k>>
  BY <1>1
<1>3. CASE end = None
  <2>. DEFINE unbounded == Calendar!Bound(end)
  <2>1. unbounded[1] = 255
    BY <1>3 DEF Calendar!Bound, Calendar!UNSPECIFIED_YEAR
  <2>. HIDE DEF unbounded
  <2>2. Calendar!CalendarOrdinal(unbounded) = None
    BY <2>1 DEF Calendar!CalendarOrdinal, Calendar!UNSPECIFIED_YEAR
  <2>3. bound = None
    BY <2>2 DEF unbounded
  <2>. HIDE DEF bound, date
  <2>4. Calendar!NotAfter(bound, date) /\ Calendar!NotAfter(date, bound)
    BY <2>3 DEF Calendar!NotAfter
  <2>. QED  BY <1>2, <1>3, <2>4 DEF date, bound
<1>4. CASE end # None
  <2>1. end \in Nat /\ Calendar!Bound(end) = Calendar!DateOf(end)
    BY <1>4 DEF Calendar!Bound
  <2>2. PICK z, n, l : /\ Dated(end, z, n, l) /\ <<z, n, l>> # None
                       /\ z \in Nat /\ n \in Nat /\ l \in Nat /\ bound = <<z, n, l>>
    BY <1>1, <2>1
  <2>. HIDE DEF bound, date
  <2>3. /\ date[1] = y /\ date[2] = m /\ date[3] = k /\ date # None
        /\ bound[1] = z /\ bound[2] = n /\ bound[3] = l /\ bound # None
    BY <1>2, <2>2
  <2>4. /\ Calendar!NotAfter(bound, date) <=> DatesInOrder(z, n, l, y, m, k)
        /\ Calendar!NotAfter(date, bound) <=> DatesInOrder(y, m, k, z, n, l)
    BY <2>3 DEF Calendar!NotAfter, DatesInOrder
  <2>5. /\ end <= d <=> DatesInOrder(z, n, l, y, m, k)
        /\ d <= end <=> DatesInOrder(y, m, k, z, n, l)
    BY <1>2, <2>2, OrderIs
  <2>. QED  BY <1>4, <2>3, <2>4, <2>5 DEF date, bound
<1>. QED  BY <1>3, <1>4

TodayInv == today \in Nat

\* The entries of a calendar cover the days they name: the last day and the last week of a
\* month, its weeks, odd and even days, each day of it, and the days from the start of a range
\* to its end, in leap years and at the ends of centuries, whatever years go by.
THEOREM DaysAreCovered ==
  ASSUME Calendar!CalendarAssumption
  PROVE  Calendar!Spec => []Calendar!EntriesNameTheirDays
<1>1. Calendar!Init => TodayInv
  <2>1. \A year \in Years : Calendar!DaysBefore(year) \in Nat
    <3>1. SUFFICES ASSUME NEW year \in Years PROVE Calendar!DaysBefore(year) \in Nat
      OBVIOUS
    <3>2. year \in Nat /\ year >= 1900
      BY DEF Calendar!CalendarAssumption
    <3>. QED  BY <3>2 DEF Calendar!DaysBefore
  <2>. QED  BY <2>1 DEF Calendar!Init, TodayInv
<1>2. TodayInv /\ [Calendar!Next]_today => TodayInv'
  BY DEF TodayInv, Calendar!Next
<1>3. TodayInv => Calendar!EntriesNameTheirDays
  <2>. SUFFICES ASSUME TodayInv PROVE Calendar!EntriesNameTheirDays
    OBVIOUS
  <2>. DEFINE date == Calendar!DateOf(today)
  <2>0. today \in Nat
    BY DEF TodayInv
  <2>1. PICK y, m, k : Dated(today, y, m, k)
    BY <2>0, EveryDayIsDated
  <2>2. k \in 1..31 /\ k <= Days(y, m) /\ Days(y, m) \in 28..31
    <3>1. y \in Int /\ 1899 <= y /\ m \in Month /\ k \in 1..Days(y, m)
      BY <2>1 DEF Dated
    <3>2. Days(y, m) \in 28..31
      BY <3>1, MonthsLengths
    <3>. QED  BY <3>1, <3>2
  <2>3. /\ Calendar!EntryMatches(Calendar!EveryYear(Calendar!LAST_DAY_OF_MONTH), date) <=>
             k = Days(y, m)
        /\ Calendar!EntryMatches(Calendar!InWeek(Calendar!LAST_WEEK_OF_MONTH), date) <=>
             k + 7 > Days(y, m)
        /\ \A week \in 1..5 :
             Calendar!EntryMatches(Calendar!InWeek(week), date) <=> week = (k + 6) \div 7
        /\ Calendar!EntryMatches(Calendar!EveryYear(Calendar!ODD_DAYS), date) <=> k % 2 = 1
        /\ Calendar!EntryMatches(Calendar!EveryYear(Calendar!EVEN_DAYS), date) <=> k % 2 = 0
        /\ \A day \in 1..31 :
             Calendar!EntryMatches(Calendar!EveryYear(day), date) <=> day = k
    BY <2>1, RulesByNumbers
  <2>. HIDE DEF date
  <2>4. Calendar!EntryMatches(Calendar!EveryYear(Calendar!LAST_DAY_OF_MONTH), date) <=>
          ~Calendar!SameMonth(today, today + 1)
    <3>1. Calendar!SameMonth(today, today + 1) <=> k + 1 \in 1..Days(y, m)
      BY <2>0, <2>1, SameMonthIs
    <3>. QED  BY <2>2, <2>3, <3>1
  <2>5. Calendar!EntryMatches(Calendar!InWeek(Calendar!LAST_WEEK_OF_MONTH), date) <=>
          ~Calendar!SameMonth(today, today + 7)
    <3>1. Calendar!SameMonth(today, today + 7) <=> k + 7 \in 1..Days(y, m)
      BY <2>0, <2>1, SameMonthIs
    <3>. QED  BY <2>2, <2>3, <3>1
  <2>6. \A week \in 1..5 :
          Calendar!EntryMatches(Calendar!InWeek(week), date) <=>
            Calendar!Cardinality({j \in 1..5 : Calendar!SameMonth(today, today - (7 * j))})
              = week - 1
    <3>1. Calendar!Cardinality({j \in 1..5 : Calendar!SameMonth(today, today - (7 * j))})
            = (k - 1) \div 7
      BY <2>0, <2>1, WeeksBefore DEF Calendar!Cardinality, Cardinality
    <3>2. \A week \in 1..5 : week = (k + 6) \div 7 <=> (k - 1) \div 7 = week - 1
      BY <2>2
    <3>. QED  BY <2>3, <3>1, <3>2
  <2>7. Calendar!Covers({Calendar!EveryYear(Calendar!ODD_DAYS)}, date) <=>
          ~Calendar!Covers({Calendar!EveryYear(Calendar!EVEN_DAYS)}, date)
    <3>1. k % 2 = 1 <=> ~(k % 2 = 0)
      BY <2>2
    <3>. QED  BY <2>3, <3>1 DEF Calendar!Covers
  <2>8. Calendar!Covers({Calendar!EveryYear(day) : day \in 1..31}, date)
    BY <2>2, <2>3 DEF Calendar!Covers
  <2>9. ASSUME NEW range \in Ranges
        PROVE  Calendar!EntryMatches(Calendar!Between(range), date) <=>
                 /\ range[1] # None => range[1] <= today
                 /\ range[2] # None => today <= range[2]
    <3>. DEFINE entry == Calendar!Between(range)
    <3>1. range[1] \in Nat \cup {None} /\ range[2] \in Nat \cup {None}
      BY DEF Calendar!CalendarAssumption
    <3>2. /\ entry.kind = "DateRange" /\ entry.start = Calendar!Bound(range[1])
          /\ entry.end = Calendar!Bound(range[2])
      BY DEF Calendar!Between
    <3>. HIDE DEF entry
    <3>3. Calendar!EntryMatches(entry, date) <=> Calendar!Contains(entry, date)
      BY <3>2 DEF Calendar!EntryMatches
    <3>4. /\ Calendar!CalendarOrdinal(date) # None
          /\ Calendar!NotAfter(Calendar!CalendarOrdinal(entry.start), Calendar!CalendarOrdinal(date))
               <=> (range[1] # None => range[1] <= today)
          /\ Calendar!NotAfter(Calendar!CalendarOrdinal(date), Calendar!CalendarOrdinal(entry.end))
               <=> (range[2] # None => today <= range[2])
      BY <2>0, <3>1, <3>2, EndsAre DEF date
    <3>. QED  BY <3>3, <3>4 DEF Calendar!Contains, entry
  <2>. QED
    BY <2>4, <2>5, <2>6, <2>7, <2>8, <2>9 DEF Calendar!EntriesNameTheirDays, date
<1>. QED  BY <1>1, <1>2, <1>3, PTL DEF Calendar!Spec

=============================================================================
