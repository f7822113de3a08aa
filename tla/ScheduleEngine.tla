--------------------------- MODULE ScheduleEngine ---------------------------
(***************************************************************************)
(* The engine that drives Schedule objects (src/schedule/mod.rs): a        *)
(* tick refreshes every Calendar, then evaluates one Schedule after the    *)
(* other (src/object/schedule.rs) and writes the value of those it         *)
(* changed to their targets.  Every one of these is a call of its own into *)
(* the database, and clients write schedules, calendars and targets, and   *)
(* the host adds and removes schedules, between any two of them.           *)
(*                                                                         *)
(* Dates and times are small numbers.  A target is the command priorities  *)
(* of the property a schedule refers to.                                   *)
(***************************************************************************)
EXTENDS Integers, Sequences, FiniteSets, SequencesExt

CONSTANTS None,       \* no value, which is also the value Null
          Calendars,  \* identifiers of calendars
          Schedules,  \* and of schedules
          Targets,    \* what schedules refer to
          Foreign,    \* those of Targets that the database refuses to write
          Dates,      \* [day, weekday] records the host ticks with
          Times,      \* times of day
          DateLists,  \* what clients write to calendars: sets of days
          Written,    \* schedules the host adds and clients write
          Priorities, \* command priorities in use
          Values,     \* what clients command and park schedules on
          MaxCalls    \* how many ticks, writes, additions and removals there are

VARIABLES calendars,  \* calendar -> its dates and its Present_Value
          schedules,  \* the schedules there are -> what they hold
          targets,    \* target -> the values commanded at the priorities
          primed,     \* the schedules the engine has driven
          tick,       \* how far the engine is with its tick
          calls,      \* how many calls there were
          untouched,  \* history: schedules that were driven, and where nobody interfered
          fresh       \* history: schedules evaluated on what is still the case

vars == <<calendars, schedules, targets, primed, tick, calls, untouched, fresh>>

-----------------------------------------------------------------------------
(* What a schedule commands *)

\* The latest entry whose time has come; of several at one time, the last.
ValueAtTime(entries, time) ==
  LET due == {i \in DOMAIN entries : entries[i].time <= time}
      latest == CHOOSE i \in due :
                  \A j \in due : \/ entries[j].time < entries[i].time
                                 \/ entries[j].time = entries[i].time /\ j <= i
  IN  IF due = {} THEN None ELSE entries[latest].value

Covers(dates, date) == date.day \in dates

\* Events that hold for the date or a calendar does, the smallest priority first, and
\* in their order where that is equal.
ActiveExceptions(exceptions, date, active) ==
  LET holds(i) == LET event == exceptions[i]
                  IN  IF event.calendar = None THEN Covers(event.dates, date)
                                               ELSE event.calendar \in active
      precedes(i, j) == LET a == exceptions[i].priority
                            b == exceptions[j].priority
                        IN  a < b \/ (a = b /\ i < j)
      order == SetToSortSeq({i \in DOMAIN exceptions : holds(i)}, precedes)
  IN  [k \in DOMAIN order |-> exceptions[order[k]]]

Weekday(weekly, date) ==
  IF date.weekday \in DOMAIN weekly THEN <<weekly[date.weekday]>> ELSE <<>>

\* The days of entries that are asked one after the other; an entry of Null leaves the
\* decision to the next.
Decided(exceptions, weekly, date, time, active) ==
  LET events == ActiveExceptions(exceptions, date, active)
      days == [k \in DOMAIN events |-> events[k].entries] \o Weekday(weekly, date)
  IN  SelectSeq([k \in DOMAIN days |-> ValueAtTime(days[k], time)], LAMBDA value : value # None)

ValueAt(schedule, date, time, active) ==
  LET decided == Decided(schedule.exceptions, schedule.weekly, date, time, active)
  IN  IF Covers(schedule.period, date) /\ decided # <<>> THEN decided[1] ELSE schedule.default

-----------------------------------------------------------------------------
(* The engine *)

Resting == [at |-> "rest"]
Rests == tick.at = "rest"

Init ==
  /\ calendars = [c \in Calendars |-> [dates |-> {}, value |-> FALSE]]
  /\ schedules = <<>>
  /\ targets = [t \in Targets |-> [p \in Priorities |-> None]]
  /\ primed = {} /\ untouched = {} /\ fresh = {}
  /\ tick = Resting
  /\ calls = 0

Called == calls < MaxCalls /\ calls' = calls + 1

Tick(date, time) ==
  /\ Called /\ Rests
  /\ tick' = [at |-> "calendars", date |-> date, time |-> time, left |-> Calendars, active |-> {}]
  /\ fresh' = {}
  /\ UNCHANGED <<calendars, schedules, targets, primed, untouched>>

\* The next calendar takes today's answer.
Refresh(c) ==
  /\ tick.at = "calendars" /\ c \in tick.left
  /\ LET covers == Covers(calendars[c].dates, tick.date)
     IN  /\ calendars' = [calendars EXCEPT ![c].value = covers]
         /\ tick' = [tick EXCEPT !.left = @ \ {c},
                                 !.active = IF covers THEN @ \cup {c} ELSE @]
  /\ UNCHANGED <<schedules, targets, primed, calls, untouched, fresh>>

\* A mutant of the next: schedules are evaluated before the calendars are refreshed.
ListSchedulesFirst ==
  /\ tick.at = "calendars"
  /\ tick' = [tick EXCEPT !.at = "schedules", !.left = DOMAIN schedules]
  /\ UNCHANGED <<calendars, schedules, targets, primed, calls, untouched, fresh>>

ListSchedules ==
  /\ tick.at = "calendars" /\ tick.left = {}
  /\ tick' = [tick EXCEPT !.at = "schedules", !.left = DOMAIN schedules]
  /\ UNCHANGED <<calendars, schedules, targets, primed, calls, untouched, fresh>>

\* What is written: the value, to the targets and at the priority of this moment.
Writing(s, value) ==
  [value |-> value, targets |-> schedules[s].targets, priority |-> schedules[s].priority]

Skips(s, value) == value = schedules[s].value /\ s \in primed

\* A schedule that was removed meanwhile, or is out of service, or has nothing new to
\* say to targets it has written before, is passed over.
Evaluate(s) ==
  /\ tick.at = "schedules" /\ s \in tick.left
  /\ LET passed == [tick EXCEPT !.left = @ \ {s}]
         value == ValueAt(schedules[s], tick.date, tick.time, tick.active)
         writing == Writing(s, value)
         drives == [at |-> "writes", schedule |-> s, value |-> writing.value,
                    targets |-> writing.targets, priority |-> writing.priority, then |-> passed]
     IN  IF s \notin DOMAIN schedules \/ schedules[s].parked
           THEN tick' = passed /\ UNCHANGED <<schedules, primed, untouched, fresh>>
           ELSE /\ fresh' = fresh \cup {s}
                /\ IF Skips(s, value)
                     THEN tick' = passed /\ UNCHANGED <<schedules, primed, untouched>>
                     ELSE /\ schedules' = [schedules EXCEPT ![s].value = value]
                          /\ primed' = primed \cup {s}
                          /\ untouched' = untouched \cup {s}
                          /\ tick' = drives
  /\ UNCHANGED <<calendars, targets, calls>>

\* Schedules that take a target of another as their own.
Shares(s, target, priority) ==
  {r \in DOMAIN schedules \ {s} : schedules[r].priority = priority
                                   /\ target \in ToSet(schedules[r].targets)}

\* The next target takes the value or refuses it; nobody tries again.
WriteTarget ==
  /\ tick.at = "writes" /\ tick.targets # <<>>
  /\ LET target == Head(tick.targets)
     IN  IF target \in Foreign
           THEN /\ untouched' = untouched \ {tick.schedule}
                /\ UNCHANGED targets
           ELSE /\ targets' = [targets EXCEPT ![target][tick.priority] = tick.value]
                /\ untouched' = untouched \ Shares(tick.schedule, target, tick.priority)
  /\ tick' = [tick EXCEPT !.targets = Tail(@)]
  /\ UNCHANGED <<calendars, schedules, primed, calls, fresh>>

Driven ==
  /\ tick.at = "writes" /\ tick.targets = <<>>
  /\ tick' = tick.then
  /\ UNCHANGED <<calendars, schedules, targets, primed, calls, untouched, fresh>>

TickEnds ==
  /\ tick.at = "schedules" /\ tick.left = {}
  /\ tick' = [at |-> "rest", date |-> tick.date, time |-> tick.time]
  /\ UNCHANGED <<calendars, schedules, targets, primed, calls, untouched, fresh>>

-----------------------------------------------------------------------------
(* Clients and the host *)

\* The engine is not told, and takes a schedule under a known identifier for driven.
AddSchedule(s, schedule) ==
  /\ Called /\ s \notin DOMAIN schedules
  /\ schedules' = [r \in DOMAIN schedules \cup {s} |-> IF r = s THEN schedule ELSE schedules[r]]
  /\ untouched' = untouched \ {s} /\ fresh' = fresh \ {s}
  /\ UNCHANGED <<calendars, targets, primed, tick>>

RemoveSchedule(s) ==
  /\ Called /\ s \in DOMAIN schedules
  /\ schedules' = [r \in DOMAIN schedules \ {s} |-> schedules[r]]
  /\ untouched' = untouched \ {s} /\ fresh' = fresh \ {s}
  /\ UNCHANGED <<calendars, targets, primed, tick>>

\* A client writes one of the properties; Present_Value only out of service.
WriteSchedule(s, field, value) ==
  /\ Called /\ s \in DOMAIN schedules /\ value # schedules[s][field]
  /\ field = "value" => schedules[s].parked
  /\ schedules' = [schedules EXCEPT ![s][field] = value]
  /\ untouched' = IF field \in {"value", "targets", "priority"} THEN untouched \ {s}
                                                               ELSE untouched
  /\ fresh' = fresh \ {s}
  /\ UNCHANGED <<calendars, targets, primed, tick>>

WriteDateList(c, dates) ==
  /\ Called /\ dates # calendars[c].dates
  /\ calendars' = [calendars EXCEPT ![c].dates = dates]
  /\ UNCHANGED <<schedules, targets, primed, tick, untouched, fresh>>

\* A client commands a target at the priority of a schedule.
CommandTarget(target, priority, value) ==
  /\ Called /\ targets[target][priority] # value
  /\ targets' = [targets EXCEPT ![target][priority] = value]
  /\ untouched' = untouched \ Shares(None, target, priority)
  /\ UNCHANGED <<calendars, schedules, primed, tick, fresh>>

Next ==
  \/ \E date \in Dates, time \in Times : Tick(date, time)
  \/ \E c \in Calendars : Refresh(c)
  \/ ListSchedules
  \/ \E s \in Schedules : Evaluate(s)
  \/ WriteTarget
  \/ Driven
  \/ TickEnds
  \/ \E s \in Schedules, schedule \in Written : AddSchedule(s, schedule)
  \/ \E s \in Schedules : RemoveSchedule(s)
  \/ \E s \in Schedules, schedule \in Written : \E field \in DOMAIN schedule \ {"value"} :
       WriteSchedule(s, field, schedule[field])
  \/ \E s \in Schedules, v \in Values : WriteSchedule(s, "value", v)
  \/ \E c \in Calendars, dates \in DateLists : WriteDateList(c, dates)
  \/ \E t \in Targets \ Foreign, p \in Priorities, v \in Values : CommandTarget(t, p, v)

Spec == Init /\ [][Next]_vars

-----------------------------------------------------------------------------
(* Properties *)

\* What the host adds and clients write are schedules.
IsSchedule(schedule) ==
  /\ DOMAIN schedule = {"value", "default", "period", "weekly", "exceptions", "targets",
                        "priority", "parked"}
  /\ schedule.targets \in Seq(Targets) /\ schedule.priority \in Priorities

SchedulesFit == None \notin Schedules /\ \A schedule \in Written : IsSchedule(schedule)

\* The round of a tick the engine is at, or returns to when it has written the targets.
Round == IF tick.at = "writes" THEN tick.then ELSE tick

RoundFields == {"at", "date", "time", "left", "active"}

\* Everything keeps its shape, and what the engine is at is one of the steps of a tick.
TypeOK ==
  /\ DOMAIN calendars = Calendars /\ \A c \in Calendars : DOMAIN calendars[c] = {"dates", "value"}
  /\ DOMAIN schedules \subseteq Schedules
  /\ \A s \in DOMAIN schedules : IsSchedule(schedules[s])
  /\ DOMAIN targets = Targets /\ \A target \in Targets : DOMAIN targets[target] = Priorities
  /\ primed \subseteq Schedules /\ untouched \subseteq primed \cap DOMAIN schedules
  /\ tick.at \in {"rest", "calendars", "schedules", "writes"}
  /\ tick.at \in {"calendars", "schedules", "writes"} => DOMAIN Round = RoundFields
  /\ tick.at = "calendars" => tick.left \subseteq Calendars
  /\ tick.at = "writes" =>
       /\ DOMAIN tick = {"at", "schedule", "value", "targets", "priority", "then"}
       /\ tick.targets \in Seq(Targets) /\ tick.priority \in Priorities
       /\ tick.then.at = "schedules"

\* Between ticks, a schedule in service commands what it should at the last tick's
\* date and time, with every calendar as its own Present_Value says, unless it was
\* written since it was evaluated: no schedule is evaluated before a calendar it may
\* refer to has its answer for the day.
ScheduleFollowsCalendar ==
  Rests => \A s \in fresh \cap DOMAIN schedules :
    schedules[s].value
      = ValueAt(schedules[s], tick.date, tick.time, {c \in Calendars : calendars[c].value})

\* Between ticks, every target of a schedule the engine has driven holds the schedule's
\* value at its priority, if it took the last write and nobody has written the target,
\* the schedule's value, its priority or its list of targets since.
TargetsFollowSchedule ==
  Rests => \A s \in untouched : \A target \in ToSet(schedules[s].targets) :
    targets[target][schedules[s].priority] = schedules[s].value

\* What is scheduled for the day is what the targets are told.
TargetsFollowCalendar == ScheduleFollowsCalendar /\ TargetsFollowSchedule

-----------------------------------------------------------------------------
(* What makes them hold *)

Active == {c \in Calendars : calendars[c].value}

\* Calendars have today's answer one by one, and no schedule is evaluated before all have;
\* from then on a fresh schedule's value is what those answers make it.
CalendarsInv ==
  /\ tick.at = "calendars" => fresh = {} /\ tick.active = Active \ tick.left
  /\ tick.at \in {"schedules", "writes"} => Round.active = Active
  /\ tick.at # "calendars" =>
       \A s \in fresh \cap DOMAIN schedules :
         schedules[s].value = ValueAt(schedules[s], Round.date, Round.time, Active)

\* The targets of a schedule nobody interfered with hold its value, but for those that are
\* still to be written; and what is written is its value, at its priority.
TargetsInv ==
  /\ \A s \in untouched : \A target \in ToSet(schedules[s].targets) :
       \/ tick.at = "writes" /\ tick.schedule = s /\ target \in ToSet(tick.targets)
       \/ targets[target][schedules[s].priority] = schedules[s].value
  /\ tick.at = "writes" /\ tick.schedule \in untouched =>
       /\ schedules[tick.schedule].value = tick.value
       /\ schedules[tick.schedule].priority = tick.priority

=============================================================================
