----------------------------- MODULE MCObjects -----------------------------
(***************************************************************************)
(* Three small sites.  At "points" one client writes everything a point of *)
(* every family has, and the other objects' properties.  At "classes" two  *)
(* clients write a notification class and an analog value at a time.  At   *)
(* "schedules" the schedule engine runs next to the clients of schedules.  *)
(***************************************************************************)
EXTENDS ObjectService

CONSTANTS t1, t2, phone, panel,
          Times, DateLists, Priorities, Values, MaxCalls,
          calendar, lamp, foreign

VARIABLES calendars, schedules, targets, primed, tick, calls, untouched, fresh

-----------------------------------------------------------------------------
(* The sites *)

Text(x) == V("CharacterString", x)
Real(x) == V("Real", x)
Number(x) == V("Unsigned", x)
Code(x) == V("Enumerated", x)
To(d) == V("Destination", d)

Alarmed(o) == [o EXCEPT !.alarm = TRUE]
Plainly(o) ==   \* neither commandable nor with a reliability
  [o EXCEPT !.commandable = FALSE, !.optional.reliability = FALSE]
Limited(o) == [o EXCEPT !.at.HighLimit = Real(1), !.at.CovIncrement = Real(1)]

Other(kind, at) == [kind |-> kind, at |-> at, capacity |-> 2, day_capacity |-> 1]
Named3(name) ==
  [ObjectIdentifier |-> V("ObjectIdentifier", name), ObjectName |-> Text(name),
   ObjectType |-> Code(0)]

Device ==
  Other("Device",
        And(Named3("device"),
             [p \in (DeviceServed([at |-> [Description |-> Text("a")]])) |->
                IF p \in {"ApduTimeout", "NumberOfApduRetries"} THEN Number(1) ELSE Text("a")]))
File == Other("File", And(Named3("file"), [Archive |-> V("Boolean", FALSE)]))
Class ==
  Other("NotificationClass",
        And(Named3("class"),
             [Description |-> Text("a"), NotificationClass |-> Number(1),
              Priority |-> V("Array", <<Number(1), Number(1), Number(1)>>),
              AckRequired |-> V("BitString", <<TRUE, TRUE, TRUE>>),
              RecipientList |-> V("List", <<>>)]))
Calendar ==
  Other("Calendar",
        And(Named3("calendar"),
             [Description |-> Text("a"), PresentValue |-> V("Boolean", FALSE),
              DateList |-> V("List", <<>>)]))
Schedule ==
  Other("Schedule",
        And(Named3("schedule"),
             [Description |-> Text("a"), PresentValue |-> Null, ScheduleDefault |-> Null,
              EffectivePeriod |-> V("DateRange", <<>>), WeeklySchedule |-> V("Array", <<>>),
              ExceptionSchedule |-> V("Array", <<>>), PriorityForWriting |-> Number(Slots),
              ListOfObjectPropertyReferences |-> V("List", <<>>),
              Reliability |-> Code(NoFault), OutOfService |-> V("Boolean", FALSE)]))

MCIds == {"device", "ai", "ao", "av", "bi", "bo", "bv", "mi", "mo", "mv", "file", "class",
          "calendar", "schedule"}

MCSites ==
  [points |->
     [device |-> Device, file |-> File, calendar |-> Calendar, schedule |-> Schedule,
      ai |-> Alarmed(Limited(NewAnalogInput("ai"))), ao |-> NewAnalogOutput("ao"),
      bi |-> Plainly(NewBinaryInput("bi")), bo |-> Alarmed(NewBinaryOutput("bo")),
      bv |-> NewBinaryValue("bv"), mi |-> NewMultiStateInput("mi", 2),
      mo |-> Alarmed(NewMultiStateOutput("mo", 2)), mv |-> Plainly(NewMultiStateValue("mv", 2))],
   classes |->
     [device |-> Device, class |-> Class,
      av |-> Alarmed(Limited(NewAnalogValue("av")))],
   schedules |-> [device |-> Device]]

-----------------------------------------------------------------------------
(* What clients ask *)

Write(id, p, index, payload, priority) ==
  [id |-> id, property |-> p, index |-> index, payload |-> payload, priority |-> priority]

Plain(id, p, values) == {<<Write(id, p, None, <<v>>, None)>> : v \in values}
Commands(id, values) ==
  {<<Write(id, "PresentValue", None, <<v>>, priority)>> : v \in values, priority \in {None, 1}}

Day == V("DailySchedule", 1)
Special(priority) == V("SpecialEvent", [priority |-> priority, entries |-> 1])
Days == [i \in 1..7 |-> Day]

PointWrites ==
  Commands("ao", {Real(0), Null, Code(0)})
    \cup Commands("bo", {Code(0), Code(2), Null}) \cup Commands("bv", {Code(1), Null})
    \cup Commands("mo", {Number(2), Number(3), Null}) \cup Commands("mv", {Number(2), Null})
    \cup UNION {Plain(id, "OutOfService", {V("Boolean", TRUE)}) : id \in {"ai", "bi", "mi"}}
    \cup Plain("ai", "PresentValue", {Real(0)}) \cup Plain("bi", "PresentValue", {Code(0)})
    \cup Plain("mi", "PresentValue", {Number(2), Number(U32Max + 1)})
    \cup Plain("ai", "HighLimit", {Null, Real(0)}) \cup Plain("ai", "Deadband", {Real(1)})
    \cup Plain("ai", "CovIncrement", {Real(-1), Real(0)}) \cup Plain("ao", "CovIncrement", {Real(0)})
    \cup Plain("ai", "TimeDelay", {Number(1), Number(U32Max + 1)})
    \cup Plain("ai", "NotifyType", {Code(1), Code(2), Code(3)})
    \cup Plain("ai", "Units", {Code(1)}) \cup Plain("bo", "AlarmValue", {V("Boolean", FALSE), Code(2)})
    \cup Plain("mo", "AlarmValues", {Number(1)}) \cup Plain("mi", "TimeDelay", {Number(1)})
    \cup Plain("bi", "ObjectName", {Text("ai"), Text("b")}) \cup Plain("bi", "Reliability", {Code(1)})
    \cup Plain("device", "ApduTimeout", {Number(2), Number(U32Max + 1)})
    \cup Plain("device", "NumberOfApduRetries", {Number(U8Max + 1)})
    \cup Plain("device", "ObjectName", {Text("b")}) \cup Plain("device", "ModelName", {Text("b")})
    \cup Plain("file", "Archive", {V("Boolean", TRUE), Null}) \cup Plain("none", "Archive", {Null})
    \cup {<<Write("calendar", "DateList", None, dates, None)>> :
            dates \in {<<V("CalendarEntry", 1)>>, <<V("Date", 1), V("Date", 2), V("Date", 3)>>}}
    \cup Plain("schedule", "PresentValue", {Real(1)}) \cup Plain("schedule", "OutOfService", {V("Boolean", TRUE)})
    \cup Plain("schedule", "ScheduleDefault", {Real(1)}) \cup Plain("schedule", "PriorityForWriting", {Number(0)})
    \cup {<<Write("schedule", p, None, values, None)>> :
            p \in {"WeeklySchedule", "ExceptionSchedule"}, values \in {Days, <<Special(0)>>, <<Special(1)>>}}
    \cup {<<Write("ao", "PriorityArray", 1, <<Real(0)>>, None)>>,
          <<Write("schedule", "WeeklySchedule", 7, <<Day>>, None)>>,
          <<Write("ao", "PresentValue", None, <<Real(0)>>, 1),
            Write("mo", "PresentValue", None, <<Number(3)>>, 1),
            Write("bo", "PresentValue", None, <<Code(0)>>, 1)>>}

ClassWrites ==
  {<<Write("class", "Priority", i, <<Number(2)>>, None)>> : i \in 0..4}
    \cup {<<Write("class", "RecipientList", None, tos, None)>> :
            tos \in {<<To("device")>>, <<To("device"), To("ai")>>, <<To("bi"), To("bi"), To("bi")>>}}
    \cup {<<Write("class", "RecipientList", None, <<To("ai")>>, None),
            Write("class", "Priority", 1, <<Number(3)>>, None)>>}
    \cup Plain("av", "HighLimit", {Null, Real(0)}) \cup Plain("class", "Description", {Text("b"), Null})
    \cup Commands("av", {Null, Real(0)})

MCWrites ==
  [points |-> [t \in Threads |-> IF t = t1 THEN PointWrites ELSE {}],
   classes |-> [t \in Threads |-> ClassWrites],
   schedules |-> [t \in Threads |-> {}]]

MCReads ==
  [points |-> {},
   classes |-> {[id |-> "av", properties |-> {"All"}], [id |-> "device", properties |-> {"All", "Units"}],
                [id |-> "none", properties |-> {"All"}]},
   schedules |-> {}]

MCMaxAsked == [points |-> 2, classes |-> 3, schedules |-> 0]

MCReadings == {Real(0), Number(2)}

-----------------------------------------------------------------------------
(* The schedule engine *)

Item(time, value) == [time |-> time, value |-> value]
Event(dates, c, priority, entries) ==
  [dates |-> dates, calendar |-> c, priority |-> priority, entries |-> entries]
Scheduled ==
  [value |-> 0, default |-> 0, period |-> {1, 2}, weekly |-> <<<<Item(1, 1), Item(2, None)>>>>,
   exceptions |-> <<Event({}, calendar, 2, <<Item(2, 2)>>)>>, targets |-> <<lamp>>,
   priority |-> 1, parked |-> FALSE]
MCWritten ==
  {Scheduled, [Scheduled EXCEPT !.parked = TRUE, !.targets = <<foreign, lamp>>, !.priority = 2]}
MCDates == {[day |-> 1, weekday |-> 1], [day |-> 2, weekday |-> 2]}

E == INSTANCE ScheduleEngine WITH
       Calendars <- {calendar}, Schedules <- {"s1", "s2"}, Targets <- {lamp, foreign},
       Foreign <- {foreign}, Dates <- MCDates, Written <- MCWritten

\* What the engine's theorems assume of the schedules.
ASSUME EngineAssumption == E!SchedulesFit

engine == <<calendars, schedules, targets, primed, tick, calls, untouched, fresh>>

StoriesInit == Init /\ E!Init
ServiceStep == Next /\ UNCHANGED engine
ScheduleStep == site = "schedules" /\ E!Next /\ UNCHANGED vars
StoriesNext == ServiceStep \/ ScheduleStep
StoriesSpec == StoriesInit /\ [][StoriesNext]_<<vars, engine>>

\* The engine's property, under its name.
TargetsFollowCalendar == E!TargetsFollowCalendar

=============================================================================
