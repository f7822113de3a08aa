------------------------------ MODULE Objects ------------------------------
(***************************************************************************)
(* The objects of a device as their clients see them: which properties an  *)
(* object of each kind serves, lists and calls writable, and what a read,  *)
(* a write, a command at a priority, a reading from its source and a local *)
(* override do to it (src/object).                                         *)
(*                                                                         *)
(* A value is a pair of its type and a datum.  An object is a record: "at" *)
(* holds the stored properties, and the rest is state no property stands   *)
(* for alone.  What an operation refuses is told by the name of the error. *)
(* A 64 bit number that fits in no 32 bits is one above U32Max.            *)
(*                                                                         *)
(* Where the guards of a CASE overlap, they are asked in their order, as   *)
(* the code does and TLC does; no theorem depends on it.                   *)
(***************************************************************************)
EXTENDS Integers, Sequences

CONSTANTS None,    \* the absence of a value
          Slots,   \* how many priorities there are: 16 in the code
          U8Max,   \* the numbers that stand for the largest of 8 bits
          U32Max   \* and of 32 bits

ASSUME SlotsAssumption == Slots \in Nat \ {0}
ASSUME WidthsAssumption == U8Max \in Nat /\ U32Max \in Nat /\ U8Max <= U32Max
\* The absence of an error is none of the errors.
ASSUME NoneAssumption ==
  None \notin {"InvalidPropertyType", "InvalidValue", "NotFound", "UnknownProperty",
               "PropertyIsNotArray", "WriteAccessDenied", "InvalidArrayIndex"}

-----------------------------------------------------------------------------
(* Values and answers *)

V(type, datum) == <<type, datum>>
Type(v) == v[1]
Datum(v) == v[2]
Null == V("Null", 0)

Ok(o) == [answer |-> "ok", object |-> o]
Refuse(error, o) == [answer |-> error, object |-> o]

\* Stores v in property p if it has one of the types.
Stored(o, p, v, types) ==
  IF Type(v) \in types THEN Ok([o EXCEPT !.at[p] = v]) ELSE Refuse("InvalidPropertyType", o)

-----------------------------------------------------------------------------
(* What the kinds share *)

\* Description and Reliability are there when the object was configured with them.
Has(o, p) ==
  /\ p = "Description" => o.optional.description
  /\ p = "Reliability" => o.optional.reliability

CommonWritable == {"ObjectName", "Description", "Reliability", "OutOfService"}
CommonServed ==
  CommonWritable \cup {"ObjectIdentifier", "ObjectType", "StatusFlags", "EventState"}

CommonTypes ==
  [ObjectName |-> {"CharacterString"}, Description |-> {"CharacterString"},
   Reliability |-> {"Enumerated"}, OutOfService |-> {"Boolean"}]

CommonSet(o, p, v) ==
  IF Has(o, p) THEN Stored(o, p, v, CommonTypes[p]) ELSE Refuse("UnknownProperty", o)

IntrinsicWritable ==
  {"NotificationClass", "TimeDelay", "TimeDelayNormal", "EventEnable", "NotifyType",
   "EventDetectionEnable"}
IntrinsicListed == IntrinsicWritable \cup {"AckedTransitions", "EventTimeStamps"}

\* A stored property, and for Time_Delay_Normal what stands in for it.
IntrinsicGet(o, p) ==
  IF p = "TimeDelayNormal" /\ o.at[p] = Null THEN o.at.TimeDelay ELSE o.at[p]

IntrinsicTypes ==
  [NotificationClass |-> {"Unsigned"}, TimeDelay |-> {"Unsigned"},
   TimeDelayNormal |-> {"Unsigned", "Null"}, EventEnable |-> {"BitString"},
   NotifyType |-> {"Enumerated"}, EventDetectionEnable |-> {"Boolean"}]

\* Alarm (0) and event (1) configure an object; ack-notification (2) does not.
IntrinsicSet(o, p, v) ==
  CASE p \notin IntrinsicWritable -> Refuse("PropertyNotWritable", o)
    [] Type(v) = "Unsigned" /\ Datum(v) > U32Max -> Refuse("InvalidPropertyType", o)
    [] p = "NotifyType" /\ v = V("Enumerated", 2) -> Refuse("InvalidValue", o)
    [] p = "NotifyType" /\ Type(v) = "Enumerated" /\ Datum(v) > 2 ->
         Refuse("InvalidPropertyType", o)
    [] OTHER -> Stored(o, p, v, IntrinsicTypes[p])

NormalState == 0
FaultState == 1
NoFault == 0

\* In alarm, in fault, overridden, out of service.
StatusFlags(event_state, reliability, overridden, out_of_service) ==
  V("BitString",
    <<event_state # NormalState, reliability # NoFault \/ event_state = FaultState, overridden,
      out_of_service>>)

\* The value commanded at the highest priority that has one.
Commanded(slots, default) ==
  LET taken == {i \in 1..Slots : slots[i] # None}
  IN  IF taken = {} THEN default ELSE slots[CHOOSE i \in taken : \A j \in taken : i <= j]

\* A mutant of the next: the last command wins, whatever its priority.
WriteSlotLast(o, priority, datum) ==
  IF priority \in 1..Slots
    THEN Ok([o EXCEPT !.slots[priority] = datum, !.value = IF datum = None THEN o.default ELSE datum])
    ELSE Refuse("InvalidValue", o)

WriteSlot(o, priority, datum) ==
  LET slots == [o.slots EXCEPT ![priority] = datum]
  IN  IF priority \in 1..Slots
        THEN Ok([o EXCEPT !.slots = slots, !.value = Commanded(slots, o.default)])
        ELSE Refuse("InvalidValue", o)

\* What is read while an operator at the panel overrides the object.
PresentDatum(o) == IF o.local = None THEN o.value ELSE o.local.value
Overridden(o) == o.overridden \/ o.local # None
PermitsWrite(o) == o.local = None \/ o.local.writes = "Accepted"

SlotsOf(o, type) ==
  V("Array", [i \in 1..Slots |-> IF o.slots[i] = None THEN Null ELSE V(type, o.slots[i])])

-----------------------------------------------------------------------------
(* Analog objects *)

AnalogLimits(o) == {p \in {"HighLimit", "LowLimit"} : o.at[p] # Null}

\* Limits that are not set are no properties; Deadband and Limit_Enable are there
\* with the alarm, and listed with the limits.
AnalogAlarmServed(o) == IntrinsicListed \cup {"Deadband", "LimitEnable"} \cup AnalogLimits(o)
\* A mutant of the next: limits are listed whether they are set or not.
AnalogAlarmListedAll(o) ==
  IntrinsicListed \cup {"Deadband", "LimitEnable", "HighLimit", "LowLimit"}
AnalogAlarmListed(o) ==
  IntrinsicListed
    \cup (IF AnalogLimits(o) = {} THEN {} ELSE {"Deadband", "LimitEnable"} \cup AnalogLimits(o))
AnalogAlarmWritable == IntrinsicWritable \cup {"HighLimit", "LowLimit", "Deadband"}

LimitEnable(o) == V("BitString", <<o.at.LowLimit # Null, o.at.HighLimit # Null>>)

AnalogAlarmSet(o, p, v) ==
  CASE p \in {"HighLimit", "LowLimit"} -> Stored(o, p, v, {"Real", "Null"})
    [] p = "Deadband" -> Stored(o, p, v, {"Real"})
    [] p \in IntrinsicListed -> IntrinsicSet(o, p, v)
    [] OTHER -> Refuse("PropertyNotWritable", o)

AnalogIncrement(o) == {p \in {"CovIncrement"} : o.at[p] # Null}
AnalogOwn(o) == {"PresentValue", "Units"} \cup AnalogIncrement(o)
AnalogServed(o) == AnalogOwn(o) \cup (IF o.alarm THEN AnalogAlarmServed(o) ELSE {})
AnalogListed(o) == AnalogOwn(o) \cup (IF o.alarm THEN AnalogAlarmListed(o) ELSE {})
AnalogWritable(o) == AnalogIncrement(o) \cup (IF o.alarm THEN AnalogAlarmWritable ELSE {})

AnalogSet(o, p, v) ==
  CASE p = "CovIncrement" /\ o.at[p] = Null -> Refuse("UnknownProperty", o)
    [] p = "CovIncrement" /\ Type(v) = "Real" /\ Datum(v) < 0 -> Refuse("InvalidValue", o)
    [] p = "CovIncrement" -> Stored(o, p, v, {"Real"})
    [] OTHER -> IF o.alarm THEN AnalogAlarmSet(o, p, v) ELSE Refuse("PropertyNotWritable", o)

AnalogMisfit(v) == IF Type(v) = "Real" THEN None ELSE "InvalidPropertyType"

-----------------------------------------------------------------------------
(* Binary objects *)

BinaryOwn == {"PresentValue", "InactiveText", "ActiveText"}
BinaryAlarmListed == IntrinsicListed \cup {"AlarmValue"}
BinaryAlarmWritable == IntrinsicWritable \cup {"AlarmValue"}
BinaryServed(o) == BinaryOwn \cup (IF o.alarm THEN BinaryAlarmListed ELSE {})
BinaryListed(o) == BinaryOwn \cup (IF o.alarm THEN BinaryAlarmListed ELSE {})
BinaryWritable(o) == IF o.alarm THEN BinaryAlarmWritable ELSE {}

\* Inactive and active, which a client may also write as a Boolean.
BinaryStates == {V("Enumerated", 0), V("Enumerated", 1)}
BinaryAlarmSet(o, p, v) ==
  CASE p = "AlarmValue" /\ v \in BinaryStates -> Ok([o EXCEPT !.at[p] = v])
    [] p = "AlarmValue" /\ Type(v) = "Boolean" ->
         Ok([o EXCEPT !.at[p] = V("Enumerated", IF Datum(v) THEN 1 ELSE 0)])
    [] p = "AlarmValue" -> Refuse("InvalidPropertyType", o)
    [] p \in IntrinsicListed -> IntrinsicSet(o, p, v)
    [] OTHER -> Refuse("PropertyNotWritable", o)

BinarySet(o, p, v) ==
  IF o.alarm THEN BinaryAlarmSet(o, p, v) ELSE Refuse("PropertyNotWritable", o)

BinaryMisfit(v) ==
  CASE v \in BinaryStates -> None
    [] Type(v) = "Enumerated" -> "InvalidValue"
    [] OTHER -> "InvalidPropertyType"

-----------------------------------------------------------------------------
(* Multi-state objects *)

MultistateOwn == {"PresentValue", "NumberOfStates", "StateText"}
MultistateAlarm(o) == IF o.alarm THEN IntrinsicListed \cup {"AlarmValues"} ELSE {}
MultistateServed(o) == MultistateOwn \cup MultistateAlarm(o)
MultistateListed(o) == MultistateOwn \cup MultistateAlarm(o)
MultistateWritable(o) == IF o.alarm THEN IntrinsicWritable \cup {"AlarmValues"} ELSE {}

IsStates(v) ==
  /\ Type(v) \in {"Array", "List"}
  /\ \A i \in DOMAIN Datum(v) : Type(Datum(v)[i]) = "Unsigned" /\ Datum(Datum(v)[i]) <= U32Max

\* Alarm_Values is written whether or not the object has an alarm.
MultistateSet(o, p, v) ==
  CASE p = "AlarmValues" /\ IsStates(v) -> Ok([o EXCEPT !.at[p] = V("List", Datum(v))])
    [] p = "AlarmValues" -> Refuse("InvalidPropertyType", o)
    [] p \in IntrinsicListed /\ o.alarm -> IntrinsicSet(o, p, v)
    [] OTHER -> Refuse("PropertyNotWritable", o)

MultistateMisfit(o, v) ==
  CASE Type(v) # "Unsigned" \/ Datum(v) > U32Max -> "InvalidPropertyType"
    [] Datum(v) \notin 1..o.states -> "InvalidValue"
    [] OTHER -> None

-----------------------------------------------------------------------------
(* The kinds of points: what each adds to what its family shares *)

Kind(family, device_type, role) == [family |-> family, device_type |-> device_type, role |-> role]

AnalogInput == Kind("Analog", TRUE, "input")
AnalogOutput == Kind("Analog", TRUE, "output")
AnalogValue == Kind("Analog", FALSE, "value")
BinaryInput == Kind("Binary", FALSE, "input")
BinaryOutput == Kind("Binary", FALSE, "output")
BinaryValue == Kind("Binary", FALSE, "value")
MultiStateInput == Kind("Multistate", TRUE, "input")
MultiStateOutput == Kind("Multistate", TRUE, "output")
MultiStateValue == Kind("Multistate", FALSE, "value")

Points ==
  [AnalogInput |-> AnalogInput, AnalogOutput |-> AnalogOutput, AnalogValue |-> AnalogValue,
   BinaryInput |-> BinaryInput, BinaryOutput |-> BinaryOutput, BinaryValue |-> BinaryValue,
   MultiStateInput |-> MultiStateInput, MultiStateOutput |-> MultiStateOutput,
   MultiStateValue |-> MultiStateValue]

\* The properties a new point holds, by family.
And(f, g) == [x \in DOMAIN f \cup DOMAIN g |-> IF x \in DOMAIN f THEN f[x] ELSE g[x]]
IntrinsicAt ==
  [NotificationClass |-> V("Unsigned", 1), TimeDelay |-> V("Unsigned", 0),
   TimeDelayNormal |-> Null, EventEnable |-> V("BitString", <<TRUE, TRUE, TRUE>>),
   AckedTransitions |-> V("BitString", <<TRUE, TRUE, TRUE>>), NotifyType |-> V("Enumerated", 0),
   EventDetectionEnable |-> V("Boolean", TRUE), EventTimeStamps |-> V("Array", <<>>)]
CommonAt(name) ==
  [ObjectIdentifier |-> V("ObjectIdentifier", name), ObjectName |-> V("CharacterString", name),
   ObjectType |-> V("Enumerated", 0), Description |-> V("CharacterString", ""),
   DeviceType |-> V("CharacterString", ""), EventState |-> V("Enumerated", NormalState),
   Reliability |-> V("Enumerated", NoFault), OutOfService |-> V("Boolean", FALSE)]
AnalogAt ==
  [Units |-> V("Enumerated", 0), CovIncrement |-> Null, HighLimit |-> Null, LowLimit |-> Null,
   Deadband |-> V("Real", 0)]
BinaryAt ==
  [InactiveText |-> V("CharacterString", "Inactive"), ActiveText |-> V("CharacterString", "Active"),
   AlarmValue |-> V("Enumerated", 1)]
MultistateAt(states) ==
  [NumberOfStates |-> V("Unsigned", states), AlarmValues |-> V("List", <<>>),
   StateText |-> V("Array", [i \in 1..states |-> V("CharacterString", "State")])]

New(kind, name, at, value, states) ==
  [kind |-> kind, at |-> And(And(CommonAt(name), IntrinsicAt), at), value |-> value,
   slots |-> [i \in 1..Slots |-> None], default |-> value, local |-> None, overridden |-> FALSE,
   alarm |-> FALSE, optional |-> [description |-> TRUE, reliability |-> TRUE],
   commandable |-> TRUE, states |-> states]

NewAnalogInput(name) == New("AnalogInput", name, AnalogAt, 0, None)
NewAnalogOutput(name) == New("AnalogOutput", name, AnalogAt, 0, None)
NewAnalogValue(name) == New("AnalogValue", name, AnalogAt, 0, None)
NewBinaryInput(name) == New("BinaryInput", name, BinaryAt, 0, None)
NewBinaryOutput(name) == New("BinaryOutput", name, BinaryAt, 0, None)
NewBinaryValue(name) == New("BinaryValue", name, BinaryAt, 0, None)
NewMultiStateInput(name, states) ==
  New("MultiStateInput", name, MultistateAt(states), 1, states)
NewMultiStateOutput(name, states) ==
  New("MultiStateOutput", name, MultistateAt(states), 1, states)
NewMultiStateValue(name, states) ==
  New("MultiStateValue", name, MultistateAt(states), 1, states)

IsPoint(o) == o.kind \in DOMAIN Points
Family(o) == Points[o.kind].family
Role(o) == Points[o.kind].role
IsCommandable(o) == Role(o) = "output" \/ (Role(o) = "value" /\ o.commandable)
DatumType(o) ==
  CASE Family(o) = "Analog" -> "Real"
    [] Family(o) = "Binary" -> "Enumerated"
    [] Family(o) = "Multistate" -> "Unsigned"

KindServed(o) ==
  (IF Points[o.kind].device_type THEN {"DeviceType"} ELSE {})
    \cup (IF IsCommandable(o) THEN {"PriorityArray", "RelinquishDefault"} ELSE {})

PointServed(o) ==
  {p \in CommonServed : Has(o, p)} \cup KindServed(o)
    \cup CASE Family(o) = "Analog" -> AnalogServed(o)
           [] Family(o) = "Binary" -> BinaryServed(o)
           [] Family(o) = "Multistate" -> MultistateServed(o)

PointListed(o) ==
  {p \in CommonServed : Has(o, p)} \cup KindServed(o)
    \cup CASE Family(o) = "Analog" -> AnalogListed(o)
           [] Family(o) = "Binary" -> BinaryListed(o)
           [] Family(o) = "Multistate" -> MultistateListed(o)

PointWritable(o) ==
  {p \in CommonWritable : Has(o, p)}
    \cup (IF Role(o) # "input" \/ Datum(o.at.OutOfService) THEN {"PresentValue"} ELSE {})
    \cup CASE Family(o) = "Analog" -> AnalogWritable(o)
           [] Family(o) = "Binary" -> BinaryWritable(o)
           [] Family(o) = "Multistate" -> MultistateWritable(o)

PointGet(o, p) ==
  CASE p = "PresentValue" -> V(DatumType(o), PresentDatum(o))
    [] p = "PriorityArray" -> SlotsOf(o, DatumType(o))
    [] p = "RelinquishDefault" -> V(DatumType(o), o.default)
    [] p = "StatusFlags" ->
         StatusFlags(Datum(o.at.EventState), Datum(o.at.Reliability), Overridden(o),
                     Datum(o.at.OutOfService))
    [] p = "LimitEnable" -> LimitEnable(o)
    [] OTHER -> IntrinsicGet(o, p)

Misfit(o, v) ==
  CASE Family(o) = "Analog" -> AnalogMisfit(v)
    [] Family(o) = "Binary" -> BinaryMisfit(v)
    [] Family(o) = "Multistate" -> MultistateMisfit(o, v)

\* What an input reads, or a value that is not commandable is given.
TakeReading(o, v) ==
  IF Misfit(o, v) = None THEN Ok([o EXCEPT !.value = Datum(v)]) ELSE Refuse(Misfit(o, v), o)

\* A command at a priority: Null relinquishes, and without a priority it is the lowest.
Command(o, v, priority) ==
  LET slot == IF priority = None THEN Slots ELSE priority
  IN  CASE ~PermitsWrite(o) -> Refuse("WriteAccessDenied", o)
        [] ~IsCommandable(o) -> TakeReading(o, v)
        [] v = Null -> WriteSlot(o, slot, None)
        [] Misfit(o, v) # None -> Refuse(Misfit(o, v), o)
        [] OTHER -> WriteSlot(o, slot, Datum(v))

\* Present_Value of an input is the client's only out of service.
PointSet(o, p, v, priority) ==
  CASE p = "PresentValue" /\ Role(o) # "input" -> Command(o, v, priority)
    [] p = "PresentValue" /\ Role(o) = "input" /\ Datum(o.at.OutOfService) -> TakeReading(o, v)
    [] p \in CommonWritable -> CommonSet(o, p, v)
    [] OTHER ->
         CASE Family(o) = "Analog" -> AnalogSet(o, p, v)
           [] Family(o) = "Binary" -> BinarySet(o, p, v)
           [] Family(o) = "Multistate" -> MultistateSet(o, p, v)

\* The host's own path to an input: out of service, it is decoupled.
SetSourcedValue(o, v) ==
  CASE Role(o) # "input" -> Refuse("OptionalFunctionalityNotSupported", o)
    [] Datum(o.at.OutOfService) -> Ok(o)
    [] OTHER -> TakeReading(o, v)

-----------------------------------------------------------------------------
(* Objects that are no points: what they serve is what they list *)

Sequenced == {"Array", "List"}
AllOf(v, types) == \A i \in DOMAIN Datum(v) : Type(Datum(v)[i]) \in types
WithinCapacity(length, capacity) == capacity = None \/ length <= capacity

\* A property that takes a sequence, all of whose entries have one of the types.
StoredAll(o, p, v, types, as, capacity) ==
  CASE Type(v) \notin Sequenced -> Refuse("InvalidPropertyType", o)
    [] ~AllOf(v, types) -> Refuse("InvalidPropertyType", o)
    [] ~WithinCapacity(Len(Datum(v)), capacity) -> Refuse("NoSpaceToWriteProperty", o)
    [] OTHER -> Ok([o EXCEPT !.at[p] = V(as, Datum(v))])

DeviceServed(o) ==
  {"ObjectIdentifier", "ObjectName", "ObjectType", "SystemStatus", "VendorName",
   "VendorIdentifier", "ModelName", "FirmwareRevision", "ApplicationSoftwareVersion",
   "ProtocolVersion", "ProtocolRevision", "ProtocolServicesSupported",
   "ProtocolObjectTypesSupported", "MaxApduLengthAccepted", "SegmentationSupported",
   "ApduTimeout", "NumberOfApduRetries", "DeviceAddressBinding", "DatabaseRevision"}
    \cup {p \in {"Description"} : o.at[p] # Null}
DeviceWritable == {"ObjectName", "ApduTimeout", "NumberOfApduRetries"}

DeviceSet(o, p, v) ==
  CASE p \notin DeviceWritable -> Refuse("PropertyNotWritable", o)
    [] p = "ObjectName" -> Stored(o, p, v, {"CharacterString"})
    [] Type(v) = "Unsigned" /\ Datum(v) > (IF p = "ApduTimeout" THEN U32Max ELSE U8Max) ->
         Refuse("InvalidPropertyType", o)
    [] OTHER -> Stored(o, p, v, {"Unsigned"})

FileServed == {"ObjectIdentifier", "ObjectName", "ObjectType", "Archive"}
FileWritable == {"ObjectName", "Archive"}
FileSet(o, p, v) ==
  CASE p = "ObjectName" -> Stored(o, p, v, {"CharacterString"})
    [] p = "Archive" -> Stored(o, p, v, {"Boolean"})
    [] OTHER -> Refuse("PropertyNotWritable", o)

ClassServed ==
  {"ObjectIdentifier", "ObjectName", "ObjectType", "Description", "NotificationClass",
   "Priority", "AckRequired", "RecipientList"}
ClassWritable == {"ObjectName", "Description", "Priority", "AckRequired", "RecipientList"}

ClassSet(o, p, v) ==
  CASE p \in {"ObjectName", "Description"} -> Stored(o, p, v, {"CharacterString"})
    [] p = "Priority" /\ Type(v) \in Sequenced /\ Len(Datum(v)) # 3 -> Refuse("InvalidValue", o)
    [] p = "Priority" /\ Type(v) \in Sequenced /\ ~IsStates(v) -> Refuse("InvalidPropertyType", o)
    [] p = "Priority" -> StoredAll(o, p, v, {"Unsigned"}, "Array", None)
    [] p = "AckRequired" -> Stored(o, p, v, {"BitString"})
    [] p = "RecipientList" -> StoredAll(o, p, v, {"Destination"}, "List", o.capacity)
    [] OTHER -> Refuse("PropertyNotWritable", o)

CalendarServed ==
  {"ObjectIdentifier", "ObjectName", "ObjectType", "Description", "PresentValue", "DateList"}
CalendarWritable == {"ObjectName", "Description", "DateList"}

\* A bare date stands for the calendar entry of that date.
Entry(v) == V("CalendarEntry", Datum(v))
CalendarSet(o, p, v) ==
  CASE p \in {"ObjectName", "Description"} -> Stored(o, p, v, {"CharacterString"})
    [] p = "DateList" /\ Type(v) \in Sequenced /\ AllOf(v, {"CalendarEntry", "Date"}) ->
         StoredAll(o, p, V("List", [i \in DOMAIN Datum(v) |-> Entry(Datum(v)[i])]),
                   {"CalendarEntry"}, "List", o.capacity)
    [] p = "DateList" -> Refuse("InvalidPropertyType", o)
    [] OTHER -> Refuse("PropertyNotWritable", o)

-----------------------------------------------------------------------------
(* Schedules: what clients see of them; what drives them is ScheduleEngine's *)

ScheduleServed ==
  {"ObjectIdentifier", "ObjectName", "ObjectType", "Description", "PresentValue",
   "EffectivePeriod", "WeeklySchedule", "ExceptionSchedule", "ScheduleDefault",
   "ListOfObjectPropertyReferences", "PriorityForWriting", "StatusFlags", "Reliability",
   "OutOfService"}

ScheduleWritable(o) ==
  ScheduleServed \ ({"ObjectIdentifier", "ObjectType", "StatusFlags"}
                       \cup {p \in {"PresentValue"} : ~Datum(o.at.OutOfService)})

\* Datum of a day: how many entries it has; of a special event: its priority and entries.
ScheduleMisfit(o, p, v) ==
  LET parts == IF Type(v) \in Sequenced THEN Datum(v) ELSE <<>>
  IN  CASE Type(v) \notin Sequenced -> "InvalidPropertyType"
        [] p = "WeeklySchedule" /\ Len(parts) # 7 -> "InvalidValue"
        [] p = "WeeklySchedule" /\ ~AllOf(v, {"DailySchedule"}) -> "InvalidPropertyType"
        [] p = "WeeklySchedule" /\ \E i \in DOMAIN parts :
             ~WithinCapacity(Datum(parts[i]), o.day_capacity) -> "NoSpaceToWriteProperty"
        [] p = "ExceptionSchedule" /\ ~AllOf(v, {"SpecialEvent"}) -> "InvalidPropertyType"
        [] p = "ExceptionSchedule" /\ ~WithinCapacity(Len(parts), o.capacity) ->
             "NoSpaceToWriteProperty"
        [] p = "ExceptionSchedule" /\ \E i \in DOMAIN parts :
             Datum(parts[i]).priority \notin 1..Slots -> "InvalidValue"
        [] p = "ExceptionSchedule" /\ \E i \in DOMAIN parts :
             ~WithinCapacity(Datum(parts[i]).entries, o.day_capacity) -> "NoSpaceToWriteProperty"
        [] p = "ListOfObjectPropertyReferences" /\ ~AllOf(v, {"ObjectPropertyReference"}) ->
             "InvalidPropertyType"
        [] OTHER -> None

\* Two plain dates are a period too.
IsPeriod(v) == Type(v) \in Sequenced /\ Len(Datum(v)) = 2 /\ AllOf(v, {"Date"})

ScheduleSet(o, p, v) ==
  CASE p \notin ScheduleServed \ {"ObjectIdentifier", "ObjectType", "StatusFlags"} ->
         Refuse("PropertyNotWritable", o)
    [] p \in {"ObjectName", "Description"} -> Stored(o, p, v, {"CharacterString"})
    [] p = "PresentValue" /\ ~Datum(o.at.OutOfService) -> Refuse("WriteAccessDenied", o)
    [] p \in {"PresentValue", "ScheduleDefault"} -> Stored(o, p, v, {Type(v)})
    [] p = "EffectivePeriod" /\ IsPeriod(v) -> Ok([o EXCEPT !.at[p] = V("DateRange", Datum(v))])
    [] p = "EffectivePeriod" /\ Type(v) \in Sequenced -> Refuse("InvalidValue", o)
    [] p = "EffectivePeriod" -> Stored(o, p, v, {"DateRange"})
    [] p \in {"WeeklySchedule", "ExceptionSchedule", "ListOfObjectPropertyReferences"} ->
         IF ScheduleMisfit(o, p, v) # None
           THEN Refuse(ScheduleMisfit(o, p, v), o)
           ELSE Ok([o EXCEPT !.at[p] = V(Type(o.at[p]), Datum(v))])
    [] p = "PriorityForWriting" /\ Type(v) = "Unsigned" /\ Datum(v) \notin 1..Slots ->
         Refuse("InvalidValue", o)
    [] p = "PriorityForWriting" -> Stored(o, p, v, {"Unsigned"})
    [] p = "OutOfService" -> Stored(o, p, v, {"Boolean"})
    [] p = "Reliability" -> Stored(o, p, v, {"Enumerated"})

ScheduleGet(o, p) ==
  IF p = "StatusFlags"
    THEN StatusFlags(NormalState, Datum(o.at.Reliability), FALSE, Datum(o.at.OutOfService))
    ELSE o.at[p]

-----------------------------------------------------------------------------
(* All kinds *)

Served(o) ==
  CASE IsPoint(o) -> PointServed(o)
    [] o.kind = "Device" -> DeviceServed(o)
    [] o.kind = "File" -> FileServed
    [] o.kind = "NotificationClass" -> ClassServed
    [] o.kind = "Calendar" -> CalendarServed
    [] o.kind = "Schedule" -> ScheduleServed

Listed(o) == IF IsPoint(o) THEN PointListed(o) ELSE Served(o)

Writable(o) ==
  CASE IsPoint(o) -> PointWritable(o)
    [] o.kind = "Device" -> DeviceWritable
    [] o.kind = "File" -> FileWritable
    [] o.kind = "NotificationClass" -> ClassWritable
    [] o.kind = "Calendar" -> CalendarWritable
    [] o.kind = "Schedule" -> ScheduleWritable(o)

Get(o, p) ==
  CASE IsPoint(o) -> PointGet(o, p)
    [] o.kind = "Schedule" -> ScheduleGet(o, p)
    [] OTHER -> o.at[p]

\* A priority acts on Present_Value of a point alone.
SetWithPriority(o, p, v, priority) ==
  CASE IsPoint(o) -> PointSet(o, p, v, priority)
    [] o.kind = "Device" -> DeviceSet(o, p, v)
    [] o.kind = "File" -> FileSet(o, p, v)
    [] o.kind = "NotificationClass" -> ClassSet(o, p, v)
    [] o.kind = "Calendar" -> CalendarSet(o, p, v)
    [] o.kind = "Schedule" -> ScheduleSet(o, p, v)

=============================================================================
