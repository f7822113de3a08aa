---------------------------- MODULE ServiceCodecs ----------------------------
(***************************************************************************)
(* Service requests and property values as octets: src/service/*.rs,       *)
(* src/property.rs and src/property/complex.rs.  Each type's encode and    *)
(* decode walk the same fields in the same order, so a type is a layout, a *)
(* sequence of fields, and Encode and Decode walk it.  A value of the type *)
(* is a record; an optional field is <<>> or <<v>>.  Where encode and      *)
(* decode do differ, the field says so.                                    *)
(***************************************************************************)
EXTENDS Encoding, TLC

-----------------------------------------------------------------------------
(* Fields *)

Tagged(name, number, type) == [kind |-> "tagged", name |-> name, number |-> number, type |-> type]
Untagged(name, type) == [kind |-> "untagged", name |-> name, type |-> type]
Within(number, layout) == [kind |-> "within", number |-> number, layout |-> layout]
Part(name, layout) == [kind |-> "part", name |-> name, layout |-> layout]
AnyValue(name) == [kind |-> "value", name |-> name]
Raw(name, number) == [kind |-> "raw", name |-> name, number |-> number]
ValuesOf(name, number) == [kind |-> "values", name |-> name, number |-> number]
Rest(layout) == [kind |-> "rest", layout |-> layout]   \* and nothing may follow

\* Items to the closing tag around them or, at the top, to the end of the data.
AtEnd == 255
Each(name, layout, until, least) ==
  [kind |-> "each", name |-> name, layout |-> layout, until |-> until, least |-> least]

\* What a decoder looks at to tell whether a field is there.
AnyLength == 99999
More == [class |-> "More", number |-> 0, length |-> AnyLength]
Context(number, length) == [class |-> "Context", number |-> number, length |-> length]
Opening(number) == [class |-> "Opening", number |-> number, length |-> AnyLength]
\* A mutant of the next: a field that is broken off is not there.
SeenWhole(gate, data) ==
  IF gate = More THEN data # <<>>
  ELSE LET Whole(tag) == tag.used + tag.length <= Len(data) IN
       /\ IsTag(data, gate.class, gate.number)
       /\ gate.length \in {AnyLength, DecodeTag(data).length}
       /\ Whole(DecodeTag(data))

Seen(gate, data) ==
  IF gate = More THEN data # <<>>
  ELSE /\ IsTag(data, gate.class, gate.number)
       /\ gate.length \in {AnyLength, DecodeTag(data).length}

Maybe(gate, field) == [kind |-> "maybe", name |-> field.name, gate |-> gate, field |-> field]
OptionalTag(name, number, type) == Maybe(Context(number, AnyLength), Tagged(name, number, type))

\* A choice: its value is [is |-> label, of |-> record]; the first gate seen decides.
Case(label, gate, layout) == [label |-> label, gate |-> gate, layout |-> layout]
Either(name, cases) == [kind |-> "either", name |-> name, cases |-> cases]

\* Numbers the program holds in fewer octets than the wire may bring: more than
\* fits is refused, or for a vendor identifier cut off.
Held ==
  [Octet |-> [as |-> "Unsigned32", width |-> 1], EventState |-> [as |-> "Enumerated", width |-> 2],
   Vendor |-> [as |-> "Unsigned32", width |-> 2], Segmentation |-> [as |-> "Enumerated", width |-> 1],
   Network |-> [as |-> "Unsigned", width |-> 2], Process |-> [as |-> "Unsigned", width |-> 4]]

OnWire(type) == IF type \in DOMAIN Held THEN Held[type].as ELSE type
Widened(type, v) == IF type \in DOMAIN Held THEN Fill(0, Width(OnWire(type)) - Len(v)) \o v ELSE v
Narrowed(type, read) ==
  IF ~read.ok \/ type \notin DOMAIN Held THEN read
  ELSE LET v == LowOctets(read.value, Held[type].width) IN
       IF \/ type # "Vendor" /\ ~Fits(read.value, Held[type].width, 0)
          \/ type = "Segmentation" /\ v[1] > 3
       THEN Failed ELSE Ok(v, read.used)

-----------------------------------------------------------------------------
(* Constructed property values *)

Address == <<Untagged("network", "Network"), Untagged("mac_address", "OctetString")>>
RecipientLayout ==
  <<Either("recipient",
      <<Case("Device", Context(0, 4), <<Tagged("device", 0, "ObjectIdentifier")>>),
        Case("Address", Opening(1), <<Within(1, Address)>>)>>)>>
RecipientProcess ==
  <<Within(0, RecipientLayout), Tagged("process_identifier", 1, "Unsigned32")>>
ObjectPropertyReference ==
  <<Tagged("object_identifier", 0, "ObjectIdentifier"),
    Tagged("property_identifier", 1, "Enumerated"),
    OptionalTag("array_index", 2, "Unsigned32")>>
Timestamp ==
  <<Either("at",
      <<Case("Time", Context(0, 4), <<Tagged("time", 0, "Time")>>),
        Case("SequenceNumber", Context(1, AnyLength), <<Tagged("sequence", 1, "Unsigned32")>>),
        Case("DateTime", Opening(2),
             <<Within(2, <<Untagged("date", "Date"), Untagged("time", "Time")>>)>>)>>)>>
CovSubscription ==
  <<Within(0, RecipientProcess), Within(1, ObjectPropertyReference),
    Tagged("issue_confirmed_notifications", 2, "Boolean"),
    Tagged("time_remaining", 3, "Unsigned32"),
    Maybe(Context(4, 4), Tagged("cov_increment", 4, "Real"))>>
AddressBinding == <<Untagged("device_identifier", "ObjectIdentifier")>> \o Address
TimeValues(number) == Each("time_values", <<Untagged("time", "Time"), AnyValue("value")>>, number, 0)
DailySchedule == <<Within(0, <<TimeValues(0)>>)>>
DateRange == <<Untagged("start", "Date"), Untagged("end", "Date")>>
CalendarEntry ==
  <<Either("entry",
      <<Case("Date", Context(0, 4), <<Tagged("date", 0, "ContextDate")>>),
        Case("DateRange", Opening(1), <<Within(1, DateRange)>>),
        Case("WeekNDay", Context(2, 3), <<Tagged("week", 2, "WeekNDay")>>)>>)>>
SpecialEvent ==
  <<Either("period",
      <<Case("CalendarEntry", Opening(0), <<Within(0, CalendarEntry)>>),
        Case("CalendarReference", Context(1, 4), <<Tagged("calendar", 1, "ObjectIdentifier")>>)>>),
    Within(2, <<TimeValues(2)>>), Tagged("priority", 3, "Unsigned32")>>
Destination ==
  <<Untagged("valid_days", "BitString"), Untagged("from_time", "Time"), Untagged("to_time", "Time")>>
    \o RecipientLayout
    \o <<Untagged("process_identifier", "Process"),
         Untagged("issue_confirmed_notifications", "Boolean"), Untagged("transitions", "BitString")>>
ValueSource == <<Tagged("none", 0, "Null")>>

Constructed ==
  [CovSubscription |-> CovSubscription, AddressBinding |-> AddressBinding, Timestamp |-> Timestamp,
   ObjectPropertyReference |-> ObjectPropertyReference, Destination |-> Destination,
   DailySchedule |-> DailySchedule, CalendarEntry |-> CalendarEntry, SpecialEvent |-> SpecialEvent,
   DateRange |-> DateRange, ValueSource |-> ValueSource]

\* Which element the values of a property are made of; of any other property, of
\* anything.
ElementsOf ==
  (152 :> "CovSubscription") @@ (30 :> "AddressBinding") @@ (130 :> "Timestamp")
    @@ (432 :> "Timestamp") @@ (430 :> "Timestamp") @@ (54 :> "ObjectPropertyReference")
    @@ (355 :> "ObjectPropertyReference") @@ (78 :> "ObjectPropertyReference")
    @@ (102 :> "Destination") @@ (123 :> "DailySchedule") @@ (23 :> "CalendarEntry")
    @@ (38 :> "SpecialEvent") @@ (32 :> "DateRange") @@ (433 :> "ValueSource") @@ (434 :> "ValueSource")

-----------------------------------------------------------------------------
(* Encoding a layout *)

RECURSIVE Encode(_, _)

EncodeAll(layout, records) == FlattenSeq([i \in DOMAIN records |-> Encode(layout, records[i])])

\* A property value is <<type, v>>; an Array or List is its values, one by one.
EncodeValue(value) ==
  CASE value[1] = "Unknown" -> value[2]
    [] value[1] \in DOMAIN Constructed -> Encode(Constructed[value[1]], value[2])
    [] OTHER -> EncodeAs(value[1], value[2])
EncodeValues(values) == FlattenSeq([i \in DOMAIN values |-> EncodeValue(values[i])])

Bracketed(number, octets) == OpeningTag(number) \o octets \o ClosingTag(number)

Encode(layout, r) ==
  LET Field(f) ==
        CASE f.kind = "tagged" ->
               EncodeContext(OnWire(f.type), f.number, Widened(f.type, r[f.name]))
          [] f.kind = "untagged" -> EncodeAs(OnWire(f.type), Widened(f.type, r[f.name]))
          [] f.kind = "maybe" ->
               EncodeAll(<<f.field>>, [i \in DOMAIN r[f.name] |-> f.name :> r[f.name][i]])
          [] f.kind = "within" -> Bracketed(f.number, Encode(f.layout, r))
          [] f.kind = "part" -> Encode(f.layout, r[f.name])
          [] f.kind = "each" -> EncodeAll(f.layout, r[f.name])
          [] f.kind = "either" ->
               Encode((CHOOSE c \in ToSet(f.cases) : c.label = r[f.name].is).layout, r[f.name].of)
          [] f.kind = "value" -> EncodeValue(r[f.name])
          [] f.kind = "raw" -> Bracketed(f.number, r[f.name])
          [] f.kind = "values" -> Bracketed(f.number, EncodeValues(r[f.name]))
          [] f.kind = "rest" -> Encode(f.layout, r)
  IN FlattenSeq([i \in DOMAIN layout |-> Field(layout[i])])

-----------------------------------------------------------------------------
(* Decoding a layout *)

ApplicationTypes ==
  <<"Null", "Boolean", "Unsigned", "Signed", "Real", "Double", "OctetString", "CharacterString",
    "BitString", "Enumerated", "Date", "Time", "ObjectIdentifier">>

\* A reserved tag (13 and 14) keeps its octets.
DecodeValue(data) ==
  LET Typed(type, read) == IF read.ok THEN Ok(<<type, read.value>>, read.used) ELSE Failed
      Of(type) == Typed(type, DecodeAs(type, data))
      After(tag) ==
        IF ~tag.ok \/ tag.class # "Application" THEN Failed
        ELSE IF tag.number < Len(ApplicationTypes) THEN Of(ApplicationTypes[tag.number + 1])
        ELSE LET end == tag.used + tag.length IN
             IF end > Len(data) THEN Failed ELSE Ok(<<"Unknown", SubSeq(data, 1, end)>>, end)
  IN After(DecodeTag(data))

RECURSIVE FindEnd(_, _, _)

\* A mutant of the next: it stops at the first closing tag with the outer number.
FindFirstClosing(data, at, open) ==
  LET tag == DecodeTag(From(data, at))
      beyond == at + tag.used + tag.length
  IN IF at >= Len(data) \/ ~tag.ok THEN Failed
     ELSE IF tag.class = "Closing" /\ tag.number = open[1] THEN Ok(at, 0)
     ELSE IF beyond > Len(data) THEN Failed ELSE FindEnd(data, beyond, open)

\* Where the constructed value opened before at is closed, and its closing tag begins.
FindEnd(data, at, open) ==
  LET Around(value) == IF value.ok THEN Ok(open, value.used) ELSE Failed
      Opened(tag) ==   \* what is open beyond the tag and its contents
        CASE ~tag.ok -> Failed
          [] tag.ok /\ tag.class = "Application" ->
               Around(DecodeValue(From(data, at)))
          [] tag.ok /\ tag.class = "Opening" -> Ok(Append(open, tag.number), tag.used)
          [] tag.ok /\ tag.class = "Closing" ->
               IF Last(open) # tag.number THEN Failed ELSE Ok(Front(open), tag.used)
          [] tag.ok /\ tag.class = "Context" ->
               IF at + tag.used + tag.length > Len(data) THEN Failed ELSE Ok(open, tag.used + tag.length)
      After(still) ==
        IF ~still.ok THEN Failed
        ELSE IF still.value = <<>> THEN Ok(at, 0) ELSE FindEnd(data, at + still.used, still.value)
  IN IF at >= Len(data) THEN Failed ELSE After(Opened(DecodeTag(From(data, at))))

\* Values of no known type: what is not an application value is kept as its octets.
RECURSIVE ResultValues(_)
ResultValues(data) ==
  LET Unknown(used) == Ok(<<"Unknown", SubSeq(data, 1, used)>>, used)
      Ended(end) ==
        IF end.ok THEN Unknown(end.value + DecodeTag(From(data, end.value)).used) ELSE Failed
      First(tag) ==
        CASE ~tag.ok \/ tag.class = "Closing" -> Failed
          [] tag.ok /\ tag.class = "Application" -> DecodeValue(data)
          [] tag.ok /\ tag.class = "Opening" -> Ended(FindEnd(data, tag.used, <<tag.number>>))
          [] tag.ok /\ tag.class = "Context" -> Unknown(tag.used + tag.length)
      Before(value, rest) == IF rest.ok THEN Ok(<<value>> \o rest.value, Len(data)) ELSE Failed
      After(first) ==
        IF ~first.ok \/ first.used > Len(data) THEN Failed
        ELSE Before(first.value, ResultValues(From(data, first.used)))
  IN IF data = <<>> THEN Ok(<<>>, 0) ELSE After(First(DecodeTag(data)))

RECURSIVE DecodeFields(_, _, _)

Decode(layout, data) == DecodeFields(layout, <<>>, data)

RECURSIVE DecodeEach(_, _, _)
DecodeEach(f, items, data) ==
  LET Ended == IF f.until = AtEnd THEN data = <<>> ELSE IsTag(data, "Closing", f.until)
      After(item) ==
        IF item.ok
        THEN Past(item.used, DecodeEach(f, Append(items, item.value), From(data, item.used)))
        ELSE Failed
  IN IF Ended THEN IF Len(items) < f.least THEN Failed ELSE Ok(items, 0)
     ELSE After(Decode(f.layout, data))

\* The elements of a property of a constructed type, one after the other.
RECURSIVE DecodeElements(_, _)
DecodeElements(type, data) ==
  LET Before(element, rest) ==
        IF rest.ok THEN Ok(<<<<type, element>>>> \o rest.value, Len(data)) ELSE Failed
      After(element) ==
        IF ~element.ok \/ element.used = 0 THEN Failed
        ELSE Before(element.value, DecodeElements(type, From(data, element.used)))
  IN IF data = <<>> THEN Ok(<<>>, 0) ELSE After(Decode(Constructed[type], data))

\* What does not read as the property's type is read as values of any.
DecodeValuesFor(property, data) ==
  LET number == NumberOf(property)
      Or(elements) == IF elements.ok THEN elements ELSE ResultValues(data)
  IN Or(IF number \in DOMAIN ElementsOf THEN DecodeElements(ElementsOf[number], data) ELSE Failed)

\* The value of a field in the record so far, r.
DecodeField(f, r, data) ==
  LET Named(read) == IF read.ok THEN Ok(r @@ (f.name :> read.value), read.used) ELSE Failed
      \* What is inside the tags numbered f.number, and what was read there.
      opening == DecodeMark(data, "Opening", f.number)
      inside == From(data, opening.used)
      Closed(read, closing) ==
        IF closing.ok THEN Ok(read.value, opening.used + read.used + closing.used) ELSE Failed
      Between(read) ==
        IF read.ok
        THEN Closed(read, DecodeMark(From(inside, read.used), "Closing", f.number))
        ELSE Failed
      \* All the octets up to the closing tag, or the values in them.
      Whole(end) ==
        IF ~end.ok THEN Failed
        ELSE LET octets == SubSeq(inside, 1, end.value) IN
             IF f.kind = "raw" THEN Ok(octets, end.value)
             ELSE Upto(end.value, DecodeValuesFor(r.property_identifier, octets))
      \* What a field of fields makes of them: an optional one keeps its value, a choice
      \* what its case adds to the record so far.
      chosen == f.cases[Min({i \in DOMAIN f.cases : Seen(f.cases[i].gate, data)})]
      NoneSeen == \A c \in ToSet(f.cases) : ~Seen(c.gate, data)
      layout ==
        CASE f.kind = "maybe" -> <<f.field>>
          [] f.kind = "either" -> chosen.layout
          [] f.kind \in {"within", "part", "rest"} -> f.layout
      OfFields(read) ==
        CASE ~read.ok -> Failed
          [] read.ok /\ f.kind = "maybe" -> Named(Ok(<<read.value[f.name]>>, read.used))
          [] read.ok /\ f.kind = "part" -> Named(read)
          [] read.ok /\ f.kind = "within" -> Between(read)
          [] read.ok /\ f.kind = "either" ->
               Named(Ok([is |-> chosen.label,
                         of |-> [name \in DOMAIN read.value \ DOMAIN r |-> read.value[name]]],
                        read.used))
          [] read.ok /\ f.kind = "rest" -> IF read.used = Len(data) THEN read ELSE Failed
  IN CASE f.kind = "tagged" -> Named(Narrowed(f.type, DecodeContext(OnWire(f.type), f.number, data)))
       [] f.kind = "untagged" -> Named(Narrowed(f.type, DecodeAs(OnWire(f.type), data)))
       [] f.kind = "value" -> Named(DecodeValue(data))
       [] f.kind \in {"within", "raw", "values"} /\ ~opening.ok -> Failed
       [] f.kind \in {"raw", "values"} /\ opening.ok ->
            Named(Between(Whole(FindEnd(inside, 0, <<f.number>>))))
       [] f.kind = "each" -> Named(DecodeEach(f, <<>>, data))
       [] f.kind = "maybe" /\ ~Seen(f.gate, data) -> Named(Ok(<<>>, 0))
       [] f.kind = "either" /\ NoneSeen -> Failed
       [] OTHER -> OfFields(DecodeFields(layout, IF f.kind \in {"maybe", "part"} THEN <<>> ELSE r,
                                         IF f.kind = "within" THEN inside ELSE data))

DecodeFields(layout, r, data) ==
  LET After(field) ==
        IF field.ok
        THEN Past(field.used, DecodeFields(Tail(layout), field.value, From(data, field.used)))
        ELSE Failed
  IN IF layout = <<>> THEN Ok(r, 0) ELSE After(DecodeField(Head(layout), r, data))

-----------------------------------------------------------------------------
(* Services *)

\* Both limits or nothing: one limit alone is not sent.
WhoIsRange(low, high) ==
  [limits |-> IF low = <<>> \/ high = <<>> THEN <<>> ELSE <<[low |-> low[1], high |-> high[1]]>>]
WhoIs ==
  <<Maybe(More, Part("limits", <<Rest(<<Tagged("low", 0, "Unsigned32"),
                                        Tagged("high", 1, "Unsigned32")>>)>>))>>
IAm ==
  <<Untagged("device_identifier", "ObjectIdentifier"), Untagged("max_apdu_length_accepted", "Unsigned32"),
    Untagged("segmentation_supported", "Segmentation"), Untagged("vendor_identifier", "Vendor")>>

PropertyOf(number) ==
  <<Tagged("property_identifier", number, "Enumerated"),
    OptionalTag("property_array_index", number + 1, "Unsigned32")>>
Object == <<Tagged("object_identifier", 0, "ObjectIdentifier")>>

\* Here what follows the property is read as an index whatever its tag.
ReadPropertyRequest ==
  Object \o <<Tagged("property_identifier", 1, "Enumerated"),
              Maybe(More, Tagged("property_array_index", 2, "Unsigned32"))>>

\* An index of BACNET_ARRAY_ALL is read as none (OfTheWhole).
ReadPropertyResponse == Object \o PropertyOf(1) \o <<ValuesOf("property_values", 3)>>
ArrayAll == Fill(255, 4)
OfTheWhole(r) ==
  IF r.property_array_index = <<ArrayAll>> THEN [r EXCEPT !.property_array_index = <<>>] ELSE r

WritePropertyRequest ==
  Object \o PropertyOf(1) \o <<Raw("property_value", 3), OptionalTag("priority", 4, "Octet")>>

PropertyWrite == PropertyOf(0) \o <<Raw("value", 2), OptionalTag("priority", 3, "Octet")>>
WriteAccessSpecification == Object \o <<Within(1, <<Each("list_of_properties", PropertyWrite, 1, 1)>>)>>
WritePropertyMultipleRequest ==
  <<Each("write_access_specifications", WriteAccessSpecification, AtEnd, 1)>>

PropertyReference == PropertyOf(0)
ReadAccessSpecification ==
  Object \o <<Within(1, <<Each("property_references", PropertyReference, 1, 1)>>)>>
ReadPropertyMultipleRequest == <<Each("read_access_specifications", ReadAccessSpecification, AtEnd, 1)>>

PropertyResult ==
  PropertyOf(2)
    \o <<Either("value",
          <<Case("Value", Opening(4), <<ValuesOf("values", 4)>>),
            Case("Error", Opening(5), <<Within(5, <<Untagged("class", "Enumerated"),
                                                    Untagged("code", "Enumerated")>>)>>)>>)>>
ReadAccessResult == Object \o <<Within(1, <<Each("results", PropertyResult, 1, 0)>>)>>
ReadPropertyMultipleResponse == <<Each("read_access_results", ReadAccessResult, AtEnd, 0)>>

SubscriptionHeader ==
  <<Tagged("subscriber_process_identifier", 0, "Unsigned32"),
    Tagged("monitored_object_identifier", 1, "ObjectIdentifier"),
    OptionalTag("issue_confirmed_notifications", 2, "Boolean"),
    OptionalTag("lifetime", 3, "Unsigned32")>>
SubscribeCov == SubscriptionHeader
SubscribeCovProperty ==
  SubscriptionHeader
    \o <<Within(4, <<Part("monitored_property", PropertyReference)>>),
         Maybe(More, Tagged("cov_increment", 5, "Real"))>>

DateTime == <<Untagged("date", "Date"), Untagged("time", "Time")>>
TimeSynchronization == DateTime
UtcTimeSynchronization == DateTime

CovPropertyValue ==
  PropertyOf(0) \o <<Within(2, <<Each("values", <<AnyValue("value")>>, 2, 0)>>),
                     OptionalTag("priority", 3, "Unsigned32")>>
CovNotification ==
  <<Tagged("subscriber_process_identifier", 0, "Unsigned32"),
    Tagged("initiating_device", 1, "ObjectIdentifier"),
    Tagged("monitored_object", 2, "ObjectIdentifier"), Tagged("time_remaining", 3, "Unsigned32"),
    Within(4, <<Each("list_of_values", CovPropertyValue, 4, 0)>>)>>

AcknowledgeAlarm ==
  <<Tagged("acknowledging_process_identifier", 0, "Unsigned32"),
    Tagged("event_object_identifier", 1, "ObjectIdentifier"),
    Tagged("event_state_acknowledged", 2, "EventState"), Within(3, <<Part("time_stamp", Timestamp)>>),
    Tagged("acknowledgment_source", 4, "Utf8"), Within(5, <<Part("time_of_acknowledgment", Timestamp)>>)>>

\* An event notification is only ever encoded here.  A notification of an
\* acknowledgment has neither parameters nor the state left.
StatusFlags == Tagged("status_flags", 1, "BitString")
PropertyStates ==
  Either("new_state",
         <<Case("BooleanValue", More, <<Tagged("value", 0, "Boolean")>>),
           Case("BinaryValue", More, <<Tagged("value", 1, "Enumerated")>>),
           Case("UnsignedValue", More, <<Tagged("value", 11, "Unsigned32")>>)>>)
NotificationParameters ==
  Either("parameters",
         <<Case("ChangeOfState", More, <<Within(1, <<Within(0, <<PropertyStates>>), StatusFlags>>)>>),
           Case("OutOfRange", More,
                <<Within(5, <<Tagged("exceeding_value", 0, "Real"), StatusFlags,
                              Tagged("deadband", 2, "Real"), Tagged("exceeded_limit", 3, "Real")>>)>>),
           Case("ChangeOfReliability", More,
                <<Within(19, <<Tagged("reliability", 0, "Enumerated"), StatusFlags,
                               Within(2, <<>>)>>)>>)>>)
AckNotification == 2
EventNotification(r) ==
  LET acknowledges == r.notify_type = BigEndian(AckNotification, 4)
      Unless(fields) == IF acknowledges THEN <<>> ELSE fields
  IN <<Tagged("process_identifier", 0, "Unsigned32"), Tagged("initiating_device", 1, "ObjectIdentifier"),
       Tagged("event_object", 2, "ObjectIdentifier"), Within(3, <<Part("timestamp", Timestamp)>>),
       Tagged("notification_class", 4, "Unsigned32"), Tagged("priority", 5, "Unsigned32"),
       Tagged("event_type", 6, "Enumerated"), OptionalTag("message_text", 7, "Utf8"),
       Tagged("notify_type", 8, "Enumerated")>>
     \o Unless(<<Tagged("ack_required", 9, "Boolean"), Tagged("from_state", 10, "EventState")>>)
     \o <<Tagged("to_state", 11, "EventState")>>
     \o Unless(<<Within(12, <<NotificationParameters>>)>>)

\* The file services, which are only ever encoded too: every position and count is
\* four octets under a tag that says one, and file data stands bare in its brackets.
ShortTag(number, octets) == ContextTag(number, 1) \o octets
AtomicReadFile(r) ==
  ContextTag(0, 4) \o IdOctets(r.file_identifier)
    \o Bracketed(1, Bracketed(IF r.access = "Stream" THEN 0 ELSE 1,
                              ShortTag(0, r.start) \o ShortTag(1, r.count)))
AtomicWriteFile(r) ==
  LET Record(octets) == <<101, Len(octets) % 256>> \o octets IN
  ContextTag(0, 4) \o IdOctets(r.file_identifier)
    \o Bracketed(1,
         IF r.access = "Stream"
         THEN Bracketed(0, ShortTag(0, r.start) \o Bracketed(1, r.file_data))
         ELSE Bracketed(1, ShortTag(0, r.start) \o ShortTag(1, BigEndian(Len(r.records), 4))
                           \o Bracketed(2, FlattenSeq([i \in DOMAIN r.records |->
                                                         Record(r.records[i])]))))

Services ==
  [WhoIs |-> WhoIs, IAm |-> IAm, ReadProperty |-> ReadPropertyRequest,
   ReadPropertyAck |-> ReadPropertyResponse, WriteProperty |-> WritePropertyRequest,
   WritePropertyMultiple |-> WritePropertyMultipleRequest,
   ReadPropertyMultiple |-> ReadPropertyMultipleRequest,
   ReadPropertyMultipleAck |-> ReadPropertyMultipleResponse, SubscribeCov |-> SubscribeCov,
   SubscribeCovProperty |-> SubscribeCovProperty, TimeSynchronization |-> TimeSynchronization,
   UtcTimeSynchronization |-> UtcTimeSynchronization, CovNotification |-> CovNotification,
   AcknowledgeAlarm |-> AcknowledgeAlarm]

EncodeService(service, r) ==
  CASE service = "EventNotification" -> Encode(EventNotification(r), r)
    [] service = "AtomicReadFile" -> AtomicReadFile(r)
    [] service = "AtomicWriteFile" -> AtomicWriteFile(r)
    [] OTHER -> Encode(Services[service], r)
DecodeService(service, data) ==
  LET read == Decode(Services[service], data) IN
  IF ~read.ok THEN Failed
  ELSE Ok(IF service = "ReadPropertyAck" THEN OfTheWhole(read.value) ELSE read.value, read.used)

=============================================================================
