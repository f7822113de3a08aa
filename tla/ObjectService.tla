--------------------------- MODULE ObjectService ---------------------------
(***************************************************************************)
(* The services a client reaches the objects by: WriteProperty of a whole  *)
(* property or of one element of an array, WritePropertyMultiple, and      *)
(* ReadPropertyMultiple, on any number of request threads                  *)
(* (src/server/object_service.rs), with the learning of recipients'        *)
(* addresses (src/server/address_cache.rs).  Next to them the host         *)
(* feeds inputs and overrides objects at the panel.                        *)
(*                                                                         *)
(* A thread's step is one call into the database or the address cache: the *)
(* locks inside such a call are ObjectDatabase's matter.                   *)
(***************************************************************************)
EXTENDS Objects, StandardProperties

CONSTANTS Threads,   \* threads that serve requests
          Ids,       \* object identifiers a request may name
          DeviceId,  \* the identifier of the Device object
          Sources,   \* addresses requests come from
          Sites,     \* databases to start from, by name: [subset of Ids -> objects]
          Writes,    \* what a thread is asked to write at a site: sequences of
                     \* [id, property, index, payload, priority] records
          Reads,     \* and to read there: [id, properties] records
          Readings,  \* values the host feeds inputs with
          MaxAsked   \* how many requests and host calls are considered at a site

VARIABLES site,       \* the site that was started from
          objects,    \* the database: identifier -> object
          addresses,  \* the address cache: device -> address
          job,        \* thread -> the request it serves
          asked       \* how many requests and host calls there were

vars == <<site, objects, addresses, job, asked>>

-----------------------------------------------------------------------------
(* What the host sets up, and what comes over the wire *)

\* What an object holds is of its kind: a value fits its family (a multi-state one is
\* one of its states), and so does every command in its slots.
Fits(o, datum) ==
  CASE Family(o) = "Analog" -> datum \in Int
    [] Family(o) = "Binary" -> datum \in 0..1
    [] Family(o) = "Multistate" -> datum \in 1..o.states

PointFields ==
  {"kind", "at", "value", "slots", "default", "local", "overridden", "alarm", "optional",
   "commandable", "states"}

WellFormed(o) ==
  /\ {"kind", "at"} \subseteq DOMAIN o /\ o.kind \in DOMAIN standard_properties
  /\ IsPoint(o) =>
       /\ PointFields \subseteq DOMAIN o /\ DOMAIN o.slots = 1..Slots
       /\ Family(o) = "Multistate" => "AlarmValues" \in DOMAIN o.at
       /\ Fits(o, o.value) /\ Fits(o, o.default)
       /\ \A k \in 1..Slots : o.slots[k] # None => Fits(o, o.slots[k])
  /\ o.kind = "NotificationClass" =>
       ClassServed \subseteq DOMAIN o.at /\ Type(o.at.RecipientList) = "List"
  /\ o.kind = "Calendar" => CalendarServed \subseteq DOMAIN o.at /\ Type(o.at.DateList) = "List"
  /\ o.kind = "Schedule" => ScheduleServed \ {"StatusFlags"} \subseteq DOMAIN o.at

\* A commandable object has the value of the highest priority that commands it, or its
\* default.
HoldsCommanded(o) == IsCommandable(o) => o.value = Commanded(o.slots, o.default)

\* The devices an object sends its notifications to.
Recipients(o) ==
  LET recipients == Datum(o.at.RecipientList)
  IN  {Datum(recipients[k]) : k \in DOMAIN recipients}

\* The host starts with points as they are made or were commanded, and with
\* notification classes nobody has registered with.
ASSUME SitesAssumption ==
  \A s \in DOMAIN Sites :
    /\ DOMAIN Sites[s] \subseteq Ids
    /\ \A i \in DOMAIN Sites[s] :
         /\ WellFormed(Sites[s][i])
         /\ IsPoint(Sites[s][i]) => HoldsCommanded(Sites[s][i])
         /\ Sites[s][i].kind = "NotificationClass" => Recipients(Sites[s][i]) = {}
    /\ MaxAsked[s] \in Nat

IsValue(v) ==
  /\ Type(v) = "Real" => Datum(v) \in Int
  /\ Type(v) = "Destination" => Datum(v) \in Ids

IsSequence(s) == Len(s) \in Nat /\ DOMAIN s = 1..Len(s)

ASSUME WritesAssumption ==
  /\ \A s \in DOMAIN Sites, t \in Threads : \A writes \in Writes[s][t] :
       /\ IsSequence(writes) /\ Len(writes) > 0
       /\ \A k \in DOMAIN writes :
            /\ IsSequence(writes[k].payload)
            /\ \A i \in DOMAIN writes[k].payload : IsValue(writes[k].payload[i])
  /\ \A v \in Readings : IsValue(v)

-----------------------------------------------------------------------------
(* What a written value is taken for *)

\* The properties whose values are not application tagged, and how they hold them.
Datatypes ==
  [ActiveCovSubscriptions |-> <<"List", "CovSubscription">>,
   DeviceAddressBinding |-> <<"List", "AddressBinding">>,
   EventTimeStamps |-> <<"Array", "Timestamp">>, CommandTimeArray |-> <<"Array", "Timestamp">>,
   LastCommandTime |-> <<"Single", "Timestamp">>,
   ListOfObjectPropertyReferences |-> <<"List", "ObjectPropertyReference">>,
   EventAlgorithmInhibitRef |-> <<"Single", "ObjectPropertyReference">>,
   ObjectPropertyReference |-> <<"Single", "ObjectPropertyReference">>,
   RecipientList |-> <<"List", "Destination">>, WeeklySchedule |-> <<"Array", "DailySchedule">>,
   DateList |-> <<"List", "CalendarEntry">>, ExceptionSchedule |-> <<"Array", "SpecialEvent">>,
   EffectivePeriod |-> <<"Single", "DateRange">>, ValueSource |-> <<"Single", "ValueSource">>,
   ValueSourceArray |-> <<"Array", "ValueSource">>, PriorityArray |-> <<"Array", "Any">>]

Constructed == {Datatypes[p][2] : p \in DOMAIN Datatypes} \ {"Any"}

ElementOf(p) == IF p \in DOMAIN Datatypes THEN Datatypes[p][2] ELSE "Any"

\* Whether a value on the wire decodes as an element of that type.
Decodes(element, v) == IF element = "Any" THEN Type(v) \notin Constructed ELSE Type(v) = element

\* Values that are not all of the element's type are read by their tags alone.
DecodeValues(element, payload) ==
  IF \A i \in DOMAIN payload : Decodes(element, payload[i])
    THEN payload
    ELSE [i \in DOMAIN payload |->
            IF Type(payload[i]) \in Constructed THEN V("Unknown", 0) ELSE payload[i]]

Collect(holding, values) ==
  CASE holding # "Single" -> V(holding, values)
    [] holding = "Single" /\ Len(values) = 1 -> values[1]
    [] OTHER -> None

DecodeOne(element, payload) ==
  IF Len(payload) = 1 /\ Decodes(element, payload[1]) THEN payload[1] ELSE None

\* The value a whole write carries, or None if it cannot be read.
DecodeWritten(p, payload) ==
  IF p \in DOMAIN Datatypes
    THEN Collect(Datatypes[p][1], DecodeValues(Datatypes[p][2], payload))
    ELSE DecodeOne("Any", payload)

-----------------------------------------------------------------------------
(* Threads and their requests *)

Idle == [serves |-> "nothing"]
\* "crossed" is history: the object's array, or the object, was written meanwhile.
WriteJob(writes, source) ==
  [serves |-> "writes", writes |-> writes, source |-> source, next |-> 1, value |-> None,
   learned |-> FALSE, crossed |-> FALSE]
ReadJob(read) ==
  [serves |-> "reads", id |-> read.id, asked |-> read.properties, left |-> None, failed |-> {},
   crossed |-> FALSE]

Present(i) == i \in DOMAIN objects
Request(t) == job[t].writes[job[t].next]

Init ==
  /\ site \in DOMAIN Sites /\ objects = Sites[site]
  /\ addresses = <<>>
  /\ job = [t \in Threads |-> Idle]
  /\ asked = 0

Counted == asked < MaxAsked[site] /\ asked' = asked + 1

AskWrite(t, writes, source) ==
  /\ Counted /\ job[t].serves = "nothing"
  /\ job' = [job EXCEPT ![t] = WriteJob(writes, source)]
  /\ UNCHANGED <<site, objects, addresses>>

AskRead(t, read) ==
  /\ Counted /\ job[t].serves = "nothing"
  /\ job' = [job EXCEPT ![t] = ReadJob(read)]
  /\ UNCHANGED <<site, objects, addresses>>

-----------------------------------------------------------------------------
(* Writing *)

\* An answer: for WritePropertyMultiple the error names the write that failed, and
\* what was written before it stays.
Answer(t) == job' = [job EXCEPT ![t] = Idle]

\* The whole array with the written element in its place, or the reason why not.
ArrayRefusal(write) ==
  CASE ~Present(write.id) -> "NotFound"
    [] write.property \notin Served(objects[write.id]) -> "UnknownProperty"
    [] Type(Get(objects[write.id], write.property)) # "Array" -> "PropertyIsNotArray"
    [] write.index = 0 -> "WriteAccessDenied"
    [] write.index > Len(Datum(Get(objects[write.id], write.property))) -> "InvalidArrayIndex"
    [] DecodeOne(ElementOf(write.property), write.payload) = None -> "InvalidPropertyType"
    [] OTHER -> None

\* A mutant of the next: the index is taken as if it began with 0.
WithNextElement(write) ==
  LET values == Datum(Get(objects[write.id], write.property))
  IN  V("Array", [values EXCEPT ![IF write.index = Len(values) THEN 1 ELSE write.index + 1] =
                    write.payload[1]])
WithElement(write) ==
  LET values == Datum(Get(objects[write.id], write.property))
  IN  V("Array", [values EXCEPT ![write.index] = write.payload[1]])

\* Reads the array an element is written in, or decodes the value.
Prepare(t) ==
  /\ job[t].serves = "writes" /\ job[t].value = None
  /\ LET write == Request(t)
         whole == DecodeWritten(write.property, write.payload)
         refused == IF write.index = None THEN whole = None ELSE ArrayRefusal(write) # None
         value == IF write.index = None THEN whole ELSE WithElement(write)
     IN  IF refused
           THEN Answer(t)
           ELSE job' = [job EXCEPT ![t].value = value, ![t].learned = FALSE, ![t].crossed = FALSE]
  /\ UNCHANGED <<site, objects, addresses, asked>>

\* A mutant of the next: only the first recipient of a list is looked at.
NamedFirst(value) ==
  IF Type(value) = "List" /\ Datum(value) # <<>> THEN {Datum(value[2][1])} ELSE {}

\* The devices a list of recipients names.
Named(value) ==
  IF Type(value) = "List"
    THEN {Datum(value[2][i]) : i \in {i \in DOMAIN value[2] : Type(value[2][i]) = "Destination"}}
    ELSE {}

Bound(named, source) ==
  [d \in DOMAIN addresses \cup named |-> IF d \in named THEN source ELSE addresses[d]]

\* A recipient that registers itself tells where it is: the devices the list names
\* are bound to the request's source, before the object has taken the list.
Learn(t) ==
  /\ job[t].serves = "writes" /\ job[t].value # None /\ ~job[t].learned
  /\ Request(t).property = "RecipientList"
  /\ addresses' = Bound(Named(job[t].value), job[t].source)
  /\ job' = [job EXCEPT ![t].learned = TRUE]
  /\ UNCHANGED <<site, objects, asked>>

NameTaken(i, p, v) ==
  /\ p = "ObjectName" /\ Type(v) = "CharacterString"
  /\ \E j \in DOMAIN objects \ {i} : objects[j].at.ObjectName = v

\* History: who has read what this write changes.
Crosses(t, u) ==
  CASE job[u].serves = "writes" -> job[u].value # None /\ Request(u).id = Request(t).id
    [] job[u].serves = "reads" -> job[u].id = Request(t).id
    [] OTHER -> FALSE

\* Hands the value to the object; the next write follows if it was taken.
Store(t) ==
  /\ job[t].serves = "writes" /\ job[t].value # None
  /\ Request(t).property = "RecipientList" => job[t].learned
  /\ LET write == Request(t)
         written == SetWithPriority(objects[write.id], write.property, job[t].value, write.priority)
         refused == \/ ~Present(write.id)
                    \/ NameTaken(write.id, write.property, job[t].value)
                    \/ written.answer # "ok"
         following == IF job[t].next = Len(job[t].writes)
                        THEN Idle
                        ELSE [job[t] EXCEPT !.next = @ + 1, !.value = None]
     IN  IF refused
           THEN Answer(t) /\ UNCHANGED objects
           ELSE /\ objects' = [objects EXCEPT ![write.id] = written.object]
                /\ job' = [u \in Threads |->
                             CASE u = t -> following
                               [] u # t /\ Crosses(t, u) -> [job[u] EXCEPT !.crossed = TRUE]
                               [] OTHER -> job[u]]
  /\ UNCHANGED <<site, addresses, asked>>

-----------------------------------------------------------------------------
(* Reading *)

\* What All stands for: the object's own list and what the service adds to it.
PropertiesFor(i) ==
  Listed(objects[i]) \cup {"PropertyList"}
    \cup (IF i = DeviceId THEN {"ObjectList", "ActiveCovSubscriptions"} ELSE {})

\* The properties the references stand for.
Expand(t) ==
  /\ job[t].serves = "reads" /\ job[t].left = None
  /\ LET all == "All" \in job[t].asked
     IN  IF all /\ ~Present(job[t].id)
           THEN Answer(t)
           ELSE job' = [job EXCEPT
                  ![t].left = (job[t].asked \ {"All"})
                                \cup (IF all THEN PropertiesFor(job[t].id) ELSE {})]
  /\ UNCHANGED <<site, objects, addresses, asked>>

\* The service answers for some properties itself, and an object for its own.
Answered(i, p) ==
  \/ p \in {"ObjectList", "ActiveCovSubscriptions"} /\ i = DeviceId
  \/ Present(i) /\ (p = "PropertyList" \/ p \in Served(objects[i]))

\* A property that cannot be read gets its error in the answer; the others are read.
ReadNext(t) ==
  /\ job[t].serves = "reads" /\ job[t].left \notin {None, {}}
  /\ LET p == CHOOSE p \in job[t].left : TRUE   \* in one order, whichever it is
     IN  job' = [job EXCEPT ![t].left = @ \ {p},
                          ![t].failed = IF Answered(job[t].id, p) THEN @ ELSE @ \cup {p}]
  /\ UNCHANGED <<site, objects, addresses, asked>>

ReadEnds(t) ==
  /\ job[t].serves = "reads" /\ job[t].left = {}
  /\ Answer(t)
  /\ UNCHANGED <<site, objects, addresses, asked>>

-----------------------------------------------------------------------------
(* The host *)

PointIds == {i \in DOMAIN objects : IsPoint(objects[i])}

\* What a sensor says, through set_sourced_value.
Source(i, v) ==
  /\ Counted /\ i \in PointIds
  /\ objects' = [objects EXCEPT ![i] = SetSourcedValue(objects[i], v).object]
  /\ UNCHANGED <<site, addresses, job>>

\* Somebody at the panel takes an object over, or lets it go.
Override(i, local) ==
  /\ Counted /\ i \in PointIds
  /\ objects' = [objects EXCEPT ![i].local = local]
  /\ UNCHANGED <<site, addresses, job>>

Locals(i) ==
  {None} \cup [value : {objects[i].value}, writes : {"Accepted", "Denied"}]

Next ==
  \/ \E t \in Threads, source \in Sources : \E writes \in Writes[site][t] :
       AskWrite(t, writes, source)
  \/ \E t \in Threads : \E read \in Reads[site] : AskRead(t, read)
  \/ \E t \in Threads : Prepare(t)
  \/ \E t \in Threads : Learn(t)
  \/ \E t \in Threads : Store(t)
  \/ \E t \in Threads : Expand(t)
  \/ \E t \in Threads : ReadNext(t)
  \/ \E t \in Threads : ReadEnds(t)
  \/ \E i \in PointIds, v \in Readings : Source(i, v)
  \/ \E i \in PointIds : \E local \in Locals(i) : Override(i, local)

Spec == Init /\ [][Next]_vars

-----------------------------------------------------------------------------
(* Properties *)

\* Every object keeps the shape and the kinds of values its kind has, and a request is
\* one of the two there are.
TypeOK ==
  /\ site \in DOMAIN Sites /\ asked \in 0..MaxAsked[site]
  /\ DOMAIN objects \subseteq Ids /\ DOMAIN addresses \subseteq Ids
  /\ \A i \in DOMAIN objects : WellFormed(objects[i])
  /\ \A t \in Threads : job[t].serves \in {"nothing", "writes", "reads"}

\* A commandable object has the value of the highest priority that commands it, or its
\* default: also when commands were relinquished, were made while an operator at the
\* panel had taken the object over, or came as one write of several.
CommandedValue == \A i \in DOMAIN objects : IsPoint(objects[i]) => HoldsCommanded(objects[i])

\* A write of one element leaves the others as they were, although it writes the whole
\* array, unless somebody else wrote the object after the array was read.
StoresElement(t) ==
  /\ objects' # objects /\ job[t].serves = "writes" /\ job[t].value # None
  /\ Request(t).index # None /\ ~job[t].crossed
  /\ job'[t].serves # "writes" \/ job'[t].value = None

OthersAlone(t) ==
  LET write == Request(t)
      before == Datum(Get(objects[write.id], write.property))
      after == Datum(Get(objects'[write.id], write.property))
  IN  /\ DOMAIN after = DOMAIN before
      /\ \A k \in DOMAIN after \ {write.index} : after[k] = before[k]

ElementAlone == [][\A t \in Threads : StoresElement(t) => OthersAlone(t)]_vars

\* Every device that is to be notified has an address the notifier can send to.
RecipientsReachable ==
  \A i \in DOMAIN objects :
    objects[i].kind = "NotificationClass" => Recipients(objects[i]) \subseteq DOMAIN addresses

\* A client that reads all of an object gets every property it is promised: what is
\* listed can be read, unless the object was written between the list and the reading.
AllAnswered ==
  \A t \in Threads :
    job[t].serves = "reads" /\ job[t].asked = {"All"} /\ ~job[t].crossed => job[t].failed = {}

\* A list or an array that is writable takes back, written whole, what it is read as.
ListsArriveWhole ==
  \A i \in DOMAIN objects : \A p \in (Writable(objects[i]) \cap Served(objects[i])) :
    LET value == Get(objects[i], p)
        decoded == DecodeWritten(p, Datum(value))
    IN  Type(value) \in Sequenced =>
          decoded # None /\ SetWithPriority(objects[i], p, decoded, None).answer
                              \notin {"InvalidPropertyType", "PropertyNotWritable"}

\* A gateway that asks a device for the standard's list of a type, because it cannot
\* ask for ALL, misses nothing an object lists itself; all but the state that is an
\* alarm, which outputs have here and in the standard's list have not.
AlarmStates(o) ==
  CASE o.kind = "BinaryOutput" -> {"AlarmValue"} [] o.kind = "MultiStateOutput" -> {"AlarmValues"} [] OTHER -> {}
ListedIsStandard ==
  \A i \in DOMAIN objects :
    Listed(objects[i]) \subseteq standard_properties[objects[i].kind] \cup AlarmStates(objects[i])

\* However a client finds out what an object has, it reads all of it.
ReadersMissNothing == AllAnswered /\ ListedIsStandard

-----------------------------------------------------------------------------
(* What makes them hold *)

\* A request keeps its form, and its writes are what was asked.
JobOK(t) ==
  \/ job[t] = Idle
  \/ /\ job[t].serves = "writes" /\ DOMAIN job[t] = DOMAIN WriteJob(<<>>, None)
     /\ job[t].writes \in Writes[site][t] /\ job[t].next \in DOMAIN job[t].writes
  \/ job[t].serves = "reads" /\ DOMAIN job[t] = DOMAIN ReadJob([id |-> None, properties |-> {}])

JobsInv == DOMAIN job = Threads /\ \A t \in Threads : JobOK(t)

\* A value that is about to be stored came over the wire; recipients come as a whole list
\* and are bound once they were learned; and what replaces an array is the array as it is,
\* but for the element, unless the object was written meanwhile.
Held(t) == job[t].serves = "writes" /\ job[t].value # None

HeldRecipients(t) ==
  Request(t).property = "RecipientList" =>
    /\ Request(t).index = None /\ Type(job[t].value) = "List" /\ Named(job[t].value) \subseteq Ids
    /\ job[t].learned => Named(job[t].value) \subseteq DOMAIN addresses

HeldElement(t) ==
  Request(t).index # None =>
    /\ Type(job[t].value) = "Array" /\ Request(t).property # "DateList"
    /\ ~job[t].crossed =>
         /\ Present(Request(t).id)
         /\ Type(Get(objects[Request(t).id], Request(t).property)) = "Array"
         /\ job[t].value = WithElement(Request(t))

HeldInv ==
  \A t \in Threads : Held(t) => IsValue(job[t].value) /\ HeldRecipients(t) /\ HeldElement(t)

\* What is left to read of an object nobody wrote can be read.
ReadOK(t) ==
  job[t].serves = "reads" /\ job[t].asked = {"All"} /\ ~job[t].crossed =>
    /\ job[t].failed = {}
    /\ job[t].left # None => \A p \in job[t].left : Answered(job[t].id, p)

ReadsInv == \A t \in Threads : ReadOK(t)

ServiceInv ==
  TypeOK /\ CommandedValue /\ RecipientsReachable /\ JobsInv /\ HeldInv /\ ReadsInv

=============================================================================
