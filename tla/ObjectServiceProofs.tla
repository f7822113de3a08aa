------------------------ MODULE ObjectServiceProofs ------------------------
(***************************************************************************)
(* What TLAPS proves of ObjectService, for every database to start from    *)
(* that is well formed, any number of threads, objects and priorities, and *)
(* whatever clients write: that an object keeps the values of its kind,    *)
(* that it has the value that is commanded, that recipients can be reached,*)
(* that whoever reads all of an object misses nothing, and that a write of *)
(* one element leaves the others alone.                                    *)
(***************************************************************************)
EXTENDS ObjectService, WellFoundedInduction, TLAPS

-----------------------------------------------------------------------------
(* What a write does to an object *)

\* All that changes is what is stored, and nothing is stored that was not before.
StoresOnly(o, n) ==
  /\ DOMAIN n = DOMAIN o
  /\ \A f \in DOMAIN o \ {"at"} : n[f] = o[f]
  /\ DOMAIN n.at = DOMAIN o.at

\* Storing one property is such a change.
LEMMA StoringOne ==
  ASSUME NEW o, "at" \in DOMAIN o, NEW p, NEW v
  PROVE  StoresOnly(o, [o EXCEPT !.at[p] = v])
  BY DEF StoresOnly

\* An object is a change of itself that stores nothing.
LEMMA StoringNone ==
  ASSUME NEW o PROVE StoresOnly(o, o)
  BY DEF StoresOnly

\* What can become of a property that is stored under a condition on its type.
LEMMA StoredStores ==
  ASSUME NEW o, "at" \in DOMAIN o, NEW p, NEW v, NEW types
  PROVE  StoresOnly(o, Stored(o, p, v, types).object)
  BY StoringOne, StoringNone DEF Stored, Ok, Refuse

\* And of one that takes a sequence.
LEMMA StoredAllStores ==
  ASSUME NEW o, "at" \in DOMAIN o, NEW p, NEW v, NEW types, NEW form, NEW capacity
  PROVE  StoresOnly(o, StoredAll(o, p, v, types, form, capacity).object)
  BY StoringOne, StoringNone DEF StoredAll, Ok, Refuse

\* What the objects share only stores.
LEMMA SharedStores ==
  ASSUME NEW o, "at" \in DOMAIN o, NEW p, NEW v
  PROVE  /\ StoresOnly(o, CommonSet(o, p, v).object)
         /\ StoresOnly(o, IntrinsicSet(o, p, v).object)
  BY StoredStores, StoringNone DEF CommonSet, IntrinsicSet, Refuse

\* And so does what the families of points add.
LEMMA FamiliesStore ==
  ASSUME NEW o, "at" \in DOMAIN o, NEW p, NEW v
  PROVE  /\ StoresOnly(o, AnalogSet(o, p, v).object)
         /\ StoresOnly(o, BinarySet(o, p, v).object)
         /\ StoresOnly(o, MultistateSet(o, p, v).object)
<1>1. StoresOnly(o, AnalogSet(o, p, v).object)
  <2>1. StoresOnly(o, AnalogAlarmSet(o, p, v).object)
    BY StoredStores, SharedStores, StoringNone DEF AnalogAlarmSet, Refuse
  <2>2. QED BY <2>1, StoredStores, StoringNone DEF AnalogSet, Refuse
<1>2. StoresOnly(o, BinarySet(o, p, v).object)
  BY StoringOne, SharedStores, StoringNone DEF BinarySet, BinaryAlarmSet, Refuse, Ok
<1>3. StoresOnly(o, MultistateSet(o, p, v).object)
  BY StoringOne, SharedStores, StoringNone DEF MultistateSet, Refuse, Ok
<1>4. QED BY <1>1, <1>2, <1>3

\* The objects that are no points only store.
LEMMA OthersStore ==
  ASSUME NEW o, "at" \in DOMAIN o, NEW p, NEW v
  PROVE  /\ StoresOnly(o, DeviceSet(o, p, v).object)
         /\ StoresOnly(o, FileSet(o, p, v).object)
         /\ StoresOnly(o, ClassSet(o, p, v).object)
         /\ StoresOnly(o, CalendarSet(o, p, v).object)
         /\ o.kind = "Schedule" => StoresOnly(o, ScheduleSet(o, p, v).object)
<1>1. StoresOnly(o, DeviceSet(o, p, v).object)
  BY StoredStores, StoringNone DEF DeviceSet, Refuse
<1>2. StoresOnly(o, FileSet(o, p, v).object)
  BY StoredStores, StoringNone DEF FileSet, Refuse
<1>3. StoresOnly(o, ClassSet(o, p, v).object)
  BY StoredStores, StoredAllStores, StoringNone DEF ClassSet, Refuse
<1>4. StoresOnly(o, CalendarSet(o, p, v).object)
  BY StoredStores, StoredAllStores, StoringNone DEF CalendarSet, Refuse
<1>5. StoresOnly(o, ScheduleSet(o, p, v).object)
  BY StoredStores, StoringOne, StoringNone DEF ScheduleSet, ScheduleServed, Refuse, Ok
<1>6. QED BY <1>1, <1>2, <1>3, <1>4, <1>5

-----------------------------------------------------------------------------
(* Points *)

\* A kind of point is of one of three families.
LEMMA Families ==
  ASSUME NEW o, IsPoint(o)
  PROVE  Family(o) \in {"Analog", "Binary", "Multistate"}
  BY DEF IsPoint, Family, Points, Kind, AnalogInput, AnalogOutput, AnalogValue, BinaryInput,
         BinaryOutput, BinaryValue, MultiStateInput, MultiStateOutput, MultiStateValue

\* Whether an object is of its kind depends on nothing but what is compared here.
LEMMA SameKind ==
  ASSUME NEW o, NEW n, n.kind = o.kind, n.states = o.states, n.commandable = o.commandable
  PROVE  /\ IsPoint(n) <=> IsPoint(o)
         /\ Family(n) = Family(o)
         /\ Role(n) = Role(o)
         /\ IsCommandable(n) <=> IsCommandable(o)
         /\ \A datum : Fits(n, datum) <=> Fits(o, datum)
  BY DEF IsPoint, Family, Role, IsCommandable, Fits

\* A value that does not misfit fits.
LEMMA MisfitOrFits ==
  ASSUME NEW o, IsPoint(o), NEW v, IsValue(v), Misfit(o, v) = None
  PROVE  Fits(o, Datum(v))
<1>1. CASE Family(o) = "Analog"
  BY <1>1, NoneAssumption DEF Misfit, AnalogMisfit, Fits, IsValue
<1>2. CASE Family(o) = "Binary"
  <2>1. v \in BinaryStates BY <1>2, NoneAssumption DEF Misfit, BinaryMisfit
  <2>2. QED BY <1>2, <2>1 DEF BinaryStates, Fits, Datum, V
<1>3. CASE Family(o) = "Multistate"
  BY <1>3, NoneAssumption DEF Misfit, MultistateMisfit, Fits
<1>4. QED BY <1>1, <1>2, <1>3, Families

\* A set of numbers that is not empty has a least one.
LEMMA Least ==
  ASSUME NEW S \in SUBSET Nat, S # {}
  PROVE  \E i \in S : \A j \in S : i <= j
<1> DEFINE R == OpToRel(<, Nat)
<1>1. \E i \in S : \A j \in S : ~(<<j, i>> \in R)
  <2>1. IsWellFoundedOn(R, Nat) BY NatLessThanWellFounded
  <2> HIDE DEF R
  <2>2. QED BY <2>1, WFMin
<1>2. \A i, j \in Nat : ~(<<j, i>> \in R) => i <= j BY DEF OpToRel
<1>3. QED BY <1>1, <1>2

\* What is commanded is the default or the command in one of the slots.
LEMMA CommandedIs ==
  ASSUME NEW slots, NEW default
  PROVE  \/ Commanded(slots, default) = default
         \/ \E k \in 1..Slots : slots[k] # None /\ Commanded(slots, default) = slots[k]
<1> DEFINE taken == {i \in 1..Slots : slots[i] # None}
           highest == CHOOSE i \in taken : \A j \in taken : i <= j
<1>1. CASE taken = {} BY <1>1 DEF Commanded
<1>2. CASE taken # {}
  <2>1. taken \in SUBSET Nat BY SlotsAssumption
  <2>2. highest \in taken
    <3> HIDE DEF taken
    <3>1. \E i \in taken : \A j \in taken : i <= j BY <1>2, <2>1, Least
    <3>2. QED BY <3>1
  <2>3. Commanded(slots, default) = slots[highest] BY <1>2 DEF Commanded
  <2>4. QED BY <2>2, <2>3
<1>3. QED BY <1>1, <1>2

\* What every operation on a point keeps.
Keeps(o, n) == WellFormed(n) /\ n.kind = o.kind /\ (HoldsCommanded(o) => HoldsCommanded(n))

\* A change that only stores leaves a point as well formed as it was.
LEMMA StoringKeepsPoint ==
  ASSUME NEW o, WellFormed(o), IsPoint(o), NEW n, StoresOnly(o, n)
  PROVE  Keeps(o, n)
<1>1. \A f \in PointFields \ {"at"} : n[f] = o[f] BY DEF WellFormed, StoresOnly
<1>2. /\ n.kind = o.kind /\ n.states = o.states /\ n.commandable = o.commandable
      /\ n.value = o.value /\ n.slots = o.slots /\ n.default = o.default
  BY <1>1 DEF PointFields
<1>3. WellFormed(n)
  BY <1>2, SameKind DEF WellFormed, StoresOnly, IsPoint, Points, PointFields
<1>4. QED BY <1>2, <1>3, SameKind DEF HoldsCommanded, Keeps

\* A point whose value and slots change stays well formed if they fit, and the value
\* is what is commanded if anything is.
LEMMA CommandingKeepsPoint ==
  ASSUME NEW o, WellFormed(o), IsPoint(o), NEW value, NEW slots,
         DOMAIN slots = 1..Slots, Fits(o, value),
         \A k \in 1..Slots : slots[k] # None => Fits(o, slots[k]),
         IsCommandable(o) => value = Commanded(slots, o.default),
         NEW n, n = [o EXCEPT !.slots = slots, !.value = value]
  PROVE  Keeps(o, n)
<1>1. DOMAIN n = DOMAIN o /\ n.value = value /\ n.slots = slots
  BY DEF WellFormed, PointFields
<1>2. \A f \in PointFields \ {"value", "slots"} : n[f] = o[f] BY DEF WellFormed
<1>3. /\ n.kind = o.kind /\ n.states = o.states /\ n.commandable = o.commandable
      /\ n.default = o.default /\ n.at = o.at
  BY <1>2 DEF PointFields
<1>4. WellFormed(n)
  BY <1>1, <1>3, SameKind DEF WellFormed, IsPoint, Points, PointFields
<1>5. QED BY <1>1, <1>3, <1>4, SameKind DEF HoldsCommanded, Keeps

\* Leaving a point alone keeps it.
LEMMA KeepingKeeps ==
  ASSUME NEW o, WellFormed(o) PROVE Keeps(o, o)
  BY DEF Keeps

\* A command in a slot, or its relinquishing.
LEMMA WriteSlotKeeps ==
  ASSUME NEW o, WellFormed(o), IsPoint(o), NEW priority, NEW datum,
         datum # None => Fits(o, datum)
  PROVE  Keeps(o, WriteSlot(o, priority, datum).object)
<1>1. CASE priority \notin 1..Slots BY <1>1, KeepingKeeps DEF WriteSlot, Refuse
<1>2. CASE priority \in 1..Slots
  <2> DEFINE slots == [o.slots EXCEPT ![priority] = datum]
             value == Commanded(slots, o.default)
             n == [o EXCEPT !.slots = slots, !.value = value]
  <2>1. DOMAIN slots = 1..Slots BY DEF WellFormed
  <2>2. \A k \in 1..Slots : slots[k] # None => Fits(o, slots[k]) BY <1>2 DEF WellFormed
  <2>3. Fits(o, value)
    <3>1. Fits(o, o.default) BY DEF WellFormed
    <3> HIDE DEF slots
    <3>2. QED BY <2>2, <3>1, CommandedIs
  <2>4. WriteSlot(o, priority, datum).object = n BY <1>2 DEF WriteSlot, Ok
  <2>5. Keeps(o, n)
    <3> HIDE DEF slots
    <3>1. value = Commanded(slots, o.default) OBVIOUS
    <3> HIDE DEF value
    <3>2. QED BY <2>1, <2>2, <2>3, <3>1, CommandingKeepsPoint
  <2>6. QED BY <2>4, <2>5
<1>3. QED BY <1>1, <1>2

\* What a point reads, or takes when it is not commandable.
LEMMA TakeReadingKeeps ==
  ASSUME NEW o, WellFormed(o), IsPoint(o), ~IsCommandable(o), NEW v, IsValue(v)
  PROVE  Keeps(o, TakeReading(o, v).object)
<1>1. CASE Misfit(o, v) = None
  <2> DEFINE n == [o EXCEPT !.value = Datum(v)]
  <2>1. n = [o EXCEPT !.slots = o.slots, !.value = Datum(v)] BY DEF WellFormed
  <2>2. Keeps(o, n)
    <3>1. Fits(o, Datum(v)) BY <1>1, MisfitOrFits
    <3>2. DOMAIN o.slots = 1..Slots /\ \A k \in 1..Slots : o.slots[k] # None => Fits(o, o.slots[k])
      BY DEF WellFormed
    <3> HIDE DEF n
    <3>3. QED BY <2>1, <3>1, <3>2, CommandingKeepsPoint
  <2>3. QED BY <1>1, <2>2 DEF TakeReading, Ok
<1>2. CASE Misfit(o, v) # None
  BY <1>2, KeepingKeeps DEF TakeReading, Refuse
<1>3. QED BY <1>1, <1>2

\* An input is not commandable.
LEMMA InputsAreRead ==
  ASSUME NEW o, Role(o) = "input" PROVE ~IsCommandable(o)
  BY DEF IsCommandable

\* A command at a priority.
LEMMA CommandKeeps ==
  ASSUME NEW o, WellFormed(o), IsPoint(o), NEW v, IsValue(v), NEW priority
  PROVE  Keeps(o, Command(o, v, priority).object)
<1>1. \A error : Keeps(o, Refuse(error, o).object) BY KeepingKeeps DEF Refuse
<1>2. ~IsCommandable(o) => Keeps(o, TakeReading(o, v).object) BY TakeReadingKeeps
<1>3. \A slot : Keeps(o, WriteSlot(o, slot, None).object) BY WriteSlotKeeps
<1>4. Misfit(o, v) = None => \A slot : Keeps(o, WriteSlot(o, slot, Datum(v)).object)
  BY WriteSlotKeeps, MisfitOrFits
<1>5. QED BY <1>1, <1>2, <1>3, <1>4, Zenon DEF Command

\* Whatever is written to a point.
LEMMA PointSetKeeps ==
  ASSUME NEW o, WellFormed(o), IsPoint(o), NEW p, NEW v, IsValue(v), NEW priority
  PROVE  Keeps(o, PointSet(o, p, v, priority).object)
<1>1. "at" \in DOMAIN o BY DEF WellFormed
<1>2. Role(o) = "input" => Keeps(o, TakeReading(o, v).object) BY TakeReadingKeeps, InputsAreRead
<1>3. Keeps(o, CommonSet(o, p, v).object) BY <1>1, SharedStores, StoringKeepsPoint
<1>4. /\ Keeps(o, AnalogSet(o, p, v).object)
      /\ Keeps(o, BinarySet(o, p, v).object)
      /\ Keeps(o, MultistateSet(o, p, v).object)
  BY <1>1, FamiliesStore, StoringKeepsPoint
<1>5. QED BY <1>2, <1>3, <1>4, CommandKeeps, Families, Zenon DEF PointSet

\* What the host feeds an input with.
LEMMA SourcedKeeps ==
  ASSUME NEW o, WellFormed(o), IsPoint(o), NEW v, IsValue(v)
  PROVE  Keeps(o, SetSourcedValue(o, v).object)
<1>1. /\ \A error : Keeps(o, Refuse(error, o).object)
      /\ Keeps(o, Ok(o).object)
  BY KeepingKeeps DEF Refuse, Ok
<1>2. Role(o) = "input" => Keeps(o, TakeReading(o, v).object) BY TakeReadingKeeps, InputsAreRead
<1>3. QED BY <1>1, <1>2, Zenon DEF SetSourcedValue

-----------------------------------------------------------------------------
(* The other objects *)

\* A property that is not the one that is written stays.
LEMMA OthersStay ==
  ASSUME NEW o, "at" \in DOMAIN o, NEW p, NEW q, p # q, NEW v, NEW types
  PROVE  Stored(o, p, v, types).object.at[q] = o.at[q]
<1>1. [o EXCEPT !.at[p] = v].at[q] = o.at[q] OBVIOUS
<1>2. QED BY <1>1 DEF Stored, Ok, Refuse

\* Nor does one change when a sequence is written.
LEMMA OthersStayAll ==
  ASSUME NEW o, "at" \in DOMAIN o, NEW p, NEW q, p # q, NEW v, NEW types, NEW form, NEW capacity
  PROVE  StoredAll(o, p, v, types, form, capacity).object.at[q] = o.at[q]
<1>1. ASSUME NEW x PROVE [o EXCEPT !.at[p] = x].at[q] = o.at[q] OBVIOUS
<1>2. /\ Ok([o EXCEPT !.at[p] = V(form, Datum(v))]).object.at[q] = o.at[q]
      /\ \A error : Refuse(error, o).object.at[q] = o.at[q]
  BY <1>1 DEF Ok, Refuse
<1>3. QED BY <1>2, Zenon DEF StoredAll

\* What a notification class takes for its recipients is a list of destinations.
LEMMA ClassTakes ==
  ASSUME NEW o, "at" \in DOMAIN o, "RecipientList" \in DOMAIN o.at, NEW p, NEW v
  PROVE  LET n == ClassSet(o, p, v).object
         IN  \/ n.at.RecipientList = o.at.RecipientList
             \/ /\ p = "RecipientList" /\ AllOf(v, {"Destination"})
                /\ n.at.RecipientList = V("List", Datum(v))
<1> DEFINE Takes(n) == \/ n.at.RecipientList = o.at.RecipientList
                       \/ /\ p = "RecipientList" /\ AllOf(v, {"Destination"})
                          /\ n.at.RecipientList = V("List", Datum(v))
<1>1. \A error : Takes(Refuse(error, o).object) BY DEF Refuse
<1>2. p # "RecipientList" =>
        /\ \A types : Takes(Stored(o, p, v, types).object)
        /\ \A types, form, capacity : Takes(StoredAll(o, p, v, types, form, capacity).object)
  <2>1. \A m : m.at.RecipientList = o.at.RecipientList => Takes(m) OBVIOUS
  <2> HIDE DEF Takes
  <2>2. ASSUME p # "RecipientList", NEW types
        PROVE  Takes(Stored(o, p, v, types).object)
    <3>1. Stored(o, p, v, types).object.at["RecipientList"] = o.at["RecipientList"]
      BY <2>2, OthersStay
    <3>2. QED BY <2>1, <3>1
  <2>3. ASSUME p # "RecipientList", NEW types, NEW form, NEW capacity
        PROVE  Takes(StoredAll(o, p, v, types, form, capacity).object)
    <3> DEFINE n == StoredAll(o, p, v, types, form, capacity).object
    <3>1. n.at["RecipientList"] = o.at["RecipientList"]
      <4>1. \A q : p # q => n.at[q] = o.at[q] BY OthersStayAll
      <4> HIDE DEF n
      <4>2. QED BY <2>3, <4>1
    <3>2. QED BY <2>1, <3>1
  <2>4. QED BY <2>2, <2>3
<1>3. p = "RecipientList" => Takes(StoredAll(o, p, v, {"Destination"}, "List", o.capacity).object)
  <2>1. SUFFICES ASSUME p = "RecipientList"
                 PROVE  Takes(StoredAll(o, p, v, {"Destination"}, "List", o.capacity).object)
    OBVIOUS
  <2>2. AllOf(v, {"Destination"}) => Takes(Ok([o EXCEPT !.at[p] = V("List", Datum(v))]).object)
    BY <2>1 DEF Ok
  <2> HIDE DEF Takes
  <2>3. QED BY <1>1, <2>2, Zenon DEF StoredAll
<1>4. Takes(ClassSet(o, p, v).object)
  <2> HIDE DEF Takes
  <2>1. CASE p # "RecipientList" BY <1>1, <1>2, <2>1, Zenon DEF ClassSet
  <2>2. CASE p = "RecipientList"
    <3>1. /\ p \notin {"ObjectName", "Description"} /\ p # "Priority" /\ p # "AckRequired"
      BY <2>2
    <3>2. QED BY <1>1, <1>3, <2>2, <3>1, Zenon DEF ClassSet
  <2>3. QED BY <2>1, <2>2
<1>5. QED BY <1>4

\* What a calendar takes for its dates is a list.
LEMMA CalendarTakes ==
  ASSUME NEW o, "at" \in DOMAIN o, "DateList" \in DOMAIN o.at, NEW p, NEW v
  PROVE  LET n == CalendarSet(o, p, v).object
         IN  n.at.DateList = o.at.DateList \/ Type(n.at.DateList) = "List"
<1> DEFINE Takes(n) == n.at.DateList = o.at.DateList \/ Type(n.at.DateList) = "List"
<1>1. \A error : Takes(Refuse(error, o).object) BY DEF Refuse
<1>2. p # "DateList" => \A types : Takes(Stored(o, p, v, types).object)
  BY OthersStay
<1>3. \A w, types, capacity : Takes(StoredAll(o, "DateList", w, types, "List", capacity).object)
  <2>1. SUFFICES ASSUME NEW w, NEW types, NEW capacity
                 PROVE  Takes(StoredAll(o, "DateList", w, types, "List", capacity).object)
    OBVIOUS
  <2>2. Takes(Ok([o EXCEPT !.at["DateList"] = V("List", Datum(w))]).object)
    BY DEF Ok, Type, V
  <2> HIDE DEF Takes
  <2>3. QED BY <1>1, <2>2, Zenon DEF StoredAll
<1>4. Takes(CalendarSet(o, p, v).object)
  <2> HIDE DEF Takes
  <2>1. CASE p # "DateList" BY <1>1, <1>2, <2>1, Zenon DEF CalendarSet
  <2>2. CASE p = "DateList"
    <3>1. p \notin {"ObjectName", "Description"} BY <2>2
    <3>2. QED BY <1>1, <1>3, <2>2, <3>1, Zenon DEF CalendarSet
  <2>3. QED BY <2>1, <2>2
<1>5. QED BY <1>4

\* The kinds there are.
LEMMA Kinds ==
  ASSUME NEW o, WellFormed(o), ~IsPoint(o)
  PROVE  o.kind \in {"Device", "File", "NotificationClass", "Calendar", "Schedule"}
  BY DEF WellFormed, IsPoint, Points, standard_properties

\* A write to an object that is no point leaves it well formed.
LEMMA OtherSetKeeps ==
  ASSUME NEW o, WellFormed(o), ~IsPoint(o), NEW p, NEW v, NEW priority
  PROVE  LET n == SetWithPriority(o, p, v, priority).object
         IN  WellFormed(n) /\ n.kind = o.kind
<1> DEFINE n == SetWithPriority(o, p, v, priority).object
<1>1. "at" \in DOMAIN o /\ "kind" \in DOMAIN o BY DEF WellFormed
<1>2. ASSUME StoresOnly(o, n),
             o.kind = "NotificationClass" => Type(n.at.RecipientList) = "List",
             o.kind = "Calendar" => Type(n.at.DateList) = "List"
      PROVE  WellFormed(n) /\ n.kind = o.kind
  <2> HIDE DEF n
  <2>1. n.kind = o.kind BY <1>1, <1>2 DEF StoresOnly
  <2>2. QED BY <1>1, <1>2, <2>1 DEF StoresOnly, WellFormed, IsPoint
<1>3. CASE o.kind = "Device"
  <2>1. n = DeviceSet(o, p, v).object BY <1>3 DEF SetWithPriority, IsPoint, Points
  <2>2. QED BY <1>1, <1>2, <1>3, <2>1, OthersStore
<1>4. CASE o.kind = "File"
  <2>1. n = FileSet(o, p, v).object BY <1>4 DEF SetWithPriority, IsPoint, Points
  <2>2. QED BY <1>1, <1>2, <1>4, <2>1, OthersStore
<1>5. CASE o.kind = "NotificationClass"
  <2>1. n = ClassSet(o, p, v).object BY <1>5 DEF SetWithPriority, IsPoint, Points
  <2>2. /\ "RecipientList" \in DOMAIN o.at /\ Type(o.at.RecipientList) = "List"
    BY <1>5 DEF WellFormed, ClassServed
  <2>3. Type(n.at.RecipientList) = "List" BY <1>1, <2>1, <2>2, ClassTakes DEF V, Type
  <2>4. QED BY <1>1, <1>2, <1>5, <2>1, <2>3, OthersStore
<1>6. CASE o.kind = "Calendar"
  <2>1. n = CalendarSet(o, p, v).object BY <1>6 DEF SetWithPriority, IsPoint, Points
  <2>2. /\ "DateList" \in DOMAIN o.at /\ Type(o.at.DateList) = "List"
    BY <1>6 DEF WellFormed, CalendarServed
  <2>3. Type(n.at.DateList) = "List" BY <1>1, <2>1, <2>2, CalendarTakes
  <2>4. QED BY <1>1, <1>2, <1>6, <2>1, <2>3, OthersStore
<1>7. CASE o.kind = "Schedule"
  <2>1. n = ScheduleSet(o, p, v).object BY <1>7 DEF SetWithPriority, IsPoint, Points
  <2>2. QED BY <1>1, <1>2, <1>7, <2>1, OthersStore
<1>8. QED BY <1>3, <1>4, <1>5, <1>6, <1>7, Kinds

\* Nor does a write to any object.
LEMMA SetKeeps ==
  ASSUME NEW o, WellFormed(o), NEW p, NEW v, IsValue(v), NEW priority
  PROVE  LET n == SetWithPriority(o, p, v, priority).object
         IN  /\ WellFormed(n) /\ n.kind = o.kind
             /\ IsPoint(o) /\ HoldsCommanded(o) => HoldsCommanded(n)
<1>1. CASE IsPoint(o)
  <2>1. SetWithPriority(o, p, v, priority) = PointSet(o, p, v, priority)
    BY <1>1 DEF SetWithPriority, IsPoint, Points
  <2>2. QED BY <1>1, <2>1, PointSetKeeps DEF Keeps
<1>2. CASE ~IsPoint(o) BY <1>2, OtherSetKeeps
<1>3. QED BY <1>1, <1>2

-----------------------------------------------------------------------------
(* What is listed, and what a reading or an override leaves as it was *)

\* What an object lists can be read.
LEMMA ListedIsServed ==
  ASSUME NEW o, WellFormed(o) PROVE Listed(o) \subseteq Served(o)
<1>1. CASE IsPoint(o)
  <2>1. AnalogListed(o) \subseteq AnalogServed(o)
    BY DEF AnalogListed, AnalogServed, AnalogAlarmListed, AnalogAlarmServed
  <2>2. BinaryListed(o) \subseteq BinaryServed(o) BY DEF BinaryListed, BinaryServed
  <2>3. MultistateListed(o) \subseteq MultistateServed(o)
    BY DEF MultistateListed, MultistateServed
  <2>4. PointListed(o) \subseteq PointServed(o)
    <3>1. CASE Family(o) = "Analog" BY <2>1, <3>1 DEF PointListed, PointServed
    <3>2. CASE Family(o) = "Binary" BY <2>2, <3>2 DEF PointListed, PointServed
    <3>3. CASE Family(o) = "Multistate" BY <2>3, <3>3 DEF PointListed, PointServed
    <3>4. QED BY <1>1, <3>1, <3>2, <3>3, Families
  <2>5. Listed(o) = PointListed(o) BY <1>1 DEF Listed
  <2>6. Served(o) = PointServed(o) BY <1>1 DEF Served, IsPoint, Points
  <2>7. QED BY <2>4, <2>5, <2>6
<1>2. CASE ~IsPoint(o) BY <1>2 DEF Listed
<1>3. QED BY <1>1, <1>2

\* What of a point neither its properties nor its commands depend on.
Unread(o, n) ==
  /\ DOMAIN n = DOMAIN o
  /\ \A f \in DOMAIN o \ {"value", "local"} : n[f] = o[f]

\* A reading of the host only changes the value.
LEMMA SourcedUnread ==
  ASSUME NEW o, NEW v
  PROVE  Unread(o, SetSourcedValue(o, v).object)
<1>1. /\ \A error : Unread(o, Refuse(error, o).object)
      /\ Unread(o, Ok(o).object)
      /\ Unread(o, Ok([o EXCEPT !.value = Datum(v)]).object)
  BY DEF Refuse, Ok, Unread
<1>2. Unread(o, TakeReading(o, v).object) BY <1>1, Zenon DEF TakeReading
<1>3. QED BY <1>1, <1>2, Zenon DEF SetSourcedValue

\* The same properties are served.
LEMMA ServedKept ==
  ASSUME NEW o, WellFormed(o), IsPoint(o), NEW n, Unread(o, n)
  PROVE  n.kind = o.kind /\ Served(n) = Served(o)
<1>1. /\ n.kind = o.kind /\ n.at = o.at /\ n.optional = o.optional /\ n.alarm = o.alarm
      /\ n.commandable = o.commandable
  BY DEF WellFormed, PointFields, Unread
<1>2. PointServed(n) = PointServed(o)
  <2>1. \A p : Has(n, p) <=> Has(o, p) BY <1>1 DEF Has
  <2>2. /\ Family(n) = Family(o) /\ Role(n) = Role(o) /\ KindServed(n) = KindServed(o)
    BY <1>1 DEF Family, Role, IsCommandable, KindServed
  <2>3. /\ AnalogServed(n) = AnalogServed(o)
        /\ BinaryServed(n) = BinaryServed(o)
        /\ MultistateServed(n) = MultistateServed(o)
    BY <1>1 DEF AnalogServed, AnalogOwn, AnalogIncrement, AnalogAlarmServed, AnalogLimits,
                BinaryServed, MultistateServed, MultistateAlarm
  <2>4. {p \in CommonServed : Has(n, p)} = {p \in CommonServed : Has(o, p)} BY <2>1
  <2>5. CASE Family(o) = "Analog" BY <2>2, <2>3, <2>4, <2>5 DEF PointServed
  <2>6. CASE Family(o) = "Binary" BY <2>2, <2>3, <2>4, <2>6 DEF PointServed
  <2>7. CASE Family(o) = "Multistate" BY <2>2, <2>3, <2>4, <2>7 DEF PointServed
  <2>8. QED BY <2>5, <2>6, <2>7, Families
<1>3. Served(n) = PointServed(n) /\ Served(o) = PointServed(o)
  BY <1>1 DEF Served, IsPoint, Points
<1>4. QED BY <1>1, <1>2, <1>3

\* And every array is.
LEMMA ArraysKept ==
  ASSUME NEW o, WellFormed(o), IsPoint(o), NEW n, Unread(o, n), NEW p,
         Type(Get(o, p)) = "Array"
  PROVE  Get(n, p) = Get(o, p)
<1>1. /\ n.kind = o.kind /\ n.at = o.at /\ n.slots = o.slots /\ n.default = o.default
  BY DEF WellFormed, PointFields, Unread
<1>2. Get(o, p) = PointGet(o, p) /\ Get(n, p) = PointGet(n, p)
  BY <1>1 DEF Get, IsPoint, Points
<1>3. DatumType(n) = DatumType(o) BY <1>1 DEF DatumType, Family
<1>4. DatumType(o) \in {"Real", "Enumerated", "Unsigned"} BY Families DEF DatumType
<1>5. CASE p = "PresentValue"
  <2>1. PointGet(o, p) = V(DatumType(o), PresentDatum(o)) BY <1>5 DEF PointGet
  <2>2. QED BY <1>2, <1>4, <2>1 DEF Type, V
<1>6. CASE p = "StatusFlags"
  <2>1. Type(PointGet(o, p)) = "BitString" BY <1>6 DEF PointGet, StatusFlags, V, Type
  <2>2. QED BY <1>2, <2>1
<1>7. CASE p = "PriorityArray" BY <1>1, <1>2, <1>3, <1>7 DEF PointGet, SlotsOf
<1>8. CASE p = "RelinquishDefault" BY <1>1, <1>2, <1>3, <1>8 DEF PointGet
<1>9. CASE p = "LimitEnable" BY <1>1, <1>2, <1>9 DEF PointGet, LimitEnable
<1>10. CASE p \notin {"PresentValue", "StatusFlags", "PriorityArray", "RelinquishDefault",
                      "LimitEnable"}
  BY <1>1, <1>2, <1>10 DEF PointGet, IntrinsicGet
<1>11. QED BY <1>5, <1>6, <1>7, <1>8, <1>9, <1>10

\* A reading or an override keeps a point well formed, and what it is commanded.
LEMMA OverrideKeeps ==
  ASSUME NEW o, WellFormed(o), IsPoint(o), NEW local
  PROVE  /\ Keeps(o, [o EXCEPT !.local = local])
         /\ Unread(o, [o EXCEPT !.local = local])
<1> DEFINE n == [o EXCEPT !.local = local]
<1>1. DOMAIN n = DOMAIN o /\ \A f \in DOMAIN o \ {"local"} : n[f] = o[f] OBVIOUS
<1> HIDE DEF n
<1>2. Unread(o, n) BY <1>1 DEF Unread
<1>3. /\ n.kind = o.kind /\ n.states = o.states /\ n.commandable = o.commandable
      /\ n.value = o.value /\ n.slots = o.slots /\ n.default = o.default /\ n.at = o.at
  BY <1>1 DEF WellFormed, PointFields
<1>4. WellFormed(n) BY <1>1, <1>3, SameKind DEF WellFormed, IsPoint, Points, PointFields
<1>5. Keeps(o, n) BY <1>3, <1>4, SameKind DEF Keeps, HoldsCommanded
<1>6. QED BY <1>2, <1>5 DEF n

\* What a point lists is in the standard's list of its type, but for the alarm states
\* of outputs.
LEMMA PointsAreStandard ==
  ASSUME NEW o, IsPoint(o)
  PROVE  PointListed(o) \subseteq standard_properties[o.kind] \cup AlarmStates(o)
<1>1. {p \in CommonServed : Has(o, p)} \subseteq Point
  BY DEF CommonServed, CommonWritable, Point, Common, UNIVERSAL, Alarming
<1>2. IntrinsicListed \subseteq Point
  BY DEF IntrinsicListed, IntrinsicWritable, Point, Alarming
<1>3. AnalogListed(o) \subseteq Analog
  BY <1>2 DEF AnalogListed, AnalogOwn, AnalogIncrement, AnalogAlarmListed, AnalogLimits, Analog, Point
<1>4. BinaryListed(o) \subseteq Binary \cup {"AlarmValue"}
  BY <1>2 DEF BinaryListed, BinaryOwn, BinaryAlarmListed, Binary, Point
<1>5. MultistateListed(o) \subseteq Multistate \cup {"AlarmValues"}
  BY <1>2 DEF MultistateListed, MultistateOwn, MultistateAlarm, Multistate, Point
<1>6. {"PriorityArray", "RelinquishDefault"} \subseteq Commandable BY DEF Commandable
<1>7. Point \subseteq Analog /\ Point \subseteq Binary /\ Point \subseteq Multistate
  BY DEF Analog, Binary, Multistate
<1>8. o.kind \in {"AnalogInput", "AnalogOutput", "AnalogValue", "BinaryInput", "BinaryOutput",
                  "BinaryValue", "MultiStateInput", "MultiStateOutput", "MultiStateValue"}
  BY DEF IsPoint, Points
<1> USE DEF Family, Role, Points, Kind
<1> DEFINE standard == standard_properties[o.kind] \cup AlarmStates(o)
<1>9. ASSUME Family(o) = "Analog", KindServed(o) \subseteq standard, Analog \subseteq standard
      PROVE  PointListed(o) \subseteq standard
  <2> HIDE DEF standard, Family
  <2>1. PointListed(o) = {p \in CommonServed : Has(o, p)} \cup KindServed(o) \cup AnalogListed(o)
    BY <1>9 DEF PointListed
  <2>2. QED BY <1>1, <1>3, <1>7, <1>9, <2>1
<1>10. ASSUME Family(o) = "Binary", KindServed(o) \subseteq standard, Binary \subseteq standard,
              "AlarmValue" \in standard
       PROVE  PointListed(o) \subseteq standard
  <2> HIDE DEF standard, Family
  <2>1. PointListed(o) = {p \in CommonServed : Has(o, p)} \cup KindServed(o) \cup BinaryListed(o)
    BY <1>10 DEF PointListed
  <2>2. QED BY <1>1, <1>4, <1>7, <1>10, <2>1
<1>11. ASSUME Family(o) = "Multistate", KindServed(o) \subseteq standard, Multistate \subseteq standard,
              "AlarmValues" \in standard
       PROVE  PointListed(o) \subseteq standard
  <2> HIDE DEF standard, Family
  <2>1. PointListed(o) = {p \in CommonServed : Has(o, p)} \cup KindServed(o) \cup MultistateListed(o)
    BY <1>11 DEF PointListed
  <2>2. QED BY <1>1, <1>5, <1>7, <1>11, <2>1
<1>12. /\ AnalogInput.role = "input" /\ AnalogInput.device_type
       /\ AnalogOutput.device_type
       /\ ~AnalogValue.device_type
       /\ BinaryInput.role = "input" /\ ~BinaryInput.device_type
       /\ ~BinaryOutput.device_type /\ ~BinaryValue.device_type
       /\ MultiStateInput.role = "input" /\ MultiStateInput.device_type
       /\ MultiStateOutput.device_type /\ ~MultiStateValue.device_type
  BY DEF AnalogInput, AnalogOutput, AnalogValue, BinaryInput, BinaryOutput, BinaryValue,
         MultiStateInput, MultiStateOutput, MultiStateValue
<1>13. KindServed(o) \subseteq {"DeviceType", "PriorityArray", "RelinquishDefault"}
  BY DEF KindServed
<1>14. CASE o.kind = "AnalogInput"
  <2>1. Family(o) = "Analog" BY <1>14 DEF AnalogInput
  <2>2. ~IsCommandable(o) BY <1>12, <1>14 DEF IsCommandable
  <2>3. standard_properties[o.kind] = ANALOG_INPUT BY <1>14 DEF standard_properties
  <2>4. KindServed(o) \subseteq {"DeviceType"} BY <2>2 DEF KindServed
  <2>5. QED BY <1>9, <2>1, <2>3, <2>4 DEF ANALOG_INPUT
<1>15. CASE o.kind = "AnalogOutput"
  <2>1. Family(o) = "Analog" BY <1>15 DEF AnalogOutput
  <2>2. standard_properties[o.kind] = ANALOG_OUTPUT BY <1>15 DEF standard_properties
  <2>3. QED BY <1>6, <1>9, <1>13, <2>1, <2>2 DEF ANALOG_OUTPUT
<1>16. CASE o.kind = "AnalogValue"
  <2>1. Family(o) = "Analog" BY <1>16 DEF AnalogValue
  <2>2. KindServed(o) \subseteq {"PriorityArray", "RelinquishDefault"}
    BY <1>12, <1>16 DEF KindServed
  <2>3. standard_properties[o.kind] = ANALOG_VALUE BY <1>16 DEF standard_properties
  <2>4. QED BY <1>6, <1>9, <2>1, <2>2, <2>3 DEF ANALOG_VALUE
<1>17. CASE o.kind = "BinaryInput"
  <2>1. Family(o) = "Binary" BY <1>17 DEF BinaryInput
  <2>2. ~IsCommandable(o) BY <1>12, <1>17 DEF IsCommandable
  <2>3. standard_properties[o.kind] = BINARY_INPUT BY <1>17 DEF standard_properties
  <2>4. KindServed(o) = {} BY <1>12, <1>17, <2>2 DEF KindServed
  <2>5. QED BY <1>10, <2>1, <2>3, <2>4 DEF BINARY_INPUT
<1>18. CASE o.kind = "BinaryOutput"
  <2>1. Family(o) = "Binary" BY <1>18 DEF BinaryOutput
  <2>2. standard_properties[o.kind] = BINARY_OUTPUT BY <1>18 DEF standard_properties
  <2>3. AlarmStates(o) = {"AlarmValue"} BY <1>18 DEF AlarmStates
  <2>4. QED BY <1>6, <1>10, <1>13, <2>1, <2>2, <2>3 DEF BINARY_OUTPUT
<1>19. CASE o.kind = "BinaryValue"
  <2>1. Family(o) = "Binary" BY <1>19 DEF BinaryValue
  <2>2. KindServed(o) \subseteq {"PriorityArray", "RelinquishDefault"}
    BY <1>12, <1>19 DEF KindServed
  <2>3. standard_properties[o.kind] = BINARY_VALUE BY <1>19 DEF standard_properties
  <2>4. QED BY <1>6, <1>10, <2>1, <2>2, <2>3 DEF BINARY_VALUE
<1>20. CASE o.kind = "MultiStateInput"
  <2>1. Family(o) = "Multistate" BY <1>20 DEF MultiStateInput
  <2>2. ~IsCommandable(o) BY <1>12, <1>20 DEF IsCommandable
  <2>3. standard_properties[o.kind] = MULTISTATE_INPUT BY <1>20 DEF standard_properties
  <2>4. KindServed(o) \subseteq {"DeviceType"} BY <2>2 DEF KindServed
  <2>5. QED BY <1>11, <2>1, <2>3, <2>4 DEF MULTISTATE_INPUT
<1>21. CASE o.kind = "MultiStateOutput"
  <2>1. Family(o) = "Multistate" BY <1>21 DEF MultiStateOutput
  <2>2. standard_properties[o.kind] = MULTISTATE_OUTPUT BY <1>21 DEF standard_properties
  <2>3. AlarmStates(o) = {"AlarmValues"} BY <1>21 DEF AlarmStates
  <2>4. QED BY <1>6, <1>11, <1>13, <2>1, <2>2, <2>3 DEF MULTISTATE_OUTPUT
<1>22. CASE o.kind = "MultiStateValue"
  <2>1. Family(o) = "Multistate" BY <1>22 DEF MultiStateValue
  <2>2. KindServed(o) \subseteq {"PriorityArray", "RelinquishDefault"}
    BY <1>12, <1>22 DEF KindServed
  <2>3. standard_properties[o.kind] = MULTISTATE_VALUE BY <1>22 DEF standard_properties
  <2>4. QED BY <1>6, <1>11, <2>1, <2>2, <2>3 DEF MULTISTATE_VALUE
<1>23. QED
  BY <1>8, <1>14, <1>15, <1>16, <1>17, <1>18, <1>19, <1>20, <1>21, <1>22

\* So is what any other object lists.
LEMMA ListedAreStandard ==
  ASSUME NEW o, WellFormed(o)
  PROVE  Listed(o) \subseteq standard_properties[o.kind] \cup AlarmStates(o)
<1>1. CASE IsPoint(o) BY <1>1, PointsAreStandard DEF Listed
<1>2. CASE o.kind = "Device"
  <2>1. Listed(o) = DeviceServed(o) BY <1>2 DEF Listed, Served, IsPoint, Points
  <2>2. standard_properties[o.kind] = DEVICE BY <1>2 DEF standard_properties
  <2>3. DeviceServed(o) \subseteq DEVICE BY DEF DeviceServed, DEVICE, Common, UNIVERSAL
  <2>4. QED BY <2>1, <2>2, <2>3
<1>3. CASE o.kind = "File"
  <2>1. Listed(o) = FileServed BY <1>3 DEF Listed, Served, IsPoint, Points
  <2>2. standard_properties[o.kind] = FILE BY <1>3 DEF standard_properties
  <2>3. FileServed \subseteq FILE BY DEF FileServed, FILE, Common, UNIVERSAL
  <2>4. QED BY <2>1, <2>2, <2>3
<1>4. CASE o.kind = "NotificationClass"
  <2>1. Listed(o) = ClassServed BY <1>4 DEF Listed, Served, IsPoint, Points
  <2>2. standard_properties[o.kind] = NOTIFICATION_CLASS BY <1>4 DEF standard_properties
  <2>3. ClassServed \subseteq NOTIFICATION_CLASS
    BY DEF ClassServed, NOTIFICATION_CLASS, Common, UNIVERSAL, Alarming
  <2>4. QED BY <2>1, <2>2, <2>3
<1>5. CASE o.kind = "Calendar"
  <2>1. Listed(o) = CalendarServed BY <1>5 DEF Listed, Served, IsPoint, Points
  <2>2. standard_properties[o.kind] = CALENDAR BY <1>5 DEF standard_properties
  <2>3. CalendarServed \subseteq CALENDAR BY DEF CalendarServed, CALENDAR, Common, UNIVERSAL
  <2>4. QED BY <2>1, <2>2, <2>3
<1>6. CASE o.kind = "Schedule"
  <2>1. Listed(o) = ScheduleServed BY <1>6 DEF Listed, Served, IsPoint, Points
  <2>2. standard_properties[o.kind] = SCHEDULE BY <1>6 DEF standard_properties
  <2>3. ScheduleServed \subseteq SCHEDULE
    BY DEF ScheduleServed, SCHEDULE, Common, UNIVERSAL, Alarming
  <2>4. QED BY <2>1, <2>2, <2>3
<1>7. QED BY <1>1, <1>2, <1>3, <1>4, <1>5, <1>6, Kinds

-----------------------------------------------------------------------------
(* An array that is written *)

\* An operation that takes an array stores what is in it.
Arrives(p, v, r) == r.answer = "ok" => Datum(r.object.at[p]) = Datum(v)

\* Nothing that takes other types takes an array.
LEMMA ArrayMisfits ==
  ASSUME NEW o, NEW p, NEW v, Type(v) = "Array", NEW types, "Array" \notin types
  PROVE  Arrives(p, v, Stored(o, p, v, types))
  BY DEF Arrives, Stored, Refuse

\* A refusal stores nothing.
LEMMA RefusalArrives ==
  ASSUME NEW o, NEW p, NEW v, NEW error, error # "ok"
  PROVE  Arrives(p, v, Refuse(error, o))
  BY DEF Arrives, Refuse

\* What is stored whole has arrived.
LEMMA StoredArrives ==
  ASSUME NEW o, "at" \in DOMAIN o, NEW p, p \in DOMAIN o.at, NEW v
  PROVE  /\ \A form : Arrives(p, v, Ok([o EXCEPT !.at[p] = V(form, Datum(v))]))
         /\ \A types : Arrives(p, v, Stored(o, p, v, types))
         /\ \A types, form, capacity : Arrives(p, v, StoredAll(o, p, v, types, form, capacity))
<1>1. ASSUME NEW form PROVE Arrives(p, v, Ok([o EXCEPT !.at[p] = V(form, Datum(v))]))
  BY DEF Arrives, Ok, V, Datum
<1>2. Arrives(p, v, Ok([o EXCEPT !.at[p] = v])) BY DEF Arrives, Ok
<1>3. \A error : error # "ok" => Arrives(p, v, Refuse(error, o)) BY RefusalArrives
<1>4. ASSUME NEW types PROVE Arrives(p, v, Stored(o, p, v, types))
  BY <1>2, <1>3, Zenon DEF Stored
<1>5. ASSUME NEW types, NEW form, NEW capacity
      PROVE  Arrives(p, v, StoredAll(o, p, v, types, form, capacity))
  <2>1. /\ Arrives(p, v, Refuse("InvalidPropertyType", o))
        /\ Arrives(p, v, Refuse("NoSpaceToWriteProperty", o))
    BY <1>3
  <2>2. QED BY <1>1, <2>1, Zenon DEF StoredAll
<1>6. QED BY <1>1, <1>4, <1>5

\* The only array a point takes is its alarm values.
LEMMA PointArrays ==
  ASSUME NEW o, WellFormed(o), IsPoint(o), NEW p, NEW v, Type(v) = "Array", NEW priority,
         PointSet(o, p, v, priority).answer = "ok"
  PROVE  /\ p = "AlarmValues" /\ p \in DOMAIN o.at
         /\ Arrives(p, v, PointSet(o, p, v, priority))
<1> DEFINE Refuses(r) == r.answer # "ok"
<1>1. \A error : error # "ok" => Refuses(Refuse(error, o)) BY DEF Refuse
<1>2. /\ Refuses(Refuse("InvalidPropertyType", o)) /\ Refuses(Refuse("WriteAccessDenied", o))
      /\ Refuses(Refuse("InvalidValue", o)) /\ Refuses(Refuse("PropertyNotWritable", o))
      /\ Refuses(Refuse("UnknownProperty", o))
  BY <1>1
<1>3. ASSUME NEW types, "Array" \notin types PROVE Refuses(Stored(o, p, v, types))
  BY <1>3 DEF Stored, Refuse
<1>4. Misfit(o, v) # None /\ Misfit(o, v) # "ok"
  <2>1. AnalogMisfit(v) = "InvalidPropertyType" BY DEF AnalogMisfit
  <2>2. BinaryMisfit(v) = "InvalidPropertyType"
    BY DEF BinaryMisfit, BinaryStates, V, Type
  <2>3. MultistateMisfit(o, v) \in {"InvalidPropertyType", "InvalidValue"}
    BY DEF MultistateMisfit
  <2>4. CASE Family(o) = "Analog" BY <2>1, <2>4, NoneAssumption DEF Misfit
  <2>5. CASE Family(o) = "Binary" BY <2>2, <2>5, NoneAssumption DEF Misfit
  <2>6. CASE Family(o) = "Multistate" BY <2>3, <2>6, NoneAssumption DEF Misfit
  <2>7. QED BY <2>4, <2>5, <2>6, Families
<1>5. Refuses(TakeReading(o, v)) BY <1>1, <1>4 DEF TakeReading
<1>6. v # Null BY DEF Null, V, Type
<1>7. Refuses(Command(o, v, priority))
  <2>1. Refuses(Refuse(Misfit(o, v), o)) BY <1>1, <1>4
  <2> HIDE DEF Refuses
  <2>2. QED BY <1>2, <1>4, <1>5, <1>6, <2>1, Zenon DEF Command
<1>8. Refuses(CommonSet(o, p, v)) \/ p \notin CommonWritable
  <2>1. ASSUME p \in CommonWritable PROVE "Array" \notin CommonTypes[p]
    BY <2>1 DEF CommonWritable, CommonTypes
  <2> HIDE DEF Refuses
  <2>2. QED BY <1>2, <1>3, <2>1 DEF CommonSet
<1>9. Refuses(IntrinsicSet(o, p, v))
  <2>1. ASSUME p \in IntrinsicWritable PROVE "Array" \notin IntrinsicTypes[p]
    BY <2>1 DEF IntrinsicWritable, IntrinsicTypes
  <2>2. p \in IntrinsicWritable => Refuses(Stored(o, p, v, IntrinsicTypes[p])) BY <1>3, <2>1
  <2> HIDE DEF Refuses
  <2>3. QED BY <1>2, <2>2, Zenon DEF IntrinsicSet
<1>10. /\ Refuses(Stored(o, p, v, {"Real"})) /\ Refuses(Stored(o, p, v, {"Real", "Null"}))
  BY <1>3
<1>11. Refuses(AnalogSet(o, p, v))
  <2> HIDE DEF Refuses
  <2>1. Refuses(AnalogAlarmSet(o, p, v)) BY <1>2, <1>9, <1>10, Zenon DEF AnalogAlarmSet
  <2>2. QED BY <1>2, <1>10, <2>1, Zenon DEF AnalogSet
<1>12. Refuses(BinarySet(o, p, v))
  <2>1. v \notin BinaryStates /\ Type(v) # "Boolean" BY DEF BinaryStates, V, Type
  <2> HIDE DEF Refuses
  <2>2. Refuses(BinaryAlarmSet(o, p, v)) BY <1>2, <1>9, <2>1, Zenon DEF BinaryAlarmSet
  <2>3. QED BY <1>2, <2>2, Zenon DEF BinarySet
<1>13. p # "AlarmValues" => Refuses(MultistateSet(o, p, v))
  <2> HIDE DEF Refuses
  <2>1. QED BY <1>2, <1>9, Zenon DEF MultistateSet
<1>14. Family(o) = "Multistate" /\ p = "AlarmValues"
  <2>1. CASE Family(o) = "Analog"
    <3> HIDE DEF Refuses
    <3>1. Refuses(PointSet(o, p, v, priority))
      BY <1>5, <1>7, <1>8, <1>11, <2>1, Zenon DEF PointSet
    <3>2. QED BY <3>1 DEF Refuses
  <2>2. CASE Family(o) = "Binary"
    <3> HIDE DEF Refuses
    <3>1. Refuses(PointSet(o, p, v, priority))
      BY <1>5, <1>7, <1>8, <1>12, <2>2, Zenon DEF PointSet
    <3>2. QED BY <3>1 DEF Refuses
  <2>3. CASE Family(o) = "Multistate" /\ p # "AlarmValues"
    <3> HIDE DEF Refuses
    <3>1. Refuses(PointSet(o, p, v, priority))
      BY <1>5, <1>7, <1>8, <1>13, <2>3, Zenon DEF PointSet
    <3>2. QED BY <3>1 DEF Refuses
  <2>4. QED BY <2>1, <2>2, <2>3, Families
<1>15. PointSet(o, p, v, priority) = MultistateSet(o, p, v)
  <2>1. p # "PresentValue" /\ p \notin CommonWritable BY <1>14 DEF CommonWritable
  <2>2. QED BY <1>14, <2>1 DEF PointSet
<1>16. "at" \in DOMAIN o /\ p \in DOMAIN o.at BY <1>14 DEF WellFormed
<1>17. Arrives(p, v, MultistateSet(o, p, v))
  <2>1. Arrives(p, v, Refuse("InvalidPropertyType", o)) BY RefusalArrives
  <2>2. Arrives(p, v, Ok([o EXCEPT !.at[p] = V("List", Datum(v))])) BY <1>16, StoredArrives
  <2>3. p \notin IntrinsicListed BY <1>14 DEF IntrinsicListed, IntrinsicWritable
  <2>4. QED BY <1>14, <2>1, <2>2, <2>3, Zenon DEF MultistateSet
<1>18. QED BY <1>14, <1>15, <1>16, <1>17

\* An array that any object takes is what is then read, but for the dates of a calendar,
\* which are a list.
LEMMA ArraysArrive ==
  ASSUME NEW o, WellFormed(o), NEW p, p # "DateList", NEW v, Type(v) = "Array", NEW priority,
         SetWithPriority(o, p, v, priority).answer = "ok"
  PROVE  Datum(Get(SetWithPriority(o, p, v, priority).object, p)) = Datum(v)
<1> DEFINE r == SetWithPriority(o, p, v, priority)
           n == r.object
<1>1. "at" \in DOMAIN o BY DEF WellFormed
<1>2. CASE IsPoint(o)
  <2>1. r = PointSet(o, p, v, priority) BY <1>2 DEF SetWithPriority, IsPoint, Points
  <2>2. p = "AlarmValues" /\ Arrives(p, v, r) BY <1>2, <2>1, PointArrays
  <2>3. n.kind = o.kind
    <3>1. IsValue(v) BY DEF IsValue
    <3>2. QED BY <1>2, <2>1, <3>1, PointSetKeeps DEF Keeps
  <2>4. Get(n, p) = n.at[p]
    <3> HIDE DEF n
    <3>1. Get(n, p) = PointGet(n, p) BY <1>2, <2>3 DEF Get, IsPoint, Points
    <3>2. PointGet(n, p) = n.at[p] BY <2>2 DEF PointGet, IntrinsicGet
    <3>3. QED BY <3>1, <3>2
  <2>5. QED BY <2>2, <2>4 DEF Arrives
<1>3. CASE ~IsPoint(o)
  <2>1. n.kind = o.kind BY <1>3, OtherSetKeeps
  <2>2. \A error : error # "ok" => Arrives(p, v, Refuse(error, o)) BY RefusalArrives
  <2>3. /\ Arrives(p, v, Refuse("InvalidPropertyType", o))
        /\ Arrives(p, v, Refuse("PropertyNotWritable", o))
        /\ Arrives(p, v, Refuse("InvalidValue", o))
        /\ Arrives(p, v, Refuse("WriteAccessDenied", o))
        /\ Arrives(p, v, Refuse("NoSpaceToWriteProperty", o))
    BY <2>2
  <2>4. ASSUME NEW type, type # "Array" PROVE Arrives(p, v, Stored(o, p, v, {type}))
    BY <2>4, ArrayMisfits
  <2>5. /\ Arrives(p, v, Stored(o, p, v, {"CharacterString"}))
        /\ Arrives(p, v, Stored(o, p, v, {"Unsigned"}))
        /\ Arrives(p, v, Stored(o, p, v, {"Boolean"}))
        /\ Arrives(p, v, Stored(o, p, v, {"BitString"}))
        /\ Arrives(p, v, Stored(o, p, v, {"DateRange"}))
        /\ Arrives(p, v, Stored(o, p, v, {"Enumerated"}))
    BY <2>4
  <2>6. ASSUME Arrives(p, v, r), o.kind = "Schedule" => p # "StatusFlags"
        PROVE  Datum(Get(n, p)) = Datum(v)
    <3>1. Get(n, p) = n.at[p]
      <4> HIDE DEF n
      <4>1. CASE o.kind = "Schedule"
        <5>1. Get(n, p) = ScheduleGet(n, p) BY <2>1, <4>1 DEF Get, IsPoint, Points
        <5>2. QED BY <2>6, <4>1, <5>1 DEF ScheduleGet
      <4>2. CASE o.kind # "Schedule" BY <1>3, <2>1, <4>2 DEF Get, IsPoint
      <4>3. QED BY <4>1, <4>2
    <3>2. QED BY <2>6, <3>1 DEF Arrives
  <2>7. CASE o.kind = "Device"
    <3>1. r = DeviceSet(o, p, v) BY <2>7 DEF SetWithPriority, IsPoint, Points
    <3>2. Arrives(p, v, r) BY <2>3, <2>5, <3>1, Zenon DEF DeviceSet
    <3>3. QED BY <2>6, <2>7, <3>2
  <2>8. CASE o.kind = "File"
    <3>1. r = FileSet(o, p, v) BY <2>8 DEF SetWithPriority, IsPoint, Points
    <3>2. Arrives(p, v, r) BY <2>3, <2>5, <3>1, Zenon DEF FileSet
    <3>3. QED BY <2>6, <2>8, <3>2
  <2>9. CASE o.kind = "NotificationClass"
    <3>1. r = ClassSet(o, p, v) BY <2>9 DEF SetWithPriority, IsPoint, Points
    <3>2. ClassServed \subseteq DOMAIN o.at BY <2>9 DEF WellFormed
    <3>3. p \in {"Priority", "RecipientList"} =>
            /\ Arrives(p, v, StoredAll(o, p, v, {"Unsigned"}, "Array", None))
            /\ Arrives(p, v, StoredAll(o, p, v, {"Destination"}, "List", o.capacity))
      BY <1>1, <3>2, StoredArrives DEF ClassServed
    <3>4. Arrives(p, v, r) BY <2>3, <2>5, <3>1, <3>3, Zenon DEF ClassSet
    <3>5. QED BY <2>6, <2>9, <3>4
  <2>10. CASE o.kind = "Calendar"
    <3>1. r = CalendarSet(o, p, v) BY <2>10 DEF SetWithPriority, IsPoint, Points
    <3>2. Arrives(p, v, r) BY <2>3, <2>5, <3>1, Zenon DEF CalendarSet
    <3>3. QED BY <2>6, <2>10, <3>2
  <2>11. CASE o.kind = "Schedule"
    <3>1. r = ScheduleSet(o, p, v) BY <2>11 DEF SetWithPriority, IsPoint, Points
    <3> DEFINE settable == ScheduleServed \ {"ObjectIdentifier", "ObjectType", "StatusFlags"}
    <3>2. settable \subseteq DOMAIN o.at BY <2>11 DEF WellFormed
    <3>3. p \in settable =>
            /\ Arrives(p, v, Stored(o, p, v, {Type(v)}))
            /\ Arrives(p, v, Ok([o EXCEPT !.at[p] = V("DateRange", Datum(v))]))
            /\ Arrives(p, v, Ok([o EXCEPT !.at[p] = V(Type(o.at[p]), Datum(v))]))
      BY <1>1, <3>2, StoredArrives
    <3>4. Arrives(p, v, r) /\ p \in settable
      <4>1. CASE p \notin settable
        <5>1. p \notin {"ObjectName", "Description"} /\ p # "PresentValue" /\ p # "ScheduleDefault"
              /\ p # "EffectivePeriod" /\ p # "PriorityForWriting" /\ p # "OutOfService"
              /\ p # "Reliability"
              /\ p \notin {"WeeklySchedule", "ExceptionSchedule", "ListOfObjectPropertyReferences"}
          BY <4>1 DEF ScheduleServed
        <5>2. ScheduleSet(o, p, v) = Refuse("PropertyNotWritable", o)
          BY <4>1, <5>1 DEF ScheduleSet
        <5>3. QED BY <3>1, <5>2 DEF Refuse
      <4>2. CASE p \in settable
        <5>1. ScheduleMisfit(o, p, v) # None => ScheduleMisfit(o, p, v) # "ok"
          BY DEF ScheduleMisfit
        <5>2. ScheduleMisfit(o, p, v) # None => Arrives(p, v, Refuse(ScheduleMisfit(o, p, v), o))
          BY <2>2, <5>1
        <5>3. ~(p \notin ScheduleServed \ {"ObjectIdentifier", "ObjectType", "StatusFlags"})
          BY <4>2
        <5>4. \/ p \in {"ObjectName", "Description"} \/ p \in {"PresentValue", "ScheduleDefault"}
              \/ p = "EffectivePeriod" \/ p = "PriorityForWriting" \/ p = "OutOfService"
              \/ p = "Reliability"
              \/ p \in {"WeeklySchedule", "ExceptionSchedule", "ListOfObjectPropertyReferences"}
          BY <4>2 DEF ScheduleServed
        <5> HIDE DEF settable
        <5>5. Arrives(p, v, ScheduleSet(o, p, v))
          BY <2>3, <2>5, <3>3, <4>2, <5>2, <5>3, <5>4, Zenon DEF ScheduleSet
        <5>6. QED BY <3>1, <4>2, <5>5
      <4>3. QED BY <4>1, <4>2
    <3>5. QED BY <2>6, <2>11, <3>4
  <2>12. QED BY <1>3, <2>7, <2>8, <2>9, <2>10, <2>11, Kinds
<1>4. QED BY <1>2, <1>3

-----------------------------------------------------------------------------
(* What comes over the wire *)

\* What decodes are the values that came, and lists of them.
LEMMA DecodedIsValue ==
  ASSUME NEW p, NEW payload, IsSequence(payload),
         \A i \in DOMAIN payload : IsValue(payload[i]),
         NEW value, value = DecodeWritten(p, payload), value # None
  PROVE  /\ IsValue(value)
         /\ p = "RecipientList" => Type(value) = "List" /\ Named(value) \subseteq Ids
<1>1. CASE p \notin DOMAIN Datatypes
  <2>1. value = payload[1] /\ Len(payload) = 1 BY <1>1 DEF DecodeWritten, DecodeOne
  <2>2. 1 \in DOMAIN payload BY <2>1 DEF IsSequence
  <2>3. p # "RecipientList" BY <1>1 DEF Datatypes
  <2>4. QED BY <2>1, <2>2, <2>3
<1>2. CASE p \in DOMAIN Datatypes
  <2> DEFINE holding == Datatypes[p][1]
             values == DecodeValues(Datatypes[p][2], payload)
  <2>1. value = Collect(holding, values) BY <1>2 DEF DecodeWritten
  <2>2. /\ DOMAIN values = DOMAIN payload
        /\ \A i \in DOMAIN payload : values[i] = payload[i] \/ values[i] = V("Unknown", 0)
    BY DEF DecodeValues
  <2>3. \A i \in DOMAIN payload : IsValue(values[i]) BY <2>2 DEF IsValue, V, Type
  <2>4. Len(values) = 1 => 1 \in DOMAIN values
    <3>1. Len(payload) \in Nat /\ DOMAIN payload = 1..Len(payload) BY DEF IsSequence
    <3>2. CASE values = payload BY <3>1, <3>2
    <3>3. CASE values # payload
      <4> DEFINE told == [i \in 1..Len(payload) |->
                            IF Type(payload[i]) \in Constructed THEN V("Unknown", 0) ELSE payload[i]]
      <4>1. values = told BY <3>1, <3>3 DEF DecodeValues
      <4>2. told \in Seq({told[i] : i \in 1..Len(payload)}) BY <3>1
      <4>3. Len(told) = Len(payload) BY <3>1, <4>2
      <4>4. QED BY <3>1, <4>1, <4>3
    <3>4. QED BY <3>2, <3>3
  <2>5. holding \in {"List", "Array", "Single"} BY <1>2 DEF Datatypes
  <2>6. CASE holding = "Single"
    <3>1. value = values[1] /\ 1 \in DOMAIN payload
      <4> HIDE DEF values, holding
      <4>1. QED BY <2>1, <2>2, <2>4, <2>6 DEF Collect
    <3>2. p # "RecipientList" BY <2>6 DEF Datatypes
    <3>3. QED BY <2>3, <3>1, <3>2
  <2>7. CASE holding \in {"List", "Array"}
    <3>1. value = V(holding, values)
      <4> HIDE DEF values, holding
      <4>1. QED BY <2>1, <2>7 DEF Collect
    <3>2. IsValue(value)
      <4> HIDE DEF values, holding
      <4>1. QED BY <2>7, <3>1 DEF IsValue, V, Type
    <3>3. p = "RecipientList" => holding = "List" BY DEF Datatypes
    <3>4. p = "RecipientList" => Type(value) = "List" /\ Named(value) \subseteq Ids
      <4> HIDE DEF values, holding
      <4>1. p = "RecipientList" => Type(value) = "List" BY <3>1, <3>3 DEF V, Type
      <4>2. value[2] = values BY <3>1 DEF V
      <4>3. \A i \in DOMAIN value[2] : Type(value[2][i]) = "Destination" => Datum(value[2][i]) \in Ids
        BY <2>2, <2>3, <4>2 DEF IsValue
      <4>4. Named(value) \subseteq Ids BY <4>3 DEF Named
      <4>5. QED BY <4>1, <4>4
    <3>5. QED BY <3>2, <3>4
  <2>8. QED BY <2>5, <2>6, <2>7
<1>3. QED BY <1>1, <1>2

\* The devices that are bound afterwards are those that were and those that are named.
LEMMA BoundBinds ==
  ASSUME NEW named, NEW source
  PROVE  DOMAIN Bound(named, source) = DOMAIN addresses \cup named
  BY DEF Bound

-----------------------------------------------------------------------------
(* The invariant *)

\* The host starts with objects that are as they should be, and no request.
LEMMA ServiceInit == Init => ServiceInv
<1> SUFFICES ASSUME Init PROVE ServiceInv OBVIOUS
<1>1. site \in DOMAIN Sites /\ objects = Sites[site] /\ addresses = <<>> BY DEF Init
<1>2. TypeOK
  <2>1. asked \in 0..MaxAsked[site] BY <1>1, SitesAssumption DEF Init
  <2>2. DOMAIN objects \subseteq Ids /\ \A i \in DOMAIN objects : WellFormed(objects[i])
    BY <1>1, SitesAssumption
  <2>3. DOMAIN addresses = {} BY <1>1
  <2>4. \A t \in Threads : job[t].serves = "nothing" BY DEF Init, Idle
  <2>5. QED BY <1>1, <2>1, <2>2, <2>3, <2>4 DEF TypeOK
<1>3. CommandedValue BY <1>1, SitesAssumption DEF CommandedValue
<1>4. RecipientsReachable BY <1>1, SitesAssumption DEF RecipientsReachable
<1>5. JobsInv BY DEF JobsInv, JobOK, Init
<1>6. HeldInv BY DEF HeldInv, Held, Init, Idle
<1>7. ReadsInv BY DEF ReadsInv, ReadOK, Init, Idle
<1>8. QED BY <1>2, <1>3, <1>4, <1>5, <1>6, <1>7 DEF ServiceInv

\* A step that touches neither the objects nor the addresses keeps what is said of them.
LEMMA ObjectsLeft ==
  ASSUME ServiceInv, UNCHANGED <<site, objects>>, addresses' = addresses
  PROVE  /\ CommandedValue' /\ RecipientsReachable' /\ site' \in DOMAIN Sites
         /\ DOMAIN objects' \subseteq Ids /\ DOMAIN addresses' \subseteq Ids
         /\ \A i \in DOMAIN objects' : WellFormed(objects'[i])
  BY DEF ServiceInv, TypeOK, CommandedValue, RecipientsReachable

\* A thread that has no part in such a step is as it was.
LEMMA ThreadLeft ==
  ASSUME ServiceInv, NEW t \in Threads, UNCHANGED <<site, objects>>, addresses' = addresses,
         job'[t] = job[t]
  PROVE  /\ JobOK(t)' /\ ReadOK(t)'
         /\ Held(t)' => IsValue(job[t].value)' /\ HeldRecipients(t)' /\ HeldElement(t)'
<1>1. JobOK(t)' BY DEF ServiceInv, JobsInv, JobOK
<1>2. ReadOK(t)' BY DEF ServiceInv, ReadsInv, ReadOK, Answered, Present
<1>3. Held(t)' => IsValue(job[t].value)' /\ HeldRecipients(t)' /\ HeldElement(t)'
  BY DEF ServiceInv, HeldInv, Held, HeldRecipients, HeldElement, Request, Present, WithElement
<1>4. QED BY <1>1, <1>2, <1>3

\* A thread that is idle keeps everything that is said of threads.
LEMMA IdleKeeps ==
  ASSUME NEW t, job'[t] = Idle
  PROVE  /\ JobOK(t)' /\ ReadOK(t)' /\ ~Held(t)'
  BY DEF JobOK, ReadOK, Held, Idle

\* When one thread's request changes and nothing else, the invariant is about that thread.
LEMMA OneThread ==
  ASSUME ServiceInv, NEW t \in Threads, UNCHANGED <<site, objects>>, addresses' = addresses,
         DOMAIN job' = DOMAIN job, \A u \in Threads \ {t} : job'[u] = job[u],
         asked' \in 0..MaxAsked[site],
         JobOK(t)', ReadOK(t)',
         Held(t)' => IsValue(job[t].value)' /\ HeldRecipients(t)' /\ HeldElement(t)'
  PROVE  ServiceInv'
<1>1. \A u \in Threads :
        /\ JobOK(u)' /\ ReadOK(u)'
        /\ Held(u)' => IsValue(job[u].value)' /\ HeldRecipients(u)' /\ HeldElement(u)'
  BY ThreadLeft
<1>2. \A u \in Threads : job'[u].serves \in {"nothing", "writes", "reads"}
  BY <1>1 DEF JobOK, Idle
<1>3. TypeOK' BY <1>2, ObjectsLeft DEF TypeOK
<1>4. JobsInv' BY <1>1 DEF ServiceInv, JobsInv
<1>5. HeldInv' /\ ReadsInv' BY <1>1 DEF HeldInv, ReadsInv
<1>6. QED BY <1>3, <1>4, <1>5, ObjectsLeft DEF ServiceInv

\* What was asked stays within its bound.
LEMMA AskedWithin ==
  ASSUME ServiceInv PROVE /\ asked' = asked => asked' \in 0..MaxAsked[site]
                          /\ Counted => asked' \in 0..MaxAsked[site]
<1>1. MaxAsked[site] \in Nat /\ asked \in 0..MaxAsked[site]
  BY SitesAssumption DEF ServiceInv, TypeOK
<1>2. QED BY <1>1 DEF Counted

-----------------------------------------------------------------------------
(* The steps of a request *)

\* A thread that changes only its own entry.
Only(t, request) == job' = [job EXCEPT ![t] = request]

\* Its entry is what it made of it, and the others have theirs.
LEMMA OnlyOne ==
  ASSUME ServiceInv, NEW t \in Threads, NEW request, Only(t, request)
  PROVE  /\ DOMAIN job' = DOMAIN job /\ job'[t] = request
         /\ \A u \in Threads \ {t} : job'[u] = job[u]
  BY DEF ServiceInv, JobsInv, Only

\* A request to write is accepted.
LEMMA AskWriteStep ==
  ASSUME ServiceInv, NEW t \in Threads, NEW source, NEW writes \in Writes[site][t],
         AskWrite(t, writes, source)
  PROVE  ServiceInv'
<1>1. Only(t, WriteJob(writes, source)) BY DEF AskWrite, Only
<1>2. job'[t] = WriteJob(writes, source) BY <1>1, OnlyOne
<1>3. UNCHANGED <<site, objects>> /\ addresses' = addresses BY DEF AskWrite
<1>4. JobOK(t)'
  <2>1. site \in DOMAIN Sites BY DEF ServiceInv, TypeOK
  <2>2. 1 \in DOMAIN writes BY <2>1, WritesAssumption DEF IsSequence
  <2>3. QED BY <1>2, <1>3, <2>2 DEF JobOK, WriteJob
<1>5. ReadOK(t)' /\ ~Held(t)' BY <1>2 DEF ReadOK, Held, WriteJob
<1>6. asked' \in 0..MaxAsked[site] BY AskedWithin DEF AskWrite
<1>7. QED BY <1>1, <1>3, <1>4, <1>5, <1>6, OnlyOne, OneThread

\* A request to read is accepted.
LEMMA AskReadStep ==
  ASSUME ServiceInv, NEW t \in Threads, NEW read, AskRead(t, read)
  PROVE  ServiceInv'
<1>1. Only(t, ReadJob(read)) BY DEF AskRead, Only
<1>2. job'[t] = ReadJob(read) BY <1>1, OnlyOne
<1>3. UNCHANGED <<site, objects>> /\ addresses' = addresses BY DEF AskRead
<1>4. JobOK(t)' BY <1>2 DEF JobOK, ReadJob
<1>5. ReadOK(t)' /\ ~Held(t)' BY <1>2 DEF ReadOK, Held, ReadJob
<1>6. asked' \in 0..MaxAsked[site] BY AskedWithin DEF AskRead
<1>7. QED BY <1>1, <1>3, <1>4, <1>5, <1>6, OnlyOne, OneThread

\* A request is answered.
LEMMA AnswerStep ==
  ASSUME ServiceInv, NEW t \in Threads, Answer(t), UNCHANGED <<site, objects, addresses, asked>>
  PROVE  ServiceInv'
<1>1. Only(t, Idle) BY DEF Answer, Only
<1>2. job'[t] = Idle BY <1>1, OnlyOne
<1>3. JobOK(t)' /\ ReadOK(t)' /\ ~Held(t)' BY <1>2, IdleKeeps
<1>4. asked' \in 0..MaxAsked[site] BY AskedWithin
<1>5. QED BY <1>1, <1>3, <1>4, OnlyOne, OneThread

\* A request that is served is one of those that were asked.
LEMMA WhatIsAsked ==
  ASSUME ServiceInv, NEW t \in Threads, job[t].serves = "writes"
  PROVE  /\ DOMAIN job[t] = DOMAIN WriteJob(<<>>, None)
         /\ job[t].writes \in Writes[site][t] /\ job[t].next \in DOMAIN job[t].writes
         /\ IsSequence(job[t].writes)
         /\ IsSequence(Request(t).payload)
         /\ \A i \in DOMAIN Request(t).payload : IsValue(Request(t).payload[i])
<1>1. /\ DOMAIN job[t] = DOMAIN WriteJob(<<>>, None)
      /\ job[t].writes \in Writes[site][t] /\ job[t].next \in DOMAIN job[t].writes
  BY DEF ServiceInv, JobsInv, JobOK, Idle
<1>2. site \in DOMAIN Sites BY DEF ServiceInv, TypeOK
<1>3. QED BY <1>1, <1>2, WritesAssumption DEF Request

\* An array with one of its elements replaced is an array.
LEMMA ElementsMakeArrays ==
  ASSUME NEW write
  PROVE  Type(WithElement(write)) = "Array" /\ IsValue(WithElement(write))
  BY DEF WithElement, V, Type, IsValue

\* What is written in an element is written in an array that is there.
LEMMA RefusedElements ==
  ASSUME NEW write, ArrayRefusal(write) = None
  PROVE  /\ Present(write.id) /\ write.property \in Served(objects[write.id])
         /\ Type(Get(objects[write.id], write.property)) = "Array"
<1>1. /\ None # "NotFound" /\ None # "UnknownProperty" /\ None # "PropertyIsNotArray"
      /\ None # "WriteAccessDenied" /\ None # "InvalidArrayIndex" /\ None # "InvalidPropertyType"
  BY NoneAssumption
<1>2. QED BY <1>1, Zenon DEF ArrayRefusal

\* Lists of recipients and of dates are no arrays.
LEMMA ListsAreNoArrays ==
  ASSUME NEW o, WellFormed(o), NEW p \in {"RecipientList", "DateList"}, p \in Served(o)
  PROVE  Type(Get(o, p)) = "List"
<1>1. ~IsPoint(o)
  <2>1. SUFFICES ASSUME IsPoint(o) PROVE FALSE OBVIOUS
  <2>2. Served(o) = PointServed(o) BY <2>1 DEF Served, IsPoint, Points
  <2>3. p \notin CommonServed /\ p \notin KindServed(o) /\ p \notin IntrinsicListed
    BY DEF CommonServed, CommonWritable, KindServed, IntrinsicListed, IntrinsicWritable
  <2>4. p \notin AnalogServed(o)
    BY <2>3 DEF AnalogServed, AnalogOwn, AnalogIncrement, AnalogAlarmServed, AnalogLimits
  <2>5. p \notin BinaryServed(o) BY <2>3 DEF BinaryServed, BinaryOwn, BinaryAlarmListed
  <2>6. p \notin MultistateServed(o)
    BY <2>3 DEF MultistateServed, MultistateOwn, MultistateAlarm
  <2>7. CASE Family(o) = "Analog" BY <2>2, <2>3, <2>4, <2>7 DEF PointServed
  <2>8. CASE Family(o) = "Binary" BY <2>2, <2>3, <2>5, <2>8 DEF PointServed
  <2>9. CASE Family(o) = "Multistate" BY <2>2, <2>3, <2>6, <2>9 DEF PointServed
  <2>10. QED BY <2>1, <2>7, <2>8, <2>9, Families
<1>2. CASE o.kind = "Device"
  BY <1>2 DEF Served, IsPoint, Points, DeviceServed
<1>3. CASE o.kind = "File"
  BY <1>3 DEF Served, IsPoint, Points, FileServed
<1>4. CASE o.kind = "NotificationClass"
  <2>1. Served(o) = ClassServed BY <1>4 DEF Served, IsPoint, Points
  <2>2. p = "RecipientList" BY <2>1 DEF ClassServed
  <2>3. Get(o, p) = o.at[p] BY <1>1, <1>4 DEF Get
  <2>4. QED BY <1>4, <2>2, <2>3 DEF WellFormed
<1>5. CASE o.kind = "Calendar"
  <2>1. Served(o) = CalendarServed BY <1>5 DEF Served, IsPoint, Points
  <2>2. p = "DateList" BY <2>1 DEF CalendarServed
  <2>3. Get(o, p) = o.at[p] BY <1>1, <1>5 DEF Get
  <2>4. QED BY <1>5, <2>2, <2>3 DEF WellFormed
<1>6. CASE o.kind = "Schedule"
  BY <1>6 DEF Served, IsPoint, Points, ScheduleServed
<1>7. QED BY <1>1, <1>2, <1>3, <1>4, <1>5, <1>6, Kinds

\* A thread's value is prepared.
LEMMA PrepareStep ==
  ASSUME ServiceInv, NEW t \in Threads, Prepare(t) PROVE ServiceInv'
<1> DEFINE write == Request(t)
           whole == DecodeWritten(write.property, write.payload)
           refused == IF write.index = None THEN whole = None ELSE ArrayRefusal(write) # None
           value == IF write.index = None THEN whole ELSE WithElement(write)
           request == [job[t] EXCEPT !.value = value, !.learned = FALSE, !.crossed = FALSE]
<1>1. UNCHANGED <<site, objects, addresses, asked>> /\ job[t].serves = "writes"
  BY DEF Prepare
<1>2. CASE refused BY <1>1, <1>2, AnswerStep DEF Prepare
<1>3. CASE ~refused
  <2>1. Only(t, request)
    <3>1. job' = [job EXCEPT ![t].value = value, ![t].learned = FALSE, ![t].crossed = FALSE]
      BY <1>3 DEF Prepare
    <3> HIDE DEF value
    <3>2. QED BY <3>1 DEF Only
  <2>2. job'[t] = request BY <2>1, OnlyOne
  <2>3. DOMAIN job[t] = DOMAIN WriteJob(<<>>, None) BY <1>1, WhatIsAsked
  <2>4. /\ DOMAIN job'[t] = DOMAIN job[t] /\ job'[t].serves = "writes"
        /\ job'[t].writes = job[t].writes /\ job'[t].next = job[t].next
        /\ job'[t].value = value /\ job'[t].learned = FALSE /\ job'[t].crossed = FALSE
    <3> HIDE DEF value
    <3>1. QED BY <1>1, <2>2, <2>3 DEF WriteJob
  <2>5. Request(t)' = Request(t) BY <2>4 DEF Request
  <2>6. JobOK(t)' BY <1>1, <2>3, <2>4, WhatIsAsked DEF JobOK
  <2>7. ReadOK(t)' BY <2>4 DEF ReadOK
  <2>8. CASE write.index = None
    <3>1. value = whole /\ whole # None BY <1>3, <2>8
    <3>2. /\ IsValue(value)
          /\ write.property = "RecipientList" => Type(value) = "List" /\ Named(value) \subseteq Ids
      <4>1. /\ IsSequence(write.payload)
            /\ \A i \in DOMAIN write.payload : IsValue(write.payload[i])
        BY <1>1, WhatIsAsked
      <4>2. QED BY <3>1, <4>1, DecodedIsValue
    <3>3. Held(t)' => IsValue(job[t].value)' /\ HeldRecipients(t)' /\ HeldElement(t)'
      <4> HIDE DEF value
      <4>1. IsValue(job[t].value)' BY <2>4, <3>2 DEF IsValue
      <4>2. HeldRecipients(t)' BY <2>4, <2>5, <2>8, <3>2 DEF HeldRecipients, Named
      <4>3. HeldElement(t)' BY <2>5, <2>8 DEF HeldElement
      <4>4. QED BY <4>1, <4>2, <4>3
    <3>4. QED BY <1>1, <2>1, <2>6, <2>7, <3>3, AskedWithin, OnlyOne, OneThread
  <2>9. CASE write.index # None
    <3>1. value = WithElement(write) /\ ArrayRefusal(write) = None BY <1>3, <2>9
    <3>2. /\ Present(write.id) /\ write.property \in Served(objects[write.id])
          /\ Type(Get(objects[write.id], write.property)) = "Array"
      BY <3>1, RefusedElements
    <3>3. write.property \notin {"RecipientList", "DateList"}
      <4>1. WellFormed(objects[write.id]) BY <3>2 DEF ServiceInv, TypeOK, Present
      <4>2. QED BY <3>2, <4>1, ListsAreNoArrays
    <3>4. Type(value) = "Array" /\ IsValue(value) BY <3>1, ElementsMakeArrays
    <3>5. /\ WithElement(Request(t))' = WithElement(Request(t))
          /\ Present(Request(t).id)' = Present(Request(t).id)
      BY <1>1, <2>5 DEF WithElement, Present
    <3>6. Held(t)' => IsValue(job[t].value)' /\ HeldRecipients(t)' /\ HeldElement(t)'
      <4> HIDE DEF value
      <4>1. HeldRecipients(t)' BY <2>5, <3>3 DEF HeldRecipients
      <4>2. HeldElement(t)' BY <1>1, <2>4, <2>5, <3>1, <3>2, <3>3, <3>4, <3>5 DEF HeldElement
      <4>3. QED BY <2>4, <3>4, <4>1, <4>2 DEF IsValue
    <3>7. QED BY <1>1, <2>1, <2>6, <2>7, <3>6, AskedWithin, OnlyOne, OneThread
  <2>10. QED BY <2>8, <2>9
<1>4. QED BY <1>2, <1>3

\* The recipients of a list that is to be stored are learned.
LEMMA LearnStep ==
  ASSUME ServiceInv, NEW t \in Threads, Learn(t) PROVE ServiceInv'
<1> DEFINE named == Named(job[t].value)
           request == [job[t] EXCEPT !.learned = TRUE]
<1>1. /\ UNCHANGED <<site, objects, asked>> /\ addresses' = Bound(named, job[t].source)
      /\ job[t].serves = "writes" /\ job[t].value # None
      /\ Request(t).property = "RecipientList" /\ Only(t, request)
  BY DEF Learn, Only
<1>2. DOMAIN addresses' = DOMAIN addresses \cup named BY <1>1, BoundBinds
<1>3. IsValue(job[t].value) /\ HeldRecipients(t) /\ HeldElement(t)
  BY <1>1 DEF ServiceInv, HeldInv, Held
<1>4. /\ named \subseteq Ids /\ Request(t).index = None
      /\ Type(job[t].value) = "List"
  BY <1>1, <1>3 DEF HeldRecipients
<1>5. \A u \in Threads \ {t} : job'[u] = job[u] BY <1>1, OnlyOne
<1>6. DOMAIN job[t] = DOMAIN WriteJob(<<>>, None) BY <1>1, WhatIsAsked
<1>7. /\ DOMAIN job'[t] = DOMAIN job[t] /\ job'[t].serves = "writes"
      /\ job'[t].writes = job[t].writes /\ job'[t].next = job[t].next
      /\ job'[t].value = job[t].value
  <2>1. job'[t] = request BY <1>1, OnlyOne
  <2>2. QED BY <1>1, <1>6, <2>1 DEF WriteJob
<1>8. \A u \in Threads :
        /\ JobOK(u)' /\ ReadOK(u)'
        /\ Held(u)' => IsValue(job[u].value)' /\ HeldRecipients(u)' /\ HeldElement(u)'
  <2>1. JobOK(t)' BY <1>1, <1>6, <1>7, WhatIsAsked DEF JobOK
  <2>2. ReadOK(t)' BY <1>7 DEF ReadOK
  <2>3. Request(t)' = Request(t) BY <1>7 DEF Request
  <2>4. IsValue(job[t].value)' BY <1>3, <1>7 DEF IsValue
  <2>5. HeldRecipients(t)' BY <1>2, <1>4, <1>7, <2>3 DEF HeldRecipients
  <2>6. HeldElement(t)' BY <1>4, <2>3 DEF HeldElement
  <2>7. QED
    <3>1. SUFFICES ASSUME NEW u \in Threads \ {t}
                   PROVE  /\ JobOK(u)' /\ ReadOK(u)'
                          /\ Held(u)' => /\ IsValue(job[u].value)' /\ HeldRecipients(u)'
                                         /\ HeldElement(u)'
      BY <2>1, <2>2, <2>4, <2>5, <2>6
    <3>2. job'[u] = job[u] BY <1>5
    <3>3. JobOK(u)' BY <1>1, <3>2 DEF ServiceInv, JobsInv, JobOK
    <3>4. ReadOK(u)' BY <1>1, <3>2 DEF ServiceInv, ReadsInv, ReadOK, Answered, Present
    <3>5. ASSUME Held(u)'
          PROVE  IsValue(job[u].value)' /\ HeldRecipients(u)' /\ HeldElement(u)'
      <4>1. Held(u) BY <3>2, <3>5 DEF Held
      <4>2. IsValue(job[u].value) /\ HeldRecipients(u) /\ HeldElement(u)
        BY <4>1 DEF ServiceInv, HeldInv
      <4>3. Request(u)' = Request(u) BY <3>2 DEF Request
      <4>4. IsValue(job[u].value)' BY <3>2, <4>2 DEF IsValue
      <4>5. HeldRecipients(u)' BY <1>2, <3>2, <4>2, <4>3 DEF HeldRecipients, Named
      <4>6. HeldElement(u)'
        BY <1>1, <3>2, <4>2, <4>3 DEF HeldElement, Present, WithElement
      <4>7. QED BY <4>4, <4>5, <4>6
    <3>6. QED BY <3>3, <3>4, <3>5
<1>9. \A u \in Threads : job'[u].serves \in {"nothing", "writes", "reads"}
  BY <1>8 DEF JobOK, Idle
<1>10. TypeOK' BY <1>1, <1>2, <1>4, <1>9 DEF ServiceInv, TypeOK
<1>11. CommandedValue' BY <1>1 DEF ServiceInv, CommandedValue
<1>12. RecipientsReachable' BY <1>1, <1>2 DEF ServiceInv, RecipientsReachable
<1>13. JobsInv' BY <1>1, <1>8, OnlyOne DEF ServiceInv, JobsInv
<1>14. HeldInv' /\ ReadsInv' BY <1>8 DEF HeldInv, ReadsInv
<1>15. QED BY <1>10, <1>11, <1>12, <1>13, <1>14 DEF ServiceInv

\* A request to read has its form.
LEMMA ReadsAre ==
  ASSUME ServiceInv, NEW t \in Threads, job[t].serves = "reads"
  PROVE  DOMAIN job[t] = {"serves", "id", "asked", "left", "failed", "crossed"}
<1>1. JobOK(t) BY DEF ServiceInv, JobsInv
<1>2. DOMAIN ReadJob([id |-> None, properties |-> {}])
        = {"serves", "id", "asked", "left", "failed", "crossed"}
  BY DEF ReadJob
<1>3. CASE job[t] = Idle BY <1>3 DEF Idle
<1>4. QED BY <1>1, <1>2, <1>3 DEF JobOK

\* What a request to read stands for is found out.
LEMMA ExpandStep ==
  ASSUME ServiceInv, NEW t \in Threads, Expand(t) PROVE ServiceInv'
<1> DEFINE all == "All" \in job[t].asked
           left == (job[t].asked \ {"All"}) \cup (IF all THEN PropertiesFor(job[t].id) ELSE {})
           request == [job[t] EXCEPT !.left = left]
<1>1. UNCHANGED <<site, objects, addresses, asked>> /\ job[t].serves = "reads"
  BY DEF Expand
<1>2. CASE all /\ ~Present(job[t].id) BY <1>1, <1>2, AnswerStep DEF Expand
<1>3. CASE ~(all /\ ~Present(job[t].id))
  <2>1. Only(t, request) BY <1>3 DEF Expand, Only
  <2>2. job'[t] = request BY <2>1, OnlyOne
  <2>3. DOMAIN job[t] = {"serves", "id", "asked", "left", "failed", "crossed"}
    BY <1>1, ReadsAre
  <2>4. /\ DOMAIN job'[t] = DOMAIN job[t] /\ job'[t].serves = "reads" /\ job'[t].left = left
        /\ job'[t].asked = job[t].asked /\ job'[t].id = job[t].id
        /\ job'[t].failed = job[t].failed /\ job'[t].crossed = job[t].crossed
    <3> HIDE DEF left
    <3>1. QED BY <1>1, <2>2, <2>3 DEF ReadJob
  <2>5. JobOK(t)' /\ ~Held(t)' BY <2>3, <2>4 DEF JobOK, Held, ReadJob
  <2>6. ReadOK(t)'
    <3>1. SUFFICES ASSUME job[t].asked = {"All"}, ~job[t].crossed
                   PROVE  job[t].failed = {} /\ \A p \in left : Answered(job[t].id, p)
      <4> HIDE DEF left
      <4>1. \A i, p : Answered(i, p)' = Answered(i, p) BY <1>1 DEF Answered, Present
      <4>2. QED BY <2>4, <4>1 DEF ReadOK
    <3>2. job[t].failed = {} BY <1>1, <3>1 DEF ServiceInv, ReadsInv, ReadOK
    <3>3. Present(job[t].id) /\ left = PropertiesFor(job[t].id) BY <1>3, <3>1
    <3>4. Listed(objects[job[t].id]) \subseteq Served(objects[job[t].id])
      BY <3>3, ListedIsServed DEF ServiceInv, TypeOK, Present
    <3>5. \A p \in PropertiesFor(job[t].id) : Answered(job[t].id, p)
      BY <3>3, <3>4 DEF PropertiesFor, Answered
    <3>6. QED BY <3>2, <3>3, <3>5
  <2>7. QED BY <1>1, <2>1, <2>5, <2>6, AskedWithin, OnlyOne, OneThread
<1>4. QED BY <1>2, <1>3

\* The next property is read.
LEMMA ReadNextStep ==
  ASSUME ServiceInv, NEW t \in Threads, ReadNext(t) PROVE ServiceInv'
<1> DEFINE p == CHOOSE p \in job[t].left : TRUE
           left == job[t].left \ {p}
           failed == IF Answered(job[t].id, p) THEN job[t].failed ELSE job[t].failed \cup {p}
           request == [job[t] EXCEPT !.left = left, !.failed = failed]
<1>1. /\ UNCHANGED <<site, objects, addresses, asked>> /\ job[t].serves = "reads"
      /\ job[t].left # None /\ job[t].left # {}
  BY DEF ReadNext
<1>2. Only(t, request) BY DEF ReadNext, Only
<1>3. job'[t] = request BY <1>2, OnlyOne
<1>4. DOMAIN job[t] = {"serves", "id", "asked", "left", "failed", "crossed"}
  BY <1>1, ReadsAre
<1>5. /\ DOMAIN job'[t] = DOMAIN job[t] /\ job'[t].serves = "reads" /\ job'[t].left = left
      /\ job'[t].asked = job[t].asked /\ job'[t].id = job[t].id
      /\ job'[t].failed = failed /\ job'[t].crossed = job[t].crossed
  <2> HIDE DEF left, failed
  <2>1. QED BY <1>1, <1>3, <1>4 DEF ReadJob
<1>6. JobOK(t)' /\ ~Held(t)' BY <1>4, <1>5 DEF JobOK, Held, ReadJob
<1>7. ReadOK(t)'
  <2>1. SUFFICES ASSUME job[t].asked = {"All"}, ~job[t].crossed
                 PROVE  failed = {} /\ \A q \in left : Answered(job[t].id, q)
    <3> HIDE DEF left, failed
    <3>1. \A i, q : Answered(i, q)' = Answered(i, q) BY <1>1 DEF Answered, Present
    <3>2. QED BY <1>5, <3>1 DEF ReadOK
  <2>2. job[t].failed = {} /\ \A q \in job[t].left : Answered(job[t].id, q)
    BY <1>1, <2>1 DEF ServiceInv, ReadsInv, ReadOK
  <2>3. p \in job[t].left BY <1>1
  <2>4. QED BY <2>2, <2>3
<1>8. QED BY <1>1, <1>2, <1>6, <1>7, AskedWithin, OnlyOne, OneThread

\* What a write makes of the object it names.
Written(t) ==
  SetWithPriority(objects[Request(t).id], Request(t).property, job[t].value, Request(t).priority)

\* A value is stored, and the next write of the request follows.
Following(t) ==
  IF job[t].next = Len(job[t].writes) THEN Idle
    ELSE [job[t] EXCEPT !.next = @ + 1, !.value = None]

\* A value that is stored was there to store, in an object that took it; whoever reads the
\* object or prepared a write to it is told.
LEMMA WhatIsStored ==
  ASSUME ServiceInv, NEW t \in Threads, Store(t)
  PROVE  /\ UNCHANGED <<site, addresses, asked>> /\ Held(t)
         /\ Request(t).property = "RecipientList" => job[t].learned
         /\ \/ Answer(t) /\ UNCHANGED objects
            \/ /\ Present(Request(t).id) /\ Written(t).answer = "ok"
               /\ objects' = [objects EXCEPT ![Request(t).id] = Written(t).object]
               /\ DOMAIN job' = Threads /\ job'[t] = Following(t)
               /\ \A u \in Threads \ {t} :
                    \/ Crosses(t, u) /\ job'[u] = [job[u] EXCEPT !.crossed = TRUE]
                    \/ ~Crosses(t, u) /\ job'[u] = job[u]
<1> DEFINE refused == \/ ~Present(Request(t).id)
                      \/ NameTaken(Request(t).id, Request(t).property, job[t].value)
                      \/ Written(t).answer # "ok"
           after(u) == CASE u = t -> Following(t)
                         [] u # t /\ Crosses(t, u) -> [job[u] EXCEPT !.crossed = TRUE]
                         [] OTHER -> job[u]
<1>1. /\ UNCHANGED <<site, addresses, asked>> /\ Held(t)
      /\ Request(t).property = "RecipientList" => job[t].learned
  BY DEF Store, Held
<1>2. IF refused
        THEN Answer(t) /\ UNCHANGED objects
        ELSE /\ objects' = [objects EXCEPT ![Request(t).id] = Written(t).object]
             /\ job' = [u \in Threads |-> after(u)]
  BY Zenon DEF Store, Written, Following
<1>3. ASSUME NEW u
      PROVE  /\ u = t => after(u) = Following(t)
             /\ u # t => \/ Crosses(t, u) /\ after(u) = [job[u] EXCEPT !.crossed = TRUE]
                         \/ ~Crosses(t, u) /\ after(u) = job[u]
  OBVIOUS
<1> HIDE DEF after
<1>4. QED BY <1>1, <1>2, <1>3

\* Who is told: a thread that has prepared a write of the object, and one that reads it.
LEMMA WhoIsCrossed ==
  ASSUME NEW t, NEW u
  PROVE  /\ Held(u) => (Crosses(t, u) <=> Request(u).id = Request(t).id)
         /\ job[u].serves = "reads" => (Crosses(t, u) <=> job[u].id = Request(t).id)
         /\ Crosses(t, u) => job[u].serves \in {"writes", "reads"}
<1>1. "writes" # "reads" OBVIOUS
<1>2. Held(u) => (Crosses(t, u) <=> Request(u).id = Request(t).id)
  BY <1>1, Zenon DEF Crosses, Held
<1>3. job[u].serves = "reads" => (Crosses(t, u) <=> job[u].id = Request(t).id)
  BY <1>1, Zenon DEF Crosses
<1>4. Crosses(t, u) => job[u].serves = "writes" \/ job[u].serves = "reads"
  BY Zenon DEF Crosses
<1>5. QED BY <1>2, <1>3, <1>4

\* The recipients of a class after a write are those it had, or those that were written,
\* which are bound.
LEMMA RecipientsStored ==
  ASSUME ServiceInv, NEW t \in Threads, Held(t), Present(Request(t).id),
         Request(t).property = "RecipientList" => job[t].learned,
         objects[Request(t).id].kind = "NotificationClass"
  PROVE  Recipients(Written(t).object) \subseteq DOMAIN addresses
<1> DEFINE o == objects[Request(t).id]
           n == Written(t).object
           v == job[t].value
<1>1. WellFormed(o) BY DEF ServiceInv, TypeOK, Present
<1>2. n = ClassSet(o, Request(t).property, v).object
  BY DEF Written, SetWithPriority, IsPoint, Points
<1>3. "at" \in DOMAIN o /\ "RecipientList" \in DOMAIN o.at BY <1>1 DEF WellFormed, ClassServed
<1>4. \/ n.at.RecipientList = o.at.RecipientList
      \/ /\ Request(t).property = "RecipientList" /\ AllOf(v, {"Destination"})
         /\ n.at.RecipientList = V("List", Datum(v))
  BY <1>2, <1>3, ClassTakes
<1>5. CASE n.at.RecipientList = o.at.RecipientList
  <2>1. Recipients(n) = Recipients(o) BY <1>5 DEF Recipients
  <2>2. QED BY <2>1 DEF ServiceInv, RecipientsReachable, Present
<1>6. CASE /\ Request(t).property = "RecipientList" /\ AllOf(v, {"Destination"})
           /\ n.at.RecipientList = V("List", Datum(v))
  <2>1. Type(v) = "List" /\ Named(v) \subseteq DOMAIN addresses
    BY <1>6 DEF ServiceInv, HeldInv, HeldRecipients
  <2>2. Recipients(n) = {Datum(Datum(v)[k]) : k \in DOMAIN Datum(v)}
    BY <1>6 DEF Recipients, Datum, V
  <2>3. \A k \in DOMAIN Datum(v) : Type(Datum(v)[k]) = "Destination" BY <1>6 DEF AllOf
  <2>4. Named(v) = {Datum(Datum(v)[k]) : k \in DOMAIN Datum(v)}
    BY <2>1, <2>3 DEF Named, Datum
  <2>5. QED BY <2>1, <2>2, <2>4
<1>7. QED BY <1>4, <1>5, <1>6

\* A value is stored.
LEMMA StoreStep ==
  ASSUME ServiceInv, NEW t \in Threads, Store(t) PROVE ServiceInv'
<1> DEFINE i == Request(t).id
           o == objects[i]
           n == Written(t).object
<1>1. /\ UNCHANGED <<site, addresses, asked>> /\ Held(t)
      /\ Request(t).property = "RecipientList" => job[t].learned
  BY WhatIsStored
<1>2. CASE Answer(t) /\ UNCHANGED objects BY <1>1, <1>2, AnswerStep
<1>3. CASE /\ Present(i) /\ objects' = [objects EXCEPT ![i] = n]
           /\ DOMAIN job' = Threads /\ job'[t] = Following(t)
           /\ \A u \in Threads \ {t} :
                \/ Crosses(t, u) /\ job'[u] = [job[u] EXCEPT !.crossed = TRUE]
                \/ ~Crosses(t, u) /\ job'[u] = job[u]
  <2>1. WellFormed(o) /\ i \in DOMAIN objects BY <1>3 DEF ServiceInv, TypeOK, Present
  <2>2. /\ WellFormed(n) /\ n.kind = o.kind
        /\ IsPoint(o) /\ HoldsCommanded(o) => HoldsCommanded(n)
    <3>1. IsValue(job[t].value) BY <1>1 DEF ServiceInv, HeldInv
    <3>2. QED BY <2>1, <3>1, SetKeeps DEF Written
  <2>3. /\ DOMAIN objects' = DOMAIN objects /\ objects'[i] = n
        /\ \A j \in DOMAIN objects \ {i} : objects'[j] = objects[j]
    <3> HIDE DEF n
    <3>1. QED BY <1>3, <2>1
  <2>4. CommandedValue'
    <3>1. IsPoint(n) <=> IsPoint(o) BY <2>2 DEF IsPoint
    <3>2. IsPoint(n) => HoldsCommanded(n)
      BY <2>1, <2>2, <3>1 DEF ServiceInv, CommandedValue
    <3> HIDE DEF i, n
    <3>3. QED BY <2>3, <3>2 DEF ServiceInv, CommandedValue
  <2>5. RecipientsReachable'
    <3>1. n.kind = "NotificationClass" => Recipients(n) \subseteq DOMAIN addresses
      BY <1>1, <1>3, <2>2, RecipientsStored
    <3> HIDE DEF i, n
    <3>2. QED BY <1>1, <2>3, <3>1 DEF ServiceInv, RecipientsReachable
  <2>6. /\ JobOK(t)' /\ ReadOK(t)' /\ ~Held(t)'
    <3>1. CASE job'[t] = Idle BY <3>1, IdleKeeps
    <3>2. CASE /\ job[t].next # Len(job[t].writes)
               /\ job'[t] = [job[t] EXCEPT !.next = @ + 1, !.value = None]
      <4>1. /\ DOMAIN job[t] = DOMAIN WriteJob(<<>>, None) /\ job[t].serves = "writes"
            /\ job[t].writes \in Writes[site][t] /\ job[t].next \in DOMAIN job[t].writes
            /\ IsSequence(job[t].writes)
        BY <1>1, WhatIsAsked DEF Held
      <4>2. /\ DOMAIN job'[t] = DOMAIN job[t] /\ job'[t].serves = "writes"
            /\ job'[t].writes = job[t].writes /\ job'[t].next = job[t].next + 1
            /\ job'[t].value = None
        BY <3>2, <4>1 DEF WriteJob
      <4>3. job[t].next + 1 \in DOMAIN job[t].writes BY <3>2, <4>1 DEF IsSequence
      <4>4. JobOK(t)' BY <1>1, <4>1, <4>2, <4>3 DEF JobOK
      <4>5. ReadOK(t)' /\ ~Held(t)' BY <4>2 DEF ReadOK, Held
      <4>6. QED BY <4>4, <4>5
    <3>3. QED BY <1>3, <3>1, <3>2 DEF Following
  <2>7. ASSUME NEW u \in Threads \ {t}
        PROVE  /\ JobOK(u)' /\ ReadOK(u)'
               /\ Held(u)' => IsValue(job[u].value)' /\ HeldRecipients(u)' /\ HeldElement(u)'
    <3>1. JobOK(u) /\ ReadOK(u) BY DEF ServiceInv, JobsInv, ReadsInv
    <3>2. CASE job[u].serves = "writes"
      <4>1. DOMAIN job[u] = DOMAIN WriteJob(<<>>, None) BY <3>2, WhatIsAsked
      <4>2. /\ DOMAIN job'[u] = DOMAIN job[u] /\ job'[u].serves = "writes"
            /\ job'[u].writes = job[u].writes /\ job'[u].next = job[u].next
            /\ job'[u].value = job[u].value /\ job'[u].learned = job[u].learned
            /\ job'[u].crossed = job[u].crossed \/ job'[u].crossed = TRUE
            /\ Crosses(t, u) => job'[u].crossed = TRUE
        BY <1>3, <3>2, <4>1 DEF WriteJob
      <4>3. Request(u)' = Request(u) BY <4>2 DEF Request
      <4>4. JobOK(u)' BY <1>1, <3>2, <4>1, <4>2, WhatIsAsked DEF JobOK
      <4>5. ReadOK(u)' BY <4>2 DEF ReadOK
      <4>6. ASSUME Held(u)'
            PROVE  IsValue(job[u].value)' /\ HeldRecipients(u)' /\ HeldElement(u)'
        <5>1. Held(u) BY <3>2, <4>2, <4>6 DEF Held
        <5>2. IsValue(job[u].value) /\ HeldRecipients(u) /\ HeldElement(u)
          BY <5>1 DEF ServiceInv, HeldInv
        <5>3. IsValue(job[u].value)' BY <4>2, <5>2 DEF IsValue
        <5>4. HeldRecipients(u)' BY <1>1, <4>2, <4>3, <5>2 DEF HeldRecipients, Named
        <5>5. HeldElement(u)'
          <6>1. CASE Request(u).id = i
            <7>1. job'[u].crossed = TRUE BY <4>2, <5>1, <6>1, WhoIsCrossed
            <7>2. QED BY <4>2, <4>3, <5>2, <7>1 DEF HeldElement
          <6>2. CASE Request(u).id # i /\ Present(Request(u).id)
            <7>1. objects'[Request(u).id] = objects[Request(u).id] BY <2>3, <6>2 DEF Present
            <7>2. /\ Present(Request(u).id)'
                  /\ WithElement(Request(u))' = WithElement(Request(u))
              BY <2>3, <4>3, <6>2, <7>1 DEF Present, WithElement
            <7>3. ~job'[u].crossed => ~job[u].crossed BY <4>2
            <7>4. QED BY <4>2, <4>3, <5>2, <7>1, <7>2, <7>3 DEF HeldElement
          <6>3. CASE ~Present(Request(u).id)
            <7>1. ~job'[u].crossed => ~job[u].crossed BY <4>2
            <7>2. QED BY <4>2, <4>3, <5>2, <6>3, <7>1 DEF HeldElement
          <6>4. QED BY <6>1, <6>2, <6>3
        <5>6. QED BY <5>3, <5>4, <5>5
      <4>7. QED BY <4>4, <4>5, <4>6
    <3>3. CASE job[u].serves = "reads"
      <4>1. DOMAIN job[u] = {"serves", "id", "asked", "left", "failed", "crossed"}
        BY <3>3, ReadsAre
      <4>2. /\ DOMAIN job'[u] = DOMAIN job[u] /\ job'[u].serves = "reads"
            /\ job'[u].id = job[u].id /\ job'[u].asked = job[u].asked
            /\ job'[u].left = job[u].left /\ job'[u].failed = job[u].failed
            /\ job'[u].crossed = job[u].crossed \/ job'[u].crossed = TRUE
            /\ Crosses(t, u) => job'[u].crossed = TRUE
        BY <1>3, <3>3, <4>1
      <4>3. JobOK(u)' /\ ~Held(u)' BY <4>1, <4>2 DEF JobOK, Held, ReadJob
      <4>4. ReadOK(u)'
        <5>1. CASE job[u].id = i
          <6>1. job'[u].crossed = TRUE BY <3>3, <4>2, <5>1, WhoIsCrossed
          <6>2. QED BY <6>1 DEF ReadOK
        <5>2. CASE job[u].id # i
          <6>1. PICK k : k = job[u].id OBVIOUS
          <6>2. \A p : Answered(k, p)' <=> Answered(k, p)
            <7> HIDE DEF i, n
            <7>1. QED BY <2>3, <5>2, <6>1 DEF Answered, Present
          <6>3. ~job'[u].crossed => ~job[u].crossed BY <4>2
          <6>4. job'[u].id = k /\ job[u].id = k BY <4>2, <6>1
          <6>5. ReadOK(u)' <=>
                  (job'[u].asked = {"All"} /\ ~job'[u].crossed =>
                     /\ job'[u].failed = {}
                     /\ job'[u].left # None => \A p \in job'[u].left : Answered(k, p)')
            BY <4>2, <6>4 DEF ReadOK
          <6>6. QED BY <3>1, <3>3, <4>2, <6>2, <6>3, <6>4, <6>5 DEF ReadOK
        <5>3. QED BY <5>1, <5>2
      <4>5. QED BY <4>3, <4>4
    <3>4. CASE job[u] = Idle
      <4>1. job'[u] = Idle BY <1>3, <3>4, WhoIsCrossed DEF Idle
      <4>2. QED BY <4>1, IdleKeeps
    <3>5. QED BY <3>1, <3>2, <3>3, <3>4 DEF JobOK
  <2>8. \A u \in Threads :
          /\ JobOK(u)' /\ ReadOK(u)'
          /\ Held(u)' => IsValue(job[u].value)' /\ HeldRecipients(u)' /\ HeldElement(u)'
    BY <2>6, <2>7
  <2>9. \A u \in Threads : job'[u].serves \in {"nothing", "writes", "reads"}
    BY <2>8 DEF JobOK, Idle
  <2>10. TypeOK'
    <3>1. \A j \in DOMAIN objects' : WellFormed(objects'[j])
      <4> HIDE DEF i, n
      <4>1. QED BY <2>2, <2>3 DEF ServiceInv, TypeOK
    <3>2. QED BY <1>1, <2>3, <2>9, <3>1 DEF ServiceInv, TypeOK
  <2>11. JobsInv' BY <1>3, <2>8 DEF JobsInv
  <2>12. HeldInv' /\ ReadsInv' BY <2>8 DEF HeldInv, ReadsInv
  <2>13. QED BY <2>4, <2>5, <2>10, <2>11, <2>12 DEF ServiceInv
<1>4. QED BY <1>2, <1>3, WhatIsStored

-----------------------------------------------------------------------------
(* The steps of the host, and every step *)

\* A point changes, but in nothing its properties' names or its arrays depend on.
LEMMA HostStep ==
  ASSUME ServiceInv, NEW i \in PointIds, NEW n, Keeps(objects[i], n), Unread(objects[i], n),
         objects' = [objects EXCEPT ![i] = n], Counted, UNCHANGED <<site, addresses, job>>
  PROVE  ServiceInv'
<1> DEFINE o == objects[i]
<1>1. WellFormed(o) /\ IsPoint(o) /\ i \in DOMAIN objects
  BY DEF ServiceInv, TypeOK, PointIds
<1>2. /\ DOMAIN objects' = DOMAIN objects /\ objects'[i] = n
      /\ \A j \in DOMAIN objects \ {i} : objects'[j] = objects[j]
  BY <1>1
<1>3. WellFormed(n) /\ n.kind = o.kind /\ (HoldsCommanded(o) => HoldsCommanded(n)) BY DEF Keeps
<1>4. IsPoint(n) /\ n.kind # "NotificationClass" BY <1>1, <1>3 DEF IsPoint, Points
<1>5. TypeOK'
  <2>1. \A j \in DOMAIN objects' : WellFormed(objects'[j])
    BY <1>2, <1>3 DEF ServiceInv, TypeOK
  <2>2. asked' \in 0..MaxAsked[site] BY AskedWithin
  <2>3. QED BY <1>2, <2>1, <2>2 DEF ServiceInv, TypeOK
<1>6. CommandedValue' BY <1>1, <1>2, <1>3 DEF ServiceInv, CommandedValue
<1>7. RecipientsReachable' BY <1>2, <1>4 DEF ServiceInv, RecipientsReachable
<1>8. JobsInv' BY DEF ServiceInv, JobsInv, JobOK
<1>9. HeldInv'
  <2>1. SUFFICES ASSUME NEW t \in Threads, Held(t)
                 PROVE  IsValue(job[t].value)' /\ HeldRecipients(t)' /\ HeldElement(t)'
    BY DEF HeldInv, Held
  <2>2. IsValue(job[t].value) /\ HeldRecipients(t) /\ HeldElement(t)
    BY <2>1 DEF ServiceInv, HeldInv
  <2>3. Request(t)' = Request(t) BY DEF Request
  <2>4. IsValue(job[t].value)' BY <2>2 DEF IsValue
  <2>5. HeldRecipients(t)' BY <2>2, <2>3 DEF HeldRecipients, Named
  <2>6. HeldElement(t)'
    <3>1. CASE Request(t).index = None \/ job[t].crossed
      BY <2>2, <2>3, <3>1 DEF HeldElement
    <3>2. CASE Request(t).index # None /\ ~job[t].crossed
      <4>1. /\ Present(Request(t).id)
            /\ Type(Get(objects[Request(t).id], Request(t).property)) = "Array"
            /\ job[t].value = WithElement(Request(t))
        BY <2>2, <3>2 DEF HeldElement
      <4>2. Get(objects'[Request(t).id], Request(t).property)
              = Get(objects[Request(t).id], Request(t).property)
        <5>1. CASE Request(t).id = i BY <1>1, <1>2, <4>1, <5>1, ArraysKept
        <5>2. CASE Request(t).id # i BY <1>2, <4>1, <5>2 DEF Present
        <5>3. QED BY <5>1, <5>2
      <4>3. WithElement(Request(t))' = WithElement(Request(t)) BY <2>3, <4>2 DEF WithElement
      <4>4. Present(Request(t).id)' BY <1>2, <2>3, <4>1 DEF Present
      <4>5. QED BY <2>2, <2>3, <4>1, <4>2, <4>3, <4>4 DEF HeldElement
    <3>3. QED BY <3>1, <3>2
  <2>7. QED BY <2>4, <2>5, <2>6
<1>10. ReadsInv'
  <2>1. Served(n) = Served(o) BY <1>1, ServedKept
  <2>2. \A j, p : Answered(j, p)' = Answered(j, p) BY <1>2, <2>1 DEF Answered, Present
  <2>3. QED BY <2>2 DEF ServiceInv, ReadsInv, ReadOK
<1>11. QED BY <1>5, <1>6, <1>7, <1>8, <1>9, <1>10 DEF ServiceInv

\* The host feeds an input.
LEMMA SourceStep ==
  ASSUME ServiceInv, NEW i \in PointIds, NEW v \in Readings, Source(i, v)
  PROVE  ServiceInv'
<1> DEFINE n == SetSourcedValue(objects[i], v).object
<1>1. WellFormed(objects[i]) /\ IsPoint(objects[i]) BY DEF ServiceInv, TypeOK, PointIds
<1>2. IsValue(v) BY WritesAssumption
<1>3. Keeps(objects[i], n) BY <1>1, <1>2, SourcedKeeps
<1>4. Unread(objects[i], n) BY SourcedUnread
<1>5. objects' = [objects EXCEPT ![i] = n] /\ Counted /\ UNCHANGED <<site, addresses, job>>
  BY DEF Source
<1> HIDE DEF n
<1>6. QED BY <1>3, <1>4, <1>5, HostStep

\* Somebody takes a point over at the panel, or lets it go.
LEMMA OverrideStep ==
  ASSUME ServiceInv, NEW i \in PointIds, NEW local, Override(i, local)
  PROVE  ServiceInv'
<1> DEFINE n == [objects[i] EXCEPT !.local = local]
<1>1. WellFormed(objects[i]) /\ IsPoint(objects[i]) BY DEF ServiceInv, TypeOK, PointIds
<1>2. Keeps(objects[i], n) /\ Unread(objects[i], n) BY <1>1, OverrideKeeps
<1>3. objects' = [objects EXCEPT ![i] = n] /\ Counted /\ UNCHANGED <<site, addresses, job>>
  BY DEF Override
<1> HIDE DEF n
<1>4. QED BY <1>2, <1>3, HostStep

\* A step in which nothing happens.
LEMMA ServiceStutter == ServiceInv /\ UNCHANGED vars => ServiceInv'
<1> SUFFICES ASSUME ServiceInv, UNCHANGED vars PROVE ServiceInv' OBVIOUS
<1>1. UNCHANGED <<site, objects, asked>> /\ addresses' = addresses /\ job' = job BY DEF vars
<1>2. \A u \in Threads :
        /\ JobOK(u)' /\ ReadOK(u)'
        /\ Held(u)' => IsValue(job[u].value)' /\ HeldRecipients(u)' /\ HeldElement(u)'
  BY <1>1, ThreadLeft
<1>3. TypeOK' BY <1>1 DEF ServiceInv, TypeOK
<1>4. JobsInv' BY <1>1, <1>2 DEF ServiceInv, JobsInv
<1>5. HeldInv' /\ ReadsInv' BY <1>2 DEF HeldInv, ReadsInv
<1>6. QED BY <1>1, <1>3, <1>4, <1>5, ObjectsLeft DEF ServiceInv

\* Every step keeps the invariant.
LEMMA ServiceStep == ServiceInv /\ [Next]_vars => ServiceInv'
<1> SUFFICES ASSUME ServiceInv, [Next]_vars PROVE ServiceInv' OBVIOUS
<1>1. ASSUME NEW t \in Threads, ReadEnds(t) PROVE ServiceInv'
  BY <1>1, AnswerStep DEF ReadEnds
<1>2. CASE UNCHANGED vars BY <1>2, ServiceStutter
<1>3. CASE Next
  BY <1>1, <1>3, AskWriteStep, AskReadStep, PrepareStep, LearnStep, StoreStep, ExpandStep,
     ReadNextStep, SourceStep, OverrideStep DEF Next
<1>4. QED BY <1>2, <1>3

\* The invariant holds of every behaviour.
LEMMA ServiceInvariant == Spec => []ServiceInv
  BY ServiceInit, ServiceStep, PTL DEF Spec

-----------------------------------------------------------------------------
(* What follows *)

\* Every object keeps the shape and the kinds of values of its kind, whatever is written
\* to it, read from its source or put in at the panel.
THEOREM TypeCorrect == Spec => []TypeOK
<1>1. ServiceInv => TypeOK BY DEF ServiceInv
<1>2. QED BY <1>1, ServiceInvariant, PTL

\* A commandable object has the value of the highest priority that commands it, or its
\* default, at every moment and with any number of priorities and clients
\* (write_priority_slot answers what is effective after every write of a slot).
THEOREM HighestPriorityRules == Spec => []CommandedValue
<1>1. ServiceInv => CommandedValue BY DEF ServiceInv
<1>2. QED BY <1>1, ServiceInvariant, PTL

\* Every device a notification class names has an address, whichever threads write the
\* lists at a time: the addresses are learned before the list is taken, and never lost.
THEOREM Reachable == Spec => []RecipientsReachable
<1>1. ServiceInv => RecipientsReachable BY DEF ServiceInv
<1>2. QED BY <1>1, ServiceInvariant, PTL

\* A client that reads all of an object that is not written meanwhile gets no error, and
\* one that reads what the standard lists of its type misses nothing.
THEOREM NothingMissed == Spec => []ReadersMissNothing
<1>1. ServiceInv => AllAnswered BY DEF ServiceInv, ReadsInv, ReadOK, AllAnswered
<1>2. ServiceInv => ListedIsStandard
  BY ListedAreStandard DEF ServiceInv, TypeOK, ListedIsStandard
<1>3. ServiceInv => ReadersMissNothing BY <1>1, <1>2 DEF ReadersMissNothing
<1>4. QED BY <1>3, ServiceInvariant, PTL

\* An array in which an element was replaced has the others as they were.
LEMMA OthersInArray ==
  ASSUME NEW write
  PROVE  LET before == Datum(Get(objects[write.id], write.property))
             after == Datum(WithElement(write))
         IN  /\ DOMAIN after = DOMAIN before
             /\ \A k \in DOMAIN after \ {write.index} : after[k] = before[k]
<1> DEFINE before == Datum(Get(objects[write.id], write.property))
<1>1. Datum(WithElement(write)) = [before EXCEPT ![write.index] = write.payload[1]]
  BY DEF WithElement, Datum, V
<1> HIDE DEF before
<1>2. QED BY <1>1 DEF before

\* Only the thread that writes an element completes the writing.
LEMMA WhoStores ==
  ASSUME ServiceInv, Next, NEW t \in Threads, StoresElement(t)
  PROVE  Store(t)
<1>1. /\ objects' # objects /\ job[t].serves = "writes" /\ job[t].value # None
      /\ job'[t].serves # "writes" \/ job'[t].value = None
  BY DEF StoresElement
<1>2. \E u \in Threads : Store(u)
  BY <1>1 DEF Next, AskWrite, AskRead, Prepare, Learn, Expand, ReadNext, ReadEnds, Source, Override
<1>3. PICK u \in Threads : Store(u) BY <1>2
<1>4. ASSUME u # t PROVE FALSE
  <2>1. DOMAIN job[t] = DOMAIN WriteJob(<<>>, None) BY <1>1, WhatIsAsked
  <2>2. Answer(u) \/ job'[t] = job[t] \/ job'[t] = [job[t] EXCEPT !.crossed = TRUE]
    BY <1>3, <1>4, WhatIsStored
  <2>3. CASE Answer(u)
    <3>1. job'[t] = job[t] BY <1>4, <2>3 DEF Answer, ServiceInv, JobsInv
    <3>2. QED BY <1>1, <3>1
  <2>4. CASE job'[t] = job[t] \/ job'[t] = [job[t] EXCEPT !.crossed = TRUE]
    BY <1>1, <2>1, <2>4 DEF WriteJob
  <2>5. QED BY <2>2, <2>3, <2>4
<1>5. QED BY <1>3, <1>4

\* A write of one element of an array leaves the other elements alone, for any number of
\* threads and whatever arrays the objects serve, unless the object was written after the
\* array was read (write_element reads the array and writes it whole).
THEOREM ElementsAlone == Spec => ElementAlone
<1>1. ASSUME ServiceInv, Next, NEW t \in Threads, StoresElement(t) PROVE OthersAlone(t)
  <2> DEFINE i == Request(t).id
             n == Written(t).object
  <2>1. Store(t) BY <1>1, WhoStores
  <2>2. /\ Request(t).index # None /\ ~job[t].crossed /\ objects' # objects /\ Held(t)
    BY <1>1 DEF StoresElement, Held
  <2>3. /\ Present(i) /\ Written(t).answer = "ok" /\ objects' = [objects EXCEPT ![i] = n]
    BY <1>1, <2>1, <2>2, WhatIsStored
  <2>4. /\ Type(job[t].value) = "Array" /\ Request(t).property # "DateList"
        /\ job[t].value = WithElement(Request(t))
    BY <1>1, <2>2 DEF ServiceInv, HeldInv, HeldElement
  <2>5. WellFormed(objects[i]) BY <1>1, <2>3 DEF ServiceInv, TypeOK, Present
  <2>6. Datum(Get(n, Request(t).property)) = Datum(job[t].value)
    BY <2>3, <2>4, <2>5, ArraysArrive DEF Written
  <2>7. objects'[i] = n BY <2>3 DEF Present
  <2>8. Datum(Get(objects'[i], Request(t).property)) = Datum(WithElement(Request(t)))
    <3> HIDE DEF n
    <3>1. QED BY <2>4, <2>6, <2>7
  <2> HIDE DEF n
  <2>9. QED BY <2>8, OthersInArray DEF OthersAlone
<1> DEFINE Step == \A t \in Threads : StoresElement(t) => OthersAlone(t)
<1>2. ServiceInv /\ [Next]_vars => [Step]_vars BY <1>1
<1>3. QED BY <1>2, ServiceInvariant, PTL DEF Spec, ElementAlone

=============================================================================
