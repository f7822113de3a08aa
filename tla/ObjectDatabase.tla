--------------------------- MODULE ObjectDatabase ---------------------------
(***************************************************************************)
(* The objects of a device: ObjectDatabase of src/object/database.rs.      *)
(*                                                                         *)
(* Request threads, the engines and the host share it.  It has a lock of   *)
(* its own for each of its parts (the map of objects, each object, the     *)
(* index of types, the index of names, the clock, the proprietary          *)
(* properties, the revision, the time of the last change), and most        *)
(* operations take several of them, one after the other.                   *)
(*                                                                         *)
(* A thread is at a place, which says the lock it waits for and the locks  *)
(* it has.  A step takes the lock that is waited for and does what the     *)
(* code does under it, up to the next lock or the end, where all locks are *)
(* let go.  Operations that take one lock and change nothing have no step. *)
(***************************************************************************)
EXTENDS Integers, FiniteSets

CONSTANTS
  Objects,      \* the object identifiers
  Device,       \* that of the Device object
  Names,        \* what an object may be called
  Threads,      \* whoever calls the database
  NoObject,     \* no object
  NoName,       \* no name
  MaxRevision   \* bound: no change begins once the revision is as high

ASSUME ObjectsAssumption == Device \in Objects /\ NoObject \notin Objects /\ NoName \notin Names
ASSUME RevisionAssumption == MaxRevision \in Nat

VARIABLES
  present,      \* ObjectDatabase.objects: the identifiers in the map
  name,         \* name[o]: the Object_Name of a present object
  types,        \* type_index: the identifiers in its lists
  index,        \* name_index
  proprietary,  \* the identifiers that have proprietary properties
  revision,     \* Database_Revision
  job,          \* job[t]: the place of thread t, and what it works on
  known,        \* known[o]: what a client has read of o, at what revision
  counted       \* the last result of statistics

data == <<present, name, types, index, proprietary, revision>>
readings == <<known, counted>>
vars == <<data, job, readings>>

-----------------------------------------------------------------------------
(* Places and locks *)

Kinds == {"objects", "entry", "types", "names", "clock", "proprietary", "revision", "modified"}
R(kind) == <<kind, "R">>
W(kind) == <<kind, "W">>
Place(waits, has) == [waits |-> waits, has |-> has]

AddPlaces == [
  add          |-> Place(W("objects"), {}),
  add_types    |-> Place(W("types"), {W("objects")}),
  add_names    |-> Place(W("names"), {W("objects"), W("types")}),
  add_revision |-> Place(W("revision"), {W("objects"), W("types"), W("names")}),
  add_modified |-> Place(W("modified"), {W("objects"), W("types"), W("names"), W("revision")})]

RemovePlaces == [
  remove             |-> Place(W("objects"), {}),
  remove_entry       |-> Place(R("entry"), {W("objects")}),
  remove_types       |-> Place(W("types"), {W("objects")}),
  remove_names       |-> Place(W("names"), {W("objects"), W("types")}),
  remove_proprietary |-> Place(W("proprietary"), {W("objects"), W("types"), W("names")}),
  remove_revision    |-> Place(W("revision"), {W("objects"), W("types"), W("names")}),
  remove_modified    |-> Place(W("modified"), {W("objects"), W("types"), W("names"), W("revision")})]

\* Whoever renames looks at the index first.
RenameNamesFirst == [
  rename          |-> Place(W("names"), {}),
  rename_entry    |-> Place(R("objects"), {W("names")}),
  rename_names    |-> Place(W("entry"), {W("names"), R("objects")}),
  rename_revision |-> Place(W("revision"), {W("names")}),
  rename_modified |-> Place(W("modified"), {W("names"), W("revision")})]

\* The index of names is kept to the end, when the others have been let go.
RenamePlaces == [
  rename          |-> Place(R("objects"), {}),
  rename_entry    |-> Place(W("entry"), {R("objects")}),
  rename_names    |-> Place(W("names"), {R("objects"), W("entry")}),
  rename_revision |-> Place(W("revision"), {W("names")}),
  rename_modified |-> Place(W("modified"), {W("names"), W("revision")})]

OtherPlaces == [
  idle             |-> Place(R("objects"), {}),
  write            |-> Place(R("objects"), {}),
  write_entry      |-> Place(W("entry"), {R("objects")}),
  attach           |-> Place(R("objects"), {}),
  attach_to        |-> Place(W("proprietary"), {}),
  read             |-> Place(R("revision"), {}),
  read_name        |-> Place(R("objects"), {}),
  read_entry       |-> Place(R("entry"), {R("objects")}),
  list             |-> Place(R("objects"), {}),
  list_entry       |-> Place(R("entry"), {R("objects")}),
  list_clock       |-> Place(R("clock"), {R("objects"), R("entry")}),
  list_proprietary |-> Place(R("proprietary"), {R("objects"), R("entry")}),
  search           |-> Place(R("objects"), {}),
  search_entry     |-> Place(R("entry"), {R("objects")}),
  count            |-> Place(R("objects"), {}),
  count_types      |-> Place(R("types"), {R("objects")}),
  count_revision   |-> Place(R("revision"), {R("objects"), R("types")}),
  count_modified   |-> Place(R("modified"), {R("objects"), R("types")}),
  tell_time        |-> Place(W("clock"), {})]

At(pc) ==
  IF pc \in DOMAIN AddPlaces THEN AddPlaces[pc]
  ELSE IF pc \in DOMAIN RemovePlaces THEN RemovePlaces[pc]
  ELSE IF pc \in DOMAIN RenamePlaces THEN RenamePlaces[pc]
  ELSE OtherPlaces[pc]

Places ==
  DOMAIN AddPlaces \union DOMAIN RemovePlaces \union DOMAIN RenamePlaces \union DOMAIN OtherPlaces

\* Where a call begins.
Operations ==
  {"add", "remove", "rename", "write", "attach", "read", "list", "search", "count", "tell_time"}
Changes == {"add", "remove", "rename"}

\* Where only locks are taken: the next place.
Passing == [
  add            |-> "add_types",
  add_types      |-> "add_names",
  add_revision   |-> "add_modified",
  remove_types   |-> "remove_names",
  remove_revision |-> "remove_modified",
  rename_entry   |-> "rename_names",
  rename_revision |-> "rename_modified",
  list_clock     |-> "list_proprietary",
  count          |-> "count_types",
  count_types    |-> "count_revision"]

\* Where the object is looked up: the next place if it is there.
Finding == [
  remove    |-> "remove_entry",
  rename    |-> "rename_entry",
  write     |-> "write_entry",
  attach    |-> "attach_to",
  read_name |-> "read_entry",
  list      |-> "list_entry"]

\* Where the operation ends once the lock is had: nothing that is modelled changes.
Ending == {"write_entry", "list_proprietary", "tell_time"}

Idle == [pc |-> "idle", obj |-> Device, name |-> NoName, revision |-> 0, rest |-> {}]
Jobs ==
  [pc : Places, obj : Objects, name : Names \union {NoName}, revision : Nat, rest : SUBSET Objects]

\* Two uses of one lock that exclude each other; an object's lock is its own.
Clash(g, p, h, q) ==
  /\ g[1] = h[1] /\ (g[1] = "entry" => p = q)
  /\ "W" \in {g[2], h[2]}

Has(t) == At(job[t].pc).has
Waits(t) == At(job[t].pc).waits

\* The lock that t waits for can be had.
Free(t) ==
  \A u \in Threads \ {t} : \A h \in Has(u) : ~Clash(Waits(t), job[t].obj, h, job[u].obj)

\* Thread t has waited at pc and has its lock now.
Gets(t, pc) == job[t].pc = pc /\ Free(t)

Goes(t, pc) == job' = [job EXCEPT ![t].pc = pc]
Ends(t) == job' = [job EXCEPT ![t] = Idle]

\* Where a name may still be given, where an object may still be removed, and where
\* a change is made but not counted.
Naming == {"add", "add_types", "add_names", "rename", "rename_entry", "rename_names"}
Removing == {"remove", "remove_entry", "remove_types", "remove_names"}
Counting == {"add_revision", "add_modified", "remove_proprietary", "remove_revision",
             "remove_modified", "rename_revision", "rename_modified"}

JobsOK ==
  /\ job \in [Threads -> Jobs]
  /\ \A t \in Threads :
       /\ job[t].pc \in Naming => job[t].name \in Names
       /\ job[t].pc \in Removing => job[t].obj # Device

NameOf(o) == IF o \in present THEN name[o] ELSE NoName

TypeOK ==
  /\ present \subseteq Objects /\ Device \in present
  /\ name \in [Objects -> Names \union {NoName}]
  /\ types \subseteq Objects
  /\ index \in [Names -> Objects \union {NoObject}]
  /\ proprietary \subseteq Objects
  /\ revision \in Nat
  /\ JobsOK
  /\ known \in [Objects -> [revision : Nat, name : Names \union {NoName}]]
  /\ counted \in [revision : Nat, objects : SUBSET Objects]

\* ObjectDatabase::new
Init ==
  /\ present = {Device} /\ types = {Device}
  /\ \E n \in Names :
       /\ name = [o \in Objects |-> IF o = Device THEN n ELSE NoName]
       /\ index = [m \in Names |-> IF m = n THEN Device ELSE NoObject]
  /\ proprietary = {}
  /\ revision = 1
  /\ job = [t \in Threads |-> Idle]
  /\ known = [o \in Objects |-> [revision |-> 0, name |-> NoName]]
  /\ counted = [revision |-> 0, objects |-> {}]

-----------------------------------------------------------------------------
(* The steps *)

\* The Device object is never removed.
Refused(op, o) == op = "remove" /\ o = Device

Call(t, op, o, n) ==
  /\ job[t].pc = "idle"
  /\ op \in Changes => revision < MaxRevision
  /\ ~Refused(op, o)
  /\ op \in {"search", "count", "tell_time"} => o = Device
  /\ n # NoName <=> op \in {"add", "rename"}
  /\ job' = [job EXCEPT ![t] = [Idle EXCEPT !.pc = op, !.obj = o, !.name = n]]
  /\ UNCHANGED <<data, readings>>

Pass(t) ==
  /\ job[t].pc \in DOMAIN Passing /\ Free(t)
  /\ Goes(t, Passing[job[t].pc])
  /\ UNCHANGED <<data, readings>>

Find(t) ==
  /\ job[t].pc \in DOMAIN Finding \ {"read_name"} /\ Free(t)
  /\ IF job[t].obj \in present THEN Goes(t, Finding[job[t].pc]) ELSE Ends(t)
  /\ UNCHANGED <<data, readings>>

End(t) ==
  /\ job[t].pc \in Ending /\ Free(t)
  /\ Ends(t)
  /\ UNCHANGED <<data, readings>>

\* A revision that stays as it is.
Unmoved(n) == n

Moved(n) == n + 1

\* increment_revision, at whose end the locks of a change are let go.
Bump(t) ==
  /\ job[t].pc \in {"add_modified", "remove_modified", "rename_modified"} /\ Free(t)
  /\ revision' = Moved(revision)
  /\ Ends(t)
  /\ UNCHANGED <<present, name, types, index, proprietary, readings>>

\* add_object
Add(t) ==
  LET o == job[t].obj
      n == job[t].name IN
  /\ Gets(t, "add_names")
  /\ o \notin present /\ index[n] = NoObject
  /\ types' = types \union {o}
  /\ index' = [index EXCEPT ![n] = o]
  /\ present' = present \union {o}
  /\ name' = [name EXCEPT ![o] = n]
  /\ Goes(t, "add_revision")
  /\ UNCHANGED <<proprietary, revision, readings>>

RefuseAdd(t) ==
  /\ Gets(t, "add_names")
  /\ job[t].obj \in present \/ index[job[t].name] # NoObject
  /\ Ends(t)
  /\ UNCHANGED <<data, readings>>

\* remove_object reads the name it takes out of the index two locks later.
Recall(t) ==
  /\ Gets(t, "remove_entry")
  /\ job' = [job EXCEPT ![t].pc = "remove_types", ![t].name = name[job[t].obj]]
  /\ UNCHANGED <<data, readings>>

Without(n) == [index EXCEPT ![n] = NoObject]

Remove(t) ==
  LET o == job[t].obj IN
  /\ Gets(t, "remove_names")
  /\ present' = present \ {o}
  /\ name' = [name EXCEPT ![o] = NoName]
  /\ types' = types \ {o}
  /\ index' = Without(job[t].name)
  /\ Goes(t, "remove_proprietary")
  /\ UNCHANGED <<proprietary, revision, readings>>

Strip(t) ==
  /\ Gets(t, "remove_proprietary")
  /\ proprietary' = proprietary \ {job[t].obj}
  /\ Goes(t, "remove_revision")
  /\ UNCHANGED <<present, name, types, index, revision, readings>>

Used(n, o) == index[n] \notin {o, NoObject}

\* The new name entered before the old one is taken out: an object that is given
\* the name it has is lost.
EnteredFirst(o, n) == [[index EXCEPT ![n] = o] EXCEPT ![name[o]] = NoObject]

Reindexed(o, n) == [[index EXCEPT ![name[o]] = NoObject] EXCEPT ![n] = o]

\* update_object, for an Object_Name
Rename(t) ==
  LET o == job[t].obj
      n == job[t].name IN
  /\ Gets(t, "rename_names")
  /\ ~Used(n, o)
  /\ index' = Reindexed(o, n)
  /\ name' = [name EXCEPT ![o] = n]
  /\ Goes(t, "rename_revision")
  /\ UNCHANGED <<present, types, proprietary, revision, readings>>

\* The name is another's, or the object does not take it.
RefuseRename(t) ==
  /\ Gets(t, "rename_names")
  /\ Ends(t)
  /\ UNCHANGED <<data, readings>>

\* set_proprietary_property no longer has the lock under which it found the object.
Attach(t) ==
  /\ Gets(t, "attach_to")
  /\ proprietary' = proprietary \union {job[t].obj}
  /\ Ends(t)
  /\ UNCHANGED <<present, name, types, index, revision, readings>>

\* property_list of the Device object looks at the clock as well.
ListEntry(t) ==
  /\ Gets(t, "list_entry")
  /\ Goes(t, IF job[t].obj = Device THEN "list_clock" ELSE "list_proprietary")
  /\ UNCHANGED <<data, readings>>

\* search_by_property reads one object after the other, in any order.
Search(t) ==
  /\ \/ Gets(t, "search") /\ LET rest == present IN
          \E o \in rest : job' = [job EXCEPT ![t].pc = "search_entry", ![t].obj = o, ![t].rest = rest \ {o}]
     \/ Gets(t, "search_entry") /\ LET rest == job[t].rest IN
          \/ rest = {} /\ Ends(t)
          \/ \E o \in rest : job' = [job EXCEPT ![t].obj = o, ![t].rest = rest \ {o}]
  /\ UNCHANGED <<data, readings>>

\* statistics
CountRevision(t) ==
  /\ Gets(t, "count_revision")
  /\ job' = [job EXCEPT ![t].pc = "count_modified", ![t].revision = revision]
  /\ UNCHANGED <<data, readings>>

Count(t) ==
  /\ Gets(t, "count_modified")
  /\ counted' = [revision |-> job[t].revision, objects |-> types]
  /\ Ends(t)
  /\ UNCHANGED <<data, known>>

\* A client reads Database_Revision, and then the name of an object.
ReadRevision(t) ==
  /\ Gets(t, "read")
  /\ job' = [job EXCEPT ![t].pc = "read_name", ![t].revision = revision]
  /\ UNCHANGED <<data, readings>>

Learns(t, n) == known' = [known EXCEPT ![job[t].obj] = [revision |-> job[t].revision, name |-> n]]

ReadNothing(t) ==
  /\ Gets(t, "read_name") /\ job[t].obj \notin present
  /\ Learns(t, NoName)
  /\ Ends(t)
  /\ UNCHANGED <<data, counted>>

FindName(t) ==
  /\ Gets(t, "read_name") /\ job[t].obj \in present
  /\ Goes(t, Finding["read_name"])
  /\ UNCHANGED <<data, readings>>

ReadName(t) ==
  /\ Gets(t, "read_entry")
  /\ Learns(t, name[job[t].obj])
  /\ Ends(t)
  /\ UNCHANGED <<data, counted>>

Works(t) ==
  \/ Pass(t) \/ Find(t) \/ End(t) \/ Bump(t)
  \/ Add(t) \/ RefuseAdd(t)
  \/ Recall(t) \/ Remove(t) \/ Strip(t)
  \/ Rename(t) \/ RefuseRename(t)
  \/ Attach(t) \/ ListEntry(t) \/ Search(t)
  \/ CountRevision(t) \/ Count(t)
  \/ ReadRevision(t) \/ ReadNothing(t) \/ FindName(t) \/ ReadName(t)

Next ==
  \E t \in Threads :
    \/ \E op \in Operations, o \in Objects, n \in Names \union {NoName} : Call(t, op, o, n)
    \/ Works(t)

Spec == Init /\ [][Next]_vars

-----------------------------------------------------------------------------
(* Properties *)

\* Whoever finds an object by its name, by its type or by its identifier finds the
\* same: the indexes are inverse to the map in whatever order objects are added,
\* removed and renamed.
IndexesAgree ==
  /\ \A n \in Names, o \in Objects : index[n] = o <=> o \in present /\ name[o] = n
  /\ types = present

\* Whether a change of o, or of which objects there are, has still to be counted.
Uncounted(o) == \E t \in Threads : job[t].pc \in Counting /\ job[t].obj = o

\* "Database revision (incremented on changes)": what a client read of an object,
\* or was counted, is as it is now if the revision is, but for a change that is
\* still to be counted.
RevisionTells ==
  /\ \A o \in Objects :
       known[o].revision = revision => known[o].name = NameOf(o) \/ Uncounted(o)
  /\ counted.revision = revision =>
       counted.objects = present \/ \E o \in Objects : Uncounted(o)

Busy == {t \in Threads : job[t].pc # "idle"}

\* Waiting readers let a waiting writer go first.
Blocked(t) ==
  \E u \in Busy \ {t} :
    \/ \E h \in Has(u) : Clash(Waits(t), job[t].obj, h, job[u].obj)
    \/ Waits(t)[2] = "R" /\ Waits(u)[2] = "W" /\ Clash(Waits(t), job[t].obj, Waits(u), job[u].obj)

\* Never is everyone who is in the middle of a call waiting for another, even if
\* the locks keep new readers out while a writer waits.
NoDeadlock == Busy # {} => \E t \in Busy : ~Blocked(t)

\* Why: no two threads have locks that exclude each other; and a removal still
\* knows the name of its object.
Exclusion ==
  \A t, u \in Threads : t # u =>
    \A g \in Has(t), h \in Has(u) : ~Clash(g, job[t].obj, h, job[u].obj)

Recalled ==
  \A t \in Threads :
    /\ job[t].pc \in {"remove_entry", "remove_types", "remove_names", "rename_entry", "rename_names"} =>
         job[t].obj \in present
    /\ job[t].pc \in {"remove_types", "remove_names"} => name[job[t].obj] = job[t].name

DatabaseInv == Exclusion /\ Recalled

=============================================================================
