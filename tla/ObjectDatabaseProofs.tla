------------------------ MODULE ObjectDatabaseProofs ------------------------
(***************************************************************************)
(* Proofs about ObjectDatabase, for any objects, names and threads.        *)
(*                                                                         *)
(* Every place waits for a lock that comes after all those it has in one   *)
(* order of locks: hence no deadlock.  Every step to another place adds at *)
(* most the lock that was waited for: hence exclusion, hence a name that   *)
(* was read is still the object's when the index is changed.               *)
(***************************************************************************)
EXTENDS ObjectDatabase, TLAPS

USE DEF R, W, Place

\* The order of the locks.
Rank(kind) ==
  CASE kind = "objects" -> 1
    [] kind = "entry" -> 2
    [] kind = "types" -> 3
    [] kind = "names" -> 4
    [] kind = "clock" -> 5
    [] kind = "proprietary" -> 6
    [] kind = "revision" -> 7
    [] kind = "modified" -> 8

WellOrdered(place) ==
  /\ place.waits[1] \in Kinds
  /\ \A h \in place.has : h[1] \in Kinds /\ Rank(h[1]) < Rank(place.waits[1])

-----------------------------------------------------------------------------
(* What the tables of places say *)

\* Which table a place is in.
LEMMA Tables ==
  /\ \A pc \in DOMAIN AddPlaces : At(pc) = AddPlaces[pc]
  /\ \A pc \in DOMAIN RemovePlaces : At(pc) = RemovePlaces[pc]
  /\ \A pc \in DOMAIN RenamePlaces : At(pc) = RenamePlaces[pc]
  /\ \A pc \in DOMAIN OtherPlaces : At(pc) = OtherPlaces[pc]
<1>1. /\ DOMAIN AddPlaces = {"add", "add_types", "add_names", "add_revision", "add_modified"}
      /\ DOMAIN RemovePlaces = {"remove", "remove_entry", "remove_types", "remove_names",
                                "remove_proprietary", "remove_revision", "remove_modified"}
      /\ DOMAIN RenamePlaces = {"rename", "rename_entry", "rename_names", "rename_revision",
                                "rename_modified"}
  BY DEF AddPlaces, RemovePlaces, RenamePlaces
<1>2. DOMAIN OtherPlaces = {"idle", "write", "write_entry", "attach", "attach_to", "read",
                            "read_name", "read_entry", "list", "list_entry", "list_clock",
                            "list_proprietary", "search", "search_entry", "count",
                            "count_types", "count_revision", "count_modified", "tell_time"}
  BY DEF OtherPlaces
<1>3. \A pc \in DOMAIN AddPlaces : At(pc) = AddPlaces[pc]
  BY DEF At
<1>4. \A pc \in DOMAIN RemovePlaces : At(pc) = RemovePlaces[pc]
  BY <1>1 DEF At
<1>5. \A pc \in DOMAIN RenamePlaces : At(pc) = RenamePlaces[pc]
  BY <1>1 DEF At
<1>6. \A pc \in DOMAIN OtherPlaces : At(pc) = OtherPlaces[pc]
  BY <1>1, <1>2 DEF At
<1>7. QED
  BY <1>3, <1>4, <1>5, <1>6

\* What the last table holds, place by place.
LEMMA OtherValues ==
  /\ "idle" \in DOMAIN OtherPlaces /\ OtherPlaces["idle"] = Place(R("objects"), {})
  /\ "write" \in DOMAIN OtherPlaces /\ OtherPlaces["write"] = Place(R("objects"), {})
  /\ "write_entry" \in DOMAIN OtherPlaces /\ OtherPlaces["write_entry"] = Place(W("entry"), {R("objects")})
  /\ "attach" \in DOMAIN OtherPlaces /\ OtherPlaces["attach"] = Place(R("objects"), {})
  /\ "attach_to" \in DOMAIN OtherPlaces /\ OtherPlaces["attach_to"] = Place(W("proprietary"), {})
  /\ "read" \in DOMAIN OtherPlaces /\ OtherPlaces["read"] = Place(R("revision"), {})
  /\ "read_name" \in DOMAIN OtherPlaces /\ OtherPlaces["read_name"] = Place(R("objects"), {})
  /\ "read_entry" \in DOMAIN OtherPlaces /\ OtherPlaces["read_entry"] = Place(R("entry"), {R("objects")})
  /\ "list" \in DOMAIN OtherPlaces /\ OtherPlaces["list"] = Place(R("objects"), {})
  /\ "list_entry" \in DOMAIN OtherPlaces /\ OtherPlaces["list_entry"] = Place(R("entry"), {R("objects")})
  /\ "list_clock" \in DOMAIN OtherPlaces /\ OtherPlaces["list_clock"] = Place(R("clock"), {R("objects"), R("entry")})
  /\ "list_proprietary" \in DOMAIN OtherPlaces /\ OtherPlaces["list_proprietary"] = Place(R("proprietary"), {R("objects"), R("entry")})
  /\ "search" \in DOMAIN OtherPlaces /\ OtherPlaces["search"] = Place(R("objects"), {})
  /\ "search_entry" \in DOMAIN OtherPlaces /\ OtherPlaces["search_entry"] = Place(R("entry"), {R("objects")})
  /\ "count" \in DOMAIN OtherPlaces /\ OtherPlaces["count"] = Place(R("objects"), {})
  /\ "count_types" \in DOMAIN OtherPlaces /\ OtherPlaces["count_types"] = Place(R("types"), {R("objects")})
  /\ "count_revision" \in DOMAIN OtherPlaces /\ OtherPlaces["count_revision"] = Place(R("revision"), {R("objects"), R("types")})
  /\ "count_modified" \in DOMAIN OtherPlaces /\ OtherPlaces["count_modified"] = Place(R("modified"), {R("objects"), R("types")})
  /\ "tell_time" \in DOMAIN OtherPlaces /\ OtherPlaces["tell_time"] = Place(W("clock"), {})
  BY DEF OtherPlaces

\* Each place of the tables waits for a lock after those it has.
LEMMA PlacesOrdered ==
  ASSUME NEW pc \in Places
  PROVE  WellOrdered(At(pc))
<1>1. CASE pc \in DOMAIN AddPlaces
  BY <1>1 DEF At, AddPlaces, WellOrdered, Rank, Kinds
<1>2. CASE pc \in DOMAIN RemovePlaces
  <2>1. At(pc) = RemovePlaces[pc]
    BY <1>2, Tables
  <2>2. CASE pc \in {"remove", "remove_entry", "remove_types", "remove_names"}
    BY <2>1, <2>2 DEF RemovePlaces, WellOrdered, Rank, Kinds
  <2>3. CASE pc \in {"remove_proprietary", "remove_revision", "remove_modified"}
    BY <2>1, <2>3 DEF RemovePlaces, WellOrdered, Rank, Kinds
  <2>4. QED
    BY <1>2, <2>2, <2>3 DEF RemovePlaces
<1>3. CASE pc \in DOMAIN RenamePlaces
  <2>1. At(pc) = RenamePlaces[pc]
    BY <1>3, Tables
  <2>2. CASE pc \in {"rename", "rename_entry", "rename_names"}
    BY <2>1, <2>2 DEF RenamePlaces, WellOrdered, Rank, Kinds
  <2>3. CASE pc \in {"rename_revision", "rename_modified"}
    BY <2>1, <2>3 DEF RenamePlaces, WellOrdered, Rank, Kinds
  <2>4. QED
    BY <1>3, <2>2, <2>3 DEF RenamePlaces
<1>4. CASE pc \in DOMAIN OtherPlaces
  <2>1. At(pc) = OtherPlaces[pc]
    BY <1>4, Tables
  <2>2. CASE pc \in {"idle", "write", "write_entry", "attach"}
    BY <2>1, <2>2, OtherValues DEF WellOrdered, Rank, Kinds
  <2>3. CASE pc \in {"attach_to", "read", "read_name", "read_entry"}
    BY <2>1, <2>3, OtherValues DEF WellOrdered, Rank, Kinds
  <2>4. CASE pc \in {"list", "list_entry", "list_clock"}
    BY <2>1, <2>4, OtherValues DEF WellOrdered, Rank, Kinds
  <2>5. CASE pc \in {"list_proprietary", "search", "search_entry"}
    BY <2>1, <2>5, OtherValues DEF WellOrdered, Rank, Kinds
  <2>6. CASE pc \in {"count", "count_types", "count_revision", "count_modified", "tell_time"}
    BY <2>1, <2>6, OtherValues DEF WellOrdered, Rank, Kinds
  <2>7. QED
    BY <1>4, <2>2, <2>3, <2>4, <2>5, <2>6 DEF OtherPlaces
<1>5. QED
  BY <1>1, <1>2, <1>3, <1>4 DEF Places

\* A step from one place to another adds at most the lock that was waited for.
Adds(pc, next) == At(next).has \subseteq At(pc).has \union {At(pc).waits}

\* The steps that pass from lock to lock only add that lock.
LEMMA PassingAdds ==
  ASSUME NEW pc \in DOMAIN Passing
  PROVE  pc \in Places /\ Passing[pc] \in Places /\ Adds(pc, Passing[pc])
<1>1. CASE pc \in {"add", "add_types", "add_revision"}
  BY <1>1 DEF Passing, Places, Adds, At, AddPlaces
<1>2. CASE pc \in {"remove_types", "remove_revision"}
  BY <1>2 DEF Passing, Places, Adds, At, AddPlaces, RemovePlaces
<1>3. CASE pc \in {"rename_entry", "rename_revision"}
  <2>1. Passing["rename_entry"] = "rename_names" /\ Passing["rename_revision"] = "rename_modified"
    BY DEF Passing
  <2>2. At(pc) = RenamePlaces[pc] /\ At(Passing[pc]) = RenamePlaces[Passing[pc]]
    BY <1>3, <2>1, Tables DEF RenamePlaces
  <2>3. pc \in Places /\ Passing[pc] \in Places
    BY <1>3, <2>1 DEF Places, RenamePlaces
  <2>4. QED
    BY <1>3, <2>1, <2>2, <2>3 DEF Adds, RenamePlaces
<1>4. CASE pc \in {"list_clock", "count", "count_types"}
  <2>1. /\ Passing["list_clock"] = "list_proprietary"
        /\ Passing["count"] = "count_types" /\ Passing["count_types"] = "count_revision"
    BY DEF Passing
  <2>2. At(pc) = OtherPlaces[pc] /\ At(Passing[pc]) = OtherPlaces[Passing[pc]]
    BY <1>4, <2>1, Tables DEF OtherPlaces
  <2>3. pc \in Places /\ Passing[pc] \in Places
    BY <1>4, <2>1 DEF Places, OtherPlaces
  <2>4. QED
    BY <1>4, <2>1, <2>2, <2>3, OtherValues DEF Adds
<1>5. QED
  BY <1>1, <1>2, <1>3, <1>4 DEF Passing

\* So do those that look an object up.
LEMMA FindingAdds ==
  ASSUME NEW pc \in DOMAIN Finding
  PROVE  pc \in Places /\ Finding[pc] \in Places /\ Adds(pc, Finding[pc])
<1>1. CASE pc = "remove"
  BY <1>1 DEF Finding, Places, Adds, At, AddPlaces, RemovePlaces
<1>2. CASE pc = "rename"
  <2>1. Finding[pc] = "rename_entry" /\ {pc, "rename_entry"} \subseteq DOMAIN RenamePlaces
    BY <1>2 DEF Finding, RenamePlaces
  <2>2. At(pc) = RenamePlaces[pc] /\ At("rename_entry") = RenamePlaces["rename_entry"]
    BY <2>1, Tables
  <2>3. QED
    BY <1>2, <2>1, <2>2 DEF Places, Adds, RenamePlaces
<1>3. CASE pc \in {"write", "attach", "read_name", "list"}
  <2>1. pc \in DOMAIN OtherPlaces /\ Finding[pc] \in DOMAIN OtherPlaces
    BY <1>3, OtherValues DEF Finding
  <2>2. At(pc) = OtherPlaces[pc] /\ At(Finding[pc]) = OtherPlaces[Finding[pc]]
    BY <2>1, Tables
  <2>3. OtherPlaces[Finding[pc]].has \subseteq OtherPlaces[pc].has \union {OtherPlaces[pc].waits}
    <3>1. /\ Finding["write"] = "write_entry" /\ Finding["attach"] = "attach_to"
          /\ Finding["read_name"] = "read_entry" /\ Finding["list"] = "list_entry"
      BY DEF Finding
    <3>2. QED
      BY <1>3, <3>1, OtherValues
  <2>4. QED
    BY <2>1, <2>2, <2>3 DEF Places, Adds
<1>4. QED
  BY <1>1, <1>2, <1>3 DEF Finding

\* And those that do something under the lock.
LEMMA WorkAdds ==
  /\ Adds("add_names", "add_revision")
  /\ Adds("remove_entry", "remove_types")
  /\ Adds("remove_names", "remove_proprietary")
  /\ Adds("remove_proprietary", "remove_revision")
  /\ Adds("rename_names", "rename_revision")
  /\ Adds("list_entry", "list_clock") /\ Adds("list_entry", "list_proprietary")
  /\ Adds("search", "search_entry") /\ Adds("search_entry", "search_entry")
  /\ Adds("count_revision", "count_modified")
  /\ Adds("read", "read_name")
<1>1. Adds("add_names", "add_revision")
  BY DEF Adds, At, AddPlaces
<1>2. /\ Adds("remove_entry", "remove_types")
      /\ Adds("remove_names", "remove_proprietary")
      /\ Adds("remove_proprietary", "remove_revision")
  BY DEF Adds, At, AddPlaces, RemovePlaces
<1>3. Adds("rename_names", "rename_revision")
  BY DEF Adds, At, AddPlaces, RemovePlaces, RenamePlaces
<1>4. Adds("list_entry", "list_clock") /\ Adds("list_entry", "list_proprietary")
  BY DEF Adds, At, AddPlaces, RemovePlaces, RenamePlaces, OtherPlaces
<1>5. Adds("search", "search_entry") /\ Adds("search_entry", "search_entry")
  BY DEF Adds, At, AddPlaces, RemovePlaces, RenamePlaces, OtherPlaces
<1>6. Adds("count_revision", "count_modified") /\ Adds("read", "read_name")
  BY DEF Adds, At, AddPlaces, RemovePlaces, RenamePlaces, OtherPlaces
<1>7. QED
  BY <1>1, <1>2, <1>3, <1>4, <1>5, <1>6

\* Where the locks that the argument needs are had.
LEMMA WhatIsHad ==
  /\ At("idle").has = {}
  /\ At("search_entry").has = {R("objects")}
  /\ At("search").has = {}
  /\ \A pc \in {"remove_entry", "remove_types", "remove_names"} : W("objects") \in At(pc).has
  /\ \A pc \in {"rename_entry", "rename_names"} : R("objects") \in At(pc).has
<1>1. At("idle").has = {} /\ At("search_entry").has = {R("objects")} /\ At("search").has = {}
  BY DEF At, AddPlaces, RemovePlaces, RenamePlaces, OtherPlaces
<1>2. \A pc \in {"remove_entry", "remove_types", "remove_names"} : W("objects") \in At(pc).has
  BY DEF At, AddPlaces, RemovePlaces
<1>3. \A pc \in {"rename_entry", "rename_names"} : R("objects") \in At(pc).has
  BY DEF At, AddPlaces, RemovePlaces, RenamePlaces
<1>4. QED
  BY <1>1, <1>2, <1>3

\* Where a step of a change leads on to.
LEMMA LeadsOn ==
  /\ \A pc \in DOMAIN Passing :
       /\ pc \in Counting => Passing[pc] \in Counting
       /\ Passing[pc] \in Removing => pc \in Removing
       /\ Passing[pc] \in Naming => pc \in Naming
  /\ \A pc \in DOMAIN Finding :
       /\ pc \notin Counting
       /\ Finding[pc] \in Removing => pc \in Removing
       /\ Finding[pc] \in Naming => pc \in Naming
<1>1. \A pc \in DOMAIN Passing : pc \in Counting => Passing[pc] \in Counting
  BY DEF Passing, Counting
<1>2. \A pc \in DOMAIN Passing :
       /\ Passing[pc] \in Removing => pc \in Removing
       /\ Passing[pc] \in Naming => pc \in Naming
  BY DEF Passing, Removing, Naming
<1>3. \A pc \in DOMAIN Finding :
       /\ pc \notin Counting
       /\ Finding[pc] \in Removing => pc \in Removing
       /\ Finding[pc] \in Naming => pc \in Naming
  BY DEF Finding, Counting, Removing, Naming
<1>4. QED
  BY <1>1, <1>2, <1>3

\* What any step of thread t makes of its job: it ends, or it goes on to a place
\* that adds at most the lock it has just taken.
StepsTo(t, j) ==
  /\ j \in Jobs
  /\ job' = [job EXCEPT ![t] = j]
  /\ \/ j = Idle
     \/ /\ Free(t)
        /\ Adds(job[t].pc, j.pc)
        /\ j.obj = job[t].obj \/ j.pc = "search_entry"
  /\ j.pc \in Removing => job[t].pc \in Removing /\ j.obj = job[t].obj
  /\ j.pc \in Naming => job[t].pc \in Naming /\ j.name = job[t].name
  /\ job[t].pc \in Counting /\ ~Bump(t) => j.pc \in Counting /\ j.obj = job[t].obj
  /\ j.revision \in {0, revision, job[t].revision}

\* Every step of a thread is one of these.
LEMMA EveryStep ==
  ASSUME TypeOK, NEW t \in Threads, Works(t)
  PROVE  \E j : StepsTo(t, j)
<1> DEFINE On(pc) == [job[t] EXCEPT !.pc = pc]
<1>1. job[t] \in Jobs /\ job \in [Threads -> Jobs]
  BY DEF TypeOK, JobsOK
<1>2. Idle \in Jobs /\ Idle.pc = "idle" /\ Idle.revision = 0 /\ 
       /\ "idle" \notin Removing \union Naming \union Counting
  BY ObjectsAssumption DEF Idle, Jobs, Places, OtherPlaces, Removing, Naming, Counting
<1>3. ASSUME NEW pc \in Places, Goes(t, pc), Free(t), Adds(job[t].pc, pc),
             pc \in Removing => job[t].pc \in Removing,
             pc \in Naming => job[t].pc \in Naming,
             job[t].pc \in Counting => pc \in Counting
      PROVE  StepsTo(t, On(pc))
  BY <1>1, <1>3 DEF Goes, StepsTo, Jobs
<1>4. ASSUME Ends(t), job[t].pc \notin Counting \/ Bump(t)
      PROVE  StepsTo(t, Idle)
  BY <1>2, <1>4 DEF Ends, StepsTo
<1>5. {"add_revision", "remove_types", "remove_proprietary", "remove_revision",
       "rename_revision", "list_clock", "list_proprietary", "search_entry",
       "count_modified", "read_name"} \subseteq Places
  BY DEF Places, AddPlaces, RemovePlaces, RenamePlaces, OtherPlaces
<1>6. CASE Pass(t)
  BY <1>3, <1>6, PassingAdds, LeadsOn DEF Pass
<1>7. CASE Find(t)
  BY <1>3, <1>4, <1>7, FindingAdds, LeadsOn DEF Find
<1>8. CASE End(t)
  BY <1>4, <1>8 DEF End, Ending, Counting
<1>9. CASE Bump(t)
  BY <1>4, <1>9 DEF Bump
<1>10. CASE Add(t)
  BY <1>3, <1>5, <1>10, WorkAdds DEF Add, Gets, Removing, Naming, Counting
<1>11. CASE RefuseAdd(t) \/ RefuseRename(t)
  BY <1>4, <1>11 DEF RefuseAdd, RefuseRename, Gets, Counting
<1>12. CASE Recall(t)
  <2> DEFINE j == [job[t] EXCEPT !.pc = "remove_types", !.name = name[job[t].obj]]
  <2>1. job' = [job EXCEPT ![t] = j]
    BY <1>12 DEF Recall
  <2>2. j \in Jobs /\ j.obj = job[t].obj /\ j.pc = "remove_types" /\ j.revision = job[t].revision
    BY <1>1, <1>5 DEF Jobs, TypeOK
  <2>3. Free(t) /\ job[t].pc = "remove_entry"
    BY <1>12 DEF Recall, Gets
  <2>4. StepsTo(t, j)
    BY <2>1, <2>2, <2>3, WorkAdds DEF StepsTo, Removing, Naming, Counting
  <2>5. QED
    BY <2>4
<1>13. CASE Remove(t)
  BY <1>3, <1>5, <1>13, WorkAdds DEF Remove, Gets, Removing, Naming, Counting
<1>14. CASE Strip(t)
  BY <1>3, <1>5, <1>14, WorkAdds DEF Strip, Gets, Removing, Naming, Counting
<1>15. CASE Rename(t)
  BY <1>3, <1>5, <1>15, WorkAdds DEF Rename, Gets, Removing, Naming, Counting
<1>16. CASE Attach(t)
  BY <1>4, <1>16 DEF Attach, Gets, Counting
<1>17. CASE ListEntry(t)
  BY <1>3, <1>5, <1>17, WorkAdds DEF ListEntry, Gets, Removing, Naming, Counting
<1>18. CASE Search(t)
  <2>1. CASE Ends(t)
    BY <1>4, <1>18, <2>1 DEF Search, Gets, Counting
  <2>2. ASSUME NEW o \in Objects, NEW rest \in SUBSET Objects,
               job' = [job EXCEPT ![t].pc = "search_entry", ![t].obj = o, ![t].rest = rest]
        PROVE  StepsTo(t, [job[t] EXCEPT !.pc = "search_entry", !.obj = o, !.rest = rest])
    <3>1. job[t].pc \in {"search", "search_entry"} /\ Free(t)
      BY <1>18 DEF Search, Gets
    <3> DEFINE j == [job[t] EXCEPT !.pc = "search_entry", !.obj = o, !.rest = rest]
    <3>2. j \in Jobs /\ j.pc = "search_entry" /\ j.revision = job[t].revision
      BY <1>1, <1>5 DEF Jobs
    <3>3. job' = [job EXCEPT ![t] = j]
      BY <2>2
    <3>4. QED
      BY <3>1, <3>2, <3>3, WorkAdds DEF StepsTo, Removing, Naming, Counting
  <2>3. \/ Ends(t)
        \/ \E o \in Objects, rest \in SUBSET Objects :
             job' = [job EXCEPT ![t].pc = "search_entry", ![t].obj = o, ![t].rest = rest]
    <3>1. present \subseteq Objects /\ job[t].rest \subseteq Objects
      BY <1>1 DEF Jobs, TypeOK
    <3>2. ASSUME NEW rest \in SUBSET Objects, NEW o \in rest,
                 job' = [job EXCEPT ![t].pc = "search_entry", ![t].obj = o, ![t].rest = rest \ {o}]
          PROVE  \E p \in Objects, s \in SUBSET Objects :
                   job' = [job EXCEPT ![t].pc = "search_entry", ![t].obj = p, ![t].rest = s]
      <4>1. o \in Objects /\ rest \ {o} \in SUBSET Objects
        OBVIOUS
      <4>2. QED
        BY <3>2, <4>1
    <3>3. CASE \E o \in present :
                 job' = [job EXCEPT ![t].pc = "search_entry", ![t].obj = o,
                                    ![t].rest = present \ {o}]
      BY <3>1, <3>2, <3>3
    <3>4. ASSUME job[t].pc = "search_entry", NEW o \in job[t].rest,
                 job' = [job EXCEPT ![t].obj = o, ![t].rest = job[t].rest \ {o}]
          PROVE  job' = [job EXCEPT ![t].pc = "search_entry", ![t].obj = o,
                                    ![t].rest = job[t].rest \ {o}]
      BY <1>1, <3>4 DEF Jobs
    <3>5. CASE job[t].pc = "search_entry" /\ \E o \in job[t].rest :
                 job' = [job EXCEPT ![t].obj = o, ![t].rest = job[t].rest \ {o}]
      BY <3>1, <3>2, <3>4, <3>5
    <3>6. QED
      BY <1>18, <3>3, <3>5 DEF Search, Gets
  <2>4. QED
    BY <2>1, <2>2, <2>3
<1>19. CASE CountRevision(t) \/ ReadRevision(t)
  <2> DEFINE j(pc) == [job[t] EXCEPT !.pc = pc, !.revision = revision]
  <2>1. ASSUME NEW pc \in {"count_modified", "read_name"},
               job' = [job EXCEPT ![t].pc = pc, ![t].revision = revision],
               Free(t), Adds(job[t].pc, pc), job[t].pc \notin Counting
        PROVE  StepsTo(t, j(pc))
    <3>1. j(pc) \in Jobs /\ j(pc).obj = job[t].obj /\ j(pc).pc = pc /\ j(pc).revision = revision
      BY <1>1, <1>5 DEF Jobs, TypeOK
    <3>2. QED
      BY <2>1, <3>1 DEF StepsTo, Removing, Naming
  <2>2. CASE CountRevision(t)
    BY <2>1, <2>2, WorkAdds DEF CountRevision, Gets, Counting
  <2>3. CASE ReadRevision(t)
    BY <2>1, <2>3, WorkAdds DEF ReadRevision, Gets, Counting
  <2>4. QED
    BY <1>19, <2>2, <2>3
<1>20. CASE Count(t) \/ ReadNothing(t) \/ ReadName(t)
  BY <1>4, <1>20 DEF Count, ReadNothing, ReadName, Gets, Counting
<1>21. CASE FindName(t)
  <2>1. "read_name" \in DOMAIN Finding
    BY DEF Finding
  <2>2. job[t].pc = "read_name" /\ Free(t) /\ Goes(t, Finding["read_name"])
    BY <1>21 DEF FindName, Gets
  <2>3. Finding["read_name"] \in Places /\ Adds("read_name", Finding["read_name"])
    BY <2>1, FindingAdds
  <2>4. /\ "read_name" \notin Counting
        /\ Finding["read_name"] \in Removing => "read_name" \in Removing
        /\ Finding["read_name"] \in Naming => "read_name" \in Naming
    BY <2>1, LeadsOn
  <2>5. StepsTo(t, On(Finding["read_name"]))
    BY <1>3, <2>2, <2>3, <2>4
  <2>6. QED
    BY <2>5
<1>22. QED
  BY <1>6, <1>7, <1>8, <1>9, <1>10, <1>11, <1>12, <1>13, <1>14, <1>15, <1>16, <1>17, <1>18,
     <1>19, <1>20, <1>21 DEF Works

-----------------------------------------------------------------------------
(* Types *)

\* A step of a thread leaves the jobs well formed, and no removal of the Device object.
LEMMA JobsStay ==
  ASSUME TypeOK, NEW t \in Threads, NEW j, StepsTo(t, j)
  PROVE  /\ JobsOK'
         /\ job'[t] = j
         /\ \A u \in Threads \ {t} : job'[u] = job[u]
<1>1. /\ job \in [Threads -> Jobs]
      /\ \A u \in Threads : /\ job[u].pc \in Naming => job[u].name \in Names
                            /\ job[u].pc \in Removing => job[u].obj # Device
  BY DEF TypeOK, JobsOK
<1>2. j \in Jobs /\ job' = [job EXCEPT ![t] = j]
  BY DEF StepsTo
<1>3. job'[t] = j /\ \A u \in Threads \ {t} : job'[u] = job[u]
  BY <1>1, <1>2
<1>4. job' \in [Threads -> Jobs]
  BY <1>1, <1>2
<1>5. (j.pc \in Removing => j.obj # Device) /\ (j.pc \in Naming => j.name \in Names)
  BY <1>1 DEF StepsTo
<1>6. QED
  BY <1>1, <1>3, <1>4, <1>5 DEF JobsOK

Called(op, o, n) == [Idle EXCEPT !.pc = op, !.obj = o, !.name = n]

\* So does a call.
LEMMA CallsBegin ==
  ASSUME TypeOK, NEW t \in Threads, NEW op \in Operations, NEW o \in Objects,
         NEW n \in Names \union {NoName}, Call(t, op, o, n)
  PROVE  /\ JobsOK'
         /\ job'[t] = Called(op, o, n)
         /\ \A u \in Threads \ {t} : job'[u] = job[u]
<1> DEFINE j == Called(op, o, n)
<1>1. /\ job \in [Threads -> Jobs]
      /\ \A u \in Threads : /\ job[u].pc \in Naming => job[u].name \in Names
                            /\ job[u].pc \in Removing => job[u].obj # Device
  BY DEF TypeOK, JobsOK
<1>2. op \in Places
  BY DEF Operations, Places, AddPlaces, RemovePlaces, RenamePlaces, OtherPlaces
<1>3. j \in Jobs /\ j.pc = op /\ j.obj = o /\ j.name = n
  BY <1>2 DEF Called, Idle, Jobs
<1>4. job' = [job EXCEPT ![t] = j]
  BY DEF Call, Called
<1>5. job'[t] = j /\ (\A u \in Threads \ {t} : job'[u] = job[u]) /\ job' \in [Threads -> Jobs]
  BY <1>1, <1>3, <1>4
<1>6. (op \in Removing => op = "remove") /\ (op \in Naming => op \in {"add", "rename"})
  BY DEF Operations, Removing, Naming
<1>7. (op \in Removing => o # Device) /\ (op \in Naming => n \in Names)
  BY <1>6 DEF Call, Refused
<1>8. QED
  BY <1>1, <1>3, <1>5, <1>7 DEF JobsOK

\* Whatever threads interleave, the state keeps its type; above all, the Device
\* object, whose removal is refused before any lock is taken, is always there.
THEOREM TypeCorrect == Spec => []TypeOK
<1>1. ASSUME Init PROVE TypeOK
  <2>1. "idle" \in Places /\ "idle" \notin Removing \union Naming
    BY DEF Places, OtherPlaces, Removing, Naming
  <2>2. Idle \in Jobs /\ Idle.pc = "idle"
    BY <2>1, ObjectsAssumption DEF Idle, Jobs
  <2>3. JobsOK
    BY <1>1, <2>1, <2>2 DEF Init, JobsOK
  <2>4. QED
    BY <1>1, <2>3, ObjectsAssumption DEF Init, TypeOK
<1>2. ASSUME TypeOK, [Next]_vars PROVE TypeOK'
  <2> DEFINE DataOK == /\ present \subseteq Objects /\ Device \in present
                       /\ name \in [Objects -> Names \union {NoName}]
                       /\ types \subseteq Objects
                       /\ index \in [Names -> Objects \union {NoObject}]
                       /\ proprietary \subseteq Objects
                       /\ revision \in Nat
      ReadingsOK == /\ known \in [Objects -> [revision : Nat, name : Names \union {NoName}]]
                    /\ counted \in [revision : Nat, objects : SUBSET Objects]
  <2>1. DataOK /\ ReadingsOK /\ JobsOK
    BY <1>2 DEF TypeOK
  <2>2. ASSUME DataOK', ReadingsOK', JobsOK' PROVE TypeOK'
    BY <2>2 DEF TypeOK
  <2>3. UNCHANGED data => DataOK'
    BY <2>1 DEF data
  <2>4. UNCHANGED readings => ReadingsOK'
    BY <2>1 DEF readings
  <2>5. CASE UNCHANGED vars
    BY <1>2, <2>5 DEF vars, data, readings, TypeOK, JobsOK
  <2>6. ASSUME NEW t \in Threads, NEW op \in Operations, NEW o \in Objects,
               NEW n \in Names \union {NoName}, Call(t, op, o, n)
        PROVE  TypeOK'
    <3>1. JobsOK'
      BY <1>2, <2>6, CallsBegin
    <3>2. UNCHANGED data /\ UNCHANGED readings
      BY <2>6 DEF Call
    <3>3. QED
      BY <2>2, <2>3, <2>4, <3>1, <3>2
  <2>7. ASSUME NEW t \in Threads, Works(t) PROVE TypeOK'
    <3>1. PICK j : StepsTo(t, j)
      BY <1>2, <2>7, EveryStep
    <3>2. JobsOK'
      BY <1>2, <3>1, JobsStay
    <3>3. job[t] \in Jobs /\ job[t].obj \in Objects /\ job[t].name \in Names \union {NoName}
          /\ job[t].revision \in Nat
      BY <2>1 DEF JobsOK, Jobs
    <3>4. DataOK'
      <4>1. CASE Bump(t)
        BY <2>1, <4>1 DEF Bump, Moved
      <4>2. CASE Add(t)
        BY <2>1, <3>3, <4>2 DEF Add
      <4>3. CASE Remove(t)
        <5>1. job[t].obj # Device
          BY <2>1, <4>3 DEF Remove, Gets, JobsOK, Removing
        <5>2. QED
          BY <2>1, <3>3, <4>3, <5>1 DEF Remove, Without
      <4>4. CASE Strip(t) \/ Attach(t)
        BY <2>1, <3>3, <4>4 DEF Strip, Attach
      <4>5. CASE Rename(t)
        BY <2>1, <3>3, <4>5 DEF Rename, Reindexed
      <4>6. CASE UNCHANGED data
        BY <2>3, <4>6
      <4>7. Pass(t) \/ Find(t) \/ End(t) \/ RefuseAdd(t) \/ Recall(t) \/ RefuseRename(t)
            \/ ListEntry(t) => UNCHANGED data
        BY DEF Pass, Find, End, RefuseAdd, Recall, RefuseRename, ListEntry
      <4>8. Search(t) \/ CountRevision(t) \/ Count(t) \/ ReadRevision(t) \/ ReadNothing(t)
            \/ FindName(t) \/ ReadName(t) => UNCHANGED data
        BY DEF Search, CountRevision, Count, ReadRevision, ReadNothing, FindName, ReadName
      <4>9. QED
        BY <2>7, <4>1, <4>2, <4>3, <4>4, <4>5, <4>6, <4>7, <4>8 DEF Works
    <3>5. ReadingsOK'
      <4>1. CASE Count(t)
        BY <2>1, <3>3, <4>1 DEF Count
      <4>2. CASE ReadNothing(t) \/ ReadName(t)
        <5>1. ASSUME NEW n \in Names \union {NoName}, Learns(t, n) PROVE ReadingsOK!1'
          <6>1. [revision |-> job[t].revision, name |-> n]
                  \in [revision : Nat, name : Names \union {NoName}]
            BY <3>3
          <6>2. QED
            BY <2>1, <5>1, <6>1 DEF Learns
        <5>2. counted' = counted
          BY <4>2 DEF ReadNothing, ReadName
        <5>3. name[job[t].obj] \in Names \union {NoName}
          BY <2>1, <3>3
        <5>4. ReadingsOK!1'
          BY <4>2, <5>1, <5>3 DEF ReadNothing, ReadName
        <5>5. QED
          BY <2>1, <5>2, <5>4
      <4>3. CASE UNCHANGED readings
        BY <2>4, <4>3
      <4>4. Pass(t) \/ Find(t) \/ End(t) \/ Bump(t) \/ Add(t) \/ RefuseAdd(t) \/ Recall(t)
            \/ Remove(t) \/ Strip(t) => UNCHANGED readings
        BY DEF Pass, Find, End, Bump, Add, RefuseAdd, Recall, Remove, Strip
      <4>5. Rename(t) \/ RefuseRename(t) \/ Attach(t) \/ ListEntry(t) \/ Search(t)
            \/ CountRevision(t) \/ ReadRevision(t) \/ FindName(t) => UNCHANGED readings
        BY DEF Rename, RefuseRename, Attach, ListEntry, Search, CountRevision, ReadRevision, FindName
      <4>6. QED
        BY <2>7, <4>1, <4>2, <4>3, <4>4, <4>5 DEF Works
    <3>6. QED
      BY <2>2, <3>2, <3>4, <3>5
  <2>8. QED
    BY <1>2, <2>5, <2>6, <2>7 DEF Next
<1>3. QED
  BY <1>1, <1>2, PTL DEF Spec

-----------------------------------------------------------------------------
(* Locks *)

\* The order of the locks is one by numbers.
LEMMA RankType == \A kind \in Kinds : Rank(kind) \in 1..8
BY DEF Kinds, Rank

\* No deadlock is possible, of any number of threads: of those who wait for the
\* last of the locks in the order, whoever waits to write, or anyone if none does,
\* waits for nobody.
THEOREM NoThreadsDeadlock == Spec => []NoDeadlock
<1>1. ASSUME TypeOK PROVE NoDeadlock
  <2> DEFINE rank(t) == Rank(Waits(t)[1])
             Someone(k) == \E t \in Busy : rank(t) = k
  <2>1. SUFFICES ASSUME Busy # {} PROVE \E t \in Busy : ~Blocked(t)
    BY DEF NoDeadlock
  <2>2. ASSUME NEW t \in Busy
        PROVE  t \in Threads /\ WellOrdered(At(job[t].pc)) /\ rank(t) \in 1..8
    <3>1. t \in Threads /\ job[t].pc \in Places
      BY <1>1 DEF Busy, TypeOK, JobsOK, Jobs
    <3>2. WellOrdered(At(job[t].pc))
      BY <3>1, PlacesOrdered
    <3>3. QED
      BY <3>1, <3>2, RankType DEF WellOrdered, Waits
  <2>3. \E k \in 1..8 : Someone(k) /\ \A m \in 1..8 : m > k => ~Someone(m)
    <3>1. \E k \in 1..8 : Someone(k)
      BY <2>1, <2>2
    <3>2. 1..8 = {1, 2, 3, 4, 5, 6, 7, 8}
      OBVIOUS
    <3> HIDE DEF Someone
    <3>3. CASE Someone(8)
      BY <3>3
    <3>4. CASE Someone(7) /\ ~Someone(8)
      BY <3>2, <3>4
    <3>5. CASE Someone(6) /\ ~Someone(7) /\ ~Someone(8)
      BY <3>2, <3>5
    <3>6. CASE Someone(5) /\ ~Someone(6) /\ ~Someone(7) /\ ~Someone(8)
      BY <3>2, <3>6
    <3>7. CASE ~Someone(5) /\ ~Someone(6) /\ ~Someone(7) /\ ~Someone(8)
      BY <3>1, <3>2, <3>7
    <3>8. QED
      BY <3>3, <3>4, <3>5, <3>6, <3>7
  <2>4. PICK k \in 1..8 : Someone(k) /\ \A m \in 1..8 : m > k => ~Someone(m)
    BY <2>3
  <2>5. ASSUME NEW t \in Busy, rank(t) = k, NEW u \in Busy, NEW h \in Has(u)
        PROVE  ~Clash(Waits(t), job[t].obj, h, job[u].obj)
    <3>1. Rank(h[1]) < rank(u) /\ rank(u) \in 1..8 /\ rank(u) <= k /\ h[1] \in Kinds
      BY <2>2, <2>4 DEF WellOrdered, Has, Waits
    <3>2. Rank(h[1]) \in 1..8
      BY <3>1, RankType
    <3>3. Waits(t)[1] # h[1]
      BY <2>5, <3>1, <3>2
    <3>4. QED
      BY <3>3 DEF Clash
  <2>6. ASSUME NEW t \in Busy, rank(t) = k, Waits(t)[2] = "W" PROVE ~Blocked(t)
    BY <2>5, <2>6 DEF Blocked
  <2>7. ASSUME NEW t \in Busy, rank(t) = k,
               \A u \in Busy : rank(u) = k => Waits(u)[2] # "W"
        PROVE  ~Blocked(t)
    BY <2>5, <2>7 DEF Blocked, Clash
  <2>8. QED
    BY <2>4, <2>6, <2>7
<1>2. QED
  BY <1>1, TypeCorrect, PTL

\* Two uses of a lock exclude each other whichever is named first.
LEMMA ClashBothWays ==
  ASSUME NEW g, NEW p, NEW h, NEW q
  PROVE  Clash(g, p, h, q) <=> Clash(h, q, g, p)
BY DEF Clash

\* A step takes a lock only if nobody has a lock that excludes it.
LEMMA StepsExclude ==
  ASSUME TypeOK, Exclusion, NEW t \in Threads, NEW j, StepsTo(t, j)
  PROVE  Exclusion'
<1>1. job'[t] = j /\ \A u \in Threads \ {t} : job'[u] = job[u]
  BY JobsStay
<1>2. job[t] \in Jobs
  BY DEF TypeOK, JobsOK
<1>3. ASSUME NEW u \in Threads \ {t}, NEW g \in At(j.pc).has, NEW h \in Has(u)
      PROVE  ~Clash(g, j.obj, h, job[u].obj)
  <2>1. CASE j = Idle
    BY <1>3, <2>1, WhatIsHad DEF Idle
  <2>2. CASE Free(t) /\ Adds(job[t].pc, j.pc) /\ (j.obj = job[t].obj \/ j.pc = "search_entry")
    <3>1. g \in Has(t) \/ g = Waits(t)
      BY <2>2 DEF Adds, Has, Waits
    <3>2. ~Clash(g, job[t].obj, h, job[u].obj)
      BY <2>2, <3>1 DEF Free, Exclusion
    <3>3. g[1] = "entry" => j.obj = job[t].obj
      BY <2>2, WhatIsHad
    <3>4. QED
      BY <3>2, <3>3 DEF Clash
  <2>3. QED
    BY <2>1, <2>2 DEF StepsTo
<1>4. ASSUME NEW u \in Threads, NEW v \in Threads, u # v,
             NEW g \in At(job'[u].pc).has, NEW h \in At(job'[v].pc).has
      PROVE  ~Clash(g, job'[u].obj, h, job'[v].obj)
  <2>1. CASE u = t
    BY <1>1, <1>3, <1>4, <2>1 DEF Has
  <2>2. CASE v = t
    BY <1>1, <1>3, <1>4, <2>2, ClashBothWays DEF Has
  <2>3. CASE u # t /\ v # t
    BY <1>1, <1>4, <2>3 DEF Exclusion, Has
  <2>4. QED
    BY <2>1, <2>2, <2>3
<1>5. QED
  BY <1>4 DEF Exclusion, Has

\* No call has a lock yet.
LEMMA CallsHaveNone == \A op \in Operations : At(op).has = {}
<1>1. ASSUME NEW op \in {"add", "remove"} PROVE At(op).has = {}
  BY <1>1 DEF At, AddPlaces, RemovePlaces
<1>2. ASSUME NEW op \in {"rename", "write", "attach"} PROVE At(op).has = {}
  <2>1. At("rename") = RenamePlaces["rename"]
    BY Tables DEF RenamePlaces
  <2>2. At("write") = OtherPlaces["write"] /\ At("attach") = OtherPlaces["attach"]
    BY Tables DEF OtherPlaces
  <2>3. QED
    BY <1>2, <2>1, <2>2 DEF RenamePlaces, OtherPlaces
<1>3. ASSUME NEW op \in {"read", "list", "search", "count", "tell_time"} PROVE At(op).has = {}
  <2>1. At(op) = OtherPlaces[op]
    BY <1>3, Tables DEF OtherPlaces
  <2>2. QED
    BY <1>3, <2>1 DEF OtherPlaces
<1>4. QED
  BY <1>1, <1>2, <1>3 DEF Operations

\* So a call, too, excludes nobody.
LEMMA CallsExclude ==
  ASSUME TypeOK, Exclusion, NEW t \in Threads, NEW op \in Operations, NEW o \in Objects,
         NEW n \in Names \union {NoName}, Call(t, op, o, n)
  PROVE  Exclusion'
<1>1. job'[t] = Called(op, o, n)
  BY CallsBegin
<1>2. \A u \in Threads \ {t} : job'[u] = job[u]
  BY CallsBegin
<1>3. job'[t].pc = op
  BY <1>1 DEF Called, Idle
<1>4. At(job'[t].pc).has = {}
  BY <1>3, CallsHaveNone
<1>5. QED
  BY <1>2, <1>4 DEF Exclusion, Has

\* No two threads ever have locks that exclude each other.
THEOREM LocksExclude == Spec => []Exclusion
<1>1. Init => Exclusion
  BY WhatIsHad DEF Init, Exclusion, Has, Idle
<1>2. ASSUME TypeOK, Exclusion, [Next]_vars PROVE Exclusion'
  <2>1. CASE UNCHANGED vars
    BY <1>2, <2>1 DEF vars, Exclusion, Has
  <2>2. ASSUME NEW t \in Threads, Works(t) PROVE Exclusion'
    BY <1>2, <2>2, EveryStep, StepsExclude
  <2>3. QED
    BY <1>2, <2>1, <2>2, CallsExclude DEF Next
<1>3. QED
  BY <1>1, <1>2, TypeCorrect, PTL DEF Spec

-----------------------------------------------------------------------------
(* The map of objects and its indexes *)

\* The places at which the object that was found must still be there.
Found == {"remove_entry", "remove_types", "remove_names", "rename_entry", "rename_names"}

\* What no other thread can disturb, for one thread.
Remembers(t) ==
  /\ job[t].pc \in Found => job[t].obj \in present
  /\ job[t].pc \in {"remove_types", "remove_names"} => name[job[t].obj] = job[t].name

\* Only under the lock of all the objects do objects come and go, and only under
\* the locks of its object is a name given.
LEMMA OthersRemember ==
  ASSUME TypeOK, Exclusion, NEW t \in Threads, Works(t), NEW u \in Threads \ {t}, Remembers(u),
         job'[u] = job[u]
  PROVE  Remembers(u)'
<1>1. /\ job[u].pc \in {"remove_entry", "remove_types", "remove_names"} => W("objects") \in Has(u)
      /\ job[u].pc \in {"rename_entry", "rename_names"} => R("objects") \in Has(u)
  BY WhatIsHad DEF Has
<1>2. ASSUME NEW h \in Has(t), NEW g \in Has(u), h[1] = "objects", g[1] = "objects",
             "W" \in {h[2], g[2]}
      PROVE  FALSE
  BY <1>2 DEF Exclusion, Clash
<1>3. CASE UNCHANGED <<present, name>>
  BY <1>3 DEF Remembers
<1>4. CASE Add(t)
  <2>1. job[t].obj \notin present /\ present' = present \union {job[t].obj}
        /\ name' = [name EXCEPT ![job[t].obj] = job[t].name]
    BY <1>4 DEF Add
  <2>2. job[u].obj \in present => name'[job[u].obj] = name[job[u].obj]
    BY <2>1 DEF TypeOK
  <2>3. QED
    BY <2>1, <2>2 DEF Remembers, Found
<1>5. CASE Remove(t)
  <2>1. W("objects") \in Has(t)
    BY <1>5, WhatIsHad DEF Remove, Gets, Has
  <2>2. job[u].pc \notin Found
    BY <1>1, <1>2, <2>1 DEF Found
  <2>3. QED
    BY <2>2 DEF Remembers, Found
<1>6. CASE Rename(t)
  <2>1. R("objects") \in Has(t) /\ present' = present
    BY <1>6, WhatIsHad DEF Rename, Gets, Has
  <2>2. job[u].pc \notin {"remove_types", "remove_names"}
    BY <1>1, <1>2, <2>1
  <2>3. QED
    BY <2>1, <2>2 DEF Remembers
<1>7. QED
  BY <1>3, <1>4, <1>5, <1>6
     DEF Works, Pass, Find, End, Bump, RefuseAdd, Recall, Strip, RefuseRename, Attach,
         ListEntry, Search, CountRevision, Count, ReadRevision, ReadNothing, FindName, ReadName, data

\* The thread itself looks the object up, and reads its name, under the lock it keeps.
LEMMA OneRemembers ==
  ASSUME TypeOK, NEW t \in Threads, Works(t), Remembers(t)
  PROVE  Remembers(t)'
<1>1. job[t] \in Jobs /\ job \in [Threads -> Jobs]
  BY DEF TypeOK, JobsOK
<1>2. "idle" \notin Found /\ "search_entry" \notin Found
  BY DEF Found
<1>3. ASSUME Ends(t) PROVE job'[t].pc = "idle"
  BY <1>1, <1>3 DEF Ends, Idle
<1>4. ASSUME NEW pc, Goes(t, pc)
      PROVE  job'[t].pc = pc /\ job'[t].obj = job[t].obj /\ job'[t].name = job[t].name
  BY <1>1, <1>4 DEF Goes, Jobs
<1>5. CASE Ends(t)
  BY <1>2, <1>3, <1>5 DEF Remembers, Found
<1>6. CASE Pass(t)
  <2>1. /\ UNCHANGED <<present, name>> /\ Goes(t, Passing[job[t].pc])
        /\ job[t].pc \in DOMAIN Passing
    BY <1>6 DEF Pass, data
  <2>2. ASSUME NEW pc \in DOMAIN Passing
        PROVE  /\ Passing[pc] \in Found => pc \in Found
               /\ Passing[pc] \in {"remove_types", "remove_names"} => pc = "remove_types"
    BY DEF Passing, Found
  <2>3. QED
    BY <1>4, <2>1, <2>2 DEF Remembers
<1>7. CASE Find(t) /\ ~Ends(t)
  <2>1. /\ UNCHANGED <<present, name>> /\ Goes(t, Finding[job[t].pc])
        /\ job[t].pc \in DOMAIN Finding /\ job[t].obj \in present
    BY <1>7 DEF Find, data
  <2>2. \A pc \in DOMAIN Finding : Finding[pc] \notin {"remove_types", "remove_names"}
    BY DEF Finding
  <2>3. QED
    BY <1>4, <2>1, <2>2 DEF Remembers
<1>8. CASE Recall(t)
  <2>1. /\ UNCHANGED <<present, name>> /\ job[t].pc = "remove_entry"
        /\ job' = [job EXCEPT ![t].pc = "remove_types", ![t].name = name[job[t].obj]]
    BY <1>8 DEF Recall, Gets, data
  <2>2. job'[t].obj = job[t].obj /\ job'[t].name = name[job[t].obj]
    BY <1>1, <2>1 DEF Jobs
  <2>3. QED
    BY <2>1, <2>2 DEF Remembers, Found
<1>9. CASE \E pc \in {"add_revision", "remove_proprietary", "remove_revision", "rename_revision",
                      "list_clock", "list_proprietary", "read_entry"} : Goes(t, pc)
  BY <1>4, <1>9 DEF Remembers, Found
<1>10. CASE Search(t) /\ ~Ends(t)
  <2>1. \/ \E o \in present : job' = [job EXCEPT ![t].pc = "search_entry", ![t].obj = o,
                                                 ![t].rest = present \ {o}]
        \/ /\ job[t].pc = "search_entry"
           /\ \E o \in job[t].rest : job' = [job EXCEPT ![t].obj = o, ![t].rest = job[t].rest \ {o}]
    BY <1>10 DEF Search, Gets
  <2>2. ASSUME NEW o, NEW rest, job' = [job EXCEPT ![t].pc = "search_entry", ![t].obj = o,
                                                   ![t].rest = rest]
        PROVE  job'[t].pc = "search_entry"
    BY <1>1, <2>2 DEF Jobs
  <2>3. ASSUME job[t].pc = "search_entry", NEW o, NEW rest,
               job' = [job EXCEPT ![t].obj = o, ![t].rest = rest]
        PROVE  job'[t].pc = "search_entry"
    BY <1>1, <2>3 DEF Jobs
  <2>4. job'[t].pc = "search_entry"
    BY <2>1, <2>2, <2>3
  <2>5. QED
    BY <1>2, <2>4 DEF Remembers, Found
<1>11. CASE CountRevision(t) \/ ReadRevision(t)
  <2>1. job'[t].pc \in {"count_modified", "read_name"}
    BY <1>1, <1>11 DEF CountRevision, ReadRevision, Jobs
  <2>2. QED
    BY <2>1 DEF Remembers, Found
<1>12. QED
  BY <1>5, <1>6, <1>7, <1>8, <1>9, <1>10, <1>11
     DEF Works, End, Bump, Add, RefuseAdd, Remove, Strip, Rename, RefuseRename, Attach,
         ListEntry, Count, ReadNothing, FindName, ReadName, Finding

\* A step that changes an index changes the map with it.
LEMMA StepsAgree ==
  ASSUME TypeOK, IndexesAgree, NEW t \in Threads, Works(t), Remembers(t)
  PROVE  IndexesAgree'
<1> DEFINE o == job[t].obj
           n == job[t].name
<1>1. o \in Objects /\ NoObject \notin Objects
  BY ObjectsAssumption DEF TypeOK, JobsOK, Jobs
<1>2. CASE UNCHANGED <<present, name, types, index>>
  BY <1>2 DEF IndexesAgree
<1>3. CASE Add(t)
  <2>1. n \in Names
    BY <1>3 DEF Add, Gets, TypeOK, JobsOK, Naming
  <2>2. types' = present'
    BY <1>3 DEF Add, IndexesAgree
  <2>3. ASSUME NEW m \in Names, NEW p \in Objects
        PROVE  index'[m] = p <=> p \in present' /\ name'[p] = m
    <3>1. index'[m] = IF m = n THEN o ELSE index[m]
      BY <1>3 DEF Add, TypeOK
    <3>2. name'[p] = IF p = o THEN n ELSE name[p]
      BY <1>3 DEF Add, TypeOK
    <3>3. o \notin present /\ index[n] = NoObject /\ present' = present \union {o}
      BY <1>3 DEF Add
    <3>4. index[m] = p <=> p \in present /\ name[p] = m
      BY DEF IndexesAgree
    <3>5. QED
      BY <1>1, <3>1, <3>2, <3>3, <3>4
  <2>4. QED
    BY <2>2, <2>3 DEF IndexesAgree
<1>4. CASE Remove(t)
  <2>1. o \in present /\ name[o] = n
    BY <1>4 DEF Remove, Gets, Remembers, Found
  <2>2. types' = present'
    BY <1>4 DEF Remove, IndexesAgree
  <2>3. ASSUME NEW m \in Names, NEW p \in Objects
        PROVE  index'[m] = p <=> p \in present' /\ name'[p] = m
    <3>1. index'[m] = IF m = n THEN NoObject ELSE index[m]
      BY <1>4 DEF Remove, Without, TypeOK
    <3>2. name'[p] = IF p = o THEN NoName ELSE name[p]
      BY <1>4 DEF Remove, TypeOK
    <3>3. present' = present \ {o}
      BY <1>4 DEF Remove
    <3>4. \A q \in Objects : index[m] = q <=> q \in present /\ name[q] = m
      BY DEF IndexesAgree
    <3>5. QED
      BY <1>1, <2>1, <3>1, <3>2, <3>3, <3>4
  <2>4. QED
    BY <2>2, <2>3 DEF IndexesAgree
<1>5. CASE Rename(t)
  <2>1. o \in present
    BY <1>5 DEF Rename, Gets, Remembers, Found
  <2>2. n \in Names
    BY <1>5 DEF Rename, Gets, TypeOK, JobsOK, Naming
  <2>3. types' = present' /\ present' = present
    BY <1>5 DEF Rename, IndexesAgree
  <2>4. ASSUME NEW m \in Names, NEW p \in Objects
        PROVE  index'[m] = p <=> p \in present' /\ name'[p] = m
    <3>1. index'[m] = IF m = n THEN o ELSE IF m = name[o] THEN NoObject ELSE index[m]
      BY <1>5 DEF Rename, Reindexed, TypeOK
    <3>2. name'[p] = IF p = o THEN n ELSE name[p]
      BY <1>5 DEF Rename, TypeOK
    <3>3. index[n] \in {o, NoObject}
      BY <1>5 DEF Rename, Used
    <3>4. \A q \in Objects, i \in Names : index[i] = q <=> q \in present /\ name[q] = i
      BY DEF IndexesAgree
    <3>5. QED
      BY <1>1, <2>1, <2>2, <2>3, <3>1, <3>2, <3>3, <3>4
  <2>5. QED
    BY <2>3, <2>4 DEF IndexesAgree
<1>6. QED
  BY <1>2, <1>3, <1>4, <1>5
     DEF Works, Pass, Find, End, Bump, RefuseAdd, Recall, Strip, RefuseRename, Attach,
         ListEntry, Search, CountRevision, Count, ReadRevision, ReadNothing, FindName, ReadName, data

Consistent == IndexesAgree /\ \A t \in Threads : Remembers(t)

\* The indexes agree and every thread remembers rightly, in every state.
LEMMA StaysConsistent == Spec => []Consistent
<1>1. Init => Consistent
  <2>1. ASSUME Init PROVE IndexesAgree
    BY <2>1, ObjectsAssumption DEF Init, IndexesAgree
  <2>2. ASSUME Init, NEW t \in Threads PROVE Remembers(t)
    BY <2>2 DEF Init, Idle, Remembers, Found
  <2>3. QED
    BY <2>1, <2>2 DEF Consistent
<1>2. ASSUME TypeOK, Exclusion, Consistent, [Next]_vars PROVE Consistent'
  <2>1. CASE UNCHANGED vars
    BY <1>2, <2>1 DEF vars, data, Consistent, IndexesAgree, Remembers
  <2>2. ASSUME NEW t \in Threads, Works(t) PROVE Consistent'
    <3>1. IndexesAgree'
      BY <1>2, <2>2, StepsAgree DEF Consistent
    <3>2. PICK j : StepsTo(t, j)
      BY <1>2, <2>2, EveryStep
    <3>3. \A u \in Threads \ {t} : job'[u] = job[u]
      BY <1>2, <3>2, JobsStay
    <3>4. ASSUME NEW u \in Threads PROVE Remembers(u)'
      BY <1>2, <2>2, <3>3, OthersRemember, OneRemembers DEF Consistent
    <3>5. QED
      BY <3>1, <3>4 DEF Consistent
  <2>3. ASSUME NEW t \in Threads, NEW op \in Operations, NEW o \in Objects,
               NEW n \in Names \union {NoName}, Call(t, op, o, n)
        PROVE  Consistent'
    <3>1. UNCHANGED data /\ job'[t] = Called(op, o, n) /\ \A u \in Threads \ {t} : job'[u] = job[u]
      BY <1>2, <2>3, CallsBegin DEF Call
    <3>2. IndexesAgree'
      BY <1>2, <3>1 DEF data, Consistent, IndexesAgree
    <3>3. ASSUME NEW u \in Threads PROVE Remembers(u)'
      <4>1. CASE u = t
        <5>1. job'[t].pc = op
          BY <3>1 DEF Called, Idle
        <5>2. op \notin Found
          BY DEF Operations, Found
        <5>3. QED
          BY <4>1, <5>1, <5>2 DEF Remembers, Found
      <4>2. CASE u # t
        BY <1>2, <3>1, <4>2 DEF data, Consistent, Remembers
      <4>3. QED
        BY <4>1, <4>2
    <3>4. QED
      BY <3>2, <3>3 DEF Consistent
  <2>4. QED
    BY <1>2, <2>1, <2>2, <2>3 DEF Next
<1>3. QED
  BY <1>1, <1>2, TypeCorrect, LocksExclude, PTL DEF Spec

\* Names, types and identifiers always lead to the same objects, however the
\* changes of any number of threads interleave between their locks.
THEOREM ObjectsAgree == Spec => [](IndexesAgree /\ DatabaseInv)
<1>1. Consistent /\ Exclusion => IndexesAgree /\ DatabaseInv
  BY DEF Consistent, Remembers, Found, DatabaseInv, Recalled
<1>2. QED
  BY <1>1, StaysConsistent, LocksExclude, PTL


-----------------------------------------------------------------------------
(* The revision *)

\* An object that is not there has no name.
Nameless == \A o \in Objects : o \notin present => name[o] = NoName

\* Nobody has seen a revision that is still to come.
Bounded ==
  /\ \A o \in Objects : known[o].revision <= revision
  /\ counted.revision <= revision
  /\ \A t \in Threads : job[t].revision <= revision

\* Only objects that are there are given names, and a removed one loses its own.
LEMMA StaysNameless ==
  ASSUME TypeOK, Nameless, NEW t \in Threads, Remembers(t), Works(t)
  PROVE  Nameless'
<1>1. CASE UNCHANGED <<present, name>>
  BY <1>1 DEF Nameless
<1>2. CASE Add(t)
  BY <1>2 DEF Add, Nameless, TypeOK
<1>3. CASE Remove(t)
  BY <1>3 DEF Remove, Nameless, TypeOK
<1>4. CASE Rename(t)
  <2>1. job[t].obj \in present
    BY <1>4 DEF Rename, Gets, Remembers, Found
  <2>2. QED
    BY <1>4, <2>1 DEF Rename, Nameless, TypeOK
<1>5. QED
  BY <1>1, <1>2, <1>3, <1>4
     DEF Works, Pass, Find, End, Bump, RefuseAdd, Recall, Strip, RefuseRename, Attach,
         ListEntry, Search, CountRevision, Count, ReadRevision, ReadNothing, FindName, ReadName, data

\* The revision only ever goes up, and only at the end of a change.
LEMMA RevisionMoves ==
  ASSUME TypeOK, NEW t \in Threads, Works(t)
  PROVE  /\ Bump(t) => revision' = revision + 1 /\ UNCHANGED readings
         /\ ~Bump(t) => revision' = revision
<1>1. Bump(t) => revision' = revision + 1 /\ UNCHANGED readings
  BY DEF Bump, Moved, readings
<1>2. ~Bump(t) => revision' = revision
  BY DEF Works, Pass, Find, End, Add, RefuseAdd, Recall, Remove, Strip, Rename, RefuseRename,
         Attach, ListEntry, Search, CountRevision, Count, ReadRevision, ReadNothing, FindName,
         ReadName, data
<1>3. QED
  BY <1>1, <1>2

\* What a step makes clients know.
LEMMA WhatIsLearnt ==
  ASSUME TypeOK, Nameless, IndexesAgree, NEW t \in Threads, Works(t)
  PROVE  /\ \A o \in Objects :
              \/ known'[o] = known[o]
              \/ known'[o].revision = job[t].revision /\ known'[o].name = NameOf(o)'
         /\ \/ counted' = counted
            \/ counted'.revision = job[t].revision /\ counted'.objects = present'
<1>1. CASE UNCHANGED readings
  BY <1>1 DEF readings
<1>2. CASE Count(t)
  BY <1>2 DEF Count, data, IndexesAgree
<1>3. ASSUME NEW n, Learns(t, n), UNCHANGED data, counted' = counted,
             n = NameOf(job[t].obj)
      PROVE  \A o \in Objects :
               \/ known'[o] = known[o]
               \/ known'[o].revision = job[t].revision /\ known'[o].name = NameOf(o)'
  <2>1. known' = [known EXCEPT ![job[t].obj] = [revision |-> job[t].revision, name |-> n]]
    BY <1>3 DEF Learns
  <2>2. \A o \in Objects : NameOf(o)' = NameOf(o)
    BY <1>3 DEF NameOf, data
  <2>3. QED
    BY <1>3, <2>1, <2>2 DEF TypeOK
<1>4. CASE ReadNothing(t)
  <2>1. NameOf(job[t].obj) = NoName
    BY <1>4 DEF ReadNothing, NameOf
  <2>2. QED
    BY <1>3, <1>4, <2>1 DEF ReadNothing
<1>5. CASE ReadName(t)
  <2>1. job[t].obj \in Objects
    BY DEF TypeOK, JobsOK, Jobs
  <2>2. NameOf(job[t].obj) = name[job[t].obj]
    BY <2>1 DEF NameOf, Nameless
  <2>3. QED
    BY <1>3, <1>5, <2>2 DEF ReadName
<1>6. QED
  BY <1>1, <1>2, <1>4, <1>5
     DEF Works, Pass, Find, End, Bump, Add, RefuseAdd, Recall, Remove, Strip, Rename,
         RefuseRename, Attach, ListEntry, Search, CountRevision, ReadRevision, FindName

\* A change is uncounted from the step that makes it to the one that counts it.
LEMMA ChangesUncounted ==
  ASSUME TypeOK, NEW t \in Threads, Works(t), ~Bump(t)
  PROVE  /\ \A o \in Objects : Uncounted(o) => Uncounted(o)'
         /\ \A o \in Objects : NameOf(o)' # NameOf(o) => Uncounted(o)'
         /\ present' # present => \E o \in Objects : Uncounted(o)'
<1>1. PICK j : StepsTo(t, j)
  BY EveryStep
<1>2. job'[t] = j /\ \A u \in Threads \ {t} : job'[u] = job[u]
  BY <1>1, JobsStay
<1>3. ASSUME NEW o \in Objects, Uncounted(o) PROVE Uncounted(o)'
  <2>1. PICK u \in Threads : job[u].pc \in Counting /\ job[u].obj = o
    BY <1>3 DEF Uncounted
  <2>2. job'[u].pc \in Counting /\ job'[u].obj = o
    BY <1>1, <1>2, <2>1 DEF StepsTo
  <2>3. QED
    BY <2>2 DEF Uncounted
<1>4. job[t].obj \in Objects /\ job \in [Threads -> Jobs]
  BY DEF TypeOK, JobsOK, Jobs
<1>5. CASE UNCHANGED <<present, name>>
  BY <1>3, <1>5 DEF NameOf
<1>6. CASE Add(t) \/ Remove(t) \/ Rename(t)
  <2>1. PICK pc \in {"add_revision", "remove_proprietary", "rename_revision"} : Goes(t, pc)
    BY <1>6 DEF Add, Remove, Rename
  <2>2. job'[t].pc = pc /\ job'[t].obj = job[t].obj
    BY <1>4, <2>1 DEF Goes, Jobs
  <2>3. ASSUME NEW o \in Objects, o # job[t].obj PROVE NameOf(o)' = NameOf(o)
    BY <1>6, <2>3 DEF Add, Remove, Rename, NameOf, TypeOK
  <2>4. ASSUME NEW o \in Objects, NameOf(o)' # NameOf(o) PROVE Uncounted(o)'
    <3>1. o = job[t].obj
      BY <2>3, <2>4
    <3>2. QED
      BY <2>2, <3>1 DEF Uncounted, Counting
  <2>5. \E o \in Objects : Uncounted(o)'
    BY <1>4, <2>2 DEF Uncounted, Counting
  <2>6. QED
    BY <1>3, <2>4, <2>5
<1>7. QED
  BY <1>5, <1>6
     DEF Works, Pass, Find, End, RefuseAdd, Recall, Strip, RefuseRename, Attach,
         ListEntry, Search, CountRevision, Count, ReadRevision, ReadNothing, FindName, ReadName, data

\* What is read is at most the revision, which never goes down.
LEMMA StaysBounded ==
  ASSUME TypeOK, Nameless, IndexesAgree, Bounded, NEW t \in Threads, Works(t)
  PROVE  Bounded'
<1>1. PICK j : StepsTo(t, j)
  BY EveryStep
<1>2. job'[t] = j /\ \A u \in Threads \ {t} : job'[u] = job[u]
  BY <1>1, JobsStay
<1>3. /\ revision \in Nat /\ revision' \in Nat /\ revision <= revision'
      /\ \A u \in Threads : job[u].revision \in Nat
      /\ \A o \in Objects : known[o].revision \in Nat
      /\ counted.revision \in Nat
  BY RevisionMoves DEF TypeOK, JobsOK, Jobs
<1>4. j.revision <= revision'
  BY <1>1, <1>3 DEF StepsTo, Bounded
<1>5. \A u \in Threads : job'[u].revision <= revision'
  BY <1>2, <1>3, <1>4 DEF Bounded
<1>6. \A o \in Objects : known'[o].revision <= revision'
  BY <1>3, WhatIsLearnt DEF Bounded
<1>7. counted'.revision <= revision'
  BY <1>3, WhatIsLearnt DEF Bounded
<1>8. QED
  BY <1>5, <1>6, <1>7 DEF Bounded

\* A client that has read a revision and afterwards a name, and reads the same
\* revision again, may keep the name, unless a change of that object was under way.
THEOREM RevisionsTell == Spec => []RevisionTells
<1> DEFINE IInv == Nameless /\ Bounded /\ RevisionTells
<1>1. ASSUME Init PROVE IInv
  <2>1. Nameless
    BY <1>1 DEF Init, Nameless
  <2>2. /\ revision = 1 /\ counted.revision = 0
        /\ \A o \in Objects : known[o].revision = 0
        /\ \A t \in Threads : job[t].revision = 0
    BY <1>1 DEF Init, Idle
  <2>3. Bounded
    BY <2>2 DEF Bounded
  <2>4. RevisionTells
    BY <2>2 DEF RevisionTells
  <2>5. QED
    BY <2>1, <2>3, <2>4
<1>2. ASSUME TypeOK, Consistent, IInv, [Next]_vars PROVE IInv'
  <2>1. CASE UNCHANGED vars
    BY <1>2, <2>1 DEF vars, data, readings, Nameless, Bounded, RevisionTells, NameOf, Uncounted
  <2>2. ASSUME NEW t \in Threads, NEW op \in Operations, NEW o \in Objects,
               NEW n \in Names \union {NoName}, Call(t, op, o, n)
        PROVE  IInv'
    <3>1. /\ UNCHANGED data /\ UNCHANGED readings /\ job[t].pc = "idle"
          /\ job'[t] = Called(op, o, n) /\ \A u \in Threads \ {t} : job'[u] = job[u]
      BY <1>2, <2>2, CallsBegin DEF Call
    <3>2. job'[t].revision = 0 /\ revision \in Nat
      BY <1>2, <3>1 DEF Called, Idle, TypeOK
    <3>3. Nameless' /\ Bounded'
      BY <1>2, <3>1, <3>2 DEF data, readings, Nameless, Bounded
    <3>4. ASSUME NEW p \in Objects, Uncounted(p) PROVE Uncounted(p)'
      <4>1. PICK u \in Threads : job[u].pc \in Counting /\ job[u].obj = p
        BY <3>4 DEF Uncounted
      <4>2. u # t
        BY <3>1, <4>1 DEF Counting
      <4>3. QED
        BY <3>1, <4>1, <4>2 DEF Uncounted
    <3>5. RevisionTells'
      BY <1>2, <3>1, <3>4 DEF data, readings, RevisionTells, NameOf
    <3>6. QED
      BY <3>3, <3>5
  <2>3. ASSUME NEW t \in Threads, Works(t) PROVE IInv'
    <3>1. Nameless' /\ Bounded'
      BY <1>2, <2>3, StaysNameless, StaysBounded DEF Consistent
    <3>2. CASE Bump(t)
      <4>1. revision' = revision + 1 /\ UNCHANGED readings /\ revision \in Nat
        BY <1>2, <2>3, <3>2, RevisionMoves DEF TypeOK
      <4>2. \A o \in Objects : known[o].revision \in Nat /\ known[o].revision <= revision
        BY <1>2 DEF TypeOK, Bounded
      <4>3. counted.revision \in Nat /\ counted.revision <= revision
        BY <1>2 DEF TypeOK, Bounded
      <4>4. RevisionTells'
        BY <4>1, <4>2, <4>3 DEF RevisionTells, readings
      <4>5. QED
        BY <3>1, <4>4
    <3>3. CASE ~Bump(t)
      <4>1. revision' = revision
        BY <1>2, <2>3, <3>3, RevisionMoves
      <4>2. ASSUME NEW o \in Objects, known'[o].revision = revision'
            PROVE  known'[o].name = NameOf(o)' \/ Uncounted(o)'
        BY <1>2, <2>3, <3>3, <4>1, <4>2, WhatIsLearnt, ChangesUncounted
           DEF Consistent, RevisionTells
      <4>3. counted'.revision = revision' =>
              counted'.objects = present' \/ \E o \in Objects : Uncounted(o)'
        BY <1>2, <2>3, <3>3, <4>1, WhatIsLearnt, ChangesUncounted DEF Consistent, RevisionTells
      <4>4. QED
        BY <3>1, <4>2, <4>3 DEF RevisionTells
    <3>4. QED
      BY <3>2, <3>3
  <2>4. QED
    BY <1>2, <2>1, <2>2, <2>3 DEF Next
<1>3. QED
  BY <1>1, <1>2, TypeCorrect, StaysConsistent, PTL DEF Spec

=============================================================================
