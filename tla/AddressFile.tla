------------------------------ MODULE AddressFile ------------------------------
(***************************************************************************)
(* The file in which a client keeps the devices it found, of               *)
(* `src/client/address_cache.rs`: a line to a device, of fields with       *)
(* blanks between.  It is written in one call that is not atomic, so a     *)
(* crash leaves a part of it that may end anywhere, within a field too.    *)
(* Of a number that is cut its first digits are left, which are a number;  *)
(* of any other field something that is none of its values.                *)
(***************************************************************************)
EXTENDS Integers, Sequences, FiniteSets

CONSTANTS
  None,
  Caches  \* sequences of devices a client may save

VARIABLES
  file,    \* its lines, each the sequence of its fields
  saved,   \* the devices of the last save (history)
  whole,   \* nothing happened to the file since (history)
  loaded   \* what the last load gave, or None

vars == <<file, saved, whole, loaded>>

Segmentations == {"both", "transmit", "receive", "none"}

\* A device that was found has an instance number, an address and, if it is behind a router,
\* the network it is on, which has a number other than 0.
IsDevice(device) ==
  /\ device = [device_id |-> device.device_id, address |-> device.address,
               route |-> device.route, max_apdu |-> device.max_apdu,
               segmentation |-> device.segmentation]
  /\ device.device_id \in Nat /\ device.address # None /\ device.max_apdu \in Nat
  /\ device.segmentation \in Segmentations
  /\ device.route # None =>
       /\ device.route = [network |-> device.route.network, mac |-> device.route.mac]
       /\ device.route.network \in Nat \ {0} /\ device.route.mac # None
CachesAssumption ==
  \A devices \in Caches : \A i \in DOMAIN devices : IsDevice(devices[i])

\* format_line; "0" for no route, and for the address of a whole network.
FormatLine(device) ==
  <<device.device_id, device.address,
    IF device.route = None THEN 0 ELSE device.route.network,
    IF device.route = None THEN <<>> ELSE device.route.mac,
    device.max_apdu, device.segmentation>>

Field(line, n) == IF n <= Len(line) THEN line[n] ELSE None

\* A mutant of the next: what the line does not say is taken for the most it could.
SegmentationOrBoth(line) == IF Field(line, 6) \in Segmentations THEN line[6] ELSE "both"
\* segmentation_from_str
SegmentationOf(line) == IF Field(line, 6) \in Segmentations THEN line[6] ELSE "none"

\* parse_line: only a line with five fields that can be read is a device; a route that cannot be
\* read is none.
Readable(line) == Len(line) >= 5 /\ \A n \in {1, 2, 3, 5} : line[n] # None
ParseLine(line) ==
  [device_id |-> line[1], address |-> line[2],
   route |-> IF line[3] = 0 \/ line[4] = None THEN None
             ELSE [network |-> line[3], mac |-> line[4]],
   max_apdu |-> line[5], segmentation |-> SegmentationOf(line)]

Lines(devices) == [i \in DOMAIN devices |-> FormatLine(devices[i])]

\* What a cut may leave of the field at a place.
IsNumber(n) == n \in {1, 3, 5}
Torn(field, n) ==
  IF IsNumber(n) THEN {field \div tens : tens \in {10, 100, 1000, 10000, 100000, 1000000}} \ {0}
  ELSE {None}
CutLines(line) ==
  {SubSeq(line, 1, n) : n \in 0..Len(line)} \cup
    UNION {{Append(SubSeq(line, 1, n - 1), part) : part \in Torn(line[n], n)} : n \in 1..Len(line)}

\* What is left of a file when only the lines at some places are retained.
Kept(lines, places) ==
  [n \in 1..Cardinality(places) |->
     lines[CHOOSE i \in places : Cardinality({j \in places : j < i}) = n - 1]]

-----------------------------------------------------------------------------
Init == file = <<>> /\ saved = <<>> /\ whole = TRUE /\ loaded = None

\* save
Save(devices) ==
  /\ file' = Lines(devices) /\ saved' = devices /\ whole' = TRUE
  /\ loaded' = None

\* save, and the process or the machine goes down within it
SaveIsCut(devices) ==
  /\ \E n \in 1..Len(devices) : \E part \in CutLines(FormatLine(devices[n])) :
       file' = Append(SubSeq(Lines(devices), 1, n - 1), part)
  /\ saved' = devices /\ whole' = FALSE /\ loaded' = None

\* load
Load ==
  /\ loaded' = LET readable == Kept(file, {i \in DOMAIN file : Readable(file[i])}) IN
               [i \in DOMAIN readable |-> ParseLine(readable[i])]
  /\ UNCHANGED <<file, saved, whole>>

Next == (\E devices \in Caches : Save(devices) \/ SaveIsCut(devices)) \/ Load

Spec == Init /\ [][Next]_vars

-----------------------------------------------------------------------------
\* A cache gives back what was saved; and whatever a crash left of it, no device that was not
\* saved, none at another address or behind another router, and none with more than it has.
NeverClaimsMore ==
  loaded # None =>
    /\ whole => loaded = saved
    /\ \A i \in DOMAIN loaded :
         LET was == saved[i] IN
         /\ loaded[i].max_apdu <= was.max_apdu
         /\ loaded[i].segmentation \in {was.segmentation, "none"}
         /\ \A key \in {"device_id", "address", "route"} : loaded[i][key] = was[key]

=============================================================================
