------------------------------ MODULE Reassembly ------------------------------
(***************************************************************************)
(* Messages in segments, with the helpers of `src/app/mod.rs`:             *)
(* `SegmentationManager::segment_message` cuts a message, the network      *)
(* loses, repeats and reorders the segments, and `process_segment` puts    *)
(* them together in a `SegmentReassemblyBuffer` per invoke ID, of which    *)
(* there are at most MaxConcurrentReassemblies.                            *)
(*                                                                         *)
(* A message is a record of its invoke ID and its octets, of which the     *)
(* model keeps the place in the message and the message they are of.       *)
(***************************************************************************)
EXTENDS Naturals, Sequences, FiniteSets

CONSTANTS
  None,
  Messages,                  \* what may be sent: id (the invoke ID) and length
  MaxSegmentSize,            \* octets to a segment
  MaxSegments,               \* segments to a message
  MaxConcurrentReassemblies, \* buffers
  MaxApduLength              \* the most octets a buffer may make up

ReassemblyAssumption ==
  /\ MaxSegmentSize \in Nat \ {0} /\ MaxConcurrentReassemblies \in Nat \ {0}
  /\ \A message \in Messages : message.length \in Nat

VARIABLES
  buffers,    \* reassembly_buffers, the least recently active first
  wire,       \* the segments that were sent, any of which may arrive at any time
  begun,      \* the messages that were sent (history)
  delivered   \* what process_segment has returned, with the invoke ID (history)

vars == <<buffers, wire, begun, delivered>>

Init == buffers = <<>> /\ wire = {} /\ begun = {} /\ delivered = {}

-----------------------------------------------------------------------------
\* segment_message
Data(message) == [i \in 1..message.length |-> [of |-> message, at |-> i]]
CeilDiv(a, b) == (a + b - 1) \div b

SegmentMessage(data) ==
  IF data = <<>> THEN << <<>> >>
  ELSE [n \in 1..CeilDiv(Len(data), MaxSegmentSize) |->
          SubSeq(data, (n - 1) * MaxSegmentSize + 1,
                 IF n * MaxSegmentSize < Len(data) THEN n * MaxSegmentSize ELSE Len(data))]

TooMany(data) == data # <<>> /\ CeilDiv(Len(data), MaxSegmentSize) > MaxSegments

SendMessage(message) ==
  /\ ~TooMany(Data(message))
  /\ LET segments == SegmentMessage(Data(message)) IN
     wire' = wire \cup {[id |-> message.id, sequence |-> n - 1, data |-> segments[n],
                         more |-> n < Len(segments)] : n \in DOMAIN segments}
  /\ begun' = begun \cup {message}
  /\ UNCHANGED <<buffers, delivered>>

-----------------------------------------------------------------------------
\* SegmentReassemblyBuffer: the segments by sequence number, and how many there are to be
\* once the last is in.
NewBuffer(id) == [id |-> id, total |-> None, segments |-> [n \in {} |-> <<>>]]

\* A mutant of the next: every segment is taken for the last.
TotalWithAny(buffer, segment) == segment.sequence + 1
\* The last segment says how many there are, even when it is a duplicate.
Total(buffer, segment) == IF segment.more THEN buffer.total ELSE segment.sequence + 1

AddSegment(buffer, segment) ==
  [buffer EXCEPT
     !.total = Total(buffer, segment),
     !.segments = [n \in DOMAIN @ \cup {segment.sequence} |->
                     IF n \in DOMAIN buffer.segments THEN buffer.segments[n] ELSE segment.data]]

IsComplete(buffer) ==
  buffer.total # None /\ DOMAIN buffer.segments = 0..(buffer.total - 1)

\* What a complete buffer makes up.
InOrder(buffer) ==
  LET joined[n \in Nat] == IF n = 0 THEN <<>> ELSE joined[n - 1] \o buffer.segments[n - 1]
  IN  joined[buffer.total]

-----------------------------------------------------------------------------
\* SegmentationManager
\* What is left of the buffers when only those at some places are retained.
Kept(places) ==
  [n \in 1..Cardinality(places) |->
     buffers[CHOOSE i \in places : Cardinality({j \in places : j < i}) = n - 1]]

Having(id) == {i \in DOMAIN buffers : buffers[i].id = id}
Others(id) == Kept({i \in DOMAIN buffers : buffers[i].id # id})

\* A new buffer takes the place of the least recently active when there is no room.
MadeRoom == IF Len(buffers) >= MaxConcurrentReassemblies THEN Tail(buffers) ELSE buffers

\* process_segment. A message that is too long is an error, and its buffer stays: until it
\* is dropped, every further segment of its invoke ID is a duplicate and the same error.
ProcessSegment(segment) ==
  LET known == Having(segment.id) # {}
      others == IF known THEN Others(segment.id) ELSE MadeRoom
      buffer == AddSegment(IF known THEN buffers[CHOOSE i \in Having(segment.id) : TRUE]
                           ELSE NewBuffer(segment.id), segment)
      whole == IsComplete(buffer)
      fits == Len(InOrder(buffer)) <= MaxApduLength IN
  /\ buffers' = IF whole /\ fits THEN others ELSE Append(others, buffer)
  /\ delivered' = IF whole /\ fits
                  THEN delivered \cup {[id |-> segment.id, data |-> InOrder(buffer)]}
                  ELSE delivered
  /\ UNCHANGED <<wire, begun>>

\* cleanup_timed_out_buffers: those that have been idle for longest.
CleanupTimedOutBuffers(n) ==
  /\ n \in 1..Len(buffers)
  /\ buffers' = SubSeq(buffers, n + 1, Len(buffers))
  /\ UNCHANGED <<wire, begun, delivered>>

Next ==
  \/ \E message \in Messages : SendMessage(message)
  \/ \E segment \in wire : ProcessSegment(segment)
  \/ \E n \in 1..MaxConcurrentReassemblies : CleanupTimedOutBuffers(n)

Spec == Init /\ [][Next]_vars

-----------------------------------------------------------------------------
\* What is put together is what was sent, whole and in order, whatever order the segments
\* came in, however often, and whatever else was under way: unless two messages were sent
\* under one invoke ID, whose segments the buffers cannot tell apart.
ReassembledWhole ==
  \A one \in delivered :
    LET sent == {message \in begun : message.id = one.id} IN
    Cardinality(sent) = 1 => \A message \in sent : one.data = Data(message)

=============================================================================
