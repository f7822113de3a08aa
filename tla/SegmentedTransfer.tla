--------------------------- MODULE SegmentedTransfer ---------------------------
(***************************************************************************)
(* One confirmed request of the asynchronous client whose request, or      *)
(* whose response, needs several segments: Reassembly and OutboundSegments *)
(* of src/client/async_client.rs (ClientTransactions has the table that    *)
(* the transaction lives in).                                              *)
(*                                                                         *)
(* The device is external.  It takes segments in order, acknowledges what  *)
(* it has with a window of its own choosing, answers once it has the whole *)
(* request, and may run ahead of the window of one it was granted.  The    *)
(* network delivers whatever was ever sent, in any order, any number of    *)
(* times or never; so a deadline may pass at any time.                     *)
(***************************************************************************)
EXTENDS Integers, Sequences

CONSTANTS
  RequestSegments,  \* into how many segments split_request cuts the request
  MaxResponse,      \* bound: the segments a device's response may have
  MaxSegments,      \* MAX_SEGMENTS: 64
  Numbers,          \* how many sequence numbers there are: 256
  Windows,          \* the window sizes a device may name
  Ahead,            \* how far a device runs ahead of the window it was granted
  Retries           \* Endpoint.retries

\* Sixty-four segments never use a sequence number twice.
ASSUME SegmentsAssumption ==
  /\ MaxSegments \in Nat \ {0} /\ Numbers \in Nat /\ MaxSegments < Numbers
  /\ RequestSegments \in 1..MaxSegments
ASSUME DeviceAssumption ==
  MaxResponse \in Nat \ {0} /\ Windows \subseteq Nat /\ Ahead \in 0..(Numbers - 1)
ASSUME RetriesAssumption == Retries \in Nat

VARIABLES
  status,      \* what the caller has been told, or "open"
  outbound,    \* whether OutboundSegments is there
  acked,       \* OutboundSegments.acked, or -1
  window,      \* OutboundSegments.window
  data,        \* Reassembly.data, as the pieces it is made of
  last,        \* Reassembly.last_in_order, or -1
  last_ack,    \* Reassembly.last_ack: what it says, or NoAck
  retries,     \* retries_remaining
  asked,       \* the request segments that went out
  acks,        \* the segment acks that went out
  got,         \* the device: how many request segments it has, in order
  heard,       \* the device: how many of its segments it knows to be taken
  size,        \* the device: how many segments its response has
  paced,       \* the segment acks of the device
  answers      \* the pieces of the response that the device sent

client == <<status, outbound, acked, window, data, last, last_ack, retries, asked, acks>>
device == <<got, heard, size, paced, answers>>
vars == <<client, device>>

-----------------------------------------------------------------------------
None == -1
Request == 0..(RequestSegments - 1)
Bigger(a, b) == IF a < b THEN b ELSE a

Ack(sequence, negative) == [sequence |-> sequence, negative |-> negative]
AckFrames == [sequence : 0..(Numbers - 1), negative : BOOLEAN]
NoAck == Ack(None, FALSE)

TypeOK ==
  /\ status \in {"open", "answered", "complete", "timeout", "abort", "io"}
  /\ outbound \in BOOLEAN
  /\ acked \in Request \union {None}
  /\ window \in Nat
  /\ data \in Seq(Nat) /\ Len(data) <= MaxSegments
  /\ last \in 0..(Numbers - 1) \union {None}
  /\ last_ack \in AckFrames \union {NoAck}
  /\ retries \in 0..Retries
  /\ asked \subseteq Request
  /\ acks \subseteq AckFrames
  /\ got \in 0..RequestSegments
  /\ heard \in Nat
  /\ size \in 1..MaxResponse
  /\ paced \subseteq [sequence : Request, window : Windows]
  /\ answers \subseteq Nat

\* The first segment goes out when the transaction is entered.
Init ==
  /\ status = "open"
  /\ outbound = (RequestSegments > 1)
  /\ acked = None /\ window = 1
  /\ data = <<>> /\ last = None /\ last_ack = NoAck
  /\ retries = Retries
  /\ asked = {0} /\ acks = {}
  /\ got = 0 /\ heard = 0
  /\ size \in 1..MaxResponse
  /\ paced = {} /\ answers = {}

-----------------------------------------------------------------------------
(* The device *)

DeviceTakes(i) ==
  /\ i \in asked /\ i = got
  /\ got' = got + 1
  /\ UNCHANGED <<client, heard, size, paced, answers>>

DeviceAcknowledges(w) ==
  /\ RequestSegments > 1 /\ got > 0
  /\ paced' = paced \union {[sequence |-> got - 1, window |-> w]}
  /\ UNCHANGED <<client, got, heard, size, answers>>

DeviceAnswers(piece) ==
  /\ got = RequestSegments /\ size > 1
  /\ piece < size /\ piece <= heard + Ahead
  /\ answers' = answers \union {piece}
  /\ UNCHANGED <<client, got, heard, size, paced>>

\* It goes on from the segment after the one an acknowledgement names.
DeviceHears(a) ==
  /\ a \in acks
  /\ heard < size /\ a.sequence = heard % Numbers
  /\ heard' = heard + 1
  /\ UNCHANGED <<client, got, size, paced, answers>>

-----------------------------------------------------------------------------
(* A request that goes out in segments *)

\* window_after_ack
WindowAfterAck(a, w) == {i \in Request : i > a /\ i <= a + Bigger(w, 1)}

\* The last segment is taken as acknowledged with the one before it.
AllButLast(a) == a + 2 >= RequestSegments

AllAcked(a) == a + 1 >= RequestSegments

\* send_or_fail: the socket may refuse any of the frames.
SendOrFail(refused) ==
  IF refused THEN status' = "io" ELSE UNCHANGED status

\* advance_outbound
AdvanceOutbound(p, refused) ==
  /\ status = "open" /\ outbound /\ p \in paced
  /\ refused => ~AllAcked(p.sequence)
  /\ acked' = p.sequence
  /\ window' = Bigger(p.window, 1)
  /\ outbound' = ~AllAcked(p.sequence)
  /\ retries' = Retries
  /\ asked' = asked \union WindowAfterAck(p.sequence, p.window)
  /\ SendOrFail(refused)
  /\ UNCHANGED <<data, last, last_ack, acks, device>>

-----------------------------------------------------------------------------
(* A response that comes in segments *)

Sequence(piece) == piece % Numbers

\* Every number after the last is taken for the next.
NoGap(n) == TRUE

Follows(n) == n = (last + 1) % Numbers

Room == Len(data) < MaxSegments

\* A positive ack names the segment taken, a negative one the last in order.
AckFor(n, negative) == Ack(IF negative THEN last ELSE n, negative)

Kept(frame) == frame

\* An ack that restarts the clock and is kept, to be sent again.
Acknowledge(n, negative, refused) ==
  LET frame == AckFor(n, negative) IN
  /\ last_ack' = Kept(frame)
  /\ retries' = Retries
  /\ acks' = acks \union {frame}
  /\ SendOrFail(refused)

Awaits(n) == IF last = None THEN n = 0 ELSE n # last /\ Follows(n)

Take(piece) ==
  /\ data' = Append(data, piece)
  /\ last' = Sequence(piece)

Accept(piece, refused) ==
  /\ Awaits(Sequence(piece)) /\ Room /\ piece < size - 1
  /\ Take(piece)
  /\ Acknowledge(Sequence(piece), FALSE, refused)
  /\ UNCHANGED <<outbound, acked, window, asked, device>>

\* The last segment is acknowledged, whether or not the socket takes the ack, and
\* the caller is given what has been put together.
Complete(piece) ==
  /\ Awaits(Sequence(piece)) /\ Room /\ piece = size - 1
  /\ Take(piece)
  /\ acks' = acks \union {Ack(Sequence(piece), FALSE)}
  /\ status' = "complete"
  /\ UNCHANGED <<outbound, acked, window, last_ack, retries, asked, device>>

Repeat(piece, refused) ==
  /\ last # None /\ Sequence(piece) = last
  /\ SendOrFail(refused)
  /\ acks' = acks \union {last_ack}
  /\ UNCHANGED <<outbound, acked, window, data, last, last_ack, retries, asked, device>>

Missing(piece, refused) ==
  /\ last # None /\ Sequence(piece) # last /\ ~Follows(Sequence(piece))
  /\ Acknowledge(Sequence(piece), TRUE, refused)
  /\ UNCHANGED <<outbound, acked, window, data, last, asked, device>>

\* A transfer whose start was missed, or that has become too long; also a segment
\* with no sequence number.
Abandon ==
  /\ status' = "abort"
  /\ UNCHANGED <<outbound, acked, window, data, last, last_ack, retries, asked, acks, device>>

\* accept_response_segment
AcceptResponseSegment(piece, refused) ==
  /\ status = "open" /\ piece \in answers
  /\ \/ Accept(piece, refused)
     \/ Complete(piece)
     \/ Repeat(piece, refused)
     \/ Missing(piece, refused)
     \/ last = None /\ Sequence(piece) # 0 /\ Abandon
     \/ Awaits(Sequence(piece)) /\ ~Room /\ Abandon

Malformed == status = "open" /\ Abandon

\* A response of one frame: a ComplexAck, a SimpleAck, an Error, a Reject or an
\* Abort.
HandleAnswer ==
  /\ status = "open"
  /\ status' = "answered"
  /\ UNCHANGED <<outbound, acked, window, data, last, last_ack, retries, asked, acks, device>>

-----------------------------------------------------------------------------
(* A deadline passes *)

\* In the middle of a response its ack is sent again; in the middle of a request
\* what is not acknowledged; and a request of one frame as a whole.  Once every
\* segment is acknowledged the frame is empty.
Again ==
  IF last # None THEN {}
  ELSE IF outbound THEN WindowAfterAck(acked, window)
  ELSE IF RequestSegments = 1 THEN Request
  ELSE {}

Retransmit(refused) ==
  /\ status = "open" /\ retries > 0
  /\ refused => Again # {} \/ last # None
  /\ retries' = retries - 1
  /\ asked' = asked \union Again
  /\ acks' = IF last = None THEN acks ELSE acks \union {last_ack}
  /\ SendOrFail(refused)
  /\ UNCHANGED <<outbound, acked, window, data, last, last_ack, device>>

GiveUp ==
  /\ status = "open" /\ retries = 0
  /\ status' = "timeout"
  /\ UNCHANGED <<outbound, acked, window, data, last, last_ack, retries, asked, acks, device>>

Device ==
  \/ \E i \in Request : DeviceTakes(i)
  \/ \E w \in Windows : DeviceAcknowledges(w)
  \/ \E piece \in 0..(MaxResponse - 1) : DeviceAnswers(piece)
  \/ \E a \in acks : DeviceHears(a)

Next ==
  \/ Device
  \/ \E p \in paced, refused \in BOOLEAN : AdvanceOutbound(p, refused)
  \/ \E piece \in answers, refused \in BOOLEAN : AcceptResponseSegment(piece, refused)
  \/ Malformed
  \/ HandleAnswer
  \/ \E refused \in BOOLEAN : Retransmit(refused)
  \/ GiveUp

Spec == Init /\ [][Next]_vars

-----------------------------------------------------------------------------
(* Properties *)

\* What the caller is given is the device's response, whole and in order.
WholeAndInOrder ==
  status = "complete" => data = [i \in 1..size |-> i - 1]

\* No ack that went out, kept or repeated, claims a segment that was not taken.
AcksWhatItHas ==
  \A a \in acks : a.sequence < Len(data)

\* The ack that a timeout sends again is the one the device needs to go on.
RepeatsTheLastAck ==
  status = "open" /\ last # None => last_ack.sequence = last

\* "Nothing says a second segment would be looked at": no segment goes out past
\* the window of an ack the device gave.
WithinWindow ==
  \A i \in asked : i = 0 \/ \E p \in paced : i <= p.sequence + Bigger(p.window, 1)

\* Whatever acks are late or doubled, what a timeout sends again begins no later
\* than at what the device lacks; and nothing more is sent only when it lacks
\* nothing.
ReachesTheDevice ==
  status = "open" /\ got < RequestSegments =>
    /\ Again # {}
    /\ \E i \in Again : i <= got /\ \A j \in Again : i <= j

\* What is handed over is the response, and what is acknowledged belongs to it.
ReceivedInOrder == WholeAndInOrder /\ AcksWhatItHas

\* Why: what is put together is a prefix of the response, as long as the last
\* number says; the device knows of no piece as taken that was not, so no piece it
\* sent can be taken for one that has its number; and the same for the request.
TransferInv ==
  /\ \A i \in DOMAIN data : data[i] = i - 1
  /\ last = Len(data) - 1
  /\ status = "open" => Len(data) < size
  /\ status = "complete" => Len(data) = size
  /\ heard <= Len(data)
  /\ \A piece \in answers : piece < size /\ piece <= heard + Ahead
  /\ AcksWhatItHas /\ RepeatsTheLastAck
  /\ status = "open" /\ last # None => last_ack \in acks
  /\ answers # {} \/ last # None => got = RequestSegments
  /\ \A p \in paced : p.sequence < got
  /\ IF acked = None THEN window = 1
     ELSE \E p \in paced : p.sequence = acked /\ window = Bigger(p.window, 1)
  /\ outbound <=> RequestSegments > 1 /\ ~AllAcked(acked)
  /\ WithinWindow

=============================================================================
