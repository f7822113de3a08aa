------------------------ MODULE SegmentedTransferProofs ------------------------
(***************************************************************************)
(* Proofs about SegmentedTransfer, for requests and responses of any       *)
(* length, any windows and any retries.                                    *)
(*                                                                         *)
(* TransferInv is inductive together with TypeOK.  What carries it is that *)
(* sequence numbers are read modulo Numbers: the limit on a response and   *)
(* the honesty of the acks keep every piece in flight within one cycle of  *)
(* numbers of the piece awaited, so its number identifies it.              *)
(***************************************************************************)
EXTENDS SegmentedTransfer, TLAPS

-----------------------------------------------------------------------------
(* Numbers that wrap *)

LEMMA Small ==
  ASSUME NEW N \in Nat \ {0}, NEW n \in Nat, n < N
  PROVE  n % N = n
  OBVIOUS

LEMMA OnceRound ==
  ASSUME NEW N \in Nat \ {0}, NEW n \in Nat, N <= n, n < 2 * N
  PROVE  n % N = n - N
  OBVIOUS

LEMMA SequenceTyped ==
  ASSUME NEW piece \in Nat
  PROVE  Sequence(piece) \in 0..(Numbers - 1)
  BY SegmentsAssumption DEF Sequence

\* A piece less than a cycle ahead of another with the same number is that piece.
LEMMA NumberNames ==
  ASSUME NEW n \in Nat, n < Numbers,
         NEW piece \in Nat, piece < n + Numbers, Sequence(piece) = n
  PROVE  piece = n
<1>1. Numbers \in Nat \ {0}
  BY SegmentsAssumption
<1>2. CASE piece < Numbers
  BY <1>1, <1>2, Small DEF Sequence
<1>3. CASE Numbers <= piece
  <2>1. Sequence(piece) = piece - Numbers
    BY <1>1, <1>3, OnceRound DEF Sequence
  <2>. QED  BY <2>1, <1>1
<1>. QED  BY <1>1, <1>2, <1>3

\* The piece that is awaited while there is room, and may have been sent, is the
\* one that comes next.
LEMMA AwaitedIsNext ==
  ASSUME TypeOK, TransferInv, NEW piece \in answers, Awaits(Sequence(piece)), Room
  PROVE  piece = Len(data) /\ Sequence(piece) = Len(data)
<1>1. /\ Len(data) \in Nat /\ Len(data) < MaxSegments /\ last = Len(data) - 1
      /\ piece \in Nat /\ heard \in Nat /\ piece <= heard + Ahead /\ heard <= Len(data)
  BY DEF TypeOK, TransferInv, Room
<1>2. MaxSegments \in Nat /\ Numbers \in Nat \ {0} /\ MaxSegments < Numbers
      /\ Ahead \in 0..(Numbers - 1)
  BY SegmentsAssumption, DeviceAssumption
<1>3. Len(data) < Numbers /\ piece < Len(data) + Numbers
  BY <1>1, <1>2
<1>4. Len(data) % Numbers = Len(data)
  BY <1>1, <1>2, <1>3, Small
<1>5. Sequence(piece) = Len(data)
  <2>1. CASE last = None
    BY <2>1, <1>1 DEF Awaits, None
  <2>2. CASE last # None
    <3>1. last + 1 = Len(data)
      BY <1>1
    <3>. QED  BY <2>2, <3>1, <1>4 DEF Awaits, Follows
  <2>. QED  BY <2>1, <2>2
<1>. QED  BY <1>1, <1>3, <1>5, NumberNames

-----------------------------------------------------------------------------
(* The parts of a step *)

\* AckFor is a frame whose number was taken, when the last one was or this one is.
LEMMA AckForTyped ==
  ASSUME TypeOK, NEW n \in 0..(Numbers - 1), NEW b \in BOOLEAN, b => last # None
  PROVE  /\ AckFor(n, b) \in AckFrames
         /\ AckFor(n, b).sequence = IF b THEN last ELSE n
  BY DEF TypeOK, AckFor, Ack, AckFrames

LEMMA SendTyped ==
  ASSUME TypeOK, NEW refused \in BOOLEAN, SendOrFail(refused)
  PROVE  /\ status' \in {"open", "answered", "complete", "timeout", "abort", "io"}
         /\ status' = status \/ status' = "io"
  BY DEF SendOrFail, TypeOK

LEMMA FramesNumbered == \A a \in AckFrames : a.sequence \in Int
  BY SegmentsAssumption DEF AckFrames

\* A prefix of the response grows by the piece that comes next.
LEMMA AppendNext ==
  ASSUME TypeOK, TransferInv
  PROVE  LET d == Append(data, Len(data)) IN
         /\ Len(d) = Len(data) + 1 /\ d \in Seq(Nat)
         /\ \A i \in DOMAIN d : d[i] = i - 1
<1> DEFINE d == Append(data, Len(data))
<1>1. data \in Seq(Nat) /\ Len(data) \in Nat /\ \A i \in 1..Len(data) : data[i] = i - 1
  <2>1. data \in Seq(Nat) /\ \A i \in DOMAIN data : data[i] = i - 1
    BY DEF TypeOK, TransferInv
  <2>. QED  BY <2>1
<1>2. Len(d) = Len(data) + 1 /\ d \in Seq(Nat) /\ DOMAIN d = 1..(Len(data) + 1)
  BY <1>1
<1>3. \A i \in 1..(Len(data) + 1) : d[i] = IF i <= Len(data) THEN data[i] ELSE Len(data)
  BY <1>1
<1>4. \A i \in DOMAIN d : d[i] = i - 1
  BY <1>1, <1>2, <1>3
<1>. QED  BY <1>2, <1>4

LEMMA BiggerTyped ==
  ASSUME NEW w \in Nat
  PROVE  Bigger(w, 1) \in Nat /\ Bigger(w, 1) >= 1 /\ Bigger(Bigger(w, 1), 1) = Bigger(w, 1)
  BY DEF Bigger

-----------------------------------------------------------------------------
(* The steps *)

LEMMA InitInv == Init => TypeOK /\ TransferInv
<1> SUFFICES ASSUME Init PROVE TypeOK /\ TransferInv
  OBVIOUS
<1>1. TypeOK
  BY SegmentsAssumption, DeviceAssumption, RetriesAssumption
  DEF Init, TypeOK, Request, None, NoAck, AckFrames, Ack
<1>2. ~AllAcked(acked)
  BY SegmentsAssumption DEF Init, AllAcked, None
<1>3. outbound <=> RequestSegments > 1 /\ ~AllAcked(acked)
  BY <1>2 DEF Init
<1>4. last = Len(data) - 1 /\ Len(data) = 0 /\ size \in Nat \ {0}
  BY DeviceAssumption DEF Init, None
<1>. QED  BY <1>1, <1>3, <1>4
          DEF Init, TransferInv, AcksWhatItHas, RepeatsTheLastAck, WithinWindow, None

LEMMA DeviceStep ==
  ASSUME TypeOK, TransferInv, Device
  PROVE  TypeOK' /\ TransferInv'
<1>0. /\ UNCHANGED client
      /\ UNCHANGED size
  BY DEF Device, DeviceTakes, DeviceAcknowledges, DeviceAnswers, DeviceHears
<1> USE <1>0 DEF client
<1>1. ASSUME NEW i \in Request, DeviceTakes(i) PROVE TypeOK' /\ TransferInv'
  <2>1. /\ got < RequestSegments /\ got' = got + 1 /\ got \in Nat
        /\ UNCHANGED <<heard, paced, answers>>
    BY <1>1, SegmentsAssumption DEF DeviceTakes, Request, TypeOK
  <2>2. TypeOK'
    BY <2>1, SegmentsAssumption DEF TypeOK
  <2>3. answers = {} /\ last = None
    BY <2>1, SegmentsAssumption DEF TransferInv
  <2>4. \A p \in paced : p.sequence < got'
    BY <2>1 DEF TransferInv, TypeOK, Request
  <2>. QED  BY <2>1, <2>2, <2>3, <2>4
            DEF TransferInv, AcksWhatItHas, RepeatsTheLastAck, WithinWindow, AllAcked
<1>2. ASSUME NEW w \in Windows, DeviceAcknowledges(w) PROVE TypeOK' /\ TransferInv'
  <2>1. /\ paced' = paced \union {[sequence |-> got - 1, window |-> w]}
        /\ got \in 1..RequestSegments
        /\ UNCHANGED <<got, heard, answers>>
    BY <1>2, SegmentsAssumption DEF DeviceAcknowledges, TypeOK
  <2>2. TypeOK'
    BY <2>1, SegmentsAssumption DEF TypeOK, Request
  <2>3. \A p \in paced' : p.sequence < got
    BY <2>1 DEF TransferInv
  <2>. QED  BY <2>1, <2>2, <2>3
            DEF TransferInv, AcksWhatItHas, RepeatsTheLastAck, WithinWindow, AllAcked
<1>3. ASSUME NEW piece \in 0..(MaxResponse - 1), DeviceAnswers(piece)
      PROVE  TypeOK' /\ TransferInv'
  <2>1. /\ answers' = answers \union {piece}
        /\ piece < size /\ piece <= heard + Ahead /\ got = RequestSegments
        /\ UNCHANGED <<got, heard, paced>>
    BY <1>3 DEF DeviceAnswers
  <2>2. TypeOK'
    BY <2>1, DeviceAssumption DEF TypeOK
  <2>. QED  BY <2>1, <2>2
            DEF TransferInv, AcksWhatItHas, RepeatsTheLastAck, WithinWindow, AllAcked
<1>4. ASSUME NEW a \in acks, DeviceHears(a) PROVE TypeOK' /\ TransferInv'
  <2>1. /\ heard' = heard + 1 /\ a.sequence = heard % Numbers
        /\ UNCHANGED <<got, paced, answers>>
    BY <1>4 DEF DeviceHears
  <2>2. TypeOK'
    BY <2>1 DEF TypeOK
  <2>3. /\ heard \in Nat /\ Len(data) \in Nat /\ heard <= Len(data) /\ Len(data) < Numbers
        /\ a.sequence < Len(data)
    BY SegmentsAssumption DEF TypeOK, TransferInv, AcksWhatItHas
  <2>4. heard % Numbers = heard
    BY <2>3, SegmentsAssumption, Small
  <2>5. heard' <= Len(data)
    BY <2>1, <2>3, <2>4
  <2>6. \A piece \in answers : piece < size /\ piece <= heard' + Ahead
    BY <2>1, <2>3, DeviceAssumption, SegmentsAssumption DEF TransferInv, TypeOK
  <2>. QED  BY <2>1, <2>2, <2>5, <2>6
            DEF TransferInv, AcksWhatItHas, RepeatsTheLastAck, WithinWindow, AllAcked
<1>. QED  BY <1>1, <1>2, <1>3, <1>4 DEF Device

\* An ack that goes out leaves the request's side alone.
LEMMA ResponseStep ==
  ASSUME TypeOK, TransferInv, NEW piece \in answers, NEW refused \in BOOLEAN,
         AcceptResponseSegment(piece, refused)
  PROVE  TypeOK' /\ TransferInv'
<1>1. /\ status = "open" /\ piece \in Nat /\ piece < size /\ size \in Nat
      /\ Len(data) \in Nat /\ Len(data) < size /\ last = Len(data) - 1
      /\ Sequence(piece) \in 0..(Numbers - 1)
      /\ got = RequestSegments
  <2>1. /\ status = "open" /\ piece \in Nat /\ size \in Nat /\ Len(data) \in Nat
    BY DeviceAssumption DEF AcceptResponseSegment, TypeOK
  <2>2. Sequence(piece) \in 0..(Numbers - 1)
    BY <2>1, SequenceTyped
  <2>. QED  BY <2>1, <2>2 DEF TransferInv
<1>2. UNCHANGED <<outbound, acked, window, asked, got, heard, size, paced, answers>>
  BY DEF AcceptResponseSegment, Accept, Complete, Repeat, Missing, Abandon, device
<1> USE <1>2
\* What a step must show of the response's side for the types to hold.
<1>t. ASSUME status' \in {"open", "answered", "complete", "timeout", "abort", "io"},
             data' \in Seq(Nat), Len(data') <= MaxSegments,
             last' \in 0..(Numbers - 1) \union {None},
             last_ack' \in AckFrames \union {NoAck},
             retries' \in 0..Retries, acks' \subseteq AckFrames
      PROVE  TypeOK'
  BY <1>t DEF TypeOK
<1>a. acks \subseteq AckFrames /\ last_ack \in AckFrames \union {NoAck} /\ retries \in 0..Retries
      /\ \A a \in acks : a.sequence < Len(data)
      /\ data \in Seq(Nat) /\ Len(data) <= MaxSegments /\ last \in 0..(Numbers - 1) \union {None}
  BY DEF TypeOK, TransferInv, AcksWhatItHas
<1>3. CASE Accept(piece, refused)
  <2>1. piece = Len(data) /\ Sequence(piece) = Len(data)
    BY <1>3, AwaitedIsNext DEF Accept
  <2>2. /\ data' = Append(data, piece) /\ last' = Sequence(piece)
        /\ last_ack' = AckFor(Sequence(piece), FALSE)
        /\ acks' = acks \union {AckFor(Sequence(piece), FALSE)}
        /\ retries' = Retries /\ SendOrFail(refused)
        /\ Len(data) < MaxSegments /\ piece < size - 1
    BY <1>3 DEF Accept, Take, Acknowledge, Kept, Room
  <2>3. /\ AckFor(Sequence(piece), FALSE) \in AckFrames
        /\ AckFor(Sequence(piece), FALSE).sequence = Sequence(piece)
    BY <1>1, AckForTyped
  <2>4. Len(data') = Len(data) + 1 /\ data' \in Seq(Nat)
        /\ \A i \in DOMAIN data' : data'[i] = i - 1
    BY <1>1, <1>a, <2>1, <2>2, AppendNext
  <2>5. status' \in {"open", "io"}
    BY <1>1, <2>2, SendTyped
  <2>6. TypeOK'
    <3>1. Len(data') <= MaxSegments /\ retries' \in 0..Retries
      BY <1>1, <2>2, <2>4, RetriesAssumption, SegmentsAssumption
    <3>. QED  BY <1>t, <1>a, <1>1, <2>2, <2>3, <2>4, <2>5, <3>1
  <2>7. last' = Len(data') - 1 /\ Len(data') < size
    BY <1>1, <2>1, <2>2, <2>4
  <2>8. AcksWhatItHas'
    <3>1. \A a \in acks : a.sequence < Len(data')
      BY <1>1, <1>a, <2>4, FramesNumbered
    <3>2. AckFor(Sequence(piece), FALSE).sequence < Len(data')
      <4>1. Len(data) < Len(data')
        BY <1>1, <2>4
      <4>. QED  BY <2>1, <2>3, <4>1
    <3>3. \A a \in acks' : a \in acks \/ a = AckFor(Sequence(piece), FALSE)
      BY <2>2
    <3>. QED  BY <3>1, <3>2, <3>3 DEF AcksWhatItHas
  <2>9. RepeatsTheLastAck' /\ last_ack' \in acks'
    BY <2>2, <2>3 DEF RepeatsTheLastAck
  <2>10. heard' <= Len(data')
    BY <1>1, <2>4 DEF TransferInv, TypeOK
  <2>. QED  BY <1>1, <2>4, <2>5, <2>6, <2>7, <2>8, <2>9, <2>10
            DEF TransferInv, WithinWindow, AllAcked
<1>4. CASE Complete(piece)
  <2>1. piece = Len(data) /\ Sequence(piece) = Len(data)
    BY <1>4, AwaitedIsNext DEF Complete
  <2>2. /\ data' = Append(data, piece) /\ last' = Sequence(piece)
        /\ acks' = acks \union {Ack(Sequence(piece), FALSE)}
        /\ status' = "complete"
        /\ UNCHANGED <<last_ack, retries>>
        /\ Len(data) < MaxSegments /\ piece = size - 1
    BY <1>4 DEF Complete, Take, Room
  <2>3. Ack(Sequence(piece), FALSE) \in AckFrames /\ Ack(Sequence(piece), FALSE).sequence = Len(data)
    BY <1>1, <2>1 DEF Ack, AckFrames
  <2>4. Len(data') = Len(data) + 1 /\ data' \in Seq(Nat)
        /\ \A i \in DOMAIN data' : data'[i] = i - 1
    BY <1>1, <1>a, <2>1, <2>2, AppendNext
  <2>5. TypeOK'
    <3>1. Len(data') <= MaxSegments
      BY <1>1, <2>2, <2>4, SegmentsAssumption
    <3>. QED  BY <1>t, <1>a, <1>1, <2>2, <2>3, <2>4, <3>1
  <2>6. last' = Len(data') - 1 /\ Len(data') = size /\ heard <= Len(data')
    BY <1>1, <2>1, <2>2, <2>4 DEF TypeOK, TransferInv
  <2>7. AcksWhatItHas'
    <3>1. \A a \in acks : a.sequence < Len(data')
      BY <1>1, <1>a, <2>4, FramesNumbered
    <3>2. Ack(Sequence(piece), FALSE).sequence < Len(data')
      <4>1. Len(data) < Len(data')
        BY <1>1, <2>4
      <4>. QED  BY <2>1, <2>3, <4>1
    <3>3. \A a \in acks' : a \in acks \/ a = Ack(Sequence(piece), FALSE)
      BY <2>2
    <3>. QED  BY <3>1, <3>2, <3>3 DEF AcksWhatItHas
  <2>. QED  BY <1>1, <2>2, <2>4, <2>5, <2>6, <2>7
            DEF TransferInv, RepeatsTheLastAck, WithinWindow, AllAcked
<1>5. CASE Repeat(piece, refused)
  <2>1. /\ last # None /\ SendOrFail(refused)
        /\ acks' = acks \union {last_ack}
        /\ UNCHANGED <<data, last, last_ack, retries>>
    BY <1>5 DEF Repeat
  <2>2. acks' = acks
    BY <1>1, <2>1 DEF TransferInv
  <2>3. status' \in {"open", "io"}
    BY <1>1, <2>1, SendTyped
  <2>4. TypeOK'
    BY <2>1, <2>2, <2>3 DEF TypeOK
  <2>. QED  BY <1>1, <2>1, <2>2, <2>3, <2>4
            DEF TransferInv, AcksWhatItHas, RepeatsTheLastAck, WithinWindow, AllAcked
<1>6. CASE Missing(piece, refused)
  <2>1. /\ last # None /\ SendOrFail(refused)
        /\ last_ack' = AckFor(Sequence(piece), TRUE)
        /\ acks' = acks \union {AckFor(Sequence(piece), TRUE)}
        /\ retries' = Retries
        /\ UNCHANGED <<data, last>>
    BY <1>6 DEF Missing, Acknowledge, Kept
  <2>2. /\ AckFor(Sequence(piece), TRUE) \in AckFrames
        /\ AckFor(Sequence(piece), TRUE).sequence = last
    BY <1>1, <2>1, AckForTyped
  <2>3. status' \in {"open", "io"}
    BY <1>1, <2>1, SendTyped
  <2>4. TypeOK'
    <3>1. /\ retries' \in 0..Retries /\ acks' \subseteq AckFrames
          /\ data' \in Seq(Nat) /\ Len(data') <= MaxSegments
          /\ last' \in 0..(Numbers - 1) \union {None}
      <4>1. retries' \in 0..Retries
        BY <2>1, RetriesAssumption
      <4>2. acks' \subseteq AckFrames
        BY <1>a, <2>1, <2>2
      <4>3. data' = data /\ last' = last
        BY <2>1
      <4>4. data \in Seq(Nat) /\ Len(data) <= MaxSegments
            /\ last \in 0..(Numbers - 1) \union {None}
        BY DEF TypeOK
      <4>. QED  BY <4>1, <4>2, <4>3, <4>4
    <3>. QED  BY <1>t, <2>1, <2>2, <2>3, <3>1
  <2>5. AcksWhatItHas' /\ RepeatsTheLastAck'
    BY <1>1, <2>1, <2>2 DEF AcksWhatItHas, RepeatsTheLastAck, TransferInv
  <2>. QED  BY <1>1, <2>1, <2>3, <2>4, <2>5 DEF TransferInv, WithinWindow, AllAcked
<1>7. CASE Abandon
  <2>1. TypeOK'
    BY <1>7 DEF Abandon, TypeOK, device
  <2>2. /\ status' = "abort"
        /\ UNCHANGED <<data, last, last_ack, acks, answers>>
    BY <1>7 DEF Abandon, device
  <2>. QED  BY <2>1, <2>2
            DEF TransferInv, AcksWhatItHas, RepeatsTheLastAck, WithinWindow, AllAcked
<1>. QED  BY <1>3, <1>4, <1>5, <1>6, <1>7 DEF AcceptResponseSegment

LEMMA OutboundStep ==
  ASSUME TypeOK, TransferInv, NEW p \in paced, NEW refused \in BOOLEAN,
         AdvanceOutbound(p, refused)
  PROVE  TypeOK' /\ TransferInv'
<1>1. /\ status = "open" /\ p.sequence \in Request /\ p.window \in Nat
      /\ acked' = p.sequence /\ window' = Bigger(p.window, 1)
      /\ outbound' = ~AllAcked(p.sequence) /\ RequestSegments > 1
      /\ retries' = Retries /\ SendOrFail(refused)
      /\ asked' = asked \union WindowAfterAck(p.sequence, p.window)
      /\ UNCHANGED <<data, last, last_ack, acks, device>>
  BY DeviceAssumption DEF AdvanceOutbound, TypeOK, TransferInv
<1>2. status' \in {"open", "io"}
  BY <1>1, SendTyped
<1>3. Bigger(p.window, 1) \in Nat
  BY <1>1, BiggerTyped
<1>4. WindowAfterAck(p.sequence, p.window) \subseteq Request
  BY DEF WindowAfterAck
<1>5. TypeOK'
  BY <1>1, <1>2, <1>3, <1>4, RetriesAssumption DEF TypeOK, device
<1>6. WithinWindow'
  BY <1>1 DEF WithinWindow, TransferInv, WindowAfterAck, device
<1>7. acked' # None
  BY <1>1 DEF Request, None
<1>8. outbound' = (RequestSegments > 1 /\ ~AllAcked(acked'))
  BY <1>1
<1>. QED  BY <1>1, <1>2, <1>5, <1>6, <1>7, <1>8
          DEF TransferInv, AcksWhatItHas, RepeatsTheLastAck, AllAcked, device

LEMMA RetransmitStep ==
  ASSUME TypeOK, TransferInv, NEW refused \in BOOLEAN, Retransmit(refused)
  PROVE  TypeOK' /\ TransferInv'
<1>1. /\ status = "open" /\ retries' = retries - 1 /\ retries > 0
      /\ asked' = asked \union Again /\ SendOrFail(refused)
      /\ UNCHANGED <<outbound, acked, window, data, last, last_ack, device>>
  BY DEF Retransmit
<1>2. acks' = acks
  BY <1>1 DEF Retransmit, TransferInv
<1>3. status' \in {"open", "io"}
  BY <1>1, SendTyped
<1>4. Again \subseteq Request
  BY DEF Again, WindowAfterAck
<1>5. TypeOK'
  <2>1. retries' \in 0..Retries
    BY <1>1, RetriesAssumption DEF TypeOK
  <2>. QED  BY <1>1, <1>2, <1>3, <1>4, <2>1 DEF TypeOK, device
\* What goes out again was within a window before.
<1>6. \A i \in Again : i = 0 \/ \E p \in paced : i <= p.sequence + Bigger(p.window, 1)
  <2>1. CASE RequestSegments = 1 /\ Again = Request
    BY <2>1 DEF Request
  <2>2. CASE Again = WindowAfterAck(acked, window) /\ acked = None
    <3>1. window = 1
      BY <2>2 DEF TransferInv
    <3>2. Bigger(window, 1) = 1
      BY <3>1 DEF Bigger
    <3>. QED  BY <2>2, <3>2 DEF WindowAfterAck, Request, None
  <2>3. CASE Again = WindowAfterAck(acked, window) /\ acked # None
    <3>1. PICK p \in paced : p.sequence = acked /\ window = Bigger(p.window, 1)
      BY <2>3 DEF TransferInv
    <3>2. p.window \in Nat
      BY DeviceAssumption DEF TypeOK
    <3>3. Bigger(window, 1) = Bigger(p.window, 1)
      BY <3>1, <3>2, BiggerTyped
    <3>. QED  BY <2>3, <3>1, <3>3 DEF WindowAfterAck
  <2>. QED  BY <2>1, <2>2, <2>3 DEF Again
<1>7. WithinWindow'
  BY <1>1, <1>6 DEF WithinWindow, TransferInv, device
<1>. QED  BY <1>1, <1>2, <1>3, <1>5, <1>7
          DEF TransferInv, AcksWhatItHas, RepeatsTheLastAck, AllAcked, device

LEMMA StepInv == TypeOK /\ TransferInv /\ [Next]_vars => TypeOK' /\ TransferInv'
<1> SUFFICES ASSUME TypeOK, TransferInv, [Next]_vars PROVE TypeOK' /\ TransferInv'
  OBVIOUS
<1>1. CASE Malformed \/ HandleAnswer \/ GiveUp
  <2>1. /\ status = "open" /\ status' \in {"abort", "answered", "timeout"}
        /\ UNCHANGED <<outbound, acked, window, data, last, last_ack, retries, asked, acks, device>>
    BY <1>1 DEF Malformed, Abandon, HandleAnswer, GiveUp
  <2>2. TypeOK'
    BY <2>1 DEF TypeOK, device
  <2>. QED  BY <2>1, <2>2
            DEF TransferInv, AcksWhatItHas, RepeatsTheLastAck, WithinWindow, AllAcked, device
<1>2. CASE UNCHANGED vars
  BY <1>2 DEF vars, client, device, TypeOK,
              TransferInv, AcksWhatItHas, RepeatsTheLastAck, WithinWindow, AllAcked
<1>. QED  BY <1>1, <1>2, DeviceStep, ResponseStep, OutboundStep, RetransmitStep DEF Next

-----------------------------------------------------------------------------
(* The theorems *)

\* The transfer keeps its shape, and what is put together stays within
\* MAX_SEGMENTS.
THEOREM TypeCorrect == Spec => []TypeOK
<1>. QED  BY InitInv, StepInv, PTL DEF Spec

LEMMA TransferCorrect == Spec => []TransferInv
<1>. QED  BY InitInv, StepInv, PTL DEF Spec

\* Whatever the network repeats, delays or reorders, a segmented response handed
\* to the caller is the whole of what the device sent, in order.
THEOREM ResponsesAreWhole == Spec => []WholeAndInOrder
<1>1. TypeOK /\ TransferInv => WholeAndInOrder
  <2> SUFFICES ASSUME TypeOK, TransferInv, status = "complete"
               PROVE  data = [i \in 1..size |-> i - 1]
    BY DEF WholeAndInOrder
  <2>1. /\ DOMAIN data = 1..size /\ \A i \in 1..size : data[i] = i - 1
        /\ data = [i \in 1..Len(data) |-> data[i]]
    BY DEF TypeOK, TransferInv
  <2>. QED  BY <2>1
<1>. QED  BY <1>1, TypeCorrect, TransferCorrect, PTL

\* The client never acknowledges a segment it has not taken.
THEOREM AcksAreHonest == Spec => []AcksWhatItHas
<1>1. TransferInv => AcksWhatItHas
  BY DEF TransferInv
<1>. QED  BY <1>1, TransferCorrect, PTL

\* A timeout in the middle of a request sends again something the device has use
\* for: late acks never move the client past what the device has.
THEOREM RetriesReachTheDevice == Spec => []ReachesTheDevice
<1>1. TypeOK /\ TransferInv => ReachesTheDevice
  <2> SUFFICES ASSUME TypeOK, TransferInv, status = "open", got < RequestSegments
               PROVE  /\ Again # {}
                      /\ \E i \in Again : i <= got /\ \A j \in Again : i <= j
    BY DEF ReachesTheDevice
  <2>1. last = None /\ got \in Nat /\ RequestSegments \in Nat
    BY SegmentsAssumption DEF TransferInv, TypeOK
  <2>2. CASE RequestSegments = 1
    <3>1. ~outbound
      BY <2>2 DEF TransferInv
    <3>2. Again = {0}
      BY <2>1, <2>2, <3>1 DEF Again, Request
    <3>. QED  BY <2>1, <3>2
  <2>3. CASE RequestSegments > 1
    <3>1. acked \in Int /\ acked + 1 <= got /\ acked + 1 >= 0
      <4>1. CASE acked = None
        BY <4>1, <2>1 DEF None
      <4>2. CASE acked # None
        BY <4>2, <2>1, SegmentsAssumption DEF TransferInv, TypeOK, Request, None
      <4>. QED  BY <4>1, <4>2
    <3>2. outbound
      BY <2>1, <2>3, <3>1 DEF TransferInv, AllAcked
    <3>3. Bigger(window, 1) \in Nat /\ Bigger(window, 1) >= 1
      BY BiggerTyped DEF TypeOK
    <3>4. Again = {i \in Request : i > acked /\ i <= acked + Bigger(window, 1)}
      BY <2>1, <3>2 DEF Again, WindowAfterAck
    <3>5. acked + 1 \in Again
      BY <2>1, <3>1, <3>3, <3>4, SegmentsAssumption DEF Request
    <3>6. \A j \in Again : acked + 1 <= j
      BY <3>1, <3>4 DEF Request
    <3>. QED  BY <3>1, <3>5, <3>6
  <2>. QED  BY <2>1, <2>2, <2>3, SegmentsAssumption
<1>. QED  BY <1>1, TypeCorrect, TransferCorrect, PTL

\* A response is handed over whole and in order, and no segment acknowledged that was
\* not taken.
THEOREM ResponsesAreReceived == Spec => []ReceivedInOrder
BY ResponsesAreWhole, AcksAreHonest, PTL DEF ReceivedInOrder


=============================================================================
