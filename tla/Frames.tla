-------------------------------- MODULE Frames --------------------------------
(***************************************************************************)
(* The headers around a service: the APDU (src/app/mod.rs) and the NPDU    *)
(* (src/network/mod.rs); and the frames of the data links (src/datalink):  *)
(* BACnet/IP's with its BVLC header, MS/TP's with its checksums, and       *)
(* Ethernet's, what validate_frame makes of each, and the datagram a       *)
(* server reads a request from.  An Apdu is [pdu |-> its type, ...].       *)
(* Options are <<>> or <<v>>; reserved values a decoder maps to another    *)
(* are left out.                                                           *)
(***************************************************************************)
EXTENDS ServiceCodecs, Bitwise

Bit(flag, value) == IF flag THEN value ELSE 0
HasBit(octet, value) == (octet \div value) % 2 = 1

-----------------------------------------------------------------------------
(* The application PDU *)

ApduType ==
  [ConfirmedRequest |-> 0, UnconfirmedRequest |-> 1, SimpleAck |-> 2, ComplexAck |-> 3,
   SegmentAck |-> 4, Error |-> 5, Reject |-> 6, Abort |-> 7]

WritePropertyMultipleChoice == 16

MaxApduSizes == <<50, 128, 206, 480, 1024, 1476>>
\* The code of the largest size that is at most so many octets; the smallest otherwise.
AtMost(size) ==
  LET fitting == {i \in DOMAIN MaxApduSizes : MaxApduSizes[i] <= size}
  IN IF fitting = {} THEN 0 ELSE Max(fitting) - 1

Segments(r) == IF r.segmented THEN r.sequence_number \o r.proposed_window_size ELSE <<>>

FailedWrite == <<Within(1, <<Part("first_failed_write", ObjectPropertyReference)>>)>>
ErrorCodes == <<Untagged("error_class", "Enumerated"), Untagged("error_code", "Enumerated")>>

EncodeApdu(r) ==
  LET First(flags) == <<16 * ApduType[r.pdu] + flags>> IN
  CASE r.pdu = "ConfirmedRequest" ->
         First(Bit(r.segmented, 8) + Bit(r.more_follows, 4) + Bit(r.segmented_response_accepted, 2))
           \o <<16 * r.max_segments + r.max_response_size, r.invoke_id>> \o Segments(r)
           \o <<r.service_choice>> \o r.service_data
    [] r.pdu = "UnconfirmedRequest" -> First(0) \o <<r.service_choice>> \o r.service_data
    [] r.pdu = "SimpleAck" -> First(0) \o <<r.invoke_id, r.service_choice>>
    [] r.pdu = "ComplexAck" ->
         First(Bit(r.segmented, 8) + Bit(r.more_follows, 4)) \o <<r.invoke_id>> \o Segments(r)
           \o <<r.service_choice>> \o r.service_data
    [] r.pdu = "SegmentAck" ->
         First(Bit(r.negative, 2) + Bit(r.server, 1)) \o <<r.invoke_id, r.sequence_number, r.window_size>>
    [] r.pdu = "Error" ->
         First(0) \o <<r.invoke_id, r.service_choice>>
           \o IF r.first_failed_write = <<>> THEN Encode(ErrorCodes, r)
              ELSE Bracketed(0, Encode(ErrorCodes, r))
                     \o Encode(FailedWrite, [first_failed_write |-> r.first_failed_write[1]])
    [] r.pdu = "Reject" -> First(0) \o <<r.invoke_id, r.reason>>
    [] r.pdu = "Abort" -> First(Bit(r.server, 1)) \o <<r.invoke_id, r.reason>>

\* A mutant of the next: a segmented answer is taken for a short one.
LengthOfOneSegment(r) ==
  CASE r.pdu = "ConfirmedRequest" -> 4 + Bit(r.segmented, 2) + Len(r.service_data)
    [] r.pdu = "UnconfirmedRequest" -> 2 + Len(r.service_data)
    [] r.pdu = "ComplexAck" -> 2 + Bit(r.segmented, 2) + Len(r.service_data)
    [] r.pdu = "SegmentAck" -> 4
    [] OTHER -> 3

EnumeratedLength(v) == 1 + Len(Shortest(v, 1..4))
EncodedLength(r) ==
  CASE r.pdu = "ConfirmedRequest" -> 4 + Bit(r.segmented, 2) + Len(r.service_data)
    [] r.pdu = "UnconfirmedRequest" -> 2 + Len(r.service_data)
    [] r.pdu = "ComplexAck" -> 3 + Bit(r.segmented, 2) + Len(r.service_data)
    [] r.pdu = "SegmentAck" -> 4
    [] r.pdu = "Error" ->
         3 + EnumeratedLength(r.error_class) + EnumeratedLength(r.error_code)
           + SumSet({4 + Len(Encode(ObjectPropertyReference, d)) : d \in ToSet(r.first_failed_write)})
    [] r.pdu \in {"SimpleAck", "Reject", "Abort"} -> 3

\* After the invoke id at octet n, for a request or answer that may be a segment.
DecodeSegment(r, data, n) ==
  LET at == IF HasBit(data[1], 8) THEN n + 2 ELSE n
      Octet1(i) == IF i <= Len(data) THEN <<data[i]>> ELSE <<>>
      Numbered(i) == IF HasBit(data[1], 8) THEN Octet1(i) ELSE <<>>
  IN IF Len(data) < at + 1 THEN Failed
     ELSE Ok(r @@ [segmented |-> HasBit(data[1], 8), more_follows |-> HasBit(data[1], 4),
                   invoke_id |-> data[n], sequence_number |-> Numbered(n + 1),
                   proposed_window_size |-> Numbered(n + 2), service_choice |-> data[at + 1],
                   service_data |-> From(data, at + 1)], Len(data))

\* An extended error wraps its codes; only that of a WritePropertyMultiple says more.
DecodeError(data) ==
  LET r == [pdu |-> "Error", invoke_id |-> data[2], service_choice |-> data[3]]
      rest == From(data, 3)
      extended == IsTag(rest, "Opening", 0)
      With(codes, first) == Ok(codes.value @@ [first_failed_write |-> first], codes.used)
      Failing(codes, write) ==
        IF write.ok THEN Past(write.used, With(codes, <<write.value.first_failed_write>>)) ELSE Failed
      After(codes) ==
        IF ~codes.ok THEN Failed
        ELSE IF ~extended \/ data[3] # WritePropertyMultipleChoice THEN Past(3, With(codes, <<>>))
        ELSE Past(3, Failing(codes, Decode(FailedWrite, From(rest, codes.used))))
  IN After(DecodeFields(IF extended THEN <<Within(0, ErrorCodes)>> ELSE ErrorCodes, r, rest))

DecodeApdu(data) ==
  IF data = <<>> \/ data[1] \div 16 > 7 THEN Failed
  ELSE LET pdu == CHOOSE t \in DOMAIN ApduType : ApduType[t] = data[1] \div 16
           Least == [ConfirmedRequest |-> 4, UnconfirmedRequest |-> 2, SimpleAck |-> 3, ComplexAck |-> 3,
                     SegmentAck |-> 4, Error |-> 5, Reject |-> 3, Abort |-> 3]
           r == [pdu |-> pdu]
       IN IF Len(data) < Least[pdu] THEN Failed
          ELSE CASE pdu = "ConfirmedRequest" ->
                      DecodeSegment(r @@ [segmented_response_accepted |-> HasBit(data[1], 2),
                                          max_segments |-> (data[2] \div 16) % 8,
                                          max_response_size |-> data[2] % 16], data, 3)
                 [] pdu = "UnconfirmedRequest" ->
                      Ok(r @@ [service_choice |-> data[2], service_data |-> From(data, 2)], Len(data))
                 [] pdu = "SimpleAck" -> Ok(r @@ [invoke_id |-> data[2], service_choice |-> data[3]], 3)
                 [] pdu = "ComplexAck" -> DecodeSegment(r, data, 2)
                 [] pdu = "SegmentAck" ->
                      Ok(r @@ [negative |-> HasBit(data[1], 2), server |-> HasBit(data[1], 1), invoke_id |-> data[2],
                               sequence_number |-> data[3], window_size |-> data[4]], 4)
                 [] pdu = "Error" -> DecodeError(data)
                 [] pdu = "Reject" -> Ok(r @@ [invoke_id |-> data[2], reason |-> data[3]], 3)
                 [] pdu = "Abort" ->
                      Ok(r @@ [server |-> HasBit(data[1], 1), invoke_id |-> data[2], reason |-> data[3]], 3)

\* What a server sends in the place of an answer longer than limit.
SegmentationNotSupported == 4
ApduTooLong == 11
EnforceMaxApdu(r, limit, segmented_response_accepted) ==
  IF EncodedLength(r) <= limit THEN r
  ELSE [pdu |-> "Abort", server |-> TRUE, invoke_id |-> r.invoke_id,
        reason |-> IF segmented_response_accepted THEN SegmentationNotSupported ELSE ApduTooLong]

-----------------------------------------------------------------------------
(* The network PDU *)

Control(r) ==
  Bit(r.network_message, 128) + Bit(r.destination # <<>>, 32) + Bit(r.source # <<>>, 8)
    + Bit(r.expecting_reply, 4) + r.priority
AddressOctets(address) ==
  BigEndian(address.network, 2) \o <<Len(address.mac) % 256>> \o address.mac
MaxHops == 255

EncodeNpdu(r) ==
  <<1, Control(r)>> \o FlattenSeq([i \in DOMAIN r.destination |-> AddressOctets(r.destination[i])])
    \o FlattenSeq([i \in DOMAIN r.source |-> AddressOctets(r.source[i])])
    \o IF r.destination = <<>> THEN <<>> ELSE IF r.hop_count = <<>> THEN <<MaxHops>> ELSE r.hop_count

DecodeAddress(present, data) ==
  IF ~present THEN Ok(<<>>, 0)
  ELSE IF Len(data) < 3 THEN Failed ELSE IF Len(data) < 3 + data[3] THEN Failed
  ELSE Ok(<<[network |-> 256 * data[1] + data[2], mac |-> SubSeq(data, 4, 3 + data[3])]>>, 3 + data[3])

DecodeNpdu(data) ==
  IF Len(data) < 2 THEN Failed ELSE IF data[1] # 1 THEN Failed
  ELSE LET destination == DecodeAddress(HasBit(data[2], 32), From(data, 2))
           source == DecodeAddress(HasBit(data[2], 8), From(data, 2 + destination.used))
           at == 2 + destination.used + source.used
           hops == IF destination.value = <<>> THEN <<>> ELSE <<data[at + 1]>>
       IN IF ~destination.ok THEN Failed ELSE IF ~source.ok THEN Failed
          ELSE IF destination.value # <<>> /\ Len(data) <= at THEN Failed
          ELSE Ok([network_message |-> HasBit(data[2], 128), destination |-> destination.value,
                   source |-> source.value, expecting_reply |-> HasBit(data[2], 4),
                   priority |-> data[2] % 4, hop_count |-> hops], at + Len(hops))

\* Set together with the bits that say so (set_destination, set_source).
PlainNpdu ==
  [network_message |-> FALSE, destination |-> <<>>, source |-> <<>>, expecting_reply |-> FALSE,
   priority |-> 0, hop_count |-> <<>>]
GlobalNetwork == 65535
GlobalBroadcast ==
  [PlainNpdu EXCEPT !.destination = <<[network |-> GlobalNetwork, mac |-> <<>>]>>, !.hop_count = <<MaxHops>>]

\* The answer goes back to where the request came from, behind its router if any.
ReplyNpdu(request) ==
  IF request.source = <<>> THEN PlainNpdu
  ELSE [PlainNpdu EXCEPT !.destination = request.source, !.hop_count = <<MaxHops>>]

NetworkMessageTypes == 0..9 \cup {18, 19}
EncodeNetworkMessage(m) == <<m.type>> \o m.data
DecodeNetworkMessage(data) ==
  IF data = <<>> THEN Failed
  ELSE IF data[1] \notin NetworkMessageTypes THEN Failed
  ELSE Ok([type |-> data[1], data |-> Tail(data)], Len(data))

-----------------------------------------------------------------------------
(* The frames of the data links *)

Starts(data, octets) == Len(data) >= Len(octets) /\ SubSeq(data, 1, Len(octets)) = octets

-----------------------------------------------------------------------------
(* BACnet/IP: a frame is [function, npdu], and [address] if it was forwarded *)

BvlcFunction ==
  [Result |-> 0, WriteBroadcastDistributionTable |-> 1, ReadBroadcastDistributionTable |-> 2,
   ReadBroadcastDistributionTableAck |-> 3, ForwardedNpdu |-> 4, RegisterForeignDevice |-> 5,
   ReadForeignDeviceTable |-> 6, ReadForeignDeviceTableAck |-> 7, DeleteForeignDeviceTableEntry |-> 8,
   DistributeBroadcastToNetwork |-> 9, OriginalUnicastNpdu |-> 10, OriginalBroadcastNpdu |-> 11,
   SecureBvll |-> 12]
BvlcType == 129
BvlcHeader == 4
ForwardedHeader == 10

WrapBvlc(function, payload) ==
  <<BvlcType, BvlcFunction[function]>> \o BigEndian(BvlcHeader + Len(payload), 2) \o payload

\* The header, and a length that is the datagram's.
DecodeBvlc(data) ==
  IF Len(data) < BvlcHeader \/ ~Starts(data, <<BvlcType>>) THEN Failed
  ELSE IF data[2] \notin {BvlcFunction[f] : f \in DOMAIN BvlcFunction} THEN Failed
  ELSE IF 256 * data[3] + data[4] # Len(data) THEN Failed
  ELSE Ok(CHOOSE f \in DOMAIN BvlcFunction : BvlcFunction[f] = data[2], BvlcHeader)

EncodeBvlc(r) == WrapBvlc(r.function, (IF r.function = "ForwardedNpdu" THEN r.address ELSE <<>>) \o r.npdu)

\* Other functions carry no NPDU, and one that should carry one must.
ProcessBvlc(data) ==
  LET function == DecodeBvlc(data)
      Carried(header, r) ==
        IF Len(data) <= header THEN Failed ELSE Ok(r @@ [npdu |-> From(data, header)], Len(data))
  IN IF ~function.ok THEN Failed
     ELSE CASE function.value \in {"OriginalUnicastNpdu", "OriginalBroadcastNpdu"} ->
                 Carried(BvlcHeader, [function |-> function.value])
            [] function.value = "ForwardedNpdu" ->
                 Carried(ForwardedHeader, [function |-> function.value, address |-> SubSeq(data, 5, ForwardedHeader)])
            [] OTHER -> Failed

\* What the server hands to its dispatcher: the network header, the request, and for a
\* forwarded datagram the address to answer to.
EncodeDatagram(r) ==
  EncodeBvlc([function |-> r.function, address |-> r.address,
              npdu |-> EncodeNpdu(r.npdu) \o EncodeApdu(r.apdu)])
DecodeDatagram(data) ==
  LET Origin(frame) == IF frame.function = "ForwardedNpdu" THEN frame.address ELSE <<>>
      Whole(frame, npdu, apdu) ==
        IF ~apdu.ok THEN Failed
        ELSE Ok([function |-> frame.function, address |-> Origin(frame), npdu |-> npdu.value,
                 apdu |-> apdu.value], Len(data) - Len(frame.npdu) + npdu.used + apdu.used)
      Behind(frame, npdu) ==
        IF npdu.ok THEN Whole(frame, npdu, DecodeApdu(From(frame.npdu, npdu.used))) ELSE Failed
      Framed(frame) == IF frame.ok THEN Behind(frame.value, DecodeNpdu(frame.value.npdu)) ELSE Failed
  IN Framed(ProcessBvlc(data))

MaxBvlc == 1497
ValidBvlc(data) ==
  /\ Len(data) \in BvlcHeader..MaxBvlc /\ Starts(data, <<BvlcType>>)
  /\ data[2] \in 0..13 /\ 256 * data[3] + data[4] = Len(data)

-----------------------------------------------------------------------------
(* MS/TP: a frame is [frame_type, destination, source, data] *)

Preamble == <<85, 255>>
MstpHeader == 8
MaxMstpData == 501
MstpFrameTypes == 0..7

Shifted(crc, polynomial) == IF crc % 2 = 1 THEN (crc \div 2) ^^ polynomial ELSE crc \div 2
RECURSIVE ShiftedBy(_, _, _)
ShiftedBy(crc, polynomial, n) ==
  IF n = 0 THEN crc ELSE ShiftedBy(Shifted(crc, polynomial), polynomial, n - 1)
\* After the octets behind the i-th, up to the j-th: by halves, as frames are long.
Checksum(data, polynomial, top) ==
  LET After[crc \in 0..top, i, j \in 0..Len(data)] ==
        IF j <= i + 1 THEN IF i = j THEN crc ELSE ShiftedBy(crc ^^ data[j], polynomial, 8)
        ELSE LET middle == (i + j) \div 2 IN After[After[crc, i, middle], middle, j]
  IN top - After[top, 0, Len(data)]
HeaderCrc(header) == <<Checksum(header, 85, 255)>>
\* The low octet first.
DataCrc(data) == IF data = <<>> THEN <<>> ELSE Reverse(BigEndian(Checksum(data, 40961, 65535), 2))

EncodeMstp(r) ==
  LET header == <<r.frame_type, r.destination, r.source>> \o BigEndian(Len(r.data), 2)
  IN Preamble \o header \o HeaderCrc(header) \o r.data \o DataCrc(r.data)

MstpLength(data) == LET n == 256 * data[6] + data[7] IN MstpHeader + n + IF n > 0 THEN 2 ELSE 0
HeaderIntact(data) == HeaderCrc(SubSeq(data, 3, 7)) = <<data[8]>> /\ Len(data) = MstpLength(data)
DataIntact(data) ==
  LET n == 256 * data[6] + data[7]
  IN DataCrc(SubSeq(data, MstpHeader + 1, MstpHeader + n)) = From(data, MstpHeader + n)

\* A mutant of the next: the checksum of the data is taken off and not looked at.
IntactHeader(data) == HeaderIntact(data)
Intact(data) == HeaderIntact(data) /\ DataIntact(data)

DecodeMstp(data) ==
  IF Len(data) < MstpHeader \/ ~Starts(data, Preamble) THEN Failed
  ELSE IF data[3] \notin MstpFrameTypes \/ ~Intact(data) THEN Failed
  ELSE Ok([frame_type |-> data[3], destination |-> data[4], source |-> data[5],
           data |-> SubSeq(data, MstpHeader + 1, MstpHeader + 256 * data[6] + data[7])], Len(data))

\* Proprietary types pass with a warning; a frame from everybody does not pass.
ValidMstp(data) ==
  /\ Len(data) >= MstpHeader /\ data[3] \in MstpFrameTypes \cup 128..255 /\ data[5] # 255
  /\ 256 * data[6] + data[7] <= MaxMstpData
  /\ HeaderIntact(data) /\ DataIntact(data)

-----------------------------------------------------------------------------
(* Ethernet: a frame is [dest_mac, src_mac, payload] *)

EtherType == <<130, 220>>
LlcHeader == <<130, 130, 3>>
EthernetHeader == 17
MinEthernet == 60
MaxEthernet == 1514

Padded(payload) == payload \o Fill(0, Max({0, MinEthernet - EthernetHeader - Len(payload)}))
EncodeEthernet(r) == r.dest_mac \o r.src_mac \o EtherType \o LlcHeader \o Padded(r.payload)
DecodeEthernet(data) ==
  IF Len(data) < EthernetHeader \/ ~Starts(From(data, 12), EtherType \o LlcHeader) THEN Failed
  ELSE Ok([dest_mac |-> SubSeq(data, 1, 6), src_mac |-> SubSeq(data, 7, 12),
           payload |-> From(data, EthernetHeader)], Len(data))

ValidEthernet(data) ==
  Len(data) \in EthernetHeader..MaxEthernet /\ Starts(From(data, 12), EtherType \o LlcHeader)

-----------------------------------------------------------------------------
(* The link of a frame, told by how it starts, and whether the frame is valid *)

Link(data) ==
  CASE Starts(data, Preamble) -> "Mstp"
    [] ~Starts(data, Preamble) /\ Starts(data, <<BvlcType>>) -> "Bvlc"
    [] ~Starts(data, Preamble) /\ ~Starts(data, <<BvlcType>>) /\ Starts(From(data, 12), EtherType) -> "Ethernet"
    [] OTHER -> "unknown"

ValidateFrame(data) ==
  CASE Link(data) = "Mstp" -> ValidMstp(data)
    [] Link(data) = "Bvlc" -> ValidBvlc(data)
    [] Link(data) = "Ethernet" -> ValidEthernet(data)
    [] OTHER -> FALSE

=============================================================================
