--------------------------------- MODULE Wire ---------------------------------
(***************************************************************************)
(* A message on its way: encoded, perhaps cut off by a buffer too short    *)
(* for the datagram or damaged on the serial line, decoded.  A message is  *)
(* <<its kind, a record>>: a service, an Apdu, an Npdu, a NetworkMessage,  *)
(* an Answer, which is an Apdu that a server gives an asker with a limit,  *)
(* a frame of a link, or a whole Datagram.                                 *)
(***************************************************************************)
EXTENDS Frames

CONSTANTS
  Messages,
  Noises,     \* patterns by which an octet may be changed
  MaxTouched  \* bounds the messages that are cut off or damaged, in octets

VARIABLES message, octets, stage, got

vars == <<message, octets, stage, got>>

EncodeMessage(kind, r) ==
  CASE kind = "Apdu" -> EncodeApdu(r)
    [] kind = "Answer" -> EncodeApdu(EnforceMaxApdu(r.apdu, r.limit, r.segmented_response_accepted))
    [] kind = "Npdu" -> EncodeNpdu(r)
    [] kind = "NetworkMessage" -> EncodeNetworkMessage(r)
    [] kind = "Bvlc" -> EncodeBvlc(r)
    [] kind = "Datagram" -> EncodeDatagram(r)
    [] kind = "Mstp" -> EncodeMstp(r)
    [] kind = "Ethernet" -> EncodeEthernet(r)
    [] OTHER -> EncodeService(kind, r)

DecodeMessage(kind, data) ==
  CASE kind = "Apdu" -> DecodeApdu(data)
    [] kind = "Npdu" -> DecodeNpdu(data)
    [] kind = "NetworkMessage" -> DecodeNetworkMessage(data)
    [] kind = "Bvlc" -> ProcessBvlc(data)
    [] kind = "Datagram" -> DecodeDatagram(data)
    [] kind = "Mstp" -> DecodeMstp(data)
    [] kind = "Ethernet" -> DecodeEthernet(data)
    [] OTHER -> DecodeService(kind, data)

Links == {"Bvlc", "Mstp", "Ethernet"}
Decoded == DOMAIN Services \cup {"Apdu", "Npdu", "NetworkMessage", "Datagram"} \cup Links

Unread == [ok |-> FALSE]

Init == message \in Messages /\ octets = <<>> /\ stage = "asked" /\ got = Unread

Send ==
  /\ stage = "asked" /\ stage' = "sent"
  /\ octets' = EncodeMessage(message[1], message[2])
  /\ UNCHANGED <<message, got>>

Cut ==
  /\ stage = "sent" /\ Len(octets) <= MaxTouched /\ stage' = "cut"
  /\ \E n \in 0..(Len(octets) - 1) : octets' = SubSeq(octets, 1, n)
  /\ UNCHANGED <<message, got>>

\* Noise on a serial line, on a single octet.
Damage ==
  /\ stage = "sent" /\ message[1] = "Mstp" /\ Len(octets) <= MaxTouched /\ stage' = "damaged"
  /\ \E i \in DOMAIN octets, noise \in Noises : octets' = [octets EXCEPT ![i] = @ ^^ noise]
  /\ UNCHANGED <<message, got>>

Receive ==
  /\ stage \in {"sent", "cut", "damaged"} /\ message[1] \in Decoded
  /\ stage' = "received" /\ got' = DecodeMessage(message[1], octets)
  /\ UNCHANGED <<message, octets>>

Next == Send \/ Cut \/ Damage \/ Receive

Spec == Init /\ [][Next]_vars

-----------------------------------------------------------------------------
(* Properties *)

\* What encode() writes, decode() reads back, all of it and the same: a field written
\* under one tag and read under another, a number that loses its sign or its top
\* octet, a list that ends early inside a nested value would each show here.  (Only the
\* padding of a short Ethernet frame arrives as part of what it carries: README.)
Arrives(kind, r) == IF kind = "Ethernet" THEN [r EXCEPT !.payload = Padded(@)] ELSE r
ReadsBackTheSame ==
  stage = "received" /\ octets = EncodeMessage(message[1], message[2])
    => got = Ok(Arrives(message[1], message[2]), Len(octets))

\* A message cut off is refused, unless what is left is itself a message: then it is
\* that one, and every octet of it has been read.  An optional field that is there
\* but broken is never taken for one that was not sent.
NothingPassedOver ==
  stage = "received" /\ got.ok /\ message[1] # "Ethernet" => EncodeMessage(message[1], got.value) = octets

\* What the decoders take and validate_frame() does not: a frame of the serial line from
\* everybody, frames longer than a link's limits, which no decoder looks at, and an Ethernet
\* frame to a group whose address begins as the frames of another link do, which is taken
\* for one of those.
OnlyDecoded(kind, frame) ==
  CASE kind = "Mstp" -> frame.source = 255 \/ Len(frame.data) > MaxMstpData
    [] kind = "Bvlc" -> Len(octets) > MaxBvlc
    [] kind = "Ethernet" -> \/ Len(octets) > MaxEthernet
                            \/ Starts(frame.dest_mac, Preamble) \/ Starts(frame.dest_mac, <<BvlcType>>)

\* No damaged frame of a serial line is read.  And validate_frame(), which judges frames by
\* code of its own, whole or not, knows a frame as its link's and calls it valid when that
\* link's decoder reads it, and only then, but for those that OnlyDecoded names.  (Frames that
\* carry no NPDU, or are of proprietary types, are valid to it and read by none: README.)
FramesAreJudgedAlike ==
  stage = "received" /\ message[1] \in Links =>
    /\ message[1] = "Mstp" /\ got.ok => octets = EncodeMstp(message[2])
    /\ (Link(octets) = message[1] /\ ValidateFrame(octets)) = (got.ok /\ ~OnlyDecoded(message[1], got.value))

\* Whatever service was encoded can be skipped tag by tag, each bracket closed by its
\* own closing tag: find_constructed_value_end(), which a receiver that does not know
\* the type relies on, comes out at its end.  (The file services cannot: README.)
CanBeSkipped ==
  stage = "sent" /\ message[1] \in DOMAIN Services \cup {"EventNotification"}
    => FindEnd(octets \o ClosingTag(0), 0, <<0>>) = Ok(Len(octets), 0)

\* What is sent is read as it was meant, by who knows it, or passed over whole, by who does not.
ReadOrSkipped == ReadsBackTheSame /\ CanBeSkipped

\* encoded_len() is the length encode() gives, as encode() asserts, and so no answer
\* over the asker's limit leaves the server: it is told of an abort that fits instead.
FitsTheAsker ==
  stage = "sent" =>
    /\ message[1] = "Apdu" => EncodedLength(message[2]) = Len(octets)
    /\ message[1] = "Answer" => Len(octets) <= message[2].limit

=============================================================================
