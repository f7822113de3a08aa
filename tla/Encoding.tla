------------------------------- MODULE Encoding -------------------------------
(***************************************************************************)
(* Tags and primitive values as octets (src/encoding/mod.rs).  A u32 or    *)
(* u64 is the sequence of its octets, most significant first, since        *)
(* what the encoding does with a number depends on which of them are zero. *)
(* A float is its octets too: nothing here looks inside.  A text is its    *)
(* character codes; only ASCII is UTF-8 for this model.                    *)
(* A decoder gives Ok(value, used), or Failed where the code returns an    *)
(* error.                                                                  *)
(***************************************************************************)
EXTENDS Integers, Sequences, SequencesExt, FiniteSetsExt

Ok(value, used) == [ok |-> TRUE, value |-> value, used |-> used]
Failed == [ok |-> FALSE]

\* A result of reading, with the octets up to end taken, or as many more before it.
Upto(end, read) == IF read.ok THEN Ok(read.value, end) ELSE Failed
Past(before, read) == Upto(before + read.used, read)

\* The slice &data[at..].
From(data, at) == SubSeq(data, at + 1, Len(data))

Octet == 0..255
Fill(octet, n) == [i \in 1..n |-> octet]
BigEndian(n, width) == [i \in 1..width |-> (n \div (256 ^ (width - i))) % 256]
NumberOf(octets) ==
  LET of[n \in 0..Len(octets)] == IF n = 0 THEN 0 ELSE 256 * of[n - 1] + octets[n]
  IN of[Len(octets)]

-----------------------------------------------------------------------------
(* Tags *)

Extended == 5   \* the nibble that says length octets follow
ExtendedNumber == 15

LengthOctets(length) ==
  IF length < 254 THEN <<length>>
  ELSE IF length < 65536 THEN <<254>> \o BigEndian(length, 2)
  ELSE <<255>> \o BigEndian(length, 4)

ReadLength(data, at) ==
  IF Len(data) <= at THEN Failed
  ELSE LET more == IF data[at + 1] = 254 THEN 2 ELSE IF data[at + 1] = 255 THEN 4 ELSE 0 IN
       IF more = 0 THEN Ok(data[at + 1], 1)
       ELSE IF Len(data) < at + 1 + more THEN Failed
       ELSE Ok(NumberOf(SubSeq(data, at + 2, at + 1 + more)), 1 + more)

\* The initial octet, the number when it does not fit, the length when it does not.
TagOctets(context, number, nibble, length) ==
  LET wide == number > 14 IN
  <<16 * (IF wide THEN ExtendedNumber ELSE number) + (IF context THEN 8 ELSE 0) + nibble>>
    \o (IF wide THEN <<number>> ELSE <<>>)
    \o (IF nibble = Extended THEN LengthOctets(length) ELSE <<>>)

Nibble(length) == IF length < Extended THEN length ELSE Extended

ApplicationTag(number, length) == TagOctets(FALSE, number, Nibble(length), length)
ContextTag(number, length) == TagOctets(TRUE, number, Nibble(length), length)
OpeningTag(number) == TagOctets(TRUE, number, 6, 0)
ClosingTag(number) == TagOctets(TRUE, number, 7, 0)

Tag(class, number, length, used) ==
  [ok |-> TRUE, class |-> class, number |-> number, length |-> length, used |-> used]

DecodeTag(data) ==
  LET context == (data[1] \div 8) % 2 = 1
      nibble == data[1] % 8
      wide == data[1] \div 16 = ExtendedNumber
      at == IF wide THEN 2 ELSE 1
      Of(class, length) ==
        IF length.ok
        THEN Tag(class, IF wide THEN data[2] ELSE data[1] \div 16, length.value, at + length.used)
        ELSE Failed
  IN IF data = <<>> THEN Failed
     ELSE IF wide /\ (~context \/ Len(data) < 2) THEN Failed
     ELSE IF nibble > Extended
     THEN Of(IF nibble = 6 THEN "Opening" ELSE "Closing", IF context THEN Ok(0, 0) ELSE Failed)
     ELSE Of(IF context THEN "Context" ELSE "Application",
             IF nibble = Extended THEN ReadLength(data, at) ELSE Ok(nibble, 0))

IsTag(data, class, number) ==
  LET Is(tag) == tag.ok /\ tag.class = class /\ tag.number = number IN Is(DecodeTag(data))
IsContextTag(data, number) == IsTag(data, "Context", number)

DecodeMark(data, class, number) ==   \* decode_opening_tag and decode_closing_tag
  IF IsTag(data, class, number) THEN Ok("mark", DecodeTag(data).used) ELSE Failed

-----------------------------------------------------------------------------
(* Contents *)

Numbers ==
  [Null |-> 0, Boolean |-> 1, Unsigned32 |-> 2, Unsigned |-> 2, Signed32 |-> 3, Signed |-> 3,
   Real |-> 4, Double |-> 5, OctetString |-> 6, CharacterString |-> 7, BitString |-> 8,
   Enumerated |-> 9, Date |-> 10, Time |-> 11, ObjectIdentifier |-> 12, Reserved |-> 13]

LowOctets(v, n) == SubSeq(v, Len(v) - n + 1, Len(v))

Sign(v) == IF v[1] >= 128 THEN 255 ELSE 0

\* The octets before the last n only repeat what fill says.
Fits(v, n, fill) == \A i \in 1..(Len(v) - n) : v[i] = fill

Shortest(v, widths) == LowOctets(v, Min({n \in widths : Fits(v, n, 0)}))

ShortestSigned(v, widths) ==
  LowOctets(v, Min({n \in widths : Fits(v, n, Sign(v)) /\ Sign(LowOctets(v, n)) = Sign(v)}))

Widths(type) == IF type \in {"Unsigned", "Signed"} THEN {1, 2, 3, 4, 8} ELSE 1..4
Width(type) == IF type \in {"Unsigned", "Signed"} THEN 8 ELSE 4

MaxInstance == 4194303
Id(kind, instance) == [kind |-> kind, instance |-> instance]
IdOctets(id) ==
  <<id.kind \div 4, (id.kind % 4) * 64 + id.instance \div 65536>> \o BigEndian(id.instance % 65536, 2)
IdOf(octets) ==
  Id(4 * octets[1] + octets[2] \div 64, (octets[2] % 64) * 65536 + 256 * octets[3] + octets[4])

AnyYear == 255
DateOctets(date) ==
  <<IF date[1] = AnyYear THEN 255 ELSE date[1] - 1900, date[2], date[3], date[4]>>
DateOf(octets) ==
  <<IF octets[1] = 255 THEN AnyYear ELSE 1900 + octets[1], octets[2], octets[3], octets[4]>>

Unused(bits) == (8 - (Len(bits) % 8)) % 8
BitOctets(bits) ==
  [i \in 1..((Len(bits) + 7) \div 8) |->
     SumSet({2 ^ (8 - b) : b \in {b \in 1..8 : 8 * (i - 1) + b <= Len(bits) /\ bits[8 * (i - 1) + b]}})]
BitsOf(unused, octets) ==
  [i \in 1..(8 * Len(octets) - (IF octets = <<>> THEN 0 ELSE unused)) |->
     (octets[(i - 1) \div 8 + 1] \div (2 ^ (7 - ((i - 1) % 8)))) % 2 = 1]

\* CharacterSet::decode: UTF-8 (0), Latin-1 (5), UCS-2 (4) and UCS-4 (3); the two
\* others need a code page.
Chunks(octets, n) == [i \in 1..(Len(octets) \div n) |-> NumberOf(SubSeq(octets, n * (i - 1) + 1, n * i))]
Text(set, octets) ==
  CASE set = 0 /\ (\A i \in DOMAIN octets : octets[i] < 128) -> Ok(octets, 0)
    [] set = 5 -> Ok(octets, 0)
    [] set = 4 /\ Len(octets) % 2 = 0 -> Ok(Chunks(octets, 2), 0)
    [] set = 3 /\ Len(octets) % 4 = 0 -> Ok(Chunks(octets, 4), 0)
    [] OTHER -> Failed

Contents(type, v) ==
  CASE type \in {"Unsigned32", "Unsigned", "Enumerated"} -> Shortest(v, Widths(type))
    [] type \in {"Signed32", "Signed"} -> ShortestSigned(v, Widths(type))
    [] type \in {"Real", "Double", "OctetString", "Time"} -> v
    [] type \in {"CharacterString", "Utf8"} -> <<0>> \o v
    [] type = "BitString" -> <<Unused(v)>> \o BitOctets(v)
    [] type \in {"Date", "ContextDate"} -> DateOctets(v)
    [] type = "ObjectIdentifier" -> IdOctets(v)
    [] type = "WeekNDay" -> v
    [] type = "Null" -> <<>>

ReadUnsigned(octets, least, width) ==
  IF Len(octets) \in least..width THEN Ok(Fill(0, width - Len(octets)) \o octets, Len(octets)) ELSE Failed
ReadSigned(octets, width) ==
  IF Len(octets) \in 1..width THEN Ok(Fill(Sign(octets), width - Len(octets)) \o octets, Len(octets)) ELSE Failed

Read(type, octets) ==
  LET n == Len(octets) IN
  CASE type \in {"Unsigned32", "Enumerated"} -> ReadUnsigned(octets, 1, 4)
    [] type = "Unsigned" -> ReadUnsigned(octets, 0, 8)
    [] type \in {"Signed32", "Signed"} -> ReadSigned(octets, Width(type))
    [] type \in {"Real", "Time"} /\ n = 4 -> Ok(octets, n)
    [] type = "Double" /\ n = 8 -> Ok(octets, n)
    [] type = "OctetString" -> Ok(octets, n)
    [] type = "CharacterString" /\ n > 0 -> Text(octets[1], Tail(octets))
    [] type = "BitString" /\ n > 0 /\ octets[1] <= 7 -> Ok(BitsOf(octets[1], Tail(octets)), n)
    [] type \in {"Date", "ContextDate"} /\ n = 4 -> Ok(DateOf(octets), n)
    [] type = "ObjectIdentifier" /\ n = 4 -> Ok(IdOf(octets), n)
    [] OTHER -> Failed

-----------------------------------------------------------------------------
(* Application-tagged and context-tagged values *)

\* A boolean is its own length and has no contents; a Null's length is not looked at.
EncodeAs(type, v) ==
  IF type = "Boolean" THEN ApplicationTag(1, IF v THEN 1 ELSE 0)
  ELSE LET contents == Contents(type, v) IN ApplicationTag(Numbers[type], Len(contents)) \o contents

DecodeAs(type, data) ==
  LET After(tag) ==
        IF ~tag.ok \/ tag.class # "Application" \/ tag.number # Numbers[type] THEN Failed
        ELSE IF type = "Null" THEN Ok("null", tag.used)
        ELSE IF type = "Boolean" THEN IF tag.length > 1 THEN Failed ELSE Ok(tag.length = 1, tag.used)
        ELSE LET end == tag.used + tag.length IN
             IF Len(data) < end THEN Failed
             ELSE Upto(end, Read(type, SubSeq(data, tag.used + 1, end)))
  IN After(DecodeTag(data))

\* Under a context tag a boolean has one octet of contents, and a number may have
\* none; the character set of an acknowledgment source is not looked at; a date of
\* 2155 becomes one of any year.
EncodeContext(type, number, v) ==
  LET contents == IF type = "Boolean" THEN <<IF v THEN 1 ELSE 0>> ELSE Contents(type, v)
  IN ContextTag(number, Len(contents)) \o contents

ReadContext(type, octets) ==
  CASE type = "Boolean" -> IF octets \in {<<0>>, <<1>>} THEN Ok(octets = <<1>>, 1) ELSE Failed
    [] type \in {"Unsigned32", "Enumerated"} -> ReadUnsigned(octets, 0, 4)
    [] type = "Utf8" -> IF octets = <<>> THEN Failed ELSE Text(0, Tail(octets))
    [] type = "WeekNDay" -> IF Len(octets) = 3 THEN Ok(octets, 3) ELSE Failed
    [] type = "Null" -> IF octets = <<>> THEN Ok("null", 0) ELSE Failed
    [] OTHER -> Read(type, octets)

DecodeContext(type, number, data) ==
  LET After(tag) ==
        LET end == tag.used + tag.length IN
        IF Len(data) < end THEN Failed
        ELSE Upto(end, ReadContext(type, SubSeq(data, tag.used + 1, end)))
  IN IF IsContextTag(data, number) THEN After(DecodeTag(data)) ELSE Failed

=============================================================================
