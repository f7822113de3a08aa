--------------------------- MODULE MCWire -------------------------------------
(* Requests with numbers at the widths' boundaries, every optional field and choice, *)
(* nested brackets with the outer number, and text long enough for a long length.    *)
EXTENDS Wire

U(n) == BigEndian(n, 4)
Top == Fill(255, 4)
Numbers32 == {U(n) : n \in {0, 127, 128, 255, 256, 65535, 65536, 16777215, 16777216}} \cup {Top}
Wide(n) == Fill(0, 4) \o U(n)
Numbers64 == {Fill(0, 4) \o v : v \in Numbers32}
  \cup {<<0, 0, 0, 1, 0, 0, 0, 0>>, <<0, 0, 0, 255, 255, 255, 255, 255>>, Fill(255, 8)}
Signed64 == {Wide(n) : n \in {0, 127, 128, 32767, 32768, 8388607, 8388608}}
  \cup {Fill(255, 7) \o <<v>> : v \in {0, 127, 128, 255}}
  \cup {Fill(255, 6) \o <<v, 0>> : v \in {127, 128}} \cup {<<128>> \o Fill(0, 7), <<127>> \o Fill(255, 7)}

Device == Id(8, 1)
Input == Id(0, MaxInstance)
Odd == Id(1023, 65536)
Day == <<2024, 2, 29, 4>>
AnyDay == <<AnyYear, 255, 255, 255>>
Noon == <<12, 0, 0, 0>>
Half == <<63, 0, 0, 0>>
Long(n) == Fill(65, n)

None == <<>>
Some(v) == <<v>>
Options(S) == {None} \cup {Some(v) : v \in S}

Is(label, r) == [is |-> label, of |-> r]
Recipients ==
  {[recipient |-> Is("Device", [device |-> Device])],
   [recipient |-> Is("Address", [network |-> <<0, 5>>, mac_address |-> <<10, 0, 0, 1, 186, 192>>])],
   [recipient |-> Is("Address", [network |-> <<255, 255>>, mac_address |-> <<>>])]}
References ==
  {[object_identifier |-> Input, property_identifier |-> U(85), array_index |-> index] :
    index \in Options({U(0), U(300)})}
Stamps ==
  {[at |-> Is("Time", [time |-> Noon])], [at |-> Is("SequenceNumber", [sequence |-> U(65536)])],
   [at |-> Is("DateTime", [date |-> Day, time |-> Noon])]}
Entries ==
  {[entry |-> Is("Date", [date |-> AnyDay])], [entry |-> Is("DateRange", [start |-> Day, end |-> AnyDay])],
   [entry |-> Is("WeekNDay", [week |-> <<13, 6, 255>>])]}
Times == <<[time |-> Noon, value |-> <<"Real", Half>>], [time |-> Noon, value |-> <<"Null", "null">>]>>

Values(type) ==
  {<<type, v>> : v \in
     CASE type = "CovSubscription" ->
            {[process_identifier |-> U(7), issue_confirmed_notifications |-> TRUE,
              time_remaining |-> U(60), cov_increment |-> increment] @@ recipient @@ reference :
               increment \in Options({Half}), recipient \in Recipients, reference \in References}
       [] type = "AddressBinding" ->
            {[device_identifier |-> Device, network |-> <<1, 0>>, mac_address |-> <<1>>]}
       [] type = "Timestamp" -> Stamps
       [] type = "ObjectPropertyReference" -> References
       [] type = "Destination" ->
            {[valid_days |-> <<TRUE, FALSE, TRUE, TRUE, FALSE, FALSE, TRUE>>, from_time |-> Noon,
              to_time |-> Noon, process_identifier |-> Top, issue_confirmed_notifications |-> FALSE,
              transitions |-> <<TRUE, TRUE, FALSE>>] @@ recipient : recipient \in Recipients}
       [] type = "DailySchedule" -> {[time_values |-> Times], [time_values |-> <<>>]}
       [] type = "CalendarEntry" -> Entries
       [] type = "SpecialEvent" ->
            {[time_values |-> Times, priority |-> U(16), period |-> Is("CalendarEntry", entry)] : entry \in Entries}
              \cup {[time_values |-> <<>>, priority |-> U(1),
                     period |-> Is("CalendarReference", [calendar |-> Id(6, 1)])]}
       [] type = "DateRange" -> {[start |-> AnyDay, end |-> Day]}
       [] type = "ValueSource" -> {[none |-> "null"]}}

Plain ==
  {<<"Null", "null">>, <<"Boolean", TRUE>>, <<"Boolean", FALSE>>, <<"Real", Half>>, <<"Double", Fill(1, 8)>>,
   <<"OctetString", <<>>>>, <<"OctetString", Long(6)>>, <<"CharacterString", Long(3)>>,
   <<"BitString", Fill(TRUE, 8)>>, <<"BitString", <<FALSE, TRUE>>>>, <<"Date", Day>>, <<"Time", Noon>>,
   <<"ObjectIdentifier", Odd>>, <<"Enumerated", Top>>}
    \cup {<<"Unsigned", v>> : v \in Numbers64} \cup {<<"Signed", v>> : v \in Signed64}
LongValues == {<<"OctetString", Long(253)>>, <<"CharacterString", Long(253)>>, <<"OctetString", Long(300)>>}

RPAck(number, values) ==
  <<"ReadPropertyAck", [object_identifier |-> Device, property_identifier |-> U(number),
                        property_array_index |-> None, property_values |-> values]>>

\* A value whose brackets have the number of the tag around them.
Nested(n) == OpeningTag(n) \o ContextTag(0, 1) \o <<n>> \o ClosingTag(n)

Reads ==
  {<<"ReadProperty", [object_identifier |-> Input, property_identifier |-> p,
                      property_array_index |-> index]>> : p \in Numbers32, index \in Options({U(0), U(1)})}
    \cup {RPAck(85, <<value>>) : value \in Plain \cup LongValues} \cup {RPAck(85, <<>>)}
    \cup {RPAck(85, <<<<"Unknown", Nested(3)>>, <<"Boolean", TRUE>>>>),
          RPAck(85, <<<<"Unknown", ContextTag(3, 2) \o <<63, 62>>>>>>)}
    \cup UNION {{RPAck(n, <<value>>), RPAck(n, <<value, value>>)} :
                  <<n, value>> \in UNION {{<<n, v>> : v \in Values(ElementsOf[n])} : n \in DOMAIN ElementsOf}}
    \cup {<<"ReadPropertyMultiple",
            [read_access_specifications |->
               Fill([object_identifier |-> Input,
                     property_references |-> <<[property_identifier |-> U(85), property_array_index |-> index],
                                               [property_identifier |-> U(300), property_array_index |-> None]>>], n)]>> :
               n \in 1..2, index \in Options({U(0)})}
    \cup {<<"ReadPropertyMultipleAck",
            [read_access_results |->
               Fill([object_identifier |-> Input, results |-> results], n)]>> :
               n \in 0..2,
               results \in {<<>>,
                 <<[property_identifier |-> U(123), property_array_index |-> None,
                    value |-> Is("Value", [values |-> <<<<"DailySchedule", [time_values |-> Times]>>>>])],
                   [property_identifier |-> U(85), property_array_index |-> Some(U(9)),
                    value |-> Is("Error", [class |-> U(2), code |-> U(32)])]>>}}

WriteOf(value, index, priority) ==
  [property_identifier |-> U(85), property_array_index |-> index, priority |-> priority] @@ value
Written == {EncodeValue(<<"Real", Half>>), <<>>, Nested(3), Nested(2), Nested(1),
            Encode(SpecialEvent, CHOOSE v \in {w[2] : w \in Values("SpecialEvent")} : v.priority = U(16))}
Writes ==
  {<<"WriteProperty", [object_identifier |-> Input] @@ WriteOf([property_value |-> v], index, priority)>> :
     v \in Written, index \in Options({U(0)}), priority \in Options({<<1>>, <<255>>})}
    \cup {<<"WritePropertyMultiple",
            [write_access_specifications |->
               Fill([object_identifier |-> Odd,
                     list_of_properties |-> Fill(WriteOf([value |-> v], None, priority), m)], n)]>> :
               n \in 1..2, m \in 1..2, v \in Written, priority \in Options({<<16>>})}

Subscriptions ==
  {[subscriber_process_identifier |-> Top, monitored_object_identifier |-> Input,
    issue_confirmed_notifications |-> confirmed, lifetime |-> lifetime] :
     confirmed \in Options(BOOLEAN), lifetime \in Options({U(0), U(300)})}
Subscribes ==
  {<<"SubscribeCov", s>> : s \in Subscriptions}
    \cup {<<"SubscribeCovProperty",
            s @@ [monitored_property |-> [property_identifier |-> U(85), property_array_index |-> index],
                  cov_increment |-> increment]>> :
            s \in Subscriptions, index \in Options({U(2)}), increment \in Options({Half})}
    \cup {<<"CovNotification",
            [subscriber_process_identifier |-> U(1), initiating_device |-> Device, monitored_object |-> Input,
             time_remaining |-> Top,
             list_of_values |->
               [i \in 1..n |-> [property_identifier |-> U(84 + i), property_array_index |-> index,
                                values |-> values, priority |-> priority]]]>> :
            n \in 0..2, index \in Options({U(4)}), priority \in Options({U(8)}),
            values \in {<<>>, <<[value |-> <<"Real", Half>>]>>,
                       <<[value |-> <<"BitString", <<TRUE, FALSE, FALSE, TRUE>>>>], [value |-> <<"Boolean", TRUE>>]>>}}

Parameters ==
  LET flags == [status_flags |-> <<TRUE, FALSE, FALSE, FALSE>>] IN
  {Is("ChangeOfState", flags @@ [new_state |-> state]) :
     state \in {Is("BooleanValue", [value |-> TRUE]), Is("BinaryValue", [value |-> U(1)]),
                Is("UnsignedValue", [value |-> U(300)])}}
    \cup {Is("OutOfRange", flags @@ [exceeding_value |-> Half, deadband |-> Half, exceeded_limit |-> Half]),
          Is("ChangeOfReliability", flags @@ [reliability |-> U(7)])}
Alarms ==
  {<<"AcknowledgeAlarm",
     [acknowledging_process_identifier |-> U(1), event_object_identifier |-> Input,
      event_state_acknowledged |-> state, time_stamp |-> stamp, acknowledgment_source |-> source,
      time_of_acknowledgment |-> of]>> :
     state \in {<<0, 0>>, <<1, 44>>}, stamp \in Stamps, of \in Stamps, source \in {<<>>, Long(3), Long(20)}}
    \cup {<<"EventNotification",
            [process_identifier |-> U(1), initiating_device |-> Device, event_object |-> Input,
             timestamp |-> stamp, notification_class |-> U(1), priority |-> U(200), event_type |-> U(5),
             message_text |-> text, notify_type |-> U(type), ack_required |-> TRUE, from_state |-> <<0, 0>>,
             to_state |-> <<0, 3>>, parameters |-> parameters]>> :
            stamp \in Stamps, text \in Options({Long(5)}), type \in 0..2, parameters \in Parameters}

Others ==
  {<<"WhoIs", WhoIsRange(low, high)>> : low \in Options(Numbers32), high \in Options({U(0), Top})}
    \cup {<<"IAm", [device_identifier |-> Device, max_apdu_length_accepted |-> n, segmentation_supported |-> <<s>>,
                    vendor_identifier |-> v]>> :
            n \in Numbers32, s \in 0..3, v \in {<<0, 0>>, <<1, 4>>, <<255, 255>>}}
    \cup {<<service, [date |-> date, time |-> Noon]>> :
            service \in {"TimeSynchronization", "UtcTimeSynchronization"}, date \in {Day, AnyDay, <<1900, 1, 1, 1>>}}
    \cup {<<"AtomicReadFile", [file_identifier |-> Id(10, 1), access |-> access, start |-> U(0), count |-> U(512)]>> :
            access \in {"Stream", "Record"}}
    \cup {<<"AtomicWriteFile", [file_identifier |-> Id(10, 1), access |-> access, start |-> U(0),
                                file_data |-> Long(4), records |-> <<Long(2), Long(6)>>]>> :
            access \in {"Stream", "Record"}}

Segmentable(s) ==
  [segmented |-> s, more_follows |-> s, invoke_id |-> 255, service_choice |-> 12,
   sequence_number |-> IF s THEN <<200>> ELSE <<>>, proposed_window_size |-> IF s THEN <<1>> ELSE <<>>]
Errors ==
  {[pdu |-> "Error", invoke_id |-> 1, service_choice |-> choice, error_class |-> U(2), error_code |-> code,
    first_failed_write |-> write] :
     <<choice, write>> \in {<<16, None>>, <<15, None>>} \cup {<<16, Some(w)>> : w \in References},
     code \in Numbers32}
Apdus ==
  {[pdu |-> "ConfirmedRequest", segmented_response_accepted |-> accepted, max_segments |-> m,
    max_response_size |-> AtMost(size), service_data |-> data] @@ Segmentable(s) :
      accepted \in BOOLEAN, m \in {0, 7}, size \in {40, 206, 1475, 1476}, s \in BOOLEAN, data \in {<<>>, Long(3)}}
    \cup {[pdu |-> "UnconfirmedRequest", service_choice |-> 8, service_data |-> data] : data \in {<<>>, Long(2)}}
    \cup {[pdu |-> "ComplexAck", service_data |-> data] @@ Segmentable(s) : s \in BOOLEAN, data \in {<<>>, Long(3)}}
    \cup {[pdu |-> "SimpleAck", invoke_id |-> 0, service_choice |-> 15], [pdu |-> "Reject", invoke_id |-> 9, reason |-> 4]}
    \cup {[pdu |-> "SegmentAck", negative |-> n, server |-> s, invoke_id |-> 3, sequence_number |-> 255, window_size |-> 1] :
            n \in BOOLEAN, s \in BOOLEAN}
    \cup {[pdu |-> "Abort", server |-> s, invoke_id |-> 3, reason |-> 11] : s \in BOOLEAN} \cup Errors
Answers ==
  {[apdu |-> [pdu |-> "ComplexAck", service_data |-> Long(n)] @@ Segmentable(FALSE), limit |-> limit,
    segmented_response_accepted |-> accepted] :
      n \in {40, 46, 47, 48, 60, 124, 125, 126}, limit \in {50, 128}, accepted \in BOOLEAN}
    \cup {[apdu |-> error, limit |-> 50, segmented_response_accepted |-> FALSE] : error \in Errors}
Places == {[network |-> 5, mac |-> <<7>>], [network |-> GlobalNetwork, mac |-> <<>>],
           [network |-> 300, mac |-> <<10, 0, 0, 9, 186, 192>>]}
Npdus ==
  {[network_message |-> m, destination |-> d, source |-> s, expecting_reply |-> e, priority |-> p,
    hop_count |-> IF d = None THEN None ELSE <<hops>>] :
      m \in BOOLEAN, d \in Options(Places), s \in Options(Places), e \in BOOLEAN, p \in {0, 3}, hops \in {0, 255}}
    \cup {GlobalBroadcast}
HeaderMessages ==
  {<<"Apdu", r>> : r \in Apdus} \cup {<<"Answer", r>> : r \in Answers} \cup {<<"Npdu", r>> : r \in Npdus}
    \cup {<<"Npdu", ReplyNpdu(r)>> : r \in Npdus}
    \cup {<<"NetworkMessage", [type |-> t, data |-> d]>> : t \in NetworkMessageTypes, d \in {<<>>, <<0, 5>>}}

\* A station, everybody, and groups whose addresses begin as frames of the other links do: the
\* second of them as a whole one of BACnet/IP, of 60 octets.
Macs == {<<0, 17, 34, 51, 68, 85>>, Fill(255, 6), <<129, 0, 94, 0, 0, 1>>, <<129, 10, 0, 60, 0, 1>>,
         <<85, 255, 0, 2, 1, 0>>, <<85, 0, 0, 0, 0, 1>>}
Payloads == {<<1>>, <<1, 0, 16, 8>>, Fill(85, 2), Fill(0, 3)}
Datagrams ==
  {<<"Datagram", [function |-> f, address |-> IF f = "ForwardedNpdu" THEN <<10, 0, 0, 7, 186, 192>> ELSE <<>>,
                  npdu |-> npdu, apdu |-> apdu]>> :
      f \in {"OriginalUnicastNpdu", "OriginalBroadcastNpdu", "ForwardedNpdu"},
      npdu \in {PlainNpdu, GlobalBroadcast, ReplyNpdu([source |-> <<[network |-> 5, mac |-> <<7>>]>>])},
      apdu \in {a \in Apdus : a.pdu \in {"UnconfirmedRequest", "SimpleAck", "Error"}}}
LinkMessages ==
  {<<"Bvlc", [function |-> f, npdu |-> p]>> : f \in {"OriginalUnicastNpdu", "OriginalBroadcastNpdu"}, p \in Payloads}
    \cup {<<"Bvlc", [function |-> "ForwardedNpdu", address |-> <<10, 0, 0, 7, 186, 192>>, npdu |-> p]>> : p \in Payloads}
    \cup {<<"Mstp", [frame_type |-> t, destination |-> d, source |-> 1, data |-> p]>> :
             t \in {0, 5, 7}, d \in {2, 255}, p \in Payloads \cup {<<>>}}
    \cup {<<"Mstp", [frame_type |-> 5, destination |-> 2, source |-> s, data |-> p]>> :
             s \in {0, 127, 254, 255}, p \in {<<>>, <<1, 0, 16, 8>>}}
    \cup {<<"Ethernet", [dest_mac |-> d, src_mac |-> <<0, 17, 34, 51, 68, 86>>, payload |-> p]>> :
             d \in Macs, p \in Payloads \cup {Fill(1, n) : n \in {42, 43, 44}}}

\* Frames as long as the links allow, and longer by one: a BACnet/IP socket sends and takes these
\* too; of MS/TP and Ethernet they come from others, as this crate sends none.
LongFrames ==
  {<<"Bvlc", [function |-> "OriginalUnicastNpdu", npdu |-> Fill(1, n - BvlcHeader)]>> : n \in {MaxBvlc, MaxBvlc + 1}}
    \cup {<<"Mstp", [frame_type |-> 6, destination |-> 2, source |-> 1, data |-> Fill(85, n)]>> :
             n \in {MaxMstpData, MaxMstpData + 1}}
    \cup {<<"Ethernet", [dest_mac |-> Fill(255, 6), src_mac |-> <<0, 17, 34, 51, 68, 86>>,
                        payload |-> Fill(1, n - EthernetHeader)]>> : n \in {MaxEthernet, MaxEthernet + 1}}

AllMessages == LongFrames \cup Datagrams \cup LinkMessages \cup HeaderMessages \cup Reads \cup Writes \cup Subscribes \cup Alarms \cup Others

=============================================================================
