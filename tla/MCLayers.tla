------------------------------- MODULE MCLayers -------------------------------
(***************************************************************************)
(* Stories of the layers between the application and the network for TLC,  *)
(* one at a time: "routes" is a station and a virtual router, "server" the *)
(* receive loop of a hosted device, "paths" the path discovery, "segments" *)
(* the reassembly of messages, "calls" the blocking client, "foreign" a    *)
(* foreign device and its BBMD, "subscribers" the subscriptions and        *)
(* discoveries of the asynchronous client and "addresses" the file it      *)
(* keeps devices in, "tables" and "peers" whom broadcasts are sent on to,  *)
(* "observers" the manager of subscriptions beside them, "tracked" the     *)
(* requests a transport keeps the time of, "calendar" the days that        *)
(* entries of calendars cover, "host" and "handler" the tables of the      *)
(* application layer. The frames on their way are in `wire` in all of      *)
(* them.                                                                   *)
(***************************************************************************)
EXTENDS RoutedSite

CONSTANTS d1, d2, phone, bbmd, far

VARIABLES
  story,
  inbox, tasks, loop, signalled, replies, arrived, over,
  links, cache, found,
  buffers, begun, delivered,
  next_id, call, calls, asked, result,
  foreign_device, waiting, since, answers, fdt, undisturbed,
  running, commands, pending, subscribers, subscriptions, searches, windows, packets, renewals,
  taken,
  file, saved, whole, loaded,
  entries, seconds, until,
  peers, meant,
  subscribed, told, ends,
  active, next_tracked, clock, tracked,
  today,
  next_invoke, active_ids, transactions, queue, handlers, reply, requests

-----------------------------------------------------------------------------
(* "routes" and "server": requests, and the frames that carry them *)

Plain == [type |-> "Confirmed", asks |-> {}, segmented |-> FALSE, supported |-> TRUE,
          accepts |-> FALSE, content |-> "Fits", source |-> None]
WhoIs(whom) == [Plain EXCEPT !.type = "WhoIs", !.asks = whom]
Garbled(content) == [Plain EXCEPT !.type = "Garbled", !.content = content]

MCRequests ==
  {[destination |-> Address(1, 1), hops |-> 255, request |-> Plain],
   [destination |-> Address(2, None), hops |-> 1, request |-> Garbled("Misfit")]}

Carried(function, origin, destination, request) ==
  [function |-> function, origin |-> origin, sender |-> bbmd, readable |-> TRUE,
   network_message |-> FALSE, destination |-> destination, routed |-> FALSE, request |-> request]
MCBroadcasts ==
  {Carried("forwarded", far, Address(GLOBAL_BROADCAST, None), WhoIs({d1})),
   Carried("broadcast", None, Address(1, None), WhoIs({d1, d2}))}

Datagram(readable, origin, request) ==
  [readable |-> readable, network_message |-> FALSE, origin |-> origin, sender |-> phone,
   request |-> request]
MCDatagrams ==
  {Datagram(FALSE, None, Plain), Datagram(TRUE, far, WhoIs({d1})),
   Datagram(TRUE, None, [Plain EXCEPT !.content = "Long"])}

-----------------------------------------------------------------------------
(* "paths" and "segments" *)

Link(a, b, cost) == [source |-> a, destination |-> b, cost |-> cost]
MCLinks ==
  {Link(1, 2, 1), Link(1, 2, 4), Link(2, 3, 1), Link(2, 3, 4), Link(1, 3, 3), Link(3, 2, 0),
   Link(2, 1, 1)}

Message(id, length) == [id |-> id, length |-> length]
MCMessages ==
  {Message(1, 0), Message(1, 4), Message(2, 5), Message(3, 7), Message(3, 9)}

\* "subscribers"
Announcement(kind, more) == [kind |-> kind, from |-> far] @@ more
Notified(confirmed, form) ==
  [kind |-> "Notification", about |-> d1, confirmed |-> confirmed, form |-> form]
MCPackets ==
  {Announcement("IAm", [device |-> d1]), Announcement("IAmRouter", [networks |-> {1}]),
   Notified(TRUE, "Whole"), Notified(FALSE, "Whole"), Notified(TRUE, "Garbled"),
   Notified(TRUE, "Segment")}

\* "addresses"
Cached(id, route, max_apdu, segmentation) ==
  [device_id |-> id, address |-> far, route |-> route, max_apdu |-> max_apdu,
   segmentation |-> segmentation]
Behind == [network |-> 12, mac |-> <<7>>]
MCCaches ==
  {<<>>} \cup {<<Cached(4001, route, 1476, s), Cached(12, Behind, 480, s), Cached(7, None, 50, "both")>> :
     route \in {None, Behind, [Behind EXCEPT !.mac = <<>>]}, s \in {"both", "transmit", "receive", "none"}}

-----------------------------------------------------------------------------
Server == INSTANCE SiteServer WITH
  Device <- d1, Datagrams <- MCDatagrams, MaxConcurrentRequests <- 2
Discovery == INSTANCE PathDiscovery WITH Networks <- 1..3, Links <- MCLinks, U16Max <- 4
Segments == INSTANCE Reassembly WITH
  Messages <- MCMessages, MaxSegmentSize <- 2, MaxSegments <- 4,
  MaxConcurrentReassemblies <- 1, MaxApduLength <- 6
Calls == INSTANCE SyncClient WITH
  Ids <- 2, Retries <- 1, Addresses <- {phone, far}, Properties <- {"p"}, ObjectList <- "l",
  Objects <- {"o"}, Devices <- {d1},
  MaxCalls <- 3
Foreign == INSTANCE ForeignDevice WITH
  Ttl <- 5, RegistrationTimeout <- 1, MaxDelay <- 1, HeartbeatPeriod <- 1
Subscribers == INSTANCE ClientNotifications WITH
  Objects <- {d1}, Packets <- MCPackets, MaxCommands <- 2, MaxCalls <- 2, MaxPackets <- 2,
  MaxRenewals <- 1
AddressCache == INSTANCE AddressFile WITH Caches <- MCCaches
Tables == INSTANCE TimedTables WITH
  Addresses <- {phone, far, bbmd}, Ttls <- {0, 1, 3}, Masks <- {{1}, {2}, {1, 2}}, Elapses <- {1, 2}, MaxEntries <- 2,
  MaxSeconds <- 4, Observers <- {phone, far}, Objects <- {d1, d2}, Lifetimes <- {0, 2}
Tracked == INSTANCE TransportRequests WITH
  Ids <- 2, Timeouts <- {0, 1}, MaxSends <- 3, MaxClock <- 2, next_id <- next_tracked,
  sent <- tracked
\* Leap years and others, at the end of a century too; ranges that begin and end about February.
Days == INSTANCE CalendarRules WITH
  Years <- {2000, 2023, 2024, 2100},
  Ranges <- {<<36583, 45351>>, <<45322, None>>, <<None, 73107>>}
Host == INSTANCE ApplicationLayer WITH
  Ids <- 2, MaxTransactions <- 2, MaxQueue <- 1, Supported <- {"ReadProperty", "WriteProperty"},
  Services <- {"ReadProperty", "WriteProperty", "DeleteObject"}, MaxRequests <- 3

ASSUME LayersAssumption ==
  /\ Server!SiteServerAssumption /\ Discovery!PathAssumption /\ Segments!ReassemblyAssumption
  /\ Calls!SyncAssumption /\ Foreign!ForeignDeviceAssumption /\ Tables!TablesAssumption
  /\ AddressCache!CachesAssumption /\ Host!HostAssumption /\ Days!CalendarAssumption

\* What each story moves besides `wire`.
site == <<vars, station, frames, edits>>
server == <<inbox, tasks, loop, signalled, replies, arrived, over>>
paths == <<links, cache, found>>
segments == <<buffers, begun, delivered>>
client == <<next_id, call, calls, asked, result>>
foreign == <<foreign_device, waiting, since, answers, fdt, undisturbed>>
listeners == <<running, commands, pending, subscribers, subscriptions, searches, windows, packets,
               renewals, taken>>
known_devices == <<file, saved, whole, loaded>>
registrations == <<entries, seconds, until>>
distribution == <<peers, meant>>
broadcast == <<registrations, distribution>>
observers == <<subscribed, told, ends>>
transport == <<active, next_tracked, clock, tracked>>
timed == <<broadcast, observers, transport>>
application == <<next_invoke, active_ids, transactions, queue, handlers, reply, requests>>
everything == <<story, wire, site, server, paths, segments, client, foreign,
                listeners, known_devices, timed, today, application>>

\* The site has a device on its one network.
Furnished == networks = {1} /\ devices = [a \in {Address(1, 1)} |-> d1] /\ SiteInit

LayersInit ==
  /\ story \in {"routes", "server", "paths", "segments", "calls", "foreign", "subscribers", "addresses",
               "tables", "peers", "observers", "tracked", "calendar", "host", "handler"}
  /\ Furnished /\ Server!Init /\ Discovery!Init /\ Segments!Init /\ Calls!Init /\ Foreign!Init
  /\ Subscribers!Init /\ AddressCache!Init /\ Tables!Init /\ Tracked!Init
  /\ Host!Init
  /\ IF story = "calendar" THEN Days!Init ELSE today = 0

LayersNext ==
  /\ UNCHANGED story
  /\ \/ /\ story = "routes" /\ SiteNext
        /\ UNCHANGED <<server, paths, segments, client, foreign, listeners, known_devices, timed, today, application>>
     \/ /\ story = "server" /\ Server!Next
        /\ UNCHANGED <<wire, site, paths, segments, client, foreign, listeners, known_devices, timed, today, application>>
     \/ /\ story = "paths" /\ Discovery!Next
        /\ UNCHANGED <<wire, site, server, segments, client, foreign, listeners, known_devices, timed, today, application>>
     \/ /\ story = "segments" /\ Segments!Next
        /\ UNCHANGED <<site, server, paths, client, foreign, listeners, known_devices, timed, today, application>>
     \/ /\ story = "calls" /\ Calls!Next
        /\ UNCHANGED <<site, server, paths, segments, foreign, listeners, known_devices, timed, today, application>>
     \/ /\ story = "foreign" /\ Foreign!Next
        /\ UNCHANGED <<site, server, paths, segments, client, listeners, known_devices, timed, today, application>>
     \/ /\ story = "subscribers" /\ Subscribers!Next
        /\ UNCHANGED <<wire, site, server, paths, segments, client, foreign, known_devices, timed, today, application>>
     \/ /\ story = "addresses" /\ AddressCache!Next
        /\ UNCHANGED <<wire, site, server, paths, segments, client, foreign, listeners, timed, today, application>>
     \/ /\ story = "tables" /\ Tables!DevicesNext
        /\ UNCHANGED <<wire, site, server, paths, segments, client, foreign, listeners,
                       known_devices, distribution, observers, transport, today, application>>
     \/ /\ story = "peers" /\ Tables!PeersNext
        /\ UNCHANGED <<wire, site, server, paths, segments, client, foreign, listeners,
                       known_devices, registrations, observers, transport, today, application>>
     \/ /\ story = "observers" /\ Tables!SubscriptionsNext
        /\ UNCHANGED <<wire, site, server, paths, segments, client, foreign, listeners,
                       known_devices, broadcast, transport, today, application>>
     \/ /\ story = "tracked" /\ Tracked!Next
        /\ UNCHANGED <<wire, site, server, paths, segments, client, foreign, listeners,
                       known_devices, broadcast, observers, today, application>>
     \/ /\ story = "calendar" /\ Days!Next
        /\ UNCHANGED <<wire, site, server, paths, segments, client, foreign, listeners,
                       known_devices, timed, application>>
     \/ /\ story = "handler" /\ Host!HandlerNext
        /\ UNCHANGED <<wire, site, server, paths, segments, client, foreign, listeners,
                       known_devices, timed, today>>
     \/ /\ story = "host" /\ Host!TablesNext
        /\ UNCHANGED <<wire, site, server, paths, segments, client, foreign, listeners,
                       known_devices, timed, today>>

LayersSpec == LayersInit /\ [][LayersNext]_everything /\ (story = "server" => Server!Fairness)

PathsAreShortest == Discovery!PathsAreShortest
ReassembledWhole == Segments!ReassembledWhole
AnswersBelong == Calls!AnswersBelong
StaysRegistered == Foreign!StaysRegistered
ListenersHear == Subscribers!ListenersHear
NeverClaimsMore == AddressCache!NeverClaimsMore
TimesAreKept == Tables!RegisteredForItsTime /\ Tracked!TrackedForACycle
EntriesNameTheirDays == story = "calendar" => Days!EntriesNameTheirDays
AnsweredIsComplete == Host!AnsweredIsComplete
EventuallyServed == story = "server" => Server!EventuallyServed

=============================================================================
