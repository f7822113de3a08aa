# A verification of bacnet-rs

TLA+ models of the stateful parts of `bacnet-rs`, checked with TLC on small
instances and proved about with TLAPS for all of them. Paths such as
`src/cov/mod.rs` are those of the crate. `PROJECT.json` holds the machine-readable
side: components, runs, mutants, hazards, findings, theorems, and for every
definition that translates code the lines it translates.

1. The system
2. Modules
3. Runs
4. Bounds
5. Fairness
6. Proofs
7. What is only model-checked
8. Where code and documentation part
9. What is not modelled
10. Plan

## 1. The system

bacnet-rs is a BACnet stack: a codec, data links, and on top of them a device
(server) and two clients. A device is put together by its host program, which owns
the clock and calls the engines; the crate starts threads only for the asynchronous
client and the asynchronous server.

```
  host program ── tick ──> EventEngine, CovEngine, ScheduleEngine
       │                          │ read, write             │ notifications
       │ poll                     v                         v
       │                  ObjectDatabase <── ObjectService   Notifier ── socket ──> peers
       │                          ^            ^                │ register, withdraw, due
       │                          └────────────┤                v
       └───────────────────────────── ServerDispatcher ──> Transactions
                                               ^ frames          ^ answer
  BACnetIpServer (receive loop, tasks) ────────┘                 │
  AsyncBacnetClient ── commands ──> Endpoint task (table, segments, sinks) ── socket
  BacnetClient (one request at a time)
```

Everything the threads share is behind locks of its own: each part of the database,
each object, the subscription table, its limits, its clock, the transaction table.
Most operations take several of them one after the other, and the interesting
behaviour is in between.

### Components, their state, and what makes them correct

Each entry: the files, the state, the operations, what is hard, and when it is correct.
The last line names the modules. `PROJECT.json` says of each component whether it is
modelled wholly or in part.

**Object database** (`object/database.rs`). State: the map of objects, each behind a
lock; indexes of types and names; proprietary properties; clock; revision; time of the
last change. Operations: add, remove, rename, read, write, list, search, count,
`with_object(_mut)`, `set_proprietary_property`, `set_clock`. Called by every other part
of a device. Hard: eight kinds of lock in overlapping orders; check and change under
different locks. Correct when the indexes are the inverse of the map, the revision tells
of changes, the Device object stays, and nobody deadlocks. *`ObjectDatabase`.*

**Objects** (`object/*.rs`). State: properties; for points a priority array with
relinquish default, local override, out-of-service and the value the source gave.
Operations: get and set a property, command at a priority, relinquish, take a reading,
override. Correct when Present_Value is what the commands, the override and the source add
up to, and a refusal leaves the object as it was. *`Objects`, `StandardProperties`.*

**Object service** (`server/object_service.rs`). State: address cache, queue of
acknowledgements. Operations: ReadProperty(Multiple), WriteProperty(Multiple),
SubscribeCOV(Property), AcknowledgeAlarm. Hard: an element of an array is written by
reading and writing the whole; a write of several properties stops in the middle; an
address is learnt before the write is accepted; All is expanded before it is read.
*`ObjectService`; subscriptions are in `CovReporting`, acknowledgements in
`EventReporting`.*

**COV subscriptions and engine** (`cov/mod.rs`). State: subscriptions by key with expiry,
limits, published clock; the engine's baselines. Operations: subscribe, cancel, set
limits, tick. Hard: the table is locked, let go and locked again by a subscribe; a tick
walks a copy while the table changes. Correct when a subscriber at rest knows the value to
within its increment, changes are measured from what it was told, and limits hold.
*`CovReporting`.*

**Intrinsic reporting** (`event/mod.rs`, `object/intrinsic.rs`, `object/{analog,binary,multistate}.rs`,
`object/notification_class.rs`). State: the pending transition of each object with the
time since when; Event_State, Acked_Transitions and Event_Time_Stamps of each object; the
class's recipients and Ack_Required. Operations: tick (five locks for each object), writes
of the object and class, AcknowledgeAlarm. Correct when an alarm that was told stays
unacknowledged until it is acknowledged, and delays are honoured. *`EventReporting`.*

**Schedules and calendars** (`schedule/mod.rs`, `object/{schedule,calendar}.rs`,
`property/complex.rs`). State: the schedules seen so far; each schedule's value,
exceptions, weekly entries and targets. Operations: tick, writes; the rules by which an
entry covers a day. Hard: calendars are refreshed first, a value is committed next and
written to the targets afterwards, once, with clients in between. Correct when schedules
say what the calendars say, and targets what the schedules say. *`ScheduleEngine`,
`CalendarRules`.*

**Server transactions and notifier** (`server/transactions.rs`, `server/bip.rs`,
`server/dispatcher.rs`). State: pending requests with frame, age and retries; answers;
the invoke id cursor. Operations: send (next id, register, send, withdraw), answer, poll
(read policy, due, resend, report). Hard: an id is chosen under one lock and registered
under the next; a reply may come before send returns; resends fail in the middle of a
poll. Correct when every request is reported once, and only its own answer ends it.
*`ServerTransactions`, `RequestFates`.*

**Server dispatch and sockets** (`server/{dispatcher,bip,socket}.rs`). State: the set of
running tasks, the stop signal. Operations: decode, dispatch, answer; the receive loop
takes nothing in at its limit; shutdown waits for the accepted ones. Correct when
what was taken in is answered once and shutdown ends. *`Dispatcher`, `SiteServer`.*

**Virtual router** (`server/router.rs`). State: networks and the devices on them, edited
by the host while frames are answered. Correct when a device answers only what reaches it,
the answer goes back to the asker, and only a network that is not there is rejected.
*`VirtualRouter`; with a station, `RoutedSite`.*

**Asynchronous client** (`client/async_client.rs`, `client/{config,error}.rs`). State, all
owned by the Endpoint task: the queue of commands, transactions by peer and id,
quarantined ids, round-trip estimates, reassembly and outbound segments, COV sinks,
discovery windows. Operations: commands, packets, deadlines, dropped futures. Hard: they
come in any order; ids are scarce and come back while answers are under way. Correct when
nobody waits for ever, answers reach those who asked, segmented transfers are whole, and
whoever subscribed last hears what the device says. *`ClientTransactions` (requests of one
frame), `SegmentedTransfer`, `ClientNotifications` (sinks and discovery).*

**Synchronous client** (`client/{mod,transaction}.rs`). One request at a time over one
socket, the same id for each attempt, matched by sender and id. Correct when an answer
belongs to the call that returns it. *`SyncClient`.*

**Address caches** (`server/address_cache.rs`, `client/address_cache.rs`). Device to
address; the client's is saved to a file and loaded at the next start. Correct when a crash
in the middle of a save never makes it claim more than was known. *`AddressFile`; the
server's is in `ObjectService`.*

**Network layer** (`network/mod.rs`). Routing table with busy networks, `RouterManager`,
path discovery over a topology with a cache, foreign-device and broadcast tables. Hard: hop
counts are lowered before the busy check, and the cache is keyed by the destination alone.
*`Routing`, `PathDiscovery`, `TimedTables`.*

**Application helpers** (`app/mod.rs`). InvokeIdManager, TransactionManager,
SegmentationManager, a priority queue; nothing in the crate uses them, so a host that does
is part of the model. *`ApplicationLayer`, `Reassembly`.* **Transport**
(`transport/mod.rs`): a socket with a registration as a foreign device and its renewal, and
the requests it keeps the time of, whose IDs are given again. *`ForeignDevice`,
`TransportRequests`.*

**Codecs** (`encoding/mod.rs`, `service/*`, `property*`, the headers of `app/mod.rs`
and `network/mod.rs`) and **data links** (`datalink/*`). No state: requests, values,
headers and frames become octets and back. Correct when what was written is read back, what
is cut off is not taken for whole, and damage on a serial line is noticed. *`Encoding`,
`ServiceCodecs`, `Frames`, with `Wire` between a sender and a receiver.*

**Tables of the standard** (`object/{property_identifier,object_type,engineering_units}.rs`,
`vendor.rs`) and **utilities** (`util/mod.rs`) keep no state and have no control; they are not modelled.

## 2. Modules

One module for each component, `<Component>Proofs` for its theorems, `MC<Component>`
for its instances (`SegmentedTransfer` is run as it is). The components that the runs reach by
`INSTANCE` have their theorems together in `ComponentsProofs`. In every module an action is a critical section of the code or a
step between two: what can be interleaved in the program can be interleaved in the
model. Variables that no code has are called history in their comment; they remember
what a property asks about and no guard reads them.

**ServerTransactions** (with **RequestFates**). A request is a member of `Requests`, of
which the code only has peer and invoke id; that is what lets a property say that an
answer ended the wrong one. `call[r]` is where `Notifier::send` is: it reads the cursor
(`TakeId`), probes the table (`Probe`, as often as there are ids), registers
(`Register`), and sends (`SendSucceeds`, or `SendFails` and later `Withdraw`). `pending`,
`entry` and `answered` are `Table`; `ServeReply` is the dispatcher recording any late or
repeated reply to whatever left the socket (`wire`). `Poll` is one policy read after the
other, then `Due` under the lock, then the resends one at a time, of which one may fail
(`ResendFails`). `Tick` and `WritePolicy` are the clock and a client. `RequestFates` is
what the device owes: each request is unsent, waiting, and then has one fate.
`ServerTransactions` implements it (`ImplementsFates`) with `fate` as refinement mapping.

**CovReporting**. `Subscribe`, `LookUpRoom` and `Insert` are the three locks of a
subscription on each thread; `Cancel`, `SetLimits`. A tick is `TickBegins`
(publishing the clock), `TickExpires`, `TickCollects` (the copy that is walked, and the
baselines that are forgotten), then `ReadFirst`, `ReadFlags` and `Report` or `StayQuiet`
for each subscription. Values are numbers; flags are a number that differs or does not.
`Write`, `Remove` and `Add` are clients and host.

**ClientTransactions**. `Ask` and `DropCall` are callers, `LoopTop` the head of the
task's loop, where cancelled requests are removed; `TakeCommand`, `HandleAnswer`,
`HandleOther` and `HandleTimeouts` are the arms of its select; `SocketFails` ends the
task. Deadlines and quarantines are what is left of them, lowered by `Tick`. `rto` stands
for the round-trip estimator: a sample sets it to any of `Rtos`.

**SegmentedTransfer**. One transaction: `AdvanceOutbound` (a segment ack or nack),
`AcceptResponseSegment` with its arms `Take`/`Accept`, `Complete`, `Repeat`, `Missing`,
`Abandon`; `Retransmit` and `GiveUp` are the deadline. A payload is the list of its
pieces, named by their place, so that a wrong piece under a right number shows. The
device (external) takes, acknowledges, answers and may run `Ahead` of its window; whatever
was sent may arrive at any time, again, or never.

**EventReporting**. `evaluate_object` as `Undetected`, `AtRest`, `Dwell` or `Due`, then
`ReadSettings`, `Commit`, `ReadRecipients`, `Await`, a lock each; `AcknowledgeAlarm`,
`TakeAcknowledgements`, `WriteObject`, `WriteClass` in between. `Evaluation` is a
fault, or what the object's kind says: OUT_OF_RANGE of an analog object with limits and
deadband, CHANGE_OF_STATE of a binary or multi-state one.

**ObjectDatabase**. A thread is at a *place*; the four tables of places say which lock
is waited for there and which are had, as read or as write locks. A step takes the lock
waited for and does all the code does under it up to the next lock. `Pass`, `Find` and
`End` are the steps that only take locks, look an object up, or change nothing; `Add`,
`Recall`/`Remove`/`Strip`, `Rename`, `Attach` and `Bump` change the data; `Search`,
`CountRevision`/`Count`, and `ReadRevision`/`FindName`/`ReadName` read it. Clients' readings
(`known`, `counted`) are kept for the property about the revision.

**Objects** says what an object of each kind serves, lists and calls writable, and what a
read, a write, a command, a reading and an override make of it: operators on a record, as
the code has them on a struct. Refusals are names of errors. Numbers are cut down to a few
per width (`U8Max`, `U32Max`), slots to two. **StandardProperties** has the standard's
lists. **ObjectService** runs requests over such objects on threads: `Prepare` turns the
next write into a whole value (an element into the whole array it is in), `Learn` binds the
recipients a list names, `Store` writes; `Expand` turns All, Required and Optional into a
list, `ReadNext` reads along it. `Source` and `Override` are the host.

**ScheduleEngine**. `Tick`, `Refresh` of each calendar, `ListSchedulesFirst` (priming) or
`ListSchedules`, `Evaluate`, `WriteTarget`: each one call into the database. `AddSchedule`,
`WriteSchedule`, `WriteDateList`, `CommandTarget` come in between. `ValueAt` and what it
calls are the code's evaluation of a day. **CalendarRules** has the rules by which a
date, a range or a pattern covers a day, on dates of the real calendar (in the run, of four years from 2000 to 2100): a
day is judged by its own numbers, as in the code, and held against the days before and after.

**Encoding** has tags and primitive values as octets; a `u32` is its four octets, as
forms change with the leading zeros. **ServiceCodecs** describes each request and value as
a *layout*, the fields in order, with one `Encode` and one `Decode` that walk it; where
the code's pair differs, the field says so. **Frames** has the APDU and NPDU headers and
the BVLC, MS/TP and Ethernet frames with their checksums and `validate_frame`.
**Wire** sends one message: `Send`, perhaps `Cut` anywhere or `Damage` an octet,
`Receive`.

**Dispatcher** answers one request; **SiteServer** is the receive loop around it, with its
bounded set of tasks (`Receive`, `Join`, `Stop`, `Return`) and the tasks
(`ProcessDatagram`, `Serve`, `Send`). **VirtualRouter** is the router and its table, with
`Receive`, `AnswerNext` and `SendNext` on a frame while the host edits the table.
**Routing** is what a station knows of routes, and **RoutedSite** joins the two by a
network that loses, repeats and reorders: the station asks, hears, and sends on what it
believes. **PathDiscovery** edits a topology and asks for paths; **TimedTables** holds
registrations of foreign devices, the peers broadcasts are sent on to, and the subscriptions of
`CovSubscriptionManager` (`service/mod.rs`), while seconds pass. **TransportRequests** hands out IDs that wrap, and is asked which requests
ran out; `TimeoutManager` and `BacnetIpTransport` do the same.

**SyncClient** and **ClientNotifications** are the callers' side of the two clients.
In the former a call takes what comes from whom it asked under the id it used; `asked` numbers
the calls that drew an id (discoveries draw none), so that an answer can be traced to its
request. In the latter commands are queued, the endpoint binds one sink to an object and serves
discoveries, and callers renew, unsubscribe, receive or go away. **ForeignDevice** is a
registration against the clock of a BBMD: the application registers when it likes, its
heartbeats renew, results wait in the socket in the order they came (`HearResult`), and what is
no result is passed over (`PassOver`). **AddressFile** is the saved cache with a crash in the
middle, **Reassembly** segments of messages in buffers, and **ApplicationLayer** a host that
sends requests with the crate's bookkeeping, a table each, and the handler that answers its
peers.

RoutedSite apart, which composes three modules over one network, the modules share no
variables. They meet at the database's locks (a COV, event, service or schedule step is one
`with_object`, `get_property` or `set_property` call of `ObjectDatabase`: hence one lock at a
time in those modules), at the notifier (a report of `CovReporting` or `EventReporting` is a
`Send` of `ServerTransactions`), at the Endpoint's table (a transaction of
`SegmentedTransfer` and a request of `ClientNotifications` is an entry of
`ClientTransactions`), and at the Dispatcher, which `SiteServer` and `VirtualRouter` both
instantiate.

## 3. Runs

Ten runs pass; two find what section 8 tells of.

| run | what it asks | distinct states |
| --- | --- | --- |
| `transactions_table` | whoever was sent has one end, lost only by a clash of ids or a failed poll; attempts are reported without gaps and used up before giving up; a reply crosses to another request only after a whole cycle of ids | 558k |
| `transactions_fates` | the threads together implement `RequestFates` whatever a client does to the limit; with fair polling every request ends | 162k |
| `cov_table` | news are measured from what was told; a clean first evaluation reports; the table keeps its limit; a subscriber of an object at rest ends up knowing it to within the increment | 672k |
| `client_calls` | nobody who waits is lost, and late answers meet nobody; answers cross only after a cycle of ids; every call ends | 245k |
| `client_given_up` | *violation:* a late answer to a request given up reaches nobody else | |
| `segments_transfer` | responses are whole and in order and acks are honest; retries reach the device | 272k |
| `events_alarms` | acknowledgements clear only what they name; only what was told awaits one, and repeats are silent; delays are honoured | 1.22M |
| `objects_locks` | indexes agree with the map; the revision tells; nobody deadlocks | 3.2M |
| `objects_services` | the present value is what commands, override and source add up to; recipients taken are bound; what is listed is there when it is read; targets follow schedules, and schedules calendars; a write of an element changes that element alone unless two writes of the array cross | 638k |
| `objects_writable` | *violation:* every list a client may write arrives whole | |
| `messages_wire` | what is written is read back or can be skipped; what is cut off is refused or whole to its last octet; answers fit the asker; no damaged frame is read; decoders and `validate_frame` judge frames alike, but for those of section 8 | 87k |
| `layers_stations` | one property for each story of section 4, and that whoever was taken in by the receive loop is served | 1.07M |

Every property of a passing run has a mutant in `PROJECT.json`: a plausible bug in one
definition that translates code (an id not advanced, a lock order changed, a guard
dropped), under which TLC finds the property violated. The mutated forms stand before the
definitions they replace; no specification uses them.

Seven configurations say `CHECK_DEADLOCK FALSE`. A client whose calls have all ended, or
whose endpoint has stopped, may rest, and so may the site of `MCObjects` once its clients
have asked what they are allowed (`MaxAsked`), a message once it is received, and the
stories of `MCLayers`, some of which end (a server that was told to stop, a crash). The
threads of a device in the other five never do.

## 4. Bounds

Every bound is a constant of a module or a value in a `.cfg`.

*Transactions.* `transactions_table` has three requests to one peer over two ids, so that
ids run out (a third request while two are held), come round (the third request has the
first's id) and answers arrive for all of them; one retry, one sender. `transactions_fates`
has two senders at once, two peers and ids to spare, timeout 1, and a limit that a client
moves between 0 and 1 under a request that is waiting. Ages stop at the greatest timeout,
beyond which no comparison tells them apart. Three requests over two ids show everything
the table compares (peer, id, order of entry); the proofs have no bound.

*COV.* `cov_table` has two stories (`MCCovStories`), each of which leaves one half of the
environment at rest: an object with values 0 to 2, two flags and increment 2, so that one
move is within the increment and two are not, removed and added again while one subscriber
comes and goes; and two request threads for a table of one place, with lifetimes that lapse
within the clock's range 0 to 1. A value of three levels is the least in which small moves
can add up. The clock stops at `MaxClock`.

*Client.* Three calls, the first and third to one peer with different services, two ids,
one retry: enough for an id to be given up, held back and issued again, for a search to wrap
round the cursor, and for an answer of the wrong service. A timeout of 1 and estimates of 2
with a ceiling of 2 make budgets and backoff differ. `passed` is capped at `Ids`.

*Segments.* A request of three segments with windows of 0 (taken as 1) and 2; responses of
up to five segments with numbers modulo 4 and a limit of three, so that numbers wrap, a
piece can have the number of an earlier one, and a response can be too long. The code has
256 numbers and a limit of 64; the proof needs only that the limit is less than the numbers
and that the device does not run ahead by a whole cycle of numbers.

*Events.* Values 0, 2 and 3 are below the low limit 1, between limits or in the high
deadband, and above the high limit 2; a client can remove the high limit. A binary object has
its alarm at 3, a multi-state one at 0 and 3. Delays of 1 or 2
ticks away and 0 or 1 back; a clock of four ticks lets one transition be told, overtaken by
a second into the same bucket, and acknowledged by either stamp.

*Database.* Two threads, the Device object and one other, two names, and changes that
begin at revisions 1 and 2. Every pair of operations meets at every pair of places, and
both changes of one object and of two. Threads and names are symmetric.

*Objects.* Three sites (`MCObjects`). "points" has one object of every family and role
(input, output, value) with two command slots and one client that asks twice: a
command, and a second that overtakes, relinquishes or is hidden by an override. "classes"
has two clients and three requests on a notification class and an analog value, so that
two element writes, or a write and a list being read, cross. "schedules" has two
schedules, one calendar, a target that takes a write and one that refuses it, two days, two times, and
five calls of clients and host: one at each gap of a tick.

*Wire.* 1673 messages: each request, answer, header and frame there is an encoder
for, with numbers at the boundaries where forms change, every optional field there or not,
each choice, nested brackets with the outer number, and a text long enough for the long
length. Each is cut at every octet, and of a serial frame each octet is changed by eleven
patterns of noise, single bits and bursts (`Noises`). Frames as long as their link allows and
longer by one (up to 1515 octets) arrive whole, the others may not (`MaxTouched`, 400 octets);
sources are 0 to 255, and Ethernet's addresses include groups that begin as the frames of the
other links do. The decoders have no state, so nothing is lost by sending one message at a time.

*Layers.* `MCLayers` tells fifteen stories, one at a time. "routes": two networks with one
MAC address, two devices, two frames and two edits. "server": two tasks at once, three
kinds of datagram. "paths": three networks and links where the short way is not the cheap
one, costs up to a `U16Max` of 4, so that sums reach it and saturate. "segments": messages of no, one and several
segments, too long, and too many for the one buffer. "calls": three calls over two ids, so
that an id comes back. "foreign": a lifetime of 5 and
one tick each to wait for an answer, between heartbeats and under way, exactly what half a
lifetime holds; with one tick more TLC shows the registration lost. "subscribers":
two calls, two packets and one renewal on one object. "addresses": a file of three devices cut
at every place. "tables": two entries, seconds told in ones and twos. "peers": the broadcast
distribution table, of two places for three addresses. "observers":
two subscribers to two objects, for good or for two seconds. "tracked": three requests over
two ids, so that the third takes the first one's. "calendar": the
days of 2000, 2023, 2024 and 2100, leap and not, ends of centuries of both kinds. "host":
three requests over two ids with a queue of one. "handler": two services supported, three asked
for.

## 5. Fairness

Four runs need it. *`EventuallyEnded`* (`ServerTransactions!FairSpec`): time passes;
a poll that can go on goes on and is called again ("Call it often", `src/server/bip.rs`);
a thread inside `send` gets on. Nothing is assumed of replies, of the socket, or of new
requests. *`EventuallyCurrent`* (the specification of `MCCovStories`): the engine's tick goes
on, as its host calls it in a loop. Clients, request threads and the clock may stop.
*`EveryCallEnds`* (`ClientTransactions!FairSpec`): weak fairness of the task's loop head and of
time; strong fairness of its command and deadline arms, for they are enabled only while the
task is in its select, again and again, and `tokio::select!` picks at random among the arms
that are ready. No packet is assumed to arrive. *`EventuallyServed`* (`SiteServer!Fairness`):
weak fairness of receiving, stopping, joining and returning, and of the tasks of each
datagram: tokio runs what is ready, and a `select!` that picks at random does not pass over
a branch that stays ready for ever. Nothing is assumed of datagrams or the stop signal.

## 6. Proofs

All constants are arbitrary: any number of requests, peers, keys, objects, threads,
segments, any values, subject to the `ASSUME`s of the modules (which TLC evaluates in the
runs). They say what the code's types do: `To`, `PeerOf`, `ObjectOf` are functions, limits
and times are naturals, there is at least one id; the set of requests or keys is finite;
`SegmentedTransfer` assumes `MaxSegments < Numbers` (64 and 256 in the code) and that a
device runs ahead by less than a cycle of numbers. The inductive invariants named here
stand in the components' modules or before their theorems; TLC found them to hold on the
runs' instances before they were proved.

**ServerTransactionsProofs.** `TypeCorrect`; `EndsAreFinal` (`EndedForGood`) from
`PlacesInv`: a request is in one of four places (table, answers, poll's hands, told) and no
place has two ends of it. `EndedForGood` alone is not inductive: it says nothing of a request
whose end is still among the answers while a copy of it is in the table.
`EveryRequestAccounted` (`NothingElseForgotten`) from `AccountInv`: unless two holders of one
pair have met, pairs are apart, hence a withdraw and an answer take only their own request,
hence whoever was sent is somewhere. `RequestsEndOnce` (`EachEndsOnce`, the property the run
checks) has both.

`GivesUpAfterRetries` (`RetriesBeforeGivingUp`) from `RetriesInv`: the counter of an entry is
that of the attempts told of it, an attempt stands on the ones before it, and each was
allowed by a limit that held when it was read. The limit changes under a waiting request, so
the property speaks of a limit there was, not of the one there is. `CrossedAfterCycle` (the
action property `CrossedOnlyAfterCycle`) from `SerialsInv`: the cursor gives no number twice
and two calls keep none in common, so an id that is the same belongs to numbers that differ by
a multiple of `IdCount`. `TableImplementsFates` is the refinement: with `PlacesInv`,
`AccountInv` and `LostInv` (an outcome that went with a failed poll is nowhere else) each
step is a step of `RequestFates` or changes no fate. Its hypothesis is that no pair is held
twice (`[](~clash)`), for then a reply ends two requests at once, as the run's instance, with
ids to spare, never lets happen.

**CovReportingProofs.** `TypeCorrect`; `BaselinesAreTold`, inductive with types, as
baselines change only with a report or to nothing; `DecidesByWhatWasTold`, the action
property, from it. `TableWithinLimits` (`WithinLimits`) from `RoomInv`: a subscribe that was
let in counts by a clock that is past, and an older clock counts more as alive; so the room
that it found is still there when it inserts, by the cardinality of the table with one more.
`NewSubscriptionsReport` (`FirstEvaluationReportsIfClean`) from `WalkInv` (a tick looks only
at what it copied) and `FreshInv` (only what was found in the table has a baseline).

**ClientTransactionsProofs.** `TypeCorrect`; `CallsAreHeld` (`CallsInv`, inductive): one
place in the queue or one entry under its own pair for each waiting call, and a quarantine
at least as long as what remains of a timed-out request's budget. From it `NobodyForgotten`
(`WaitersAreHeld`) and `LateAnswersAreDropped` (`LateAnswersMeetNobody`), together `OneOwner`
(`IdsHaveOneOwner`). `CrossedAfterCycle` (`CrossedOnlyAfterCycle`) from `CycleInv`: the cursor
is as far past a call's id as ids were tried since, modulo `Ids`.

**SegmentedTransferProofs.** `TypeCorrect`; `TransferInv`, inductive: what is put together
is a prefix of the response as long as the last number says, and the device never knows of
more pieces than were taken; so a piece with the next number is the next piece, by
arithmetic modulo `Numbers` (which the solver is given in lemmas of its own). From it
`ResponsesAreWhole` and `AcksAreHonest`, together `ResponsesAreReceived`
(`ReceivedInOrder`), and `RetriesReachTheDevice`.

**EventReportingProofs.** `TypeCorrect`; `NoAlarmIsCleared`, `OnlyToldAwait`,
`RepeatsAreSilent` from an invariant that orders stamps (those in the past are at most the
clock, the last one told of a bucket is at most its stamp) and says, for each phase of the
engine, how far the acknowledgement bits have come; `DelaysAreHonoured` (`CommitsWhenHeld`)
from one that relates the pending transition to the unbroken demand for it.
`AcknowledgementsAreSound` (`AcknowledgedOnce`) is `OnlyToldAwait` and `RepeatsAreSilent`.

**ObjectDatabaseProofs.** `PlacesOrdered`: each place of the tables waits for a lock that
comes later, in one order of eight, than all those it has; hence `NoThreadsDeadlock`: among
those who wait for the last lock in that order anyone waits for, a writer, or anyone if there
is no writer, is not blocked, even where a waiting writer blocks new readers.
`PassingAdds`, `FindingAdds` and `WorkAdds` say that a step's next place has at most the lock just
taken in addition; hence `LocksExclude`; hence a name that a removal has read is still the
object's two locks later (`Remembers`), which `IndexesAgree` needs to be inductive:
`ObjectsAgree`. `RevisionsTell` from three facts: nobody has seen a revision still to come,
objects that are not there have no name, and a change is uncounted from the step that makes
it to the one that counts it.

**ObjectServiceProofs.** One inductive invariant, `ServiceInv`, from lemmas on what each
operator of `Objects` makes of an object: shapes and kinds of values stay; commanding,
relinquishing, a reading and an override each leave the present value the one that
commands, override and source add up to; what an object lists it serves; a write of one
property adds no recipient to another. `HighestPriorityRules` (`CommandedValue`) for any
number of priorities; `Reachable` (`RecipientsReachable`), which needs of each thread that
holds a list that its recipients were learnt (`HeldInv`); `NothingMissed`
(`ReadersMissNothing`), which needs that what is left to read of an object nobody wrote can be
read (`ReadsInv`); `ElementsAlone` (`ElementAlone`), where `HeldInv` says that the array a thread
holds is the object's with one element changed, unless the object was written since. Assumed:
there is at least one priority (16 in the code) and the small numbers are no larger than the
large ones; `SitesAssumption`: objects begin as their constructors leave them; `WritesAssumption`: a
payload is a list of values that a decoder can give; `NoneAssumption`: no error is the absence of
one.

**ComponentsProofs.** Each of these is for the component alone (and `RoutedSite` for
the router, the station and the network between them). Filters and folds of sequences are opaque
to the prover, so where the code filters a table the model keeps the entries whose places it
names (`Kept`), and where it searches, joins or adds up the model has a recursive function;
`StepsExist` and `AllNumbers` are the lemmas by which such a function is what its equation says,
and induction over `Nat` is made on the set of numbers for which a fact holds.
*ScheduleEngine:* `TypeCorrect`, `TargetsTold` (`TargetsFollowCalendar`) from `EngineInv`:
between the refresh of the calendars and the end of the tick the answers it goes by are the
calendars' own, and a target nobody else wrote holds its schedule's value or is among those
still to be written. Hypothesis `SchedulesFit`: what is written as a schedule is one.
*ForeignDevice:* `RegistrationLasts` (`StaysRegistered`) from `DeviceInv`: the registration
the device counts from is soon renewed, it or a later one is in the table or under way, and what
is under way arrives while what is in the table lasts. Hypothesis `TimesFit`: waiting for an answer, the
pause between heartbeats and the way of a message fit together into the half of the lifetime that
a renewal leaves. Half of it rounded up: the invariant shows the bound, and TLC that one tick
more loses the registration.
*ClientNotifications:* `NotificationsHeard` (`ListenersHear`), with no assumption, from
`NotificationsInv`: commands are queued in the order of their callers, and the last whose
command was taken has the sink unless it closed.
*SyncClient:* `ReturnsItsOwn` (`AnswersBelong`) from `ClientInv`: every request and answer
carries its number modulo `Ids`. The proof found the property false as it stood, with calls
numbered whether or not they draw an id, and TLC confirmed it with a discovery between two
requests; the model now numbers requests.
*TransportRequests:* `TrackedToTheEnd` (`TrackedForACycle`) from `TrackedInv`: ids come round
in the order of the requests, and an open request is alone with its id. Hypothesis
`IdsAndTimes`: there is an id, and timeouts are naturals.
*RoutedSite:* `AnswersAreTrue` (`RouterIsTruthful`) from `SiteInv`: what is routed
goes to a network that was announced, as a station knows no other (`WireInv`, `RoutesInv`); the
devices the router reaches for a frame are those it was for, and the replies it makes of them say
what is true, or is true no longer only of networks that are gone (`JobInv`); and so does what it
sent (`SentInv`). Edits of the table add to what was true once and take nothing from it.
*TimedTables:* `ServedForTheirTime` (the half of `TimesAreKept` about tables) from `RegistersInv`
(the time until which an entry lasts is the time that is past and what its counter has left),
`PeersInv` and `SubscribersInv`. Hypothesis `TablesAssumption`: times are naturals.
*AddressFile:* `CacheClaimsNoMore` (`NeverClaimsMore`) from `FileInv`: the file is a saved cache
or the beginning of one, whose last line may have been cut anywhere. Hypothesis
`CachesFit`: caches are lists of devices, and `None` is no number and no kind of segmentation.
*ApplicationLayer:* `AnsweredAndReleased` (`AnsweredIsComplete`) from `RequestsInv`, `IdsInv`,
`TransactionsInv` and `MessagesInv`: since a request drew its
ID, those between it and the cursor were in use; of two transactions with one ID only the last may
await an answer and it knows of the other; and what is queued is there once. Hypothesis
`HostAssumption`: there is an ID.
*Reassembly:* `MessagesAreWhole` (`ReassembledWhole`) from `SegmentsInv`: buffers are as their
first segments made them (`BuffersInv`, `BegunInv`), and the buffer of an ID under which one
message was sent has that message's segments, each under its number (`UnmixedInv`). Hypothesis
`ReassemblyAssumption`, on the messages and the sizes.
*PathDiscovery:* `ShortestPaths` (`PathsAreShortest`) from `PathsInv`: what the cache has is a
shortest path of the topology as it is. That a search finds one: costs are those of ways that
exist (`WaysInv`), nodes are visited in the order of their costs (`NearestFirst`,
`VisitedInTurn`), so no way leads to a visited node at less (`NoneIsNearer`); the trace back
(`Led`) goes over the links the search came by. Hypothesis `PathAssumption`, on the costs.
*CalendarRules:* `DaysAreCovered` (`EntriesNameTheirDays`): the date of a day is the one its
number says (`DateIs`, by the lengths of years and of their months), dates are in the order
of days (`OrderIs`), and days are of one month when they are no further apart than its ends
(`SameMonthIs`, `EndsAre`); the rules then are arithmetic on these numbers (`RulesByNumbers`).
Hypothesis `CalendarAssumption`: years from 1900 on, ranges whose ends are days or open.

## 7. What is only model-checked

Liveness (`EventuallyEnded`, `EventuallyCurrent`, `EveryCallEnds`, `EventuallyServed`) needs
fairness and is out of the prover's reach. So is `messages_wire` (`ReadOrSkipped`,
`NothingPassedOver`, `FitsTheAsker`, `FramesAreJudgedAlike`): what walking a layout yields for
every message needs induction over data, and checksums are computed bit by bit, with operators
the prover does not have. Every other invariant and action property of the passing runs is stated
by a theorem, those of `layers_stations` and `TargetsFollowCalendar` by theorems about the
component each is instantiated from.

## 8. Where code and documentation part

Two runs end in a counterexample to what a comment or a test says.

1. `client_given_up`: ids are quarantined so that a late response "arrives when nothing is
   listening" (`src/client/async_client.rs:908-917`); a request whose future was dropped
   frees its id at once, and its answer is given to the next request with that id.
2. `objects_writable`: "Everything a client writes to a list property [...] must arrive
   whole" (`src/server/object_service.rs:961`). A property the table of datatypes does not
   name is decoded as one value, so a write of Alarm_Values of a multi-state object or of
   Priority of a notification class, both called writable, is refused.

Other behaviour met on the way, which the properties take into account where it touches
them. *Device:*

- `Notifier::poll` reports "what has become of every confirmed request since the last poll"
  (`src/server/bip.rs:494`), but returns with `?` on the first resend the socket refuses.
  `due` has removed the answered and given-up requests before, so their outcomes go with the
  error (`lost` in `NothingElseForgotten`).
- "The first evaluation of a new subscription always reports" (`src/cov/mod.rs:239`): a
  cancel and a new subscription between two ticks keep the baseline, and the new
  subscriber is told nothing until the value moves (hence *IfClean*).
- A NaN among the values makes the comparison with an increment false for good
  (`src/cov/mod.rs:395`): a subscriber with that baseline hears nothing more, so
  `EventuallyCurrent` would fail. Its run has numbers.
- Renewing a subscription that has lapsed and was not yet expired is never refused, even
  if its place was given away: the table then holds more than its limit (`overbooked` in
  `WithinLimits`).
- An acknowledgement between the commit of a transition and the lock that marks it as
  awaiting one is accepted and then undone; a repeat of it is announced again, against
  `src/server/object_service.rs:80` (`early` in `AnnouncedOnce` and `OnlyToldAreAwaited`).
- A pending transition is kept, and does not count, while event detection is off: when
  detection comes back the transition may commit at once, against the delay of
  `src/event/mod.rs:7` (`gap` in `CommitsWhenHeld`).
- A transition that is masked by Event_Enable overwrites the stamp of one of its bucket
  that still awaits acknowledgement, which can then no longer be acknowledged by the stamp it
  was told with.
- Proprietary properties attached by a thread that found the object before another removed
  it stay for the next object of that identifier (`src/object/database.rs:331`; `Attach` after
  `Strip` in `ObjectDatabase`).
- `next_instance` answers 1, not 0, once the only object of a type was removed, as the type
  keeps its empty list (`src/object/database.rs:526`).
- Binary and multi-state outputs list Alarm_Value(s), which the standard's table of their
  types lacks.
- When one hosted device fails to answer a broadcast, what those after it would have said
  is not sent either (`VirtualRouter!Fail`).

*Clients:*

- Once all segments of a request are acknowledged nothing is kept to send, and each retry
  only waits (`src/client/async_client.rs:1526`); a gap in a response restarts retries and
  deadline with no progress made (`async_client.rs:1464`).
- A second subscription to an object takes the first one's channel, even if it then fails or
  is cancelled; `recv` of the first then returns `None` while the endpoint runs.
- A `who_is` whose command was in the queue when the endpoint ended returns an empty list
  and no error (`async_client.rs:336`).
- The blocking client takes the first segment of a segmented ComplexAck for the whole.
- In the file of addresses a line with a malformed source MAC is not skipped: it loads as a device
  without a route.

*Layers:*

- `find_path` ignores where a cached path began (`PathsAreShortest` says for whom it holds);
  `route_message` takes a hop before it looks whether the network is busy; I-Am-Router
  messages leave the routing table as it was; `routing_errors` is never counted.
- `process_segment` leaves the buffer of a message that grew too long. A `TransactionManager`
  completes the first transaction with the id; the priority queue hands out the newest
  first within a priority.
- This crate's BBMD never answers a registration and never reads its tables. An entry with
  lifetime 0 stays until the next `update_times`.
- `CovSubscriptionManager` keys a subscription by subscriber and object: one to another
  property of the object takes its place (`src/service/mod.rs:2017`).
- Year 2155 encodes as "any year" under a context tag (`src/property/complex.rs:799`).
  AtomicReadFile and AtomicWriteFile write a tag that says one octet and carry four
  (`src/service/mod.rs:2150`), so `CanBeSkipped` leaves them out. `EthernetFrame::decode` is to
  "strip any padding" (`src/datalink/ethernet.rs:392`) and does not.
- `validate_frame` and the decoders part (`OnlyDecoded` in `FramesAreJudgedAlike`). The decoders
  read, and it calls invalid: an MS/TP frame from source 255 (`src/datalink/validation.rs:272`)
  or with more than 501 octets of data (`:293`), which `MstpFrame::new` refuses to make and
  `MstpFrame::decode` takes; a BACnet/IP frame of more than 1497 octets (`:118`), which the socket
  sends, and takes up to 1500 octets; an Ethernet frame of more than 1514 (`:167`). It tells
  links by the first octets, MS/TP and BACnet/IP before Ethernet (`:365`): an Ethernet frame to a
  group whose address begins with 55 FF or 81 is judged as one of those, and may even be a valid
  one, as to 81 0A 00 3C .. .. in 60 octets. The other way round, a BACnet/IP frame with no NPDU or of
  function 0D, and an MS/TP frame of a proprietary type, are valid to it and no decoder reads them;
  no encoder makes them, but for the first, and they are not among the run's messages.

## 9. What is not modelled

Two components are `not_modelled`: tables of constants, and utilities without state.
Of the others, what `PROJECT.json` calls *partly* leaves out:

- contents that no property is about: priorities, texts, values of properties other than
  those named; the host's own code, which is a nondeterministic environment; operating
  system sockets, which lose, repeat and reorder;
- what an announcement of an acknowledgement says;
- File objects' records (`src/object/file.rs`), which no service of this server reaches;
- the MS/TP token machine, a skeleton in the code; `BvllMessage` of `transport/mod.rs`, a
  second reading of the BVLC header; reserved values that header decoders map to others;
- code that nothing in the crate calls and that keeps little state: BroadcastManager,
  NetworkLayerHandler, the security manager, diagnostics, streams and statistics;
- revision and time are natural numbers: the code's `u32` revision wraps after four billion
  changes. Locks that are poisoned by a panic are not modelled: each `unwrap` on them would
  end the caller.

Two hazards in `PROJECT.json` have no property and say why in their notes.

## 10. Plan

All components are modelled as far as section 9 says, and what section 7 does not name is proved.
What remains is of two kinds. A change to a file that `PROJECT.json` maps calls for the definitions
mapped to its lines to be read again; the runs tell within minutes whether the properties still
hold, and the proofs which step does not. And what is left out is worth taking up when the crate
takes it up: the MS/TP token machine, records of File objects, and the segmentation and security
of `app/mod.rs` and `network/mod.rs` that nothing calls yet.
