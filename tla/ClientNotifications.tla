-------------------------- MODULE ClientNotifications --------------------------
(***************************************************************************)
(* Subscriptions and discoveries of the asynchronous client:               *)
(* `AsyncBacnetClient`, `CovSubscription` and the part of `Endpoint` they  *)
(* meet, of `src/client/async_client.rs`.  Callers put commands in the     *)
(* endpoint's queue and hold the reading ends of channels; the endpoint    *)
(* holds the sinks, one to an object and one to a discovery, and learns of *)
(* a caller that is gone when it next tidies up, which it does before it   *)
(* waits for the next thing: here, at the end of every step.  What becomes *)
(* of the requests themselves is ClientTransactions' matter: here they are *)
(* answered, refused or given up whenever they like.                       *)
(***************************************************************************)
EXTENDS Naturals, Sequences, FiniteSets, Functions

CONSTANTS
  None,
  Objects,           \* CovKey: a device and one of its objects
  Packets,           \* what the network may bring, any of it at any time and again
  MaxCommands,       \* COMMAND_QUEUE_CAPACITY
  MaxCalls,          \* bounds the subscriptions, discoveries and questions about peers
  MaxPackets,        \* bounds the packets taken
  MaxRenewals        \* bounds the renewals

VARIABLES
  running,        \* Endpoint.run goes on
  commands,       \* Endpoint.commands
  pending,        \* the requests of subscriptions that are out (part of Endpoint.pending)
  subscribers,    \* Endpoint.cov_subscribers: whose channel an object's notifications enter
  subscriptions,  \* the calls of subscribe_cov, and what they return
  searches,       \* the calls of who_is, who_is_router and peer_health, and what they got
  windows,        \* device_discoveries and router_discoveries, by deadline
  packets,        \* how many were taken
  renewals,       \* how many there were
  taken           \* the last notification taken, what was answered, who was to hear (history)

callers == <<subscriptions, searches>>
vars == <<running, commands, pending, subscribers, callers, windows, packets, renewals, taken>>

Init ==
  /\ running = TRUE /\ commands = <<>> /\ pending = {} /\ subscribers = <<>>
  /\ subscriptions = <<>> /\ searches = <<>> /\ windows = <<>>
  /\ packets = 0 /\ renewals = 0 /\ taken = None

Ids == DOMAIN subscriptions
Phase(s) == subscriptions[s].phase

\* The caller still has the receiver of the channel.
Open(s) == Phase(s) # "closed"

\* A request is the caller's and its number; the caller waits for its last, or for none.
LastRequest(s) == <<s, subscriptions[s].requests>>
Waiting(s) == Phase(s) \in {"asking", "renewing", "leaving"}
Awaited(request) == Waiting(request[1]) /\ LastRequest(request[1]) = request

Command(kind, by) == [kind |-> kind, by |-> by]
\* A caller waits for room in the queue, and gets nothing of an endpoint that is gone.
Sends(command) ==
  running /\ Len(commands) < MaxCommands /\ commands' = Append(commands, command)

-----------------------------------------------------------------------------
(* The callers *)

\* subscribe_cov, up to where it waits
Subscribe(object) ==
  /\ Len(subscriptions) + Len(searches) < MaxCalls
  /\ Sends(Command("SubscribeCov", <<Len(subscriptions) + 1, 1>>))
  /\ subscriptions' =
       Append(subscriptions, [object |-> object, phase |-> "asking", requests |-> 1,
                              reply |-> None, inbox |-> <<>>, read |-> 0, silent |-> FALSE])
  /\ UNCHANGED <<running, pending, subscribers, searches, windows, packets, renewals, taken>>

\* send_confirmed_request
SendsRequest(s, phase) ==
  /\ Sends(Command("Confirmed", <<s, subscriptions[s].requests + 1>>))
  /\ subscriptions' = [subscriptions EXCEPT ![s].phase = phase, ![s].requests = @ + 1]

\* CovSubscription.renew, a plain confirmed request
Renew(s) ==
  /\ Phase(s) = "live" /\ renewals < MaxRenewals
  /\ SendsRequest(s, "renewing")
  /\ renewals' = renewals + 1
  /\ UNCHANGED <<running, pending, subscribers, searches, windows, packets, taken>>

\* CovSubscription.unsubscribe, another; it takes the subscription with it
Unsubscribe(s) ==
  /\ Phase(s) = "live"
  /\ SendsRequest(s, "leaving")
  /\ UNCHANGED <<running, pending, subscribers, searches, windows, packets, renewals, taken>>

\* What the caller is left with: a subscription outlives its renewals, refused ones too.
After(phase, reply) ==
  IF phase = "renewing" \/ (phase = "asking" /\ reply = "acknowledged") THEN "live" ELSE "closed"

Return(s) ==
  /\ Waiting(s) /\ subscriptions[s].reply # None
  /\ subscriptions' = [subscriptions EXCEPT
       ![s].phase = After(@, subscriptions[s].reply), ![s].reply = None]
  /\ UNCHANGED <<running, commands, pending, subscribers, searches, windows, packets, renewals,
                 taken>>

\* The caller drops the call it waits in, or the subscription.
Drop(s) ==
  /\ Open(s)
  /\ subscriptions' = [subscriptions EXCEPT
       ![s].phase = IF @ = "renewing" THEN "live" ELSE "closed", ![s].reply = None]
  /\ UNCHANGED <<running, commands, pending, subscribers, searches, windows, packets, renewals,
                 taken>>

\* Some sink leads to the channel, in the table or in the queue.
Fed(s) ==
  \/ s \in Range(subscribers)
  \/ Command("SubscribeCov", <<s, 1>>) \in Range(commands)

\* CovSubscription.recv: None at the end of a channel that nothing feeds, now and later.
Recv(s) ==
  /\ Phase(s) = "live"
  /\ \/ /\ subscriptions[s].read < Len(subscriptions[s].inbox)
        /\ subscriptions' = [subscriptions EXCEPT ![s].read = @ + 1]
     \/ /\ subscriptions[s].read = Len(subscriptions[s].inbox) /\ ~Fed(s)
        /\ subscriptions' = [subscriptions EXCEPT ![s].silent = TRUE]
  /\ UNCHANGED <<running, commands, pending, subscribers, searches, windows, packets, renewals,
                 taken>>

\* who_is, who_is_to and who_is_network ("IAm"), who_is_router and who_is_router_to
\* ("IAmRouter"), and peer_health ("Health")
Search(wants) ==
  /\ Len(subscriptions) + Len(searches) < MaxCalls
  /\ Sends(Command(IF wants = "Health" THEN "PeerHealth" ELSE "Discover", Len(searches) + 1))
  /\ searches' = Append(searches, [wants |-> wants, found |-> {}, outcome |-> None])
  /\ UNCHANGED <<running, pending, subscribers, subscriptions, windows, packets, renewals, taken>>

DropSearch(d) ==
  /\ searches[d].outcome = None
  /\ searches' = [searches EXCEPT ![d].outcome = "dropped"]
  /\ UNCHANGED <<running, commands, pending, subscribers, subscriptions, windows, packets,
                 renewals, taken>>

-----------------------------------------------------------------------------
(* The endpoint: one thing at a time, and then remove_cancelled *)

Closed(d) == searches[d].outcome # None

Unclosed(open) == SelectSeq(open, LAMBDA d : ~Closed(d))

\* remove_cancelled
RemoveCancelled(table, requests, open) ==
  /\ subscribers' = Restrict(table, {o \in DOMAIN table : Open(table[o])})
  /\ pending' = {request \in requests : Awaited(request)}
  /\ windows' = Unclosed(open)

\* A request's fate reaches the caller who still waits for it.
Replied(request, reply) ==
  IF Awaited(request) THEN [subscriptions EXCEPT ![request[1]].reply = reply] ELSE subscriptions

\* handle_confirmed_command: nothing is sent for a caller who is gone; else it goes out, or
\* there is no invoke ID, it does not fit, or it cannot be sent.
Requested(request, table) ==
  \/ /\ Awaited(request)
     /\ RemoveCancelled(table, pending \cup {request}, windows)
     /\ UNCHANGED subscriptions
  \/ /\ Awaited(request)
     /\ subscriptions' = Replied(request, "refused")
     /\ RemoveCancelled(table, pending, windows)
  \/ /\ ~Awaited(request)
     /\ RemoveCancelled(table, pending, windows)
     /\ UNCHANGED subscriptions

\* start_discovery: nothing is sent for a caller who is gone.
Opened(d) ==
  \/ /\ ~Closed(d)
     /\ RemoveCancelled(subscribers, pending, Append(windows, d))
     /\ UNCHANGED searches
  \/ /\ ~Closed(d)
     /\ searches' = [searches EXCEPT ![d].outcome = "failed"]
     /\ RemoveCancelled(subscribers, pending, windows)
  \/ /\ Closed(d)
     /\ RemoveCancelled(subscribers, pending, windows)
     /\ UNCHANGED searches

\* What is known of the peers goes to the caller who waits for it.
Told(d) ==
  /\ searches' = [searches EXCEPT ![d].outcome = IF @ = None THEN "found" ELSE @]
  /\ RemoveCancelled(subscribers, pending, windows)

\* A mutant of the next: who asked first keeps the object.
BindOnce(object, s) == [o \in DOMAIN subscribers \cup {object} |->
  IF o \in DOMAIN subscribers THEN subscribers[o] ELSE s]
Bind(object, s) == [o \in DOMAIN subscribers \cup {object} |-> IF o = object THEN s
                                                              ELSE subscribers[o]]

\* handle_command: a subscription has its channel in the table before its request goes out.
HandleCommand ==
  /\ running /\ commands # <<>>
  /\ LET command == Head(commands) IN
     \/ /\ command.kind = "SubscribeCov"
        /\ Requested(command.by, Bind(subscriptions[command.by[1]].object, command.by[1]))
        /\ UNCHANGED searches
     \/ /\ command.kind = "Confirmed"
        /\ Requested(command.by, subscribers)
        /\ UNCHANGED searches
     \/ command.kind = "Discover" /\ Opened(command.by) /\ UNCHANGED subscriptions
     \/ command.kind = "PeerHealth" /\ Told(command.by) /\ UNCHANGED subscriptions
  /\ commands' = Tail(commands)
  /\ UNCHANGED <<running, packets, renewals, taken>>

\* A request is answered, refused, or given up.
Settle(request, reply) ==
  /\ running /\ request \in pending
  /\ subscriptions' = Replied(request, reply)
  /\ RemoveCancelled(subscribers, pending \ {request}, windows)
  /\ UNCHANGED <<running, commands, searches, packets, renewals, taken>>

\* handle_timeouts: the window that was opened first is over.
WindowCloses ==
  /\ running /\ windows # <<>>
  /\ searches' = [searches EXCEPT ![Head(windows)].outcome = IF @ = None THEN "found" ELSE @]
  /\ RemoveCancelled(subscribers, pending, Tail(windows))
  /\ UNCHANGED <<running, commands, subscriptions, packets, renewals, taken>>

Takes(packet) == running /\ packets < MaxPackets /\ packets' = packets + 1

\* discover_devices keeps the first of an instance, who_is_router_to all networks of a router.
Collected(found, packet) ==
  IF packet.kind = "IAm"
  THEN IF \E one \in found : one.device = packet.device THEN found
       ELSE found \cup {[device |-> packet.device, from |-> packet.from]}
  ELSE LET before == {one \in found : one.from = packet.from} IN
       (found \ before) \cup
         {[from |-> packet.from, networks |-> packet.networks \cup
                                              UNION {one.networks : one \in before}]}

\* handle_packet, an I-Am or an I-Am-Router-To-Network: every open window for it hears it.
HearAnnouncement(packet) ==
  /\ Takes(packet) /\ packet.kind \in {"IAm", "IAmRouter"}
  /\ searches' = [d \in DOMAIN searches |->
       IF d \in Range(windows) /\ searches[d].wants = packet.kind /\ ~Closed(d)
       THEN [searches[d] EXCEPT !.found = Collected(@, packet)] ELSE searches[d]]
  /\ RemoveCancelled(subscribers, pending, windows)
  /\ UNCHANGED <<running, commands, subscriptions, renewals, taken>>

\* dispatch_cov_notification: by what it is about, not by the number it echoes.
Dispatched(packet) ==
  IF packet.about \in DOMAIN subscribers /\ Open(subscribers[packet.about])
  THEN [subscriptions EXCEPT ![subscribers[packet.about]].inbox = Append(@, packet)]
  ELSE subscriptions

\* handle_confirmed_cov_notification
Answer(packet) ==
  CASE ~packet.confirmed -> None
    [] packet.confirmed /\ packet.form = "Segment" -> "abort"
    [] packet.confirmed /\ packet.form = "Garbled" -> "reject"
    [] packet.confirmed /\ packet.form = "Whole" -> "ack"

\* The last to have asked for the object, if its caller still listens.
Listener(object) ==
  LET asked == {s \in Ids : /\ subscriptions[s].object = object
                            /\ Command("SubscribeCov", <<s, 1>>) \notin Range(commands)} IN
  IF asked = {} THEN None
  ELSE LET last == CHOOSE s \in asked : \A other \in asked : other <= s IN
       IF Open(last) THEN last ELSE None

\* handle_packet, a notification of a change of value
HearNotification(packet) ==
  /\ Takes(packet) /\ packet.kind = "Notification"
  /\ subscriptions' = IF packet.form = "Whole" THEN Dispatched(packet) ELSE subscriptions
  /\ taken' = [packet |-> packet, answer |-> Answer(packet), listener |-> Listener(packet.about)]
  /\ RemoveCancelled(subscribers, pending, windows)
  /\ UNCHANGED <<running, commands, searches, renewals>>

\* The socket fails, or the last handle on the client is gone: fail_all tells those whose
\* requests and windows are out. The commands that were not handled go with the endpoint: their
\* callers see a channel closed, which ends a request with an error, and a discovery as if its
\* window were over.
EndpointEnds ==
  /\ running /\ running' = FALSE
  /\ subscriptions' = [s \in Ids |->
       IF Waiting(s) /\ subscriptions[s].reply = None
       THEN [subscriptions[s] EXCEPT !.reply = "closed"] ELSE subscriptions[s]]
  /\ searches' = [d \in DOMAIN searches |->
       IF Closed(d) THEN searches[d]
       ELSE [searches[d] EXCEPT
               !.outcome = IF Command("Discover", d) \in Range(commands) THEN "found" ELSE "failed"]]
  /\ commands' = <<>> /\ pending' = {} /\ subscribers' = <<>> /\ windows' = <<>>
  /\ UNCHANGED <<packets, renewals, taken>>

Next ==
  \/ \E object \in Objects : Subscribe(object)
  \/ \E s \in Ids : Renew(s) \/ Unsubscribe(s) \/ Return(s) \/ Drop(s) \/ Recv(s)
  \/ \E wants \in {"IAm", "IAmRouter", "Health"} : Search(wants)
  \/ \E d \in DOMAIN searches : DropSearch(d)
  \/ HandleCommand
  \/ \E request \in pending, reply \in {"acknowledged", "refused"} : Settle(request, reply)
  \/ WindowCloses
  \/ \E packet \in Packets : HearAnnouncement(packet) \/ HearNotification(packet)
  \/ EndpointEnds

Spec == Init /\ [][Next]_vars

-----------------------------------------------------------------------------
\* A notification that the client takes for its own enters the channel of the last who asked for
\* its object, for as long as that caller listens: whatever becomes of its renewals, of other
\* callers, and of the requests in between, what a device was told has arrived has arrived.
ListenersHear ==
  taken # None /\ taken.listener # None /\ taken.packet.form = "Whole" =>
    LET inbox == subscriptions[taken.listener].inbox IN
    inbox # <<>> /\ inbox[Len(inbox)] = taken.packet

=============================================================================
