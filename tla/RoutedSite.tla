------------------------------ MODULE RoutedSite ------------------------------
(***************************************************************************)
(* A station that finds its routes through a virtual router: Routing and   *)
(* VirtualRouter, and the network between them, which loses, repeats and   *)
(* reorders frames.  The station asks who routes, believes what it is told *)
(* for as long as it is not told otherwise, and sends its requests where   *)
(* `route_message` says.  Others broadcast to the site, through a BBMD too.*)
(***************************************************************************)
EXTENDS VirtualRouter, SequencesExt

CONSTANTS
  LocalNetwork,  \* the network the station is on
  Requests,      \* what is sent to devices: destination, hops and the request itself
  Broadcasts,    \* frames others send to the site
  Station,       \* where the station can be reached
  MaxFrames,     \* bounds what is sent or tried
  MaxEdits       \* bounds the host's edits of the table

VARIABLES
  routers, busy, metrics,  \* of the station's Routing
  wire,                    \* the frames on their way to the site
  frames, edits            \* how many there have been (they bound the run)

R == INSTANCE Routing

station == <<routers, busy, metrics>>
all == <<vars, station, wire, frames, edits>>

\* A request says where to, and only the station sends what was routed.
ASSUME SiteAssumption ==
  /\ \A message \in Requests : {"destination", "hops", "request"} \subseteq DOMAIN message
  /\ \A frame \in Broadcasts : frame.routed = FALSE

\* The host has furnished its table before it serves.
SiteInit ==
  /\ networks \subseteq Networks
  /\ \E furnished \in SUBSET {a \in Addresses : a.network \in networks} :
       devices \in [furnished -> Devices]
  /\ job = Idle /\ sent = {} /\ gone = {}
  /\ R!Init /\ wire = {} /\ frames = 0 /\ edits = 0

Counted == frames < MaxFrames /\ frames' = frames + 1 /\ UNCHANGED edits
Puts(frame) == Counted /\ wire' = wire \cup {frame}

\* What the station sends: a network message of its own, or a request it has a route for.
AskRouters(network) ==
  /\ Puts([function |-> "unicast", origin |-> None, sender |-> Station, readable |-> TRUE,
           network_message |-> TRUE, destination |-> None, routed |-> FALSE,
           request |-> [type |-> "WhoIsRouter", asks |-> network, source |-> None]])
  /\ UNCHANGED <<vars, station>>

Frame(message) ==
  [function |-> "unicast", origin |-> None, sender |-> Station, readable |-> TRUE,
   network_message |-> FALSE, destination |-> message.destination, routed |-> TRUE,
   request |-> message.request]

Ask(message) ==
  /\ Counted
  /\ R!RouteMessage(message)
  /\ wire' = IF R!Verdict(message) = "routed" THEN wire \cup {Frame(R!Routed(message))} ELSE wire
  /\ UNCHANGED vars

Hear(reply) ==
  /\ reply.to = Station
  /\ IF reply.type = "IAmRouter" THEN R!AddRouter(reply.networks, Site)
     ELSE R!ProcessNetworkMessage([type |-> reply.type, network |-> None])
  /\ UNCHANGED <<vars, wire, frames, edits>>

\* Somebody on the station's network asks it for routes; what it answers, all hear.
Asked(message) ==
  /\ Counted
  /\ R!ProcessNetworkMessage(message)
  /\ wire' = wire \cup
       {[function |-> "broadcast", origin |-> None, sender |-> Station, readable |-> TRUE,
         network_message |-> TRUE, destination |-> None, routed |-> FALSE,
         request |-> [type |-> answer.type, asks |-> None, source |-> None]] :
          answer \in ToSet(R!NetworkAnswer(message))}
  /\ UNCHANGED vars

\* Another router on the station's network is congested for a while, or the station gives
\* the site up.
HearBusy(network, is) ==
  /\ (network \in busy) # is
  /\ R!ProcessNetworkMessage([type |-> IF is THEN "RouterBusy" ELSE "RouterAvailable",
                              network |-> network])
  /\ UNCHANGED <<vars, wire, frames, edits>>

Forget ==
  /\ R!RemoveRouter(Site)
  /\ UNCHANGED <<vars, wire, frames, edits>>

Reset ==
  /\ metrics # R!NoMetrics /\ R!ResetMetrics
  /\ UNCHANGED <<vars, wire, frames, edits>>

Broadcast(frame) == Puts(frame) /\ UNCHANGED <<vars, station>>

\* A frame arrives, once or more often, or never.
Arrive(frame) == Receive(frame) /\ UNCHANGED <<station, wire, frames, edits>>
Vanish(frame) == wire' = wire \ {frame} /\ UNCHANGED <<vars, station, frames, edits>>

Talk ==
  \/ \E network \in Networks \cup {None} : AskRouters(network)
  \/ \E message \in Requests : Ask(message)
  \/ \E reply \in sent : Hear(reply)
  \/ \E network \in Networks, is \in BOOLEAN : HearBusy(network, is)
  \/ \E network \in Networks \cup {None} : Asked([type |-> "WhoIsRouter", asks |-> network])
  \/ Asked([type |-> "WhatIsNetworkNumber", asks |-> None])
  \/ Forget \/ Reset
  \/ \E frame \in Broadcasts : Broadcast(frame)

SiteNext ==
  \/ Talk
  \/ \E frame \in wire : Arrive(frame) \/ Vanish(frame)
  \/ Serve /\ UNCHANGED <<station, wire, frames, edits>>
  \/ Edit /\ edits < MaxEdits /\ edits' = edits + 1 /\ UNCHANGED <<station, wire, frames>>

SiteSpec == SiteInit /\ [][SiteNext]_all

-----------------------------------------------------------------------------
\* A station that sends only where a router announced the network is told that the network
\* is unknown only if the host has removed it since it first was there: not by an answer to
\* another question, a stale one, or a network that is announced and not routed.
RejectedOnlyWhenGone ==
  \A reply \in sent :
    reply.type = "RejectMessage" /\ reply.frame.routed => reply.networks \subseteq gone

\* Whoever sends through the router is told the truth, by devices and by the router itself.
RouterIsTruthful == AnsweredByTheAsked /\ RejectedOnlyWhenGone

=============================================================================
