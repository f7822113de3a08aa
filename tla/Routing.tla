------------------------------- MODULE Routing -------------------------------
(***************************************************************************)
(* The routes a station knows: `RoutingTable` and `RouterManager` of       *)
(* `src/network/mod.rs`, and the parts the application plays, which        *)
(* hands it the messages that arrive and asks it where to send.            *)
(***************************************************************************)
EXTENDS Naturals, Sequences, FiniteSets

CONSTANTS
  None,
  LocalNetwork  \* the network the station is on

VARIABLES
  routers,   \* RoutingTable.entries
  busy,      \* busy_networks
  metrics    \* performance_metrics

vars == <<routers, busy, metrics>>

NoMetrics == [routed |-> 0, exceeded |-> 0, unreachable |-> 0]

Init == routers = <<>> /\ busy = {} /\ metrics = NoMetrics

-----------------------------------------------------------------------------
\* What is left of a table when only the entries at some places are retained.
Kept(table, places) ==
  [n \in 1..Cardinality(places) |->
     table[CHOOSE i \in places : Cardinality({j \in places : j < i}) = n - 1]]

\* RoutingTable
Without(address) == Kept(routers, {i \in DOMAIN routers : routers[i].address # address})

AddRouter(networks, address) ==
  /\ routers' = Append(Without(address), [networks |-> networks, address |-> address])
  /\ UNCHANGED <<busy, metrics>>

RemoveRouter(address) ==
  /\ routers' = Without(address)
  /\ UNCHANGED <<busy, metrics>>

\* find_route: the first of the entries that has the network.
FindRoute(network) ==
  LET having == {i \in DOMAIN routers : network \in routers[i].networks} IN
  IF having = {} THEN None ELSE routers[CHOOSE i \in having : \A j \in having : i <= j].address

-----------------------------------------------------------------------------
\* RouterManager
SetNetworkBusy(network, is) ==
  /\ busy' = IF is THEN busy \cup {network} ELSE busy \ {network}
  /\ UNCHANGED <<routers, metrics>>

ResetMetrics == metrics' = NoMetrics /\ UNCHANGED <<routers, busy>>

Counts(what) == metrics' = [metrics EXCEPT ![what] = @ + 1] /\ UNCHANGED <<routers, busy>>

\* What route_message makes of a message: Ok(None) is local delivery, Ok(Some) a router.
Local(message) ==
  message.destination = None \/ message.destination.network \in {LocalNetwork, 0}

Verdict(message) ==
  CASE Local(message) -> "local"
    [] ~Local(message) /\ message.hops = 0 -> "hop count exceeded"
    [] ~Local(message) /\ message.hops # 0 /\ message.destination.network \in busy -> "busy"
    [] OTHER -> IF FindRoute(message.destination.network) = None THEN "unreachable" ELSE "routed"

\* The hop is taken off before it is known whether the message can go anywhere; a message
\* with no hop count at all has none to lose.
HopTaken(message) ==
  IF message.hops = None THEN message ELSE [message EXCEPT !.hops = @ - 1]

\* The message as route_message leaves it.
Routed(message) ==
  IF Verdict(message) \in {"local", "hop count exceeded"} THEN message ELSE HopTaken(message)

RouteMessage(message) ==
  CASE Verdict(message) = "routed" -> Counts("routed")
    [] Verdict(message) = "hop count exceeded" -> Counts("exceeded")
    [] Verdict(message) = "unreachable" -> Counts("unreachable")
    [] OTHER -> UNCHANGED vars

\* process_network_message: what is answered, and what is learned. An I-Am-Router names no
\* router without the source of its NPDU, and is left to the application.
ProcessNetworkMessage(message) ==
  CASE message.type = "RouterBusy" -> SetNetworkBusy(message.network, TRUE)
    [] message.type = "RouterAvailable" -> SetNetworkBusy(message.network, FALSE)
    [] OTHER -> UNCHANGED vars

NetworkAnswer(message) ==
  CASE message.type = "WhoIsRouter" /\ message.asks # None /\ FindRoute(message.asks) # None
         -> <<[type |-> "IAmRouter", networks |-> {message.asks}]>>
    [] message.type = "WhatIsNetworkNumber"
         -> <<[type |-> "NetworkNumberIs", networks |-> {LocalNetwork}]>>
    [] OTHER -> <<>>

=============================================================================
