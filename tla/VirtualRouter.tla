---------------------------- MODULE VirtualRouter ----------------------------
(***************************************************************************)
(* A router to virtual networks of hosted devices: `src/server/            *)
(* router.rs`.  `RouterDevices` is a table of networks and of the devices  *)
(* on them, edited by the host while `serve_once` answers one frame after  *)
(* another: the devices a frame reaches are looked up under the lock, and  *)
(* answer one by one when it has been let go.                              *)
(***************************************************************************)
EXTENDS Naturals, Sequences, FiniteSets

CONSTANTS
  None,
  Networks,   \* network numbers the host may route, among all that are asked for
  Macs,       \* MAC addresses, as numbers
  Devices,    \* hosted devices
  Site        \* the router's own address

GLOBAL_BROADCAST == 65535

Dispatcher == INSTANCE Dispatcher

\* The address of a device; the MAC None addresses its whole network.
Address(network, mac) == [network |-> network, mac |-> mac]
Addresses == {Address(n, m) : n \in Networks, m \in Macs}

VARIABLES
  networks,  \* Routes.networks
  devices,   \* Routes.devices, a function of the addresses in use
  job,       \* what serve_once is doing
  sent,      \* the frames the router has sent
  gone       \* the networks that were removed at some time (history)

vars == <<networks, devices, job, sent, gone>>

Idle == [at |-> "idle", frame |-> None, reached |-> {}, replies |-> <<>>, alone |-> FALSE]

Init ==
  /\ networks = {} /\ devices = [a \in {} |-> None]
  /\ job = Idle /\ sent = {} /\ gone = {}

-----------------------------------------------------------------------------
\* The host. Networks 0 and 65535 are refused, and so is a device without a MAC or on a
\* network that is not there: Networks and Addresses hold none of the former.
AddNetwork(network) ==
  /\ networks' = networks \cup {network}
  /\ UNCHANGED <<devices, job, sent, gone>>

Kept(addresses) == [a \in DOMAIN devices \cap addresses |-> devices[a]]

RemoveNetwork(network) ==
  /\ network \in networks
  /\ networks' = networks \ {network}
  /\ devices' = Kept({a \in Addresses : a.network # network})
  /\ gone' = gone \cup {network}
  /\ UNCHANGED <<job, sent>>

InsertDevice(address, device) ==
  /\ address.network \in networks
  /\ devices' = [a \in DOMAIN devices \cup {address} |->
                   IF a = address THEN device ELSE devices[a]]
  /\ UNCHANGED <<networks, job, sent, gone>>

RemoveDevice(address) ==
  /\ address \in DOMAIN devices
  /\ devices' = Kept(Addresses \ {address})
  /\ UNCHANGED <<networks, job, sent, gone>>

-----------------------------------------------------------------------------
\* The table is in the order of its addresses.
Before(a, b) == a.network < b.network \/ (a.network = b.network /\ a.mac < b.mac)

\* A mutant of the next: a broadcast to a network goes on into the networks after it.
OnNetworkOrAfter(address, destination) == address.network >= destination.network
OnNetwork(address, destination) == address.network = destination.network

\* reached_by
ReachedBy(destination) ==
  CASE destination.network = GLOBAL_BROADCAST -> DOMAIN devices
    [] destination.network # GLOBAL_BROADCAST /\ destination.mac = None
         -> {a \in DOMAIN devices : OnNetwork(a, destination)}
    [] OTHER -> DOMAIN devices \cap {destination}

ReplyTo(frame) == IF frame.origin # None THEN frame.origin ELSE frame.sender

\* What the router itself says, with no device behind it: from network, to asker.
NetworkFrame(frame, type, told) ==
  [type |-> type, networks |-> told, to |-> ReplyTo(frame), destination |-> frame.request.source,
   source |-> None, frame |-> frame, device |-> None]

Announced(asked) == IF asked = None THEN networks ELSE networks \cap {asked}

\* network_message: Who-Is-Router-To-Network is the only one answered, with the networks
\* there are or the one that was asked for.
NetworkMessage(frame) ==
  IF frame.request.type # "WhoIsRouter" \/ Announced(frame.request.asks) = {} THEN <<>>
  ELSE <<NetworkFrame(frame, "IAmRouter", Announced(frame.request.asks))>>

UnknownNetwork(frame) ==
  /\ frame.destination.network # GLOBAL_BROADCAST
  /\ frame.destination.network \notin networks

Rejection(frame) ==
  IF frame.function = "unicast"
  THEN <<NetworkFrame(frame, "RejectMessage", {frame.destination.network})>>
  ELSE <<>>

Serves(frame, at, reached, replies) ==
  job' = [at |-> at, frame |-> frame, reached |-> reached, replies |-> replies,
          alone |-> Cardinality(reached) = 1 /\ frame.destination.mac # None]

Sends(frame, replies) ==
  job' = [Idle EXCEPT !.at = "sending", !.frame = frame, !.replies = replies]

\* route, up to where the lock on the table is let go.
Receive(frame) ==
  /\ job.at = "idle"
  /\ CASE ~frame.readable \/ (~frame.network_message /\ frame.destination = None) -> UNCHANGED job
       [] frame.readable /\ frame.network_message -> Sends(frame, NetworkMessage(frame))
       [] OTHER ->
            IF UnknownNetwork(frame) THEN Sends(frame, Rejection(frame))
            ELSE Serves(frame, "serving",
                        {[address |-> a, device |-> devices[a]] : a \in ReachedBy(frame.destination)},
                        <<>>)
  /\ UNCHANGED <<networks, devices, sent, gone>>

\* A frame no APDU can be read from is handed to a device only when that device alone was
\* addressed, so that a broadcast is not answered with a refusal from everybody.
Handed == job.frame.request.type = "Garbled" => job.alone

Said(by, apdu) ==
  [type |-> apdu.type, networks |-> {}, to |-> ReplyTo(job.frame),
   destination |-> job.frame.request.source, source |-> by.address,
   frame |-> job.frame, device |-> by.device]

\* The next of the devices reached answers, or not.
IsNext(reached) == \A other \in job.reached \ {reached} : Before(reached.address, other.address)

AnswerNext ==
  /\ job.at = "serving"
  /\ \E next \in job.reached :
       LET answer == IF Handed THEN Dispatcher!Answer(next.device, job.frame.request) ELSE <<>> IN
       /\ IsNext(next)
       /\ job' = [job EXCEPT !.reached = @ \ {next},
                             !.replies = @ \o [i \in DOMAIN answer |-> Said(next, answer[i])]]
  /\ UNCHANGED <<networks, devices, sent, gone>>

AllAnswered ==
  /\ job.at = "serving" /\ job.reached = {}
  /\ job' = [job EXCEPT !.at = "sending"]
  /\ UNCHANGED <<networks, devices, sent, gone>>

\* One dispatcher that fails takes the answers of all with it, and a socket that fails
\* those that were not sent yet.
Fail ==
  /\ job.at # "idle" /\ (job.reached # {} \/ job.replies # <<>>)
  /\ job' = Idle
  /\ UNCHANGED <<networks, devices, sent, gone>>

SendNext ==
  /\ job.at = "sending"
  /\ IF job.replies = <<>> THEN job' = Idle /\ UNCHANGED sent
     ELSE /\ sent' = sent \cup {Head(job.replies)}
          /\ job' = [job EXCEPT !.replies = Tail(@)]
  /\ UNCHANGED <<networks, devices, gone>>

Edit ==
  \/ \E network \in Networks : AddNetwork(network) \/ RemoveNetwork(network)
  \/ \E address \in Addresses : RemoveDevice(address) \/ \E device \in Devices : InsertDevice(address, device)

Serve == AnswerNext \/ AllAnswered \/ Fail \/ SendNext

-----------------------------------------------------------------------------
\* Every answer a device gives comes from where the request was for, under that device's
\* own address, and goes to who asked, not to the BBMD that carried the request: whatever
\* the host does to the table meanwhile, and however many devices answer one frame.
AnsweredByTheAsked ==
  \A reply \in sent : reply.source # None =>
    /\ LET for == reply.frame.destination IN
         for.network # GLOBAL_BROADCAST =>
           reply.source.network = for.network /\ (for.mac # None => reply.source = for)
    /\ reply.frame.origin # None => reply.to = reply.frame.origin
    /\ reply.frame.request.type = "WhoIs" => reply.device \in reply.frame.request.asks

=============================================================================
