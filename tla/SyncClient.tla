------------------------------ MODULE SyncClient ------------------------------
(***************************************************************************)
(* The blocking client: `BacnetClient` of `src/client/mod.rs`.  One        *)
(* call is under way at a time, over one socket, in whose buffer and on    *)
(* whose network the answers to earlier calls are still about, late and    *)
(* repeated.  A call takes what comes from the address it asked with the   *)
(* invoke ID it used; a discovery takes every announcement that comes      *)
(* before its time is up.                                                  *)
(***************************************************************************)
EXTENDS Naturals, FiniteSets, Functions

CONSTANTS
  None,
  Ids,         \* invoke IDs there are
  Retries,     \* how often a request is sent again
  Addresses,   \* UDP addresses of devices and routers
  Properties,  \* what can be read
  ObjectList,  \* the property that lists a device's objects, another
  Objects,     \* objects whose properties are read together
  Devices,     \* instances announced in I-Am
  Networks,    \* networks announced in I-Am-Router
  MaxCalls     \* bounds the calls

SyncAssumption == Ids \in Nat \ {0} /\ Retries \in Nat

VARIABLES
  next_id,  \* InvokeIdAllocator.next
  call,     \* the call under way, or None
  wire,     \* requests and answers on their way, socket buffers included
  calls,    \* how many there were (it bounds the run)
  asked,    \* how many of them sent a request, which numbers it (history)
  result   \* what the calls have returned (history)

vars == <<next_id, call, wire, calls, asked, result>>

Init == next_id = 0 /\ call = None /\ wire = {} /\ calls = 0 /\ asked = 0 /\ result = <<>>

Begins(new) == call = None /\ calls < MaxCalls /\ calls' = calls + 1 /\ call' = new

-----------------------------------------------------------------------------
\* send_confirmed_request
Request(id, to, service, property, of) ==
  [kind |-> "request", id |-> id, to |-> to, service |-> service, property |-> property, of |-> of]

Start(to, service, property) ==
  LET request == Request(next_id, to, service, property, asked) IN
  /\ Begins([kind |-> "request", request |-> request, attempt |-> 0])
  /\ next_id' = (next_id + 1) % Ids /\ asked' = asked + 1
  /\ wire' = wire \cup {request}
  /\ UNCHANGED result

ReadProperty(to, property) == Start(to, "read", property)
WriteProperty(to, property) == Start(to, "write", property)
ReadObjectList(to) == Start(to, "read", ObjectList)
\* All the properties of an object, by one ReadPropertyMultiple.
ReadObjectProperties(to, object) == Start(to, "snapshot", object)

Asking == call # None /\ call.kind = "request"

\* A mutant of the next: the invoke ID of an answer is not looked at.
MatchesAddress(frame) == frame.kind = "answer" /\ frame.from = call.request.to
\* interpret_confirmed_response, and the check of the source before it.
Matches(frame) ==
  /\ frame.kind = "answer" /\ frame.from = call.request.to
  /\ frame.id = call.request.id

\* read_property_response: an acknowledgement of another service holds no such property.
TheProperty(frame) == frame.service = "read" /\ frame.property = call.request.property

\* read_all_properties_rpm: the results must name the object.
TheObject(frame) ==
  frame.service = "snapshot" /\ frame.property = call.request.property /\ frame.says # "odd"

\* decode_object_list_value: every value must be an identifier.
Listed(frame) == call.request.property = ObjectList => frame.says # "odd"

\* What the caller can make of an acknowledgement; that of a write says nothing.
Understood(frame) ==
  \/ call.request.service = "read" /\ TheProperty(frame) /\ Listed(frame)
  \/ call.request.service = "snapshot" /\ TheObject(frame)
  \/ call.request.service = "write"

Outcome(frame) ==
  IF frame.says = "refused" THEN "refused"
  ELSE IF Understood(frame) THEN "ack" ELSE "decode error"

Returns(outcome, answer) ==
  /\ result' = <<[call |-> call, outcome |-> outcome, answer |-> answer]>>
  /\ call' = None

Receive(frame) ==
  /\ Asking /\ Matches(frame)
  /\ Returns(Outcome(frame), frame)
  /\ UNCHANGED <<next_id, wire, calls, asked>>

\* What does not match is skipped and gone.
Skip(frame) ==
  /\ Asking /\ frame.kind # "request" /\ ~Matches(frame)
  /\ wire' = wire \ {frame}
  /\ UNCHANGED <<next_id, call, calls, asked, result>>

\* An attempt's time is up: another, with the same frame, or none.
AttemptEnds ==
  /\ Asking
  /\ IF call.attempt < Retries
     THEN /\ call' = [call EXCEPT !.attempt = @ + 1]
          /\ wire' = wire \cup {call.request}
          /\ UNCHANGED result
     ELSE Returns("timeout", None) /\ UNCHANGED wire
  /\ UNCHANGED <<next_id, calls, asked>>

-----------------------------------------------------------------------------
\* who_is_to, who_is_network and who_is_router_to, up to where they wait.
StartDiscovery(kind) ==
  /\ Begins([kind |-> kind, found |-> {}, heard |-> {}])
  /\ UNCHANGED <<next_id, wire, asked, result>>

Discovering(kind) == call # None /\ call.kind = kind

\* collect_iam_responses: of several that announce one instance, the first is kept.
CollectIAm(frame) ==
  /\ Discovering("devices") /\ frame.kind = "IAm"
  /\ call' = [call EXCEPT
       !.heard = @ \cup {frame},
       !.found = IF \E one \in @ : one.device = frame.device THEN @
                 ELSE @ \cup {[device |-> frame.device, address |-> frame.from]}]
  /\ UNCHANGED <<next_id, wire, calls, asked, result>>

\* A router may need several messages for its networks.
Merge(found, frame) ==
  LET before == {one \in found : one.address = frame.from} IN
  (found \ before) \cup
    {[address |-> frame.from,
      networks |-> frame.networks \cup UNION {one.networks : one \in before}]}

\* collect_router_responses
CollectRouter(frame) ==
  /\ Discovering("routers") /\ frame.kind = "IAmRouter"
  /\ call' = [call EXCEPT !.heard = @ \cup {frame}, !.found = Merge(@, frame)]
  /\ UNCHANGED <<next_id, wire, calls, asked, result>>

DiscoveryEnds ==
  /\ Discovering("devices") \/ Discovering("routers")
  /\ Returns("found", None)
  /\ UNCHANGED <<next_id, wire, calls, asked>>

-----------------------------------------------------------------------------
\* The devices: they answer a request whenever it arrives, each time it does, and announce
\* themselves when they like. Frames are lost when they are never taken.
\* Answers to one request that are under way at once say the same, which bounds the states.
\* An odd acknowledgement leaves out the object that was asked for, or lists what is none.
DeviceAnswers(request, says) ==
  /\ request.kind = "request"
  /\ \A frame \in wire : frame.kind = "answer" /\ frame.of = request.of => frame.says = says
  /\ says = "odd" => request.service = "snapshot" \/ request.property = ObjectList
  /\ wire' = wire \cup {[kind |-> "answer", from |-> request.to, id |-> request.id, says |-> says,
                         service |-> request.service, property |-> request.property,
                         of |-> request.of]}
  /\ UNCHANGED <<next_id, call, calls, asked, result>>

Announcements ==
  [kind : {"IAm"}, from : Addresses, device : Devices]
    \cup [kind : {"IAmRouter"}, from : Addresses, networks : {{n} : n \in Networks}]

Next ==
  \/ \E to \in Addresses :
       \/ \E property \in Properties : ReadProperty(to, property) \/ WriteProperty(to, property)
       \/ ReadObjectList(to)
       \/ \E object \in Objects : ReadObjectProperties(to, object)
  \/ \E frame \in wire : Receive(frame) \/ Skip(frame)
  \/ AttemptEnds
  \/ \E kind \in {"devices", "routers"} : StartDiscovery(kind)
  \/ \E frame \in Announcements : CollectIAm(frame) \/ CollectRouter(frame)
  \/ DiscoveryEnds
  \/ \E request \in wire, says \in {"ack", "odd", "refused"} : DeviceAnswers(request, says)

Spec == Init /\ [][Next]_vars

-----------------------------------------------------------------------------
\* What a call returns belongs to it. The answer to a request is the device's answer to that
\* request, or to one that used the same invoke ID a whole cycle of IDs before; and what was
\* read is what was asked for even then. A discovery lists whatever announced itself once:
\* a device under one address, a router with all the networks it named.
AnswersBelong ==
  \A returned \in Range(result) :
    /\ returned.answer # None =>
         /\ returned.answer.from = returned.call.request.to
         /\ (returned.call.request.of - returned.answer.of) % Ids = 0
         /\ returned.call.request.service # "write" /\ returned.outcome = "ack" =>
              /\ returned.answer.property = returned.call.request.property
              /\ returned.answer.service = returned.call.request.service
    /\ returned.outcome = "found" =>
         LET found == returned.call.found IN
         /\ returned.call.kind = "routers" =>
              \A one, other \in found : one.address = other.address => one = other
         /\ returned.call.kind = "devices" =>
              \A one, other \in found : one.device = other.device => one = other
         /\ \A frame \in returned.call.heard : \E one \in found :
              IF returned.call.kind = "routers"
              THEN one.address = frame.from /\ frame.networks \subseteq one.networks
              ELSE one.device = frame.device

=============================================================================
