------------------------------ MODULE Dispatcher ------------------------------
(***************************************************************************)
(* What one hosted device answers to one request: `src/server/             *)
(* dispatcher.rs`, and `answer` of `src/server/bip.rs` around it.  A       *)
(* request is a record of what the answer depends on:                      *)
(*   type       WhoIs, Confirmed, Reply (to a request of the device's own),*)
(*              Garbled (no APDU could be read) or Other;                  *)
(*   asks       the device instances a Who-Is names, none when its range   *)
(*              cannot be read;                                            *)
(*   segmented, supported, accepts  of a Confirmed request: whether it is a*)
(*              segment, asks a service there is, takes segmented answers; *)
(*   content    what the object service makes of a Confirmed request, and  *)
(*              what the first octets of a Garbled one tell;               *)
(*   source     the address the NPDU names as its source, or None.         *)
(* An answer is a sequence of at most one response.  What a Reply does to  *)
(* the device's transactions is ServerTransactions.                        *)
(***************************************************************************)
EXTENDS Sequences

CONSTANT None

Abort(reason) == [type |-> "Abort", reason |-> reason]
Reject(reason) == [type |-> "Reject", reason |-> reason]
Respond(type) == [type |-> type, reason |-> None]

\* dispatch_confirmed: the service, its parameters, what the objects say.
DispatchConfirmed(request) ==
  CASE ~request.supported -> Reject("UnrecognizedService")
    [] request.content = "Misfit" -> Reject("InvalidTag")
    [] request.content = "Refused" -> Respond("Error")
    [] OTHER -> Respond("Ack")

\* enforce_max_apdu: an answer longer than asker or device can hold.
Enforced(request, response) ==
  IF response.type # "Ack" \/ request.content # "Long" THEN response
  ELSE Abort(IF request.accepts THEN "SegmentationNotSupported" ELSE "ApduTooLong")

Dispatch(device, request) ==
  CASE request.type = "WhoIs" /\ device \in request.asks -> <<Respond("IAm")>>
    [] request.type = "Confirmed" /\ request.segmented -> <<Abort("SegmentationNotSupported")>>
    [] request.type = "Confirmed" /\ ~request.segmented
         -> <<Enforced(request, DispatchConfirmed(request))>>
    [] OTHER -> <<>>

\* response_for_undecodable_apdu: only what starts like a confirmed request and has its
\* invoke id is told that it could not be read.
Undecodable(request) ==
  CASE request.content = "Segment" -> <<Abort("SegmentationNotSupported")>>
    [] request.content = "UnknownService" -> <<Reject("UnrecognizedService")>>
    [] request.content = "Misfit" -> <<Reject("InvalidTag")>>
    [] OTHER -> <<>>

Answer(device, request) ==
  IF request.type = "Garbled" THEN Undecodable(request) ELSE Dispatch(device, request)

\* Every response goes back to the address the request's NPDU came from, if it named one.
Response(request, apdu) == [apdu |-> apdu, destination |-> request.source]

=============================================================================
