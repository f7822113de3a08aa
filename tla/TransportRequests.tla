--------------------------- MODULE TransportRequests ---------------------------
(***************************************************************************)
(* The requests that a transport of `src/transport/mod.rs` keeps the time  *)
(* of, in `BacnetIpTransport.active_requests` or in a `TimeoutManager`,    *)
(* which do the same.  The host sends requests, is told which ran out when *)
(* it asks, and completes those that were answered.  Nothing keeps an ID   *)
(* from being given again while a request that has it is active.           *)
(***************************************************************************)
EXTENDS Naturals, Sequences, FiniteSets, Functions

CONSTANTS
  Ids,       \* the last invoke ID, 255: they start at 1
  Timeouts,  \* what a request is given
  MaxSends,  \* bounds the requests
  MaxClock   \* bounds the time

VARIABLES
  active,   \* ID -> when its request started and the timeout it was given
  next_id,  \* the ID of the next request
  clock,    \* the time
  sent      \* every request: its ID, start, timeout and how it ended, if it did (history)

requests == <<active, next_id, clock, sent>>

Init == active = <<>> /\ next_id = 1 /\ clock = 0 /\ sent = <<>>

Following(id) == IF id = Ids THEN 1 ELSE id + 1

Ended(ids, how) ==
  [n \in DOMAIN sent |->
     IF sent[n].id \in ids /\ sent[n].ended = "no" THEN [sent[n] EXCEPT !.ended = how, !.at = clock]
     ELSE sent[n]]

\* send_confirmed_request and start_request: the request is tracked before it is sent, and
\* stays so if that fails and the host is not told its ID.
SendConfirmedRequest(timeout) ==
  /\ Len(sent) < MaxSends
  /\ next_id' = Following(next_id)
  /\ active' = [id \in DOMAIN active \cup {next_id} |->
                  IF id = next_id THEN [start |-> clock, timeout |-> timeout] ELSE active[id]]
  /\ sent' = Append(Ended({next_id}, "overwritten"),
                    [id |-> next_id, start |-> clock, timeout |-> timeout,
                     ended |-> "no", at |-> clock])
  /\ UNCHANGED clock

Forget(ids, how) ==
  /\ active' = Restrict(active, DOMAIN active \ ids)
  /\ sent' = Ended(ids, how)
  /\ UNCHANGED <<next_id, clock>>

Elapsed(id) == clock - active[id].start
Late == {id \in DOMAIN active : Elapsed(id) > active[id].timeout}

CheckTimeouts == Forget(Late, "timed_out")
CompleteRequest(id) == id \in DOMAIN active /\ Forget({id}, "completed")

\* TimeoutManager.clear
Clear == Forget(DOMAIN active, "cleared")

\* TimeoutManager.remaining_time
RemainingTime(id) ==
  IF Elapsed(id) < active[id].timeout THEN active[id].timeout - Elapsed(id) ELSE 0

Tick == clock < MaxClock /\ clock' = clock + 1 /\ UNCHANGED <<active, next_id, sent>>

Next ==
  \/ \E timeout \in Timeouts : SendConfirmedRequest(timeout)
  \/ \E id \in 1..Ids : CompleteRequest(id)
  \/ CheckTimeouts \/ Clear \/ Tick

Spec == Init /\ [][Next]_requests

-----------------------------------------------------------------------------
Open(n) == sent[n].ended = "no"

\* Although IDs wrap and are given again without a look at who has them, a request that was
\* sent is tracked, with the time it was given, until it ends; only the request that comes a
\* whole cycle of IDs later takes its place; and it is said to have timed out only when its
\* own time is over, when remaining_time has nothing left for it.
TrackedForACycle ==
  /\ DOMAIN active = {sent[n].id : n \in {k \in DOMAIN sent : Open(k)}}
  /\ \A n \in DOMAIN sent :
       /\ Open(n) => /\ active[sent[n].id] = [start |-> sent[n].start, timeout |-> sent[n].timeout]
                     /\ \A m \in DOMAIN sent : Open(m) /\ sent[m].id = sent[n].id => m = n
       /\ sent[n].ended = "overwritten" => n + Ids \in DOMAIN sent
       /\ sent[n].ended = "timed_out" => sent[n].at - sent[n].start > sent[n].timeout
  /\ \A id \in Late : RemainingTime(id) = 0

=============================================================================
