---------------------------- MODULE ApplicationLayer ----------------------------
(***************************************************************************)
(* What `src/app/mod.rs` offers to a host that sends requests itself, each *)
(* of them a table of its own: `InvokeIdManager`, `TransactionManager` and *)
(* `ApplicationPriorityQueue`; and the `ApplicationLayerHandler` that      *)
(* answers what peers ask.  Nothing in the crate is such a host.  The one  *)
(* here asks for an ID for each request, starts a transaction, queues the  *)
(* request and tells the manager of answers, which come late and again, by *)
(* a call each; any of them may be refused; and it releases the ID of what *)
(* ended and drops what is complete when it likes.                         *)
(***************************************************************************)
EXTENDS Naturals, Sequences, FiniteSets, SequencesExt

CONSTANTS
  None,
  Ids,              \* invoke IDs there are
  MaxTransactions,  \* TransactionManager.max_transactions
  MaxQueue,         \* ApplicationPriorityQueue.max_queue_size
  Supported,        \* SupportedServices.confirmed
  Services,         \* what peers ask for
  MaxRequests       \* bounds the requests

HostAssumption == Ids \in Nat \ {0}

VARIABLES
  next_invoke,   \* InvokeIdManager.next_id
  active_ids,    \* InvokeIdManager.active_ids
  transactions,  \* TransactionManager.transactions
  queue,         \* the messages of each priority, the last pushed last
  handlers,      \* the services whose processor is set
  reply,         \* what process_apdu last returned
  requests       \* the host's: the ID of each request, and how far it is

tables == <<next_invoke, active_ids, transactions, queue, requests>>
handler == <<handlers, reply>>
host == <<tables, handler>>

Priorities == {"high", "normal", "low"}
NoMessages == [p \in Priorities |-> <<>>]

Init ==
  /\ next_invoke = 0 /\ active_ids = {} /\ transactions = <<>> /\ queue = NoMessages
  /\ handlers = {} /\ reply = None
  /\ requests = <<>>

-----------------------------------------------------------------------------
(* Invoke IDs *)

FreeFrom(id) == {k \in 0..(Ids - 1) : (id + k) % Ids \notin active_ids}
\* next_id: the first from the next on that is not active, or None.
NextId ==
  LET free == FreeFrom(next_invoke) IN
  IF free = {} THEN None ELSE (next_invoke + (CHOOSE k \in free : \A j \in free : k <= j)) % Ids

\* The host remembers what else was active then.
TakeId ==
  /\ Len(requests) < MaxRequests /\ NextId # None
  /\ active_ids' = active_ids \cup {NextId}
  /\ next_invoke' = (NextId + 1) % Ids
  /\ requests' = Append(requests,
       [invoke_id |-> NextId, at |-> "named", answered |-> FALSE, ended |-> FALSE,
        released |-> FALSE, beside |-> active_ids])
  /\ UNCHANGED <<transactions, queue>>

\* release_id, of what has ended for the host.
Release(r) ==
  /\ requests[r].ended /\ ~requests[r].released
  /\ active_ids' = active_ids \ {requests[r].invoke_id}
  /\ requests' = [requests EXCEPT ![r].released = TRUE]
  /\ UNCHANGED <<next_invoke, transactions, queue>>

-----------------------------------------------------------------------------
(* Transactions *)

Awaiting(t) == t.state = "AwaitConfirmation"
With(id) == {i \in DOMAIN transactions : transactions[i].invoke_id = id}

Admits(id) ==
  Len(transactions) < MaxTransactions /\ \A i \in With(id) : ~Awaiting(transactions[i])

\* start_transaction, which tells the host of a refusal.
Start(r) ==
  LET id == requests[r].invoke_id IN
  /\ requests[r].at = "named"
  /\ IF Admits(id)
       THEN /\ transactions' = Append(transactions,
                 [invoke_id |-> id, of |-> r, state |-> "AwaitConfirmation", behind |-> With(id) # {}])
            /\ requests' = [requests EXCEPT ![r].at = "started"]
       ELSE /\ requests' = [requests EXCEPT ![r].at = "refused", ![r].ended = TRUE]
            /\ UNCHANGED transactions
  /\ UNCHANGED <<next_invoke, active_ids, queue>>

\* complete_transaction, and so error_, reject_ and abort_transaction: the first with the
\* ID, complete or not.
Completed(id) ==
  IF With(id) = {} THEN transactions
  ELSE [transactions EXCEPT ![CHOOSE i \in With(id) : \A j \in With(id) : i <= j].state = "Complete"]

\* What is left of a table when only the entries at some places are retained.
Kept(table, places) ==
  [n \in 1..Cardinality(places) |->
     table[CHOOSE i \in places : Cardinality({j \in places : j < i}) = n - 1]]

\* A mutant of the next: what still awaits is dropped.
CleanupAwaiting == Kept(transactions, {i \in DOMAIN transactions : ~Awaiting(transactions[i])})
\* cleanup_completed
CleanupCompleted ==
  Kept(transactions, {i \in DOMAIN transactions : transactions[i].state # "Complete"})

Cleanup ==
  /\ transactions' = CleanupCompleted
  /\ UNCHANGED <<next_invoke, active_ids, queue, requests>>

-----------------------------------------------------------------------------
(* The queue *)

\* enqueue: of a full queue the host learns, and ends the transaction.
Enqueue(r, priority) ==
  /\ requests[r].at = "started"
  /\ IF Len(queue[priority]) < MaxQueue
       THEN /\ queue' = [queue EXCEPT ![priority] = Append(@, r)]
            /\ requests' = [requests EXCEPT ![r].at = "queued"]
            /\ UNCHANGED transactions
       ELSE /\ transactions' = Completed(requests[r].invoke_id)
            /\ requests' = [requests EXCEPT ![r].at = "unsent", ![r].ended = TRUE]
            /\ UNCHANGED queue
  /\ UNCHANGED <<next_invoke, active_ids>>

Urgent(priority) ==
  \A other \in Priorities : queue[other] # <<>> =>
    \/ priority = "high" \/ priority = other
    \/ priority = "normal" /\ other = "low"

\* dequeue: of the most urgent the last, which goes out.
Dequeue(priority) ==
  /\ queue[priority] # <<>> /\ Urgent(priority)
  /\ queue' = [queue EXCEPT ![priority] = Front(@)]
  /\ requests' = [requests EXCEPT ![Last(queue[priority])].at = "sent"]
  /\ UNCHANGED <<next_invoke, active_ids, transactions>>

\* clear: the requests are never sent, and the manager is not told.
Clear ==
  /\ queue # NoMessages
  /\ queue' = NoMessages
  /\ requests' = [r \in DOMAIN requests |->
                    IF requests[r].at = "queued" THEN [requests[r] EXCEPT !.at = "unsent"]
                                                 ELSE requests[r]]
  /\ UNCHANGED <<next_invoke, active_ids, transactions>>

-----------------------------------------------------------------------------
(* Answers, and the host's patience *)

\* An answer to a request that was sent, for the first time or again, is known by its ID.
Answer(r) ==
  /\ requests[r].at = "sent"
  /\ transactions' = Completed(requests[r].invoke_id)
  /\ requests' = [requests EXCEPT ![r].answered = TRUE, ![r].ended = TRUE]
  /\ UNCHANGED <<next_invoke, active_ids, queue>>

\* The host waits no longer, or sees that a request went nowhere: abort_transaction.
GiveUp(r) ==
  /\ requests[r].at \in {"sent", "unsent"} /\ ~requests[r].ended
  /\ transactions' = Completed(requests[r].invoke_id)
  /\ requests' = [requests EXCEPT ![r].ended = TRUE]
  /\ UNCHANGED <<next_invoke, active_ids, queue>>

TablesNext ==
  /\ \/ TakeId \/ Cleanup \/ Clear
     \/ \E r \in DOMAIN requests : Start(r) \/ Answer(r) \/ GiveUp(r) \/ Release(r)
     \/ \E r \in DOMAIN requests, priority \in Priorities : Enqueue(r, priority)
     \/ \E priority \in Priorities : Dequeue(priority)
  /\ UNCHANGED handler

-----------------------------------------------------------------------------
(* ApplicationLayerHandler.  Its own TransactionManager holds none, as nothing starts one *)
(* through the handler: what it is told of answers changes nothing.                       *)

\* process_confirmed_request: of what is supported only ReadProperty is, and only with a
\* processor, which may fail; segmented or not.
ProcessConfirmed(service, id, processed) ==
  /\ reply' = [invoke_id |-> id, says |->
       CASE service \notin Supported \/ service # "ReadProperty" -> "reject"
         [] service \in Supported /\ service = "ReadProperty" /\ "ReadProperty" \notin handlers -> "abort"
         [] service \in Supported /\ service = "ReadProperty" /\ "ReadProperty" \in handlers ->
              IF processed THEN "ack" ELSE "error"]
  /\ UNCHANGED handlers

\* process_unconfirmed_request: a Who-Is is answered with an I-Am, by a processor that has one.
ProcessUnconfirmed(service, announces) ==
  /\ reply' = IF service = "WhoIs" /\ "WhoIs" \in handlers /\ announces THEN [says |-> "i_am"] ELSE None
  /\ UNCHANGED handlers

\* process_simple_ack, process_complex_ack, process_error, process_reject and process_abort
ProcessAnswer == reply' = None /\ UNCHANGED handlers

\* set_read_property_handler, set_who_is_handler
SetHandler(service) ==
  /\ handlers' = handlers \cup {service}
  /\ UNCHANGED reply

HandlerNext ==
  /\ \/ \E service \in Services, id \in 0..(Ids - 1), processed \in BOOLEAN :
          ProcessConfirmed(service, id, processed)
     \/ \E service \in {"WhoIs", "Other"}, announces \in BOOLEAN : ProcessUnconfirmed(service, announces)
     \/ ProcessAnswer
     \/ \E service \in {"ReadProperty", "WhoIs"} : SetHandler(service)
  /\ UNCHANGED tables

Spec == Init /\ [][TablesNext \/ HandlerNext]_host

-----------------------------------------------------------------------------
\* The ID of a request is its own until it is released, and comes round again only after
\* every other was in use.
IdsComeRound ==
  /\ active_ids = {requests[r].invoke_id : r \in {q \in DOMAIN requests : ~requests[q].released}}
  /\ \A q, r \in DOMAIN requests : q < r /\ requests[q].invoke_id = requests[r].invoke_id =>
       /\ requests[q].released
       /\ \A id \in 0..(Ids - 1) \ {requests[r].invoke_id} :
            \/ id \in requests[q].beside
            \/ \E between \in (q + 1)..(r - 1) : requests[between].invoke_id = id

\* An earlier request with the ID was sent, and its answer may come late.
MayCross(r) ==
  \E q \in 1..(r - 1) : requests[q].at = "sent" /\ requests[q].invoke_id = requests[r].invoke_id

\* A request that ended has its transaction complete, but behind a complete one with its ID
\* that the host has not cleaned up in time; and one that has not ended keeps its
\* transaction, and keeps it open, but for a late answer to the last request with its ID.
\* No ID has two that await, and none is given again before it is released, or before all
\* others were in use.
AnsweredIsComplete ==
  /\ \A i, j \in DOMAIN transactions :
       transactions[i].invoke_id = transactions[j].invoke_id /\ i < j => ~Awaiting(transactions[i])
  /\ \A i \in DOMAIN transactions : LET t == transactions[i] IN
       IF requests[t.of].ended THEN ~Awaiting(t) \/ t.behind ELSE Awaiting(t) \/ MayCross(t.of)
  /\ \A r \in DOMAIN requests :
       requests[r].at \in {"started", "queued", "unsent", "sent"} /\ ~requests[r].ended =>
         (\E i \in DOMAIN transactions : transactions[i].of = r) \/ MayCross(r)
  /\ IdsComeRound

=============================================================================
